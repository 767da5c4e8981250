----------------------------- MODULE HttpFetch -----------------------------
(***************************************************************************)
(* The fetching side of one worker process: ScrapeWorker._fetch with its   *)
(* cache of HttpFetchers (services/worker.py), the retries, redirects and  *)
(* host limiter of each fetcher (fetchers/http.py), the shared robots.txt  *)
(* cache (fetchers/robots.py) and the browser (fetchers/browser.py).  A    *)
(* worker runs one scrape at a time; what interleaves with it is time, the *)
(* answers of the sites and the watchdog that cancels a scrape.            *)
(*                                                                         *)
(* Time is kept in timers that Tick advances: `since' counts up from a     *)
(* recorded start to MaxGap, after which nothing distinguishes it from a   *)
(* host never visited; `sleep' and the life of a robots entry count down.  *)
(***************************************************************************)
EXTENDS FetchPolicy, FiniteSets

CONSTANTS
    Targets,         \* claimed targets: [url, allowedHosts, fetcher, mode]
    Fetchers,        \* the (timeout, retries, interval) keys of the worker
    Interval, Retries,  \* what a key configures
    MaxRedirects, RespectRobots, CacheSeconds,
    Responses, Resolutions, RobotsFiles, Navigations,  \* what the sites do
    MaxGap,          \* the longest time that is told apart
    Never            \* a server's demand that the fetch be given up

Hosts == {Canon[h] : h \in DOMAIN Canon} \ {None}
RobotsKeys == {RobotsUrl(t.url) : t \in Targets}
Delays == {RobotsDelay(f) : f \in RobotsFiles} \ {None}

\* what a robots.txt that is missing stands for
AllowAll == [disallow |-> {}, crawl |-> None, rate |-> None]
RobotsEntry == [file : RobotsFiles \union {AllowAll}, life : 0 .. CacheSeconds]

ASSUME TargetAssumption ==
    /\ None \notin Targets
    /\ \A t \in Targets : /\ t.fetcher \in Fetchers
                          /\ t.mode \in {"http", "browser"}
                          /\ t.url.host \in DOMAIN Canon
                          /\ Canon[t.url.host] \in Hosts
                          /\ t.allowedHosts \subseteq DOMAIN Canon

ASSUME ResponseAssumption ==
    \A r \in Responses : /\ r.after.n \in Int
                         /\ r.after.form # "date" => r.after.n >= 0

ASSUME SettingAssumption ==
    /\ MaxGap \in Nat /\ MaxRedirects \in Nat /\ CacheSeconds \in Nat
    /\ MaxRetryAfter \in 0 .. MaxGap
    /\ Retries \in [Fetchers -> Nat] /\ Interval \in [Fetchers -> 0 .. MaxGap]
    /\ RespectRobots \in BOOLEAN
    /\ Delays \subseteq 0 .. MaxGap
    /\ Never \notin Nat /\ None \notin RobotsEntry

ASSUME BackoffAssumption ==
    \A n \in UNION {0 .. Retries[k] : k \in Fetchers} : BackoffBase * 2 ^ n \in Nat

VARIABLES
    since,         \* limiter of each fetcher: time since _last_started[host]
    hostInterval,  \* limiter of each fetcher: _host_intervals[host]
    robots,        \* RobotsTxtPolicy._cache: None or [file, life]
    pc,            \* where the scrape's fetch stands
    target,        \* the target being fetched
    stage,         \* which call: "robots" (fetch_text), "page" or "browser"
    attempt, url, visited,  \* of fetch / _fetch_attempt
    sleep,         \* what is left of the current sleep
    quiet,         \* ghost: time since the fetcher's last request to the host
    hold           \* ghost: time the server still asked us to stay away

vars == <<since, hostInterval, robots, pc, target, stage, attempt, url,
          visited, sleep, quiet, hold>>
limiter == <<since, hostInterval, quiet>>
call == <<target, stage, attempt>>

Init ==
    /\ since = [k \in Fetchers |-> [h \in Hosts |-> MaxGap]]
    /\ hostInterval = [k \in Fetchers |-> [h \in Hosts |-> 0]]
    /\ robots = [o \in RobotsKeys |-> None]
    /\ pc = "idle" /\ target = None /\ stage = "none" /\ attempt = 0
    /\ url = None /\ visited = {} /\ sleep = 0
    /\ quiet = since /\ hold = 0

key == target.fetcher
entry == robots[RobotsUrl(target.url)]

Begin(s, u) == /\ pc' = "hop" /\ stage' = s /\ attempt' = 0
               /\ url' = u /\ visited' = {} /\ sleep' = 0

\* the scrape's fetch is over, with a page or with an error
Finish == /\ pc' = "idle" /\ target' = None /\ stage' = "none" /\ attempt' = 0
          /\ url' = None /\ visited' = {} /\ sleep' = 0

-----------------------------------------------------------------------------
(* ScrapeWorker._fetch: robots first, then the page                         *)

BeginPage(t) == Begin(IF t.mode = "http" THEN "page" ELSE "browser", t.url)

\* Mutant of Start: a browser page is fetched without asking robots.txt.
StartBrowserUnasked(t) ==
    /\ pc = "idle" /\ target' = t
    /\ IF ~ RespectRobots \/ t.mode = "browser" THEN BeginPage(t)
       ELSE Begin("robots", RobotsUrl(t.url))
    /\ UNCHANGED <<limiter, robots, hold>>

Start(t) ==
    /\ pc = "idle"
    /\ target' = t
    /\ IF ~ RespectRobots THEN BeginPage(t)
       ELSE LET e == robots[RobotsUrl(t.url)]
            IN  IF e = None THEN Begin("robots", RobotsUrl(t.url))
                ELSE IF e.life = 0 THEN Begin("robots", RobotsUrl(t.url))
                ELSE /\ pc' = "decide" /\ stage' = "robots"
                     /\ UNCHANGED <<attempt, url, visited, sleep>>
    /\ UNCHANGED <<limiter, robots, hold>>

RequireHostInterval(h, seconds) ==
    hostInterval' = [hostInterval EXCEPT ![key][h] = Larger(@, seconds)]

\* RobotsTxtPolicy.check and enforce, with the entry in hand
Decide ==
    /\ pc = "decide"
    /\ LET delay == RobotsDelay(entry.file)
       IN  IF delay = None THEN UNCHANGED hostInterval
           ELSE RequireHostInterval(Canon[target.url.host], delay)
    /\ IF target.url.path \in entry.file.disallow
       THEN Finish
       ELSE BeginPage(target) /\ UNCHANGED target
    /\ UNCHANGED <<since, robots, quiet, hold>>

-----------------------------------------------------------------------------
(* _fetch_attempt up to the request, with _HostRateLimiter.wait             *)

\* the request leaves; the host's start is recorded unless nothing paces it
Send(h, paced) ==
    /\ pc' = "sent"
    /\ since' = IF paced THEN [since EXCEPT ![key][h] = 0] ELSE since
    /\ quiet' = [quiet EXCEPT ![key][h] = 0]
    /\ visited' = visited \union {url}

\* Mutant of Wait: the delay of a robots.txt file does not count.
WaitOwnInterval(h) ==
    IF Interval[key] > since[key][h]
    THEN /\ pc' = "waiting" /\ sleep' = Interval[key] - since[key][h]
         /\ UNCHANGED <<since, quiet, visited>>
    ELSE Send(h, Interval[key] > 0) /\ UNCHANGED sleep

Wait(h) ==
    LET interval == Larger(Interval[key], hostInterval[key][h])
    IN  IF interval - since[key][h] > 0
        THEN /\ pc' = "waiting" /\ sleep' = interval - since[key][h]
             /\ UNCHANGED <<since, quiet, visited>>
        ELSE /\ Send(h, interval > 0) /\ UNCHANGED sleep

\* Mutant of Fail: one attempt too many.
FailLate(e) ==
    IF e.retryable /\ attempt <= Retries[key]
    THEN /\ pc' = "backoff" /\ sleep' = RetryDelay(e.after, attempt)
         /\ UNCHANGED <<call, url, visited, robots>>
    ELSE Finish /\ UNCHANGED robots

Fail(e) ==
    IF e.retryable /\ attempt < Retries[key]
    THEN /\ pc' = "backoff" /\ sleep' = RetryDelay(e.after, attempt)
         /\ UNCHANGED <<call, url, visited, robots>>
    ELSE IF stage = "robots" /\ e.kind = "not_found"
    THEN /\ robots' = [robots EXCEPT ![RobotsUrl(target.url)] =
                          [file |-> AllowAll, life |-> CacheSeconds]]
         /\ pc' = "decide"
         /\ UNCHANGED <<call, url, visited, sleep>>
    ELSE Finish /\ UNCHANGED robots

\* one hop: the loop check, the URL policy and the limiter
Hop ==
    /\ pc = "hop" /\ stage # "browser"
    /\ IF url \in visited
       THEN Fail(Refusal("transport")) /\ hold' = 0 /\ UNCHANGED limiter
       ELSE \E answers \in Resolutions :
              IF ValidPublicUrl(url, target.allowedHosts, answers)
              THEN Wait(Canon[url.host])
                   /\ UNCHANGED <<hostInterval, robots, call, url, hold>>
              ELSE Fail(Refusal("access_denied")) /\ hold' = 0 /\ UNCHANGED limiter

\* wait_for_host: a browser page waits before its URL is looked at
HopBrowser ==
    /\ pc = "hop" /\ stage = "browser"
    /\ Wait(Canon[url.host])
    /\ UNCHANGED <<hostInterval, robots, call, url, hold>>

Wake ==
    /\ pc = "waiting" /\ sleep = 0
    /\ Send(Canon[url.host], TRUE)
    /\ UNCHANGED <<hostInterval, robots, call, url, sleep, hold>>

-----------------------------------------------------------------------------
(* The answer                                                               *)

Accepted == IF stage = "robots" THEN TextTypes ELSE HtmlTypes

Redirect(to) == /\ pc' = "hop" /\ url' = to
                /\ UNCHANGED <<robots, call, visited, sleep>>

\* RobotsTxtPolicy._load keeps what it parsed; a page ends the fetch
Loaded ==
    IF stage = "robots"
    THEN /\ \E f \in RobotsFiles :
               robots' = [robots EXCEPT ![RobotsUrl(target.url)] =
                             [file |-> f, life |-> CacheSeconds]]
         /\ pc' = "decide"
         /\ UNCHANGED <<call, url, visited, sleep>>
    ELSE Finish /\ UNCHANGED robots

\* how long a 429 asks us to stay away
Demand(r) ==
    IF r.status # 429 THEN 0
    ELSE IF r.after.form \in {"digits", "date"} /\ r.after.n <= MaxRetryAfter
    THEN Larger(r.after.n, 0) ELSE Never

Apply(o) ==
    CASE o.tag = "redirect" -> Redirect(o.to)
      [] o.tag = "page"     -> Loaded
      [] OTHER              -> Fail(o)

Respond ==
    /\ pc = "sent" /\ stage # "browser"
    /\ \E r \in Responses :
         /\ Apply(ResponseOutcome(r, url, Cardinality(visited) - 1,
                                  MaxRedirects, Accepted))
         /\ hold' = IF pc' = "idle" THEN 0 ELSE Demand(r)
    /\ UNCHANGED limiter

Disconnect ==
    /\ pc = "sent" /\ stage # "browser"
    /\ Fail(TransportFailure)
    /\ hold' = 0
    /\ UNCHANGED limiter

\* Mutant of Retry: the attempts are not counted.
RetryUncounted ==
    /\ pc = "backoff" /\ sleep = 0
    /\ pc' = "hop" /\ visited' = {}
    /\ url' = IF stage = "robots" THEN RobotsUrl(target.url) ELSE target.url
    /\ UNCHANGED <<limiter, robots, call, sleep, hold>>

Retry ==
    /\ pc = "backoff" /\ sleep = 0
    /\ pc' = "hop" /\ attempt' = attempt + 1 /\ visited' = {}
    /\ url' = IF stage = "robots" THEN RobotsUrl(target.url) ELSE target.url
    /\ UNCHANGED <<limiter, robots, target, stage, sleep, hold>>

\* the browser is asked once: nobody retries it
Navigate ==
    /\ pc = "sent" /\ stage = "browser"
    /\ \E b \in Navigations :
         BrowserOutcome(b, url, target.allowedHosts).tag \in {"page", "error"}
    /\ Finish /\ hold' = 0
    /\ UNCHANGED <<limiter, robots>>

-----------------------------------------------------------------------------
\* the watchdog or the loss of the lease cancels the scrape where it stands
Cancel == pc # "idle" /\ Finish /\ hold' = 0 /\ UNCHANGED <<limiter, robots>>

Older(age) == IF age < MaxGap THEN age + 1 ELSE age
Down(n) == IF n > 0 THEN n - 1 ELSE n

Tick ==
    /\ since' = [k \in Fetchers |-> [h \in Hosts |-> Older(since[k][h])]]
    /\ quiet' = [k \in Fetchers |-> [h \in Hosts |-> Older(quiet[k][h])]]
    /\ robots' = [o \in RobotsKeys |-> IF robots[o] = None THEN None ELSE
                    [file |-> robots[o].file, life |-> Down(robots[o].life)]]
    /\ sleep' = Down(sleep)
    /\ hold' = IF hold = Never THEN Never ELSE Down(hold)
    /\ UNCHANGED <<hostInterval, pc, target, stage, attempt, url, visited>>

Next ==
    \/ \E t \in Targets : Start(t)
    \/ Decide \/ Hop \/ HopBrowser \/ Wake \/ Respond \/ Disconnect \/ Retry
    \/ Navigate \/ Cancel \/ Tick

Spec == Init /\ [][Next]_vars

\* the event loop runs what is due, a site answers or the client's timeout
\* does, and time passes
FairSpec ==
    /\ Spec /\ WF_vars(Tick)
    /\ WF_vars(Decide) /\ WF_vars(Hop) /\ WF_vars(HopBrowser) /\ WF_vars(Wake)
    /\ WF_vars(Respond \/ Disconnect) /\ WF_vars(Retry) /\ WF_vars(Navigate)

-----------------------------------------------------------------------------
(* Properties                                                               *)

Urls == {t.url : t \in Targets} \union RobotsKeys
          \union ({r.location : r \in Responses} \ {None})

\* Every variable keeps its shape, and what a scrape is about is there
\* exactly while it runs.
TypeOK ==
    /\ since \in [Fetchers -> [Hosts -> 0 .. MaxGap]]
    /\ hostInterval \in [Fetchers -> [Hosts -> 0 .. MaxGap]]
    /\ quiet \in [Fetchers -> [Hosts -> 0 .. MaxGap]]
    /\ robots \in [RobotsKeys -> {None} \union RobotsEntry]
    /\ pc \in {"idle", "decide", "hop", "waiting", "sent", "backoff"}
    /\ stage \in {"none", "robots", "page", "browser"}
    /\ pc = "idle" <=> target = None
    /\ pc # "idle" => target \in Targets /\ attempt \in 0 .. Retries[key]
    /\ pc \notin {"idle", "decide"} => url \in Urls
    /\ visited \subseteq Urls
    /\ sleep \in Nat /\ hold \in Nat \union {Never}

\* A request goes to a host the target lists, and an attempt that has been
\* on https never asks over http again, whatever the redirects and retries
\* on the way (the checks of _fetch_attempt are made hop by hop).
ChainSafe ==
    pc \in {"waiting", "sent"} =>
      /\ stage # "browser" =>
           Canon[url.host] \in CanonicalizeHosts(target.allowedHosts)
      /\ (\E v \in visited : v.scheme = "https") => url.scheme = "https"

\* The page of a target is not prepared, sent or repeated unless a robots.txt
\* entry of the target's origin is at hand that allows the target's own path
\* (RobotsTxtPolicy's decision is made once and then has to hold for every
\* retry; the hops of a redirect get no decision).
RobotsObeyed ==
    RespectRobots /\ stage \in {"page", "browser"} =>
      entry # None /\ target.url.path \notin entry.file.disallow

\* While a server still asks us to stay away (a 429 with a Retry-After), the
\* fetch sends nothing, and it sends nothing more when the demand was absent,
\* unreadable or too long to be kept.  The demand ends with the fetch: what
\* the next one knows of it is nothing.
RetryAfterHonoured == pc = "sent" => hold = 0

\* Requests of one fetcher to one host start no closer than its own interval
\* and, for the target's host, than the delay in the robots.txt entry that
\* admitted the page, also when another fetcher loaded that entry; a fetcher
\* with interval zero is the exception (its robots.txt request leaves
\* without being recorded).
PacedStart ==
    (pc # "sent" /\ pc' = "sent" /\ Interval[key] > 0) =>
      LET h == Canon[url.host]
      IN  /\ quiet[key][h] >= Interval[key]
          /\ (stage # "robots" /\ RespectRobots /\ h = Canon[target.url.host])
               => LET delay == RobotsDelay(entry.file)
                  IN  delay # None => quiet[key][h] >= delay
CrawlDelayKept == [][PacedStart]_vars

\* Every fetch ends, with a page or an error: redirects, attempts and delays
\* are all bounded.
FetchEnds == pc # "idle" ~> pc = "idle"
=============================================================================
