--------------------------- MODULE HttpFetchProofs ---------------------------
(***************************************************************************)
(* Proofs about HttpFetch for any targets, fetchers, robots files, answers *)
(* and bounds: hosts and schemes, robots.txt, Retry-After and the intervals*)
(* between requests.                                                       *)
(*                                                                         *)
(* The argument: what a step decides is kept until the step that uses it.  *)
(* The robots entry that admitted a page is only replaced by a fetch of    *)
(* that entry, a pause only grows shorter with the clock that the limiter  *)
(* reads, and a retry never sleeps less than the server asked for.         *)
(***************************************************************************)
EXTENDS HttpFetch, TLAPS

\* an entry that is to be decided upon is there
Ready == pc = "decide" => entry # None

\* a request that is paced or sent goes to a host; a browser navigates to the
\* target's own address
OnHost == /\ pc \in {"waiting", "sent"} => Canon[url.host] \in Hosts
          /\ stage = "browser" => url = target.url

\* from the check of an address to its request it stays a listed one
Allowed ==
    pc \in {"waiting", "sent"} /\ stage # "browser" =>
      Canon[url.host] \in CanonicalizeHosts(target.allowedHosts)

Upgraded ==
    pc \in {"hop", "waiting", "sent"} =>
      ((\E v \in visited : v.scheme = "https") => url.scheme = "https")

\* while a page is fetched its entry is there, allows it, and paces its host
Admitted ==
    RespectRobots /\ stage \in {"page", "browser"} =>
      /\ entry # None
      /\ target.url.path \notin entry.file.disallow
      /\ RobotsDelay(entry.file) # None =>
           RobotsDelay(entry.file) <= hostInterval[key][Canon[target.url.host]]

\* a sleep is at least what the server still asks for
HoldKept == /\ pc = "backoff" => hold \in Nat /\ hold <= sleep
            /\ pc # "backoff" => hold = 0

\* the limiter of a paced fetcher knows every start
Recorded == \A k \in Fetchers : Interval[k] > 0 => quiet[k] = since[k]

\* a pause ends when the interval is over
Paused ==
    pc = "waiting" =>
      Larger(Interval[key], hostInterval[key][Canon[url.host]])
        <= since[key][Canon[url.host]] + sleep

\* a fetch starts with its first attempt, and a pause has one to lead to
Counted == /\ pc = "idle" => attempt = 0
           /\ pc = "idle" <=> stage = "none"
           /\ pc = "backoff" => attempt < Retries[key]

IInv == /\ Counted /\ TypeOK /\ Ready /\ OnHost /\ Allowed /\ Upgraded /\ Admitted
        /\ HoldKept /\ Recorded /\ Paused

-----------------------------------------------------------------------------
(* Facts about the operators                                               *)

\* What a robots.txt entry asks for is a pause the limiter can keep.
LEMMA DelayTyped ==
    ASSUME NEW f \in RobotsFiles \union {AllowAll}, RobotsDelay(f) # None
    PROVE  RobotsDelay(f) \in 0 .. MaxGap
<1>1. CASE f = AllowAll BY <1>1 DEF RobotsDelay, AllowAll
<1>2. CASE f \in RobotsFiles BY <1>2, SettingAssumption DEF Delays
<1> QED BY <1>1, <1>2

\* A Retry-After that is kept is a number of seconds within the limit.
LEMMA RetryAfterTyped ==
    ASSUME NEW r \in Responses, ParseRetryAfter(r.after) # None
    PROVE  /\ ParseRetryAfter(r.after) \in 0 .. MaxRetryAfter
           /\ r.after.form \in {"digits", "date"} /\ r.after.n <= MaxRetryAfter
           /\ ParseRetryAfter(r.after) = Larger(r.after.n, 0)
BY ResponseAssumption, SettingAssumption DEF ParseRetryAfter, Larger

\* What a fetcher does about a failed attempt sleeps for a number of seconds,
\* and not less than the server asked for.
LEMMA DelayKept ==
    ASSUME NEW k \in Fetchers, NEW n \in 0 .. Retries[k], NEW a,
           a = None \/ a \in Nat
    PROVE  RetryDelay(a, n) \in Nat /\ (a # None => a <= RetryDelay(a, n))
<1>1. BackoffBase * 2 ^ n \in Nat BY BackoffAssumption
<1> DEFINE b == BackoffBase * 2 ^ n
<1>2. b \in Nat BY <1>1
<1> HIDE DEF b
<1>3. RetryDelay(a, n) = Larger(b, IF a = None THEN 0 ELSE a) BY DEF RetryDelay, b
<1> QED BY <1>2, <1>3 DEF Larger

-----------------------------------------------------------------------------
(* What the actions are made of keeps the invariant                        *)

\* The origin of a target has a place in the robots.txt cache.
LEMMA KeyKnown ==
    ASSUME TypeOK, pc # "idle"
    PROVE  /\ target \in Targets /\ key \in Fetchers
           /\ RobotsUrl(target.url) \in RobotsKeys
           /\ RobotsUrl(target.url) \in Urls /\ target.url \in Urls
           /\ Canon[target.url.host] \in Hosts
BY TargetAssumption DEF TypeOK, key, RobotsKeys, Urls

\* A fetch that is over leaves nothing to be kept.
LEMMA FinishKeeps ==
    ASSUME IInv, Finish, UNCHANGED <<limiter, robots>>, hold' = 0
    PROVE  IInv'
<1>1. TypeOK'
  BY TargetAssumption DEF IInv, TypeOK, Finish, limiter, key
<1>2. /\ Ready' /\ OnHost' /\ Allowed' /\ Upgraded' /\ Admitted'
      /\ HoldKept' /\ Paused' /\ Counted'
  BY DEF Ready, OnHost, Allowed, Upgraded, Admitted, HoldKept, Paused, Counted, Finish
<1>3. Recorded' BY DEF IInv, Recorded, limiter
<1> QED BY <1>1, <1>2, <1>3 DEF IInv

\* A failed attempt may wait, if it waits as long as it was asked to.
LEMMA BackoffKeeps ==
    ASSUME IInv, pc \in {"hop", "sent"}, pc' = "backoff", sleep' \in Nat,
           hold' \in Nat, hold' <= sleep', attempt < Retries[key],
           UNCHANGED <<call, url, visited, robots, limiter>>
    PROVE  IInv'
<1>1. TypeOK'
  BY DEF IInv, TypeOK, limiter, call, key
<1>2. /\ Ready' /\ OnHost' /\ Allowed' /\ Upgraded' /\ HoldKept' /\ Paused' /\ Counted'
  BY DEF IInv, Ready, OnHost, Allowed, Upgraded, HoldKept, Paused, Counted, call, key
<1>3. Admitted'
  BY DEF IInv, Admitted, call, limiter, entry, key
<1>4. Recorded' BY DEF IInv, Recorded, limiter
<1> QED BY <1>1, <1>2, <1>3, <1>4 DEF IInv

\* The cache is written by a fetch of robots.txt only, which decides next.
LEMMA LoadKeeps ==
    ASSUME IInv, pc \in {"hop", "sent"}, stage = "robots",
           NEW f \in RobotsFiles \union {AllowAll},
           robots' = [robots EXCEPT ![RobotsUrl(target.url)] =
                         [file |-> f, life |-> CacheSeconds]],
           pc' = "decide", hold' = 0,
           UNCHANGED <<call, url, visited, sleep, limiter>>
    PROVE  IInv'
<1> USE DEF limiter, call
<1>1. /\ target \in Targets /\ RobotsUrl(target.url) \in RobotsKeys
  BY KeyKnown DEF IInv
<1> DEFINE new == [file |-> f, life |-> CacheSeconds]
<1>2. new \in RobotsEntry /\ new # None
  BY SettingAssumption DEF RobotsEntry
<1> HIDE DEF new
<1>3. robots' = [robots EXCEPT ![RobotsUrl(target.url)] = new] BY DEF new
<1>4. TypeOK'
  BY <1>2, <1>3 DEF IInv, TypeOK, key
<1>5. Ready'
  BY <1>1, <1>2, <1>3 DEF IInv, TypeOK, Ready, entry
<1>6. /\ OnHost' /\ Allowed' /\ Upgraded' /\ Admitted' /\ HoldKept' /\ Paused' /\ Counted'
  BY DEF IInv, OnHost, Allowed, Upgraded, Admitted, HoldKept, Paused, Counted
<1>7. Recorded' BY DEF IInv, Recorded
<1> QED BY <1>4, <1>5, <1>6, <1>7 DEF IInv

\* A request leaves after the pause its host asks for, and is known to the
\* limiter whenever something paces the fetcher.
LEMMA SendKeeps ==
    ASSUME IInv, NEW paced \in BOOLEAN, Interval[key] > 0 => paced,
           pc \in {"hop", "waiting"}, Canon[url.host] \in Hosts,
           stage # "browser" => Canon[url.host] \in CanonicalizeHosts(target.allowedHosts),
           Send(Canon[url.host], paced),
           UNCHANGED <<hostInterval, robots, call, url, sleep, hold>>
    PROVE  IInv'
<1> USE DEF call
<1> DEFINE h == Canon[url.host]
<1>1. key \in Fetchers /\ h \in Hosts
  BY KeyKnown DEF IInv
<1>2. /\ pc' = "sent" /\ visited' = visited \union {url}
      /\ since' = IF paced THEN [since EXCEPT ![key][h] = 0] ELSE since
      /\ quiet' = [quiet EXCEPT ![key][h] = 0]
  BY DEF Send
<1>3. /\ since' \in [Fetchers -> [Hosts -> 0 .. MaxGap]]
      /\ quiet' \in [Fetchers -> [Hosts -> 0 .. MaxGap]]
  BY <1>1, <1>2, SettingAssumption DEF IInv, TypeOK
<1>4. TypeOK'
  BY <1>2, <1>3 DEF IInv, TypeOK, key
<1>5. Recorded'
  BY <1>1, <1>2 DEF IInv, Recorded, TypeOK
<1>6. /\ Ready' /\ OnHost' /\ Allowed' /\ HoldKept' /\ Paused' /\ Counted'
  BY <1>2 DEF IInv, Ready, OnHost, Allowed, HoldKept, Paused, Counted
<1>7. Upgraded'
  BY <1>2 DEF IInv, Upgraded
<1>8. Admitted'
  BY <1>2 DEF IInv, Admitted, entry, key
<1> QED BY <1>4, <1>5, <1>6, <1>7, <1>8 DEF IInv

\* The limiter lets a request go when its host's interval is over, and has it
\* sleep for the rest of it otherwise.
LEMMA WaitKeeps ==
    ASSUME IInv, pc = "hop", Canon[url.host] \in Hosts,
           stage # "browser" => Canon[url.host] \in CanonicalizeHosts(target.allowedHosts),
           Wait(Canon[url.host]),
           UNCHANGED <<hostInterval, robots, call, url, hold>>
    PROVE  IInv'
<1> USE DEF call
<1> DEFINE h == Canon[url.host]
           interval == Larger(Interval[key], hostInterval[key][h])
<1>1. key \in Fetchers /\ h \in Hosts
  BY KeyKnown DEF IInv
<1>2. /\ Interval[key] \in Nat /\ hostInterval[key][h] \in Nat
      /\ since[key][h] \in Nat
  BY <1>1, SettingAssumption DEF IInv, TypeOK
<1>3. interval \in Nat /\ interval >= Interval[key]
  BY <1>2 DEF Larger
<1>4. CASE interval - since[key][h] > 0
  <2>1. /\ pc' = "waiting" /\ sleep' = interval - since[key][h]
        /\ UNCHANGED <<since, quiet, visited>>
    BY <1>4 DEF Wait
  <2>2. sleep' \in Nat /\ interval <= since[key][h] + sleep'
    BY <1>2, <1>3, <1>4, <2>1
  <2>3. TypeOK'
    BY <2>1, <2>2 DEF IInv, TypeOK, key
  <2>4. key' = key /\ interval' = interval /\ since'[key][h] = since[key][h]
    BY <2>1 DEF key
  <2>5. Paused'
    BY <2>2, <2>4 DEF Paused
  <2>6. /\ Ready' /\ OnHost' /\ Allowed' /\ Upgraded' /\ HoldKept' /\ Recorded' /\ Counted'
    BY <2>1 DEF IInv, Ready, OnHost, Allowed, Upgraded, HoldKept, Recorded, Counted
  <2>7. Admitted'
    BY <2>1 DEF IInv, Admitted, entry, key
  <2> QED BY <2>3, <2>5, <2>6, <2>7 DEF IInv
<1>5. CASE ~ (interval - since[key][h] > 0)
  <2>1. Send(h, interval > 0) /\ UNCHANGED sleep
    BY <1>5 DEF Wait
  <2>2. Interval[key] > 0 => interval > 0
    BY <1>2, <1>3
  <2> DEFINE paced == interval > 0
  <2>3. paced \in BOOLEAN /\ (Interval[key] > 0 => paced)
    BY <2>2
  <2>4. Send(h, paced)
    BY <2>1
  <2> HIDE DEF paced, interval
  <2> QED BY <1>1, <2>1, <2>3, <2>4, SendKeeps
<1> QED BY <1>4, <1>5

\* A redirect goes on under the same attempt, and never back to http.
LEMMA RedirectKeeps ==
    ASSUME IInv, pc = "sent", stage # "browser", NEW r \in Responses,
           r.location # None, url.scheme = "https" => r.location.scheme = "https",
           Redirect(r.location), hold' = 0, UNCHANGED limiter
    PROVE  IInv'
<1> USE DEF Redirect, call, limiter
<1>1. TypeOK'
  BY DEF IInv, TypeOK, Urls, key
<1>2. /\ Ready' /\ OnHost' /\ Allowed' /\ HoldKept' /\ Paused' /\ Recorded' /\ Counted'
  BY DEF IInv, Ready, OnHost, Allowed, HoldKept, Paused, Recorded, Counted
<1>3. Upgraded'
  BY DEF IInv, Upgraded
<1>4. Admitted'
  BY DEF IInv, Admitted, entry, key
<1> QED BY <1>1, <1>2, <1>3, <1>4 DEF IInv

\* A failed attempt is followed by a pause, by the decision that a missing
\* robots.txt allows everything, or by the end of the fetch.
LEMMA FailKeeps ==
    ASSUME IInv, pc \in {"hop", "sent"}, NEW e, Fail(e), UNCHANGED limiter,
           e.after = None \/ e.after \in Nat,
           hold' = IF pc' = "backoff" /\ e.after # None THEN e.after ELSE 0
    PROVE  IInv'
<1>1. /\ key \in Fetchers /\ attempt \in 0 .. Retries[key]
  BY KeyKnown DEF IInv, TypeOK
<1>2. CASE e.retryable /\ attempt < Retries[key]
  <2>1. /\ pc' = "backoff" /\ sleep' = RetryDelay(e.after, attempt)
        /\ UNCHANGED <<call, url, visited, robots>>
    BY <1>2 DEF Fail
  <2>2. sleep' \in Nat /\ (e.after # None => e.after <= sleep')
    BY <1>1, <2>1, DelayKept
  <2>3. hold' \in Nat /\ hold' <= sleep'
    BY <2>1, <2>2
  <2> QED BY <1>2, <2>1, <2>2, <2>3, BackoffKeeps
<1>3. CASE ~ (e.retryable /\ attempt < Retries[key]) /\ stage = "robots" /\ e.kind = "not_found"
  <2>1. /\ robots' = [robots EXCEPT ![RobotsUrl(target.url)] =
                          [file |-> AllowAll, life |-> CacheSeconds]]
        /\ pc' = "decide" /\ UNCHANGED <<call, url, visited, sleep>>
    BY <1>3 DEF Fail
  <2> QED BY <1>3, <2>1, LoadKeeps
<1>4. CASE /\ ~ (e.retryable /\ attempt < Retries[key])
           /\ ~ (stage = "robots" /\ e.kind = "not_found")
  <2>1. Finish /\ UNCHANGED robots
    BY <1>4 DEF Fail
  <2> QED BY <2>1, FinishKeeps DEF Finish
<1> QED BY <1>2, <1>3, <1>4

-----------------------------------------------------------------------------
(* One lemma for each action                                               *)

LEMMA InitKeeps == Init => IInv
<1> SUFFICES ASSUME Init PROVE IInv OBVIOUS
<1>1. TypeOK
  BY TargetAssumption, SettingAssumption DEF Init, TypeOK
<1>2. /\ Ready /\ OnHost /\ Allowed /\ Upgraded /\ Admitted
      /\ HoldKept /\ Recorded /\ Paused /\ Counted
  BY DEF Init, Ready, OnHost, Allowed, Upgraded, Admitted, HoldKept, Recorded, Paused, Counted
<1> QED BY <1>1, <1>2 DEF IInv

LEMMA StartKeeps ==
    ASSUME IInv, NEW t \in Targets, Start(t)
    PROVE  IInv'
<1> USE DEF limiter
<1>1. /\ pc = "idle" /\ target' = t /\ t # None /\ hold = 0
      /\ UNCHANGED <<limiter, robots, hold>>
  BY TargetAssumption DEF IInv, HoldKept, Start
<1>2. t.url \in Urls /\ RobotsUrl(t.url) \in Urls /\ t.fetcher \in Fetchers
  BY TargetAssumption DEF Urls, RobotsKeys
<1>3. 0 \in 0 .. Retries[t.fetcher]
  BY <1>2, SettingAssumption
<1>4. ASSUME NEW s \in {"robots", "page", "browser"}, NEW u \in Urls, Begin(s, u),
             RespectRobots => s = "robots", s = "browser" => u = t.url
      PROVE  IInv'
  <2> USE DEF Begin
  <2>1. TypeOK'
    BY <1>1, <1>2, <1>3, <1>4 DEF IInv, TypeOK, key
  <2>2. /\ Ready' /\ OnHost' /\ Allowed' /\ Upgraded' /\ Admitted'
        /\ HoldKept' /\ Recorded' /\ Paused' /\ Counted'
    BY <1>1, <1>4 DEF IInv, Ready, OnHost, Allowed, Upgraded, Admitted, HoldKept,
                      Recorded, Paused, Counted
  <2> QED BY <2>1, <2>2 DEF IInv
<1>5. CASE ~ RespectRobots
  <2>1. \E s \in {"page", "browser"} : Begin(s, t.url)
    BY <1>5 DEF Start, BeginPage
  <2> QED BY <1>2, <1>4, <1>5, <2>1
<1>6. CASE RespectRobots /\ Begin("robots", RobotsUrl(t.url))
  BY <1>2, <1>4, <1>6
<1>7. CASE /\ RespectRobots /\ robots[RobotsUrl(t.url)] # None
           /\ pc' = "decide" /\ stage' = "robots"
           /\ UNCHANGED <<attempt, url, visited, sleep>>
  <2>1. attempt \in 0 .. Retries[t.fetcher]
    BY <1>1, <1>3 DEF IInv, Counted
  <2>2. TypeOK'
    BY <1>1, <1>2, <1>7, <2>1 DEF IInv, TypeOK, key
  <2>3. Ready' /\ OnHost'
    BY <1>1, <1>7 DEF Ready, OnHost, entry
  <2>4. /\ Allowed' /\ Upgraded' /\ Admitted' /\ HoldKept' /\ Recorded'
        /\ Paused' /\ Counted'
    BY <1>1, <1>7 DEF IInv, Allowed, Upgraded, Admitted, HoldKept, Recorded, Paused, Counted
  <2> QED BY <2>2, <2>3, <2>4 DEF IInv
<1> QED BY <1>5, <1>6, <1>7 DEF Start

LEMMA DecideKeeps ==
    ASSUME IInv, Decide
    PROVE  IInv'
<1>1. /\ pc = "decide" /\ target \in Targets /\ key \in Fetchers /\ hold = 0
      /\ Canon[target.url.host] \in Hosts /\ target.url \in Urls /\ target # None
      /\ UNCHANGED <<since, robots, quiet, hold>>
  BY KeyKnown, TargetAssumption DEF IInv, HoldKept, Decide
<1> DEFINE delay == RobotsDelay(entry.file)
           h == Canon[target.url.host]
<1>2. /\ entry # None /\ entry \in RobotsEntry
      /\ entry.file \in RobotsFiles \union {AllowAll}
  BY <1>1, KeyKnown DEF IInv, TypeOK, Ready, entry, RobotsEntry
<1>3. delay # None => delay \in 0 .. MaxGap
  BY <1>2, DelayTyped
<1>4. hostInterval' = IF delay = None THEN hostInterval
                      ELSE [hostInterval EXCEPT ![key][h] = Larger(@, delay)]
  BY DEF Decide, RequireHostInterval
<1>5. /\ hostInterval' \in [Fetchers -> [Hosts -> 0 .. MaxGap]]
      /\ delay # None => delay <= hostInterval'[key][h]
  BY <1>1, <1>3, <1>4, SettingAssumption DEF IInv, TypeOK, Larger
<1>6. CASE Finish
  <2>1. TypeOK'
    BY <1>1, <1>5, <1>6 DEF IInv, TypeOK, Finish
  <2>2. /\ Ready' /\ OnHost' /\ Allowed' /\ Upgraded' /\ Admitted'
        /\ HoldKept' /\ Recorded' /\ Paused' /\ Counted'
    BY <1>1, <1>6 DEF IInv, Ready, OnHost, Allowed, Upgraded, Admitted, HoldKept,
                      Recorded, Paused, Counted, Finish
  <2> QED BY <2>1, <2>2 DEF IInv
<1>7. CASE target.url.path \notin entry.file.disallow /\ BeginPage(target) /\ UNCHANGED target
  <2>1. PICK s \in {"page", "browser"} : Begin(s, target.url)
    BY <1>7 DEF BeginPage
  <2>2. target' = target /\ key' = key /\ entry' = entry /\ delay' = delay /\ h' = h
    BY <1>1, <1>7 DEF key, entry
  <2>3. 0 \in 0 .. Retries[key]
    BY <1>1, SettingAssumption
  <2>4. TypeOK'
    BY <1>1, <1>5, <2>1, <2>2, <2>3 DEF IInv, TypeOK, Begin
  <2>5. Admitted'
    BY <1>2, <1>5, <1>7, <2>2 DEF Admitted
  <2>6. /\ Ready' /\ OnHost' /\ Allowed' /\ Upgraded'
        /\ HoldKept' /\ Recorded' /\ Paused' /\ Counted'
    BY <1>1, <2>1, <2>2 DEF IInv, Ready, OnHost, Allowed, Upgraded, HoldKept,
                      Recorded, Paused, Counted, Begin
  <2> QED BY <2>4, <2>5, <2>6 DEF IInv
<1> QED BY <1>6, <1>7 DEF Decide

LEMMA HopKeeps ==
    ASSUME IInv, Hop
    PROVE  IInv'
<1>1. pc = "hop" /\ stage # "browser" /\ hold = 0 /\ target \in Targets
  BY KeyKnown DEF IInv, HoldKept, Hop
<1>2. ASSUME NEW kind, Fail(Refusal(kind)), hold' = 0, UNCHANGED limiter
      PROVE  IInv'
  <2> DEFINE e == Refusal(kind)
  <2>1. e.after = None BY DEF Refusal, Error
  <2>2. Fail(e) BY <1>2
  <2> HIDE DEF e
  <2> QED BY <1>1, <1>2, <2>1, <2>2, FailKeeps
<1>3. ASSUME NEW answers \in Resolutions,
             ValidPublicUrl(url, target.allowedHosts, answers),
             Wait(Canon[url.host]),
             UNCHANGED <<hostInterval, robots, call, url, hold>>
      PROVE  IInv'
  <2>1. /\ Canon[url.host] \in CanonicalizeHosts(target.allowedHosts)
        /\ Canon[url.host] # None
    BY <1>3 DEF ValidPublicUrl, ValidUrlSyntax
  <2>2. Canon[url.host] \in Hosts
    BY <1>1, <2>1, TargetAssumption DEF CanonicalizeHosts, Hosts
  <2> QED BY <1>1, <1>3, <2>1, <2>2, WaitKeeps
<1> QED BY <1>2, <1>3 DEF Hop

LEMMA HopBrowserKeeps ==
    ASSUME IInv, HopBrowser
    PROVE  IInv'
<1>1. /\ pc = "hop" /\ stage = "browser" /\ Wait(Canon[url.host])
      /\ UNCHANGED <<hostInterval, robots, call, url, hold>>
  BY DEF HopBrowser
<1>2. Canon[url.host] \in Hosts
  BY <1>1, KeyKnown DEF IInv, OnHost
<1> QED BY <1>1, <1>2, WaitKeeps

LEMMA WakeKeeps ==
    ASSUME IInv, Wake
    PROVE  IInv'
<1>1. /\ pc = "waiting" /\ Send(Canon[url.host], TRUE)
      /\ UNCHANGED <<hostInterval, robots, call, url, sleep, hold>>
  BY DEF Wake
<1>2. /\ Canon[url.host] \in Hosts
      /\ stage # "browser" => Canon[url.host] \in CanonicalizeHosts(target.allowedHosts)
  BY <1>1 DEF IInv, OnHost, Allowed
<1> QED BY <1>1, <1>2, SendKeeps

\* An answer is a redirect that does not lead from https to http, a page, or
\* an error; a 429 is retried only with the pause it asks for.
LEMMA OutcomeShape ==
    ASSUME NEW r \in Responses, NEW u, NEW followed, NEW maximum, NEW accepted,
           NEW o, o = ResponseOutcome(r, u, followed, maximum, accepted)
    PROVE  \/ /\ o.tag = "redirect" /\ o.to = r.location /\ r.location # None
              /\ u.scheme = "https" => r.location.scheme = "https"
              /\ r.status # 429
           \/ o.tag = "page" /\ r.status # 429
           \/ /\ o.tag = "error"
              /\ o.kind = "not_found" => r.status # 429
              /\ r.status # 429 => o.after = None
              /\ r.status = 429 => /\ o.after = ParseRetryAfter(r.after)
                                   /\ o.retryable => o.after # None
<1>1. CASE r.status \in Redirects
  <2>1. o = RedirectOutcome(r, u, followed, maximum) BY <1>1 DEF ResponseOutcome
  <2>2. r.status # 429 BY <1>1 DEF Redirects
  <2> QED BY <2>1, <2>2 DEF RedirectOutcome, Refusal, Error
<1>2. CASE r.status \notin Redirects /\ r.status \in 200 .. 299
  <2>1. o = ContentOutcome(r, accepted) BY <1>2 DEF ResponseOutcome
  <2>2. r.status # 429 BY <1>2
  <2> QED BY <2>1, <2>2 DEF ContentOutcome, Refusal, Error
<1>3. CASE r.status \notin Redirects /\ r.status \notin 200 .. 299
  <2>1. o = StatusError(r) BY <1>3 DEF ResponseOutcome
  <2> DEFINE a == IF r.status = 429 THEN ParseRetryAfter(r.after) ELSE None
             kind == CASE r.status = 404          -> "not_found"
                       [] r.status = 429          -> "rate_limited"
                       [] r.status \in {401, 403} -> "access_denied"
                       [] OTHER                   -> "transport"
  <2>2. o = Error(kind, r.status \in Retryable /\ (r.status = 429 => a # None), a)
    BY <2>1 DEF StatusError
  <2>3. r.status = 429 => kind = "rate_limited"
    OBVIOUS
  <2> DEFINE again == r.status \in Retryable /\ (r.status = 429 => a # None)
  <2>4. /\ o.tag = "error" /\ o.kind = kind /\ o.after = a
        /\ o.retryable = again
    BY <2>2 DEF Error
  <2>5. "rate_limited" # "not_found" OBVIOUS
  <2>6. o.kind = "not_found" => r.status # 429
    <3> HIDE DEF kind
    <3> QED BY <2>3, <2>4, <2>5
  <2>7. r.status = 429 /\ o.retryable => o.after # None
    <3> HIDE DEF kind
    <3> QED BY <2>4
  <2> HIDE DEF kind, again
  <2> QED BY <2>4, <2>6, <2>7
<1> QED BY <1>1, <1>2, <1>3

LEMMA RespondKeeps ==
    ASSUME IInv, Respond
    PROVE  IInv'
<1>1. /\ pc = "sent" /\ stage # "browser" /\ hold = 0 /\ target \in Targets
      /\ UNCHANGED limiter
  BY KeyKnown DEF IInv, HoldKept, Respond
<1>2. PICK r \in Responses :
        /\ Apply(ResponseOutcome(r, url, Cardinality(visited) - 1, MaxRedirects, Accepted))
        /\ hold' = IF pc' = "idle" THEN 0 ELSE Demand(r)
  BY DEF Respond
<1> DEFINE o == ResponseOutcome(r, url, Cardinality(visited) - 1, MaxRedirects, Accepted)
<1>3. Apply(o) BY <1>2
<1>4. \/ /\ o.tag = "redirect" /\ o.to = r.location /\ r.location # None
         /\ url.scheme = "https" => r.location.scheme = "https"
         /\ r.status # 429
      \/ o.tag = "page" /\ r.status # 429
      \/ /\ o.tag = "error"
         /\ o.kind = "not_found" => r.status # 429
         /\ r.status # 429 => o.after = None
         /\ r.status = 429 => /\ o.after = ParseRetryAfter(r.after)
                              /\ o.retryable => o.after # None
  BY OutcomeShape
<1> HIDE DEF o
<1>5. r.status # 429 => hold' = 0
  BY <1>2 DEF Demand
<1>6. CASE o.tag = "redirect"
  <2>1. Redirect(r.location) BY <1>3, <1>4, <1>6 DEF Apply
  <2> QED BY <1>1, <1>4, <1>5, <1>6, <2>1, RedirectKeeps
<1>7. CASE o.tag = "page"
  <2>1. Loaded /\ hold' = 0 BY <1>3, <1>4, <1>5, <1>7 DEF Apply
  <2>2. CASE stage = "robots"
    <3>1. PICK f \in RobotsFiles :
            /\ robots' = [robots EXCEPT ![RobotsUrl(target.url)] =
                             [file |-> f, life |-> CacheSeconds]]
            /\ pc' = "decide" /\ UNCHANGED <<call, url, visited, sleep>>
      BY <2>1, <2>2 DEF Loaded
    <3>2. f \in RobotsFiles \union {AllowAll} OBVIOUS
    <3> QED BY <1>1, <2>1, <2>2, <3>1, <3>2, LoadKeeps
  <2>3. CASE stage # "robots"
    <3>1. Finish /\ UNCHANGED robots BY <2>1, <2>3 DEF Loaded
    <3> QED BY <1>1, <2>1, <3>1, FinishKeeps
  <2> QED BY <2>2, <2>3
<1>8. CASE o.tag = "error"
  <2>1. Fail(o) BY <1>3, <1>8 DEF Apply
  <2>2. o.after = None \/ o.after \in Nat
    BY <1>4, <1>8, RetryAfterTyped, SettingAssumption
  <2>3. r.status = 429 /\ o.after # None => Demand(r) = o.after
    BY <1>4, <1>8, RetryAfterTyped DEF Demand
  <2>4. hold' = IF pc' = "backoff" /\ o.after # None THEN o.after ELSE 0
    <3>1. CASE o.retryable /\ attempt < Retries[key]
      <4>1. pc' = "backoff" BY <2>1, <3>1 DEF Fail
      <4> QED BY <1>2, <1>4, <1>5, <1>8, <2>3, <3>1, <4>1
    <3>2. CASE ~ (o.retryable /\ attempt < Retries[key]) /\ stage = "robots" /\ o.kind = "not_found"
      <4>1. pc' = "decide" BY <2>1, <3>2 DEF Fail
      <4> QED BY <1>4, <1>5, <1>8, <3>2, <4>1
    <3>3. CASE /\ ~ (o.retryable /\ attempt < Retries[key])
               /\ ~ (stage = "robots" /\ o.kind = "not_found")
      <4>1. pc' = "idle" BY <2>1, <3>3 DEF Fail, Finish
      <4> QED BY <1>2, <4>1
    <3> QED BY <3>1, <3>2, <3>3
  <2> QED BY <1>1, <2>1, <2>2, <2>4, FailKeeps
<1> QED BY <1>4, <1>6, <1>7, <1>8

LEMMA DisconnectKeeps ==
    ASSUME IInv, Disconnect
    PROVE  IInv'
<1> DEFINE e == TransportFailure
<1>1. pc = "sent" /\ Fail(e) /\ hold' = 0 /\ UNCHANGED limiter
  BY DEF Disconnect
<1>2. e.after = None BY DEF TransportFailure, Error
<1> HIDE DEF e
<1> QED BY <1>1, <1>2, FailKeeps

LEMMA RetryKeeps ==
    ASSUME IInv, Retry
    PROVE  IInv'
<1> USE DEF limiter
<1>1. /\ pc = "backoff" /\ sleep = 0 /\ pc' = "hop" /\ visited' = {}
      /\ attempt' = attempt + 1
      /\ url' = IF stage = "robots" THEN RobotsUrl(target.url) ELSE target.url
      /\ UNCHANGED <<limiter, robots, target, stage, sleep, hold>>
  BY DEF Retry
<1>2. /\ attempt' \in 0 .. Retries[key] /\ url' \in Urls /\ hold = 0
      /\ key' = key /\ entry' = entry
  BY <1>1, KeyKnown, SettingAssumption DEF IInv, TypeOK, Counted, HoldKept, key, entry
<1>3. TypeOK'
  BY <1>1, <1>2 DEF IInv, TypeOK
<1>4. /\ Ready' /\ OnHost' /\ Allowed' /\ Upgraded' /\ HoldKept' /\ Recorded'
      /\ Paused' /\ Counted'
  BY <1>1, <1>2 DEF IInv, Ready, OnHost, Allowed, Upgraded, HoldKept, Recorded, Paused,
                    Counted
<1>5. Admitted'
  BY <1>1, <1>2 DEF IInv, Admitted
<1> QED BY <1>3, <1>4, <1>5 DEF IInv

LEMMA NavigateKeeps ==
    ASSUME IInv, Navigate
    PROVE  IInv'
BY FinishKeeps DEF Navigate

LEMMA CancelKeeps ==
    ASSUME IInv, Cancel
    PROVE  IInv'
BY FinishKeeps DEF Cancel

LEMMA TickKeeps ==
    ASSUME IInv, Tick
    PROVE  IInv'
<1>1. /\ since' = [k \in Fetchers |-> [h \in Hosts |-> Older(since[k][h])]]
      /\ quiet' = [k \in Fetchers |-> [h \in Hosts |-> Older(quiet[k][h])]]
      /\ robots' = [o \in RobotsKeys |-> IF robots[o] = None THEN None ELSE
                      [file |-> robots[o].file, life |-> Down(robots[o].life)]]
      /\ sleep' = Down(sleep)
      /\ hold' = IF hold = Never THEN Never ELSE Down(hold)
      /\ UNCHANGED <<hostInterval, pc, target, stage, attempt, url, visited>>
  BY DEF Tick
<1>2. /\ since' \in [Fetchers -> [Hosts -> 0 .. MaxGap]]
      /\ quiet' \in [Fetchers -> [Hosts -> 0 .. MaxGap]]
  BY <1>1, SettingAssumption DEF IInv, TypeOK, Older
<1>3. ASSUME NEW o \in RobotsKeys
      PROVE  /\ robots'[o] \in {None} \union RobotsEntry
             /\ robots[o] = None <=> robots'[o] = None
             /\ robots[o] # None => robots'[o].file = robots[o].file
  <2>1. CASE robots[o] = None BY <1>1, <2>1
  <2>2. CASE robots[o] # None
    <3>1. robots[o] \in RobotsEntry BY <2>2 DEF IInv, TypeOK
    <3>2. Down(robots[o].life) \in 0 .. CacheSeconds
      BY <3>1, SettingAssumption DEF RobotsEntry, Down
    <3> DEFINE new == [file |-> robots[o].file, life |-> Down(robots[o].life)]
    <3>3. new \in RobotsEntry /\ new # None /\ new.file = robots[o].file
      BY <3>1, <3>2, SettingAssumption DEF RobotsEntry
    <3>4. robots'[o] = new BY <1>1, <2>2
    <3> HIDE DEF new
    <3> QED BY <2>2, <3>3, <3>4
  <2> QED BY <2>1, <2>2
<1>4. robots' \in [RobotsKeys -> {None} \union RobotsEntry]
  <2>1. \A o \in RobotsKeys : robots'[o] \in {None} \union RobotsEntry BY <1>3
  <2>2. \E f : robots' = [o \in RobotsKeys |-> f[o]]
    <3> DEFINE g == [o \in RobotsKeys |-> IF robots[o] = None THEN None ELSE
                      [file |-> robots[o].file, life |-> Down(robots[o].life)]]
    <3>1. robots' = [o \in RobotsKeys |-> g[o]] BY <1>1
    <3> HIDE DEF g
    <3> QED BY <3>1
  <2> QED BY <2>1, <2>2
<1>5. /\ sleep' \in Nat /\ hold' \in Nat \union {Never}
      /\ hold \in Nat => hold' \in Nat
      /\ hold \in Nat /\ hold <= sleep => hold' <= sleep'
      /\ hold = 0 => hold' = 0
  BY <1>1, SettingAssumption DEF IInv, TypeOK, Down
<1>6. TypeOK' /\ key' = key
  BY <1>1, <1>2, <1>4, <1>5 DEF IInv, TypeOK, key
<1>7. Ready' /\ Admitted'
  <2>1. pc # "idle" => /\ entry = None <=> entry' = None
                       /\ entry # None => entry'.file = entry.file
    BY <1>1, <1>3, KeyKnown DEF IInv, entry
  <2>2. Ready' BY <1>1, <2>1 DEF IInv, Ready
  <2>3. stage \in {"page", "browser"} => pc # "idle"
    BY DEF IInv, Counted
  <2>4. Admitted' BY <1>1, <1>6, <2>1, <2>3 DEF IInv, Admitted
  <2> QED BY <2>2, <2>4
<1>8. /\ OnHost' /\ Allowed' /\ Upgraded' /\ Counted'
  BY <1>1, <1>6 DEF IInv, OnHost, Allowed, Upgraded, Counted
<1>9. HoldKept'
  BY <1>1, <1>5 DEF IInv, HoldKept
<1>10. Recorded'
  BY <1>1 DEF IInv, Recorded
<1>11. Paused'
  <2> SUFFICES ASSUME pc = "waiting"
               PROVE  Larger(Interval[key], hostInterval[key][Canon[url.host]])
                        <= since'[key][Canon[url.host]] + sleep'
    BY <1>1, <1>6 DEF Paused
  <2> DEFINE h == Canon[url.host]
  <2>1. key \in Fetchers /\ h \in Hosts
    BY KeyKnown DEF IInv, OnHost
  <2>2. /\ since[key][h] \in 0 .. MaxGap /\ hostInterval[key][h] \in 0 .. MaxGap
        /\ Interval[key] \in 0 .. MaxGap /\ sleep \in Nat /\ MaxGap \in Nat
    BY <2>1, SettingAssumption DEF IInv, TypeOK
  <2>3. Larger(Interval[key], hostInterval[key][h]) <= since[key][h] + sleep
    BY DEF IInv, Paused
  <2>4. since'[key][h] = Older(since[key][h])
    BY <1>1, <2>1
  <2> QED BY <1>1, <2>2, <2>3, <2>4 DEF Older, Down, Larger
<1> QED BY <1>6, <1>7, <1>8, <1>9, <1>10, <1>11 DEF IInv

LEMMA NextKeeps == IInv /\ [Next]_vars => IInv'
<1> SUFFICES ASSUME IInv, [Next]_vars PROVE IInv' OBVIOUS
<1>1. CASE UNCHANGED vars
  <2> USE <1>1 DEF vars
  <2>1. key' = key /\ entry' = entry BY DEF key, entry
  <2>2. TypeOK' BY <2>1 DEF IInv, TypeOK
  <2>3. /\ Ready' /\ OnHost' /\ Allowed' /\ Upgraded' /\ Admitted' /\ HoldKept'
        /\ Recorded' /\ Paused' /\ Counted'
    BY <2>1 DEF IInv, Ready, OnHost, Allowed, Upgraded, Admitted, HoldKept, Recorded,
                Paused, Counted
  <2> QED BY <2>2, <2>3 DEF IInv
<1> QED
  BY <1>1, StartKeeps, DecideKeeps, HopKeeps, HopBrowserKeeps, WakeKeeps, RespondKeeps,
     DisconnectKeeps, RetryKeeps, NavigateKeeps, CancelKeeps, TickKeeps
  DEF Next

LEMMA Invariance == Spec => []IInv
BY InitKeeps, NextKeeps, PTL DEF Spec

-----------------------------------------------------------------------------
(* The theorems                                                            *)

\* Every variable keeps its shape: a fetch never exceeds its attempts, and a
\* pause is a number of seconds whatever a site or its robots.txt asks for.
THEOREM TypeCorrect == Spec => []TypeOK
<1>1. IInv => TypeOK BY DEF IInv
<1> QED BY <1>1, Invariance, PTL

\* Redirects and retries never leave the listed hosts nor go back to http.
THEOREM Chained == Spec => []ChainSafe
<1>1. IInv => ChainSafe BY DEF IInv, ChainSafe, Allowed, Upgraded
<1> QED BY <1>1, Invariance, PTL

\* No request for a page, first or repeated, without a robots.txt entry that
\* allows it.
THEOREM Obedient == Spec => []RobotsObeyed
<1>1. IInv => RobotsObeyed BY DEF IInv, RobotsObeyed, Admitted
<1> QED BY <1>1, Invariance, PTL

\* Nothing is sent while a server still asks us to stay away.
THEOREM Patient == Spec => []RetryAfterHonoured
<1>1. IInv => RetryAfterHonoured BY DEF IInv, RetryAfterHonoured, HoldKept
<1> QED BY <1>1, Invariance, PTL

\* What the limiter demanded and saw gone by covers the interval and the delay.
LEMMA ApartEnough ==
    ASSUME IInv, pc \in {"hop", "waiting"}, Canon[url.host] \in Hosts, Interval[key] > 0,
           Larger(Interval[key], hostInterval[key][Canon[url.host]])
             <= since[key][Canon[url.host]]
    PROVE  PacedStart
<1> DEFINE h == Canon[url.host]
           delay == RobotsDelay(entry.file)
<1>1. /\ key \in Fetchers /\ h \in Hosts /\ target \in Targets
      /\ quiet[key][h] = since[key][h]
  BY KeyKnown DEF IInv, Recorded
<1>2. /\ Interval[key] \in Nat /\ hostInterval[key][h] \in Nat /\ since[key][h] \in Nat
  BY <1>1, SettingAssumption DEF IInv, TypeOK
<1>3. Interval[key] <= quiet[key][h] /\ hostInterval[key][h] <= quiet[key][h]
  BY <1>1, <1>2 DEF Larger
<1>4. ASSUME stage # "robots", RespectRobots, h = Canon[target.url.host], delay # None
      PROVE  quiet[key][h] >= delay
  <2>1. stage \in {"page", "browser"}
    BY <1>4 DEF IInv, TypeOK, Counted
  <2>2. /\ delay <= hostInterval[key][h] /\ entry # None
    BY <1>4, <2>1 DEF IInv, Admitted
  <2>3. delay \in Nat
    <3>1. entry.file \in RobotsFiles \union {AllowAll}
      BY <1>1, <2>2, KeyKnown DEF IInv, TypeOK, entry, RobotsEntry
    <3> QED BY <1>4, <3>1, DelayTyped, SettingAssumption
  <2> QED BY <1>1, <1>2, <1>3, <2>2, <2>3
<1> QED BY <1>2, <1>1, <1>3, <1>4 DEF PacedStart

\* The limiter is passed when the interval is over.
LEMMA WaitApart ==
    ASSUME IInv, pc = "hop", Canon[url.host] \in Hosts, Interval[key] > 0,
           Wait(Canon[url.host]), pc' = "sent"
    PROVE  PacedStart
<1> DEFINE h == Canon[url.host]
           interval == Larger(Interval[key], hostInterval[key][h])
<1>1. key \in Fetchers
  BY KeyKnown DEF IInv
<1>2. /\ Interval[key] \in Nat /\ hostInterval[key][h] \in Nat /\ since[key][h] \in Nat
  BY <1>1, SettingAssumption DEF IInv, TypeOK
<1>3. interval \in Nat BY <1>2 DEF Larger
<1>4. ~ (interval - since[key][h] > 0) BY DEF Wait
<1>5. interval <= since[key][h] BY <1>2, <1>3, <1>4
<1> QED BY <1>5, ApartEnough

LEMMA StepsApart == IInv /\ [Next]_vars => PacedStart
<1> SUFFICES ASSUME IInv, [Next]_vars, pc # "sent", pc' = "sent", Interval[key] > 0
             PROVE  PacedStart
  BY DEF PacedStart
<1>1. CASE Hop
  <2>1. ASSUME NEW kind, Fail(Refusal(kind)) PROVE FALSE
    BY <2>1 DEF Fail, Finish
  <2>2. PICK answers \in Resolutions :
          ValidPublicUrl(url, target.allowedHosts, answers) /\ Wait(Canon[url.host])
    BY <1>1, <2>1 DEF Hop
  <2>3. pc = "hop" /\ target \in Targets
    BY <1>1, KeyKnown DEF Hop, IInv
  <2>4. Canon[url.host] \in Hosts
    BY <2>2, <2>3, TargetAssumption
    DEF ValidPublicUrl, ValidUrlSyntax, CanonicalizeHosts, Hosts
  <2> QED BY <2>2, <2>3, <2>4, WaitApart
<1>2. CASE HopBrowser
  <2>1. pc = "hop" /\ stage = "browser" /\ Wait(Canon[url.host])
    BY <1>2 DEF HopBrowser
  <2>2. Canon[url.host] \in Hosts
    BY <2>1, KeyKnown DEF IInv, OnHost
  <2> QED BY <2>1, <2>2, WaitApart
<1>3. CASE Wake
  <2> DEFINE h == Canon[url.host]
  <2>1. pc = "waiting" /\ sleep = 0
    BY <1>3 DEF Wake
  <2>2. h \in Hosts /\ key \in Fetchers
    BY <2>1, KeyKnown DEF IInv, OnHost
  <2>3. since[key][h] \in Nat
    BY <2>2, SettingAssumption DEF IInv, TypeOK
  <2>4. Larger(Interval[key], hostInterval[key][h]) <= since[key][h] + 0
    BY <2>1 DEF IInv, Paused
  <2>5. Larger(Interval[key], hostInterval[key][h]) <= since[key][h]
    BY <2>3, <2>4
  <2> QED BY <2>1, <2>2, <2>5, ApartEnough
<1>4. CASE Respond
  <2>1. pc = "sent" BY <1>4 DEF Respond
  <2> QED BY <2>1
<1>5. ASSUME \/ \E t \in Targets : Start(t)
             \/ Decide \/ Disconnect \/ Retry \/ Navigate \/ Cancel \/ Tick
             \/ UNCHANGED vars
      PROVE  FALSE
  BY <1>5 DEF Start, BeginPage, Begin, Decide, Disconnect, Retry, Navigate, Cancel, Tick,
              Finish, vars
<1> QED BY <1>1, <1>2, <1>3, <1>4, <1>5 DEF Next

\* Requests of one fetcher to one host start an interval apart, and as far as
\* the robots.txt entry asks that admitted the page.
THEOREM Apart == Spec => CrawlDelayKept
BY StepsApart, Invariance, PTL DEF Spec, CrawlDelayKept
=============================================================================
