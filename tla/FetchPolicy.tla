---------------------------- MODULE FetchPolicy ----------------------------
(***************************************************************************)
(* What the fetchers decide about one URL or one answer, as pure operators:*)
(* fetchers/policy.py, the classification of a response in fetchers/http.py*)
(* and fetchers/browser.py, the reading of Retry-After, and the delay a    *)
(* robots.txt file asks for.                                               *)
(*                                                                         *)
(* A URL is [scheme, login, host, port, path]: host is a SPELLING, which   *)
(* Canon maps to the host it names (case, trailing dot, IDNA) or to None   *)
(* when it names none; port is 0 when the URL gives none.  An answer is    *)
(* [status, location, after, media, declared, size]; the media types are   *)
(* "html", "plain", "octets" and "other", and sizes are in a unit of which *)
(* MaxBytes are accepted.                                                  *)
(***************************************************************************)
EXTENDS Integers

CONSTANTS None, Canon, MaxBytes, MaxRetryAfter, BackoffBase

Larger(a, b) == IF a >= b THEN a ELSE b

-----------------------------------------------------------------------------
(* fetchers/policy.py *)

CanonicalizeHosts(hosts) == {Canon[h] : h \in hosts}

EffectivePort(u) ==
    IF u.port # 0 THEN u.port ELSE IF u.scheme = "https" THEN 443 ELSE 80

ValidUrlSyntax(u, allowedHosts) ==
    /\ u.scheme \in {"http", "https"}
    /\ u.host # None
    /\ ~ u.login
    /\ Canon[u.host] # None
    /\ None \notin CanonicalizeHosts(allowedHosts)
    /\ Canon[u.host] \in CanonicalizeHosts(allowedHosts)
    /\ EffectivePort(u) \in {80, 443}

\* answers is None when the name does not resolve, else a set of addresses,
\* of which only "global" ones are publicly routable
ValidPublicUrl(u, allowedHosts, answers) ==
    /\ ValidUrlSyntax(u, allowedHosts)
    /\ answers \notin {None, {}}
    /\ \A a \in answers : a = "global"

-----------------------------------------------------------------------------
(* fetchers/http.py *)

Redirects == {301, 302, 303, 307, 308}
HtmlTypes == {"html"}
TextTypes == {"plain", "html", "octets"}
Retryable == {408, 425, 429, 500, 502, 503, 504}

\* Mutant of ParseRetryAfter: a delay that is too long is cut.
ParseRetryAfterCapped(v) ==
    IF v.form \notin {"digits", "date"} THEN None
    ELSE IF v.n > MaxRetryAfter THEN MaxRetryAfter ELSE Larger(v.n, 0)

\* form: "absent", "digits" (at most ten), "long" (more), "date", "junk";
\* n: the seconds from now, which a date may have behind it
ParseRetryAfter(v) ==
    LET delay == IF v.form = "date" /\ v.n < 0 THEN 0 ELSE v.n
    IN  IF v.form \in {"digits", "date"} /\ delay <= MaxRetryAfter
        THEN delay ELSE None

Error(kind, retryable, after) ==
    [tag |-> "error", kind |-> kind, retryable |-> retryable, after |-> after]
Refusal(kind) == Error(kind, FALSE, None)

TransportFailure == Error("transport", TRUE, None)

StatusError(r) ==
    LET after == IF r.status = 429 THEN ParseRetryAfter(r.after) ELSE None
    IN  Error(CASE r.status = 404          -> "not_found"
                [] r.status = 429          -> "rate_limited"
                [] r.status \in {401, 403} -> "access_denied"
                [] OTHER                   -> "transport",
              r.status \in Retryable /\ (r.status = 429 => after # None),
              after)

\* Mutant of RedirectOutcome: the scheme is not looked at.
RedirectOutcomeAnyScheme(r, url, followed, maximum) ==
    IF r.location = None \/ followed >= maximum THEN Refusal("transport")
    ELSE [tag |-> "redirect", to |-> r.location]

RedirectOutcome(r, url, followed, maximum) ==
    IF r.location = None \/ followed >= maximum
    THEN Refusal("transport")
    ELSE IF url.scheme = "https" /\ r.location.scheme # "https"
    THEN Refusal("access_denied")
    ELSE [tag |-> "redirect", to |-> r.location]

\* declared: None, "junk", or the Content-Length
ContentOutcome(r, accepted) ==
    CASE r.media \notin accepted -> Refusal("extraction")
      [] r.media \in accepted /\ r.declared = "junk" -> Refusal("transport")
      [] OTHER ->
           IF r.size > MaxBytes \/ (r.declared # None /\ r.declared > MaxBytes)
           THEN Refusal("extraction") ELSE [tag |-> "page"]

ResponseOutcome(r, url, followed, maximum, accepted) ==
    IF r.status \in Redirects THEN RedirectOutcome(r, url, followed, maximum)
    ELSE IF r.status \in 200 .. 299 THEN ContentOutcome(r, accepted)
    ELSE StatusError(r)

RetryDelay(after, attempt) ==
    Larger(BackoffBase * 2 ^ attempt, IF after = None THEN 0 ELSE after)

-----------------------------------------------------------------------------
(* fetchers/browser.py: [available, answers, navigation, final, r]; the     *)
(* navigation is "blocked", "failed", "empty" or "done"                     *)

BrowserOutcome(b, url, allowedHosts) ==
    CASE ~ b.available -> Refusal("internal")
      [] b.available /\ ~ ValidPublicUrl(url, allowedHosts, b.answers)
           -> Refusal("access_denied")
      [] OTHER ->
           CASE b.navigation = "blocked" -> Refusal("access_denied")
             [] b.navigation = "failed"  -> TransportFailure
             [] b.navigation = "empty"   -> Refusal("transport")
             [] OTHER ->
                  IF ~ ValidPublicUrl(b.final, allowedHosts, b.answers)
                  THEN Refusal("access_denied")
                  ELSE IF b.r.status \notin 200 .. 299
                  THEN Refusal("transport")
                  ELSE IF b.r.size > MaxBytes
                  THEN Refusal("extraction") ELSE [tag |-> "page"]

-----------------------------------------------------------------------------
(* fetchers/robots.py: a file is [disallow, crawl, rate], the last two None *)
(* or seconds between requests                                              *)

RobotsDelay(file) ==
    IF file.crawl = None THEN file.rate
    ELSE IF file.rate = None THEN file.crawl ELSE Larger(file.crawl, file.rate)

\* also the key of the cache, which is the origin
RobotsUrl(u) == [u EXCEPT !.path = "/robots.txt"]
=============================================================================
