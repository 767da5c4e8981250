---------------------------- MODULE MCHttpFetch ----------------------------
(* A shop on two hosts, a paced and an unpaced fetcher of one worker.       *)
EXTENDS HttpFetch

MCCanon == [a |-> "a", aDot |-> "a", b |-> "b", bad |-> None]
U(scheme, host, port, path) ==
    [scheme |-> scheme, login |-> FALSE, host |-> host, port |-> port, path |-> path]
Item == U("https", "a", 0, "/item")
Offer == U("https", "a", 0, "/offer")

T(u, k, m) == [url |-> u, allowedHosts |-> {"a", "b"}, fetcher |-> k, mode |-> m]
MCTargets == {T(Item, "paced", "http"), T(Offer, "paced", "http"),
              T(Item, "free", "browser")}
MCFetchers == {"paced", "free"}
MCInterval == [paced |-> 1, free |-> 0]
MCRetries == [paced |-> 1, free |-> 0]

Answer(s, l, a, m, d, n) ==
    [status |-> s, location |-> l, after |-> a, media |-> m, declared |-> d, size |-> n]
After(f, n) == [form |-> f, n |-> n]
Plain(s) == Answer(s, None, After("absent", 0), "html", None, 1)
To(u) == [Plain(302) EXCEPT !.location = u]
MCResponses ==
    {Plain(200), Plain(302), Plain(403), Plain(404), Plain(503),
     [Plain(200) EXCEPT !.media = "plain"], [Plain(200) EXCEPT !.declared = "junk"],
     [Plain(200) EXCEPT !.size = 2]}
    \union {To(U("https", "b", 0, "/item")), To(U("http", "a", 0, "/item")),
            To(U("https", "aDot", 443, "/item")), To(U("https", "b", 8443, "/item"))}
    \union {[Plain(429) EXCEPT !.after = a] :
              a \in {After("absent", 0), After("digits", 2), After("digits", 3),
                     After("date", -1), After("long", 0)}}
MCResolutions == {{"global"}, {"global", "local"}, None}
MCRobotsFiles == {[disallow |-> {}, crawl |-> None, rate |-> None],
                  [disallow |-> {"/offer"}, crawl |-> 2, rate |-> 1]}
MCNavigations ==
    {[available |-> v, answers |-> {"global"}, navigation |-> n, final |-> Item,
      r |-> Plain(200)] : v \in BOOLEAN, n \in {"blocked", "failed", "empty", "done"}}
=============================================================================
