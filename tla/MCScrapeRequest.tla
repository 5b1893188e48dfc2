-------------------------- MODULE MCScrapeRequest --------------------------
(* Requests for streams, and requests that play one through the proxy, each  *)
(* on their own.                                                             *)
EXTENDS ScrapeRequest, StreamProxy

CONSTANTS r1, r2,           \* requests for streams
          s1, s2, h1, h2    \* streams that are played

SameClock == [i \in Client |-> 0]
NeverWait == [i \in Client |-> {NoWait}]

Rows(own, offscope, alias) ==
    [own |-> own, offscope |-> offscope, alias |-> alias]

\* No rows, stale rows of the media, or stale rows cached under another id; a
\* scrape adds fresh rows, also such as the filter drops.
EmptyOrStale ==
    {Rows("none", "none", "none"), Rows("stale", "none", "none"),
     Rows("none", "none", "stale")}

\* Each stream is in a process of its own.
Homes == [s \in Stream |-> IF s = s1 THEN h1 ELSE h2]

\* No limit, and one stream at a time.
Limits == {-1, 1}

VARIABLE part   \* the component that runs

SuiteInit ==
    /\ part \in {"request", "play"}
    /\ ReqInit /\ ProxyInit
    /\ part = "request" \/ cache = Rows("none", "none", "none")
    /\ part = "play" \/ limit = 1
SuiteNext ==
    /\ UNCHANGED part
    /\ \/ part = "request" /\ ReqNext /\ UNCHANGED proxyVars
       \/ part = "play" /\ ProxyNext /\ UNCHANGED vars

\* ReqFairness of the requests; in place of ProxyFairness, when some stream or
\* cleanup can step, one does: that is less than every one of them is given.
SuiteSpec ==
    /\ SuiteInit /\ [][SuiteNext]_<<part, vars, proxyVars>>
    /\ \A i \in Client : WF_vars(part = "request" /\ Step(i))
    /\ WF_proxyVars(/\ part = "play"
                    /\ \/ \E s \in Stream : StreamStep(s)
                       \/ \E p \in Process : MonitorStep(p))
=============================================================================
