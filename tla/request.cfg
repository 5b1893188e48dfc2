\* Two requests for the same media; a lock expires in the middle of a scrape.
\* Two streams of one IP, in two processes, of a chunk each, with one mishap.
SPECIFICATION SuiteSpec
CONSTANTS
    r1 = r1
    r2 = r2
    Client = {r1, r2}
    NoClient = NoClient
    TTL = 1
    Second = 1
    Quantum = 1
    RetryInterval = 1
    WaitTimeouts <- NeverWait
    Ahead <- SameClock
    MaxAhead = 0
    LastStart = 3
    Horizon = 3
    MayAge = {"alias"}
    FirstCache <- EmptyOrStale
    s1 = s1
    s2 = s2
    h1 = h1
    h2 = h2
    Stream = {s1, s2}
    Process = {h1, h2}
    Home <- Homes
    Limit <- Limits
    MaxChunks = 1
    MaxMishaps = 1
CHECK_DEADLOCK FALSE
INVARIANTS RequestInv ProxyInv
PROPERTIES RequestEnds SlotsFreed
