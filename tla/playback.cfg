\* Answer: three torrents under a limit, or two that may be duplicates.
\* Availability: two services, two requests, two changes of what they hold, and
\* four ticks for rows that live for two.
\* Link: two files.
SPECIFICATION SuiteSpec
CONSTANTS
    d1 = d1
    d2 = d2
    t1 = t1
    o1 = o1
    Service = {d1, d2}
    Requests <- SomeRequests
    Store = {d1, d2}
    Torrent = {t1}
    Title = {1, 2, 3}
    Asker = {o1}
    Listing <- SomeListings
    OwnSize <- SomeSizes
    CacheTTL = 2
    NoTTL = 9
    Lag = 1
    ClockEnd = 4
    MaxMoves = 2
    MaxAsks = 2
    Plays <- SomePlays
CHECK_DEADLOCK FALSE
INVARIANTS AnswerInv AvailabilityInv LinkInv
