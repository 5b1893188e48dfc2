\* Kodi: two add-ons, two codes and one page; times are kept to two ticks.
\* Discovery: two processes, every combination of settings, queues up to one above the largest.
\* Account: two requests for an account of at most two magnets.
\* Anime: two processes, two versions, one fault.
SPECIFICATION SuiteSpec
CONSTANTS
    a1 = a1
    a2 = a2
    p1 = p1
    k1 = k1
    k2 = k2
    w1 = w1
    w2 = w2
    r1 = r1
    r2 = r2
    g1 = g1
    g2 = g2
    Addon = {a1, a2}
    Page = {p1}
    NoPage = NoPage
    Code = {k1, k2}
    NoCode = NoCode
    TTL = 1
    MaxAttempts = 2
    Quantum = 2
    Horizon = 4
    Scraper = {w1, w2}
    Setting <- Settings
    Target = {0, 2, 5}
    MaxQueue = 5
    Request = {r1, r2}
    Magnet = {g1, g2}
    PageSize = 1
    MaxSnapshot = 2
    LeaseTime = 1
    SnapshotTtl = 1
    RefreshTime = 1
    LastTick = 3
    MaxChanges = 1
    b1 = b1
    b2 = b2
    Mapper = {b1, b2}
    Period = {0, 2}
    LastVersion = 2
    Cacheless = {2}
    AnimeEnd = 3
    MaxFaults = 1
    NoMapper = NoMapper
SYMMETRY Alike
CHECK_DEADLOCK FALSE
INVARIANTS KodiInv PolicyInv SyncInv AnimeInv
PROPERTIES ValidForLifetime ResumesAtLow
