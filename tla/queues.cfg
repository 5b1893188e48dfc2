\* Updates: three rows and a queue of two.  Magnets: four calls, a queue of one,
\* two workers.  Relay: three torrents in batches of two.
\* DMM: two workers, two files, two mishaps.
SPECIFICATION SuiteSpec
CONSTANTS
    u1 = u1
    u2 = u2
    u3 = u3
    u4 = u4
    a = a
    b = b
    c = c
    c1 = c1
    c2 = c2
    c3 = c3
    Update = {u1, u2, u3, u4}
    Row = {a, b, c}
    RowOf <- Rows
    Call = {c1, c2, c3}
    Items <- Calls
    Retrier = Retrier
    Network = {u4}
    Unfit = {u3}
    QueueMax = 2
    BatchSize = 2
    BroadcastMax = 1
    MaxAttempts = 2
    MaxFailures = 1
    STOP = STOP
    None = None
    m1 = m1
    m2 = m2
    m3 = m3
    m4 = m4
    k1 = k1
    k2 = k2
    k3 = k3
    w1 = w1
    w2 = w2
    MagnetCall = {m1, m2, m3, m4}
    KeyOf <- Keys
    MagnetOf <- Magnets
    SeedersOf <- Seeders
    MagnetWorker = {w1, w2}
    QueueSize = 1
    t1 = t1
    t2 = t2
    t3 = t3
    r1 = r1
    r2 = r2
    Torrent = {t1, t2, t3}
    Task = {r1, r2}
    RelayBatchSize = 2
    g1 = g1
    g2 = g2
    f1 = f1
    f2 = f2
    Ingester = {g1, g2}
    HashList = {f1, f2}
    IngestBatch = 1
    MaxMishaps = 2
CHECK_DEADLOCK FALSE
INVARIANTS UpdatesInv RetryEventTrue MagnetInv RelayInv DmmInv StopDrains
PROPERTIES QueuesSettle StopsReturn
