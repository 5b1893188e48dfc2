\* Lock: times kept to the nearest multiple of four ticks (PostgreSQL REAL), two
\* hosts whose clocks differ, the cleanup on the faster.  Setup: two processes,
\* each kind of lock, two versions, three old rows, two mishaps; a third process
\* on lock files, without sweeps.  Schema: a new database, an old one and one
\* between.  Transfer: two tables, the one of which refers to the other; pages
\* of a row, batches of two.
SPECIFICATION SuiteSpec
CONSTANTS
    c1 = c1
    c2 = c2
    Client = {c1, c2}
    NoClient = NoClient
    TTL = 2
    Second = 2
    Quantum = 4
    RetryInterval = 1
    WaitTimeouts <- LongWait
    Ahead <- TwoHosts
    MaxAhead = 1
    LastStart = 3
    Horizon = 12
    u1 = u1
    u2 = u2
    u3 = u3
    Process = {u1, u2, u3}
    LockKind = {"advisory", "flock", "lockfile"}
    Versions = 2
    Row = {1, 2, 3}
    Stamp <- Stamps
    RowTtl = 1
    BatchSize = 1
    Interval <- Intervals
    Beginning = 2
    End = 3
    MaxMishaps = 2
    NoProcess = NoProcess
    NoFile = NoFile
    Null = Null
    FirstDatabase <- OldDatabases
    Backend = {"postgres", "sqlite"}
    Table = {"items", "episodes"}
    Key = {1, 2, 3}
    Parent <- Parents
    ParentKey <- ParentKeys
    ExportBatch = 1
    ImportBatch = 2
    MinBatch = 1
    MaxRetries = 1
    ManyLocks = 1
    FirstSource <- FullSource
    FirstTarget <- NewOrUsed
    MaxEdits = 1
    MaxLocked = 2
CHECK_DEADLOCK FALSE
INVARIANTS LeaseHonoured SetupInv SchemaInv TransferInv
PROPERTIES ImplementsLeaseMutex NobodyStuck SetupEnds
