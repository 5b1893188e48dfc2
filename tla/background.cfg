\* Two processes; one item and two upsets, or two items and one.  No symmetry,
\* since properties of liveness are checked.
SPECIFICATION InstanceSpec
CONSTANTS
    w1 = w1
    w2 = w2
    x = x
    y = y
    Worker = {w1, w2}
    Item = {x, y}
    Concurrency = 1
    PerRun = 2
    Free = Free
    Orphan = Orphan
    MaxUpsets = 2
CHECK_DEADLOCK FALSE
INVARIANTS WorkerInv
PROPERTIES StaleRecovered StopReturns
