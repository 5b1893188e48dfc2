\* A member leaves, another one is cut off for a while.
SPECIFICATION PoolSpec
CONSTANTS
    c = c
    a = a
    b = b
    PoolNode = {c, a, b}
    Creator = c
    FirstRoles <- TwoMembers
    MaxUses = 1
    Acts = {"leave"}
    MaxVersion = 2
    MaxInbox = 2
    MaxCalls = 2
CHECK_DEADLOCK FALSE
INVARIANTS PoolsConverge
