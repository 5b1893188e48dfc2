\* Pools: a pool with an open invite, alone or with a second admin, two calls of
\* the API.  Trust: three ids, one of which connects, with
\* two receive loops; room for two keys, and what is of yesterday is old.
SPECIFICATION SuiteSpec
CONSTANTS
    c = c
    a = a
    b = b
    PoolNode = {c, a, b}
    Creator = c
    FirstRoles <- AloneOrTwoAdmins
    MaxUses = 1
    Acts = {"role", "leave", "delete", "join"}
    MaxVersion = 3
    MaxInbox = 1
    MaxCalls = 2
    p1 = p1
    p2 = p2
    p3 = p3
    Peer = {p1, p2, p3}
    Sender = {p1}
    l1 = l1
    l2 = l2
    Loop = {l1, l2}
    Initial = 2
    Highest = 3
    Untrusted = 1
    ValidBonus = 1
    DayBonus = 1
    DayBonusMax = 1
    InvalidPenalty = 1
    SignaturePenalty = 3
    MaxKeys = 2
    MaxAge = 0
    MaxDay = 1
    MaxItems = 1
SYMMETRY Alike
CHECK_DEADLOCK FALSE
INVARIANTS PoolInv TrustInv
PROPERTIES BanHolds
