\* Registry: three inbound and two outbound websockets of two nodes.  Gossip: a
\* triangle and a fourth node, two contributions of one torrent.  Book: a manual
\* and a learned address, one restart.
SPECIFICATION SuiteSpec
CONSTANTS
    i1 = i1
    i2 = i2
    i3 = i3
    o1 = o1
    o2 = o2
    n1 = n1
    n2 = n2
    x = x
    here = here
    Conn = {i1, i2, i3, o1, o2}
    Inbound = {i1, i2, i3}
    Node = {n1, n2}
    NodeOf <- Nodes
    Ip = {x}
    IpOf <- OneIp
    Address = {here}
    AddressOf <- OneAddress
    NoConn = NoConn
    MaxPeers = 2
    LimitOf <- LimitTwo
    p = p
    q = q
    r = r
    s = s
    t1 = t1
    t2 = t2
    GNode = {p, q, r, s}
    Item = {t1, t2}
    HashOf <- H
    ContributorOf <- Who
    Mode <- Modes
    Trusts <- Trust
    Topology <- Ring
    MessageTtl = 3
    Fanout = 2
    PerMessage = 1
    QueueLength = 2
    KnownBefore <- KnownAlready
    mp = mp
    lp = lp
    P = P
    Q = Q
    Addr = {mp, lp}
    BookPeer = {P, Q}
    PeerAt <- Behind
    Manual = {mp}
    Bootstrap = {}
    Public = {mp, lp}
    OldFile <- Files
    MinPeers = 2
    BookMaxPeers = 2
    BackoffMax = 1
    MaxFailures = 1
    SaveFailures = 1
    CleanupAge = 1
    FailureCap = 2
    MaxBoots = 1
CHECK_DEADLOCK FALSE
INVARIANTS PeersInv GossipInv BookInv
PROPERTIES PeersSettle ReachesAll BookSettles
