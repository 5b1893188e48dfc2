\* Two handshakes of one node overlap.
SPECIFICATION Spec
CONSTANTS
    i1 = i1
    i2 = i2
    i3 = i3
    o1 = o1
    o2 = o2
    n1 = n1
    n2 = n2
    x = x
    here = here
    Conn = {i1, i2, i3, o1, o2}
    Inbound = {i1, i2, i3}
    Node = {n1, n2}
    NodeOf <- Nodes
    Ip = {x}
    IpOf <- OneIp
    Address = {here}
    AddressOf <- OneAddress
    NoConn = NoConn
    MaxPeers = 2
    LimitOf <- LimitTwo
SYMMETRY Twins
CHECK_DEADLOCK FALSE
INVARIANTS ActiveIsRegistered
