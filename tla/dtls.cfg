\* Two sources, two connection threads, both caps within reach.
SPECIFICATION LiveSpec
CONSTANTS
    Addr = {a1, a2}
    IpOf <- OwnHost
    Conn = {k1, k2}
    OtherConn = {o1}
    ChannelDepth = 1
    MaxConnections = 3
    MaxPerIp = 2
    NoConn = NoConn
    NoAddr = NoAddr
    NoBucket = NoBucket
INVARIANTS
    TypeOK
    PermitsCounted
    CookieBound
PROPERTIES
    SlotLost
    CutOffEnds
    AcceptEnds
