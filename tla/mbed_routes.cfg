\* Routing, ownership and accounting of the mbedTLS listener.
SPECIFICATION Spec
CONSTANTS
    Addr = {a1, a2}
    IpOf <- SamePrefix
    Session = {s1, s2}
    Cid = {c1, c2}
    OtherConn = {o1}
    ChannelDepth = 1
    MaxConnections = 2
    MaxPerIp = 3
    PortReuse = TRUE
    NoSession = NoSession
    NoCid = NoCid
    NoAddr = NoAddr
    NoBucket = NoBucket
SYMMETRY Symmetric
INVARIANTS
    TypeOK
    QuotaBooks
    CidRouteIntact
    HandshakeKeepsRoute
    EntriesOwned
    RepliesFollowAuthentication
