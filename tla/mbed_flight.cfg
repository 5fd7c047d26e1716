\* A lost final flight: where the client's retransmission is routed.
SPECIFICATION Spec
CONSTANTS
    Addr = {a1, a2}
    IpOf <- SamePrefix
    Session = {s1, s2}
    Cid = {c1, c2}
    OtherConn = {o1}
    ChannelDepth = 1
    MaxConnections = 2
    MaxPerIp = 2
    PortReuse = FALSE
    NoSession = NoSession
    NoCid = NoCid
    NoAddr = NoAddr
    NoBucket = NoBucket
SYMMETRY Symmetric
PROPERTY
    FlightReachesSession
