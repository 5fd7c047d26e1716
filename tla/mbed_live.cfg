\* Progress of session threads, and the cookie gate without port reuse.
SPECIFICATION LiveSpec
CONSTANTS
    Addr = {a1}
    IpOf <- SamePrefix
    Session = {s1, s2}
    Cid = {c1, c2}
    OtherConn = {}
    ChannelDepth = 1
    MaxConnections = 2
    MaxPerIp = 2
    PortReuse = FALSE
    NoSession = NoSession
    NoCid = NoCid
    NoAddr = NoAddr
    NoBucket = NoBucket
INVARIANT
    VerifiedOnly
PROPERTIES
    OrphansLeave
    HandshakesEnd
