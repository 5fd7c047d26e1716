\* A client and a network that keep to their windows.
SPECIFICATION Spec
CONSTANTS
    Req = {1, 2, 3, 4}
    NoReq = 0
    MidOf <- Mids
    Con = {1, 3, 4}
    Ttl = 5
    Cap = 2
    MidSpace = 3
    FirstMid = 2
    ChannelDepth = 1
    HandleTime = 1
    Span = 1
    Latency = 1
    Lifetime = 8
    Window = 7
    Burst = 2
    MaxTime = 9
INVARIANTS
    TypeOK
    ForgetsOnlyOldest
PROPERTY
    ServesAtMostOnce
