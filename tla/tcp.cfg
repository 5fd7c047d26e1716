\* Two connections of the TLS/TCP listener, of two sources of one slot each.
SPECIFICATION LiveSpec
CONSTANTS
    Conn = {c1, c2}
    Addr = {1, 2}
    IpOf <- Ips
    MaxConnections = 2
    MaxPerIp = 1
    Deadline = 2
    HandshakeTick = 2
    LookupTimeout = 3
    ReadSize = 8
    Direct = 2
    Radix = 2
    MaxTokenLen = 1
    MaxFrameBody = 9
    MaxNumber = 9
    Message <- Messages
    Malformed <- MalformedFrames
    MaxFrames = 2
    NoAddr = NoAddr
    NoMsg = NoMsg
INVARIANTS
    TypeOK
    PermitsCounted
    HandshakeBounded
    AnswersInOrder
    NothingLeftBehind
PROPERTY
    HandshakesEnd
