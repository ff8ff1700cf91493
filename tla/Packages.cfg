SPECIFICATION MCSpec
CONSTANTS
    \* The smallest byte for which one byte, no byte and a length that wraps differ.
    Byte = 3
    Data = 2
    BufferSize = 1
    PipeWindow = 1
    Chunks = 2
    \* Lengths of one and of two significant bytes, and none.
    UdpByte = 2
    Sizes = {0, 1, 3}
    Datagrams = 2
    DefMin = 2
    DefMax = 4
    PortValues <- PortCases
    Token = Token
    WrongToken = WrongToken
    \* RateLimiter: two windows, with a cleanup pass at their end
    IPs = {ip1, ip2}
    Limit = 2
    Window = 2
    MaxTime = 4
    MaxFailures = 1
    \* ClientLoop
    MaxDials = 3
    \* ControlAuth
    Sessions = {s1, s2}
    Tokens = {right, wrong}
    ServerToken = right
    ClientIDs = {a, b}
    Configured = {a}
    Forms = {"raw", "hex"}
    None = None
INVARIANTS
    TypeOK
    WindowBound
    AttemptsBounded
    NoSessionLeak
    StopSeesCurrent
    OneConnectionAfterStop
    AcceptedProvedToken
    ShortPaddingDiscarded
    Agreement
    RejectedForToken
    InOrderAndFlushed
    RangeAsConfigured
    JunkCaFailsClosed
PROPERTIES
    ForgettingIsInvisible
    StopEndsSession
    LostSessionLeft
    RefusedPeerNotices
    ChallengeDecided
    HandshakeEnds
    BothReturn
    PipeEnds
    ImplementsChannel
    AllReturn
    SavedConfigLoads
CHECK_DEADLOCK FALSE
