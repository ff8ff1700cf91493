SPECIFICATION DashSpec
CONSTANTS
    Sessions = {s1, s2}
    ClientIDs = {"a", "b"}
    Ports = {1}
    ConfigPorts <- OnePort
    MaxRules = 1
    DynMin = 1
    DynMax = 1
    HostPorts = {}
    None = None
    Reader = Reader
    MaxStreams = 1
INVARIANT BytesCounterMonotone
CHECK_DEADLOCK FALSE
