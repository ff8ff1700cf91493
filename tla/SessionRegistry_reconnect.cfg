SPECIFICATION FairSpec
CONSTANTS
    Sessions = {s1, s2}
    ClientIDs = {"a"}
    Ports = {1}
    ConfigPorts <- OneStatic
    MaxRules = 1
    DynMin = 1
    DynMax = 1
    HostPorts = {}
    None = None
PROPERTY ReconnectedClientServed
CHECK_DEADLOCK FALSE
