SPECIFICATION Spec
CONSTANTS
    Sessions = {s1, s2, s3}
    ClientIDs = {"a"}
    Ports = {1}
    ConfigPorts <- OneStatic
    MaxRules = 1
    DynMin = 1
    DynMax = 1
    HostPorts = {}
    None = None
INVARIANT LiveSessionListed
CHECK_DEADLOCK FALSE
