SPECIFICATION FairSpec
CONSTANTS
    Sessions = {s1, s2}
    ClientIDs = {"a", "b"}
    Ports = {1, 2}
    ConfigPorts <- TwoClients
    MaxRules = 2
    DynMin = 1
    DynMax = 2
    HostPorts = {2}
    None = None
INVARIANTS
    TypeOK
    ListenersTrackSockets
    NoZombieClient
PROPERTIES
    TeardownSparesOthers
    DeadSessionEvicted
    SetupTerminates
    ClosedListenerRetires
CHECK_DEADLOCK FALSE
