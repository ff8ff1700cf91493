SPECIFICATION FairSpec
CONSTANTS
    Conns = {c1}
    UpLen = 2
    DownLen = 2
    HeaderRoom = 1
    Datagrams = 1
    None = None
    Rival = Rival
INVARIANTS
    OrderPreserved
    StreamsCounted
PROPERTIES
    UserLeavesHandlerEnds
    TargetLeavesHandlerEnds
CHECK_DEADLOCK FALSE
