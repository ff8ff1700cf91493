SPECIFICATION Spec
CONSTANTS
    Conns = {c1}
    UpLen = 2
    DownLen = 2
    HeaderRoom = 1
    Datagrams = 0
    None = None
    Rival = Rival
INVARIANT
    TunnelTransparent
CHECK_DEADLOCK FALSE
