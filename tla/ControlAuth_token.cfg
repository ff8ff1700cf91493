SPECIFICATION ControlSpec
CONSTANTS
    Sessions = {s1, s2}
    Tokens = {right, wrong}
    ServerToken = right
    ClientIDs = {a, b}
    Configured = {a}
    Forms = {"hex"}
    None = None
INVARIANT TokenHolderAccepted
CHECK_DEADLOCK FALSE
