SPECIFICATION Spec
CONSTANTS
    Byte = 3
    Data = 2
INVARIANT PaddingDiscarded
CHECK_DEADLOCK FALSE
