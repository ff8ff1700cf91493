SPECIFICATION Spec
CONSTANTS
    KeyLen = 3
    MaxWrite = 4
    MaxBytes = 8
INVARIANT StreamDecoded
CHECK_DEADLOCK FALSE
