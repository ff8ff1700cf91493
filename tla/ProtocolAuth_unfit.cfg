SPECIFICATION FairSpec
CONSTANTS
    Byte = 3
    Token = Token
    WrongToken = WrongToken
PROPERTY UnfitIdReturns
CHECK_DEADLOCK FALSE
