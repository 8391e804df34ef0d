SPECIFICATION Spec
CONSTANTS
    BlockSize = 12
    LenBase = 2
    MaxData = 33
    Data <- MCData
    Junk = Junk
    None = None
INVARIANTS
    TypeOK
    ResultCorrect
    LengthExact
PROPERTY DigestStable
