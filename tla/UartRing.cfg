CONSTANTS
    N = 4
    Byte <- MCByte
    b0 = 0

SPECIFICATION Spec

INVARIANTS
    TypeOK
    LosesOnlyWhenFull

PROPERTY
    RingIsFifo
