CONSTANTS
    Base = 508
    Pages = 2
    PageWords = 2
    Data = {d1, d2}
    Old = 3
    MaxBlocks = 2

SYMMETRY DataSymmetry

SPECIFICATION Spec

INVARIANT
    InterruptsDoNoHarm
