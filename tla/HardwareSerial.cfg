\* A write () after a begin () on an open port with a full buffer stops for
\* good (Stuck).
CHECK_DEADLOCK FALSE

CONSTANTS
    N = 4
    MaxWrites = 10

SPECIFICATION FairSpec

INVARIANTS
    TypeOK
    FlushMeansSent
    FreeIsThere

PROPERTIES
    WireInOrder
    CallsReturn
