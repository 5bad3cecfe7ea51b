CONSTANTS
    Words <- MCWords
    Period = 2
    Watchdogs <- MCWatchdogs
    SketchWrites = TRUE

SPECIFICATION FairSpec

INVARIANTS
    TypeOK
    SketchIsKept

PROPERTIES
    EntersWhenAsked
    TouchResets
