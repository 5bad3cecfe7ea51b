CONSTANTS
    HoldTicks <- MCHoldTicks
    BootTicks = 2
    AvrTicks = 2
    ExitTicks = 1
    EspTicks = 2
    CommTicks = 1
    SettleTicks = 1
    MaxBlock = 2
    Resets = FALSE

SPECIFICATION Spec

INVARIANT
    SketchCanBeRead

\* The sketch runs for ever once it was started.
CHECK_DEADLOCK FALSE
