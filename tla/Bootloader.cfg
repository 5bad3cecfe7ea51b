CONSTANTS
    HoldTicks <- MCHoldTicks
    BootTicks = 2
    AvrTicks = 2
    ExitTicks = 1
    EspTicks = 2
    CommTicks = 1
    SettleTicks = 1
    MaxBlock = 2
    Resets = TRUE

SPECIFICATION FairSpec

INVARIANTS
    TypeOK
    NoStartWithoutSketch
    HoldMeasured
    TimerServesWaits
    SwitchRecoversEsp

PROPERTY
    QuietSettles
