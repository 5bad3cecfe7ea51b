CONSTANTS
    EpSize = 2
    RingSize = 2
    CommTicks = 2
    EspTicks = 1
    SettleTicks = 1
    StageTicks = 1
    Ends <- MCEnds
    MaxIn = 3
    MaxOut = 2
    MaxBytes = 4
    MaxPlugs = 1

SPECIFICATION FairSpec
CHECK_DEADLOCK FALSE

INVARIANTS
    TypeOK
    HostGetsInOrder
    EspGetsInOrder
    FlushEndsTransfer

PROPERTIES
    BridgeWaits
    Delivered
