CONSTANTS
    EpSize = 2
    DescLen = 2
    EncLen = 4
    WLengths <- MCLengths
    MaxFaults = 2

SPECIFICATION FairSpec
CHECK_DEADLOCK FALSE

INVARIANTS
    TypeOK
    HostAndDeviceAgree
    SuspendIsNoticed
    WholeAnswer

PROPERTY
    Enumerates
