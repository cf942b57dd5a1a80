SPECIFICATION BoundedSpec
CONSTANTS
    MaxMails = 2
    MaxFaults = 1
    MaxTimeouts = 1
INVARIANTS
    TypeOK
    NoSendOnClosedChannel
    TransportHasOneUser
    EventChannelLives
    StoppedIsStopped
PROPERTIES
    CancelEndsMonitor
    StopIsBounded
    NewMailIsNoticed
CHECK_DEADLOCK FALSE
