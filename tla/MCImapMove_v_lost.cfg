CONSTANTS
    MaxMails = 1
    Unscannable = {}
    Capabilities <- OldServer
    MaxFaults = 1
SPECIFICATION Spec
CHECK_DEADLOCK FALSE
INVARIANTS OriginalIsKept
