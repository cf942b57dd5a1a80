CONSTANTS
    MaxMails = 4
    Unscannable = {3}
    Capabilities <- AnyServer
    MaxFaults = 2
SPECIFICATION Spec
CHECK_DEADLOCK FALSE
INVARIANTS LostOnlyByFallback UploadedIsKept UploadedOnce
PROPERTIES ScanMailboxDrains
