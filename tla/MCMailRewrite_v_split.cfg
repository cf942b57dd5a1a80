CONSTANTS
    Mails <- GoodMails
    MaxLines = 2
    ChunkSize = 8
    MaxLineLen = 16
    KeepTempFiles = FALSE
    NoFile = NoFile
    MaxFaults = 0
SPECIFICATION Spec
CHECK_DEADLOCK FALSE
INVARIANTS HeadersAreInHeader
