CONSTANTS
    Mails <- AllMails
    MaxLines = 6
    ChunkSize = 8
    MaxLineLen = 8
    KeepTempFiles = FALSE
    NoFile = NoFile
    MaxFaults = 1
SPECIFICATION Spec
CHECK_DEADLOCK FALSE
INVARIANTS TypeOK SubjectReplaced HeadersInserted GivenUpForCause FilesRemoved
