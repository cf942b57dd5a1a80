CONSTANTS
    m1 = m1
    m2 = m2
    m3 = m3
    NoScore = NoScore
    NoMail = NoMail
    Nowhere = Nowhere
    InboxMailbox = "INBOX"
    SpamMailbox = "Spam"
    ScanMailbox = "Unscanned"
    HamMailbox = "Ham"
    UndetectedMailbox = "Undetected"
    BackupMailbox = "Backup"
    SpamThreshold = 10
    Mail <- OneMail
    Malformed <- NoMails
    Unlearnable <- NoMails
    Unscannable <- NoMails
    Scores <- HighScore
    MarkLearnedAsSpamAsRead = TRUE
    KeepTempFiles = FALSE
    MaxSessions = 2
    MaxUploads = 2
    MaxFaults = 1
    MaxUserMoves = 0
SPECIFICATION FairSpec
CHECK_DEADLOCK FALSE
PROPERTIES NewMailIsUploaded
