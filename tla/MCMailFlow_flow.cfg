CONSTANTS
    m1 = m1
    m2 = m2
    m3 = m3
    NoScore = NoScore
    NoMail = NoMail
    Nowhere = Nowhere
    InboxMailbox = "INBOX"
    SpamMailbox = "Spam"
    ScanMailbox = "Unscanned"
    HamMailbox = ""
    UndetectedMailbox = "Undetected"
    BackupMailbox = "Backup"
    SpamThreshold = 10
    Mail <- ThreeMails
    Malformed <- NoMails
    Unlearnable <- NoMails
    Unscannable <- ThirdMail
    Scores <- TwoScores
    MarkLearnedAsSpamAsRead = TRUE
    KeepTempFiles = FALSE
    MaxSessions = 2
    MaxUploads = 2
    MaxFaults = 2
    MaxUserMoves = 0
SYMMETRY MailSymmetry
SPECIFICATION Spec
CHECK_DEADLOCK FALSE
INVARIANTS TypeOK FlowInv AtMostOnceDelivery DeliveredIsBackedUp FiledByVerdict
           TempFilesOwned UnscannableStays
PROPERTIES AbandonedIsSilent
