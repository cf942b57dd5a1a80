CONSTANTS
    MaxMails = 2
    Unscannable = {1}
    Capabilities <- ModernServer
    MaxFaults = 0
SPECIFICATION Spec
CHECK_DEADLOCK FALSE
PROPERTIES NewMailsAreScanned
