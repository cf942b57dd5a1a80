SPECIFICATION FairSpec
CONSTANTS
    Errors <- ImapAndFileErrors
    Exchanges <- RspamdExchanges
    MaxRetriesSameError = 4
    RetryIntervals <- TwoIntervals
    MaxCalls = 5
INVARIANTS
    FailuresAreConsecutive
    BackoffFollowsIntervals
    TemporaryIsRetried
    LearningIsSurvived
PROPERTIES
    CleanShutdown
    ShutdownReturns
CHECK_DEADLOCK FALSE
