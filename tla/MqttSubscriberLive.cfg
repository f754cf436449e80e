CONSTANTS
    Feed <- MCFeed
    Critical <- MCCritical
    Undecodable <- MCUndecodable
    Mistyped <- MCMistyped
    StatusTopics <- MCStatusTopics
    TempTopics <- MCTempTopics
    MaxPending = 1
    MaxMsgs = 2
    MaxFaults = 1
    MaxRuns = 2
SPECIFICATION FairSpec
PROPERTIES EventuallyHandled
CHECK_DEADLOCK FALSE
