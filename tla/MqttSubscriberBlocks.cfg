CONSTANTS
    Feed <- MCFeed
    Critical <- MCCritical
    Undecodable <- MCUndecodable
    Mistyped <- MCMistyped
    StatusTopics <- MCStatusTopics
    TempTopics <- MCTempTopics
    MaxPending = 2
    MaxMsgs = 2
    MaxFaults = 1
    MaxRuns = 1
SPECIFICATION Spec
PROPERTIES BlocksUntilInterrupted
CHECK_DEADLOCK FALSE
