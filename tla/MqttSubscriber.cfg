CONSTANTS
    Feed <- MCFeed
    Critical <- MCCritical
    Undecodable <- MCUndecodable
    Mistyped <- MCMistyped
    StatusTopics <- MCStatusTopics
    TempTopics <- MCTempTopics
    MaxPending = 2
    MaxMsgs = 3
    MaxFaults = 1
    MaxRuns = 2
SPECIFICATION Spec
INVARIANTS TypeOK NothingTakenOverIsLost StatusConverges
PROPERTIES ImplementsCustody
CHECK_DEADLOCK FALSE
