CONSTANTS
    Sensors <- MCTwoSensors
    Clients = {"observer"}
    MaxUpdates = 2
SPECIFICATION FairSpec
INVARIANTS TypeOK QuietMeansCurrent NoTaskOutlivesContext
PROPERTIES NumbersFollowReadings ImplementsObservedState ShutdownReturns ObserversAreTold
CHECK_DEADLOCK FALSE
