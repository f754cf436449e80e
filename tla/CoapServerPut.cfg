CONSTANTS
    Sensors <- MCSensors
    Clients = {"observer"}
    MaxUpdates = 0
SPECIFICATION Spec
INVARIANT InvalidPutIsBadRequest
CHECK_DEADLOCK FALSE
