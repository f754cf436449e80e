CONSTANTS
    Sensors <- MCSensors
    Clients = {"observer"}
    MaxUpdates = 0
SPECIFICATION Spec
INVARIANT AnnouncedIsServed
CHECK_DEADLOCK FALSE
