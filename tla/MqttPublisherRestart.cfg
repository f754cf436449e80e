CONSTANTS
    Lines <- MCOneLine
    Sensors <- MCTwoSensors
    Qos <- MCTwoQos
    WillLine = "line1"
    MaxSeq = 1
    MaxFaults = 1
    MaxRuns = 2
SPECIFICATION FairSpec
INVARIANTS NoDuplicateUnlessQos1 AnnouncedOnline
PROPERTIES NewReadingsOnlyWhileOnline InterruptEnds DeathIsNoticed EventuallyForwarded
CHECK_DEADLOCK FALSE
