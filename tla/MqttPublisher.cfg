CONSTANTS
    Lines <- MCLines
    Sensors <- MCSensors
    Qos <- MCQos
    WillLine = "line1"
    MaxSeq = 2
    MaxFaults = 2
    MaxRuns = 1
SPECIFICATION Spec
INVARIANTS TypeOK CleanStopIsVisible NumbersHaveNoGap
PROPERTIES NewReadingsOnlyWhileOnline
CHECK_DEADLOCK FALSE
