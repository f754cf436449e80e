CONSTANTS
    Lines <- MCLines
    Sensors <- MCSensors
    Qos <- MCQos
    WillLine = "line1"
    MaxSeq = 1
    MaxFaults = 1
    MaxRuns = 2
    MaxPending = 1
    MaxMsgs = 4
    MaxFailures = 1
SPECIFICATION SystemSpec
INVARIANTS NoSilentLoss ShownIsRetained
PROPERTIES SystemImplementsCustody
CHECK_DEADLOCK FALSE
