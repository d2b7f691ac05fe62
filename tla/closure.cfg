SPECIFICATION LiveSpec
CONSTANTS
    CaptureSchema = "v2"
    Rivals = {}
    TaskOutcomes = {"ours"}
    MaxFaults = 0
CHECK_DEADLOCK FALSE
PROPERTY
    Closes
