SPECIFICATION Spec
CONSTANTS
    NumJobs = 1
    Versions = {65792, 65793}
    MaxLost = 0
    MaxFaults = 0
    MaxResets = 0
PROPERTY RevertsToOldFirmware
CHECK_DEADLOCK FALSE
