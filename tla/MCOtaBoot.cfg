SPECIFICATION Spec
CONSTANTS
    NumJobs = 2
    Versions = {65792, 65793, 131072}
    MaxLost = 1
    MaxFaults = 2
    MaxResets = 1
INVARIANT AlwaysBootable
PROPERTIES SuccessMeansInstalled SelfTestBeforeDemos UpdateReported
CHECK_DEADLOCK FALSE
