SPECIFICATION Spec
CONSTANTS
    NumJobs = 2
    NumBlocks = 1
    NumBuffers = 1
    RequestSize = 1
    MaxMessages = 20
    HandleLimit = 256
    Failures = {}
    MaxCopies = 1
    MaxLost = 0
    MaxResets = 0
INVARIANT NotifyTopicNotEmpty
CHECK_DEADLOCK FALSE
