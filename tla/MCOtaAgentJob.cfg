SPECIFICATION Spec
CONSTANTS
    NumJobs = 1
    NumBlocks = 3
    NumBuffers = 3
    RequestSize = 2
    MaxMessages = 20
    HandleLimit = 256
    Failures = {"cancel"}
    MaxCopies = 1
    MaxLost = 2
    MaxResets = 1
INVARIANTS TypeOK  ActivateOnlyVerified
PROPERTIES WritesToOpenFile JobResolved
CHECK_DEADLOCK FALSE
