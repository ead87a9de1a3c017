SPECIFICATION Spec
CONSTANTS
    NumJobs = 2
    NumBlocks = 1
    NumBuffers = 2
    RequestSize = 1
    MaxMessages = 20
    HandleLimit = 256
    Failures = {"parse", "create", "publish", "decode", "write", "close", "cancel"}
    MaxCopies = 1
    MaxLost = 1
    MaxResets = 1
INVARIANT NoBufferLeak
PROPERTIES BufferOwnership NextJobAsked
CHECK_DEADLOCK FALSE
