CONSTANTS
    NumBlocks = 2
    QueueLength = 1
    NoBlock = NoBlock
SPECIFICATION Spec
INVARIANTS
    TypeOK
    PendingCountsBlocks
    VerifiedStaysWhole
    AcceptedNotLost
PROPERTIES
    ImplementsImageStore
    CallsReturn
