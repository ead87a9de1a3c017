SPECIFICATION FairSpec
CONSTANTS
    Primary = c1
    Secondary = c2
    Conns = {c1, c2}
    NoConn = none
    MinOverlap = 1
    MaxGenerations = 2
INVARIANTS ScratchIsOwners EvidenceWellFormed ReportedIsEstablished CompleteMeansForced
PROPERTIES PrimaryContinues ReconnectNoticed
