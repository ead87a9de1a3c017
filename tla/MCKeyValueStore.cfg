SPECIFICATION Spec
CONSTANTS
    NumKeys = 3
    Kind <- MCKind
    Values = {"a", "b", "bad"}
    Malformed = {"bad"}
    MaxSessions = 2
    MaxSets = 3
    MaxFaults = 1
    MaxResets = 1
INVARIANTS PrefixCommitted CleanMeansStored
