SPECIFICATION FairSpec
CONSTANTS
    MaxRuns = 3
    MaxFaults = 3
    MaxResets = 2
    MaxLates = 1
INVARIANTS CertificateOfKey NamedOnceRegistered FailureExplained
PROPERTY AgentReleased
CHECK_DEADLOCK FALSE
