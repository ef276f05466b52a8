SPECIFICATION Spec
CONSTANTS
    None = None
    Releases = {"v1", "v2"}
    Commands <- TwoDomains
    MaxRuns = 2
    MaxLostWrites = 0
    MaxCrashes = 1
INVARIANT RecordedDomainIsOnChain
CHECK_DEADLOCK FALSE
