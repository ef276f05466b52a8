SPECIFICATION Spec
CONSTANTS
    None = None
    Releases = {"v1", "v2"}
    Commands <- OneDomain
    MaxRuns = 2
    MaxCrashes = 1
    MaxLostWrites = 1
INVARIANT ConfiguredIsRecorded
CHECK_DEADLOCK FALSE
