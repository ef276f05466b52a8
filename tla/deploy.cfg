SPECIFICATION LiveSpec
CONSTANTS
    None = None
    Releases = {"v1", "v2"}
    Commands <- OneDomain
    MaxRuns = 4
    MaxLostWrites = 1
    MaxCrashes = 3
INVARIANT RecordedIsOnChain
INVARIANT OneBuild
INVARIANT FinishedDeploymentVerifies
PROPERTY ResumingGetsThrough
CHECK_DEADLOCK FALSE
