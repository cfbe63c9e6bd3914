CONSTANTS
    MaxSaves = 2
    Keep = 1
    Shards = {shards}
    Sidecar = sidecar
    MaxCrashes = 0
SPECIFICATION Spec
INVARIANT LatestIsKept
CHECK_DEADLOCK FALSE
