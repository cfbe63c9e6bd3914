CONSTANTS
    MaxSaves = 3
    Keep = 2
    Shards = {shards}
    Sidecar = sidecar
    MaxCrashes = 1
SPECIFICATION Spec
INVARIANTS LatestIsKept ManifestIsBacked
PROPERTIES StorageBounded LastIsPushed
CHECK_DEADLOCK FALSE
