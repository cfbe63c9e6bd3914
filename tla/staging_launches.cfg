CONSTANTS
    a = a
    b = b
    c = c
    config = config
    shard = shard
    None = None
    Queues = {q}
    Sources <- ThreeSources
    Files <- ModelFiles
    Holds <- ModelHolds
    Bytes <- ModelBytes
    Pruned <- Weights
    Shared <- SharedByA
    Release <- PrunedButA
    ReuseExisting = TRUE
    Clean = TRUE
    Orphans = TRUE
    MaxLaunches = 3
    MaxCrashes = 2
SPECIFICATION Spec
INVARIANTS StagedIsWhole CopiedOnce ServedByOwn
