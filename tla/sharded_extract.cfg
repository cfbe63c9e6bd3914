CONSTANTS
    Doc <- SixDocs
    Layers = 1
    Requests <- ModelRequests
    None = None
    MaxLaunches = 3
    MaxFaults = 1
SPECIFICATION FairShardSpec
INVARIANTS PlanIsWhole CompletedIsSelection
PROPERTY RelaunchCompletes
CHECK_DEADLOCK FALSE
