CONSTANTS
    First = first
    Second = second
    N = 2
    Kinds <- ModelKinds
    Dir <- SharedDirs
    GenerationOnly = {1}
    Gated = {2}
    Dependency = 2
    Selected = {2}
    RequireGatePass = TRUE
    Hands = {h1, h2}
    Child = child
    None = None
    MaxResets = 1
    MaxGates = 1
    MaxFaults = 1
SPECIFICATION FairSpec
INVARIANTS HandoffIsEarned CleanUpIsLast
PROPERTY ChainAnswers
CHECK_DEADLOCK FALSE
