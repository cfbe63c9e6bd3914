CONSTANTS
    N = 2
    Dep <- MCDep
    NeedGate <- MCNeedGate
    Evals = 1
    NeedsPrevious <- MCNone
    CleanupEvals <- MCNone
    Retention = FALSE
    StopOnFailure = TRUE
    StopWhenIdle = FALSE
    Workers = {w1, w2}
    Operators = {o1}
    Free = Free
    Racing = TRUE
    MaxOps = 1
    MaxRetries = 1
    MaxCrashes = 1
SYMMETRY Symmetry
SPECIFICATION Spec
INVARIANTS OneTraining TrainedAtMostOnce RefsResolve FrozenWasRunnable
PROPERTY RefinesOnce
CHECK_DEADLOCK FALSE
