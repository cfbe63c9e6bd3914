CONSTANTS
    N = 2
    Dep <- MCDep
    NeedGate <- MCNeedGate
    Evals = 2
    NeedsPrevious <- MCSecondEval
    CleanupEvals <- MCSecondEval
    Retention = TRUE
    StopOnFailure = FALSE
    StopWhenIdle = FALSE
    Workers = {w1, w2}
    Operators = {o1}
    Free = Free
    Racing = FALSE
    MaxOps = 1
    MaxRetries = 1
    MaxCrashes = 1
SPECIFICATION FairSpec
INVARIANTS ActiveHasOwner CompleteIsEarned FailedEvalRetryable
PROPERTIES PromotionIsSound ReadyIsTaken
CHECK_DEADLOCK FALSE
