CONSTANTS
    g1 = g1
    g2 = g2
    g3 = g3
    g4 = g4
    Requests = {g1, g2, g3, g4}
    Size <- MCSize
    BatchSize = 3
    Ranks = {r1, r2}
    NoTimer = NoTimer
SPECIFICATION Spec
INVARIANTS PendingIsGuarded TimerIsCurrent WaiterIsHeld OwnReward
PROPERTY EveryReward
CHECK_DEADLOCK FALSE
