\* Two sessions, one with two concurrent tasks, in tables with room for one.
SPECIFICATION Spec
CONSTANTS
    t1 = t1
    t2 = t2
    t3 = t3
    s1 = s1
    s2 = s2
    Tasks = {t1, t2, t3}
    Sessions = {s1, s2}
    SessionOf <- MCSessionOf
    Calls <- MCTwoCalls
    Idle = Idle
    BreakerOn = TRUE
    FailureThreshold = 1
    Cooldown = 1
    HalfOpenMax = 1
    MaxSessionState = 1
    HistoryLen = 3
    LoopThreshold = 2
    LoopAction = "terminate"
    WindowSize = 2
    Errors = {}
    NoError = NoError
    MaxSteps = 2
    MaxCost = 0
    WallLimited = FALSE
    SoftPercent = 50
SYMMETRY MCSymmetry
INVARIANTS
    StepLimit
    EveryCallCounts
    RepetitionLimit
