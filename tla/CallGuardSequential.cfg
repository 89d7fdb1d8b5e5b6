\* One sequential session, the default loop threshold, and every limit.
SPECIFICATION Spec
CONSTANTS
    t1 = t1
    t2 = t2
    t3 = t3
    s1 = s1
    s2 = s2
    Tasks = {t1}
    Sessions = {s1}
    SessionOf <- MCSequentialSessionOf
    Calls <- MCThreeCalls
    Idle = Idle
    BreakerOn = FALSE
    FailureThreshold = 1
    Cooldown = 1
    HalfOpenMax = 1
    MaxSessionState = 1
    HistoryLen = 5
    LoopThreshold = 3
    LoopAction = "terminate"
    WindowSize = 4
    Errors = {e1}
    NoError = NoError
    MaxSteps = 6
    MaxCost = 1
    WallLimited = TRUE
    SoftPercent = 80
INVARIANT
    NoLoopRuns
