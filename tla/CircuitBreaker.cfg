\* The breaker under concurrent callers, time, and a server that settles.  Three callers:
\* one more than the two successes that close the breaker and than the two failures that
\* open it, so that in every phase a call of an earlier phase can still be running.
SPECIFICATION FairSpec
CONSTANTS
    Callers = {c1, c2, c3}
    FailureThreshold = 2
    Cooldown = 2
    HalfOpenMax = 2
INVARIANT
    ClosedCountsTheRun
PROPERTIES
    OpensOnABadRun
    ClosesOnAGoodRun
    RestsAWholeCooldown
    Recovers
    DeadServerIsCutOff
