\* Processes sharing a breaker through Redis: how it ends.  Two of them, one call at a time
\* each, and two saves each, so that the saves of one process overtake each other as well.
SPECIFICATION FairSharedSpec
CONSTANTS
    Replicas = {r1, r2}
    MaxCalls = 1
    MaxSaves = 2
    FailureThreshold = 1
    Cooldown = 1
    HalfOpenMax = 1
PROPERTY
    Converges
