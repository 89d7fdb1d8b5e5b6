\* Processes sharing a breaker through Redis: what a load mixes.  Two of them, the smallest
\* number that can disagree, with two calls each, so that one call goes on while another
\* loads the hash; two tests, so that HALF_OPEN is saved and loaded.
SPECIFICATION SharedSpec
CONSTANTS
    Replicas = {r1, r2}
    MaxCalls = 2
    MaxSaves = 1
    FailureThreshold = 1
    Cooldown = 1
    HalfOpenMax = 2
SYMMETRY Symmetry
INVARIANTS
    NeverOpenWithoutDate
    NeverStuck
