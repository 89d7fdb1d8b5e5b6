\* Spans through buffer, flushers and event loops.  A buffer for two spans and three spans
\* recorded: enough for a trim, for a buffer that a batch put back overfills, and for a
\* span recorded while older ones are in two batches at once.
SPECIFICATION FairSpec
CONSTANTS
    MaxBuffer = 2
    MaxSpans = 3
INVARIANT
    CloseEmpties
PROPERTIES
    KeepsPromise
    LeavesTheBuffer
CHECK_DEADLOCK FALSE
