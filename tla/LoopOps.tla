------------------------------- MODULE LoopOps --------------------------------
(***************************************************************************)
(* The three patterns of sdk/loop_detector.py as predicates on the sliding *)
(* window of completed calls.  A call is a record [tool, args], args being *)
(* the hash of the arguments; a completed call adds the hash of its error, *)
(* NoError for a success and for a failure whose text is empty (a bare     *)
(* TimeoutError), which the code treats alike.                             *)
(***************************************************************************)
LOCAL INSTANCE Integers
LOCAL INSTANCE Sequences

CONSTANTS
    LoopThreshold,  \* loop_threshold: 0 when loop detection is off
    LoopAction,     \* "terminate", or "warn", which only logs
    WindowSize,     \* window_size of the deque
    Errors,         \* hashes of error texts
    NoError         \* error_hash None

ASSUME LoopAssumption ==
    /\ LoopThreshold \in Nat
    /\ LoopAction \in {"terminate", "warn"}
    /\ WindowSize \in Nat \ {0}
    /\ NoError \notin Errors

Key(r) == <<r.tool, r.args>>

\* The last n records of a window all satisfy P; false of a shorter window.
TailAll(window, n, P(_)) ==
    /\ n <= Len(window)
    /\ \A i \in (Len(window) - n + 1)..Len(window) : P(window[i])

\* Mutant: the repetition counts one call too few.
RepetitionLate(window, call) ==
    LET Same(r) == Key(r) = Key(call)
    IN  TailAll(window, LoopThreshold, Same)

\* The proposed call would be the LoopThreshold-th identical one in a row.
Repetition(window, call) ==
    LET Same(r) == Key(r) = Key(call)
    IN  TailAll(window, LoopThreshold - 1, Same)

\* The last 2 * (LoopThreshold - 1) calls alternate between the proposed call and
\* one other, and the other came last.
PingPong(window, call) ==
    LET n     == 2 * (LoopThreshold - 1)
        first == Len(window) - n + 1
    IN  /\ n <= Len(window)
        /\ \E other \in {Key(window[i]) : i \in DOMAIN window} \ {Key(call)} :
             \A i \in first..Len(window) :
               Key(window[i]) = IF (i - first) % 2 = 0 THEN Key(call) ELSE other

\* Mutant: a retry with other arguments is not a retry.
RetryWithSameArguments(window, call) ==
    \E e \in Errors :
        LET Failed(r) == Key(r) = Key(call) /\ r.error = e
        IN  TailAll(window, IF LoopThreshold > 2 THEN LoopThreshold - 1 ELSE 1, Failed)

\* The tool of the proposed call has just failed with one and the same error as
\* often as the threshold allows, whatever its arguments; once at least.
RetryWithoutProgress(window, call) ==
    \E e \in Errors :
        LET Failed(r) == r.tool = call.tool /\ r.error = e
        IN  TailAll(window, IF LoopThreshold > 2 THEN LoopThreshold - 1 ELSE 1, Failed)

\* check_pre_call: which of the three it is does not matter to the caller.
LoopDetected(window, call) ==
    \/ Repetition(window, call)
    \/ PingPong(window, call)
    \/ RetryWithoutProgress(window, call)

\* record_call: a deque of WindowSize records, the oldest falls out.
RecordCall(window, record) ==
    LET all == Append(window, record)
    IN  IF Len(all) > WindowSize THEN Tail(all) ELSE all
=============================================================================
