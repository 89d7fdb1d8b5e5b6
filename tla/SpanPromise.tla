------------------------------ MODULE SpanPromise ------------------------------
(***************************************************************************)
(* What the client of sdk/client.py promises of a span it is given,        *)
(* whatever buffers and posts it: the span is in one place at a time, it   *)
(* leaves the client only through a trim or with the batch it was posted   *)
(* in, and nothing is left when the process is over.  SpanDelivery         *)
(* implements this.                                                        *)
(***************************************************************************)
CONSTANTS
    Spans,
    AsyncFlushers,  \* those that put a failed batch back
    SyncFlushers    \* those that forget it

VARIABLES
    place,  \* of each span: "unrecorded", "buffer", the flusher posting it, or where it ended
    over    \* the process is gone

promised == <<place, over>>

Flushers == AsyncFlushers \cup SyncFlushers

At(ps) == {s \in Spans : place[s] \in ps}
Moved(spans, p) == [s \in Spans |-> IF s \in spans THEN p ELSE place[s]]

Init ==
    /\ place = [s \in Spans |-> "unrecorded"]
    /\ over = FALSE

-----------------------------------------------------------------------------
\* A span is recorded; the buffer may be trimmed.
Record(s) ==
    /\ ~ over
    /\ place[s] = "unrecorded"
    /\ \E lost \in SUBSET (At({"buffer"}) \cup {s}) :
          place' = [r \in Spans |-> IF r \in lost THEN "overflow"
                                    ELSE IF r = s THEN "buffer" ELSE place[r]]
    /\ UNCHANGED over

\* A flusher that is not posting takes what is buffered.
Take(f) ==
    /\ ~ over
    /\ At({f}) = {}
    /\ place' = Moved(At({"buffer"}), f)
    /\ UNCHANGED over

\* A batch is delivered, or fails and is forgotten or put back.
Deliver(f) ==
    /\ ~ over
    /\ place' = Moved(At({f}), "acked")
    /\ UNCHANGED over

Forget(f) ==
    /\ ~ over
    /\ f \in SyncFlushers
    /\ place' = Moved(At({f}), "failed")
    /\ UNCHANGED over

PutBack(f) ==
    /\ ~ over
    /\ f \in AsyncFlushers
    /\ place' = Moved(At({f}), "buffer")
    /\ UNCHANGED over

\* The tasks that post some batches are cancelled.
CutOff(fs) ==
    /\ ~ over
    /\ place' = Moved(At(fs), "cancelled")
    /\ UNCHANGED over

\* The process ends, with nothing buffered: batches in flight are lost with it.
End ==
    /\ ~ over
    /\ At({"buffer"}) = {}
    /\ place' = Moved(At(Flushers), "cancelled")
    /\ over' = TRUE

Next ==
    \/ \E s \in Spans : Record(s)
    \/ \E f \in Flushers : Take(f) \/ Deliver(f) \/ Forget(f) \/ PutBack(f)
    \/ \E fs \in SUBSET AsyncFlushers : CutOff(fs)
    \/ End

Spec == Init /\ [][Next]_promised
=============================================================================
