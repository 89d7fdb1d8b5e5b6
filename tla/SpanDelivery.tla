----------------------------- MODULE SpanDelivery ------------------------------
(***************************************************************************)
(* How LangSightClient of sdk/client.py gets recorded spans to the API.    *)
(* Spans are appended to one buffer under a lock.  Five flushers empty it, *)
(* each by taking the whole buffer as its batch and posting it without the *)
(* lock: the asyncio flush task, close(), the tasks that integrations      *)
(* start with create_task(client.flush()), the daemon thread, and the      *)
(* atexit handler.  The first three put a failed batch back; the other two *)
(* do not.  Event loops start and end around them.                         *)
(***************************************************************************)
EXTENDS Integers, Sequences, SequencesExt

CONSTANTS
    MaxBuffer,      \* _max_buffer_size
    MaxSpans        \* bound: spans recorded

ASSUME DeliveryAssumption ==
    /\ MaxBuffer \in Nat \ {0}
    /\ MaxSpans \in Nat

VARIABLES
    buffer,     \* _buffer, a sequence of spans, numbered as they are recorded
    recorded,   \* number of spans recorded
    fate,       \* of each span: where it ended
    post,       \* of each flusher: the batch it is posting
    task,       \* _flush_task
    closer,     \* close()
    thread,     \* _flush_thread
    closed,     \* _closed
    loop,       \* the application's event loop
    exit,       \* the end of the process
    mark,       \* spans recorded when close() began, if the outage was over
    outage      \* while TRUE a POST may fail; at some point it is over for good

vars == <<buffer, recorded, fate, post, task, closer, thread, closed, loop, exit, mark, outage>>

Spans == 1..MaxSpans
AsyncFlushers == {"task", "close", "integration"}
SyncFlushers == {"thread", "exit"}
Flushers == AsyncFlushers \cup SyncFlushers

\* "live": buffered or in a batch; "acked": the API answered 2xx; "overflow": trimmed;
\* "failed": in a synchronous POST that failed; "cancelled": in a POST cut off by the
\* cancellation of its task or the end of the process.
Fates == {"live", "acked", "overflow", "failed", "cancelled"}

\* "none": never started, or done.  "cancelled": about to handle CancelledError.
\* "parked": unfinished, on an event loop that does not run.
TaskStates == {"none", "looping", "cancelled", "final", "parked"}

Init ==
    /\ buffer = <<>>
    /\ recorded = 0
    /\ fate = [s \in Spans |-> "live"]
    /\ post = [f \in Flushers |-> <<>>]
    /\ task = "none"
    /\ closer = "idle"
    /\ thread = "sleeping"
    /\ closed = FALSE
    /\ loop = "down"
    /\ exit = "running"
    /\ mark = 0
    /\ outage = TRUE
-----------------------------------------------------------------------------
Settle(spans, f) == [s \in Spans |-> IF s \in spans THEN f ELSE fate[s]]

\* The spans that a trim drops, and those it keeps.
Surplus(buf) == IF Len(buf) > MaxBuffer THEN Len(buf) - MaxBuffer ELSE 0
Trimmed(buf) == SubSeq(buf, 1 + Surplus(buf), Len(buf))
Dropped(buf) == SubSeq(buf, 1, Surplus(buf))

\* Mutant: the batch is copied, and the buffer stays.
TakeCopies(f) ==
    /\ post' = [post EXCEPT ![f] = buffer]
    /\ UNCHANGED buffer

\* Take the buffer as the batch of f.
Take(f) ==
    /\ post' = [post EXCEPT ![f] = buffer]
    /\ buffer' = <<>>

\* The POSTs of some flushers are cut off.
Cut(cut) == Settle(UNION {ToSet(post[f]) : f \in cut}, "cancelled")
Idle(cut) == [f \in Flushers |-> IF f \in cut THEN <<>> ELSE post[f]]

\* buffer_span.  Called in the event loop, it also starts the flush task; called in
\* another thread it cannot.
Record(inLoop) ==
    /\ exit = "running"
    /\ recorded < MaxSpans
    /\ inLoop => loop \in {"up", "ending"}
    /\ recorded' = recorded + 1
    /\ LET longer == Append(buffer, recorded + 1)
       IN  /\ buffer' = Trimmed(longer)
           /\ fate' = Settle(ToSet(Dropped(longer)), "overflow")
    /\ task' = IF inLoop /\ task = "none" THEN "looping" ELSE task
    /\ UNCHANGED <<post, closer, thread, closed, loop, exit, mark, outage>>
-----------------------------------------------------------------------------
\* The flush task wakes up.  (One started while close() is about to go on sleeps first.)
TaskFlush ==
    /\ task = "looping" /\ loop = "up" /\ closer # "cancelling"
    /\ post["task"] = <<>> /\ buffer # <<>>
    /\ Take("task")
    /\ UNCHANGED <<recorded, fate, task, closer, thread, closed, loop, exit, mark, outage>>

\* It handles the cancellation: one last flush, at the end of which it is done.
FinalFlush ==
    /\ task = "cancelled"
    /\ task' = IF buffer = <<>> THEN "none" ELSE "final"
    /\ Take("task")
    /\ UNCHANGED <<recorded, fate, closer, thread, closed, loop, exit, mark, outage>>

\* An integration starts a task that flushes.
IntegrationFlush ==
    /\ loop = "up"
    /\ post["integration"] = <<>> /\ buffer # <<>>
    /\ Take("integration")
    /\ UNCHANGED <<recorded, fate, task, closer, thread, closed, loop, exit, mark, outage>>

\* close() cancels the flush task.  A POST that the task awaits raises CancelledError,
\* which _post_spans does not catch: the batch is gone.
CloseBegins ==
    /\ loop = "up" /\ closer = "idle"
    /\ closed' = TRUE
    /\ mark' = IF outage THEN 0 ELSE recorded

CloseCancels ==
    /\ CloseBegins
    /\ task = "looping"
    /\ closer' = "cancelling"
    /\ task' = "cancelled"
    /\ fate' = Cut({"task"})
    /\ post' = Idle({"task"})
    /\ UNCHANGED <<buffer, recorded, thread, loop, exit, outage>>

\* It raises instead when the task belongs to a loop that does not run.
CloseRaises ==
    /\ loop = "up" /\ closer = "idle"
    /\ task = "parked"
    /\ closed' = TRUE
    /\ closer' = "returned"
    /\ UNCHANGED <<buffer, recorded, fate, post, task, thread, loop, exit, mark, outage>>

\* Mutant: close() relies on the last flush of the task.
CloseWithoutFlush ==
    /\ \/ CloseBegins /\ task = "none"
       \/ /\ closer = "cancelling" /\ task \notin {"cancelled", "final"}
          /\ UNCHANGED <<closed, mark>>
    /\ closer' = "returned"
    /\ UNCHANGED <<buffer, recorded, fate, post, task, thread, loop, exit, outage>>

\* Without a task, or when the task is done, close() flushes.
CloseFlush ==
    /\ \/ CloseBegins /\ task = "none"
       \/ /\ closer = "cancelling" /\ task \notin {"cancelled", "final"}
          /\ UNCHANGED <<closed, mark>>
    /\ closer' = IF buffer = <<>> THEN "returned" ELSE "posting"
    /\ Take("close")
    /\ UNCHANGED <<recorded, fate, task, thread, loop, exit, outage>>

\* An answer reaches an asynchronous flusher.
AsyncDone(f) ==
    /\ post[f] # <<>>
    /\ loop # "down"
    /\ f = "task" => task # "parked"
    /\ post' = [post EXCEPT ![f] = <<>>]
    /\ task' = IF f = "task" /\ task = "final" THEN "none" ELSE task
    /\ closer' = IF f = "close" THEN "returned" ELSE closer
    /\ UNCHANGED <<recorded, thread, closed, loop, exit, mark, outage>>

AsyncOk(f) ==
    /\ AsyncDone(f)
    /\ fate' = Settle(ToSet(post[f]), "acked")
    /\ UNCHANGED buffer

\* A failed batch goes back before the spans recorded since, whatever their number.
AsyncFail(f) ==
    /\ outage
    /\ AsyncDone(f)
    /\ buffer' = post[f] \o buffer
    /\ UNCHANGED fate
-----------------------------------------------------------------------------
\* The thread wakes up.  It goes on to flush when there is something to flush and no
\* flush task that is not done; it ends when the client is closed.
AfterThreadStops == "ended"     \* Mutant: the thread flushes at most once.
AfterThread == IF closed THEN "ended" ELSE "sleeping"

ThreadWake ==
    /\ thread = "sleeping" /\ exit # "gone"
    /\ thread' = IF buffer # <<>> /\ task = "none" THEN "going" ELSE AfterThread
    /\ UNCHANGED <<buffer, recorded, fate, post, task, closer, closed, loop, exit, mark, outage>>

ThreadFlush ==
    /\ thread = "going" /\ exit # "gone"
    /\ thread' = IF buffer = <<>> THEN AfterThread ELSE "posting"
    /\ Take("thread")
    /\ UNCHANGED <<recorded, fate, task, closer, closed, loop, exit, mark, outage>>

\* A synchronous flusher forgets its batch whether or not the POST succeeds.
SyncDone(f) ==
    /\ post[f] # <<>>
    /\ fate' \in {Settle(ToSet(post[f]), "acked")} \cup
                 IF outage THEN {Settle(ToSet(post[f]), "failed")} ELSE {}
    /\ post' = [post EXCEPT ![f] = <<>>]
    /\ UNCHANGED <<buffer, recorded, task, closer, closed, loop, mark, outage>>

ThreadDone ==
    /\ SyncDone("thread")
    /\ thread' = AfterThread
    /\ UNCHANGED exit

\* The interpreter exits and runs the atexit handler, once no event loop runs.
Exit ==
    /\ exit = "running" /\ loop = "down"
    /\ exit' = "flushing"
    /\ Take("exit")
    /\ UNCHANGED <<recorded, fate, task, closer, thread, closed, loop, mark, outage>>

ExitDone ==
    /\ SyncDone("exit")
    /\ UNCHANGED <<thread, exit>>

\* The process is gone, and with it its daemon thread and a parked task.
Gone ==
    /\ exit = "flushing" /\ post["exit"] = <<>>
    /\ exit' = "gone"
    /\ thread' = "ended"
    /\ fate' = Cut(Flushers)
    /\ post' = Idle(Flushers)
    /\ UNCHANGED <<buffer, recorded, task, closer, closed, loop, mark, outage>>
-----------------------------------------------------------------------------
\* asyncio.run, or whatever runs the loop.  A loop that had stopped may run again, with
\* the task it left.
LoopStarts ==
    /\ exit = "running" /\ loop = "down"
    /\ loop' = "up"
    /\ task' \in IF task = "parked" THEN {"parked", "looping"} ELSE {task}
    /\ UNCHANGED <<buffer, recorded, fate, post, closer, thread, closed, exit, mark, outage>>

\* asyncio.run ends: every task is cancelled and run to its end.  (The application
\* awaits close, if it calls it, before it returns.)
LoopEnds ==
    /\ loop = "up" /\ closer \in {"idle", "returned"}
    /\ loop' = "ending"
    /\ LET cut == {f \in {"task", "integration"} : f = "task" => task # "parked"}
       IN  /\ task' = IF task = "looping" THEN "cancelled" ELSE task
           /\ fate' = Cut(cut)
           /\ post' = Idle(cut)
    /\ UNCHANGED <<buffer, recorded, closer, thread, closed, exit, mark, outage>>

\* A task started meanwhile is left as it is.
LoopEnded ==
    /\ loop = "ending"
    /\ task \notin {"cancelled", "final"}
    /\ loop' = "down"
    /\ task' = IF task = "looping" THEN "parked" ELSE task
    /\ UNCHANGED <<buffer, recorded, fate, post, closer, thread, closed, exit, mark, outage>>

\* loop.run_until_complete returns: nothing is cancelled, the tasks stop where they are.
LoopStops ==
    /\ loop = "up" /\ closer \in {"idle", "returned"}
    /\ post["integration"] = <<>>
    /\ task \in {"none", "looping", "parked"}
    /\ loop' = "down"
    /\ task' = IF task = "looping" THEN "parked" ELSE task
    /\ UNCHANGED <<buffer, recorded, fate, post, closer, thread, closed, exit, mark, outage>>

Recovery ==
    /\ outage
    /\ outage' = FALSE
    /\ UNCHANGED <<buffer, recorded, fate, post, task, closer, thread, closed, loop, exit, mark>>

Next ==
    \/ \E inLoop \in BOOLEAN : Record(inLoop)
    \/ TaskFlush \/ FinalFlush \/ IntegrationFlush
    \/ CloseCancels \/ CloseRaises \/ CloseFlush
    \/ \E f \in AsyncFlushers : AsyncOk(f) \/ AsyncFail(f)
    \/ ThreadWake \/ ThreadFlush \/ ThreadDone
    \/ Exit \/ ExitDone \/ Gone
    \/ LoopStarts \/ LoopEnds \/ LoopEnded \/ LoopStops
    \/ Recovery

Spec == Init /\ [][Next]_vars

\* Threads run, the event loop runs what is ready, and every POST has a timeout.  The
\* application need not record, close, start or end a loop, nor exit.
Fairness ==
    /\ WF_vars(TaskFlush)
    /\ WF_vars(FinalFlush)
    /\ WF_vars(closer = "cancelling" /\ CloseFlush)
    /\ \A f \in AsyncFlushers : WF_vars(AsyncOk(f) \/ AsyncFail(f))
    /\ WF_vars(ThreadWake)
    /\ WF_vars(ThreadFlush)
    /\ WF_vars(ThreadDone)
    /\ WF_vars(LoopEnded)

FairSpec == Spec /\ Fairness
-----------------------------------------------------------------------------
\* Every variable has its type.
TypeOK ==
    /\ buffer \in Seq(Spans)
    /\ recorded \in 0..MaxSpans
    /\ fate \in [Spans -> Fates]
    /\ post \in [Flushers -> Seq(Spans)]
    /\ task \in TaskStates
    /\ closer \in {"idle", "cancelling", "posting", "returned"}
    /\ thread \in {"sleeping", "going", "posting", "ended"}
    /\ closed \in BOOLEAN
    /\ loop \in {"down", "up", "ending"}
    /\ exit \in {"running", "flushing", "gone"}
    /\ mark \in 0..MaxSpans
    /\ outage \in BOOLEAN

\* Whatever the five flushers, the trims and the event loops do at once, the client
\* keeps the promise of SpanPromise: a span is in one place, once, until it is settled,
\* and nowhere after that; it moves with the whole of its batch; and when the process is
\* gone every span was delivered, trimmed, or lost with a POST, because no flusher puts
\* a batch back after the atexit handler has emptied the buffer.
Holders == {"buffer"} \cup Flushers
held == [p \in Holders |-> IF p = "buffer" THEN buffer ELSE post[p]]

Once(q, s) == \E i \in DOMAIN q : \A j \in DOMAIN q : q[j] = s <=> j = i
Absent(q, s) == \A j \in DOMAIN q : q[j] # s
OnlyAt(h, s, p) == Once(h[p], s) /\ \A q \in Holders \ {p} : Absent(h[q], s)
Nowhere(h, s) == \A q \in Holders : Absent(h[q], s)

Standing(s) == IF s > recorded THEN "unrecorded" ELSE fate[s]
PlaceIn(h, s, standing) ==
    IF standing = "live" /\ \E p \in Holders : OnlyAt(h, s, p)
    THEN CHOOSE p \in Holders : OnlyAt(h, s, p)
    ELSE IF standing # "live" /\ Nowhere(h, s) THEN standing ELSE "amiss"

Promise == INSTANCE SpanPromise WITH
    place <- [s \in Spans |-> PlaceIn(held, s, Standing(s))],
    over <- exit = "gone"

KeepsPromise == Promise!Spec

\* When close() returns and no POST failed since it began, nothing recorded before it
\* is left in the buffer, nor in a batch of the flush task.
CloseEmpties ==
    closer = "returned" => \A s \in 1..mark : s \notin ToSet(buffer \o post["task"])

\* Once the API answers again, a span in the buffer does not stay there while the
\* client is open: the task and the thread hand over to each other as event loops come
\* and go.  (Unless a loop left the flush task unfinished; see ThreadDelivers.)
Buffered(s) == s \in ToSet(buffer)

LeavesTheBuffer ==
    \A s \in Spans : Buffered(s) /\ ~ outage ~> ~ Buffered(s) \/ closed \/ task = "parked"

\* "Background daemon thread: flushes every flush_interval seconds [...].  Works
\* regardless of whether an asyncio event loop is running": the thread takes what is
\* in the buffer of an open client while no loop runs.  It does not when a loop has
\* left its flush task unfinished.
ThreadDelivers ==
    \A s \in Spans :
        Buffered(s) /\ loop = "down" /\ ~ outage ~> ~ Buffered(s) \/ loop # "down" \/ closed

\* "If the HTTP send fails (e.g. event loop is closing), spans are returned to the
\* buffer so the atexit handler can deliver them": no batch is lost with the task that
\* was posting it while the process goes on.
CancelledPostReturns ==
    [][exit = "running" => \A s \in Spans : fate'[s] = "cancelled" => fate[s] = "cancelled"]_vars
=============================================================================
