----------------------------- MODULE LivePage ---------------------------------
(***************************************************************************)
(* The live page (src/dashboard/app/(dashboard)/live/page.tsx and          *)
(* src/dashboard/lib/live-utils.ts) and the stream of events behind it     *)
(* (SSEBroadcaster in api/broadcast.py, relayed by                         *)
(* src/dashboard/app/api/live/stream/route.ts).                            *)
(*                                                                         *)
(* Ingestion stores a span and then publishes it to the subscribers of its *)
(* project, each of which has a bounded queue.  The page asks the API once *)
(* for the sessions of the last hour, and counts spans as events arrive.   *)
(* Its connection may break at any time; it then connects again, and       *)
(* nothing of the time between is sent anew.                               *)
(*                                                                         *)
(* Left out: what a row shows beside its count of spans, the status it     *)
(* derives from the clock, the broadcaster over Redis, the limit on the    *)
(* number of clients, and the subscription of a connection that is gone,   *)
(* which the API keeps until it next writes to it.                         *)
(***************************************************************************)
EXTENDS Naturals, Sequences, FiniteSetsExt

CONSTANTS
    Sessions,
    ScopeOf,        \* the project of each session's spans, or Unscoped
    Projects,       \* the projects, or Everything, that the page may show
    ClientBuffer,   \* _CLIENT_BUFFER
    MaxInputs,      \* bound: spans ingested, and changes of the active project
    MaxBreaks,      \* bound: connections that break, and seeds that fail
    MaxSwitches     \* bound: changes of the active project

Unscoped   == "unscoped"
Everything == "everything"
Nobody     == "nobody"

VARIABLES
    stored,         \* spans of each session in the store
    idle,           \* sessions whose last stored span is more than 10 minutes old
    unpublished,    \* spans stored and not yet published
    subscriber,     \* the project of the page's subscription, or Nobody
    queue,          \* ... its queue
    wire,           \* events sent and not yet received
    project,        \* the active project of the page
    connState,
    seeds,          \* requests for the sessions of the last hour
    rows,           \* the page's table: spans counted, and whether it is idle as above
    newest,         \* the session of the last event since the page connected
    breaks, switches

stream == <<subscriber, queue, wire>>
liveVars == <<stored, idle, unpublished, stream, project, connState, seeds, rows, newest,
          breaks, switches>>

-----------------------------------------------------------------------------
\* Ingestion and the broadcaster

InScope(p, s) == p \in {Everything, ScopeOf[s]}

Inputs == MapThenSumSet(LAMBDA s : stored[s], Sessions) + switches

\* The span of a long call, or of a batch that was delayed, starts long ago.
Store(s, late) ==
    /\ Inputs < MaxInputs
    /\ stored' = [stored EXCEPT ![s] = @ + 1]
    /\ idle' = IF late THEN idle ELSE idle \ {s}
    /\ unpublished' = unpublished \cup {[session |-> s, n |-> stored'[s], late |-> late]}
    /\ UNCHANGED <<stream, project, connState, seeds, rows, newest, breaks, switches>>

\* publish: an event that finds the queue full takes the place of the oldest.
Delivers(e) == subscriber # Nobody /\ InScope(subscriber, e.session)
EnqueueIfRoom(e) ==     \* Mutant: an event that finds the queue full is lost.
    IF Len(queue) < ClientBuffer THEN Append(queue, e) ELSE queue
Enqueue(e) == Append(IF Len(queue) < ClientBuffer THEN queue ELSE Tail(queue), e)
Publish(e) ==
    /\ unpublished' = unpublished \ {e}
    /\ IF Delivers(e)
       THEN queue' = Enqueue(e) /\ newest' = e.session
       ELSE UNCHANGED <<queue, newest>>
    /\ UNCHANGED <<stored, idle, subscriber, wire, project, connState, seeds, rows, breaks, switches>>
\* The generator of subscribe, and the relay.
Send ==
    /\ queue # <<>>
    /\ wire' = Append(wire, Head(queue)) /\ queue' = Tail(queue)
    /\ UNCHANGED <<stored, idle, unpublished, subscriber, project, connState, seeds, rows,
                   newest, breaks, switches>>

-----------------------------------------------------------------------------
\* The page

Seed(p) == [n |-> switches, project |-> p, answered |-> FALSE, sessions |-> <<>>]

LiveInit ==
    /\ stored = [s \in Sessions |-> 0] /\ idle = {} /\ unpublished = {}
    /\ subscriber = Nobody /\ queue = <<>> /\ wire = <<>>
    /\ project \in Projects
    /\ switches = 0
    /\ connState = "connecting"
    /\ seeds = {Seed(project)}
    /\ rows = <<>>
    /\ newest = Nobody
    /\ breaks = 0

\* connect, the subscription at the API, and onopen.
Subscribe ==
    /\ connState = "connecting" /\ subscriber = Nobody
    /\ subscriber' = project
    /\ UNCHANGED <<stored, idle, unpublished, queue, wire, project, connState, seeds, rows,
                   newest, breaks, switches>>
OnOpen ==
    /\ connState = "connecting" /\ subscriber # Nobody
    /\ connState' = "connected"
    /\ UNCHANGED <<stored, idle, unpublished, stream, project, seeds, rows, newest, breaks, switches>>
\* onerror closes the stream and connects again after a delay.
Disconnected == subscriber' = Nobody /\ queue' = <<>> /\ wire' = <<>> /\ newest' = Nobody
OnError ==
    /\ breaks < MaxBreaks /\ breaks' = breaks + 1
    /\ connState \in {"connecting", "connected"}
    /\ connState' = "reconnecting"
    /\ Disconnected
    /\ UNCHANGED <<stored, idle, unpublished, project, seeds, rows, switches>>
Reconnect ==
    /\ connState = "reconnecting"
    /\ connState' = "connecting"
    /\ UNCHANGED <<stored, idle, unpublished, stream, project, seeds, rows, newest, breaks, switches>>

\* mergeSpan: the idle rows go, then the session's row counts one more.
Kept == {s \in DOMAIN rows : ~rows[s].idle}
Merged(e) ==
    LET count == IF e.session \in Kept THEN rows[e.session].count ELSE 0
    IN  [s \in Kept \cup {e.session} |->
            IF s = e.session THEN [count |-> count + 1, idle |-> e.late] ELSE rows[s]]
OnSpan ==
    /\ connState = "connected" /\ wire # <<>>
    /\ rows' = Merged(Head(wire))
    /\ wire' = Tail(wire)
    /\ UNCHANGED <<stored, idle, unpublished, subscriber, queue, project, connState, seeds,
                   newest, breaks, switches>>

\* The seed: the sessions of the project that are not idle, and not on the page.
SeedRead(q) ==
    /\ ~q.answered
    /\ LET recent == {s \in Sessions : InScope(q.project, s) /\ stored[s] > 0 /\ s \notin idle}
       IN  seeds' = (seeds \ {q}) \cup {[q EXCEPT !.answered = TRUE,
                                         !.sessions = [s \in recent |-> stored[s]]]}
    /\ UNCHANGED <<stored, idle, unpublished, stream, project, connState, rows, newest,
                   breaks, switches>>
Seeded(q) == [s \in DOMAIN q.sessions |-> [count |-> q.sessions[s], idle |-> FALSE]]
Under(r, t) == [s \in DOMAIN r \cup DOMAIN t |-> IF s \in DOMAIN r THEN r[s] ELSE t[s]]
SeedReplaces(q) == Under(Seeded(q), rows)   \* Mutant: a row that is on the page is replaced.
SeedAdds(q) == Under(rows, Seeded(q))
SeedArrives(q) ==
    /\ q.answered
    /\ seeds' = seeds \ {q}
    /\ rows' = SeedAdds(q)
    /\ UNCHANGED <<stored, idle, unpublished, stream, project, connState, newest, breaks, switches>>
SeedFails(q) ==
    /\ breaks < MaxBreaks /\ breaks' = breaks + 1
    /\ seeds' = seeds \ {q}
    /\ UNCHANGED <<stored, idle, unpublished, stream, project, connState, rows, newest,
                   switches>>

\* The effects run again for another project; the rows and the seeds stay.
SwitchProject(p) ==
    /\ switches < MaxSwitches /\ Inputs < MaxInputs /\ switches' = switches + 1
    /\ p # project
    /\ project' = p
    /\ connState' = "connecting"
    /\ Disconnected
    /\ seeds' = seeds \cup {[Seed(p) EXCEPT !.n = switches']}
    /\ UNCHANGED <<stored, idle, unpublished, rows, breaks>>

\* Ten minutes without a span of the session, or without one the page heard of.
GrowsIdle(s) ==
    /\ \/ stored[s] > 0 /\ s \notin idle /\ idle' = idle \cup {s}
       \/ s \in DOMAIN rows /\ ~rows[s].idle /\ UNCHANGED idle
    /\ rows' = [t \in DOMAIN rows |-> IF t = s THEN [rows[t] EXCEPT !.idle = TRUE] ELSE rows[t]]
    /\ UNCHANGED <<stored, unpublished, stream, project, connState, seeds, newest, breaks, switches>>

LiveNext ==
    \/ \E s \in Sessions : GrowsIdle(s) \/ \E late \in BOOLEAN : Store(s, late)
    \/ \E e \in unpublished : Publish(e)
    \/ Send \/ OnSpan
    \/ Subscribe \/ OnOpen \/ OnError \/ Reconnect
    \/ \E q \in seeds : SeedRead(q) \/ SeedArrives(q) \/ SeedFails(q)
    \/ \E p \in Projects : SwitchProject(p)

\* The API publishes what it stored and serves its streams, and the timer of the
\* page runs out.
LiveFairness ==
    /\ WF_liveVars(\E e \in unpublished : Publish(e))
    /\ WF_liveVars(Send) /\ WF_liveVars(OnSpan)
    /\ WF_liveVars(Subscribe) /\ WF_liveVars(OnOpen) /\ WF_liveVars(Reconnect)
LiveSpec == LiveInit /\ [][LiveNext]_liveVars /\ LiveFairness

-----------------------------------------------------------------------------

\* A session that is not idle keeps its row, and the row its spans: whatever
\* the order of the seed and the events, and across reconnections, no answer
\* that was read earlier takes back what has been counted ("SSE already has a
\* fresher version").
RowsGrow ==
    [][\A s \in DOMAIN rows :
        ~rows[s].idle => s \in DOMAIN rows' /\ rows'[s].count >= rows[s].count]_liveVars

\* However connections break and projects change, the page ends up connected,
\* and the last span published to it is on it: a queue that overflows loses
\* older events only.
CatchesUp ==
    <>[](connState = "connected" /\ (newest # Nobody => newest \in DOMAIN rows))
=============================================================================
