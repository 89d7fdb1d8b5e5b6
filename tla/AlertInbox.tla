---------------------------- MODULE AlertInbox --------------------------------
(***************************************************************************)
(* The alert inbox: the alerts the API has fired, their life cycle, and    *)
(* the alerts page (src/dashboard/app/(dashboard)/alerts/page.tsx) that    *)
(* lists and counts them and lets an administrator acknowledge, snooze and *)
(* resolve them, while others do the same.                                 *)
(*                                                                         *)
(* The page holds one list for each tab it has shown and the counts of the *)
(* active alerts; it polls the list of the open tab and the counts.  A     *)
(* click posts a request without waiting for the one before it; nothing    *)
(* disables the buttons meanwhile.                                         *)
(*                                                                         *)
(* Left out: the rules, the webhook test, incomplete sessions and          *)
(* anomalies of the page; severities and texts of alerts; pages of more    *)
(* than 50 alerts.                                                         *)
(***************************************************************************)
EXTENDS Naturals, FiniteSets, Fetching

CONSTANTS
    Alerts,         \* the alerts that may fire
    InstanceWide,   \* the alerts fired without a project; the others are of
    HomeProject,    \* ... this one
    Projects,       \* the projects the page may show, or NoProject
    Tabs,           \* the tabs of the list: "active", "snoozed", "all" ...
    MaxEvents       \* bound: clicks, changes by others, requests that fail

ASSUME InboxAssumption == "active" \in Tabs /\ InstanceWide \subseteq Alerts

NoProject == "none"
Ops       == {"ack", "snooze", "resolve"}

VARIABLES
    status,         \* fired_alerts: the status of each alert, "none" before it fires
    over,           \* snoozed alerts whose snoozed_until has passed
    project,        \* the active project of the page
    tab,            \* feedStatus
    feed,           \* what SWR holds of the feed of each tab
    counts,         \* ... and of the counts: here the active alerts counted
    requests,       \* the page's requests not yet answered
    done,           \* <<alert, tab>>: changed by the page, whose list was then asked again
    events

store == <<status, over>>
vars  == <<store, project, tab, feed, counts, requests, done, events>>

-----------------------------------------------------------------------------
\* The API

ScopeOf(a)   == IF a \in InstanceWide THEN NoProject ELSE HomeProject
InScope(p)   == {a \in Alerts : status[a] # "none" /\ ScopeOf(a) \in {p, NoProject}}
Matches(a, t) == \/ t = "all"
                 \/ status[a] = t /\ (t = "snoozed" => a \notin over)
\* Of a row the page needs to know whether it is active, and so has buttons.
List(p, t)   == [a \in {b \in InScope(p) : Matches(b, t)} |-> status[a] = "active"]
Counted(p)   == {a \in InScope(p) : status[a] = "active"}

From == [ack |-> {"active"}, snooze |-> {"active", "acked", "snoozed"},
         resolve |-> {"active", "acked", "snoozed"}]
To   == [ack |-> "acked", snooze |-> "snoozed", resolve |-> "resolved"]
\* The UPDATE of a request for the project p finds its row.
Updates(op, a, p) == a \in InScope(p) /\ status[a] \in From[op]
Update(op, a) ==
    /\ status' = [status EXCEPT ![a] = To[op]]
    /\ over' = over \ {a}

Fire(a) ==
    /\ status[a] = "none"
    /\ status' = [status EXCEPT ![a] = "active"]
    /\ UNCHANGED <<over, project, tab, feed, counts, requests, done, events>>

\* Time passes snoozed_until; the row does not change.
SnoozeEnds(a) ==
    /\ status[a] = "snoozed"
    /\ over' = over \cup {a}
    /\ UNCHANGED <<status, project, tab, feed, counts, requests, done, events>>

\* Another administrator or script, which names the project of the alert.
OtherActs(op, a) ==
    /\ events < MaxEvents /\ events' = events + 1
    /\ Updates(op, a, ScopeOf(a))
    /\ Update(op, a)
    /\ UNCHANGED <<project, tab, feed, counts, requests, done>>

-----------------------------------------------------------------------------
\* The page

Init ==
    /\ status = [a \in Alerts |-> "none"] /\ over = {}
    /\ project \in Projects
    /\ tab = "active"
    /\ feed = [t \in Tabs |-> IF t = "active" THEN Fresh ELSE Closed]
    /\ counts = Fresh
    /\ requests = {} /\ done = {}
    /\ events = 0

\* A tab: its list as last known, asked again.
Open(t) ==
    /\ t # tab
    /\ tab' = t
    /\ feed' = [feed EXCEPT ![t] = Joining(@)]
    /\ UNCHANGED <<store, project, counts, requests, done, events>>

\* The timers of refreshInterval.
PollFeed ==
    /\ Quiet(feed[tab])
    /\ feed' = [feed EXCEPT ![tab] = Asking(@)]
    /\ UNCHANGED <<store, project, tab, counts, requests, done, events>>
PollCountsOnce ==   \* Mutant: the counts are not polled once they are loaded.
    /\ Quiet(counts) /\ ~Loaded(counts)
    /\ counts' = Asking(counts)
    /\ UNCHANGED <<store, project, tab, feed, requests, done, events>>
PollCounts ==
    /\ Quiet(counts)
    /\ counts' = Asking(counts)
    /\ UNCHANGED <<store, project, tab, feed, requests, done, events>>

FeedRead(t) ==
    /\ IsSent(feed[t])
    /\ feed' = [feed EXCEPT ![t] = Reading(@, List(project, t))]
    /\ UNCHANGED <<store, project, tab, counts, requests, done, events>>
FeedArrives(t) ==
    /\ IsAnswered(feed[t])
    /\ feed' = [feed EXCEPT ![t] = Arrived(@)]
    /\ UNCHANGED <<store, project, tab, counts, requests, done, events>>
CountsRead ==
    /\ IsSent(counts)
    /\ counts' = Reading(counts, Counted(project))
    /\ UNCHANGED <<store, project, tab, feed, requests, done, events>>
CountsArrive ==
    /\ IsAnswered(counts)
    /\ counts' = Arrived(counts)
    /\ UNCHANGED <<store, project, tab, feed, requests, done, events>>
FetchFails ==
    /\ events < MaxEvents /\ events' = events + 1
    /\ \/ \E t \in Tabs : ~Quiet(feed[t]) /\ feed' = [feed EXCEPT ![t] = Lost(@)]
                          /\ UNCHANGED counts
       \/ ~Quiet(counts) /\ counts' = Lost(counts) /\ UNCHANGED feed
    /\ UNCHANGED <<store, project, tab, requests, done>>

\* The rows with buttons.
ActiveIn(rows) == {a \in DOMAIN rows : rows[a]}
ActiveRows == UNION {ActiveIn(rows) : rows \in feed[tab].data}

\* handleAck, handleSnooze and handleResolve: the request names no project.
Click(op, a) ==
    /\ events < MaxEvents /\ events' = events + 1
    /\ a \in ActiveRows
    /\ requests' = requests \cup {[id |-> events, op |-> op, alert |-> a, answer |-> "none"]}
    /\ UNCHANGED <<store, project, tab, feed, counts, done>>
Serve(r) ==
    /\ r.answer = "none"
    /\ \/ /\ Updates(r.op, r.alert, NoProject)
          /\ Update(r.op, r.alert)
          /\ requests' = (requests \ {r}) \cup {[r EXCEPT !.answer = "ok"]}
       \/ /\ ~Updates(r.op, r.alert, NoProject)
          /\ requests' = (requests \ {r}) \cup {[r EXCEPT !.answer = "refused"]}
          /\ UNCHANGED store
    /\ UNCHANGED <<project, tab, feed, counts, done, events>>
\* The list of the tab that is open by now, and the counts, are asked again.
SucceedsQuietly(r) ==       \* Mutant: they are not.
    /\ r.answer = "ok"
    /\ requests' = requests \ {r}
    /\ done' = done \cup {<<r.alert, tab>>}
    /\ UNCHANGED <<store, project, tab, feed, counts, events>>
Succeeds(r) ==
    /\ r.answer = "ok"
    /\ requests' = requests \ {r}
    /\ feed' = [feed EXCEPT ![tab] = Asking(@)]
    /\ counts' = Asking(counts)
    /\ done' = done \cup {<<r.alert, tab>>}
    /\ UNCHANGED <<store, project, tab, events>>
\* A refusal, or an answer that is lost, before or after the change.
Refused(r) ==
    /\ \/ r.answer = "refused" /\ UNCHANGED events
       \/ events < MaxEvents /\ events' = events + 1
    /\ requests' = requests \ {r}
    /\ UNCHANGED <<store, project, tab, feed, counts, done>>

Next ==
    \/ \E a \in Alerts : Fire(a) \/ SnoozeEnds(a)
    \/ \E op \in Ops, a \in Alerts : OtherActs(op, a) \/ Click(op, a)
    \/ \E t \in Tabs : Open(t) \/ FeedRead(t) \/ FeedArrives(t)
    \/ PollFeed \/ PollCounts \/ CountsRead \/ CountsArrive \/ FetchFails
    \/ \E r \in requests : Serve(r) \/ Succeeds(r) \/ Refused(r)

Spec == Init /\ [][Next]_vars
\* The timers of an open page run, and the network ends every request.
Fairness ==
    /\ WF_vars(PollFeed) /\ WF_vars(PollCounts)
    /\ \A t \in Tabs : WF_vars(FeedRead(t)) /\ WF_vars(FeedArrives(t))
    /\ WF_vars(CountsRead) /\ WF_vars(CountsArrive)
    /\ WF_vars(\E r \in requests : Serve(r) \/ Succeeds(r) \/ Refused(r))
FairSpec == Spec /\ Fairness

-----------------------------------------------------------------------------
\* What the page has changed does not come back: once a change has succeeded on
\* a tab, no list that arrives for that tab and no count that arrives shows the
\* alert as active again, although polls read before the change are under way.
NoGhost ==
    [][\A d \in done :
        /\ FeedArrives(d[2]) => d[1] \notin ActiveIn(Data(feed'[d[2]]))
        /\ CountsArrive => d[1] \notin Data(counts')]_vars

\* Whoever fires and changes alerts, the open list and the counts end up saying
\* what the table says, if the user stops changing tabs.
CatchesUp ==
    (\E t \in Tabs : <>[](tab = t))
        => <>[](feed[tab].data = {List(project, tab)} /\ counts.data = {Counted(project)})

\* After the period of a snooze the alert is active again (or resolved).
SnoozeIsTemporary ==
    \A a \in Alerts : (a \in over) ~> (status[a] \in {"active", "resolved"})
=============================================================================
