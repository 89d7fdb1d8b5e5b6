----------------------------- MODULE AgentList ---------------------------------
(***************************************************************************)
(* The list of agents (aggregateAgents, AgentTable, GroupedSidebar,        *)
(* AgentRail and AgentsPage in                                             *)
(* src/dashboard/app/(dashboard)/agents/page.tsx): summaries that the page *)
(* makes of the sessions that list_sessions (api/routers/agents.py) tells  *)
(* of a window of time, at most so many of them; a table of them, and the  *)
(* detail of the one that is selected.                                     *)
(*                                                                         *)
(* A session counts for every agent that took part in it, with all its     *)
(* calls; the detail's own list of sessions has only those that the agent  *)
(* started.                                                                *)
(*                                                                         *)
(* Left out: costs, tokens, durations and the columns that come from other *)
(* routes; the order of the rows and the search; the other tabs; the       *)
(* active project, which is in the key that is fetched as the window is;   *)
(* sessions that go on while they are listed.                              *)
(***************************************************************************)
EXTENDS Integers, FiniteSets, SequencesExt, Fetching

CONSTANTS
    Happened,       \* the sessions there may be at first, and later: two sets of sequences
    Coming,
    Lookbacks,      \* the windows of time, in hours
    Within(_, _),   \* the sessions of a sequence that a window has
    MaxListed,      \* so many sessions the page asks for (100)
    MaxMoves        \* bound: clicks, new sessions and failures

NoAgent == "no agent"
\* What the API may have in the end.
Arrivals == UNION {[1 .. n -> Coming] : n \in 0 .. MaxMoves}
Pasts == UNION {{h \o c : c \in Arrivals} : h \in Happened}
IsWork(seq) ==      \* calls, failures and times are counted
    /\ seq = [i \in 1 .. Len(seq) |-> seq[i]] /\ Len(seq) \in Nat
    /\ \A i \in 1 .. Len(seq) :
          seq[i].calls \in Nat /\ seq[i].failed \in Nat /\ seq[i].at \in Nat /\ seq[i].healthy \in BOOLEAN
ASSUME AgentAssumption ==
    /\ Happened \subseteq Seq(UNION {Range(h) : h \in Happened}) /\ MaxMoves \in Nat
    /\ MaxListed \in Nat
    /\ \A h \in Pasts, w \in Lookbacks : IsWork(Within(h, w))
    /\ \E w \in Lookbacks : \A v \in Lookbacks : v <= w

VARIABLES
    past,           \* the sessions the API has, in the order of their first calls
    window,         \* hours
    sessions,       \* what SWR holds for each window
    agent,          \* selectedAgent
    agentTab,       \* "about", "sessions", "topology" or another
    sessionFilter,
    railExpanded,
    behind,         \* the windows that missed a session, or an answer, since they were read
    moves

agentVars == <<past, window, sessions, agent, agentTab, sessionFilter, railExpanded,
               behind, moves>>

-----------------------------------------------------------------------------
\* list_sessions: ORDER BY first_call_at DESC LIMIT.  (The order it answers in
\* makes no difference to sums.)
Newest(seq) == IF Len(seq) <= MaxListed THEN seq
               ELSE SubSeq(seq, Len(seq) - MaxListed + 1, Len(seq))
list_sessions(seq, w) == Newest(Within(seq, w))

-----------------------------------------------------------------------------
\* aggregateAgents

Credited(s) == IF s.agents # {} THEN s.agents ELSE {s.starter}
NoWork == [sessions |-> 0, calls |-> 0, failed |-> 0, healthy |-> 0, servers |-> {}, latest |-> 0]
Later(a, b) == IF a > b THEN a ELSE b
Count(sum, s) ==
    [sessions |-> sum.sessions + 1,
     calls    |-> sum.calls + s.calls,
     failed   |-> sum.failed + s.failed,
     healthy  |-> sum.healthy + (IF s.healthy THEN 1 ELSE 0),
     servers  |-> sum.servers \cup s.servers,
     latest   |-> Later(s.at, sum.latest)]
Add(summaries, s) ==
    [a \in DOMAIN summaries \cup Credited(s) |->
        LET sum == IF a \in DOMAIN summaries THEN summaries[a] ELSE NoWork
        IN IF a \in Credited(s) THEN Count(sum, s) ELSE sum]
NoSummaries == [a \in {} |-> NoWork]
aggregateAgents(seq) == FoldLeft(Add, NoSummaries, seq)
\* health_score is a rounded percentage.
Score(sum) == (200 * sum.healthy + sum.sessions) \div (2 * sum.sessions)
StatusOf(sum) == CASE Score(sum) < 70 -> "failing"
                   [] Score(sum) \in 70 .. 89 -> "degraded"
                   [] OTHER -> "healthy"

-----------------------------------------------------------------------------
\* What is on the screen

WindowCell   == sessions[window]
Got          == IF Loaded(WindowCell) THEN Data(WindowCell) ELSE <<>>
Summaries    == aggregateAgents(Got)
AgentsListed == DOMAIN Summaries
InState(st) == {a \in AgentsListed : StatusOf(Summaries[a]) = st}
NeedAttention == AgentsListed \ InState("healthy")
AgentTable == AgentsListed # {} /\ agent = NoAgent
AgentDetail == agent \in AgentsListed
SidebarMode == IF agent = NoAgent THEN "none"
               ELSE IF agentTab = "topology" /\ ~railExpanded THEN "rail" ELSE "list"
\* The rail has every agent, the grouped list one group for each status.
InSidebar == IF SidebarMode = "rail" THEN AgentsListed
             ELSE UNION {InState(st) : st \in {"failing", "degraded", "healthy"}}
Passes(s, f) == f = "all" \/ (f = "clean") = (s.failed = 0)
Started(f) == SelectSeq(Got, LAMBDA s : s.starter = agent /\ Passes(s, f))
SessionCount(f) == IF f = "all" THEN Summaries[agent].sessions ELSE Len(Started(f))

AgentInit ==
    /\ past \in Happened
    /\ window \in Lookbacks
    /\ sessions = [w \in Lookbacks |-> IF w = window THEN Fresh ELSE Closed]
    /\ agent = NoAgent /\ agentTab = "about" /\ sessionFilter = "all" /\ railExpanded = FALSE
    /\ behind = {}
    /\ moves = 0

AgentMove == moves < MaxMoves /\ moves' = moves + 1

SetWindowQuietly(w) ==      \* Mutant: nothing asks for the sessions of the window.
    /\ w # window /\ AgentMove
    /\ window' = w
    /\ UNCHANGED <<past, sessions, agent, agentTab, sessionFilter, railExpanded, behind>>
SetWindow(w) ==
    /\ w # window /\ AgentMove
    /\ window' = w
    /\ sessions' = [sessions EXCEPT ![w] = Joining(@)]
    /\ UNCHANGED <<past, agent, agentTab, sessionFilter, railExpanded, behind>>
SelectAgent(a) ==
    /\ AgentTable \/ (AgentDetail /\ a \in InSidebar)
    /\ a \in AgentsListed /\ AgentMove
    /\ agent' = IF agent = a THEN NoAgent ELSE a
    /\ agentTab' = "about" /\ sessionFilter' = "all" /\ railExpanded' = FALSE
    /\ UNCHANGED <<past, window, sessions, behind>>
CloseAgent ==
    /\ AgentDetail /\ AgentMove
    /\ agent' = NoAgent
    /\ UNCHANGED <<past, window, sessions, agentTab, sessionFilter, railExpanded, behind>>
OpenAgentTab(t) ==
    /\ AgentDetail /\ t # agentTab /\ AgentMove
    /\ agentTab' = t
    /\ railExpanded' = (railExpanded /\ t = "topology")
    /\ UNCHANGED <<past, window, sessions, agent, sessionFilter, behind>>
ExpandRail ==
    /\ AgentDetail /\ SidebarMode = "rail" /\ AgentMove
    /\ railExpanded' = TRUE
    /\ UNCHANGED <<past, window, sessions, agent, agentTab, sessionFilter, behind>>
FilterSessions(f) ==
    /\ AgentDetail /\ agentTab = "sessions" /\ f # sessionFilter /\ AgentMove
    /\ sessionFilter' = f
    /\ UNCHANGED <<past, window, sessions, agent, agentTab, railExpanded, behind>>

AgentView == <<window, agent, agentTab, sessionFilter, railExpanded>>
PollSessions ==
    /\ Quiet(WindowCell)
    /\ sessions' = [sessions EXCEPT ![window] = Asking(@)]
    /\ UNCHANGED <<AgentView, past, behind, moves>>
SessionsRead(w) ==
    /\ IsSent(sessions[w])
    /\ sessions' = [sessions EXCEPT ![w] = Reading(@, list_sessions(past, w))]
    /\ behind' = behind \ {w}
    /\ UNCHANGED <<AgentView, past, moves>>
SessionsArrive(w) ==
    /\ IsAnswered(sessions[w])
    /\ sessions' = [sessions EXCEPT ![w] = Arrived(@)]
    /\ UNCHANGED <<AgentView, past, behind, moves>>
SessionsFail(w) ==
    /\ ~Quiet(sessions[w]) /\ AgentMove
    /\ sessions' = [sessions EXCEPT ![w] = Lost(@)]
    /\ behind' = behind \cup {w}
    /\ UNCHANGED <<AgentView, past>>
SessionHappens(s) ==
    /\ AgentMove
    /\ past' = Append(past, s)
    /\ behind' = Lookbacks
    /\ UNCHANGED <<AgentView, sessions>>

AgentNext ==
    \/ \E w \in Lookbacks : SetWindow(w) \/ SessionsRead(w) \/ SessionsArrive(w) \/ SessionsFail(w)
    \/ \E a \in AgentsListed : SelectAgent(a)
    \/ \E t \in {"about", "sessions", "topology"} : OpenAgentTab(t)
    \/ \E f \in {"all", "clean", "failed"} : FilterSessions(f)
    \/ \E s \in Coming : SessionHappens(s)
    \/ CloseAgent \/ ExpandRail \/ PollSessions

-----------------------------------------------------------------------------
\* The list has exactly the agents that took part in the sessions of the window
\* chosen, of which only the newest MaxListed count, and an agent's numbers are
\* those of the sessions among them that it took part in, each counted once;
\* however the windows were changed and the answers arrived, unless a session
\* began, or an answer was lost, since the list was read.
Taken(a, seq) == {i \in DOMAIN seq : a \in Credited(seq[i])}
\* A call is one of the calls of its session.
Each(i, n) == {i} \X (1 .. n)
SumOver(took, seq) ==
    [sessions |-> Cardinality(took),
     calls    |-> Cardinality(UNION {Each(i, seq[i].calls) : i \in took}),
     failed   |-> Cardinality(UNION {Each(i, seq[i].failed) : i \in took}),
     healthy  |-> Cardinality({i \in took : seq[i].healthy}),
     servers  |-> UNION {seq[i].servers : i \in took},
     latest   |-> Max({seq[i].at : i \in took})]
AgentsAreTrue ==
    Quiet(WindowCell) /\ window \notin behind
        => LET seq == list_sessions(past, window)
           IN Summaries = [a \in UNION {Credited(seq[i]) : i \in DOMAIN seq}
                              |-> SumOver(Taken(a, seq), seq)]
=============================================================================
