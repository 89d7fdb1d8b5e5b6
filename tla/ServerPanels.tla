--------------------------- MODULE ServerPanels --------------------------------
(***************************************************************************)
(* Three tabs of the detail of an MCP server (BlastRadiusPanel,            *)
(* HealthHistoryPanel, InvestigatePanel; SchemaDriftPanel; LogsPanel in    *)
(* src/dashboard/app/(dashboard)/servers/page.tsx).  A tab asks when it is *)
(* opened and when the active project changes under it, which it does      *)
(* without closing the tab if both projects list the server.               *)
(*                                                                         *)
(* All but the log fetch by hand: a request does not end an earlier one,   *)
(* and whatever answer arrives is shown.  A tab that is left loses its     *)
(* state, and answers to it are dropped; so one visit is enough here.      *)
(*                                                                         *)
(* The API's data is told apart by what it is about: a project, and for    *)
(* the log the window and the agents that called in it.                    *)
(***************************************************************************)
EXTENDS Naturals, FiniteSets, Fetching

CONSTANTS
    Scopes,         \* the projects
    Drifted,        \* the tools with schema changes in each project
    Callers,        \* the agents whose calls the log has, by project and window
    Windows,        \* of the log, in hours
    MaxTurns        \* bound: clicks, and failures

AnyAgent == "all"
Nothing  == "nothing"       \* what a panel says when its request has failed
Waiting  == "waiting"
ASSUME PanelAssumption == Nothing \notin Scopes

VARIABLES
    open,           \* the tab: "health", "drift" or "logs"
    scope,          \* the active project
    blast,          \* BlastRadiusPanel: what it shows, and loading
    history,        \* HealthHistoryPanel
    events,         \* SchemaDriftPanel: the changes shown
    impact,         \* ... and the calls affected, for each tool there is an entry of
    report,         \* InvestigatePanel: what the report is about, and loading
    log,            \* LogsPanel: what SWR holds for each project and window
    paused, hours, agentFilter,
    requests,       \* fetches by hand under way
    overlapped,     \* the project was switched while some were
    failed,
    turns

panelVars == <<open, scope, blast, history, events, impact, report, log, paused, hours,
               agentFilter, requests, overlapped, failed, turns>>
healthVars == <<blast, history, report>>
driftVars  == <<events, impact>>
logVars    == <<log, paused, hours, agentFilter>>

-----------------------------------------------------------------------------
Request(kind, p, tool) == [kind |-> kind, scope |-> p, tool |-> tool]
\* The effects that depend on the project, and the history's, which does not.
AsksAnew(p) == CASE open = "health" -> {Request("blast", p, Nothing)}
                 [] open = "drift"  -> {Request("events", p, Nothing)}
                 [] open = "logs"   -> {}
ToolsOf(e) == IF e \in Scopes THEN Drifted[e] ELSE {}
LogKey == <<scope, hours>>
LogShown == IF paused THEN {} ELSE log[LogKey].data
LogAgents == IF LogShown = {} THEN {} ELSE Data(log[LogKey])
LogEntries == {a \in LogAgents : agentFilter \in {AnyAgent, a}}
Choosable == Cardinality(LogAgents) > 1        \* the agents' select is there

PanelInit ==
    /\ open \in {"health", "drift", "logs"}
    /\ scope \in Scopes
    /\ blast = [shows |-> Nothing, loading |-> TRUE]
    /\ history = Waiting
    /\ events = Waiting
    /\ impact = [t \in {} |-> Waiting]
    /\ report = [about |-> Nothing, loading |-> FALSE]
    /\ paused = FALSE /\ hours \in Windows /\ agentFilter = AnyAgent
    /\ log = [k \in Scopes \X Windows |-> IF open = "logs" /\ k = LogKey THEN Fresh ELSE Closed]
    /\ requests = AsksAnew(scope)
            \cup (IF open = "health" THEN {Request("history", scope, Nothing)} ELSE {})
    /\ overlapped = FALSE /\ failed = FALSE
    /\ turns = 0

Turn == turns < MaxTurns /\ turns' = turns + 1

-----------------------------------------------------------------------------
\* The user

AsksForKey == log' = IF open = "logs" /\ ~paused' THEN [log EXCEPT ![LogKey'] = Joining(@)] ELSE log
SwitchScope(p) ==
    /\ p # scope /\ Turn
    /\ scope' = p
    /\ requests' = requests \cup AsksAnew(p)
    /\ blast' = IF open = "health" THEN [blast EXCEPT !.loading = TRUE] ELSE blast
    /\ overlapped' = (overlapped \/ requests # {})
    /\ UNCHANGED <<open, history, driftVars, report, paused, hours, agentFilter, failed>>
    /\ AsksForKey
\* Its requests name the project of the panel's last rendering.
RunInvestigation ==
    /\ open = "health" /\ ~report.loading /\ Turn
    /\ report' = [about |-> Nothing, loading |-> TRUE]
    /\ requests' = requests \cup {Request("investigate", scope, Nothing)}
    /\ UNCHANGED <<open, scope, blast, history, driftVars, logVars, overlapped, failed>>
Pause ==
    /\ open = "logs" /\ Turn
    /\ paused' = ~paused
    /\ UNCHANGED <<open, scope, healthVars, driftVars, hours, agentFilter, requests, overlapped, failed>>
    /\ AsksForKey
SetHours(h) ==
    /\ open = "logs" /\ h # hours /\ Turn
    /\ hours' = h
    /\ UNCHANGED <<open, scope, healthVars, driftVars, paused, agentFilter, requests, overlapped, failed>>
    /\ AsksForKey
SetAgent(a) ==
    /\ open = "logs" /\ Choosable /\ a \in LogAgents \cup {AnyAgent} /\ a # agentFilter /\ Turn
    /\ agentFilter' = a
    /\ UNCHANGED <<open, scope, healthVars, driftVars, log, paused, hours, requests, overlapped, failed>>

-----------------------------------------------------------------------------
\* The log, with SWR

PollLog ==
    /\ open = "logs" /\ ~paused /\ Quiet(log[LogKey])
    /\ log' = [log EXCEPT ![LogKey] = Asking(@)]
    /\ UNCHANGED <<open, scope, healthVars, driftVars, paused, hours, agentFilter, requests,
                   overlapped, failed, turns>>
LogArrives(k) ==
    /\ IsSent(log[k])
    /\ log' = [log EXCEPT ![k] = Arrived(Reading(@, Callers[k]))]
    /\ UNCHANGED <<open, scope, healthVars, driftVars, paused, hours, agentFilter, requests,
                   overlapped, failed, turns>>
LogFails(k) ==
    /\ ~Quiet(log[k]) /\ Turn
    /\ log' = [log EXCEPT ![k] = Lost(@)]
    /\ failed' = TRUE
    /\ UNCHANGED <<open, scope, healthVars, driftVars, paused, hours, agentFilter, requests, overlapped>>

-----------------------------------------------------------------------------
\* The fetches by hand: content is what the answer is about, or Nothing.

Put(f, t, v) == [u \in DOMAIN f \cup {t} |-> IF u = t THEN v ELSE f[u]]
\* The impact is asked for whenever the changes shown are replaced, with the
\* project that is active then.
EventsShown(e) ==
    /\ events' = e
    /\ impact' = [t \in DOMAIN impact \cup ToolsOf(e) |->
                    IF t \in ToolsOf(e) THEN Waiting ELSE impact[t]]
PanelEnds(r, content) ==
    \/ /\ r.kind = "blast"
       /\ blast' = [shows |-> content, loading |-> FALSE]
       /\ requests' = requests \ {r}
       /\ UNCHANGED <<history, report, driftVars>>
    \/ /\ r.kind = "history"
       /\ history' = IF content = Nothing THEN Nothing ELSE "of the server"
       /\ requests' = requests \ {r}
       /\ UNCHANGED <<blast, report, driftVars>>
    \/ /\ r.kind = "investigate"
       /\ report' = [about |-> content, loading |-> FALSE]
       /\ requests' = requests \ {r}
       /\ UNCHANGED <<blast, history, driftVars>>
    \/ /\ r.kind = "events"
       /\ EventsShown(content)
       /\ requests' = (requests \ {r}) \cup {Request("impact", scope, t) : t \in ToolsOf(content)}
       /\ UNCHANGED healthVars
    \/ /\ r.kind = "impact"
       /\ impact' = Put(impact, r.tool, content)
       /\ requests' = requests \ {r}
       /\ UNCHANGED <<healthVars, events>>
Answers(r) ==
    /\ PanelEnds(r, r.scope)
    /\ UNCHANGED <<open, scope, logVars, overlapped, failed, turns>>
PanelFails(r) ==
    /\ Turn
    /\ PanelEnds(r, Nothing)
    /\ failed' = TRUE
    /\ UNCHANGED <<open, scope, logVars, overlapped>>

PanelNext ==
    \/ \E p \in Scopes : SwitchScope(p)
    \/ RunInvestigation \/ Pause \/ PollLog
    \/ \E h \in Windows : SetHours(h)
    \/ \E a \in {AnyAgent} \cup UNION {Callers[k] : k \in Scopes \X Windows} : SetAgent(a)
    \/ \E k \in Scopes \X Windows : LogArrives(k) \/ LogFails(k)
    \/ \E r \in requests : Answers(r) \/ PanelFails(r)

-----------------------------------------------------------------------------
\* At rest a tab shows what the API says of the project that is active: the
\* agents at risk, the schema changes and, for each tool changed, the calls
\* affected in that same project, and the log's calls in the window chosen; as
\* long as the project was not switched while a tab waited for an answer, and
\* no request failed.
HealthIsTrue == blast = [shows |-> scope, loading |-> FALSE] /\ history = "of the server"
DriftIsTrue  == events = scope /\ \A t \in Drifted[scope] : impact[t] = scope
LogIsTrue    == paused \/ LogEntries = {a \in Callers[LogKey] : agentFilter \in {AnyAgent, a}}
PanelIsTrue ==
    requests = {} /\ (\A k \in DOMAIN log : Quiet(log[k])) /\ ~overlapped /\ ~failed
        => CASE open = "health" -> HealthIsTrue
             [] open = "drift"  -> DriftIsTrue
             [] open = "logs"   -> LogIsTrue
=============================================================================
