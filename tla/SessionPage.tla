---------------------------- MODULE SessionPage -------------------------------
(***************************************************************************)
(* The session page: src/dashboard/app/(dashboard)/sessions/[id]/page.tsx. *)
(* It fetches the trace of one session for the active project, keeps what  *)
(* the user selected and expanded, and draws SessionGraph's graph.         *)
(*                                                                         *)
(* The active project is null until the project list has loaded and may be *)
(* switched while the page is open; every change sends a new request, and  *)
(* no earlier request is cancelled: answers arrive in any order, and each  *)
(* one is applied.  The API answers a request without a project or for the *)
(* owner's project with the spans stored so far, of a session that may     *)
(* still be running, and 404 for another project; any request may fail or  *)
(* time out.                                                               *)
(*                                                                         *)
(* Left out: the tab, the payload slideout and the full-screen overlay,    *)
(* the pan, zoom, search and failures filter of the drawing, which nothing *)
(* below depends on.                                                       *)
(***************************************************************************)
EXTENDS SessionGraph, SequencesExt

CONSTANTS
    Traces,         \* the sessions that may have been recorded
    MaxSwitches     \* bound: changes of the active project

\* A session is a sequence of spans, each stored once under an identifier of its
\* own, with the time it started.
ASSUME SpanAssumption == \A t \in Traces :
    /\ t.spans \in Seq(Range(t.spans))
    /\ \A i, j \in DOMAIN t.spans : t.spans[i].id = t.spans[j].id => i = j
    /\ \A i \in DOMAIN t.spans : t.spans[i].at \in Nat

NoneActive == "none"
Owner      == "owner"           \* the project the session belongs to
AnyProject == {NoneActive, Owner, "other"}
NoTrace    == [topology |-> NoId, spans |-> <<>>]   \* null

VARIABLES
    recorded,       \* the trace the API has for the session
    projectId,      \* the active project
    switches,       \* changes of project so far
    asked,          \* the requests not answered yet: their project, what the API has read
    loaded, loading, error,     \* the answer shown
    selection,      \* the node, or the ends of the edge, selected, or NoId
    groups,         \* expandedGroups
    paths,          \* expandedEdges
    autoExpanded    \* autoExpandedRef

received == <<loaded, loading, error>>
picture  == <<selection, groups, paths>>
sessionVars == <<recorded, projectId, switches, asked, received, picture, autoExpanded>>

graph == IF loaded = NoTrace THEN Nothing ELSE Graph(loaded, groups, paths)
\* The drawing and its toolbar are there.
Drawing == ~loading /\ graph.nodes # {}

-----------------------------------------------------------------------------
Request(p) == [project |-> p, answer |-> NoTrace]

\* The effect of a new session or project: forget the answer, ask again.
Ask(p) ==
    /\ asked' = Append(asked, Request(p))
    /\ loaded' = NoTrace
    /\ loading' = TRUE
    /\ error' = FALSE

SessionInit ==
    /\ recorded \in Traces
    /\ projectId \in {NoneActive, Owner}
    /\ switches = 0
    /\ asked = <<Request(projectId)>>
    /\ loaded = NoTrace /\ loading = TRUE /\ error = FALSE
    /\ selection = NoId /\ groups = {} /\ paths = {}
    /\ autoExpanded = FALSE

SwitchProject ==
    /\ switches < MaxSwitches
    /\ \E p \in AnyProject \ {projectId, NoneActive} :
        /\ projectId' = p
        /\ Ask(p)
    /\ switches' = switches + 1
    /\ UNCHANGED <<recorded, picture, autoExpanded>>

\* On the first trace, the servers with calls by two named agents are expanded
\* (intents count here).
SharedServers(spans) ==
    LET by(s) == {c.agent : c \in {d \in Range(spans) :
                    d.kind = "tool_call" /\ d.server = s /\ d.agent # Missing}}
    IN  {ServerId(s) : s \in {t \in {c.server : c \in Range(spans)} :
                                t # Missing /\ Cardinality(by(t)) >= 2}}
AutoExpand(t) ==
    /\ groups' = IF autoExpanded \/ SharedServers(t.spans) = {} THEN groups
                 ELSE SharedServers(t.spans)
    /\ autoExpanded' = TRUE

\* More spans of the session are stored.
SpansStored ==
    /\ \E t \in Traces :
        /\ t.topology = recorded.topology
        /\ Range(recorded.spans) \subseteq Range(t.spans) /\ t # recorded
        /\ recorded' = t
    /\ UNCHANGED <<projectId, switches, asked, received, picture, autoExpanded>>

TraceRead ==
    /\ \E i \in DOMAIN asked :
        /\ asked[i].answer = NoTrace /\ asked[i].project \in {NoneActive, Owner}
        /\ asked' = [asked EXCEPT ![i].answer = recorded]
    /\ UNCHANGED <<recorded, projectId, switches, received, picture, autoExpanded>>

TraceArrives ==
    \E i \in DOMAIN asked :
        /\ asked[i].answer # NoTrace
        /\ asked' = RemoveAt(asked, i)
        /\ loaded' = asked[i].answer
        /\ loading' = FALSE
        /\ AutoExpand(asked[i].answer)
        /\ UNCHANGED <<recorded, projectId, switches, error, selection, paths>>

AnswerFails ==
    \E i \in DOMAIN asked :
        /\ asked' = RemoveAt(asked, i)
        /\ error' = TRUE
        /\ loading' = FALSE
        /\ UNCHANGED <<recorded, projectId, switches, loaded, picture, autoExpanded>>

Toggled(S, x) == IF x \in S THEN S \ {x} ELSE S \cup {x}

\* handleToggleGroup and handleToggleEdge, from a button of the drawing.
ToggleGroup ==
    /\ Drawing
    /\ LET g == graph IN \E b \in Buttons(g, groups, paths) :
        /\ b[1] = "group"
        /\ groups' = Toggled(groups, b[2])
    /\ selection' = NoId
    /\ UNCHANGED <<recorded, projectId, switches, asked, received, paths, autoExpanded>>
ToggleEdge ==
    /\ Drawing
    /\ LET g == graph IN \E b \in Buttons(g, groups, paths) :
        /\ b[1] = "path"
        /\ paths' = Toggled(paths, b[2])
    /\ selection' = NoId
    /\ UNCHANGED <<recorded, projectId, switches, asked, received, groups, autoExpanded>>

CollapsibleGroups ==
    {IF n.group # NoId THEN n.group ELSE n.id : n \in {m \in graph.nodes : m.collapsible}}
BusyPaths ==        \* the paths of two calls or more
    IF loaded.topology # NoId /\ Declared(loaded.topology, loaded.spans).nodes # {} THEN {}
    ELSE LET busy(c) == Cardinality(PathCalls(loaded.spans, AgentOf(c), c.server)) >= 2
             calls   == {loaded.spans[i] : i \in ServedCalls(loaded.spans)}
         IN  {PathId(AgentOf(c), c.server) : c \in {d \in calls : busy(d)}}
ExpandAll ==
    /\ Drawing
    /\ groups' = CollapsibleGroups
    /\ paths' = BusyPaths
    /\ UNCHANGED <<recorded, projectId, switches, asked, received, selection, autoExpanded>>
CollapseAll ==
    /\ Drawing
    /\ groups' = {}
    /\ paths' = {}
    /\ selection' = NoId
    /\ UNCHANGED <<recorded, projectId, switches, asked, received, autoExpanded>>

\* A node, an edge, or nothing (the background, Escape) is clicked.
SelectInGraph ==
    /\ Drawing
    /\ LET g == graph
       IN  selection' \in {NoId} \cup NodeIds(g)
                          \cup {<<"edge", e.source, e.target>> : e \in Drawn(g)}
    /\ UNCHANGED <<recorded, projectId, switches, asked, received, groups, paths, autoExpanded>>
\* A call is clicked in the time line, which names nodes the graph may not draw.
SelectInTimeline ==
    /\ loaded # NoTrace
    /\ \E c \in Range(loaded.spans) :
        /\ c.kind \in {"tool_call", "node"}
        /\ c.server # Missing \/ c.agent # Missing
        /\ selection' = IF c.server # Missing THEN ServerId(c.server) ELSE AgentId(c.agent)
    /\ UNCHANGED <<recorded, projectId, switches, asked, received, groups, paths, autoExpanded>>

SessionNext ==
    \/ SpansStored \/ TraceRead
    \/ SwitchProject \/ TraceArrives \/ AnswerFails
    \/ ToggleGroup \/ ToggleEdge \/ ExpandAll \/ CollapseAll
    \/ SelectInGraph \/ SelectInTimeline

SessionSpec == SessionInit /\ [][SessionNext]_sessionVars
-----------------------------------------------------------------------------
\* The spans decide what is drawn: no declared topology replaces the inference.
Inferring == Drawing /\ loaded.topology = NoId
AllNamed  == \A c \in Range(loaded.spans) : c.agent # Missing

\* The nodes of a server that hang behind no other node of it.
Heads(g, s) ==
    {n \in g.nodes : /\ n.id[1] # "agent" /\ n.id[2] = s
                     /\ \A e \in Drawn(g) : e.target = n.id => e.source[1] = "agent"}
\* However the user has expanded the graph, these nodes count every call that reached the
\* server, and every failed one, exactly once: nothing is lost or counted twice between
\* the collapsed server, the nodes by caller and the nodes by call.  An arrow leads to one
\* of them from each caller that is drawn; calls without an agent's name have a caller
\* that is not, and nodes to which no arrow leads.
CallsConserved ==
    LET g == graph IN Inferring => \A s \in Servers(loaded.spans) :
        LET heads == Heads(g, s)
            all   == ServerCalls(loaded.spans, s)
        IN  /\ SumFunction([n \in heads |-> n.calls]) = Cardinality(all)
            /\ SumFunction([n \in heads |-> n.errors]) = FailureCount(loaded.spans, all)
            /\ \A a \in Callers(loaded.spans, s) \cap Agents(loaded.spans) :
                 \E e \in Drawn(g), n \in heads : e.source = AgentId(a) /\ e.target = n.id

\* The side panel of a server, a caller's share or a call counts the same calls as its
\* node, and the breakdown of a server by caller adds up to them; so do the panels of the
\* edges that lead to a server or a call, and an edge to a caller's share has none
\* (HasEdgeData).  This is of a session whose spans all name their agent and whose intents
\* are marked as such: the panels count by rules that know neither exception.
PanelAgrees ==
    LET g == graph
    IN  Inferring /\ AllNamed /\ ~Legacy(loaded.spans) =>
        \A n \in {m \in g.nodes : m.id[1] # "agent"} :
            LET parts == Breakdown(loaded.spans, n.id)
                leads == {e \in Drawn(g) : e.target = n.id}
            IN  /\ Cardinality(PanelCalls(loaded.spans, n.id)) = n.calls
                /\ n.id[1] = "server" /\ parts # <<>> => SumFunction(parts) = n.calls
                /\ HasEdgeData(n.id) =>
                       SumFunction([e \in leads |->
                           Cardinality(EdgePanel(loaded.spans, e.source, n.id))]) = n.calls

\* Those who hand over to an agent, by a span or by the name of a tool.
HandersOver(spans, a) == {p[1] : p \in {q \in Explicit(spans) \cup Named(spans) : q[2] = a}}
\* An arrow of delegation is drawn to every agent that appears after another one, from
\* whoever hands over to it or else from the agent before it.  The exception is an agent
\* to which only spans without an agent's name hand over: they keep it from being
\* attached by time, and their own arrow begins at no node and is not drawn.
NoOrphans ==
    LET g == graph IN Inferring => \A a \in Agents(loaded.spans) :
        LET handers == HandersOver(loaded.spans, a)
        IN  HasEarlier(loaded.spans, a) /\ (handers = {} \/ handers \cap Agents(loaded.spans) # {}) =>
                \E e \in Drawn(g) : e.type = "handoff" /\ e.target = AgentId(a)

\* What is drawn is the whole session: no call is lost or counted twice, and every later
\* agent has an arrow that leads to it, with the exceptions named above.
GraphIsWhole == CallsConserved /\ NoOrphans

\* An expanded group draws a caller's calls on the caller: without a name, on no node.
Unanchored(spans, a, s) ==
    a \notin Agents(spans) /\ Cardinality(Callers(spans, s)) >= 2 /\ ServerId(s) \in groups
\* Calls can be folded and unfolded from where they are drawn, whoever makes them: a
\* button removes the call nodes of a path, and a path of several calls that are not drawn
\* has a button that leads to them (its own, or that of its collapsed group).  The one
\* exception is the calls without an agent's name of an expanded group: unfolded, they
\* have no edge that could carry the button, and only "Collapse all" folds them.
NothingIsStuck ==
    LET g  == graph
        bs == Buttons(g, groups, paths)
    IN  Inferring => \A s \in Servers(loaded.spans) : \A a \in Callers(loaded.spans, s) :
        LET drawn == \E n \in g.nodes : n.group = PathId(a, s)
        IN  IF drawn THEN <<"path", PathId(a, s)>> \in bs \/ Unanchored(loaded.spans, a, s)
            ELSE Cardinality(PathCalls(loaded.spans, a, s)) >= 2 =>
                    \/ <<"path", PathId(a, s)>> \in bs
                    \/ <<"group", ServerId(s)>> \in bs /\ ServerId(s) \notin groups

\* "Expand all" never closes what is open.
ExpandAllExpands == [][Inferring /\ ExpandAll => groups \subseteq groups']_sessionVars
=============================================================================
