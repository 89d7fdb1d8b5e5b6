--------------------------- MODULE SessionGraph -------------------------------
(***************************************************************************)
(* The lineage graph the session page draws: src/dashboard/lib/            *)
(* session-graph.ts turns the spans of a session into agents, servers,     *)
(* calls and delegations, split as far as the user has expanded them, and  *)
(* src/dashboard/components/lineage-graph.tsx decides which buttons the    *)
(* drawing offers.  A pure function of a trace and of the expanded groups  *)
(* and paths; SessionPage holds the state.                                 *)
(*                                                                         *)
(* The spans of a session are a sequence of records [id, kind, agent,      *)
(* server, tool, target, parent, status, at, input]; the tool of a handoff *)
(* stands for the name behind its arrow.  Some of the spans are the set of *)
(* their places in it, which also orders them.  Latencies, tokens and      *)
(* models are sums shown beside these counts and are left out; so are      *)
(* positions, colours and the search box.  Identifiers of nodes, paths and *)
(* groups are tuples instead of strings.                                   *)
(***************************************************************************)
EXTENDS Naturals, FiniteSets, Sequences

CONSTANT DelegateOf     \* the agent a tool is named after (call_X, run_X), or ""

Missing == ""           \* an absent name
NoId    == <<>>         \* an absent identifier

AgentId(a)    == <<"agent", a>>
ServerId(s)   == <<"server", s>>
ViaId(s, a)   == <<"via", s, a>>
CallId(s, c)  == <<"call", s, c>>
PathId(a, s)  == <<"path", a, s>>

Failed(c) == c.status # "success"
FailureCount(spans, cs) == Cardinality({i \in cs : Failed(spans[i])})
Tools(spans, cs)  == {spans[i].tool : i \in cs}
Earliest(places)     == CHOOSE i \in places : \A j \in places : i <= j

-----------------------------------------------------------------------------
\* What the spans say

\* Tool calls a model only asked for: explicit, or children of an agent span.
Intents(spans) ==
    {i \in DOMAIN spans :
        \/ spans[i].kind = "llm_intent"
        \/ /\ spans[i].kind = "tool_call"
           /\ \E p \in DOMAIN spans : spans[p].id = spans[i].parent /\ spans[p].kind = "agent"}
Legacy(spans) == \E i \in Intents(spans) : spans[i].kind = "tool_call"

AgentOf(c)       == IF c.agent = Missing THEN "unknown" ELSE c.agent
HandoffTarget(c) == IF c.target # Missing THEN c.target ELSE c.tool
IsHandoff(c) == c.kind = "handoff" /\ c.tool # Missing /\ HandoffTarget(c) # Missing

\* The calls that reached an MCP server.
ServedCalls(spans) ==
    {i \in DOMAIN spans \ Intents(spans) :
        spans[i].kind = "tool_call" /\ spans[i].server # Missing}
ServerCalls(spans, s)  == {i \in ServedCalls(spans) : spans[i].server = s}
PathCalls(spans, a, s) == {i \in ServerCalls(spans, s) : AgentOf(spans[i]) = a}

Servers(spans)    == {spans[i].server : i \in ServedCalls(spans)}
Callers(spans, s) == {AgentOf(spans[i]) : i \in ServerCalls(spans, s)}
Delegations(spans) == {i \in DOMAIN spans : IsHandoff(spans[i])}
Agents(spans) == {spans[i].agent : i \in {j \in DOMAIN spans : spans[j].agent # Missing}}
                 \cup {HandoffTarget(spans[i]) : i \in Delegations(spans)}
FailedAgents(spans) ==
    {AgentOf(spans[i]) : i \in {j \in DOMAIN spans :
        Failed(spans[j]) /\ (spans[j].kind = "agent" \/ j \in ServedCalls(spans))}}

\* The call of a path made most often with one tool and one input.
NoRepeat == [tool |-> Missing, count |-> 0]
Repeated(spans, cs) ==
    LET same(i)  == {j \in cs : spans[j].tool = spans[i].tool /\ spans[j].input = spans[i].input}
        often    == {i \in cs : Cardinality(same(i)) >= 2}
        most     == {i \in often : \A j \in often : Cardinality(same(j)) <= Cardinality(same(i))}
    IN  IF often = {} THEN NoRepeat
        ELSE [tool |-> spans[Earliest(most)].tool, count |-> Cardinality(same(Earliest(most)))]

-----------------------------------------------------------------------------
\* Who delegated to whom

Explicit(spans) ==
    {<<AgentOf(spans[i]), HandoffTarget(spans[i])>> : i \in Delegations(spans)}
\* An intent whose tool is named after an agent of the session.
Named(spans) ==
    {<<spans[i].agent, DelegateOf[spans[i].tool]>> : i \in {j \in Intents(spans) :
        spans[j].agent # Missing /\ DelegateOf[spans[j].tool] \in Agents(spans)}}

Starts(spans, a) == {spans[i].at : i \in {j \in DOMAIN spans : spans[j].agent = a}}
FirstSeen(spans, a) ==      \* 0 for an agent that only a handoff names
    IF Starts(spans, a) = {} THEN 0 ELSE Earliest(Starts(spans, a))
\* The agents in the order in which the spans name them, a span its own first.
Order(spans, a) ==
    Earliest({2 * i : i \in {j \in DOMAIN spans : spans[j].agent = a}}
          \cup {2 * i + 1 : i \in {j \in Delegations(spans) : HandoffTarget(spans[j]) = a}})
Earlier(spans, a) == {b \in Agents(spans) : FirstSeen(spans, b) < FirstSeen(spans, a)}
HasEarlier(spans, a) == Earlier(spans, a) # {}
\* The agent that started last before a did.
TimedParent(spans, a) ==
    CHOOSE b \in Earlier(spans, a) : \A c \in Earlier(spans, a) :
        \/ FirstSeen(spans, c) < FirstSeen(spans, b)
        \/ /\ FirstSeen(spans, c) = FirstSeen(spans, b)
           /\ Order(spans, b) <= Order(spans, c)
\* Agents nobody hands over to are attached by the time they first appear.
Timed(spans) ==
    {<<TimedParent(spans, a), a>> : a \in {b \in Agents(spans) :
        HasEarlier(spans, b) /\ \A p \in Explicit(spans) \cup Named(spans) : p[2] # b}}
Handoffs(spans) == Explicit(spans) \cup Named(spans) \cup Timed(spans)
HandoffCount(spans, p) ==
    LET n == Cardinality({i \in Delegations(spans) :
                            <<AgentOf(spans[i]), HandoffTarget(spans[i])>> = p})
    IN  IF n = 0 THEN 1 ELSE n

-----------------------------------------------------------------------------
\* Nodes and edges

Node(spans, id, cs) ==
    [id |-> id, calls |-> Cardinality(cs), errors |-> FailureCount(spans, cs),
     failed |-> FailureCount(spans, cs) > 0, group |-> NoId, split |-> FALSE, collapsible |-> FALSE,
     expands |-> NoId, items |-> 0, repeated |-> NoRepeat]
Edge(spans, source, target, type, id, cs) ==
    [source |-> source, target |-> target, type |-> type, id |-> id,
     labelled |-> Cardinality(cs) > 1, errors |-> FailureCount(spans, cs)]

Nothing == [nodes |-> {}, edges |-> {}]
Join(p, q) == [nodes |-> p.nodes \cup q.nodes, edges |-> p.edges \cup q.edges]
JoinAll(ps) == [nodes |-> UNION {p.nodes : p \in ps}, edges |-> UNION {p.edges : p \in ps}]

\* An agent counts its calls to servers, or its generations when it has none.
AgentNode(spans, a) ==
    LET own    == {i \in DOMAIN spans : spans[i].agent = a}
        direct == {i \in own \ Intents(spans) : spans[i].kind = "tool_call"}
        llm    == {i \in own : spans[i].kind = "agent"}
    IN  [Node(spans, AgentId(a), IF direct # {} THEN direct ELSE llm)
            EXCEPT !.failed = a \in FailedAgents(spans)]

\* One node and one edge for each call of a path, hung on source.
CallNode(spans, a, s, i) ==
    [Node(spans, CallId(s, spans[i].id), {i}) EXCEPT !.group = PathId(a, s), !.split = TRUE]
CallEdge(spans, source, a, s, i) ==
    Edge(spans, source, CallId(s, spans[i].id), "calls", PathId(a, s), {i})
SplitCalls(spans, source, a, s) ==
    [nodes |-> {CallNode(spans, a, s, i) : i \in PathCalls(spans, a, s)},
     edges |-> {CallEdge(spans, source, a, s, i) : i \in PathCalls(spans, a, s)}]

\* Where the calls of an open path of a collapsed server hang.
SplitRootCaller(a, s) == AgentId(a)     \* Mutant: on the caller, as in an expanded group.
SplitRoot(a, s) == ServerId(s)

\* One node for the server, an edge from each caller, split calls behind it.
ServerNode(spans, s) ==
    LET callers == Callers(spans, s)
        cs      == ServerCalls(spans, s)
        node    == Node(spans, ServerId(s), cs)
    IN  IF Cardinality(callers) # 1 THEN [node EXCEPT !.collapsible = TRUE]
        ELSE [node EXCEPT !.expands  = PathId(CHOOSE a \in callers : TRUE, s),
                          !.items    = Cardinality(cs),
                          !.repeated = Repeated(spans, cs)]
ServerEdge(spans, a, s) ==
    Edge(spans, AgentId(a), ServerId(s), "calls", PathId(a, s), PathCalls(spans, a, s))
CollapsedServer(spans, s, paths) ==
    LET edge(a) == [nodes |-> {}, edges |-> {ServerEdge(spans, a, s)}]
        part(a) == IF PathId(a, s) \in paths
                   THEN Join(edge(a), SplitCalls(spans, SplitRoot(a, s), a, s)) ELSE edge(a)
    IN  Join([nodes |-> {ServerNode(spans, s)}, edges |-> {}],
             JoinAll({part(a) : a \in Callers(spans, s)}))

\* A node for each caller, or the calls of the caller when its path is open;
\* the first caller's node carries the group's collapse mark.
Unfolded(spans, a, s, paths) == PathId(a, s) \in paths /\ Cardinality(PathCalls(spans, a, s)) >= 2
ViaNode(spans, a, s, paths) ==
    LET cs     == PathCalls(spans, a, s)
        before == {b \in Callers(spans, s) : Earliest(PathCalls(spans, b, s)) < Earliest(cs)}
    IN  [Node(spans, ViaId(s, a), cs) EXCEPT
            !.group = ServerId(s), !.split = TRUE,
            !.collapsible = \A b \in before : Unfolded(spans, b, s, paths),
            !.expands = IF Cardinality(cs) >= 2 THEN PathId(a, s) ELSE NoId,
            !.items = Cardinality(cs), !.repeated = Repeated(spans, cs)]
ViaEdge(spans, a, s) ==
    Edge(spans, AgentId(a), ViaId(s, a), "calls", PathId(a, s), PathCalls(spans, a, s))
ExpandedServer(spans, s, paths) ==
    LET via(a)  == [nodes |-> {ViaNode(spans, a, s, paths)}, edges |-> {ViaEdge(spans, a, s)}]
        part(a) == IF Unfolded(spans, a, s, paths) THEN SplitCalls(spans, AgentId(a), a, s)
                   ELSE via(a)
    IN  JoinAll({part(a) : a \in Callers(spans, s)})

ServerPart(spans, s, groups, paths) ==
    IF Cardinality(Callers(spans, s)) >= 2 /\ ServerId(s) \in groups
    THEN ExpandedServer(spans, s, paths) ELSE CollapsedServer(spans, s, paths)

HandoffEdge(spans, p) ==
    [Edge(spans, AgentId(p[1]), AgentId(p[2]), "handoff", <<"handoff", p[1], p[2]>>, {})
        EXCEPT !.labelled = HandoffCount(spans, p) > 1]

\* The graph inferred from the spans.
Inferred(spans, groups, paths) ==
    Join([nodes |-> {AgentNode(spans, a) : a \in Agents(spans)},
          edges |-> {HandoffEdge(spans, p) : p \in Handoffs(spans)}],
         JoinAll({ServerPart(spans, s, groups, paths) : s \in Servers(spans)}))

\* The graph a framework declared: its nodes, direct and conditional edges.
Declared(topology, spans) ==
    LET names    == topology.nodes \ {"__start__", "__end__"}
        steps(n) == {i \in DOMAIN spans : spans[i].agent = n /\ spans[i].kind = "node"}
        drawn(es, type) == {Edge(spans, AgentId(e[1]), AgentId(e[2]), type, NoId, {}) :
                                e \in es \cap (names \X names)}
    IN  [nodes |-> {Node(spans, AgentId(n), steps(n)) : n \in names},
         edges |-> drawn(topology.edges, "calls") \cup drawn(topology.conditional, "handoff")]

\* A declared graph wins when it shows something; NoId: nothing was declared.
Graph(loaded, groups, paths) ==
    LET declared == IF loaded.topology = NoId THEN Nothing
                    ELSE Declared(loaded.topology, loaded.spans)
    IN  IF declared.nodes # {} THEN declared ELSE Inferred(loaded.spans, groups, paths)

-----------------------------------------------------------------------------
\* What the drawing offers

NodeIds(g) == {n.id : n \in g.nodes}
NodeAt(g, id) == CHOOSE n \in g.nodes : n.id = id
Drawn(g) == {e \in g.edges : {e.source, e.target} \subseteq NodeIds(g)}

\* The round button on an edge: expand the group, expand or collapse the calls.
RoundButton(g, e, groups, paths) ==
    LET n     == NodeAt(g, e.target)
        gid   == IF n.group # NoId THEN n.group ELSE n.id
        group == n.collapsible /\ gid \notin groups
        calls == e.id # NoId /\ n.items >= 1
    IN  CASE group -> {<<"group", gid>>}
          [] ~group /\ calls -> {<<"path", e.id>>}
          [] ~group /\ ~calls /\ n.split /\ n.group \in groups -> {<<"group", n.group>>}
          [] ~group /\ ~calls /\ ~n.split /\ e.id \in paths -> {<<"path", e.id>>}
          [] OTHER -> {}
\* The collapse button of an edge without a label.
FoldButtonOfNodes(e, paths) == {}   \* Mutant: only the nodes can be folded.
FoldButton(e, paths) ==
    IF ~e.labelled /\ e.id \in paths /\ e.source # e.target THEN {<<"path", e.id>>} ELSE {}
\* The "n calls" or "collapse" line of a node.
NodeButtons(n) == IF n.expands # NoId /\ n.items >= 1 THEN {<<"path", n.expands>>} ELSE {}
Buttons(g, groups, paths) ==
    (UNION {RoundButton(g, e, groups, paths) \cup FoldButton(e, paths) : e \in Drawn(g)})
    \cup (UNION {NodeButtons(n) : n \in g.nodes})

\* Mutant: the panel of a caller's share lists the whole server.
PanelCallsOfServer(spans, id) ==
    {i \in DOMAIN spans :
        CASE id[1] = "agent"  -> spans[i].agent = id[2]
          [] id[1] = "call"   -> spans[i].id = id[3]
          [] OTHER            -> spans[i].server = id[2] /\ spans[i].kind = "tool_call"}

\* The calls a selected node's panel lists: every tool call, intents included.
PanelCalls(spans, id) ==
    {i \in DOMAIN spans :
        CASE id[1] = "agent"  -> spans[i].agent = id[2]
          [] id[1] = "call"   -> spans[i].id = id[3]
          [] id[1] = "server" -> spans[i].server = id[2] /\ spans[i].kind = "tool_call"
          [] id[1] = "via"    -> /\ spans[i].server = id[2] /\ spans[i].kind = "tool_call"
                                 /\ spans[i].agent = id[3]}
\* Its breakdown: calls by agent for a server, by server for an agent, when
\* there are two or more of them.
Breakdown(spans, id) ==
    LET shares == IF id[1] = "agent"
                  THEN [s \in {t \in Servers(spans) : id[2] \in Callers(spans, t)}
                            |-> Cardinality(PathCalls(spans, id[2], s))]
                  ELSE [a \in {b \in Callers(spans, id[2]) : id[1] = "via" => b = id[3]}
                            |-> Cardinality(PathCalls(spans, a, id[2]))]
    IN  IF Cardinality(DOMAIN shares) >= 2 THEN shares ELSE <<>>
\* The graph keeps data for the edges of a path and for those that lead to a call; the
\* panel of any other, to a caller's share or of a delegation, says "No data".
HasEdgeData(target) == target[1] \in {"server", "call"}
\* The calls that data lists: of the path, or the call it leads to.
EdgePanel(spans, source, target) ==
    IF target[1] = "server" THEN PathCalls(spans, source[2], target[2])
    ELSE PanelCalls(spans, target)
=============================================================================
