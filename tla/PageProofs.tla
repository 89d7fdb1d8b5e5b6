----------------------------- MODULE PageProofs --------------------------------
(***************************************************************************)
(* What the session page promises, for every session, whatever is expanded *)
(* in its drawing: every call is drawn once, the panels count what their   *)
(* nodes count, and what was unfolded can be folded.  Nothing in it is     *)
(* inductive but that a trace that was recorded is shown; the rest is      *)
(* counting: calls are grouped by the node that counts them, by caller, or *)
(* by the edge that leads to them.                                         *)
(*                                                                         *)
(* Then NoGhost of AlertInbox (a specification of its own), for any        *)
(* alerts, tabs and projects and any number of clicks, polls and changes   *)
(* by others.                                                              *)
(***************************************************************************)
EXTENDS SessionPage, AlertInbox, SumProofs, SequenceTheorems, WellFoundedInduction

(* The session page. *)

\* A trace: finitely many spans with their times, told apart by their identifiers.
Distinct(spans) ==
    /\ IsFiniteSet(DOMAIN spans) /\ DOMAIN spans \subseteq Nat
    /\ \A i \in DOMAIN spans : spans[i].at \in Nat
    /\ \A i, j \in DOMAIN spans : spans[i].id = spans[j].id => i = j

-----------------------------------------------------------------------------
(* The graph in parts. *)

LEMMA AgentNodeIs ==
    ASSUME NEW spans, NEW a
    PROVE  AgentNode(spans, a).id = AgentId(a) /\ AgentNode(spans, a).group = NoId
  BY DEF AgentNode, Node

LEMMA ServerNodeIs ==
    ASSUME NEW spans, NEW s
    PROVE  /\ ServerNode(spans, s).id = ServerId(s) /\ ServerNode(spans, s).group = NoId
           /\ ServerNode(spans, s).calls = Cardinality(ServerCalls(spans, s))
           /\ ServerNode(spans, s).errors = FailureCount(spans, ServerCalls(spans, s))
  BY DEF ServerNode, Node

LEMMA ViaNodeIs ==
    ASSUME NEW spans, NEW a, NEW s, NEW open
    PROVE  /\ ViaNode(spans, a, s, open).id = ViaId(s, a)
           /\ ViaNode(spans, a, s, open).group = ServerId(s)
           /\ ViaNode(spans, a, s, open).calls = Cardinality(PathCalls(spans, a, s))
           /\ ViaNode(spans, a, s, open).errors = FailureCount(spans, PathCalls(spans, a, s))
  BY DEF ViaNode, Node

LEMMA CallNodeIs ==
    ASSUME NEW spans, NEW a, NEW s, NEW i
    PROVE  /\ CallNode(spans, a, s, i).id = CallId(s, spans[i].id)
           /\ CallNode(spans, a, s, i).group = PathId(a, s)
  BY DEF CallNode, Node
LEMMA CallNodeCounts ==
    ASSUME NEW spans, NEW a, NEW s, NEW i, NEW cs, cs = {i}
    PROVE  /\ CallNode(spans, a, s, i).calls = Cardinality(cs)
           /\ CallNode(spans, a, s, i).errors = FailureCount(spans, cs)
  BY DEF CallNode, Node

LEMMA ServerEdgeIs ==
    ASSUME NEW spans, NEW a, NEW s
    PROVE  /\ ServerEdge(spans, a, s).source = AgentId(a) /\ ServerEdge(spans, a, s).target = ServerId(s)
           /\ ServerEdge(spans, a, s).id = PathId(a, s)
  BY DEF ServerEdge, Edge

LEMMA ViaEdgeIs ==
    ASSUME NEW spans, NEW a, NEW s
    PROVE  /\ ViaEdge(spans, a, s).source = AgentId(a) /\ ViaEdge(spans, a, s).target = ViaId(s, a)
           /\ ViaEdge(spans, a, s).id = PathId(a, s)
  BY DEF ViaEdge, Edge

LEMMA CallEdgeIs ==
    ASSUME NEW spans, NEW source, NEW a, NEW s, NEW i
    PROVE  /\ CallEdge(spans, source, a, s, i).source = source
           /\ CallEdge(spans, source, a, s, i).target = CallId(s, spans[i].id)
           /\ CallEdge(spans, source, a, s, i).id = PathId(a, s)
  BY DEF CallEdge, Edge
LEMMA CallEdgeUnlabelled ==
    ASSUME NEW spans, NEW source, NEW a, NEW s, NEW i
    PROVE  ~ CallEdge(spans, source, a, s, i).labelled
  <1>1. Cardinality({i}) = 1
    BY FS_Singleton
  <1>2. (Cardinality({i}) > 1) = FALSE
    BY <1>1
  <1>3. CallEdge(spans, source, a, s, i).labelled = (Cardinality({i}) > 1)
    BY Zenon DEF CallEdge, Edge
  <1> QED BY <1>2, <1>3

LEMMA HandoffEdgeIs ==
    ASSUME NEW spans, NEW p
    PROVE  /\ HandoffEdge(spans, p).source = AgentId(p[1]) /\ HandoffEdge(spans, p).target = AgentId(p[2])
           /\ HandoffEdge(spans, p).type = "handoff"
  BY DEF HandoffEdge, Edge

\* Every call of a server is by one caller.
LEMMA CallersCall ==
    ASSUME NEW spans, NEW s
    PROVE  /\ \A i \in ServerCalls(spans, s) :
                AgentOf(spans[i]) \in Callers(spans, s) /\ i \in PathCalls(spans, AgentOf(spans[i]), s)
           /\ \A a \in Callers(spans, s) : \E i \in ServerCalls(spans, s) : a = AgentOf(spans[i])
           /\ \A a : PathCalls(spans, a, s) \subseteq ServerCalls(spans, s)
           /\ \A a, i : i \in PathCalls(spans, a, s) <=> i \in ServerCalls(spans, s) /\ AgentOf(spans[i]) = a
           /\ ServerCalls(spans, s) \subseteq DOMAIN spans
  BY DEF PathCalls, Callers, ServerCalls, ServedCalls

\* A server whose callers have nodes of their own.
Expanded(spans, s, wide) == Cardinality(Callers(spans, s)) >= 2 /\ ServerId(s) \in wide
\* The callers whose calls are drawn.
SplitFor(spans, s, wide, open, a) ==
    IF Expanded(spans, s, wide) THEN Unfolded(spans, a, s, open) ELSE PathId(a, s) \in open
\* Where they hang.
RootFor(spans, s, wide, a) == IF Expanded(spans, s, wide) THEN AgentId(a) ELSE ServerId(s)

LEMMA JoinedAll ==
    ASSUME NEW ps, NEW r, r = JoinAll(ps)
    PROVE  /\ \A n : n \in r.nodes <=> \E p \in ps : n \in p.nodes
           /\ \A e : e \in r.edges <=> \E p \in ps : e \in p.edges
  BY DEF JoinAll

\* What a server contributes to the graph.
LEMMA PartIs ==
    ASSUME NEW spans, NEW s, NEW wide, NEW open,
           NEW p, p = ServerPart(spans, s, wide, open)
    PROVE  /\ \A n : n \in p.nodes <=>
                \/ ~ Expanded(spans, s, wide) /\ n = ServerNode(spans, s)
                \/ \E a \in Callers(spans, s) :
                     \/ /\ Expanded(spans, s, wide) /\ ~ Unfolded(spans, a, s, open)
                        /\ n = ViaNode(spans, a, s, open)
                     \/ /\ SplitFor(spans, s, wide, open, a)
                        /\ \E i \in PathCalls(spans, a, s) : n = CallNode(spans, a, s, i)
           /\ \A e : e \in p.edges <=> \E a \in Callers(spans, s) :
                \/ ~ Expanded(spans, s, wide) /\ e = ServerEdge(spans, a, s)
                \/ /\ Expanded(spans, s, wide) /\ ~ Unfolded(spans, a, s, open)
                   /\ e = ViaEdge(spans, a, s)
                \/ /\ SplitFor(spans, s, wide, open, a)
                   /\ \E i \in PathCalls(spans, a, s) :
                        e = CallEdge(spans, RootFor(spans, s, wide, a), a, s, i)
  <1>1. PICK C : C = Callers(spans, s)
    OBVIOUS
  <1>2. PICK o : o = [a \in C |-> Unfolded(spans, a, s, open)]
    OBVIOUS
  <1>3. CASE Expanded(spans, s, wide)
    <2>1. p = ExpandedServer(spans, s, open)
      BY <1>3 DEF ServerPart, Expanded
    <2> DEFINE part(a) == IF Unfolded(spans, a, s, open) THEN SplitCalls(spans, AgentId(a), a, s)
                          ELSE [nodes |-> {ViaNode(spans, a, s, open)}, edges |-> {ViaEdge(spans, a, s)}]
    <2>2. p = JoinAll({part(a) : a \in C})
      BY <1>1, <2>1 DEF ExpandedServer
    <2>3. ASSUME NEW a \in C
          PROVE  /\ \A n : n \in part(a).nodes <=>
                      \/ ~ Unfolded(spans, a, s, open) /\ n = ViaNode(spans, a, s, open)
                      \/ /\ Unfolded(spans, a, s, open)
                         /\ \E i \in PathCalls(spans, a, s) : n = CallNode(spans, a, s, i)
                 /\ \A e : e \in part(a).edges <=>
                      \/ ~ Unfolded(spans, a, s, open) /\ e = ViaEdge(spans, a, s)
                      \/ /\ Unfolded(spans, a, s, open)
                         /\ \E i \in PathCalls(spans, a, s) : e = CallEdge(spans, AgentId(a), a, s, i)
      <3>1. CASE Unfolded(spans, a, s, open)
        BY <3>1 DEF SplitCalls
      <3>2. CASE ~ Unfolded(spans, a, s, open)
        BY <3>2
      <3> QED BY <3>1, <3>2
    <2> HIDE DEF part
    <2>4. \A n : n \in p.nodes <=> \E a \in C : n \in part(a).nodes
      BY <2>2, JoinedAll
    <2>5. \A e : e \in p.edges <=> \E a \in C : e \in part(a).edges
      BY <2>2, JoinedAll
    <2> QED BY <1>1, <1>3, <2>3, <2>4, <2>5 DEF SplitFor, RootFor
  <1>4. CASE ~ Expanded(spans, s, wide)
    <2>1. p = CollapsedServer(spans, s, open)
      BY <1>4 DEF ServerPart, Expanded
    <2> DEFINE edge(a) == [nodes |-> {}, edges |-> {ServerEdge(spans, a, s)}]
               part(a) == IF PathId(a, s) \in open
                          THEN Join(edge(a), SplitCalls(spans, ServerId(s), a, s)) ELSE edge(a)
    <2>2. PICK q : q = JoinAll({part(a) : a \in C})
      OBVIOUS
    <2>6. p = Join([nodes |-> {ServerNode(spans, s)}, edges |-> {}], q)
      BY <1>1, <2>1, <2>2 DEF CollapsedServer, SplitRoot
    <2>7. p.nodes = {ServerNode(spans, s)} \cup q.nodes /\ p.edges = q.edges
      <3>1. p.edges = {} \cup q.edges /\ p.nodes = {ServerNode(spans, s)} \cup q.nodes
        BY <2>6 DEF Join
      <3> QED BY <3>1
    <2>3. ASSUME NEW a \in C
          PROVE  /\ \A n : n \in part(a).nodes <=>
                      /\ PathId(a, s) \in open
                      /\ \E i \in PathCalls(spans, a, s) : n = CallNode(spans, a, s, i)
                 /\ \A e : e \in part(a).edges <=>
                      \/ e = ServerEdge(spans, a, s)
                      \/ /\ PathId(a, s) \in open
                         /\ \E i \in PathCalls(spans, a, s) : e = CallEdge(spans, ServerId(s), a, s, i)
      <3>1. CASE PathId(a, s) \in open
        BY <3>1 DEF SplitCalls, Join
      <3>2. CASE PathId(a, s) \notin open
        BY <3>2
      <3> QED BY <3>1, <3>2
    <2> HIDE DEF part
    <2>4. \A n : n \in p.nodes <=> n = ServerNode(spans, s) \/ \E a \in C : n \in part(a).nodes
      BY <2>2, <2>7, JoinedAll
    <2>5. \A e : e \in p.edges <=> \E a \in C : e \in part(a).edges
      BY <2>2, <2>7, JoinedAll
    <2> QED BY <1>1, <1>4, <2>3, <2>4, <2>5 DEF SplitFor, RootFor
  <1> QED BY <1>3, <1>4

\* The graph is that of its agents, its delegations and its servers.
LEMMA GraphIs ==
    ASSUME NEW spans, NEW wide, NEW open, NEW g, g = Inferred(spans, wide, open)
    PROVE  /\ \A n : n \in g.nodes <=>
                \/ \E a \in Agents(spans) : n = AgentNode(spans, a)
                \/ \E s \in Servers(spans) : n \in ServerPart(spans, s, wide, open).nodes
           /\ \A e : e \in g.edges <=>
                \/ \E p \in Handoffs(spans) : e = HandoffEdge(spans, p)
                \/ \E s \in Servers(spans) : e \in ServerPart(spans, s, wide, open).edges
  BY DEF Inferred, Join, JoinAll

-----------------------------------------------------------------------------
(* Identifiers are told apart by what they begin with. *)

LEMMA AgentIds ==
    ASSUME NEW a
    PROVE  AgentId(a)[1] = "agent" /\ AgentId(a)[2] = a
  BY DEF AgentId
LEMMA ServerIds ==
    ASSUME NEW s
    PROVE  ServerId(s)[1] = "server" /\ ServerId(s)[2] = s
  BY DEF ServerId
LEMMA ViaIds ==
    ASSUME NEW s, NEW a
    PROVE  ViaId(s, a)[1] = "via" /\ ViaId(s, a)[2] = s /\ ViaId(s, a)[3] = a
  BY DEF ViaId
LEMMA CallIds ==
    ASSUME NEW s, NEW c
    PROVE  CallId(s, c)[1] = "call" /\ CallId(s, c)[2] = s /\ CallId(s, c)[3] = c
  BY DEF CallId
LEMMA PathIds ==
    ASSUME NEW a, NEW s
    PROVE  PathId(a, s)[1] = "path" /\ PathId(a, s)[2] = a /\ PathId(a, s)[3] = s /\ PathId(a, s) # NoId
  BY DEF PathId, NoId

\* Nodes and edges of a server say of which.
LEMMA PartOfServer ==
    ASSUME NEW spans, NEW s, NEW wide, NEW open
    PROVE  /\ \A n \in ServerPart(spans, s, wide, open).nodes : n.id[1] # "agent" /\ n.id[2] = s
           /\ \A e \in ServerPart(spans, s, wide, open).edges : e.target[1] # "agent" /\ e.target[2] = s
  <1>1. PICK p : p = ServerPart(spans, s, wide, open)
    OBVIOUS
  <1>2. ASSUME NEW n \in p.nodes
        PROVE  n.id[1] # "agent" /\ n.id[2] = s
    <2>1. CASE n = ServerNode(spans, s)
      BY <2>1, ServerNodeIs, ViaNodeIs, CallNodeIs, ServerIds, ViaIds, CallIds
    <2>2. CASE \E a \in Callers(spans, s) : n = ViaNode(spans, a, s, open)
      BY <2>2, ServerNodeIs, ViaNodeIs, CallNodeIs, ServerIds, ViaIds, CallIds
    <2>3. CASE \E a \in Callers(spans, s) : \E i \in PathCalls(spans, a, s) : n = CallNode(spans, a, s, i)
      BY <2>3, ServerNodeIs, ViaNodeIs, CallNodeIs, ServerIds, ViaIds, CallIds
    <2> QED BY <1>1, <2>1, <2>2, <2>3, PartIs
  <1>3. ASSUME NEW e \in p.edges
        PROVE  e.target[1] # "agent" /\ e.target[2] = s
    <2>1. CASE \E a \in Callers(spans, s) : e = ServerEdge(spans, a, s)
      BY <2>1, ServerEdgeIs, ViaEdgeIs, CallEdgeIs, ServerIds, ViaIds, CallIds
    <2>2. CASE \E a \in Callers(spans, s) : e = ViaEdge(spans, a, s)
      BY <2>2, ServerEdgeIs, ViaEdgeIs, CallEdgeIs, ServerIds, ViaIds, CallIds
    <2>3. CASE \E a \in Callers(spans, s) : \E i \in PathCalls(spans, a, s) :
                    e = CallEdge(spans, RootFor(spans, s, wide, a), a, s, i)
      BY <2>3, ServerEdgeIs, ViaEdgeIs, CallEdgeIs, ServerIds, ViaIds, CallIds
    <2> QED BY <1>1, <2>1, <2>2, <2>3, PartIs
  <1> QED BY <1>1, <1>2, <1>3

LEMMA GraphOfServer ==
    ASSUME NEW spans, NEW wide, NEW open, NEW g, g = Inferred(spans, wide, open)
    PROVE  /\ \A n \in g.nodes : n.id[1] # "agent" =>
                n.id[2] \in Servers(spans) /\ n \in ServerPart(spans, n.id[2], wide, open).nodes
           /\ \A n \in g.nodes : n.id[1] = "agent" => \E a \in Agents(spans) : n = AgentNode(spans, a)
           /\ \A e \in g.edges : e.target[1] # "agent" =>
                e.target[2] \in Servers(spans) /\ e \in ServerPart(spans, e.target[2], wide, open).edges
  <1>1. ASSUME NEW n \in g.nodes
        PROVE  IF n.id[1] # "agent"
               THEN n.id[2] \in Servers(spans) /\ n \in ServerPart(spans, n.id[2], wide, open).nodes
               ELSE \E a \in Agents(spans) : n = AgentNode(spans, a)
    <2>1. CASE \E a \in Agents(spans) : n = AgentNode(spans, a)
      BY <2>1, AgentNodeIs, AgentIds
    <2>0. PICK k : k = n.id
      OBVIOUS
    <2>2. CASE \E s \in Servers(spans) : n \in ServerPart(spans, s, wide, open).nodes
      <3>1. PICK s \in Servers(spans) : n \in ServerPart(spans, s, wide, open).nodes
        BY <2>2
      <3>2. k[1] # "agent" /\ k[2] = s
        BY <2>0, <3>1, PartOfServer
      <3>3. k[2] \in Servers(spans) /\ n \in ServerPart(spans, k[2], wide, open).nodes
        BY <3>1, <3>2
      <3> QED BY <2>0, <3>2, <3>3
    <2>3. \/ \E a \in Agents(spans) : n = AgentNode(spans, a)
          \/ \E s \in Servers(spans) : n \in ServerPart(spans, s, wide, open).nodes
      BY GraphIs
    <2> QED BY <2>1, <2>2, <2>3
  <1>2. ASSUME NEW e \in g.edges, e.target[1] # "agent"
        PROVE  e.target[2] \in Servers(spans) /\ e \in ServerPart(spans, e.target[2], wide, open).edges
    <2>1. CASE \E q \in Handoffs(spans) : e = HandoffEdge(spans, q)
      BY <1>2, <2>1, HandoffEdgeIs, AgentIds
    <2>2. CASE \E s \in Servers(spans) : e \in ServerPart(spans, s, wide, open).edges
      <3>1. PICK s \in Servers(spans) : e \in ServerPart(spans, s, wide, open).edges
        BY <2>2
      <3>2. PICK k : k = e.target
        OBVIOUS
      <3>3. k[2] = s
        BY <3>1, <3>2, PartOfServer
      <3>4. k[2] \in Servers(spans) /\ e \in ServerPart(spans, k[2], wide, open).edges
        BY <3>1, <3>3
      <3> QED BY <3>2, <3>4
    <2>3. \/ \E q \in Handoffs(spans) : e = HandoffEdge(spans, q)
          \/ \E s \in Servers(spans) : e \in ServerPart(spans, s, wide, open).edges
      BY GraphIs
    <2> QED BY <2>1, <2>2, <2>3
  <1> QED BY <1>1, <1>2

-----------------------------------------------------------------------------
(* Every call is counted by one node that its caller's edge leads to. *)

\* The node in which a call of a server is counted, and the calls counted with it.
HeadOf(spans, s, wide, open, i) ==
    LET a == AgentOf(spans[i])
    IN  IF ~ Expanded(spans, s, wide) THEN ServerNode(spans, s)
        ELSE IF Unfolded(spans, a, s, open) THEN CallNode(spans, a, s, i) ELSE ViaNode(spans, a, s, open)
Together(spans, s, wide, open, i) ==
    LET a == AgentOf(spans[i])
    IN  IF ~ Expanded(spans, s, wide) THEN ServerCalls(spans, s)
        ELSE IF Unfolded(spans, a, s, open) THEN {i} ELSE PathCalls(spans, a, s)

LEMMA HeadsCount ==
    ASSUME NEW spans, Distinct(spans), NEW s, NEW wide, NEW open, NEW i \in ServerCalls(spans, s),
           NEW n, n = HeadOf(spans, s, wide, open, i), NEW cs, cs = Together(spans, s, wide, open, i)
    PROVE  /\ n.calls = Cardinality(cs) /\ n.errors = FailureCount(spans, cs)
           /\ cs \subseteq ServerCalls(spans, s)
           /\ \A j \in ServerCalls(spans, s) : j \in cs <=> HeadOf(spans, s, wide, open, j) = n
  <1>1. PICK a : a = AgentOf(spans[i])
    OBVIOUS
  <1>2. ServerCalls(spans, s) \subseteq DOMAIN spans
    BY CallersCall
  <1>3. CASE ~ Expanded(spans, s, wide)
    BY <1>3, ServerNodeIs, ViaNodeIs, CallNodeIs DEF HeadOf, Together
  <1>4. CASE Expanded(spans, s, wide) /\ Unfolded(spans, a, s, open)
    <2>1. n = CallNode(spans, a, s, i) /\ cs = {i}
      BY <1>1, <1>4 DEF HeadOf, Together
    <2>2. PICK c : c = spans[i].id
      OBVIOUS
    <2>3. n.id = CallId(s, c)
      BY <2>1, <2>2, CallNodeIs
    <2>8. n.id[1] = "call" /\ n.id[3] = c
      BY <2>3, CallIds
    <2>4. ASSUME NEW j \in ServerCalls(spans, s), HeadOf(spans, s, wide, open, j) = n
          PROVE  j = i
      <3>1. PICK b, d : b = AgentOf(spans[j]) /\ d = spans[j].id
        OBVIOUS
      <3>2. CASE Unfolded(spans, b, s, open)
        <4>1. n = CallNode(spans, b, s, j)
          BY <1>4, <2>4, <3>1, <3>2 DEF HeadOf
        <4>2. n.id = CallId(s, d)
          BY <3>1, <4>1, CallNodeIs
        <4>3. n.id[3] = d
          BY <4>2, CallIds
        <4>4. c = d
          BY <2>8, <4>3
        <4> QED BY <1>2, <2>2, <3>1, <4>4 DEF Distinct
      <3>3. CASE ~ Unfolded(spans, b, s, open)
        <4>1. n = ViaNode(spans, b, s, open)
          BY <1>4, <2>4, <3>1, <3>3 DEF HeadOf
        <4>2. n.id = ViaId(s, b)
          BY <4>1, ViaNodeIs
        <4>3. n.id[1] = "via"
          BY <4>2, ViaIds
        <4> QED BY <2>8, <4>3
      <3> QED BY <3>2, <3>3
    <2>5. n.calls = Cardinality(cs) /\ n.errors = FailureCount(spans, cs)
      BY <2>1, CallNodeCounts
    <2>6. HeadOf(spans, s, wide, open, i) = n
      OBVIOUS
    <2>7. \A j \in ServerCalls(spans, s) : j \in cs <=> HeadOf(spans, s, wide, open, j) = n
      BY <2>1, <2>4, <2>6
    <2> QED BY <2>1, <2>5, <2>7
  <1>5. CASE Expanded(spans, s, wide) /\ ~ Unfolded(spans, a, s, open)
    <2>1. n = ViaNode(spans, a, s, open) /\ cs = PathCalls(spans, a, s)
      BY <1>1, <1>5 DEF HeadOf, Together
    <2>2. n.id = ViaId(s, a)
      BY <2>1, ServerNodeIs, ViaNodeIs, CallNodeIs
    <2>3. ASSUME NEW j \in ServerCalls(spans, s)
          PROVE  HeadOf(spans, s, wide, open, j) = n <=> AgentOf(spans[j]) = a
      <3>1. PICK b : b = AgentOf(spans[j])
        OBVIOUS
      <3>2. CASE Unfolded(spans, b, s, open)
        <4>1. HeadOf(spans, s, wide, open, j) = CallNode(spans, b, s, j)
          BY <1>5, <3>1, <3>2 DEF HeadOf
        <4>2. HeadOf(spans, s, wide, open, j).id = CallId(s, spans[j].id)
          BY <4>1, ServerNodeIs, ViaNodeIs, CallNodeIs
        <4>3. HeadOf(spans, s, wide, open, j) # n
          BY <2>2, <4>2, AgentIds, ServerIds, ViaIds, CallIds
        <4> QED BY <1>5, <3>1, <3>2, <4>3
      <3>3. CASE ~ Unfolded(spans, b, s, open)
        <4>1. HeadOf(spans, s, wide, open, j) = ViaNode(spans, b, s, open)
          BY <1>5, <3>1, <3>3 DEF HeadOf
        <4>2. HeadOf(spans, s, wide, open, j).id = ViaId(s, b)
          BY <4>1, ServerNodeIs, ViaNodeIs, CallNodeIs
        <4>3. HeadOf(spans, s, wide, open, j) = n => b = a
          BY <2>2, <4>2, AgentIds, ServerIds, ViaIds, CallIds
        <4> QED BY <2>1, <3>1, <4>1, <4>3
      <3> QED BY <3>2, <3>3
    <2> QED BY <2>1, <2>3, ServerNodeIs, ViaNodeIs, CallNodeIs, CallersCall
  <1> QED BY <1>3, <1>4, <1>5

\* Where the calls of a path hang is no call, and drawn unless the caller is not.
LEMMA RootIsDrawn ==
    ASSUME NEW spans, NEW wide, NEW open, NEW g, g = Inferred(spans, wide, open),
           NEW s \in Servers(spans), NEW a, a \in Agents(spans) \/ ~ Expanded(spans, s, wide),
           NEW root, root = RootFor(spans, s, wide, a)
    PROVE  root \in NodeIds(g) /\ root[1] # "call"
  <1>1. CASE Expanded(spans, s, wide)
    <2>1. AgentNode(spans, a) \in g.nodes
      BY <1>1, GraphIs
    <2>2. root = AgentId(a)
      BY <1>1 DEF RootFor
    <2> QED BY <2>1, <2>2, AgentNodeIs, AgentIds DEF NodeIds
  <1>2. CASE ~ Expanded(spans, s, wide)
    <2>1. ServerNode(spans, s) \in g.nodes
      <3>1. ServerNode(spans, s) \in ServerPart(spans, s, wide, open).nodes
        BY <1>2, PartIs
      <3> QED BY <3>1, GraphIs
    <2>2. root = ServerId(s)
      BY <1>2 DEF RootFor
    <2> QED BY <2>1, <2>2, ServerNodeIs, ServerIds DEF NodeIds
  <1> QED BY <1>1, <1>2

\* The edge to a call of a path that is drawn call by call.
LEMMA CallEdgeIsDrawn ==
    ASSUME NEW spans, NEW wide, NEW open, NEW g, g = Inferred(spans, wide, open),
           NEW s \in Servers(spans), NEW a \in Callers(spans, s), SplitFor(spans, s, wide, open, a),
           a \in Agents(spans) \/ ~ Expanded(spans, s, wide), NEW i \in PathCalls(spans, a, s),
           NEW e, e = CallEdge(spans, RootFor(spans, s, wide, a), a, s, i),
           NEW n, n = CallNode(spans, a, s, i)
    PROVE  /\ e \in Drawn(g) /\ e.source = RootFor(spans, s, wide, a) /\ e.target = n.id
           /\ e.source # e.target /\ e.id = PathId(a, s) /\ ~ e.labelled
  <1>1. PICK root : root = RootFor(spans, s, wide, a)
    OBVIOUS
  <1>2. PICK c : c = spans[i].id
    OBVIOUS
  <1>3. e.source = root /\ e.target = CallId(s, c) /\ e.id = PathId(a, s) /\ ~ e.labelled
    BY <1>1, <1>2, CallEdgeIs, CallEdgeUnlabelled
  <1>4. n.id = CallId(s, c)
    BY <1>2, CallNodeIs
  <1>5. n \in g.nodes /\ e \in g.edges
    <2>1. /\ n \in ServerPart(spans, s, wide, open).nodes
          /\ e \in ServerPart(spans, s, wide, open).edges
      BY PartIs
    <2> QED BY <2>1, GraphIs
  <1>6. root \in NodeIds(g) /\ root[1] # "call"
    BY <1>1, RootIsDrawn
  <1>7. e \in Drawn(g)
    <2>1. e.target \in NodeIds(g)
      BY <1>3, <1>4, <1>5 DEF NodeIds
    <2> QED BY <1>3, <1>5, <1>6, <2>1 DEF Drawn
  <1>8. e.source # e.target
    <2>1. e.target[1] = "call"
      BY <1>3, CallIds
    <2> QED BY <1>3, <1>6, <2>1
  <1> QED BY <1>1, <1>3, <1>4, <1>7, <1>8

\* They are the nodes of the server behind no other of its nodes.
LEMMA HeadsAreFirst ==
    ASSUME NEW spans, NEW wide, NEW open, NEW g, g = Inferred(spans, wide, open), NEW s \in Servers(spans)
    PROVE  \A n : n \in Heads(g, s) <=>
                \E i \in ServerCalls(spans, s) : n = HeadOf(spans, s, wide, open, i)
  <1>1. PICK p : p = ServerPart(spans, s, wide, open)
    OBVIOUS
  <1>2. \E i \in ServerCalls(spans, s) : TRUE
    BY DEF Servers, ServerCalls
  <1>3. ASSUME NEW n \in Heads(g, s)
        PROVE  \E i \in ServerCalls(spans, s) : n = HeadOf(spans, s, wide, open, i)
    <2>1. /\ n \in g.nodes /\ n.id[1] # "agent" /\ n.id[2] = s
          /\ \A e \in Drawn(g) : e.target = n.id => e.source[1] = "agent"
      BY DEF Heads
    <2>2. n \in p.nodes
      BY <1>1, <2>1, GraphOfServer
    <2>3. CASE ~ Expanded(spans, s, wide)
      <3>1. ASSUME NEW a \in Callers(spans, s), SplitFor(spans, s, wide, open, a),
                   NEW i \in PathCalls(spans, a, s), n = CallNode(spans, a, s, i)
            PROVE  FALSE
        <4>1. PICK e : e = CallEdge(spans, RootFor(spans, s, wide, a), a, s, i)
          OBVIOUS
        <4>2. e \in Drawn(g) /\ e.source = RootFor(spans, s, wide, a) /\ e.target = n.id
          BY <2>3, <3>1, <4>1, CallEdgeIsDrawn
        <4>3. e.source = ServerId(s)
          BY <2>3, <4>2 DEF RootFor
        <4>4. e.source[1] = "server"
          BY <4>3, ServerIds
        <4> QED BY <2>1, <4>2, <4>4
      <3>2. n = ServerNode(spans, s)
        BY <1>1, <2>2, <2>3, <3>1, PartIs
      <3> QED BY <1>2, <2>3, <3>2 DEF HeadOf
    <2>4. CASE Expanded(spans, s, wide)
      <3>1. PICK a \in Callers(spans, s) :
                \/ ~ Unfolded(spans, a, s, open) /\ n = ViaNode(spans, a, s, open)
                \/ Unfolded(spans, a, s, open) /\ \E i \in PathCalls(spans, a, s) : n = CallNode(spans, a, s, i)
        BY <1>1, <2>2, <2>4, PartIs DEF SplitFor
      <3>2. PICK j \in ServerCalls(spans, s) : AgentOf(spans[j]) = a
        BY CallersCall
      <3>3. \A i \in PathCalls(spans, a, s) : i \in ServerCalls(spans, s) /\ AgentOf(spans[i]) = a
        BY CallersCall
      <3> QED BY <2>4, <3>1, <3>2, <3>3 DEF HeadOf
    <2> QED BY <2>3, <2>4
  <1>4. ASSUME NEW i \in ServerCalls(spans, s), NEW n, n = HeadOf(spans, s, wide, open, i)
        PROVE  n \in Heads(g, s)
    <2>1. PICK a : a = AgentOf(spans[i])
      OBVIOUS
    <2>2. a \in Callers(spans, s) /\ i \in PathCalls(spans, a, s)
      BY <2>1, CallersCall
    <2>3. n \in p.nodes /\ (~ Expanded(spans, s, wide) => n = ServerNode(spans, s))
      BY <1>1, <1>4, <2>1, <2>2, PartIs DEF HeadOf, SplitFor
    <2>4. n \in g.nodes /\ n.id[1] # "agent" /\ n.id[2] = s
      BY <1>1, <2>3, GraphIs, PartOfServer
    <2>5. ASSUME NEW e \in Drawn(g), e.target = n.id
          PROVE  e.source[1] = "agent"
      <3>1. PICK k : k = e.target
        OBVIOUS
      <3>2. k[1] # "agent" /\ k[2] = s /\ e \in g.edges
        BY <2>4, <2>5, <3>1 DEF Drawn
      <3>3. e \in p.edges
        <4>1. e \in ServerPart(spans, k[2], wide, open).edges
          BY <3>1, <3>2, GraphOfServer
        <4> QED BY <1>1, <3>2, <4>1
      <3>4. PICK b \in Callers(spans, s) :
               \/ e = ServerEdge(spans, b, s) \/ e = ViaEdge(spans, b, s)
               \/ \E j \in PathCalls(spans, b, s) :
                    e = CallEdge(spans, RootFor(spans, s, wide, b), b, s, j)
        BY <1>1, <3>3, PartIs
      <3>5. CASE e = ServerEdge(spans, b, s) \/ e = ViaEdge(spans, b, s)
        BY <3>5, ServerEdgeIs, ViaEdgeIs, AgentIds
      <3>6. ASSUME NEW j \in PathCalls(spans, b, s), e = CallEdge(spans, RootFor(spans, s, wide, b), b, s, j)
            PROVE  e.source[1] = "agent"
        <4>1. e.source = RootFor(spans, s, wide, b)
          BY <3>6, CallEdgeIs
        <4>2. CASE Expanded(spans, s, wide)
          BY <4>1, <4>2, AgentIds DEF RootFor
        <4>3. CASE ~ Expanded(spans, s, wide)
          <5>1. PICK c : c = spans[j].id
            OBVIOUS
          <5>4. n.id = ServerId(s)
            BY <2>3, <4>3, ServerNodeIs
          <5>5. e.target = CallId(s, c)
            BY <3>6, <5>1, CallEdgeIs
          <5>6. k = CallId(s, c)
            BY <3>1, <5>5
          <5>7. k = ServerId(s)
            BY <2>5, <3>1, <5>4
          <5>8. k[1] = "call"
            BY <5>6, CallIds
          <5>9. k[1] = "server"
            BY <5>7, ServerIds
          <5> QED BY <5>8, <5>9
        <4> QED BY <4>2, <4>3
      <3> QED BY <3>4, <3>5, <3>6
    <2> QED BY <2>4, <2>5 DEF Heads
  <1> QED BY <1>3, <1>4

\* An arrow leads to one of them from each caller that is drawn.
LEMMA CallersLead ==
    ASSUME NEW spans, NEW wide, NEW open, NEW g, g = Inferred(spans, wide, open), NEW s \in Servers(spans),
           NEW a \in Callers(spans, s), a \in Agents(spans)
    PROVE  \E e \in Drawn(g), n \in Heads(g, s) : e.source = AgentId(a) /\ e.target = n.id
  <1>1. PICK p : p = ServerPart(spans, s, wide, open)
    OBVIOUS
  <1>2. PICK i \in ServerCalls(spans, s) : a = AgentOf(spans[i])
    BY CallersCall
  <1>3. i \in PathCalls(spans, a, s)
    BY <1>2, CallersCall
  <1>4. PICK n : n = HeadOf(spans, s, wide, open, i)
    OBVIOUS
  <1>5. n \in Heads(g, s)
    BY <1>2, <1>4, HeadsAreFirst
  <1>6. n \in g.nodes
    BY <1>5 DEF Heads
  <1>7. AgentId(a) \in NodeIds(g)
    <2>1. AgentNode(spans, a) \in g.nodes
      BY GraphIs
    <2> QED BY <2>1, AgentNodeIs DEF NodeIds
  <1>8. \E e \in p.edges : e.source = AgentId(a) /\ e.target = n.id
    <2>1. CASE ~ Expanded(spans, s, wide)
      <3>1. n = ServerNode(spans, s) /\ ServerEdge(spans, a, s) \in p.edges
        BY <1>1, <1>4, <2>1, PartIs DEF HeadOf
      <3> QED BY <3>1, ServerNodeIs, ServerEdgeIs
    <2>2. CASE Expanded(spans, s, wide) /\ ~ Unfolded(spans, a, s, open)
      <3>1. n = ViaNode(spans, a, s, open) /\ ViaEdge(spans, a, s) \in p.edges
        BY <1>1, <1>2, <1>4, <2>2, PartIs DEF HeadOf
      <3> QED BY <3>1, ViaNodeIs, ViaEdgeIs
    <2>3. CASE Expanded(spans, s, wide) /\ Unfolded(spans, a, s, open)
      <3>1. SplitFor(spans, s, wide, open, a) /\ RootFor(spans, s, wide, a) = AgentId(a)
        BY <2>3 DEF SplitFor, RootFor
      <3>2. n = CallNode(spans, a, s, i) /\ CallEdge(spans, AgentId(a), a, s, i) \in p.edges
        BY <1>1, <1>2, <1>3, <1>4, <2>3, <3>1, PartIs DEF HeadOf
      <3> QED BY <3>2, CallNodeIs, CallEdgeIs
    <2> QED BY <2>1, <2>2, <2>3
  <1>9. PICK e \in p.edges : e.source = AgentId(a) /\ e.target = n.id
    BY <1>8
  <1>10. e \in Drawn(g)
    <2>1. e \in g.edges
      BY <1>1, <1>9, GraphIs
    <2>2. e.target \in NodeIds(g)
      BY <1>6, <1>9 DEF NodeIds
    <2> QED BY <1>7, <1>9, <2>1, <2>2 DEF Drawn
  <1> QED BY <1>5, <1>9, <1>10

\* Of elements that are grouped, those of a part are counted group by group.
LEMMA PartByGroups ==
    ASSUME NEW R, IsFiniteSet(R), NEW F \in SUBSET R, NEW E, NEW key, NEW part,
           Grouping(R, E, key, part), NoneEmpty(part, E),
           NEW v, v = [e \in E |-> Cardinality(part[e] \cap F)]
    PROVE  IsFiniteSet(E) /\ SumFunction(v) = Cardinality(F)
  <1>1. PICK w : w = [r \in R |-> IF r \in F THEN 1 ELSE 0]
    OBVIOUS
  <1>2. w \in [R -> Nat] /\ \A r \in R : w[r] \in {0, 1} /\ (w[r] = 1 <=> r \in F)
    BY <1>1
  <1>3. ASSUME NEW A \in SUBSET R
        PROVE  SumFunctionOnSet(w, A) = Cardinality(A \cap F)
    <2>1. \A r \in A : w[r] \in {0, 1}
      BY <1>2
    <2>2. SumFunctionOnSet(w, A) = Cardinality({r \in A : w[r] = 1})
      BY <1>2, <2>1, SumOfOnes
    <2>3. {r \in A : w[r] = 1} = A \cap F
      BY <1>2
    <2> QED BY <2>2, <2>3
  <1>4. \A e \in E : part[e] \in SUBSET R
    BY DEF Grouping
  <1>5. Counts(v, E, w, part)
    BY <1>3, <1>4 DEF Counts
  <1>6. IsFiniteSet(E) /\ SumFunction(v) = SumFunction(w)
    BY <1>2, <1>5, EntriesAddUp
  <1>7. SumFunction(w) = SumFunctionOnSet(w, R)
    BY <1>1, <1>2, SumOfAll
  <1>8. R \in SUBSET R /\ R \cap F = F
    OBVIOUS
  <1>9. SumFunctionOnSet(w, R) = Cardinality(F)
    BY <1>3, <1>8
  <1> QED BY <1>6, <1>7, <1>9

LEMMA AllByGroups ==
    ASSUME NEW R, IsFiniteSet(R), NEW E, NEW key, NEW part,
           Grouping(R, E, key, part), NoneEmpty(part, E),
           NEW v, \A e \in E : v[e] = Cardinality(part[e]), v = [e \in E |-> v[e]]
    PROVE  SumFunction(v) = Cardinality(R)
  <1>1. \A e \in E : part[e] \cap R = part[e]
    BY DEF Grouping
  <1>2. v = [e \in E |-> Cardinality(part[e] \cap R)]
    BY <1>1
  <1>3. R \in SUBSET R
    OBVIOUS
  <1> QED BY <1>2, <1>3, PartByGroups

LEMMA CallsAddUp ==
    ASSUME NEW spans, Distinct(spans), NEW wide, NEW open, NEW g, g = Inferred(spans, wide, open),
           NEW s \in Servers(spans), NEW E, E = Heads(g, s), NEW R, R = ServerCalls(spans, s)
    PROVE  /\ SumFunction([n \in E |-> n.calls]) = Cardinality(R)
           /\ SumFunction([n \in E |-> n.errors]) = FailureCount(spans, R)
  <1>1. IsFiniteSet(R)
    BY CallersCall, FS_Subset DEF Distinct
  <1>2. PICK key : key = [i \in R |-> HeadOf(spans, s, wide, open, i)]
    OBVIOUS
  <1>3. PICK part : part = [n \in E |-> {i \in R : key[i] = n}]
    OBVIOUS
  <1>4. \A n : n \in E <=> \E i \in R : n = key[i]
    BY <1>2, HeadsAreFirst
  <1>5. Grouping(R, E, key, part) /\ NoneEmpty(part, E)
    <2>1. key \in [R -> E] /\ part \in [E -> SUBSET R]
      BY <1>2, <1>3, <1>4
    <2> QED BY <1>3, <1>4, <2>1 DEF Grouping, NoneEmpty
  <1>6. PICK F : F = {i \in R : Failed(spans[i])}
    OBVIOUS
  <1>7. ASSUME NEW n \in E
        PROVE  /\ n.calls = Cardinality(part[n] \cap R)
               /\ n.errors = Cardinality(part[n] \cap F)
    <2>1. PICK i \in R : n = HeadOf(spans, s, wide, open, i)
      BY <1>2, <1>4
    <2>2. PICK cs : cs = Together(spans, s, wide, open, i)
      OBVIOUS
    <2>3. /\ n.calls = Cardinality(cs) /\ n.errors = FailureCount(spans, cs)
          /\ cs \subseteq R /\ \A j \in R : j \in cs <=> HeadOf(spans, s, wide, open, j) = n
      BY <2>1, <2>2, HeadsCount
    <2>4. cs = part[n]
      BY <1>2, <1>3, <2>3
    <2>5. part[n] \cap R = cs /\ part[n] \cap F = {j \in cs : Failed(spans[j])}
      BY <1>6, <2>3, <2>4
    <2> QED BY <2>3, <2>5 DEF FailureCount
  <1>8. PICK v : v = [n \in E |-> Cardinality(part[n] \cap R)]
    OBVIOUS
  <1>9. PICK u : u = [n \in E |-> Cardinality(part[n] \cap F)]
    OBVIOUS
  <1>10. [n \in E |-> n.calls] = v /\ [n \in E |-> n.errors] = u
    BY <1>7, <1>8, <1>9
  <1>11. R \in SUBSET R /\ F \in SUBSET R
    BY <1>6
  <1>12. SumFunction(v) = Cardinality(R)
    BY <1>1, <1>5, <1>8, <1>11, PartByGroups
  <1>13. SumFunction(u) = Cardinality(F)
    BY <1>1, <1>5, <1>9, <1>11, PartByGroups
  <1>14. FailureCount(spans, R) = Cardinality(F)
    BY <1>6 DEF FailureCount
  <1> QED BY <1>10, <1>12, <1>13, <1>14

-----------------------------------------------------------------------------
(* Every call that is drawn can be folded, and every busy path that is not, unfolded. *)

LEMMA ButtonsOfEdge ==
    ASSUME NEW g, NEW wide, NEW open, NEW e \in Drawn(g), NEW b,
           b \in RoundButton(g, e, wide, open) \/ b \in FoldButton(e, open)
    PROVE  b \in Buttons(g, wide, open)
  BY DEF Buttons

LEMMA ButtonsOfNode ==
    ASSUME NEW g, NEW wide, NEW open, NEW n \in g.nodes, NEW b, b \in NodeButtons(n)
    PROVE  b \in Buttons(g, wide, open)
  BY DEF Buttons

LEMMA CallersFinite ==
    ASSUME NEW spans, Distinct(spans), NEW s
    PROVE  IsFiniteSet(ServerCalls(spans, s)) /\ IsFiniteSet(Callers(spans, s))
  <1>1. PICK R, C : R = ServerCalls(spans, s) /\ C = Callers(spans, s)
    OBVIOUS
  <1>2. IsFiniteSet(R)
    BY <1>1, CallersCall, FS_Subset DEF Distinct
  <1>3. PICK key : key = [i \in R |-> AgentOf(spans[i])]
    OBVIOUS
  <1>4. key \in Surjection(R, C)
    <2>1. key \in [R -> C]
      BY <1>1, <1>3, CallersCall
    <2>2. \A a \in C : \E i \in R : key[i] = a
      BY <1>1, <1>3, CallersCall
    <2> QED BY <2>1, <2>2 DEF Surjection
  <1>5. IsFiniteSet(C)
    BY <1>2, <1>4, FS_Surjection
  <1> QED BY <1>1, <1>2, <1>5

\* No other node has the identifier of a server.
LEMMA ServerNodeFound ==
    ASSUME NEW spans, NEW wide, NEW open, NEW g, g = Inferred(spans, wide, open), NEW s \in Servers(spans)
    PROVE  \A n \in g.nodes : n.id = ServerId(s) => n = ServerNode(spans, s) /\ ~ Expanded(spans, s, wide)
  <1>1. SUFFICES ASSUME NEW n \in g.nodes, n.id = ServerId(s)
                 PROVE  n = ServerNode(spans, s) /\ ~ Expanded(spans, s, wide)
    OBVIOUS
  <1>2. n.id[1] = "server" /\ n.id[2] = s
    BY <1>1, ServerIds
  <1>3. n \in ServerPart(spans, s, wide, open).nodes
    <2>1. PICK k : k = n.id
      OBVIOUS
    <2>2. k[1] # "agent" /\ k[2] = s
      BY <1>2, <2>1
    <2>3. n \in ServerPart(spans, k[2], wide, open).nodes
      BY <2>1, <2>2, GraphOfServer
    <2> QED BY <2>2, <2>3
  <1>4. ASSUME NEW a \in Callers(spans, s), n = ViaNode(spans, a, s, open)
        PROVE  FALSE
    BY <1>2, <1>4, ViaNodeIs, ViaIds
  <1>5. ASSUME NEW a \in Callers(spans, s), NEW i \in PathCalls(spans, a, s), n = CallNode(spans, a, s, i)
        PROVE  FALSE
    BY <1>2, <1>5, CallNodeIs, CallIds
  <1> QED BY <1>3, <1>4, <1>5, PartIs

\* The nodes of a path are its calls.
LEMMA PathIsShown ==
    ASSUME NEW spans, NEW wide, NEW open, NEW g, g = Inferred(spans, wide, open),
           NEW s, NEW a, NEW n \in g.nodes, n.group = PathId(a, s)
    PROVE  /\ s \in Servers(spans) /\ a \in Callers(spans, s) /\ SplitFor(spans, s, wide, open, a)
           /\ \E i \in PathCalls(spans, a, s) : n = CallNode(spans, a, s, i)
  <1>1. PICK k : k = n.group
    OBVIOUS
  <1>2. k[1] = "path" /\ k[2] = a /\ k[3] = s /\ k # NoId
    BY <1>1, PathIds
  <1>3. ASSUME NEW b, n = AgentNode(spans, b)
        PROVE  FALSE
    BY <1>1, <1>2, <1>3, AgentNodeIs
  <1>4. PICK t \in Servers(spans) : n \in ServerPart(spans, t, wide, open).nodes
    BY <1>3, GraphIs
  <1>5. n # ServerNode(spans, t)
    BY <1>1, <1>2, ServerNodeIs
  <1>6. ASSUME NEW b, n = ViaNode(spans, b, t, open)
        PROVE  FALSE
    <2>1. k = ServerId(t)
      BY <1>1, <1>6, ViaNodeIs
    <2>2. k[1] = "server"
      BY <2>1, ServerIds
    <2> QED BY <1>2, <2>2
  <1>7. PICK b \in Callers(spans, t) :
            SplitFor(spans, t, wide, open, b) /\ \E i \in PathCalls(spans, b, t) : n = CallNode(spans, b, t, i)
    BY <1>4, <1>5, <1>6, PartIs
  <1>8. k = PathId(b, t)
    BY <1>1, <1>7, CallNodeIs
  <1>9. k[2] = b /\ k[3] = t
    BY <1>8, PathIds
  <1> QED BY <1>2, <1>7, <1>9

\* A path that is drawn call by call can be folded, unless its caller is not drawn.
LEMMA ShownCanFold ==
    ASSUME NEW spans, NEW wide, NEW open, NEW g, g = Inferred(spans, wide, open),
           NEW s, NEW a, a \in Agents(spans) \/ ~ Expanded(spans, s, wide),
           NEW n \in g.nodes, n.group = PathId(a, s)
    PROVE  <<"path", PathId(a, s)>> \in Buttons(g, wide, open)
  <1>1. /\ s \in Servers(spans) /\ a \in Callers(spans, s) /\ SplitFor(spans, s, wide, open, a)
        /\ \E i \in PathCalls(spans, a, s) : n = CallNode(spans, a, s, i)
    BY PathIsShown
  <1>2. PICK i \in PathCalls(spans, a, s) : n = CallNode(spans, a, s, i)
    BY <1>1
  <1>3. PICK e : e = CallEdge(spans, RootFor(spans, s, wide, a), a, s, i)
    OBVIOUS
  <1>4. /\ e \in Drawn(g) /\ e.source # e.target /\ e.id = PathId(a, s) /\ ~ e.labelled
    BY <1>1, <1>2, <1>3, CallEdgeIsDrawn
  <1>5. PathId(a, s) \in open
    BY <1>1 DEF SplitFor, Unfolded
  <1>6. FoldButton(e, open) = {<<"path", PathId(a, s)>>}
    BY <1>4, <1>5 DEF FoldButton
  <1>7. PICK b : b = <<"path", PathId(a, s)>>
    OBVIOUS
  <1>8. b \in FoldButton(e, open)
    BY <1>6, <1>7
  <1>9. b \in Buttons(g, wide, open)
    BY <1>4, <1>8, ButtonsOfEdge
  <1> QED BY <1>7, <1>9

\* Calls without an agent's name have one caller, and the others are drawn.
LEMMA OneIsUnnamed ==
    ASSUME NEW spans, NEW s, NEW a \in Callers(spans, s), a \notin Agents(spans)
    PROVE  a = "unknown"
  <1>1. PICK i \in ServerCalls(spans, s) : a = AgentOf(spans[i])
    BY CallersCall
  <1>2. i \in DOMAIN spans
    BY <1>1, CallersCall
  <1>3. ASSUME spans[i].agent # Missing
        PROVE  a \in Agents(spans)
    <2>1. a = spans[i].agent
      BY <1>1, <1>3 DEF AgentOf
    <2>2. a \in {spans[j].agent : j \in {k \in DOMAIN spans : spans[k].agent # Missing}}
      BY <1>2, <1>3, <2>1
    <2> QED BY <2>2 DEF Agents
  <1> QED BY <1>1, <1>3 DEF AgentOf

\* One that is not, and has several calls, can be unfolded, or its server can.
LEMMA HiddenCanUnfold ==
    ASSUME NEW spans, Distinct(spans), NEW wide, NEW open, NEW g, g = Inferred(spans, wide, open),
           NEW s \in Servers(spans), NEW a,
           \A n \in g.nodes : n.group # PathId(a, s), Cardinality(PathCalls(spans, a, s)) >= 2
    PROVE  \/ <<"path", PathId(a, s)>> \in Buttons(g, wide, open)
           \/ <<"group", ServerId(s)>> \in Buttons(g, wide, open) /\ ServerId(s) \notin wide
  <1>1. PICK P, R, C : P = PathCalls(spans, a, s) /\ R = ServerCalls(spans, s) /\ C = Callers(spans, s)
    OBVIOUS
  <1>2. IsFiniteSet(R) /\ IsFiniteSet(C) /\ P \in SUBSET R
    BY <1>1, CallersFinite, CallersCall
  <1>3. IsFiniteSet(P) /\ Cardinality(P) <= Cardinality(R) /\ Cardinality(R) \in Nat /\ Cardinality(P) \in Nat
    BY <1>2, FS_Subset, FS_CardinalityType
  <1>4. PICK i : i \in P
    <2>1. P # {}
      BY <1>1, FS_EmptySet
    <2> QED BY <2>1
  <1>5. a \in C
    BY <1>1, <1>4, CallersCall
  <1>6. ~ SplitFor(spans, s, wide, open, a)
    <2>1. SUFFICES ASSUME SplitFor(spans, s, wide, open, a) PROVE FALSE
      OBVIOUS
    <2>2. CallNode(spans, a, s, i) \in ServerPart(spans, s, wide, open).nodes
      BY <1>1, <1>4, <1>5, <2>1, PartIs
    <2>3. CallNode(spans, a, s, i) \in g.nodes
      BY <2>2, GraphIs
    <2> QED BY <2>3, CallNodeIs
  <1>7. CASE Expanded(spans, s, wide)
    <2>1. PICK n : n = ViaNode(spans, a, s, open)
      OBVIOUS
    <2>2. ~ Unfolded(spans, a, s, open)
      BY <1>6, <1>7 DEF SplitFor
    <2>3. n \in g.nodes
      <3>1. n \in ServerPart(spans, s, wide, open).nodes
        BY <1>1, <1>5, <1>7, <2>1, <2>2, PartIs
      <3> QED BY <3>1, GraphIs
    <2>4. n.expands = PathId(a, s) /\ n.items = Cardinality(P)
      BY <1>1, <2>1 DEF ViaNode, Node
    <2>5. NodeButtons(n) = {<<"path", PathId(a, s)>>}
      <3>1. PathId(a, s) # NoId
        BY PathIds
      <3>2. n.items >= 1
        BY <1>1, <1>3, <2>4
      <3> QED BY <2>4, <3>1, <3>2 DEF NodeButtons
    <2>10. PICK b : b = <<"path", PathId(a, s)>>
      OBVIOUS
    <2>11. b \in NodeButtons(n)
      BY <2>5, <2>10
    <2>12. b \in Buttons(g, wide, open)
      BY <2>3, <2>11, ButtonsOfNode
    <2> QED BY <2>10, <2>12
  <1>8. CASE ~ Expanded(spans, s, wide)
    <2>1. PICK n : n = ServerNode(spans, s)
      OBVIOUS
    <2>2. n \in g.nodes
      <3>1. n \in ServerPart(spans, s, wide, open).nodes
        BY <1>8, <2>1, PartIs
      <3> QED BY <3>1, GraphIs
    <2>3. CASE Cardinality(C) = 1
      <3>1. C = {a}
        <4>1. PICK b : C = {b}
          BY <1>2, <2>3, FS_Singleton
        <4> QED BY <1>5, <4>1
      <3>2. (CHOOSE b \in C : TRUE) = a
        BY <3>1
      <3>3. n.expands = PathId(a, s) /\ n.items = Cardinality(R)
        BY <1>1, <2>1, <2>3, <3>2 DEF ServerNode, Node
      <3>4. NodeButtons(n) = {<<"path", PathId(a, s)>>}
        <4>1. PathId(a, s) # NoId
          BY PathIds
        <4>2. n.items >= 1
          BY <1>1, <1>3, <3>3
        <4> QED BY <3>3, <4>1, <4>2 DEF NodeButtons
      <3>10. PICK b : b = <<"path", PathId(a, s)>>
        OBVIOUS
      <3>11. b \in NodeButtons(n)
        BY <3>4, <3>10
      <3>12. b \in Buttons(g, wide, open)
        BY <2>2, <3>11, ButtonsOfNode
      <3> QED BY <3>10, <3>12
    <2>4. CASE Cardinality(C) # 1
      <3>1. Cardinality(C) >= 2
        <4>1. C # {} /\ Cardinality(C) \in Nat
          BY <1>2, <1>5, FS_CardinalityType
        <4>2. Cardinality(C) # 0
          BY <1>2, <4>1, FS_EmptySet
        <4> QED BY <2>4, <4>1, <4>2
      <3>2. ServerId(s) \notin wide
        BY <1>1, <1>8, <3>1 DEF Expanded
      <3>3. n.collapsible = TRUE /\ n.id = ServerId(s) /\ n.group = NoId
        BY <1>1, <2>1, <2>4 DEF ServerNode, Node
      <3>12. \E b \in C : b \in Agents(spans)
        <4>1. SUFFICES ASSUME C \cap Agents(spans) = {} PROVE FALSE
          OBVIOUS
        <4>2. \A b \in C : b = "unknown"
          BY <1>1, <4>1, OneIsUnnamed
        <4>3. C = {a}
          BY <1>5, <4>2
        <4>4. Cardinality({a}) = 1
          BY FS_Singleton
        <4> QED BY <2>4, <4>3, <4>4
      <3>13. PICK b \in C : b \in Agents(spans)
        BY <3>12
      <3>4. PICK e : e = ServerEdge(spans, b, s)
        OBVIOUS
      <3>5. e.source = AgentId(b) /\ e.target = ServerId(s)
        BY <3>4, ServerEdgeIs
      <3>6. e \in Drawn(g)
        <4>1. e \in ServerPart(spans, s, wide, open).edges
          BY <1>1, <1>8, <3>4, <3>13, PartIs
        <4>2. e \in g.edges
          BY <4>1, GraphIs
        <4>3. AgentNode(spans, b) \in g.nodes
          BY <3>13, GraphIs
        <4>4. {AgentId(b), ServerId(s)} \subseteq NodeIds(g)
          BY <2>2, <3>3, <4>3, AgentNodeIs DEF NodeIds
        <4> QED BY <3>5, <4>2, <4>4 DEF Drawn
      <3>7. NodeAt(g, e.target) = n
        <4>1. \A m \in g.nodes : m.id = ServerId(s) => m = n
          BY <2>1, ServerNodeFound
        <4> QED BY <2>2, <3>3, <3>5, <4>1 DEF NodeAt
      <3>8. RoundButton(g, e, wide, open) = {<<"group", ServerId(s)>>}
        BY <3>2, <3>3, <3>7 DEF RoundButton
      <3>9. PICK d : d = <<"group", ServerId(s)>>
        OBVIOUS
      <3>10. d \in RoundButton(g, e, wide, open)
        BY <3>8, <3>9
      <3>11. d \in Buttons(g, wide, open)
        BY <3>6, <3>10, ButtonsOfEdge
      <3> QED BY <3>2, <3>9, <3>11
    <2> QED BY <2>3, <2>4
  <1> QED BY <1>7, <1>8

-----------------------------------------------------------------------------
(* What the panels count. *)

\* A session whose spans all name their agent and whose intents are marked as such.
PlainSpans(spans) ==
    /\ \A i \in DOMAIN spans : spans[i].agent # Missing
    /\ \A i \in Intents(spans) : spans[i].kind # "tool_call"

LEMMA PlainCalls ==
    ASSUME NEW spans, PlainSpans(spans), NEW s \in Servers(spans)
    PROVE  /\ ServerCalls(spans, s) = {i \in DOMAIN spans : spans[i].server = s /\ spans[i].kind = "tool_call"}
           /\ \A i \in DOMAIN spans : AgentOf(spans[i]) = spans[i].agent
           /\ Callers(spans, s) \subseteq Agents(spans)
  <1>1. s # Missing
    BY DEF Servers, ServedCalls
  <1>2. \A i \in DOMAIN spans : AgentOf(spans[i]) = spans[i].agent
    BY DEF PlainSpans, AgentOf
  <1>3. ServerCalls(spans, s) = {i \in DOMAIN spans : spans[i].server = s /\ spans[i].kind = "tool_call"}
    BY <1>1 DEF ServerCalls, ServedCalls, PlainSpans
  <1>4. ASSUME NEW a \in Callers(spans, s)
        PROVE  a \in Agents(spans)
    <2>1. PICK i \in DOMAIN spans : a = AgentOf(spans[i])
      BY CallersCall
    <2>2. a = spans[i].agent /\ spans[i].agent # Missing
      BY <1>2, <2>1 DEF PlainSpans
    <2>3. i \in {j \in DOMAIN spans : spans[j].agent # Missing}
      BY <2>2
    <2>4. a \in {spans[j].agent : j \in {k \in DOMAIN spans : spans[k].agent # Missing}}
      BY <2>2, <2>3
    <2> QED BY <2>4 DEF Agents
  <1> QED BY <1>2, <1>3, <1>4

\* The panel of a node, by what its identifier begins with.
LEMMA PanelsAre ==
    ASSUME NEW spans, NEW id
    PROVE  /\ id[1] = "server" => PanelCalls(spans, id)
                = {i \in DOMAIN spans : spans[i].server = id[2] /\ spans[i].kind = "tool_call"}
           /\ id[1] = "via" => PanelCalls(spans, id)
                = {i \in DOMAIN spans : spans[i].server = id[2] /\ spans[i].kind = "tool_call" /\ spans[i].agent = id[3]}
           /\ id[1] = "call" => PanelCalls(spans, id) = {i \in DOMAIN spans : spans[i].id = id[3]}
  <1>1. CASE id[1] = "server"
    BY <1>1 DEF PanelCalls
  <1>2. CASE id[1] = "via"
    BY <1>2 DEF PanelCalls
  <1>3. CASE id[1] = "call"
    BY <1>3 DEF PanelCalls
  <1> QED BY <1>1, <1>2, <1>3

\* The nodes of a server, by what their identifiers begin with.
LEMMA KindsOfNodes ==
    ASSUME NEW spans, NEW wide, NEW open, NEW g, g = Inferred(spans, wide, open),
           NEW n \in g.nodes, n.id[1] # "agent"
    PROVE  \E s \in Servers(spans) :
              /\ n \in ServerPart(spans, s, wide, open).nodes
              /\ \/ ~ Expanded(spans, s, wide) /\ n = ServerNode(spans, s)
                 \/ \E a \in Callers(spans, s) : n = ViaNode(spans, a, s, open)
                 \/ \E a \in Callers(spans, s) : SplitFor(spans, s, wide, open, a) /\
                        \E i \in PathCalls(spans, a, s) : n = CallNode(spans, a, s, i)
  <1>1. PICK s : s = n.id[2]
    OBVIOUS
  <1>2. s \in Servers(spans) /\ n \in ServerPart(spans, s, wide, open).nodes
    BY <1>1, GraphOfServer
  <1>3. \/ ~ Expanded(spans, s, wide) /\ n = ServerNode(spans, s)
        \/ \E a \in Callers(spans, s) : n = ViaNode(spans, a, s, open)
        \/ \E a \in Callers(spans, s) : SplitFor(spans, s, wide, open, a) /\
               \E i \in PathCalls(spans, a, s) : n = CallNode(spans, a, s, i)
    BY <1>2, PartIs
  <1> QED BY <1>2, <1>3

\* The edges that lead to a server, and to a call.
LEMMA LeadsToServer ==
    ASSUME NEW spans, NEW wide, NEW open, NEW g, g = Inferred(spans, wide, open), NEW s \in Servers(spans),
           ~ Expanded(spans, s, wide), Callers(spans, s) \subseteq Agents(spans)
    PROVE  \A e : e \in {d \in Drawn(g) : d.target = ServerId(s)} <=>
                     \E a \in Callers(spans, s) : e = ServerEdge(spans, a, s)
  <1>1. ASSUME NEW e \in g.edges, e.target = ServerId(s)
        PROVE  \E a \in Callers(spans, s) : e = ServerEdge(spans, a, s)
    <2>1. PICK k : k = e.target
      OBVIOUS
    <2>2. k[1] = "server" /\ k[2] = s
      BY <1>1, <2>1, ServerIds
    <2>3. e \in ServerPart(spans, s, wide, open).edges
      <3>1. e \in ServerPart(spans, k[2], wide, open).edges
        BY <2>1, <2>2, GraphOfServer
      <3> QED BY <2>2, <3>1
    <2>4. ASSUME NEW root, NEW a, NEW i, e = CallEdge(spans, root, a, s, i)
          PROVE  FALSE
      <3>1. PICK c : c = spans[i].id
        OBVIOUS
      <3>2. k = CallId(s, c)
        BY <2>1, <2>4, <3>1, CallEdgeIs
      <3>3. k[1] = "call"
        BY <3>2, CallIds
      <3> QED BY <2>2, <3>3
    <2> QED BY <2>3, <2>4, PartIs
  <1>2. ASSUME NEW a \in Callers(spans, s), NEW e, e = ServerEdge(spans, a, s)
        PROVE  e \in Drawn(g) /\ e.target = ServerId(s)
    <2>1. e.source = AgentId(a) /\ e.target = ServerId(s)
      BY <1>2, ServerEdgeIs
    <2>2. e \in g.edges
      <3>1. e \in ServerPart(spans, s, wide, open).edges
        BY <1>2, PartIs
      <3> QED BY <3>1, GraphIs
    <2>3. AgentNode(spans, a) \in g.nodes
      BY GraphIs
    <2>4. ServerNode(spans, s) \in g.nodes
      <3>1. ServerNode(spans, s) \in ServerPart(spans, s, wide, open).nodes
        BY PartIs
      <3> QED BY <3>1, GraphIs
    <2>5. {AgentId(a), ServerId(s)} \subseteq NodeIds(g)
      BY <2>3, <2>4, AgentNodeIs, ServerNodeIs DEF NodeIds
    <2> QED BY <2>1, <2>2, <2>5 DEF Drawn
  <1>3. Drawn(g) \subseteq g.edges
    BY DEF Drawn
  <1> QED BY <1>1, <1>2, <1>3

LEMMA LeadsToCall ==
    ASSUME NEW spans, Distinct(spans), NEW wide, NEW open, NEW g, g = Inferred(spans, wide, open),
           NEW s \in Servers(spans), NEW a \in Callers(spans, s), SplitFor(spans, s, wide, open, a),
           NEW i \in PathCalls(spans, a, s), Callers(spans, s) \subseteq Agents(spans),
           NEW c, c = spans[i].id
    PROVE  {d \in Drawn(g) : d.target = CallId(s, c)}
              = {CallEdge(spans, RootFor(spans, s, wide, a), a, s, i)}
  <1>1. PICK f : f = CallEdge(spans, RootFor(spans, s, wide, a), a, s, i)
    OBVIOUS
  <1>2. i \in DOMAIN spans /\ AgentOf(spans[i]) = a
    BY CallersCall
  <1>3. ASSUME NEW e \in g.edges, e.target = CallId(s, c)
        PROVE  e = f
    <2>1. PICK k : k = e.target
      OBVIOUS
    <2>2. k[1] = "call" /\ k[2] = s /\ k[3] = c
      BY <1>3, <2>1, CallIds
    <2>3. e \in ServerPart(spans, s, wide, open).edges
      <3>1. e \in ServerPart(spans, k[2], wide, open).edges
        BY <2>1, <2>2, GraphOfServer
      <3> QED BY <2>2, <3>1
    <2>4. ASSUME NEW b, e = ServerEdge(spans, b, s)
          PROVE  FALSE
      <3>1. k[1] = "server"
        BY <2>1, <2>4, ServerEdgeIs, ServerIds
      <3> QED BY <2>2, <3>1
    <2>5. ASSUME NEW b, e = ViaEdge(spans, b, s)
          PROVE  FALSE
      <3>1. k = ViaId(s, b)
        BY <2>1, <2>5, ViaEdgeIs
      <3>2. k[1] = "via"
        BY <3>1, ViaIds
      <3> QED BY <2>2, <3>2
    <2>6. PICK b \in Callers(spans, s) : \E j \in PathCalls(spans, b, s) :
                e = CallEdge(spans, RootFor(spans, s, wide, b), b, s, j)
      BY <2>3, <2>4, <2>5, PartIs
    <2>7. PICK j \in PathCalls(spans, b, s) : e = CallEdge(spans, RootFor(spans, s, wide, b), b, s, j)
      BY <2>6
    <2>8. j \in DOMAIN spans /\ AgentOf(spans[j]) = b
      BY CallersCall
    <2>9. PICK d : d = spans[j].id
      OBVIOUS
    <2>10. k = CallId(s, d)
      BY <2>1, <2>7, <2>9, CallEdgeIs
    <2>11. k[3] = d
      BY <2>10, CallIds
    <2>12. j = i
      BY <1>2, <2>2, <2>8, <2>9, <2>11 DEF Distinct
    <2>13. b = a
      BY <1>2, <2>8, <2>12
    <2> QED BY <1>1, <2>7, <2>12, <2>13
  <1>4. f \in Drawn(g) /\ f.target = CallId(s, c)
    <2>1. PICK root : root = RootFor(spans, s, wide, a)
      OBVIOUS
    <2>2. f.source = root /\ f.target = CallId(s, c)
      BY <1>1, <2>1, CallEdgeIs
    <2>3. f \in g.edges
      <3>1. f \in ServerPart(spans, s, wide, open).edges
        BY <1>1, PartIs
      <3> QED BY <3>1, GraphIs
    <2>4. CallId(s, c) \in NodeIds(g)
      <3>1. CallNode(spans, a, s, i) \in ServerPart(spans, s, wide, open).nodes
        BY PartIs
      <3>2. CallNode(spans, a, s, i) \in g.nodes
        BY <3>1, GraphIs
      <3>3. CallNode(spans, a, s, i).id = CallId(s, c)
        BY CallNodeIs
      <3> QED BY <3>2, <3>3 DEF NodeIds
    <2>5. root \in NodeIds(g)
      BY <2>1, RootIsDrawn
    <2> QED BY <2>2, <2>3, <2>4, <2>5 DEF Drawn
  <1>5. Drawn(g) \subseteq g.edges
    BY DEF Drawn
  <1> QED BY <1>1, <1>3, <1>4, <1>5

\* Panels of a server, of a caller's share and of a call, and what leads to them.
LEMMA ServerPanel ==
    ASSUME NEW spans, Distinct(spans), PlainSpans(spans), NEW wide, NEW open,
           NEW g, g = Inferred(spans, wide, open), NEW s \in Servers(spans), ~ Expanded(spans, s, wide),
           NEW id, id = ServerId(s), NEW leads, leads = {e \in Drawn(g) : e.target = id},
           NEW parts, parts = Breakdown(spans, id)
    PROVE  /\ PanelCalls(spans, id) = ServerCalls(spans, s)
           /\ parts # <<>> => SumFunction(parts) = Cardinality(ServerCalls(spans, s))
           /\ SumFunction([e \in leads |-> Cardinality(EdgePanel(spans, e.source, id))])
                 = Cardinality(ServerCalls(spans, s))
  <1>1. id[1] = "server" /\ id[2] = s
    BY ServerIds
  <1>2. PICK R, C : R = ServerCalls(spans, s) /\ C = Callers(spans, s)
    OBVIOUS
  <1>3. IsFiniteSet(R) /\ C \subseteq Agents(spans)
    BY <1>2, CallersFinite, PlainCalls
  <1>4. PanelCalls(spans, id) = R
    BY <1>1, <1>2, PanelsAre, PlainCalls
  <1>5. \A a, i : i \in PathCalls(spans, a, s) <=> i \in R /\ AgentOf(spans[i]) = a
    BY <1>2, CallersCall
  <1>6. /\ \A i \in R : AgentOf(spans[i]) \in C
        /\ \A a \in C : \E i \in R : a = AgentOf(spans[i])
    BY <1>2, CallersCall
  <1>7. ASSUME parts # <<>>
        PROVE  SumFunction(parts) = Cardinality(R)
    <2>1. PICK part : part = [a \in C |-> PathCalls(spans, a, s)]
      OBVIOUS
    <2>2. PICK key : key = [i \in R |-> AgentOf(spans[i])]
      OBVIOUS
    <2>3. Grouping(R, C, key, part) /\ NoneEmpty(part, C)
      <3>1. key \in [R -> C] /\ part \in [C -> SUBSET R]
        BY <1>5, <1>6, <2>1, <2>2
      <3>2. \A a \in C, i \in R : i \in part[a] <=> key[i] = a
        BY <1>5, <2>1, <2>2
      <3>3. \A a \in C : part[a] # {}
        BY <1>5, <1>6, <2>1
      <3> QED BY <3>1, <3>2, <3>3 DEF Grouping, NoneEmpty
    <2>4. parts = [a \in C |-> Cardinality(PathCalls(spans, a, s))]
      <3>1. {b \in Callers(spans, id[2]) : id[1] = "via" => b = id[3]} = C
        BY <1>1, <1>2
      <3>2. parts = [a \in {b \in Callers(spans, id[2]) : id[1] = "via" => b = id[3]}
                        |-> Cardinality(PathCalls(spans, a, id[2]))]
        BY <1>1, <1>7 DEF Breakdown
      <3> QED BY <1>1, <3>1, <3>2
    <2>5. parts = [a \in C |-> parts[a]] /\ \A a \in C : parts[a] = Cardinality(part[a])
      BY <2>1, <2>4
    <2> QED BY <1>3, <2>3, <2>5, AllByGroups
  <1>8. PICK f : f = [e \in leads |-> Cardinality(EdgePanel(spans, e.source, id))]
    OBVIOUS
  <1>9. SumFunction(f) = Cardinality(R)
    <2>1. PICK edge : edge = [a \in C |-> ServerEdge(spans, a, s)]
      OBVIOUS
    <2>2. \A e : e \in leads <=> \E a \in C : e = edge[a]
      BY <1>2, <1>3, <2>1, LeadsToServer
    <2>3. PICK part : part = [e \in leads |-> PathCalls(spans, e.source[2], s)]
      OBVIOUS
    <2>4. ASSUME NEW a \in C
          PROVE  edge[a] \in leads /\ edge[a].source[2] = a /\ part[edge[a]] = PathCalls(spans, a, s)
                 /\ EdgePanel(spans, edge[a].source, id) = PathCalls(spans, a, s)
      <3>1. PICK e : e = edge[a]
        OBVIOUS
      <3>2. e.source = AgentId(a) /\ e \in leads
        BY <2>1, <2>2, <3>1, ServerEdgeIs
      <3>3. e.source[2] = a
        BY <3>2, AgentIds
      <3>4. EdgePanel(spans, e.source, id) = PathCalls(spans, a, s)
        BY <1>1, <3>3 DEF EdgePanel
      <3> QED BY <2>3, <3>1, <3>2, <3>3, <3>4
    <2>5. PICK key : key = [i \in R |-> edge[AgentOf(spans[i])]]
      OBVIOUS
    <2>6. Grouping(R, leads, key, part) /\ NoneEmpty(part, leads)
      <3>1. key \in [R -> leads]
        BY <1>6, <2>4, <2>5
      <3>2. part \in [leads -> SUBSET R]
        BY <1>5, <2>3
      <3>3. \A e \in leads, i \in R : i \in part[e] <=> key[i] = e
        <4>1. ASSUME NEW e \in leads, NEW i \in R
              PROVE  i \in part[e] <=> key[i] = e
          <5>1. PICK a \in C : e = edge[a]
            BY <2>2
          <5>2. PICK b : b = AgentOf(spans[i])
            OBVIOUS
          <5>3. b \in C /\ key[i] = edge[b]
            BY <1>6, <2>5, <5>2
          <5>4. edge[a] = edge[b] => a = b
            BY <2>4, <5>3
          <5>5. i \in part[e] <=> b = a
            BY <1>5, <2>4, <5>1, <5>2
          <5> QED BY <5>1, <5>3, <5>4, <5>5
        <4> QED BY <4>1
      <3>4. \A e \in leads : part[e] # {}
        <4>1. ASSUME NEW e \in leads
              PROVE  part[e] # {}
          <5>1. PICK a \in C : e = edge[a]
            BY <2>2
          <5>2. PICK i \in R : a = AgentOf(spans[i])
            BY <1>6
          <5> QED BY <1>5, <2>4, <5>1, <5>2
        <4> QED BY <4>1
      <3> QED BY <3>1, <3>2, <3>3, <3>4 DEF Grouping, NoneEmpty
    <2>7. ASSUME NEW e \in leads
          PROVE  EdgePanel(spans, e.source, id) = part[e]
      <3>1. PICK a \in C : e = edge[a]
        BY <2>2
      <3> QED BY <2>4, <3>1
    <2>8. f = [e \in leads |-> f[e]] /\ \A e \in leads : f[e] = Cardinality(part[e])
      BY <1>8, <2>7
    <2> QED BY <1>3, <2>6, <2>8, AllByGroups
  <1> QED BY <1>2, <1>4, <1>7, <1>8, <1>9

\* What one edge leads to is what it counts.
LEMMA OneLead ==
    ASSUME NEW R, IsFiniteSet(R), R # {}, NEW E, NEW e, \A d : d \in E <=> d = e,
           NEW f, f = [d \in E |-> f[d]], f[e] = Cardinality(R)
    PROVE  SumFunction(f) = Cardinality(R)
  <1>1. PICK key, part : key = [j \in R |-> e] /\ part = [d \in E |-> R]
    OBVIOUS
  <1>2. Grouping(R, E, key, part) /\ NoneEmpty(part, E)
    BY <1>1 DEF Grouping, NoneEmpty
  <1>3. \A d \in E : f[d] = Cardinality(part[d])
    BY <1>1
  <1> QED BY <1>2, <1>3, AllByGroups

\* What the panels of a node say.
PanelTells(spans, g, n) ==
    LET parts == Breakdown(spans, n.id)
        leads == {e \in Drawn(g) : e.target = n.id}
    IN  /\ Cardinality(PanelCalls(spans, n.id)) = n.calls
        /\ n.id[1] = "server" /\ parts # <<>> => SumFunction(parts) = n.calls
        /\ HasEdgeData(n.id) =>
               SumFunction([e \in leads |-> Cardinality(EdgePanel(spans, e.source, n.id))]) = n.calls

LEMMA PanelsTell ==
    ASSUME NEW spans, Distinct(spans), PlainSpans(spans), NEW wide, NEW open,
           NEW g, g = Inferred(spans, wide, open), NEW n \in g.nodes, n.id[1] # "agent"
    PROVE  PanelTells(spans, g, n)
  <1>1. PICK id, leads, parts : /\ id = n.id /\ leads = {e \in Drawn(g) : e.target = id}
                                /\ parts = Breakdown(spans, id)
    OBVIOUS
  <1>2. PICK f : f = [e \in leads |-> Cardinality(EdgePanel(spans, e.source, id))]
    OBVIOUS
  <1>3. SUFFICES /\ Cardinality(PanelCalls(spans, id)) = n.calls
                 /\ id[1] = "server" /\ parts # <<>> => SumFunction(parts) = n.calls
                 /\ HasEdgeData(id) => SumFunction(f) = n.calls
    BY <1>1, <1>2 DEF PanelTells
  <1>4. PICK s \in Servers(spans) :
            \/ ~ Expanded(spans, s, wide) /\ n = ServerNode(spans, s)
            \/ \E a \in Callers(spans, s) : n = ViaNode(spans, a, s, open)
            \/ \E a \in Callers(spans, s) : SplitFor(spans, s, wide, open, a) /\
                   \E i \in PathCalls(spans, a, s) : n = CallNode(spans, a, s, i)
    BY KindsOfNodes
  <1>5. CASE ~ Expanded(spans, s, wide) /\ n = ServerNode(spans, s)
    <2>1. id = ServerId(s) /\ n.calls = Cardinality(ServerCalls(spans, s))
      BY <1>1, <1>5, ServerNodeIs
    <2>2. /\ PanelCalls(spans, id) = ServerCalls(spans, s)
          /\ parts # <<>> => SumFunction(parts) = Cardinality(ServerCalls(spans, s))
          /\ SumFunction(f) = Cardinality(ServerCalls(spans, s))
      BY <1>1, <1>2, <1>5, <2>1, ServerPanel
    <2> QED BY <2>1, <2>2
  <1>6. CASE \E a \in Callers(spans, s) : n = ViaNode(spans, a, s, open)
    <2>1. PICK a \in Callers(spans, s) : n = ViaNode(spans, a, s, open)
      BY <1>6
    <2>2. id = ViaId(s, a) /\ n.calls = Cardinality(PathCalls(spans, a, s))
      BY <1>1, <2>1, ViaNodeIs
    <2>3. id[1] = "via" /\ id[2] = s /\ id[3] = a
      BY <2>2, ViaIds
    <2>4. PanelCalls(spans, id)
            = {i \in DOMAIN spans : spans[i].server = s /\ spans[i].kind = "tool_call" /\ spans[i].agent = a}
      BY <2>3, PanelsAre
    <2>5. PanelCalls(spans, id) = PathCalls(spans, a, s)
      BY <2>4, PlainCalls DEF PathCalls
    <2> QED BY <2>2, <2>3, <2>5 DEF HasEdgeData
  <1>7. CASE \E a \in Callers(spans, s) : SplitFor(spans, s, wide, open, a) /\
                 \E i \in PathCalls(spans, a, s) : n = CallNode(spans, a, s, i)
    <2>1. PICK a \in Callers(spans, s) : SplitFor(spans, s, wide, open, a) /\
                 \E i \in PathCalls(spans, a, s) : n = CallNode(spans, a, s, i)
      BY <1>7
    <2>2. PICK i \in PathCalls(spans, a, s) : n = CallNode(spans, a, s, i)
      BY <2>1
    <2>3. PICK R : R = {i}
      OBVIOUS
    <2>4. PICK c : c = spans[i].id
      OBVIOUS
    <2>5. id = CallId(s, c)
      BY <1>1, <2>2, <2>4, CallNodeIs
    <2>6. n.calls = Cardinality(R)
      BY <2>2, <2>3, CallNodeCounts
    <2>7. id[1] = "call" /\ id[3] = c
      BY <2>5, CallIds
    <2>8. PanelCalls(spans, id) = R
      <3>1. PanelCalls(spans, id) = {j \in DOMAIN spans : spans[j].id = c}
        BY <2>7, PanelsAre
      <3>2. i \in DOMAIN spans
        BY CallersCall
      <3> QED BY <2>3, <2>4, <3>1, <3>2 DEF Distinct
    <2>9. \A d : EdgePanel(spans, d, id) = R
      BY <2>7, <2>8 DEF EdgePanel
    <2>13. PICK e : e = CallEdge(spans, RootFor(spans, s, wide, a), a, s, i)
      OBVIOUS
    <2>14. \A d : d \in leads <=> d = e
      <3>1. Callers(spans, s) \subseteq Agents(spans)
        BY PlainCalls
      <3>2. {d \in Drawn(g) : d.target = CallId(s, c)}
              = {CallEdge(spans, RootFor(spans, s, wide, a), a, s, i)}
        BY <2>1, <2>4, <3>1, LeadsToCall
      <3> QED BY <1>1, <2>5, <2>13, <3>2
    <2>10. f = [d \in leads |-> f[d]] /\ f[e] = Cardinality(R)
      BY <1>2, <2>9, <2>14
    <2>12. IsFiniteSet(R) /\ R # {}
      BY <2>3, FS_Singleton
    <2>11. SumFunction(f) = Cardinality(R)
      BY <2>10, <2>12, <2>14, OneLead
    <2> QED BY <2>6, <2>7, <2>8, <2>11
  <1> QED BY <1>4, <1>5, <1>6, <1>7

-----------------------------------------------------------------------------
(* The page *)

\* The page shows a trace that may have been recorded, or none; so do the answers.
Asked == [project : AnyProject, answer : {NoTrace} \cup Traces]
ShowsTrace ==
    /\ recorded \in Traces /\ loaded \in {NoTrace} \cup Traces
    /\ projectId \in AnyProject /\ asked \in Seq(Asked)

LEMMA TracesAreDistinct ==
    ASSUME NEW t \in Traces
    PROVE  Distinct(t.spans)
  <1>1. t.spans \in Seq(Range(t.spans))
    BY SpanAssumption
  <1>2. PICK q : q = t.spans
    OBVIOUS
  <1>3. DOMAIN q = 1 .. Len(q) /\ Len(q) \in Nat
    BY <1>1, <1>2
  <1>4. IsFiniteSet(DOMAIN q) /\ DOMAIN q \subseteq Nat
    BY <1>3, FS_Interval
  <1>5. \A i, j \in DOMAIN q : q[i].id = q[j].id => i = j
    BY <1>2, SpanAssumption
  <1>6. \A i \in DOMAIN q : q[i].at \in Nat
    BY <1>2, SpanAssumption
  <1> QED BY <1>2, <1>4, <1>5, <1>6 DEF Distinct

\* A trace whose spans decide is one that was recorded, and what is drawn is inferred.
LEMMA InferredIsDrawn ==
    ASSUME ShowsTrace, Inferring
    PROVE  Distinct(loaded.spans) /\ graph = Inferred(loaded.spans, groups, paths)
  <1>1. loaded # NoTrace
    BY DEF Inferring, Drawing, graph, Nothing
  <1>2. Distinct(loaded.spans)
    BY <1>1, TracesAreDistinct DEF ShowsTrace
  <1>3. graph = Graph(loaded, groups, paths)
    BY <1>1 DEF graph
  <1>4. Graph(loaded, groups, paths) = Inferred(loaded.spans, groups, paths)
    BY DEF Graph, Inferring, Nothing
  <1> QED BY <1>2, <1>3, <1>4

\* An arrow of delegation that begins at an agent is drawn.
LEMMA HandoffIsDrawn ==
    ASSUME NEW spans, NEW wide, NEW open, NEW g, g = Inferred(spans, wide, open),
           NEW a \in Agents(spans), NEW b \in Agents(spans), NEW p, p = <<b, a>>, p \in Handoffs(spans)
    PROVE  \E e \in Drawn(g) : e.type = "handoff" /\ e.target = AgentId(a)
  <1>1. PICK e : e = HandoffEdge(spans, p)
    OBVIOUS
  <1>2. p[1] = b /\ p[2] = a
    OBVIOUS
  <1>3. e.source = AgentId(b) /\ e.target = AgentId(a) /\ e.type = "handoff"
    BY <1>1, <1>2, HandoffEdgeIs
  <1>4. e \in g.edges /\ AgentNode(spans, a) \in g.nodes /\ AgentNode(spans, b) \in g.nodes
    BY <1>1, GraphIs
  <1>5. AgentId(a) \in NodeIds(g) /\ AgentId(b) \in NodeIds(g)
    BY <1>4, AgentNodeIs DEF NodeIds
  <1>6. e \in Drawn(g)
    BY <1>3, <1>4, <1>5 DEF Drawn
  <1> QED BY <1>3, <1>6

\* The first of some places or times is one of them.
LEMMA EarliestIsOne ==
    ASSUME NEW T, T \subseteq Nat, T # {}
    PROVE  Earliest(T) \in T
  <1> DEFINE R == {ss \in Nat \X Nat : ss[1] < ss[2]}
  <1>1. IsWellFoundedOn(R, Nat)
    BY NatLessThanWellFounded DEF OpToRel
  <1>2. R = {ss \in Nat \X Nat : ss[1] < ss[2]}
    OBVIOUS
  <1> HIDE DEF R
  <1>3. PICK x \in T : \A y \in T : ~ (<<y, x>> \in R)
    BY <1>1, WFMin
  <1>4. ASSUME NEW y \in T, y < x PROVE FALSE
    <2>1. <<y, x>> \in Nat \X Nat /\ <<y, x>>[1] = y /\ <<y, x>>[2] = x
      OBVIOUS
    <2>2. <<y, x>> \in R
      BY <1>2, <1>4, <2>1
    <2> QED BY <1>3, <2>2
  <1>5. \A y \in T : x <= y
    BY <1>4
  <1> QED BY <1>5 DEF Earliest

\* Of finitely many in an order, one is the last.
LEMMA LastOfAll ==
    ASSUME NEW S, IsFiniteSet(S), S # {}, NEW R,
           \A x, y \in S : <<x, y>> \in R \/ <<y, x>> \in R,
           \A x, y, z \in S : <<x, y>> \in R /\ <<y, z>> \in R => <<x, z>> \in R
    PROVE  \E x \in S : \A y \in S : <<y, x>> \in R
  <1> DEFINE Below(y, x) == <<y, x>> \in R
  <1>0. /\ \A x, y \in S : Below(x, y) \/ Below(y, x)
        /\ \A x, y, z \in S : Below(x, y) /\ Below(y, z) => Below(x, z)
    OBVIOUS
  <1> SUFFICES \E x \in S : \A y \in S : Below(y, x)
    OBVIOUS
  <1> HIDE DEF Below
  <1>1. PICK bad : bad = {X \in SUBSET S : X # {} /\ ~ \E x \in X : \A y \in X : Below(y, x)}
    OBVIOUS
  <1>2. SUFFICES ASSUME S \in bad PROVE FALSE
    BY <1>1
  <1>3. PICK T \in bad : \A U \in bad : ~ (U \subseteq T /\ U # T)
    <2>1. bad \subseteq SUBSET S /\ bad # {}
      BY <1>1, <1>2
    <2> QED BY <2>1, SmallestBad
  <1>4. PICK x \in T : TRUE
    BY <1>1
  <1>5. T \in SUBSET S /\ ~ \E z \in T : \A y \in T : Below(y, z)
    BY <1>1
  <1>6. T \ {x} # {}
    <2>1. SUFFICES ASSUME T \ {x} = {} PROVE FALSE
      OBVIOUS
    <2>2. T = {x} /\ x \in S
      BY <1>4, <1>5, <2>1
    <2>3. Below(x, x)
      BY <1>0, <2>2
    <2> QED BY <1>5, <2>2, <2>3
  <1>7. PICK m \in T \ {x} : \A y \in T \ {x} : Below(y, m)
    <2>1. T \ {x} \notin bad
      BY <1>3, <1>4
    <2> QED BY <1>1, <1>5, <1>6, <2>1
  <1>8. CASE Below(x, m)
    BY <1>5, <1>7, <1>8
  <1>9. CASE Below(m, x)
    <2>1. \A y \in T : y \in S
      BY <1>5
    <2>3. Below(x, x)
      BY <1>0, <1>4, <2>1
    <2>2. ASSUME NEW y \in T, y # x
          PROVE  Below(y, x)
      <3>1. Below(y, m)
        BY <1>7, <2>2
      <3> QED BY <1>0, <1>4, <1>7, <1>9, <2>1, <3>1
    <2>4. \A y \in T : Below(y, x)
      BY <2>2, <2>3
    <2> QED BY <1>4, <1>5, <2>4
  <1>10. x \in S /\ m \in S
    BY <1>4, <1>5, <1>7
  <1> QED BY <1>0, <1>8, <1>9, <1>10

\* The times and places by which agents are compared are numbers.
LEMMA SeenAndPlaced ==
    ASSUME NEW spans, Distinct(spans), NEW a \in Agents(spans)
    PROVE  FirstSeen(spans, a) \in Nat /\ Order(spans, a) \in Nat
  <1>1. PICK own, given : /\ own = {j \in DOMAIN spans : spans[j].agent = a}
                          /\ given = {j \in Delegations(spans) : HandoffTarget(spans[j]) = a}
    OBVIOUS
  <1>2. own \subseteq Nat /\ given \subseteq Nat /\ Delegations(spans) \subseteq DOMAIN spans
    BY <1>1 DEF Distinct, Delegations
  <1>3. FirstSeen(spans, a) \in Nat
    <2>1. PICK T : T = {spans[i].at : i \in own}
      OBVIOUS
    <2>2. T = Starts(spans, a) /\ T \subseteq Nat
      BY <1>1, <2>1 DEF Starts, Distinct
    <2>3. CASE T = {}
      BY <2>2, <2>3 DEF FirstSeen
    <2>4. CASE T # {}
      <3>1. Earliest(T) \in Nat
        BY <2>2, <2>4, EarliestIsOne
      <3> QED BY <2>2, <2>4, <3>1 DEF FirstSeen
    <2> QED BY <2>3, <2>4
  <1>4. Order(spans, a) \in Nat
    <2>1. PICK T : T = {2 * i : i \in own} \cup {2 * i + 1 : i \in given}
      OBVIOUS
    <2>2. T \subseteq Nat
      BY <1>2, <2>1
    <2>3. own # {} \/ given # {}
      BY <1>1 DEF Agents
    <2>4. T # {}
      BY <2>1, <2>3
    <2>5. Earliest(T) \in Nat
      BY <2>2, <2>4, EarliestIsOne
    <2>6. Order(spans, a) = Earliest(T)
      BY <1>1, <2>1 DEF Order
    <2> QED BY <2>5, <2>6
  <1> QED BY <1>3, <1>4

LEMMA AgentsFinite ==
    ASSUME NEW spans, Distinct(spans)
    PROVE  IsFiniteSet(Agents(spans))
  <1>1. PICK D, H : D = {j \in DOMAIN spans : spans[j].agent # Missing} /\ H = Delegations(spans)
    OBVIOUS
  <1>2. IsFiniteSet(D) /\ IsFiniteSet(H)
    <2>1. D \subseteq DOMAIN spans /\ H \subseteq DOMAIN spans
      BY <1>1 DEF Delegations
    <2> QED BY <2>1, FS_Subset DEF Distinct
  <1>3. PICK A, B : A = {spans[i].agent : i \in D} /\ B = {HandoffTarget(spans[i]) : i \in H}
    OBVIOUS
  <1>4. IsFiniteSet(A)
    <2>1. PICK f : f = [i \in D |-> spans[i].agent]
      OBVIOUS
    <2>2. f \in Surjection(D, A)
      BY <1>3, <2>1 DEF Surjection
    <2> QED BY <1>2, <2>2, FS_Surjection
  <1>5. IsFiniteSet(B)
    <2>1. PICK f : f = [i \in H |-> HandoffTarget(spans[i])]
      OBVIOUS
    <2>2. f \in Surjection(H, B)
      BY <1>3, <2>1 DEF Surjection
    <2> QED BY <1>2, <2>2, FS_Surjection
  <1>6. Agents(spans) = A \cup B
    BY <1>1, <1>3 DEF Agents
  <1> QED BY <1>4, <1>5, <1>6, FS_Union

\* The agent before another one is an agent of the session.
LEMMA EarlierIsChosen ==
    ASSUME NEW spans, Distinct(spans), NEW a \in Agents(spans), HasEarlier(spans, a)
    PROVE  TimedParent(spans, a) \in Agents(spans)
  <1>1. PICK E : E = Earlier(spans, a)
    OBVIOUS
  <1>2. E \subseteq Agents(spans) /\ E # {}
    BY <1>1 DEF Earlier, HasEarlier
  <1>3. IsFiniteSet(E)
    BY <1>2, AgentsFinite, FS_Subset
  <1>4. PICK f, o : f = [b \in E |-> FirstSeen(spans, b)] /\ o = [b \in E |-> Order(spans, b)]
    OBVIOUS
  <1>5. \A b \in E : f[b] \in Nat /\ o[b] \in Nat
    BY <1>2, <1>4, SeenAndPlaced
  <1>6. PICK R : R = {p \in E \X E : f[p[1]] < f[p[2]] \/ (f[p[1]] = f[p[2]] /\ o[p[2]] <= o[p[1]])}
    OBVIOUS
  <1>7. \A x, y \in E : <<x, y>> \in R <=> f[x] < f[y] \/ (f[x] = f[y] /\ o[y] <= o[x])
    BY <1>6
  <1>8. ASSUME NEW x \in E, NEW y \in E
        PROVE  <<x, y>> \in R \/ <<y, x>> \in R
    <2>1. f[x] < f[y] \/ f[y] < f[x] \/ (f[x] = f[y] /\ (o[x] <= o[y] \/ o[y] <= o[x]))
      BY <1>5
    <2> QED BY <1>7, <2>1
  <1>9. ASSUME NEW x \in E, NEW y \in E, NEW z \in E, <<x, y>> \in R, <<y, z>> \in R
        PROVE  <<x, z>> \in R
    <2>1. /\ f[x] < f[y] \/ (f[x] = f[y] /\ o[y] <= o[x])
          /\ f[y] < f[z] \/ (f[y] = f[z] /\ o[z] <= o[y])
      BY <1>7, <1>9
    <2>2. f[x] < f[z] \/ (f[x] = f[z] /\ o[z] <= o[x])
      BY <1>5, <2>1
    <2> QED BY <1>7, <2>2
  <1>10. PICK b \in E : \A c \in E : <<c, b>> \in R
    BY <1>2, <1>3, <1>8, <1>9, LastOfAll
  <1>11. \A c \in E : \/ FirstSeen(spans, c) < FirstSeen(spans, b)
                      \/ /\ FirstSeen(spans, c) = FirstSeen(spans, b)
                         /\ Order(spans, b) <= Order(spans, c)
    BY <1>4, <1>7, <1>10
  <1>12. TimedParent(spans, a) \in E
    BY <1>1, <1>11 DEF TimedParent
  <1> QED BY <1>2, <1>12

LEMMA LaterAgentsAttached ==
    ASSUME NEW spans, Distinct(spans), NEW wide, NEW open, NEW g, g = Inferred(spans, wide, open),
           NEW a \in Agents(spans), HasEarlier(spans, a),
           HandersOver(spans, a) = {} \/ HandersOver(spans, a) \cap Agents(spans) # {}
    PROVE  \E e \in Drawn(g) : e.type = "handoff" /\ e.target = AgentId(a)
  <1>1. CASE \E b \in Agents(spans) : b \in HandersOver(spans, a)
    <2>1. PICK b \in Agents(spans) : b \in HandersOver(spans, a)
      BY <1>1
    <2>2. PICK q \in Explicit(spans) \cup Named(spans) : q[2] = a /\ q[1] = b
      BY <2>1 DEF HandersOver
    <2>3. q = <<b, a>>
      BY <2>2 DEF Explicit, Named
    <2>4. q \in Handoffs(spans)
      BY <2>2 DEF Handoffs
    <2> QED BY <2>3, <2>4, HandoffIsDrawn
  <1>2. CASE HandersOver(spans, a) = {}
    <2>1. \A q \in Explicit(spans) \cup Named(spans) : q[2] # a
      BY <1>2 DEF HandersOver
    <2>2. PICK b : b = TimedParent(spans, a)
      OBVIOUS
    <2>3. <<b, a>> \in Timed(spans)
      BY <2>1, <2>2 DEF Timed
    <2>4. b \in Agents(spans)
      BY <2>2, EarlierIsChosen
    <2>5. PICK p : p = <<b, a>>
      OBVIOUS
    <2>6. p \in Handoffs(spans)
      BY <2>3, <2>5 DEF Handoffs
    <2> QED BY <2>4, <2>5, <2>6, HandoffIsDrawn
  <1> QED BY <1>1, <1>2

LEMMA GraphWhole ==
    ASSUME ShowsTrace
    PROVE  GraphIsWhole
  <1>1. PICK q, g : q = loaded.spans /\ g = graph
    OBVIOUS
  <1>2. ASSUME Inferring, NEW s \in Servers(q)
        PROVE  /\ SumFunction([n \in Heads(g, s) |-> n.calls]) = Cardinality(ServerCalls(q, s))
               /\ SumFunction([n \in Heads(g, s) |-> n.errors]) = FailureCount(q, ServerCalls(q, s))
               /\ \A a \in Callers(q, s) \cap Agents(q) :
                     \E e \in Drawn(g), n \in Heads(g, s) : e.source = AgentId(a) /\ e.target = n.id
    <2>1. Distinct(q) /\ g = Inferred(q, groups, paths)
      BY <1>1, <1>2, InferredIsDrawn
    <2>2. PICK E, R : E = Heads(g, s) /\ R = ServerCalls(q, s)
      OBVIOUS
    <2>3. /\ SumFunction([n \in E |-> n.calls]) = Cardinality(R)
          /\ SumFunction([n \in E |-> n.errors]) = FailureCount(q, R)
      BY <1>2, <2>1, <2>2, CallsAddUp
    <2>4. ASSUME NEW a \in Callers(q, s), a \in Agents(q)
          PROVE  \E e \in Drawn(g), n \in Heads(g, s) : e.source = AgentId(a) /\ e.target = n.id
      BY <1>2, <2>1, <2>4, CallersLead
    <2> QED BY <2>2, <2>3, <2>4
  <1>3. ASSUME Inferring, NEW a \in Agents(q), HasEarlier(q, a),
               HandersOver(q, a) = {} \/ HandersOver(q, a) \cap Agents(q) # {}
        PROVE  \E e \in Drawn(g) : e.type = "handoff" /\ e.target = AgentId(a)
    <2>1. Distinct(q) /\ g = Inferred(q, groups, paths)
      BY <1>1, <1>3, InferredIsDrawn
    <2> QED BY <1>3, <2>1, LaterAgentsAttached
  <1>4. CallsConserved
    BY <1>1, <1>2 DEF CallsConserved
  <1>5. NoOrphans
    BY <1>1, <1>3 DEF NoOrphans
  <1> QED BY <1>4, <1>5 DEF GraphIsWhole

LEMMA PanelsAgree ==
    ASSUME ShowsTrace
    PROVE  PanelAgrees
  <1>1. PICK q, g : q = loaded.spans /\ g = graph
    OBVIOUS
  <1>2. ASSUME Inferring, AllNamed, ~ Legacy(q), NEW n \in g.nodes, n.id[1] # "agent"
        PROVE  PanelTells(q, g, n)
    <2>1. Distinct(q) /\ g = Inferred(q, groups, paths)
      BY <1>1, <1>2, InferredIsDrawn
    <2>2. PlainSpans(q)
      <3>1. \A i \in DOMAIN q : q[i].agent # Missing
        BY <1>1, <1>2 DEF AllNamed, Range
      <3>2. \A i \in Intents(q) : q[i].kind # "tool_call"
        BY <1>2 DEF Legacy
      <3> QED BY <3>1, <3>2 DEF PlainSpans
    <2> QED BY <1>2, <2>1, <2>2, PanelsTell
  <1>3. \A n \in {m \in g.nodes : m.id[1] # "agent"} :
            Inferring /\ AllNamed /\ ~ Legacy(q) => PanelTells(q, g, n)
    BY <1>2
  <1> QED BY <1>1, <1>3 DEF PanelAgrees, PanelTells

LEMMA NothingStuck ==
    ASSUME ShowsTrace
    PROVE  NothingIsStuck
  <1>1. PICK q, g, bs : q = loaded.spans /\ g = graph /\ bs = Buttons(g, groups, paths)
    OBVIOUS
  <1>2. ASSUME Inferring, NEW s \in Servers(q), NEW a \in Callers(q, s)
        PROVE  LET drawn == \E n \in g.nodes : n.group = PathId(a, s)
               IN  IF drawn THEN <<"path", PathId(a, s)>> \in bs \/ Unanchored(q, a, s)
                   ELSE Cardinality(PathCalls(q, a, s)) >= 2 =>
                           \/ <<"path", PathId(a, s)>> \in bs
                           \/ <<"group", ServerId(s)>> \in bs /\ ServerId(s) \notin groups
    <2>1. Distinct(q) /\ g = Inferred(q, groups, paths)
      BY <1>1, <1>2, InferredIsDrawn
    <2>2. CASE \E n \in g.nodes : n.group = PathId(a, s)
      <3>1. PICK n \in g.nodes : n.group = PathId(a, s)
        BY <2>2
      <3>2. Unanchored(q, a, s) \/ a \in Agents(q) \/ ~ Expanded(q, s, groups)
        BY DEF Unanchored, Expanded
      <3>3. Unanchored(q, a, s) \/ <<"path", PathId(a, s)>> \in Buttons(g, groups, paths)
        BY <2>1, <3>1, <3>2, ShownCanFold
      <3> QED BY <1>1, <2>2, <3>3
    <2>3. CASE \A n \in g.nodes : n.group # PathId(a, s)
      <3>1. ASSUME Cardinality(PathCalls(q, a, s)) >= 2
            PROVE  \/ <<"path", PathId(a, s)>> \in Buttons(g, groups, paths)
                   \/ <<"group", ServerId(s)>> \in Buttons(g, groups, paths) /\ ServerId(s) \notin groups
        BY <1>2, <2>1, <2>3, <3>1, HiddenCanUnfold
      <3> QED BY <1>1, <2>3, <3>1
    <2> QED BY <2>2, <2>3
  <1> QED BY <1>1, <1>2 DEF NothingIsStuck

LEMMA RemoveAnswer ==
    ASSUME NEW S, NEW q \in Seq(S), NEW i \in DOMAIN q
    PROVE  RemoveAt(q, i) \in Seq(S)
  <1>1. Len(q) \in Nat /\ DOMAIN q = 1..Len(q) /\ \A j \in 1..Len(q) : q[j] \in S
    BY ElementOfSeq
  <1>2. i - 1 \in Int /\ i + 1 \in Int /\ Len(q) \in Int
    BY <1>1
  <1>3. (\A j \in 1..(i - 1) : q[j] \in S) /\ (\A j \in (i + 1)..Len(q) : q[j] \in S)
    BY <1>1
  <1>4. SubSeq(q, 1, i - 1) \in Seq(S)
    BY <1>2, <1>3, SubSeqProperties
  <1>5. SubSeq(q, i + 1, Len(q)) \in Seq(S)
    BY <1>2, <1>3, SubSeqProperties
  <1> QED BY <1>4, <1>5, ConcatProperties DEF RemoveAt

\* The page shows one or none, whatever is clicked and whichever answer arrives.
LEMMA AlwaysShowsTrace == SessionSpec => []ShowsTrace
  <1>0. \A p \in AnyProject : Request(p) \in Asked
    BY DEF Request, Asked
  <1>1. SessionInit => ShowsTrace
    <2> SUFFICES ASSUME SessionInit PROVE ShowsTrace
      OBVIOUS
    <2>1. projectId \in AnyProject
      BY DEF SessionInit, AnyProject
    <2>2. Request(projectId) \in Asked
      BY <1>0, <2>1
    <2>3. <<Request(projectId)>> \in Seq(Asked)
      BY <2>2
    <2> QED BY <2>1, <2>3 DEF SessionInit, ShowsTrace
  <1>2. ShowsTrace /\ [SessionNext]_sessionVars => ShowsTrace'
    <2> SUFFICES ASSUME ShowsTrace, [SessionNext]_sessionVars PROVE ShowsTrace'
      OBVIOUS
    <2>1. CASE SpansStored
      BY <2>1 DEF SpansStored, ShowsTrace, received
    <2>2. CASE TraceRead
      <3>1. PICK i \in DOMAIN asked : asked' = [asked EXCEPT ![i].answer = recorded]
        BY <2>2 DEF TraceRead
      <3>2. PICK r : r = [asked[i] EXCEPT !.answer = recorded]
        OBVIOUS
      <3>3. asked[i] \in Asked
        BY ElementOfSeq DEF ShowsTrace
      <3>4. r \in Asked
        BY <3>2, <3>3 DEF Asked, ShowsTrace
      <3>5. asked' = [asked EXCEPT ![i] = r]
        BY <3>1, <3>2
      <3>6. asked' \in Seq(Asked)
        BY <3>4, <3>5 DEF ShowsTrace
      <3> QED BY <2>2, <3>6 DEF TraceRead, ShowsTrace, received
    <2>3. CASE SwitchProject
      <3>1. PICK p \in AnyProject : projectId' = p /\ Ask(p)
        BY <2>3 DEF SwitchProject
      <3>2. asked' = Append(asked, Request(p)) /\ Request(p) \in Asked
        BY <1>0, <3>1 DEF Ask
      <3>3. asked' \in Seq(Asked)
        BY <3>2 DEF ShowsTrace
      <3> QED BY <2>3, <3>1, <3>3 DEF SwitchProject, Ask, ShowsTrace
    <2>4. CASE TraceArrives
      <3>1. PICK i \in DOMAIN asked : asked' = RemoveAt(asked, i) /\ loaded' = asked[i].answer
        BY <2>4 DEF TraceArrives
      <3>2. asked[i] \in Asked
        BY ElementOfSeq DEF ShowsTrace
      <3>3. loaded' \in {NoTrace} \cup Traces
        BY <3>1, <3>2 DEF Asked
      <3>4. asked' \in Seq(Asked)
        BY <3>1, RemoveAnswer DEF ShowsTrace
      <3> QED BY <2>4, <3>3, <3>4 DEF TraceArrives, ShowsTrace
    <2>5. CASE AnswerFails
      <3>1. PICK i \in DOMAIN asked : asked' = RemoveAt(asked, i)
        BY <2>5 DEF AnswerFails
      <3>2. asked' \in Seq(Asked)
        BY <3>1, RemoveAnswer DEF ShowsTrace
      <3> QED BY <2>5, <3>2 DEF AnswerFails, ShowsTrace
    <2>6. CASE \/ ToggleGroup \/ ToggleEdge \/ ExpandAll \/ CollapseAll \/ SelectInGraph
               \/ SelectInTimeline \/ UNCHANGED sessionVars
      <3>1. UNCHANGED <<recorded, projectId, asked, loaded>>
        BY <2>6 DEF ToggleGroup, ToggleEdge, ExpandAll, CollapseAll, SelectInGraph, SelectInTimeline,
                    sessionVars, received
      <3> QED BY <3>1 DEF ShowsTrace
    <2> QED BY <2>1, <2>2, <2>3, <2>4, <2>5, <2>6 DEF SessionNext
  <1> QED BY <1>1, <1>2, PTL DEF SessionSpec

\* However groups and paths are opened and folded, however far the session had got when
\* each answer was read and in whichever order answers arrive, the drawing counts every
\* call once and an arrow that is drawn leads to it from each named caller, and to every
\* later agent unless only spans without a name hand over to it.
THEOREM GraphsAreWhole == SessionSpec => []GraphIsWhole
  <1>1. ShowsTrace => GraphIsWhole
    BY GraphWhole
  <1> QED BY <1>1, AlwaysShowsTrace, PTL

\* ... the panels of nodes and of the edges that have one count what their nodes count,
\* in sessions whose spans all name their agent, ...
THEOREM PanelsAlwaysAgree == SessionSpec => []PanelAgrees
  <1>1. ShowsTrace => PanelAgrees
    BY PanelsAgree
  <1> QED BY <1>1, AlwaysShowsTrace, PTL

\* ... and whoever made them, calls that are drawn can be folded and calls that are not
\* can be reached, but for unnamed calls of an expanded group, which "Collapse all" folds.
THEOREM NothingEverSticks == SessionSpec => []NothingIsStuck
  <1>1. ShowsTrace => NothingIsStuck
    BY NothingStuck
  <1> QED BY <1>1, AlwaysShowsTrace, PTL

-----------------------------------------------------------------------------
(* The alert inbox. *)

\* What the page keeps of an address, and a request under way.
IsCell(c) == c = [data |-> c.data, fetch |-> c.fetch]
IsRequest(r) == {"id", "op", "alert", "answer"} \subseteq DOMAIN r /\ r.op \in Ops
Types ==
    /\ DOMAIN status = Alerts
    /\ tab \in Tabs
    /\ DOMAIN feed = Tabs /\ \A t \in Tabs : IsCell(feed[t])
    /\ IsCell(counts)
    /\ \A r \in requests : IsRequest(r)
    /\ \A d \in done : d[1] \in Alerts /\ d[2] \in Tabs

\* An alert that has been acted on is never active again.
Gone(a) == status[a] \notin {"none", "active"}
\* No answer under way shows the alert as active.
NotComing(a, t) ==
    /\ IsAnswered(feed[t]) => a \notin ActiveIn(feed[t].fetch.data)
    /\ IsAnswered(counts) => a \notin counts.fetch.data
InboxInv ==
    /\ Types
    /\ \A r \in requests : r.answer = "ok" => r.alert \in Alerts /\ Gone(r.alert)
    /\ \A d \in done : Gone(d[1]) /\ NotComing(d[1], d[2])

\* What SWR does with an address.
LEMMA CellSteps ==
    ASSUME NEW c, IsCell(c)
    PROVE  /\ IsCell(Asking(c)) /\ ~ IsAnswered(Asking(c))
           /\ IsCell(Lost(c)) /\ ~ IsAnswered(Lost(c))
           /\ IsCell(Arrived(c)) /\ ~ IsAnswered(Arrived(c)) /\ Arrived(c).data = {c.fetch.data}
           /\ IsCell(Joining(c)) /\ (IsAnswered(Joining(c)) => Joining(c) = c)
           /\ \A d : IsCell(Reading(c, d)) /\ Reading(c, d).fetch.data = d
  <1>1. /\ Idle.stage # "answered" /\ Sent.stage # "answered"
        /\ \A d : Answered(d).data = d
    BY DEF Idle, Sent, Answered
  <1>2. /\ IsCell(Asking(c)) /\ Asking(c).fetch = Sent
        /\ IsCell(Lost(c)) /\ Lost(c).fetch = Idle
        /\ IsCell(Arrived(c)) /\ Arrived(c).fetch = Idle /\ Arrived(c).data = {c.fetch.data}
        /\ \A d : IsCell(Reading(c, d)) /\ Reading(c, d).fetch = Answered(d)
    BY DEF IsCell, Asking, Lost, Arrived, Reading
  <1> QED BY <1>1, <1>2 DEF IsAnswered, Joining

\* The list of one tab changes.
LEMMA FeedMoves ==
    ASSUME Types, NEW t \in Tabs, NEW c, IsCell(c), feed' = [feed EXCEPT ![t] = c]
    PROVE  /\ feed'[t] = c /\ DOMAIN feed' = Tabs
           /\ \A u \in Tabs : u # t => feed'[u] = feed[u]
           /\ \A u \in Tabs : IsCell(feed'[u])
  BY DEF Types

\* A list or a count that is asked for, or lost, shows nothing new.
LEMMA AsksKeep ==
    ASSUME InboxInv, UNCHANGED <<store, project, requests, done>>, tab' \in Tabs,
           \/ feed' = feed
           \/ \E t \in Tabs : \E c :
                 /\ feed' = [feed EXCEPT ![t] = c] /\ IsCell(c)
                 /\ IsAnswered(c) => c = feed[t],
           \/ counts' = counts
           \/ IsCell(counts') /\ ~ IsAnswered(counts')
    PROVE  InboxInv'
  <1>1. /\ DOMAIN feed' = Tabs
        /\ \A u \in Tabs : IsCell(feed'[u]) /\ (IsAnswered(feed'[u]) => feed'[u] = feed[u])
    <2>1. CASE feed' = feed
      BY <2>1 DEF InboxInv, Types
    <2>2. ASSUME NEW t \in Tabs, NEW c, feed' = [feed EXCEPT ![t] = c], IsCell(c),
                 IsAnswered(c) => c = feed[t]
          PROVE  /\ DOMAIN feed' = Tabs
                 /\ \A u \in Tabs : IsCell(feed'[u]) /\ (IsAnswered(feed'[u]) => feed'[u] = feed[u])
      BY <2>2, FeedMoves DEF InboxInv
    <2> QED BY <2>1, <2>2
  <1>2. IsCell(counts') /\ (IsAnswered(counts') => counts' = counts)
    BY DEF InboxInv, Types
  <1>3. Types'
    BY <1>1, <1>2 DEF InboxInv, Types, store
  <1>4. \A a : Gone(a)' = Gone(a)
    BY DEF Gone, store
  <1>5. ASSUME NEW a, NEW t \in Tabs, NotComing(a, t)
        PROVE  NotComing(a, t)'
    BY <1>1, <1>2, <1>5 DEF NotComing
  <1> QED BY <1>3, <1>4, <1>5 DEF InboxInv, Types

\* A tab that is opened, a poll, and an answer that is lost.
LEMMA PageAsks ==
    ASSUME InboxInv, (\E t \in Tabs : Open(t)) \/ PollFeed \/ PollCounts \/ FetchFails
    PROVE  InboxInv'
  <1>1. UNCHANGED <<store, project, requests, done>> /\ tab' \in Tabs
    BY DEF Open, PollFeed, PollCounts, FetchFails, InboxInv, Types
  <1>2. tab \in Tabs /\ (\A t \in Tabs : IsCell(feed[t])) /\ IsCell(counts)
    BY DEF InboxInv, Types
  <1>3. ASSUME NEW t \in Tabs, NEW c, feed' = [feed EXCEPT ![t] = c], counts' = counts,
               IsCell(c), IsAnswered(c) => c = feed[t]
        PROVE  InboxInv'
    BY <1>1, <1>3, AsksKeep
  <1>4. ASSUME feed' = feed, IsCell(counts'), ~ IsAnswered(counts')
        PROVE  InboxInv'
    BY <1>1, <1>4, AsksKeep
  <1>5. ASSUME NEW t \in Tabs, Open(t)
        PROVE  InboxInv'
    <2>1. feed' = [feed EXCEPT ![t] = Joining(feed[t])] /\ counts' = counts
      BY <1>5 DEF Open
    <2>2. IsCell(Joining(feed[t])) /\ (IsAnswered(Joining(feed[t])) => Joining(feed[t]) = feed[t])
      BY <1>2, CellSteps
    <2> QED BY <2>1, <2>2, <1>3
  <1>6. CASE PollFeed
    <2>1. feed' = [feed EXCEPT ![tab] = Asking(feed[tab])] /\ counts' = counts
      BY <1>6 DEF PollFeed
    <2>2. IsCell(Asking(feed[tab])) /\ ~ IsAnswered(Asking(feed[tab]))
      BY <1>2, CellSteps
    <2> QED BY <1>2, <2>1, <2>2, <1>3
  <1>7. CASE PollCounts
    BY <1>2, <1>4, <1>7, CellSteps DEF PollCounts
  <1>8. CASE FetchFails
    <2>1. ASSUME NEW t \in Tabs, feed' = [feed EXCEPT ![t] = Lost(@)], counts' = counts
          PROVE  InboxInv'
      <3>1. IsCell(Lost(feed[t])) /\ ~ IsAnswered(Lost(feed[t]))
        BY <1>2, CellSteps
      <3> QED BY <2>1, <3>1, <1>3
    <2>2. CASE counts' = Lost(counts) /\ feed' = feed
      BY <1>2, <1>4, <2>2, CellSteps
    <2> QED BY <1>8, <2>1, <2>2 DEF FetchFails
  <1> QED BY <1>5, <1>6, <1>7, <1>8

\* What the API reads shows no alert that has been acted on as active.
LEMMA ReadsKeep ==
    ASSUME InboxInv, (\E t \in Tabs : FeedRead(t)) \/ CountsRead
    PROVE  InboxInv'
  <1>1. UNCHANGED <<store, project, tab, requests, done>>
    BY DEF FeedRead, CountsRead
  <1>2. (\A t \in Tabs : IsCell(feed[t])) /\ IsCell(counts) /\ Types
    BY DEF InboxInv, Types
  <1>3. \A a : Gone(a)' = Gone(a)
    BY <1>1 DEF Gone, store
  <1>4. ASSUME NEW t \in Tabs, FeedRead(t)
        PROVE  InboxInv'
    <2>1. PICK c : c = Reading(feed[t], List(project, t))
      OBVIOUS
    <2>2. IsCell(c) /\ c.fetch.data = List(project, t)
      BY <1>2, <2>1, CellSteps
    <2>3. feed' = [feed EXCEPT ![t] = c] /\ counts' = counts
      BY <1>4, <2>1 DEF FeedRead
    <2>4. /\ feed'[t] = c /\ DOMAIN feed' = Tabs
          /\ \A u \in Tabs : u # t => feed'[u] = feed[u]
          /\ \A u \in Tabs : IsCell(feed'[u])
      BY <1>2, <2>2, <2>3, FeedMoves
    <2>5. Types'
      BY <1>1, <1>2, <2>3, <2>4 DEF Types, store
    <2>6. \A a : Gone(a) => a \notin ActiveIn(List(project, t))
      BY DEF Gone, ActiveIn, List
    <2>7. ASSUME NEW a, NEW u \in Tabs, NotComing(a, u), Gone(a)
          PROVE  NotComing(a, u)'
      BY <2>2, <2>3, <2>4, <2>6, <2>7 DEF NotComing
    <2> QED BY <1>1, <1>2, <1>3, <2>5, <2>7 DEF InboxInv, Types
  <1>5. CASE CountsRead
    <2>1. PICK c : c = Reading(counts, Counted(project))
      OBVIOUS
    <2>2. IsCell(c) /\ c.fetch.data = Counted(project)
      BY <1>2, <2>1, CellSteps
    <2>3. feed' = feed /\ counts' = c
      BY <1>5, <2>1 DEF CountsRead
    <2>4. Types'
      BY <1>1, <1>2, <2>2, <2>3 DEF Types, store
    <2>5. \A a : Gone(a) => a \notin Counted(project)
      BY DEF Gone, Counted
    <2>6. ASSUME NEW a, NEW u, NotComing(a, u), Gone(a)
          PROVE  NotComing(a, u)'
      BY <2>2, <2>3, <2>5, <2>6 DEF NotComing
    <2> QED BY <1>1, <1>3, <2>4, <2>6 DEF InboxInv
  <1> QED BY <1>4, <1>5

\* An answer that arrives is awaited no more.
LEMMA ArrivalsKeep ==
    ASSUME InboxInv, (\E t \in Tabs : FeedArrives(t)) \/ CountsArrive
    PROVE  InboxInv'
  <1>1. UNCHANGED <<store, project, tab, requests, done>> /\ tab \in Tabs
    BY DEF FeedArrives, CountsArrive, InboxInv, Types
  <1>2. (\A t \in Tabs : IsCell(feed[t])) /\ IsCell(counts)
    BY DEF InboxInv, Types
  <1>3. ASSUME NEW t \in Tabs, FeedArrives(t)
        PROVE  InboxInv'
    <2>1. feed' = [feed EXCEPT ![t] = Arrived(feed[t])] /\ counts' = counts
      BY <1>3 DEF FeedArrives
    <2>2. IsCell(Arrived(feed[t])) /\ ~ IsAnswered(Arrived(feed[t]))
      BY <1>2, CellSteps
    <2> QED BY <1>1, <2>1, <2>2, AsksKeep
  <1>4. CASE CountsArrive
    BY <1>1, <1>2, <1>4, CellSteps, AsksKeep DEF CountsArrive
  <1> QED BY <1>3, <1>4

\* An alert that is fired, or acted on, was not gone unless it stays so.
LEMMA StoreKeeps ==
    ASSUME InboxInv, DOMAIN status' = Alerts, \A a \in Alerts : Gone(a) => Gone(a)',
           UNCHANGED <<tab, feed, counts, done>>,
           \A r \in requests' : \/ r \in requests
                                \/ IsRequest(r) /\ (r.answer = "ok" => r.alert \in Alerts /\ Gone(r.alert)')
    PROVE  InboxInv'
  <1>1. Types'
    BY DEF InboxInv, Types
  <1>2. \A a, t : NotComing(a, t)' = NotComing(a, t)
    BY DEF NotComing
  <1> QED BY <1>1, <1>2 DEF InboxInv, Types

\* The UPDATE of a row that it finds.
LEMMA UpdateGoes ==
    ASSUME Types, NEW op \in Ops, NEW a, NEW p, Updates(op, a, p), Update(op, a)
    PROVE  /\ a \in Alerts /\ Gone(a)' /\ DOMAIN status' = Alerts
           /\ \A b \in Alerts : Gone(b) => Gone(b)'
  <1>1. a \in Alerts /\ status' = [status EXCEPT ![a] = To[op]]
    BY DEF Updates, Update, InScope
  <1>2. To[op] \notin {"none", "active"}
    BY DEF Ops, To
  <1> QED BY <1>1, <1>2 DEF Types, Gone

\* What others do, and what the page asks for.
LEMMA WorldKeeps ==
    ASSUME InboxInv,
           \/ \E a \in Alerts : Fire(a) \/ SnoozeEnds(a)
           \/ \E op \in Ops, a \in Alerts : OtherActs(op, a) \/ Click(op, a)
    PROVE  InboxInv'
  <1>0. Types
    BY DEF InboxInv
  <1>1. ASSUME NEW a \in Alerts, Fire(a)
        PROVE  InboxInv'
    <2>1. DOMAIN status' = Alerts /\ \A b \in Alerts : Gone(b) => Gone(b)'
      BY <1>0, <1>1 DEF Fire, Gone, Types
    <2> QED BY <1>1, <2>1, StoreKeeps DEF Fire
  <1>2. ASSUME NEW a \in Alerts, SnoozeEnds(a)
        PROVE  InboxInv'
    <2>1. DOMAIN status' = Alerts /\ \A b \in Alerts : Gone(b) => Gone(b)'
      BY <1>0, <1>2 DEF SnoozeEnds, Gone, Types
    <2> QED BY <1>2, <2>1, StoreKeeps DEF SnoozeEnds
  <1>3. ASSUME NEW op \in Ops, NEW a \in Alerts, OtherActs(op, a)
        PROVE  InboxInv'
    <2>1. DOMAIN status' = Alerts /\ \A b \in Alerts : Gone(b) => Gone(b)'
      BY <1>0, <1>3, UpdateGoes DEF OtherActs
    <2> QED BY <1>3, <2>1, StoreKeeps DEF OtherActs
  <1>4. ASSUME NEW op \in Ops, NEW a \in Alerts, Click(op, a)
        PROVE  InboxInv'
    <2>1. DOMAIN status' = Alerts /\ \A b \in Alerts : Gone(b) => Gone(b)'
      BY <1>0, <1>4 DEF Click, store, Gone, Types
    <2>2. PICK r : r = [id |-> events, op |-> op, alert |-> a, answer |-> "none"]
      OBVIOUS
    <2>3. IsRequest(r) /\ r.answer # "ok" /\ requests' = requests \cup {r}
      BY <1>4, <2>2 DEF Click, IsRequest
    <2> QED BY <1>4, <2>1, <2>3, StoreKeeps DEF Click
  <1> QED BY <1>1, <1>2, <1>3, <1>4

\* What the API does with a request of the page.
LEMMA ServeKeeps ==
    ASSUME InboxInv, NEW r \in requests, Serve(r) \/ Refused(r)
    PROVE  InboxInv'
  <1>0. Types /\ IsRequest(r)
    BY DEF InboxInv, Types
  <1>1. CASE Refused(r)
    <2>1. UNCHANGED <<status, tab, feed, counts, done>> /\ requests' = requests \ {r}
      BY <1>1 DEF Refused, store
    <2>2. DOMAIN status' = Alerts /\ \A b \in Alerts : Gone(b) => Gone(b)'
      BY <1>0, <2>1 DEF Gone, Types
    <2> QED BY <2>1, <2>2, StoreKeeps
  <1>2. ASSUME NEW q, NEW w, requests' = (requests \ {r}) \cup {q}, q = [r EXCEPT !.answer = w],
               UNCHANGED <<tab, feed, counts, done>>,
               DOMAIN status' = Alerts, \A b \in Alerts : Gone(b) => Gone(b)',
               w = "ok" => r.alert \in Alerts /\ Gone(r.alert)'
        PROVE  InboxInv'
    <2>1. IsRequest(q) /\ q.answer = w /\ q.alert = r.alert
      BY <1>0, <1>2 DEF IsRequest
    <2> QED BY <1>2, <2>1, StoreKeeps
  <1>3. CASE Serve(r) /\ Updates(r.op, r.alert, NoProject)
    <2>1. /\ r.alert \in Alerts /\ Gone(r.alert)' /\ DOMAIN status' = Alerts
          /\ \A b \in Alerts : Gone(b) => Gone(b)'
      BY <1>0, <1>3, UpdateGoes DEF Serve, IsRequest
    <2>2. PICK q : q = [r EXCEPT !.answer = "ok"]
      OBVIOUS
    <2>3. requests' = (requests \ {r}) \cup {q} /\ UNCHANGED <<tab, feed, counts, done>>
      BY <1>3, <2>2 DEF Serve
    <2> QED BY <2>1, <2>2, <2>3, <1>2
  <1>4. CASE Serve(r) /\ ~ Updates(r.op, r.alert, NoProject)
    <2>1. PICK q : q = [r EXCEPT !.answer = "refused"]
      OBVIOUS
    <2>2. /\ requests' = (requests \ {r}) \cup {q} /\ UNCHANGED <<tab, feed, counts, done>>
          /\ status' = status
      BY <1>4, <2>1 DEF Serve, store
    <2>3. DOMAIN status' = Alerts /\ \A b \in Alerts : Gone(b) => Gone(b)'
      BY <1>0, <2>2 DEF Gone, Types
    <2> QED BY <2>1, <2>2, <2>3, <1>2
  <1> QED BY <1>1, <1>3, <1>4

\* A change that has succeeded: no older answer is awaited any more.
LEMMA SuccessKeeps ==
    ASSUME InboxInv, NEW r \in requests, Succeeds(r)
    PROVE  InboxInv'
  <1>1. /\ r.alert \in Alerts /\ Gone(r.alert) /\ requests' = requests \ {r} /\ tab \in Tabs
        /\ feed' = [feed EXCEPT ![tab] = Asking(feed[tab])] /\ counts' = Asking(counts)
        /\ done' = done \cup {<<r.alert, tab>>} /\ UNCHANGED <<status, tab>>
    BY DEF Succeeds, InboxInv, store, Types
  <1>2. /\ IsCell(feed[tab]) /\ IsCell(counts) /\ Types
    BY <1>1 DEF InboxInv, Types
  <1>3. /\ IsCell(Asking(feed[tab])) /\ ~ IsAnswered(Asking(feed[tab]))
        /\ IsCell(counts') /\ ~ IsAnswered(counts')
    BY <1>1, <1>2, CellSteps
  <1>4. /\ feed'[tab] = Asking(feed[tab]) /\ DOMAIN feed' = Tabs
        /\ \A u \in Tabs : u # tab => feed'[u] = feed[u]
        /\ \A u \in Tabs : IsCell(feed'[u])
    BY <1>1, <1>2, <1>3, FeedMoves
  <1>5. Types'
    BY <1>1, <1>2, <1>3, <1>4 DEF Types
  <1>6. \A a : Gone(a)' = Gone(a)
    BY <1>1 DEF Gone
  <1>7. \A a : NotComing(a, tab)'
    BY <1>1, <1>3, <1>4 DEF NotComing
  <1>8. ASSUME NEW a, NEW u \in Tabs, u # tab, NotComing(a, u)
        PROVE  NotComing(a, u)'
    BY <1>3, <1>4, <1>8 DEF NotComing
  <1> QED BY <1>1, <1>5, <1>6, <1>7, <1>8 DEF InboxInv, Types

\* Every step keeps the invariant.
LEMMA InboxSteps ==
    ASSUME InboxInv, [Next]_vars
    PROVE  InboxInv'
  <1>1. CASE UNCHANGED vars
    BY <1>1 DEF vars, store, InboxInv, Types, Gone, NotComing
  <1>2. CASE (\E t \in Tabs : Open(t)) \/ PollFeed \/ PollCounts \/ FetchFails
    BY <1>2, PageAsks
  <1>3. CASE (\E t \in Tabs : FeedRead(t)) \/ CountsRead
    BY <1>3, ReadsKeep
  <1>4. CASE (\E t \in Tabs : FeedArrives(t)) \/ CountsArrive
    BY <1>4, ArrivalsKeep
  <1>5. CASE \/ \E a \in Alerts : Fire(a) \/ SnoozeEnds(a)
             \/ \E op \in Ops, a \in Alerts : OtherActs(op, a) \/ Click(op, a)
    BY <1>5, WorldKeeps
  <1>6. CASE \E r \in requests : Serve(r) \/ Succeeds(r) \/ Refused(r)
    BY <1>6, ServeKeeps, SuccessKeeps
  <1> QED BY <1>1, <1>2, <1>3, <1>4, <1>5, <1>6 DEF Next

\* Nothing has been acted on yet.
LEMMA InboxStarts == Init => InboxInv
  <1> SUFFICES ASSUME Init PROVE InboxInv
    OBVIOUS
  <1>1. /\ IsCell(Fresh) /\ IsCell(Closed)
    BY DEF IsCell, Fresh, Closed
  <1> QED BY <1>1, InboxAssumption DEF Init, InboxInv, Types

\* What the page has changed does not come back: once a change has succeeded on
\* a tab, no list that arrives for that tab and no count that arrives shows the
\* alert as active again.
THEOREM NothingComesBack == Spec => NoGhost
  <1>1. ASSUME InboxInv, NEW d \in done
        PROVE  /\ FeedArrives(d[2]) => d[1] \notin ActiveIn(Data(feed'[d[2]]))
               /\ CountsArrive => d[1] \notin Data(counts')
    <2>1. NotComing(d[1], d[2]) /\ Types /\ d[2] \in Tabs
      BY <1>1 DEF InboxInv, Types
    <2>2. ASSUME FeedArrives(d[2])
          PROVE  d[1] \notin ActiveIn(Data(feed'[d[2]]))
      <3>1. IsCell(feed[d[2]]) /\ feed' = [feed EXCEPT ![d[2]] = Arrived(feed[d[2]])]
        BY <2>1, <2>2 DEF FeedArrives, Types
      <3>2. IsCell(Arrived(feed[d[2]])) /\ Arrived(feed[d[2]]).data = {feed[d[2]].fetch.data}
        BY <3>1, CellSteps
      <3>3. feed'[d[2]] = Arrived(feed[d[2]])
        BY <2>1, <3>1, <3>2, FeedMoves
      <3>4. Data(feed'[d[2]]) = feed[d[2]].fetch.data
        BY <3>2, <3>3 DEF Data
      <3> QED BY <2>1, <2>2, <3>4 DEF NotComing, FeedArrives
    <2>3. ASSUME CountsArrive
          PROVE  d[1] \notin Data(counts')
      <3>1. Data(counts') = counts.fetch.data
        BY <2>1, <2>3, CellSteps DEF CountsArrive, Data, Types
      <3> QED BY <2>1, <2>3, <3>1 DEF NotComing, CountsArrive
    <2> QED BY <2>2, <2>3
  <1>2. InboxInv /\ [Next]_vars => InboxInv'
    BY InboxSteps
  <1>3. InboxInv /\ [Next]_vars =>
          [\A d \in done : /\ FeedArrives(d[2]) => d[1] \notin ActiveIn(Data(feed'[d[2]]))
                           /\ CountsArrive => d[1] \notin Data(counts')]_vars
    BY <1>1
  <1> QED BY <1>2, <1>3, InboxStarts, PTL DEF Spec, NoGhost
================================================================================
