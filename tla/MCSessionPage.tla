--------------------------- MODULE MCSessionPage ------------------------------
(***************************************************************************)
(* Sessions of one and two spans of every kind below, and larger ones in   *)
(* which servers are shared, paths are busy, agents delegate in a chain or *)
(* in a circle, agents start at the same time, and a topology is declared. *)
(***************************************************************************)
EXTENDS SessionPage

MCDelegateOf == [t \in {"read", "call_b", "->"} |-> IF t = "call_b" THEN "b" ELSE ""]

Span(kind, agent, server, tool, status) ==
    [id |-> 0, kind |-> kind, agent |-> agent, server |-> server, tool |-> tool,
     target |-> "", parent |-> 0, status |-> status, at |-> 1, input |-> "x"]
Call(a, s)    == Span("tool_call", a, s, "read", "success")
Broken(a, s)  == Span("tool_call", a, s, "read", "error")
Intent(a)     == Span("llm_intent", a, "s", "call_b", "success")
Handoff(a, b) == [Span("handoff", a, "", b, "success") EXCEPT !.target = b]
Llm(a)        == Span("agent", a, "", "generate", "success")
LlmFailed(a)  == Span("agent", a, "", "generate", "error")
\* A tool call whose parent is the span before it.
Child(a, s)   == [Span("tool_call", a, s, "call_b", "success") EXCEPT !.parent = 1]

\* Spans in the order they start, each with its own identity.
Numbered(spans) ==
    [i \in DOMAIN spans |-> [spans[i] EXCEPT !.id = i, !.at = i,
                                !.parent = IF spans[i].parent = 1 THEN i - 1 ELSE 0]]
Trace(spans) == [topology |-> NoId, spans |-> Numbered(spans)]
\* The same, all of them at one time.
AtOnce(spans) ==
    [topology |-> NoId, spans |-> [i \in DOMAIN spans |-> [Numbered(spans)[i] EXCEPT !.at = 1]]]

Kinds == {Call("a", "s"), Broken("b", "s"), Call("", "s"), Intent("a"), Handoff("a", "b"),
          Handoff("", "a"), Llm("b"), LlmFailed("a"), Child("b", "t")}
Small == {Trace(<<k>>) : k \in Kinds} \cup {Trace(<<k, l>>) : k \in Kinds, l \in Kinds}

Steps == [nodes |-> {"__start__", "a", "b", "__end__"},
          edges |-> {<<"__start__", "a">>, <<"b", "__end__">>},
          conditional |-> {<<"a", "b">>, <<"a", "__end__">>}]
Unnamed == [nodes |-> {"__start__", "__end__"}, edges |-> {}, conditional |-> {}]
Large ==
    {Trace(<<Call("a", "s"), Broken("a", "s"), Call("b", "s"), Call("b", "s")>>),
     Trace(<<Call("a", "s"), Call("a", "s"), Broken("b", "s"), Call("a", "t")>>),
     Trace(<<Call("a", "s"), Intent("a"), Call("b", "s"), Handoff("b", "c")>>),
     Trace(<<Call("a", "s"), Call("", "s"), Call("", "s")>>),
     Trace(<<Handoff("a", "b"), Handoff("b", "a"), Call("c", "s")>>),
     Trace(<<Call("a", "s"), Broken("b", "t"), Call("c", "s")>>),
     Trace(<<Llm("a"), Child("b", "s"), Call("b", "s"), Call("c", "s")>>),
     Trace(<<Call("c", "s"), Handoff("", "a"), Broken("", "s"), Call("", "s")>>),
     AtOnce(<<Call("a", "s"), Call("b", "s"), Handoff("b", "c"), Call("c", "t")>>),
     AtOnce(<<Call("b", "s"), Intent("a"), Broken("a", "s")>>),
     [Trace(<<Call("a", "s"), Call("b", "s")>>) EXCEPT !.topology = Steps],
     [Trace(<<Call("a", "s"), Call("b", "s")>>) EXCEPT !.topology = Unnamed],
     [Trace(<<[Call("a", "s") EXCEPT !.kind = "node"], Broken("b", "t")>>)
        EXCEPT !.topology = Steps]}
MCTraces == Small \cup Large
=============================================================================
