------------------------------- MODULE SpanTree --------------------------------
(***************************************************************************)
(* The Trace tab of a session's page: the API answers with the session's   *)
(* spans, and with the same spans as a tree (get_session and _build_tree   *)
(* in src/src/langsight/api/routers/agents.py); the page shows the tree as *)
(* rows that open and close, and counts the spans in several places        *)
(* (SpanTree, SessionHeader, SessionMetrics and PayloadSlideout in         *)
(* src/dashboard/components).                                              *)
(*                                                                         *)
(* Spans are stored one by one, a child before its parent or after it, and *)
(* a span whose POST is sent again is stored again: the table keeps both.  *)
(* A client sends no cycle of parents, and no parent without a trace of    *)
(* calls: spans of a topology or of a session's prompt have no children.   *)
(*                                                                         *)
(* Left out: the limit of 10000 spans, payloads as text, the view and the  *)
(* tabs of the slideout, and the session's summary from the list.          *)
(***************************************************************************)
EXTENDS Naturals, FiniteSets, FiniteSetsExt, Functions

CONSTANTS
    Spans,          \* [id, parent, kind, tool, status, tokens, model, payload] of a session
    NoParent,
    Resent,         \* bound: spans whose POST may be sent again
    MaxFetches,     \* bound: requests for the trace
    MaxToggles      \* bound: clicks

Ids == {s.id : s \in Spans}
SpanOf(i) == CHOOSE s \in Spans : s.id = i
IsHidden(s) == s.kind = "topology" \/ s.tool = "session"

\* What clients send: an id of its own for each span, no cycle of parents, and spans
\* of a topology or of a session's prompt that are no calls, succeed, count no tokens
\* and stand alone.
ASSUME TreeAssumption ==
    /\ IsFiniteSet(Spans)
    /\ \A s \in Spans : s.tokens \in Nat
    /\ \A s, q \in Spans : s.id = q.id => s = q
    /\ \A S \in SUBSET Ids : S # {} => \E i \in S : SpanOf(i).parent \notin S
    /\ \A s \in Spans : IsHidden(s) =>
          /\ s.parent \notin Ids /\ \A q \in Spans : q.parent # s.id
          /\ s.kind \in {"topology", "agent"} /\ s.status = "success" /\ s.tokens = 0

NoSpans == [s \in Spans |-> 0]
NoPayload == "no payload"

VARIABLES
    storage,        \* copies of each span in the storage
    answers,        \* answers under way: what was read
    fetches,
    shown,          \* the trace of the page, or NoSpans
    failed,         \* the last answer was a failure
    traceTab,       \* the Trace tab is open, and not Details
    closed, details,    \* rows that are collapsed, and those with their payload open
    payload,        \* the span of the slideout
    toggles

treeVars == <<storage, answers, fetches, shown, failed, traceTab, closed, details, payload, toggles>>
rowState == <<closed, details>>

-----------------------------------------------------------------------------
\* The tree of a trace.  Equal spans are one node of it.

In(t) == {i \in Ids : t[SpanOf(i)] > 0}
RootsKnown(t) ==            \* Mutant: a span whose parent is not there has no place.
    {i \in In(t) : SpanOf(i).parent = NoParent}
Roots(t) == {i \in In(t) : SpanOf(i).parent \notin In(t)}
Children(t, i) == {j \in In(t) : SpanOf(j).parent = i}
\* The rows are the roots that are not hidden and what is below a row that is
\* open; Open are those that are not collapsed.
Hidden(i) == IsHidden(SpanOf(i))
RowsAmong(t, Open) ==
    LET roots == {i \in Roots(t) : ~Hidden(i)}
        below == [i \in In(t) |-> Children(t, i)]
        whole == {S \in SUBSET In(t) : roots \subseteq S /\ \A i \in S \cap Open : below[i] \subseteq S}
    IN  {i \in In(t) : \A S \in whole : i \in S}
Rows == RowsAmong(shown, Ids \ closed)
Below(i) == RowsAmong(shown, Ids) \ RowsAmong(shown, Ids \ {i})

\* The counts are of the copies.
Copies(t, S) == SumFunctionOnSet(t, S)
TabCount(t)    == Copies(t, {s \in Spans : ~Hidden(s.id)})
IsCall(s) == s.kind \in {"tool_call", "node"}
ToolCalls(t)   == Copies(t, {s \in Spans : IsCall(s)})
FailedCalls(t) == Copies(t, {s \in Spans : IsCall(s) /\ s.status # "success"})
Errors(t)      == Copies(t, {s \in Spans : s.status = "error"})
TokensIn(t, S) == SumFunctionOnSet([s \in Spans |-> t[s] * s.tokens], S)
TokenSum(t)    == TokensIn(t, Spans)
ModelTokens(t) == TokensIn(t, {s \in Spans : s.model})

-----------------------------------------------------------------------------
TreeInit ==
    /\ storage = NoSpans /\ answers = {} /\ fetches = 0
    /\ shown = NoSpans /\ failed = FALSE /\ traceTab = FALSE
    /\ closed = {} /\ details = {} /\ payload = NoPayload
    /\ toggles = 0

Store(s) ==
    /\ storage[s] < (IF s \in Resent THEN 2 ELSE 1)
    /\ storage' = [storage EXCEPT ![s] = @ + 1]
    /\ UNCHANGED <<answers, fetches, shown, failed, traceTab, rowState, payload, toggles>>

\* The page opens, or the project changes: the trace is dropped and asked for
\* anew, and the rows with it; the slideout stays.
FetchTrace ==
    /\ fetches < MaxFetches /\ fetches' = fetches + 1
    /\ answers' = answers \cup {[number |-> fetches, read |-> FALSE, trace |-> NoSpans]}
    /\ shown' = NoSpans /\ failed' = FALSE
    /\ closed' = {} /\ details' = {}
    /\ UNCHANGED <<storage, traceTab, payload, toggles>>
TraceRead(a) ==
    /\ ~a.read
    /\ answers' = (answers \ {a}) \cup {[a EXCEPT !.read = TRUE, !.trace = storage]}
    /\ UNCHANGED <<storage, fetches, shown, failed, traceTab, rowState, payload, toggles>>
\* A session with no span yet is not found.  When an answer replaces another,
\* rows keep their state; but those that got their parent only now, and those
\* below them, are made anew.
Moved(t) == {i \in In(shown) : SpanOf(i).parent \in In(t) \ In(shown)}
Keep(t, S) == (S \cap RowsAmong(t, Ids \ closed)) \ (Moved(t) \cup UNION {Below(i) : i \in Moved(t)})
TraceShown(a) ==
    /\ a.read /\ a.trace # NoSpans
    /\ answers' = answers \ {a}
    /\ shown' = a.trace
    /\ closed' = Keep(a.trace, closed)
    /\ details' = Keep(a.trace, details)
    /\ UNCHANGED <<storage, fetches, failed, traceTab, payload, toggles>>
TraceFails(a) ==
    /\ a.read => a.trace = NoSpans
    /\ answers' = answers \ {a}
    /\ failed' = TRUE
    /\ UNCHANGED <<storage, fetches, shown, traceTab, rowState, payload, toggles>>

TreeClick == toggles < MaxToggles /\ toggles' = toggles + 1
             /\ UNCHANGED <<storage, answers, fetches, shown, failed>>
ShowsRows == traceTab /\ shown # NoSpans /\ ~failed
OpenTraceTab(yes) ==
    /\ yes # traceTab /\ TreeClick
    /\ traceTab' = yes /\ closed' = {} /\ details' = {}
    /\ UNCHANGED payload
\* The rows below one that is collapsed are gone, with what was open of them.
ToggleRow(i) ==
    /\ ShowsRows /\ i \in Rows /\ Children(shown, i) # {} /\ TreeClick
    /\ closed'  = IF i \in closed THEN closed \ {i} ELSE (closed \ Below(i)) \cup {i}
    /\ details' = IF i \in closed THEN details ELSE details \ Below(i)
    /\ UNCHANGED <<traceTab, payload>>
ToggleDetail(i) ==
    /\ ShowsRows /\ i \in Rows /\ SpanOf(i).payload /\ payload = NoPayload /\ TreeClick
    /\ details' = SymDiff(details, {i})
    /\ UNCHANGED <<traceTab, closed, payload>>
ViewFull(i) ==
    /\ ShowsRows /\ i \in Rows \cap details /\ payload = NoPayload /\ TreeClick
    /\ payload' = i
    /\ UNCHANGED <<traceTab, rowState>>
CloseSlideout ==
    /\ payload # NoPayload /\ TreeClick
    /\ payload' = NoPayload
    /\ UNCHANGED <<traceTab, rowState>>

TreeNext ==
    \/ \E s \in Spans : Store(s)
    \/ FetchTrace \/ \E a \in answers : TraceRead(a) \/ TraceShown(a) \/ TraceFails(a)
    \/ \E yes \in BOOLEAN : OpenTraceTab(yes)
    \/ \E i \in Ids : ToggleRow(i) \/ ToggleDetail(i) \/ ViewFull(i)
    \/ CloseSlideout

-----------------------------------------------------------------------------
\* "Return all spans for a session as a flat list and reconstructed tree": of
\* the spans that the tab counts, each is a row, or below a row that is
\* collapsed, whichever of them had been stored when the trace was read; and
\* what the header and the metrics count, calls, failures, errors and tokens, is
\* found in the rows, as long as no span was stored twice.  The tokens of the
\* metrics, those of spans that name a model, are those of the tab, stored twice
\* or not, if every span with tokens names one.
TreeIsWhole ==
    ShowsRows =>
        /\ {i \in In(shown) : ~Hidden(i)} = Rows \cup UNION {Below(i) : i \in closed}
        /\ closed \cup details \subseteq Rows
        /\ ModelTokens(shown) <= TokenSum(shown)
        /\ (\A s \in Spans : shown[s] > 0 /\ s.tokens > 0 => s.model) =>
              ModelTokens(shown) = TokenSum(shown)
        /\ (\A s \in Spans : shown[s] <= 1) =>
             LET all == {SpanOf(i) : i \in RowsAmong(shown, Ids)}
             IN  /\ TabCount(shown) = Cardinality(all)
                 /\ ToolCalls(shown) = Cardinality({s \in all : IsCall(s)})
                 /\ FailedCalls(shown) = Cardinality({s \in all : IsCall(s) /\ s.status # "success"})
                 /\ Errors(shown) = Cardinality({s \in all : s.status = "error"})
                 /\ TokenSum(shown) = SumFunction([s \in all |-> s.tokens])
=============================================================================
