------------------------------- MODULE CostPage --------------------------------
(***************************************************************************)
(* What the traced calls of a project cost: the API groups and prices them *)
(* (get_costs_breakdown in src/src/langsight/api/routers/costs.py,         *)
(* aggregate_cost_rows in costs/engine.py), and the page shows cards and   *)
(* tables of the answer under filters of its own (CostsPage in             *)
(* src/dashboard/app/(dashboard)/costs/page.tsx).                          *)
(*                                                                         *)
(* A token of a priced model costs one unit, and so does a call that is    *)
(* not priced by tokens.  Left out: the prices themselves and the cache of *)
(* them, rounding, a storage that counts no costs, and sorting.            *)
(***************************************************************************)
EXTENDS Naturals, FiniteSets, FiniteSetsExt, Functions, Fetching

CONSTANTS
    Ledger,         \* [server, tool, agent, session, model, counted, tokens, project, age]
    Unset,          \* a name that a call does not carry
    Priced,         \* models with a price
    Periods,        \* windows of time that can be chosen, in hours; 24 at first
    Payers,         \* projects
    TopSessions,    \* as many sessions the API answers with
    MaxPicks        \* bound: clicks

\* The page opens with one of its windows, of some project; tokens are counted.
ASSUME CostAssumption == 24 \in Periods /\ Payers # {} /\ \A c \in Ledger : c.tokens \in Nat

CostCells == Payers \X Periods
Kinds     == {"server", "agent", "model", "type"}
NoFilters == [k \in Kinds |-> {}]

VARIABLES
    traced,         \* the calls the storage has
    payer, hours,   \* what is looked at
    filters,
    costs,          \* what the page holds of each project and window
    unreachable,    \* those whose last request failed
    picks

costVars == <<traced, payer, hours, filters, costs, unreachable, picks>>

-----------------------------------------------------------------------------
\* The answer of the API

SumOf(S, Weight(_)) == SumFunction([x \in S |-> Weight(x)])
Traced(cell) == {c \in traced : c.project = cell[1] /\ c.age <= cell[2]}
Groups(S, Key(_)) == {{d \in S : Key(d) = Key(c)} : c \in S}
CostRows(S) == Groups(S, LAMBDA c : <<c.server, c.tool, c.agent, c.session, c.model>>)
Of(row) == CHOOSE c \in row : TRUE      \* what is the same for all calls of a row
Tokens(row) == SumOf(row, LAMBDA c : c.tokens)
\* Counts that are not there are no part of a sum, unless all are missing.
ByToken(row) == Of(row).model \in Priced /\ \E c \in row : c.counted
CostOf(row) == IF ByToken(row) THEN Tokens(row) ELSE Cardinality(row)
TotalCost(rows) == SumOf(rows, CostOf)
TotalCalls(rows) == SumOf(rows, Cardinality)

\* One entry for each tool; its type and its model are those of its first
\* row, one with the most calls.  The tokens are multiplied by the calls.
ToolOf(row) == <<Of(row).server, Of(row).tool>>
Firsts(rows) == {r \in rows : \A q \in rows : Cardinality(q) <= Cardinality(r)}
ToolEntry(rows, first) ==
    [ server |-> Of(first).server, tool |-> Of(first).tool,
      type  |-> IF ByToken(first) THEN "token_based" ELSE "call_based",
      model |-> IF ByToken(first) THEN Of(first).model ELSE Unset,
      calls |-> TotalCalls(rows), cost |-> TotalCost(rows),
      tokens |-> SumOf({r \in rows : ByToken(r)}, LAMBDA r : Tokens(r) * Cardinality(r)) ]
ToolEntries(rows, leads) ==
    {ToolEntry({r \in rows : ToolOf(r) = ToolOf(f)}, f) : f \in leads}
\* The calls of no agent are those of an agent "unknown".
AgentEntry(a, rows) == [agent |-> a, calls |-> TotalCalls(rows), cost |-> TotalCost(rows)]
AgentEntriesNamed(rows) ==  \* Mutant: only the calls of some agent are counted.
    {AgentEntry(Of(r).agent, {q \in rows : Of(q).agent = Of(r).agent}) :
        r \in {q \in rows : Of(q).agent # Unset}}
AgentEntries(rows) ==
    {AgentEntry(Of(r).agent, {q \in rows : Of(q).agent = Of(r).agent}) : r \in rows}
SessionEntries(rows) ==
    {[session |-> Of(r).session, agent |-> Of(r).agent,
      cost |-> TotalCost({q \in rows : Of(q).session = Of(r).session /\ Of(q).agent = Of(r).agent})] :
        r \in {q \in rows : Of(q).session # Unset}}
\* The most expensive of them.
Tops(entries) ==
    IF Cardinality(entries) <= TopSessions THEN {entries}
    ELSE {top \in kSubset(TopSessions, entries) :
             \A e \in top, f \in entries \ top : e.cost >= f.cost}
Breakdowns(S) ==
    LET rows  == CostRows(S)
        leads == {L \in SUBSET rows :
                    \A r \in rows : \E f \in Firsts({q \in rows : ToolOf(q) = ToolOf(r)}) :
                        {q \in L : ToolOf(q) = ToolOf(r)} = {f}}
    IN  {[tools |-> ToolEntries(rows, L), agents |-> AgentEntries(rows), sessions |-> top,
          cost |-> TotalCost(rows), calls |-> TotalCalls(rows)] :
             L \in leads, top \in Tops(SessionEntries(rows))}

-----------------------------------------------------------------------------
\* What the page shows

CostView == <<payer, hours>>
ShowsCosts == CostView \notin unreachable /\ Loaded(costs[CostView])
              /\ Data(costs[CostView]).tools # {}
Answer == Data(costs[CostView])
Passes(kind, value) == filters[kind] = {} \/ value \in filters[kind]
FilteredTools == {e \in Answer.tools :
    Passes("server", e.server) /\ Passes("model", e.model) /\ Passes("type", e.type)}
FilteredAgents == {e \in Answer.agents : Passes("agent", e.agent)}
\* A session of no agent is none of the agent "unknown".
FilteredSessions == {e \in Answer.sessions :
    filters["agent"] = {} \/ e.agent \in filters["agent"] \ {Unset}}
HasFilters == filters # NoFilters
EntryCost(e)  == e.cost
EntryCalls(e) == e.calls
TotalShown == IF HasFilters THEN SumOf(FilteredTools, EntryCost)  ELSE Answer.cost
CallsShown == IF HasFilters THEN SumOf(FilteredTools, EntryCalls) ELSE Answer.calls
TypeShown(type) == SumOf({e \in FilteredTools : e.type = type}, EntryCost)
TokensShown == SumOf(FilteredTools, LAMBDA e : e.tokens)
\* The menu of models is there when some entry has one.
Offered(kind) ==
    CASE kind = "server" -> {e.server : e \in Answer.tools}
      [] kind = "agent"  -> {e.agent : e \in Answer.agents}
      [] kind = "model"  -> {e.model : e \in Answer.tools} \ {Unset}
      [] kind = "type"   -> {"token_based", "call_based"}

-----------------------------------------------------------------------------
CostInit ==
    /\ traced = {}
    /\ payer \in Payers /\ hours = 24
    /\ filters = NoFilters
    /\ costs = [c \in CostCells |-> IF c = CostView THEN Fresh ELSE Closed]
    /\ unreachable = {}
    /\ picks = 0

Picks == picks < MaxPicks /\ picks' = picks + 1
\* The filters stay when the window or the project changes.
LookAt(p, h) ==
    /\ <<p, h>> # CostView /\ Picks
    /\ payer' = p /\ hours' = h
    /\ costs' = [costs EXCEPT ![<<p, h>>] = Joining(@)]
    /\ UNCHANGED <<traced, filters, unreachable>>
Filters(new) == filters' = new /\ UNCHANGED <<traced, payer, hours, costs, unreachable>>
ToggleFilter(kind, value) ==
    /\ ShowsCosts /\ value \in Offered(kind) /\ Picks
    /\ Filters([filters EXCEPT ![kind] = SymDiff(@, {value})])
ClearPill(kind) == ShowsCosts /\ filters[kind] # {} /\ Picks
                   /\ Filters([filters EXCEPT ![kind] = {}])
ClearAll == ShowsCosts /\ HasFilters /\ Picks /\ Filters(NoFilters)
\* A click on a row of the table of tools: its server, and then its model.
ClickTool(e) ==
    /\ ShowsCosts /\ e \in FilteredTools /\ Picks
    /\ \/ filters["server"] = {} /\ Filters([filters EXCEPT !["server"] = {e.server}])
       \/ /\ filters["server"] # {} /\ filters["model"] = {} /\ e.model # Unset
          /\ Filters([filters EXCEPT !["model"] = {e.model}])

CostKept == UNCHANGED <<traced, payer, hours, filters, picks>>
PollCosts ==
    /\ Quiet(costs[CostView])
    /\ costs' = [costs EXCEPT ![CostView] = Asking(@)]
    /\ CostKept /\ UNCHANGED unreachable
CostsRead(c) ==
    /\ IsSent(costs[c])
    /\ \E d \in Breakdowns(Traced(c)) : costs' = [costs EXCEPT ![c] = Reading(@, d)]
    /\ CostKept /\ UNCHANGED unreachable
CostsArrive(c) ==
    /\ IsAnswered(costs[c])
    /\ costs' = [costs EXCEPT ![c] = Arrived(@)]
    /\ unreachable' = unreachable \ {c}
    /\ CostKept
CostsFail(c) ==
    /\ ~Quiet(costs[c])
    /\ costs' = [costs EXCEPT ![c] = Lost(@)]
    /\ unreachable' = unreachable \cup {c}
    /\ CostKept
CallTraced(c) ==
    /\ c \notin traced
    /\ traced' = traced \cup {c}
    /\ UNCHANGED <<payer, hours, filters, costs, unreachable, picks>>

CostNext ==
    \/ \E p \in Payers, h \in Periods : LookAt(p, h)
    \/ \E k \in Kinds : ClearPill(k) \/ \E v \in UNION {{c.server, c.agent, c.model} : c \in Ledger}
                                        \cup {"token_based", "call_based"} : ToggleFilter(k, v)
    \/ ClearAll
    \/ ShowsCosts /\ \E e \in FilteredTools : ClickTool(e)
    \/ PollCosts \/ \E c \in CostCells : CostsRead(c) \/ CostsArrive(c) \/ CostsFail(c)
    \/ \E c \in Ledger : CallTraced(c)

-----------------------------------------------------------------------------
\* The cards and the tables are of one sum.  The costs by model tokens and by
\* call make up the total that is shown, filters or not; and the table of
\* agents, while no agent is picked, makes up the total of the API, which is
\* that of the tools: no call is counted for a tool and not for an agent.
CostsAddUp ==
    ShowsCosts =>
        /\ TypeShown("token_based") + TypeShown("call_based") = TotalShown
        /\ filters["agent"] = {} =>
              /\ SumOf(FilteredAgents, EntryCost) = Answer.cost
              /\ SumOf(FilteredAgents, EntryCalls) = Answer.calls
        /\ SumOf(FilteredSessions, EntryCost) <= Answer.cost
=============================================================================
