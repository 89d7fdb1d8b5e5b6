------------------------------- MODULE CallGuard ------------------------------
(***************************************************************************)
(* MCPClientProxy.call_tool of sdk/client.py: the prevention checks before *)
(* a tool call (_check_prevention), the call, and the updates after it     *)
(* (_post_call_update), for tasks of several sessions on one server, with  *)
(* the in-process circuit breaker.  Neither half contains an await then,   *)
(* so each is one action; whatever other calls do happens while a call is  *)
(* in flight.  The client keeps one loop detector and one budget for each  *)
(* session in two tables of bounded size, and drops the least recently     *)
(* used entry when a new session needs one.                                *)
(***************************************************************************)
EXTENDS Integers, Sequences, FiniteSets, BreakerOps, LoopOps, BudgetOps

CONSTANTS
    Tasks,              \* asyncio tasks, one call at a time each
    Sessions,           \* session ids
    SessionOf,          \* the session each task belongs to
    Calls,              \* the calls agents make: records [tool, args]
    Idle,               \* a task without a call in flight
    BreakerOn,          \* circuit_breaker: whether the client has one
    MaxSessionState,    \* _MAX_SESSION_STATE
    HistoryLen          \* bound: how much of a session's past the history keeps

ASSUME GuardAssumption ==
    /\ SessionOf \in [Tasks -> Sessions]
    /\ Idle \notin Calls
    /\ \A c \in Calls : c = [tool |-> c.tool, args |-> c.args]
    /\ BreakerOn \in BOOLEAN
    /\ MaxSessionState \in Nat \ {0}
    /\ HistoryLen \in Nat
    /\ IsFiniteSet(Tasks)

VARIABLES
    breaker,    \* the server's CircuitBreaker
    detectors,  \* _loop_detectors: the order of use, and each session's window
    budgets,    \* _session_budgets: the order of use, and each session's budget
    calling,    \* the call each task has in flight
    \* History variables: no guard reads them.
    executed,   \* calls let through, for each session (up to StepBound)
    history,    \* the last HistoryLen completed calls of each session
    evicted,    \* sessions that have lost a table entry
    spent       \* what the session's LLM calls have cost (up to MaxCost + 1)

vars == <<breaker, detectors, budgets, calling, executed, history, evicted, spent>>

TasksOf(s) == {t \in Tasks : SessionOf[t] = s}
InFlight(s) == {t \in TasksOf(s) : calling[t] # Idle}

StepBound == MaxSteps + Cardinality(Tasks) + 1
UpTo(n, bound) == IF n < bound THEN n ELSE bound

Init ==
    /\ breaker = InitBreaker
    /\ detectors = [lru |-> <<>>, at |-> [s \in Sessions |-> <<>>]]
    /\ budgets = [lru |-> <<>>, at |-> [s \in Sessions |-> FreshBudget]]
    /\ calling = [t \in Tasks |-> Idle]
    /\ executed = [s \in Sessions |-> 0]
    /\ history = [s \in Sessions |-> <<>>]
    /\ evicted = {}
    /\ spent = [s \in Sessions |-> 0]
-----------------------------------------------------------------------------
(* The session tables.  An absent entry and a fresh one are the same state. *)

Known(table) == {table.lru[i] : i \in DOMAIN table.lru}

\* The entry that has to go before s can have one.
Dropped(table, s) ==
    IF s \notin Known(table) /\ Len(table.lru) >= MaxSessionState
    THEN {Head(table.lru)} ELSE {}

\* _get_loop_detector and _get_session_budget: the entry of s, created when it is
\* absent, after dropping the oldest one from a full table; s is now the newest.
Access(table, s, fresh) ==
    LET Stays(x) == x # s /\ x \notin Dropped(table, s)
    IN  [lru |-> Append(SelectSeq(table.lru, Stays), s),
         at  |-> [x \in Sessions |->
                    IF x \in Dropped(table, s) THEN fresh ELSE table.at[x]]]

AccessDetector(s) == IF LoopThreshold > 0 THEN Access(detectors, s, <<>>) ELSE detectors
AccessBudget(s) == IF BudgetOn THEN Access(budgets, s, FreshBudget) ELSE budgets

\* The sessions that lose an entry to these.
DropsDetector(s) == IF LoopThreshold > 0 THEN Dropped(detectors, s) ELSE {}
DropsBudget(s) == IF BudgetOn THEN Dropped(budgets, s) ELSE {}
-----------------------------------------------------------------------------
(* _check_prevention.  A call the breaker refuses changes nothing.          *)

BreakerAllows == BreakerOn => ShouldAllow(breaker)
AskBreaker == breaker' = IF BreakerOn THEN AfterShouldAllow(breaker) ELSE breaker

LoopStops(s, call) ==
    /\ LoopThreshold > 0 /\ LoopAction = "terminate"
    /\ LoopDetected(AccessDetector(s).at[s], call)

\* Refused by the loop detector: the breaker has been asked, the budget has not.
StoppedByLoop(t, call) ==
    LET s == SessionOf[t] IN
    /\ calling[t] = Idle
    /\ BreakerAllows
    /\ LoopStops(s, call)
    /\ AskBreaker
    /\ detectors' = AccessDetector(s)
    /\ UNCHANGED budgets
    /\ evicted' = evicted \cup DropsDetector(s)
    /\ UNCHANGED <<calling, executed, history, spent>>

\* The tables and the breaker after all the checks have been reached.
Checked(s, call) ==
    /\ BreakerAllows
    /\ ~LoopStops(s, call)
    /\ AskBreaker
    /\ detectors' = AccessDetector(s)

\* Refused by the budget.
StoppedByBudget(t, call) ==
    LET s == SessionOf[t] IN
    /\ calling[t] = Idle
    /\ Checked(s, call)
    /\ BudgetOn /\ Violation(AccessBudget(s).at[s])
    /\ budgets' = AccessBudget(s)
    /\ evicted' = evicted \cup DropsDetector(s) \cup DropsBudget(s)
    /\ UNCHANGED <<calling, executed, history, spent>>

\* Let through: client.call_tool is awaited.
Start(t, call) ==
    LET s == SessionOf[t] IN
    /\ calling[t] = Idle
    /\ Checked(s, call)
    /\ ~(BudgetOn /\ Violation(AccessBudget(s).at[s]))
    /\ budgets' = IF BudgetOn
                  THEN [AccessBudget(s) EXCEPT !.at[s] = CheckSoftThresholds(@)]
                  ELSE budgets
    /\ evicted' = evicted \cup DropsDetector(s) \cup DropsBudget(s)
    /\ calling' = [calling EXCEPT ![t] = call]
    /\ executed' = [executed EXCEPT ![s] = UpTo(@ + 1, StepBound)]
    /\ UNCHANGED <<history, spent>>
-----------------------------------------------------------------------------
(* _post_call_update, in the finally block of call_tool.                    *)

\* The span that call_tool records carries no token counts.
CallCost == 0

Outcomes == {"success", "error", "cancelled"}

\* The call ends.  A failure leaves an error text, or none; a cancelled call is
\* recorded as a success.
Finish(t, outcome, error) ==
    LET s      == SessionOf[t]
        record == [tool |-> calling[t].tool, args |-> calling[t].args, error |-> error]
        past   == Append(history[s], record)
    IN
    /\ calling[t] # Idle
    /\ outcome # "error" => error = NoError
    /\ breaker' = CASE ~BreakerOn -> breaker
                     [] outcome = "error" -> RecordFailure(breaker)
                     [] OTHER -> RecordSuccess(breaker)
    /\ detectors' = IF LoopThreshold > 0
                    THEN [AccessDetector(s) EXCEPT !.at[s] = RecordCall(@, record)]
                    ELSE detectors
    /\ budgets' = IF BudgetOn
                  THEN [AccessBudget(s) EXCEPT !.at[s] = RecordStepAndCost(@, CallCost)]
                  ELSE budgets
    /\ calling' = [calling EXCEPT ![t] = Idle]
    /\ history' = [history EXCEPT ![s] = IF Len(past) > HistoryLen THEN Tail(past) ELSE past]
    /\ evicted' = evicted \cup DropsDetector(s) \cup DropsBudget(s)
    /\ UNCHANGED <<executed, spent>>
-----------------------------------------------------------------------------
\* The session makes an LLM call through wrap_llm, which buffers a span with its
\* tokens and touches no budget.
LlmCall(s) ==
    /\ MaxCost > 0
    /\ spent' = [spent EXCEPT ![s] = UpTo(@ + 1, MaxCost + 1)]
    /\ UNCHANGED <<breaker, detectors, budgets, calling, executed, history, evicted>>

\* One tick of the clock, for the breaker's cooldown ...
Tick ==
    /\ breaker' = Age(breaker)
    /\ UNCHANGED <<detectors, budgets, calling, executed, history, evicted, spent>>

\* ... and the passing of a session's soft or hard wall-time limit.
WallClock(s) ==
    /\ WallLimited
    /\ s \in Known(budgets)
    /\ budgets.at[s].wall # "over"
    /\ budgets' = [budgets EXCEPT !.at[s].wall = IF @ = "fresh" THEN "late" ELSE "over"]
    /\ UNCHANGED <<breaker, detectors, calling, executed, history, evicted, spent>>

Next ==
    \/ \E t \in Tasks, call \in Calls :
         StoppedByLoop(t, call) \/ StoppedByBudget(t, call) \/ Start(t, call)
    \/ \E t \in Tasks, outcome \in Outcomes, error \in Errors \cup {NoError} :
         Finish(t, outcome, error)
    \/ \E s \in Sessions : LlmCall(s) \/ WallClock(s)
    \/ Tick

Spec == Init /\ [][Next]_vars
-----------------------------------------------------------------------------
\* A budget of MaxSteps lets at most as many more calls through as other tasks of the
\* session can have in flight when the last step is granted: the step is checked
\* before the call and counted after it.  A sequential session keeps to its limit.
StepLimit ==
    MaxSteps > 0 =>
        \A s \in Sessions :
            TasksOf(s) # {} =>
                budgets.at[s].steps + Cardinality(InFlight(s))
                    <= MaxSteps + Cardinality(TasksOf(s)) - 1

\* However it ends, by an answer, an exception or a cancellation, every call that was
\* let through is counted once; a refused call is not counted.  (A session whose entry
\* was dropped starts again from nothing.)
EveryCallCounts ==
    MaxSteps > 0 =>
        \A s \in Sessions \ evicted :
            budgets.at[s].steps + Cardinality(InFlight(s)) = executed[s]

\* The run of identical calls that a session makes is bounded: the threshold less
\* one, and one for each other task that was let through before the run was complete.
RepetitionLimit ==
    LoopThreshold > 0 /\ LoopAction = "terminate" /\ WindowSize >= LoopThreshold - 1 =>
        \A s \in Sessions \ evicted, call \in Calls, k \in 0..HistoryLen :
            LET Same(r) == Key(r) = Key(call)
            IN  TasksOf(s) # {} /\ TailAll(history[s], k, Same) =>
                  k + Cardinality({t \in TasksOf(s) : calling[t] = call})
                      <= LoopThreshold - 2 + Cardinality(TasksOf(s))

\* A session that makes one call at a time, and has kept its entries.
Sequential(s) == Cardinality(TasksOf(s)) = 1 /\ s \notin evicted

\* Such a session never completes 2 * LoopThreshold - 1 calls that alternate between
\* two, if the window is long enough to show the alternation.
NoPingPong ==
    LoopThreshold > 1 /\ LoopAction = "terminate" /\ WindowSize >= 2 * (LoopThreshold - 1) =>
        \A s \in Sessions :
            LET past == history[s]
                n    == 2 * LoopThreshold - 1
                tail == SubSeq(past, Len(past) - n + 1, Len(past))
            IN  Sequential(s) /\ Len(past) >= n =>
                  \/ Key(tail[1]) = Key(tail[2])
                  \/ \E i \in 1..(n - 2) : Key(tail[i]) # Key(tail[i + 2])

\* Nor do LoopThreshold calls in a row fail in one tool with one error.
NoRetryStorm ==
    LoopThreshold > 1 /\ LoopAction = "terminate" /\ WindowSize >= LoopThreshold - 1 =>
        \A s \in Sessions, call \in Calls, e \in Errors :
            LET Failed(r) == r.tool = call.tool /\ r.error = e
            IN  Sequential(s) => ~TailAll(history[s], LoopThreshold, Failed)

\* No loop that the detector looks for runs to its end in a sequential session.
NoLoopRuns == NoPingPong /\ NoRetryStorm

\* "max_cost_usd: hard stop on cumulative LLM + tool cost": a session that has spent
\* more than its budget starts no further call.  No LLM cost reaches the budget.
CostIsStopped ==
    [][\A s \in Sessions : spent[s] > MaxCost => executed'[s] = executed[s]]_vars
=============================================================================
