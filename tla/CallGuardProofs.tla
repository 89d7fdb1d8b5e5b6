---------------------------- MODULE CallGuardProofs ---------------------------
(***************************************************************************)
(* What the guard promises of a session, for every set of tasks, every     *)
(* table size and every configuration: how far it can exceed its step      *)
(* limit, that each call that was let through is counted once, and how far *)
(* the loops that the detector looks for can run.                          *)
(***************************************************************************)
EXTENDS CallGuard, FiniteSetTheorems, WellFoundedInduction, TLAPS

\* What the argument needs to know of the state, beside the limit itself.
Shape ==
    /\ budgets.at \in [Sessions -> Budget]
    /\ calling \in [Tasks -> Calls \cup {Idle}]

IInv == Shape /\ StepLimit

-----------------------------------------------------------------------------
(* The operators of BudgetOps and the session tables.                      *)

\* The methods of SessionBudget leave a SessionBudget; only record_step_and_cost
\* counts a step.
LEMMA BudgetMethods ==
    ASSUME NEW b \in Budget
    PROVE  /\ FreshBudget \in Budget /\ FreshBudget.steps = 0
           /\ CheckSoftThresholds(b) \in Budget
           /\ CheckSoftThresholds(b).steps = b.steps
           /\ RecordStepAndCost(b, CallCost) \in Budget
           /\ RecordStepAndCost(b, CallCost).steps = b.steps + 1
  <1>1. FreshBudget \in Budget /\ FreshBudget.steps = 0
    BY DEF FreshBudget, Budget
  <1>2. SoftReached(b) \subseteq Limits
    BY DEF SoftReached
  <1>3. b.softWarned \cup SoftReached(b) \in SUBSET Limits
    BY <1>2 DEF Budget
  <1>4. CheckSoftThresholds(b) \in Budget /\ CheckSoftThresholds(b).steps = b.steps
    BY <1>3 DEF CheckSoftThresholds, Budget
  <1>5. /\ b.steps + 1 \in Nat /\ b.cost + CallCost \in Nat
        /\ (b.costExceeded \/ (MaxCost > 0 /\ b.cost + CallCost > MaxCost)) \in BOOLEAN
    BY DEF Budget, CallCost
  <1>6. /\ RecordStepAndCost(b, CallCost) \in Budget
        /\ RecordStepAndCost(b, CallCost).steps = b.steps + 1
    BY <1>5 DEF RecordStepAndCost, Budget
  <1> QED BY <1>1, <1>4, <1>6

\* Looking up a session's budget leaves every session the budget it had or a fresh
\* one.
LEMMA AccessBudgetAt ==
    ASSUME Shape, NEW s \in Sessions
    PROVE  /\ AccessBudget(s).at \in [Sessions -> Budget]
           /\ \A x \in Sessions : AccessBudget(s).at[x].steps <= budgets.at[x].steps
  <1>1. CASE ~BudgetOn
    <2>1. AccessBudget(s) = budgets
      BY <1>1 DEF AccessBudget
    <2>2. \A x \in Sessions : budgets.at[x].steps \in Nat
      BY DEF Shape, Budget
    <2> QED BY <2>1, <2>2 DEF Shape
  <1>2. CASE BudgetOn
    <2>1. AccessBudget(s).at
            = [x \in Sessions |-> IF x \in Dropped(budgets, s) THEN FreshBudget
                                                               ELSE budgets.at[x]]
      BY <1>2 DEF AccessBudget, Access
    <2>2. \A x \in Sessions : budgets.at[x] \in Budget /\ budgets.at[x].steps \in Nat
      BY DEF Shape, Budget
    <2>3. FreshBudget \in Budget /\ FreshBudget.steps = 0
      BY DEF FreshBudget, Budget
    <2> QED BY <2>1, <2>2, <2>3
  <1> QED BY <1>1, <1>2
-----------------------------------------------------------------------------
(* The calls in flight.                                                    *)

\* A session has no more calls in flight than tasks, and both are finite.
LEMMA InFlightBound ==
    ASSUME NEW s \in Sessions
    PROVE  /\ IsFiniteSet(InFlight(s)) /\ IsFiniteSet(InFlight(s)')
           /\ Cardinality(InFlight(s)) \in Nat /\ Cardinality(InFlight(s)') \in Nat
           /\ Cardinality(TasksOf(s)) \in Nat
           /\ Cardinality(InFlight(s)') <= Cardinality(TasksOf(s))
  <1>1. IsFiniteSet(TasksOf(s))
    <2>1. TasksOf(s) \subseteq Tasks
      BY DEF TasksOf
    <2> QED BY <2>1, GuardAssumption, FS_Subset
  <1>2. InFlight(s) \subseteq TasksOf(s) /\ InFlight(s)' \subseteq TasksOf(s)
    BY DEF InFlight, TasksOf
  <1>3. IsFiniteSet(InFlight(s)) /\ IsFiniteSet(InFlight(s)')
    BY <1>1, <1>2, FS_Subset
  <1>4. Cardinality(InFlight(s)') <= Cardinality(TasksOf(s))
    BY <1>1, <1>2, FS_Subset
  <1>5. /\ Cardinality(InFlight(s)) \in Nat /\ Cardinality(InFlight(s)') \in Nat
        /\ Cardinality(TasksOf(s)) \in Nat
    BY <1>1, <1>3, FS_CardinalityType
  <1> QED BY <1>3, <1>4, <1>5

\* A call that ends is one call less in flight.
LEMMA FinishedCall ==
    ASSUME Shape, NEW t \in Tasks, calling[t] # Idle,
           calling' = [calling EXCEPT ![t] = Idle],
           NEW s \in Sessions, s = SessionOf[t]
    PROVE  Cardinality(InFlight(s)') = Cardinality(InFlight(s)) - 1
  <1>1. t \in InFlight(s)
    BY DEF InFlight, TasksOf
  <1>2. InFlight(s)' = InFlight(s) \ {t}
    BY DEF InFlight, TasksOf, Shape
  <1> QED BY <1>1, <1>2, InFlightBound, FS_RemoveElement

\* A step that starts and ends no call and counts no step keeps the limit.
LEMMA NothingCounted ==
    ASSUME IInv, calling' = calling,
           budgets.at' \in [Sessions -> Budget],
           \A x \in Sessions : budgets.at'[x].steps <= budgets.at[x].steps
    PROVE  IInv'
  <1>1. Shape'
    BY DEF IInv, Shape
  <1>2. StepLimit'
    <2>1. SUFFICES ASSUME MaxSteps > 0, NEW s \in Sessions, TasksOf(s) # {}
                   PROVE  budgets.at'[s].steps + Cardinality(InFlight(s)')
                            <= MaxSteps + Cardinality(TasksOf(s)) - 1
      BY DEF StepLimit, TasksOf
    <2>2. InFlight(s)' = InFlight(s)
      BY DEF InFlight
    <2>3. budgets.at[s].steps + Cardinality(InFlight(s))
            <= MaxSteps + Cardinality(TasksOf(s)) - 1
      BY <2>1 DEF IInv, StepLimit
    <2>4. /\ budgets.at[s].steps \in Nat /\ budgets.at'[s].steps \in Nat
          /\ budgets.at'[s].steps <= budgets.at[s].steps
      BY DEF IInv, Shape, Budget
    <2> QED BY <2>2, <2>3, <2>4, InFlightBound, BudgetAssumption
  <1> QED BY <1>1, <1>2 DEF IInv

-----------------------------------------------------------------------------
(* The actions.                                                            *)

\* A call that is let through finds a step left.
LEMMA StartIInv ==
    ASSUME IInv, NEW t \in Tasks, NEW call \in Calls, Start(t, call)
    PROVE  IInv'
  <1> DEFINE s == SessionOf[t]
             old == AccessBudget(s).at
  <1>1. s \in Sessions
    BY GuardAssumption
  <1>2. /\ old \in [Sessions -> Budget]
        /\ \A x \in Sessions : old[x].steps <= budgets.at[x].steps
    BY <1>1, AccessBudgetAt DEF IInv
  <1>3. calling' = [calling EXCEPT ![t] = call]
    BY DEF Start
  <1>4. /\ budgets'.at \in [Sessions -> Budget]
        /\ \A x \in Sessions : budgets'.at[x].steps = old[x].steps
    <2>1. CASE ~BudgetOn
      <3>1. budgets' = budgets /\ AccessBudget(s) = budgets
        BY <2>1 DEF Start, AccessBudget
      <3> QED BY <3>1, <1>2
    <2>2. CASE BudgetOn
      <3>1. budgets' = [AccessBudget(s) EXCEPT !.at[s] = CheckSoftThresholds(@)]
        BY <2>2 DEF Start
      <3>2. AccessBudget(s) = [lru |-> AccessBudget(s).lru, at |-> old]
        BY <2>2 DEF AccessBudget, Access
      <3>3. budgets'.at = [old EXCEPT ![s] = CheckSoftThresholds(@)]
        BY <3>1, <3>2
      <3>4. /\ CheckSoftThresholds(old[s]) \in Budget
            /\ CheckSoftThresholds(old[s]).steps = old[s].steps
        BY <1>1, <1>2, BudgetMethods
      <3> QED BY <1>1, <1>2, <3>3, <3>4
    <2> QED BY <2>1, <2>2
  <1>5. Shape'
    BY <1>3, <1>4 DEF IInv, Shape
  <1>6. StepLimit'
    <2>1. SUFFICES ASSUME MaxSteps > 0, NEW x \in Sessions, TasksOf(x) # {}
                   PROVE  budgets'.at[x].steps + Cardinality(InFlight(x)')
                            <= MaxSteps + Cardinality(TasksOf(x)) - 1
      BY DEF StepLimit, TasksOf
    <2>2. budgets.at[x].steps \in Nat /\ budgets'.at[x].steps \in Nat
      BY <1>4 DEF IInv, Shape, Budget
    <2>3. CASE x = s
      <3>1. ~Violation(old[s])
        BY <2>1 DEF Start, BudgetOn
      <3>2. old[s].steps + 1 <= MaxSteps
        <4>1. old[s].steps \in Nat
          BY <1>1, <1>2 DEF Budget
        <4> QED BY <3>1, <4>1, <2>1, BudgetAssumption DEF Violation
      <3> QED BY <1>4, <2>2, <2>3, <3>2, InFlightBound, BudgetAssumption
    <2>4. CASE x # s
      <3>1. InFlight(x)' = InFlight(x)
        BY <1>3, <2>4 DEF InFlight, TasksOf, IInv, Shape
      <3>2. budgets.at[x].steps + Cardinality(InFlight(x))
              <= MaxSteps + Cardinality(TasksOf(x)) - 1
        BY <2>1 DEF IInv, StepLimit
      <3>3. budgets'.at[x].steps <= budgets.at[x].steps
        BY <1>2, <1>4
      <3> QED BY <2>2, <3>1, <3>2, <3>3, InFlightBound, BudgetAssumption
    <2> QED BY <2>3, <2>4
  <1> QED BY <1>5, <1>6 DEF IInv

\* A call that ends moves from the calls in flight to the steps taken.
LEMMA FinishIInv ==
    ASSUME IInv, NEW t \in Tasks, NEW outcome, NEW error, Finish(t, outcome, error)
    PROVE  IInv'
  <1> DEFINE s == SessionOf[t]
             old == AccessBudget(s).at
  <1>1. s \in Sessions
    BY GuardAssumption
  <1>2. /\ old \in [Sessions -> Budget]
        /\ \A x \in Sessions : old[x].steps <= budgets.at[x].steps
    BY <1>1, AccessBudgetAt DEF IInv
  <1>3. calling[t] # Idle /\ calling' = [calling EXCEPT ![t] = Idle]
    BY DEF Finish
  <1>4. /\ budgets'.at \in [Sessions -> Budget]
        /\ \A x \in Sessions \ {s} : budgets'.at[x].steps = old[x].steps
        /\ MaxSteps > 0 => budgets'.at[s].steps = old[s].steps + 1
    <2>1. CASE ~BudgetOn
      <3>1. budgets' = budgets /\ AccessBudget(s) = budgets /\ ~(MaxSteps > 0)
        BY <2>1 DEF Finish, AccessBudget, BudgetOn
      <3> QED BY <3>1, <1>2
    <2>2. CASE BudgetOn
      <3>1. budgets' = [AccessBudget(s) EXCEPT !.at[s] = RecordStepAndCost(@, CallCost)]
        BY <2>2 DEF Finish
      <3>2. AccessBudget(s) = [lru |-> AccessBudget(s).lru, at |-> old]
        BY <2>2 DEF AccessBudget, Access
      <3>3. budgets'.at = [old EXCEPT ![s] = RecordStepAndCost(@, CallCost)]
        BY <3>1, <3>2
      <3>4. /\ RecordStepAndCost(old[s], CallCost) \in Budget
            /\ RecordStepAndCost(old[s], CallCost).steps = old[s].steps + 1
        BY <1>1, <1>2, BudgetMethods
      <3> QED BY <1>1, <1>2, <3>3, <3>4
    <2> QED BY <2>1, <2>2
  <1>5. Shape'
    BY <1>3, <1>4 DEF IInv, Shape
  <1>6. StepLimit'
    <2>1. SUFFICES ASSUME MaxSteps > 0, NEW x \in Sessions, TasksOf(x) # {}
                   PROVE  budgets'.at[x].steps + Cardinality(InFlight(x)')
                            <= MaxSteps + Cardinality(TasksOf(x)) - 1
      BY DEF StepLimit, TasksOf
    <2>2. /\ budgets.at[x].steps \in Nat /\ budgets'.at[x].steps \in Nat
          /\ old[x].steps \in Nat /\ old[x].steps <= budgets.at[x].steps
      BY <1>2, <1>4 DEF IInv, Shape, Budget
    <2>3. budgets.at[x].steps + Cardinality(InFlight(x))
            <= MaxSteps + Cardinality(TasksOf(x)) - 1
      BY <2>1 DEF IInv, StepLimit
    <2>4. CASE x = s
      <3>1. Cardinality(InFlight(x)') = Cardinality(InFlight(x)) - 1
        BY <1>3, <2>4, FinishedCall DEF IInv
      <3> QED BY <1>4, <2>1, <2>2, <2>3, <2>4, <3>1, InFlightBound, BudgetAssumption
    <2>5. CASE x # s
      <3>1. InFlight(x)' = InFlight(x)
        BY <1>3, <2>5 DEF InFlight, TasksOf, IInv, Shape
      <3> QED BY <1>4, <2>2, <2>3, <2>5, <3>1, InFlightBound, BudgetAssumption
    <2> QED BY <2>4, <2>5
  <1> QED BY <1>5, <1>6 DEF IInv

\* The session's clock changes no step count.
LEMMA WallClockIInv ==
    ASSUME IInv, NEW s \in Sessions, WallClock(s)
    PROVE  IInv'
  <1>1. DEFINE b == [budgets.at[s] EXCEPT !.wall = IF @ = "fresh" THEN "late" ELSE "over"]
  <1>2. b \in Budget /\ b.steps = budgets.at[s].steps
    BY DEF IInv, Shape, Budget
  <1>3. budgets' = [budgets EXCEPT !.at = [@ EXCEPT ![s] = b]]
    BY DEF WallClock
  <1>4. budgets'.at = [budgets.at EXCEPT ![s] = b] \/ budgets'.at = budgets.at
    BY <1>3
  <1>5. /\ budgets'.at \in [Sessions -> Budget]
        /\ \A x \in Sessions : budgets'.at[x].steps = budgets.at[x].steps
    BY <1>2, <1>4 DEF IInv, Shape
  <1>6. \A x \in Sessions : budgets'.at[x].steps <= budgets.at[x].steps
    BY <1>5 DEF IInv, Shape, Budget
  <1> QED BY <1>5, <1>6, NothingCounted DEF WallClock

\* The initial state satisfies the invariant.
LEMMA InitIInv == Init => IInv
  <1> SUFFICES ASSUME Init PROVE IInv
    OBVIOUS
  <1>1. FreshBudget \in Budget /\ FreshBudget.steps = 0
    BY DEF FreshBudget, Budget
  <1>2. Shape
    BY <1>1 DEF Init, Shape
  <1>3. \A s \in Sessions : InFlight(s) = {} /\ budgets.at[s].steps = 0
    BY <1>1 DEF Init, InFlight, TasksOf
  <1>4. StepLimit
    <2>1. SUFFICES ASSUME MaxSteps > 0, NEW s \in Sessions, TasksOf(s) # {}
                   PROVE  budgets.at[s].steps + Cardinality(InFlight(s))
                            <= MaxSteps + Cardinality(TasksOf(s)) - 1
      BY DEF StepLimit
    <2>2. Cardinality(InFlight(s)) = 0
      BY <1>3, FS_EmptySet
    <2> QED BY <1>3, <2>1, <2>2, InFlightBound, BudgetAssumption
  <1> QED BY <1>2, <1>4 DEF IInv

\* Every step preserves it.
LEMMA NextIInv == IInv /\ [Next]_vars => IInv'
  <1> SUFFICES ASSUME IInv, [Next]_vars
               PROVE  IInv'
    OBVIOUS
  <1>0. /\ budgets.at \in [Sessions -> Budget]
        /\ \A x \in Sessions : budgets.at[x].steps <= budgets.at[x].steps
    BY DEF IInv, Shape, Budget
  <1>1. ASSUME NEW t \in Tasks, NEW call \in Calls, StoppedByLoop(t, call)
        PROVE  IInv'
    BY <1>0, <1>1, NothingCounted DEF StoppedByLoop
  <1>2. ASSUME NEW t \in Tasks, NEW call \in Calls, StoppedByBudget(t, call)
        PROVE  IInv'
    <2>1. SessionOf[t] \in Sessions
      BY GuardAssumption
    <2>2. budgets' = AccessBudget(SessionOf[t]) /\ calling' = calling
      BY <1>2 DEF StoppedByBudget
    <2>3. /\ budgets.at' \in [Sessions -> Budget]
          /\ \A x \in Sessions : budgets.at'[x].steps <= budgets.at[x].steps
      BY <2>1, <2>2, AccessBudgetAt DEF IInv
    <2> QED BY <2>2, <2>3, NothingCounted
  <1>3. ASSUME NEW t \in Tasks, NEW call \in Calls, Start(t, call)
        PROVE  IInv'
    BY <1>3, StartIInv
  <1>4. ASSUME NEW t \in Tasks, NEW outcome, NEW error, Finish(t, outcome, error)
        PROVE  IInv'
    BY <1>4, FinishIInv
  <1>5. ASSUME NEW s \in Sessions, LlmCall(s)
        PROVE  IInv'
    BY <1>0, <1>5, NothingCounted DEF LlmCall
  <1>6. ASSUME NEW s \in Sessions, WallClock(s)
        PROVE  IInv'
    BY <1>6, WallClockIInv
  <1>7. CASE Tick
    BY <1>0, <1>7, NothingCounted DEF Tick
  <1>8. CASE UNCHANGED vars
    BY <1>0, <1>8, NothingCounted DEF vars
  <1> QED BY <1>1, <1>2, <1>3, <1>4, <1>5, <1>6, <1>7, <1>8 DEF Next

\* However many tasks of a session call at once, and whatever entries the tables drop,
\* a budget that is in use has let through at most MaxSteps calls and one more for
\* each other task of its session.
THEOREM StepsAreLimited == Spec => []StepLimit
  <1>1. IInv => StepLimit
    BY DEF IInv
  <1> QED BY <1>1, InitIInv, NextIInv, PTL DEF Spec

-----------------------------------------------------------------------------
(* Every call counts.                                                      *)

Counted == executed \in [Sessions -> Nat]
CountInv == IInv /\ Counted /\ EveryCallCounts

\* Looking up a session's budget leaves the others theirs, but for the one it drops.
LEMMA BudgetsKept ==
    ASSUME NEW s \in Sessions, NEW x \in Sessions, MaxSteps > 0, x \notin DropsBudget(s)
    PROVE  AccessBudget(s).at[x] = budgets.at[x]
  <1>1. BudgetOn
    BY DEF BudgetOn
  <1> QED BY <1>1 DEF DropsBudget, AccessBudget, Access

\* A call that starts is one call more in flight.
LEMMA StartedCall ==
    ASSUME Shape, NEW t \in Tasks, NEW call \in Calls, calling[t] = Idle,
           calling' = [calling EXCEPT ![t] = call],
           NEW s \in Sessions, s = SessionOf[t]
    PROVE  Cardinality(InFlight(s)') = Cardinality(InFlight(s)) + 1
  <1>1. t \notin InFlight(s)
    BY DEF InFlight
  <1>2. InFlight(s)' = InFlight(s) \cup {t}
    BY GuardAssumption DEF InFlight, TasksOf, Shape
  <1> QED BY <1>1, <1>2, InFlightBound, FS_AddElement

\* What a step leaves alone.
LEMMA CountsKept ==
    ASSUME NEW x \in Sessions, EveryCallCounts, MaxSteps > 0, x \notin evicted,
           budgets'.at[x].steps = budgets.at[x].steps, InFlight(x)' = InFlight(x),
           executed'[x] = executed[x]
    PROVE  budgets'.at[x].steps + Cardinality(InFlight(x)') = executed'[x]
  BY DEF EveryCallCounts

\* A call that is let through is counted as one in flight.
LEMMA StartCounts ==
    ASSUME CountInv, NEW t \in Tasks, NEW call \in Calls, Start(t, call)
    PROVE  CountInv'
  <1> DEFINE s == SessionOf[t]
             old == AccessBudget(s).at
  <1>0. IInv'
    BY StartIInv DEF CountInv
  <1>1. s \in Sessions /\ IInv /\ Shape
    BY GuardAssumption DEF CountInv, IInv
  <1>2. /\ calling[t] = Idle /\ calling' = [calling EXCEPT ![t] = call]
        /\ executed' = [executed EXCEPT ![s] = UpTo(executed[s] + 1, StepBound)]
        /\ evicted' = evicted \cup DropsDetector(s) \cup DropsBudget(s)
    BY DEF Start
  <1>3. executed' \in [Sessions -> Nat]
    <2>1. executed[s] + 1 \in Nat /\ StepBound \in Nat
      BY <1>1, BudgetAssumption, GuardAssumption, FS_CardinalityType DEF CountInv, Counted, StepBound
    <2>2. UpTo(executed[s] + 1, StepBound) \in Nat
      BY <2>1 DEF UpTo
    <2> QED BY <1>2, <2>2 DEF CountInv, Counted
  <1>4. EveryCallCounts'
    <2>1. SUFFICES ASSUME MaxSteps > 0, NEW x \in Sessions, x \notin evicted'
                   PROVE  budgets'.at[x].steps + Cardinality(InFlight(x)') = executed'[x]
      BY DEF EveryCallCounts
    <2>2. x \notin evicted /\ x \notin DropsBudget(s)
      BY <1>2, <2>1
    <2>3. budgets'.at[x].steps = budgets.at[x].steps
      <3>1. BudgetOn
        BY <2>1 DEF BudgetOn
      <3>2. budgets' = [AccessBudget(s) EXCEPT !.at[s] = CheckSoftThresholds(@)]
        BY <3>1 DEF Start
      <3>3. AccessBudget(s) = [lru |-> AccessBudget(s).lru, at |-> old]
        BY <3>1 DEF AccessBudget, Access
      <3>4. budgets'.at = [old EXCEPT ![s] = CheckSoftThresholds(@)]
        BY <3>2, <3>3
      <3>5. old \in [Sessions -> Budget] /\ old[x] = budgets.at[x]
        BY <1>1, <2>1, <2>2, AccessBudgetAt, BudgetsKept
      <3>6. CheckSoftThresholds(old[s]).steps = old[s].steps
        BY <1>1, <3>5, BudgetMethods
      <3> HIDE DEF old
      <3> QED BY <1>1, <3>4, <3>5, <3>6
    <2>4. CASE x = s
      <3>1. Cardinality(InFlight(x)') = Cardinality(InFlight(x)) + 1
        BY <1>1, <1>2, <2>4, StartedCall
      <3>2. budgets.at[x].steps + Cardinality(InFlight(x)) = executed[x]
        BY <2>1, <2>2 DEF CountInv, EveryCallCounts
      <3>3. budgets'.at[x].steps + Cardinality(InFlight(x)') <= MaxSteps + Cardinality(TasksOf(x)) - 1
        BY <1>0, <2>1, <2>4 DEF IInv, StepLimit, TasksOf
      <3>4. Cardinality(TasksOf(x)) <= Cardinality(Tasks) /\ Cardinality(Tasks) \in Nat
        BY GuardAssumption, FS_Subset, FS_CardinalityType DEF TasksOf
      <3>5. budgets.at[x].steps \in Nat
        BY <1>1 DEF Shape, Budget
      <3>6. executed[x] + 1 < StepBound
        BY <2>3, <3>1, <3>2, <3>3, <3>4, <3>5, InFlightBound, BudgetAssumption DEF StepBound
      <3>7. executed'[x] = executed[x] + 1
        BY <1>2, <2>4, <3>6 DEF UpTo, CountInv, Counted
      <3> QED BY <2>3, <3>1, <3>2, <3>5, <3>7, InFlightBound
    <2>5. CASE x # s
      <3>1. InFlight(x)' = InFlight(x)
        BY <1>1, <1>2, <2>5 DEF InFlight, TasksOf, Shape
      <3>2. executed'[x] = executed[x]
        BY <1>2, <2>5 DEF CountInv, Counted
      <3> QED BY <2>1, <2>2, <2>3, <3>1, <3>2, CountsKept DEF CountInv
    <2> QED BY <2>4, <2>5
  <1> QED BY <1>0, <1>3, <1>4 DEF CountInv, Counted

\* A call that ends, however it ends, is counted as a step.
LEMMA FinishCounts ==
    ASSUME CountInv, NEW t \in Tasks, NEW outcome, NEW error, Finish(t, outcome, error)
    PROVE  CountInv'
  <1> DEFINE s == SessionOf[t]
             old == AccessBudget(s).at
  <1>0. IInv'
    BY FinishIInv DEF CountInv
  <1>1. s \in Sessions /\ IInv /\ Shape
    BY GuardAssumption DEF CountInv, IInv
  <1>2. /\ calling[t] # Idle /\ calling' = [calling EXCEPT ![t] = Idle]
        /\ executed' = executed
        /\ evicted' = evicted \cup DropsDetector(s) \cup DropsBudget(s)
    BY DEF Finish
  <1>3. EveryCallCounts'
    <2>1. SUFFICES ASSUME MaxSteps > 0, NEW x \in Sessions, x \notin evicted'
                   PROVE  budgets'.at[x].steps + Cardinality(InFlight(x)') = executed'[x]
      BY DEF EveryCallCounts
    <2>2. x \notin evicted /\ x \notin DropsBudget(s)
      BY <1>2, <2>1
    <2>3. budgets'.at[x].steps = IF x = s THEN budgets.at[x].steps + 1 ELSE budgets.at[x].steps
      <3>1. BudgetOn
        BY <2>1 DEF BudgetOn
      <3>2. budgets' = [AccessBudget(s) EXCEPT !.at[s] = RecordStepAndCost(@, CallCost)]
        BY <3>1 DEF Finish
      <3>3. AccessBudget(s) = [lru |-> AccessBudget(s).lru, at |-> old]
        BY <3>1 DEF AccessBudget, Access
      <3>4. budgets'.at = [old EXCEPT ![s] = RecordStepAndCost(@, CallCost)]
        BY <3>2, <3>3
      <3>5. old \in [Sessions -> Budget] /\ old[x] = budgets.at[x]
        BY <1>1, <2>1, <2>2, AccessBudgetAt, BudgetsKept
      <3>6. RecordStepAndCost(old[s], CallCost).steps = old[s].steps + 1
        BY <1>1, <3>5, BudgetMethods
      <3> HIDE DEF old
      <3> QED BY <1>1, <3>4, <3>5, <3>6
    <2>4. CASE x = s
      <3>1. Cardinality(InFlight(x)') = Cardinality(InFlight(x)) - 1
        BY <1>1, <1>2, <2>4, FinishedCall
      <3>2. budgets.at[x].steps + Cardinality(InFlight(x)) = executed[x]
        BY <2>1, <2>2 DEF CountInv, EveryCallCounts
      <3>3. budgets.at[x].steps \in Nat
        BY <1>1 DEF Shape, Budget
      <3> QED BY <1>2, <2>3, <2>4, <3>1, <3>2, <3>3, InFlightBound
    <2>5. CASE x # s
      <3>1. InFlight(x)' = InFlight(x)
        BY <1>1, <1>2, <2>5 DEF InFlight, TasksOf, Shape
      <3> QED BY <1>2, <2>1, <2>2, <2>3, <2>5, <3>1, CountsKept DEF CountInv
    <2> QED BY <2>4, <2>5
  <1> QED BY <1>0, <1>2, <1>3 DEF CountInv, Counted

\* Every other step leaves the counts of the sessions that keep their budgets alone.
LEMMA CountsStay ==
    ASSUME CountInv, IInv', calling' = calling, executed' = executed, evicted \subseteq evicted',
           MaxSteps > 0 =>
               \A x \in Sessions \ evicted' : budgets'.at[x].steps = budgets.at[x].steps
    PROVE  CountInv'
  <1>1. \A x \in Sessions : InFlight(x)' = InFlight(x)
    BY DEF InFlight
  <1>2. EveryCallCounts'
    BY <1>1 DEF CountInv, EveryCallCounts
  <1> QED BY <1>2 DEF CountInv, Counted

\* However it ends, by an answer, an exception or a cancellation, and however many tasks
\* of a session call at once: every call let through is counted once, for every session
\* that has kept its budget.
THEOREM CallsAreCounted == Spec => []EveryCallCounts
  <1>1. Init => CountInv
    <2> SUFFICES ASSUME Init PROVE CountInv
      OBVIOUS
    <2>1. IInv /\ Counted
      BY InitIInv DEF Init, Counted
    <2>2. \A s \in Sessions : /\ InFlight(s) = {} /\ budgets.at[s] = FreshBudget
                              /\ executed[s] = 0
      BY DEF Init, InFlight, TasksOf
    <2>3. FreshBudget.steps = 0 /\ Cardinality({}) = 0
      BY FS_EmptySet DEF FreshBudget
    <2>4. EveryCallCounts
      BY <2>2, <2>3 DEF EveryCallCounts
    <2> QED BY <2>1, <2>4 DEF CountInv
  <1>2. CountInv /\ [Next]_vars => CountInv'
    <2> SUFFICES ASSUME CountInv, [Next]_vars PROVE CountInv'
      OBVIOUS
    <2>0. IInv'
      BY NextIInv DEF CountInv
    <2>1. ASSUME NEW t \in Tasks, NEW call \in Calls, StoppedByLoop(t, call) PROVE CountInv'
      BY <2>0, <2>1, CountsStay DEF StoppedByLoop
    <2>2. ASSUME NEW t \in Tasks, NEW call \in Calls, StoppedByBudget(t, call) PROVE CountInv'
      <3>1. /\ budgets' = AccessBudget(SessionOf[t]) /\ UNCHANGED <<calling, executed>>
            /\ evicted' = evicted \cup DropsDetector(SessionOf[t]) \cup DropsBudget(SessionOf[t])
        BY <2>2 DEF StoppedByBudget
      <3>2. SessionOf[t] \in Sessions
        BY GuardAssumption
      <3>3. MaxSteps > 0 => \A x \in Sessions \ evicted' : budgets'.at[x] = budgets.at[x]
        BY <3>1, <3>2, BudgetsKept
      <3> QED BY <2>0, <3>1, <3>3, CountsStay
    <2>3. ASSUME NEW t \in Tasks, NEW call \in Calls, Start(t, call) PROVE CountInv'
      BY <2>3, StartCounts
    <2>4. ASSUME NEW t \in Tasks, NEW outcome, NEW error, Finish(t, outcome, error) PROVE CountInv'
      BY <2>4, FinishCounts
    <2>5. ASSUME NEW s \in Sessions, LlmCall(s) PROVE CountInv'
      BY <2>0, <2>5, CountsStay DEF LlmCall
    <2>6. ASSUME NEW s \in Sessions, WallClock(s) PROVE CountInv'
      <3> DEFINE b == [budgets.at[s] EXCEPT !.wall = IF @ = "fresh" THEN "late" ELSE "over"]
      <3>1. Shape /\ b.steps = budgets.at[s].steps
        BY DEF CountInv, IInv, Shape, Budget
      <3>2. budgets' = [budgets EXCEPT !.at = [budgets.at EXCEPT ![s] = b]]
        BY <2>6 DEF WallClock
      <3> HIDE DEF b
      <3>3. budgets'.at = [budgets.at EXCEPT ![s] = b] \/ budgets'.at = budgets.at
        BY <3>2
      <3>4. \A x \in Sessions : budgets'.at[x].steps = budgets.at[x].steps
        BY <3>1, <3>3 DEF Shape
      <3> QED BY <2>0, <2>6, <3>4, CountsStay DEF WallClock
    <2>7. CASE Tick
      BY <2>0, <2>7, CountsStay DEF Tick
    <2>8. CASE UNCHANGED vars
      BY <2>0, <2>8, CountsStay DEF vars
    <2> QED BY <2>1, <2>2, <2>3, <2>4, <2>5, <2>6, <2>7, <2>8 DEF Next
  <1>3. CountInv => EveryCallCounts
    BY DEF CountInv
  <1> QED BY <1>1, <1>2, <1>3, PTL DEF Spec

-----------------------------------------------------------------------------
(* The loops.                                                              *)

\* What a window remembers of a session is what the session did last: the two agree as
\* far as both go, and the window goes further than the history unless it is full.
Records == {[tool |-> c.tool, args |-> c.args, error |-> e] : c \in Calls, e \in Errors \cup {NoError}}

Windows ==
    /\ detectors.at \in [Sessions -> Seq(Records)]
    /\ history \in [Sessions -> Seq(Records)]
    /\ \A s \in Sessions : Len(detectors.at[s]) <= WindowSize /\ Len(history[s]) <= HistoryLen

Recalls(window, past) ==
    /\ Len(window) = WindowSize \/ Len(past) <= Len(window)
    /\ \A j \in Nat : j < Len(window) /\ j < Len(past) =>
         window[Len(window) - j] = past[Len(past) - j]

Recalled == LoopThreshold > 0 => \A s \in Sessions \ evicted : Recalls(detectors.at[s], history[s])

\* The last k of a sequence of calls repeat one call, or fail in one tool with one error.
Repeats(past, k, call) ==
    k <= Len(past) /\ \A i \in Len(past) - k + 1 .. Len(past) : Key(past[i]) = Key(call)
Storm(past, k, tool, e) ==
    k <= Len(past) /\ \A i \in Len(past) - k + 1 .. Len(past) : past[i].tool = tool /\ past[i].error = e
\* They alternate between one call and another one, which came last.
Alternates(past, n, call, other) ==
    /\ n <= Len(past)
    /\ \A i \in Len(past) - n + 1 .. Len(past) :
         Key(past[i]) = IF (i - (Len(past) - n + 1)) % 2 = 0 THEN Key(call) ELSE other

\* The conditions under which the window is long enough to show a loop.
RunsSeen == LoopThreshold > 0 /\ LoopAction = "terminate" /\ WindowSize >= LoopThreshold - 1
StormsSeen == LoopThreshold > 1 /\ RunsSeen
SpinsSeen == LoopThreshold > 1 /\ LoopAction = "terminate" /\ WindowSize >= 2 * (LoopThreshold - 1)

Running(s, call) == {t \in TasksOf(s) : calling[t] = call}

\* The three bounds of a session's loops, as sentences about its history alone, with what
\* keeps them: no call in flight in a sequential session is one that would end a loop.
RunsEnd(s) ==
    \A call \in Calls, k \in 0 .. HistoryLen :
        Repeats(history[s], k, call) =>
            k + Cardinality(Running(s, call)) <= LoopThreshold - 2 + Cardinality(TasksOf(s))
StormsEnd(s) ==
    \A e \in Errors :
        /\ \A t \in TasksOf(s) :
             calling[t] # Idle => ~ Storm(history[s], LoopThreshold - 1, calling[t].tool, e)
        /\ \A call \in Calls : ~ Storm(history[s], LoopThreshold, call.tool, e)
SpinsEnd(s) ==
    \A one \in Records, two \in Records :
        Key(one) # Key(two) =>
            /\ \A t \in TasksOf(s) :
                 calling[t] # Idle /\ Key(calling[t]) = Key(one) =>
                     ~ Alternates(history[s], 2 * (LoopThreshold - 1), one, Key(two))
            /\ ~ Alternates(history[s], 2 * LoopThreshold - 1, one, Key(two))

LoopFree(s) ==
    /\ RunsSeen /\ TasksOf(s) # {} => RunsEnd(s)
    /\ StormsSeen /\ Cardinality(TasksOf(s)) = 1 => StormsEnd(s)
    /\ SpinsSeen /\ Cardinality(TasksOf(s)) = 1 => SpinsEnd(s)

LoopInv == IInv /\ Windows /\ Recalled /\ \A s \in Sessions \ evicted : LoopFree(s)

\* A bounded sequence that takes in one more element.
Recent(q, r, n) == IF Len(Append(q, r)) > n THEN Tail(Append(q, r)) ELSE Append(q, r)
TookIn(new, q, r) ==
    \A j \in Nat : j < Len(new) => new[Len(new) - j] = IF j = 0 THEN r ELSE q[Len(q) - (j - 1)]

LEMMA RecentOnes ==
    ASSUME NEW q \in Seq(Records), NEW r \in Records, NEW n \in Nat, Len(q) <= n
    PROVE  /\ Recent(q, r, n) \in Seq(Records) /\ Len(Recent(q, r, n)) <= n
           /\ Len(Recent(q, r, n)) = IF Len(q) = n THEN n ELSE Len(q) + 1
           /\ TookIn(Recent(q, r, n), q, r)
  <1> DEFINE all == Append(q, r)
  <1>1. /\ all \in Seq(Records) /\ Len(all) = Len(q) + 1
        /\ \A i \in 1 .. Len(q) + 1 : all[i] = IF i = Len(q) + 1 THEN r ELSE q[i]
    OBVIOUS
  <1>2. CASE Len(q) = n
    <2>1. Recent(q, r, n) = Tail(all)
      BY <1>1, <1>2 DEF Recent
    <2> HIDE DEF all
    <2>2. /\ Tail(all) \in Seq(Records) /\ Len(Tail(all)) = n
          /\ \A i \in 1 .. n : Tail(all)[i] = all[i + 1]
      BY <1>1, <1>2
    <2>3. ASSUME NEW j \in Nat, j < n
          PROVE  Tail(all)[n - j] = IF j = 0 THEN r ELSE q[n - (j - 1)]
      <3>1. n - j \in 1 .. n /\ n - j + 1 \in 1 .. Len(q) + 1
        BY <1>2, <2>3
      <3>2. Tail(all)[n - j] = all[n - j + 1]
        BY <2>2, <3>1
      <3>3. all[n - j + 1] = IF n - j + 1 = Len(q) + 1 THEN r ELSE q[n - j + 1]
        BY <1>1, <3>1
      <3>4. n - j + 1 = n - (j - 1) /\ (n - j + 1 = Len(q) + 1 <=> j = 0)
        BY <1>2, <2>3
      <3> QED BY <3>2, <3>3, <3>4
    <2> QED BY <1>2, <2>1, <2>2, <2>3 DEF TookIn
  <1>3. CASE Len(q) < n
    <2>1. Recent(q, r, n) = all
      BY <1>1, <1>3 DEF Recent
    <2> HIDE DEF all
    <2>2. ASSUME NEW j \in Nat, j < Len(q) + 1
          PROVE  all[Len(q) + 1 - j] = IF j = 0 THEN r ELSE q[Len(q) - (j - 1)]
      <3>1. Len(q) + 1 - j \in 1 .. Len(q) + 1 /\ Len(q) + 1 - j = Len(q) - (j - 1)
        BY <2>2
      <3> QED BY <1>1, <2>2, <3>1
    <2> QED BY <1>1, <1>3, <2>1, <2>2 DEF TookIn
  <1> QED BY <1>2, <1>3

\* What both remember is the same, however far one looks back.
LEMMA SameTail ==
    ASSUME NEW w \in Seq(Records), NEW h \in Seq(Records), Recalls(w, h),
           NEW k \in Nat, k <= Len(h), k <= WindowSize
    PROVE  /\ k <= Len(w)
           /\ \A i \in Len(w) - k + 1 .. Len(w) :
                /\ i + Len(h) - Len(w) \in Len(h) - k + 1 .. Len(h)
                /\ w[i] = h[i + Len(h) - Len(w)]
  <1>1. Len(w) \in Nat /\ Len(h) \in Nat /\ k <= Len(w)
    BY LoopAssumption DEF Recalls
  <1>2. ASSUME NEW i \in Len(w) - k + 1 .. Len(w)
        PROVE  /\ i + Len(h) - Len(w) \in Len(h) - k + 1 .. Len(h)
               /\ w[i] = h[i + Len(h) - Len(w)]
    <2> DEFINE j == Len(w) - i
    <2>1. i \in Int /\ j \in Nat /\ j < k
      BY <1>1
    <2>2. Len(w) - j = i /\ Len(h) - j = i + Len(h) - Len(w)
      BY <1>1, <2>1
    <2> HIDE DEF j
    <2>3. w[Len(w) - j] = h[Len(h) - j]
      <3>1. j < Len(w) /\ j < Len(h)
        BY <1>1, <2>1
      <3> QED BY <2>1, <3>1 DEF Recalls
    <2>4. i + Len(h) - Len(w) \in Len(h) - k + 1 .. Len(h)
      BY <1>1
    <2> QED BY <2>2, <2>3, <2>4
  <1> QED BY <1>1, <1>2

\* So a loop of the session's that the window can hold is one in the window.
LEMMA SeenInWindow ==
    ASSUME NEW w \in Seq(Records), NEW h \in Seq(Records), Recalls(w, h),
           NEW k \in Nat, k <= WindowSize
    PROVE  /\ \A call : Repeats(h, k, call) => Repeats(w, k, call)
           /\ \A tool, e : Storm(h, k, tool, e) => Storm(w, k, tool, e)
           /\ \A call, other : Alternates(h, k, call, other) => Alternates(w, k, call, other)
  <1>0. Len(w) \in Nat /\ Len(h) \in Nat
    OBVIOUS
  <1>1. ASSUME NEW call, Repeats(h, k, call) PROVE Repeats(w, k, call)
    <2>1. k <= Len(h)
      BY <1>1 DEF Repeats
    <2>2. ASSUME NEW i \in Len(w) - k + 1 .. Len(w)
          PROVE  Key(w[i]) = Key(call)
      <3> DEFINE m == i + Len(h) - Len(w)
      <3>1. m \in Len(h) - k + 1 .. Len(h) /\ w[i] = h[m]
        BY <2>1, SameTail
      <3> HIDE DEF m
      <3>2. Key(h[m]) = Key(call)
        BY <1>1, <3>1 DEF Repeats
      <3> QED BY <3>1, <3>2
    <2>3. k <= Len(w)
      BY <2>1, SameTail
    <2> QED BY <2>2, <2>3 DEF Repeats
  <1>2. ASSUME NEW tool, NEW e, Storm(h, k, tool, e) PROVE Storm(w, k, tool, e)
    <2>1. k <= Len(h)
      BY <1>2 DEF Storm
    <2>2. ASSUME NEW i \in Len(w) - k + 1 .. Len(w)
          PROVE  w[i].tool = tool /\ w[i].error = e
      <3> DEFINE m == i + Len(h) - Len(w)
      <3>1. m \in Len(h) - k + 1 .. Len(h) /\ w[i] = h[m]
        BY <2>1, SameTail
      <3> HIDE DEF m
      <3>2. h[m].tool = tool /\ h[m].error = e
        BY <1>2, <3>1 DEF Storm
      <3> QED BY <3>1, <3>2
    <2>3. k <= Len(w)
      BY <2>1, SameTail
    <2> QED BY <2>2, <2>3 DEF Storm
  <1>3. ASSUME NEW call, NEW other, Alternates(h, k, call, other) PROVE Alternates(w, k, call, other)
    <2>1. k <= Len(h)
      BY <1>3 DEF Alternates
    <2>2. ASSUME NEW i \in Len(w) - k + 1 .. Len(w)
          PROVE  Key(w[i]) = IF (i - (Len(w) - k + 1)) % 2 = 0 THEN Key(call) ELSE other
      <3> DEFINE m == i + Len(h) - Len(w)
      <3>1. m \in Len(h) - k + 1 .. Len(h) /\ w[i] = h[m]
        BY <2>1, SameTail
      <3>2. m - (Len(h) - k + 1) = i - (Len(w) - k + 1)
        BY <1>0
      <3>3. Key(h[m]) = IF (m - (Len(h) - k + 1)) % 2 = 0 THEN Key(call) ELSE other
        BY <1>3, <3>1 DEF Alternates
      <3> QED BY <3>1, <3>2, <3>3
    <2> QED BY <2>1, <2>2, SameTail DEF Alternates
  <1> QED BY <1>1, <1>2, <1>3

\* And a loop in the window is detected.
LEMMA Detected ==
    ASSUME NEW w \in Seq(Records), NEW call
    PROVE  /\ Repeats(w, LoopThreshold - 1, call) => LoopDetected(w, call)
           /\ \A e \in Errors : LoopThreshold > 1 /\ Storm(w, LoopThreshold - 1, call.tool, e) =>
                LoopDetected(w, call)
           /\ \A other :
                LoopThreshold > 1 /\ other # Key(call)
                /\ Alternates(w, 2 * (LoopThreshold - 1), call, other) => LoopDetected(w, call)
  <1>1. Repeats(w, LoopThreshold - 1, call) => Repetition(w, call)
    BY DEF Repeats, Repetition, TailAll
  <1>2. ASSUME NEW e \in Errors, LoopThreshold > 1, Storm(w, LoopThreshold - 1, call.tool, e)
        PROVE  RetryWithoutProgress(w, call)
    <2>1. (IF LoopThreshold > 2 THEN LoopThreshold - 1 ELSE 1) = LoopThreshold - 1
      BY <1>2, LoopAssumption
    <2>2. \E f \in Errors :
            LET Failed(r) == r.tool = call.tool /\ r.error = f
            IN  TailAll(w, LoopThreshold - 1, Failed)
      BY <1>2 DEF Storm, TailAll
    <2> QED BY <2>1, <2>2 DEF RetryWithoutProgress
  <1>3. ASSUME NEW other, LoopThreshold > 1, other # Key(call),
               Alternates(w, 2 * (LoopThreshold - 1), call, other)
        PROVE  PingPong(w, call)
    <2> DEFINE n == 2 * (LoopThreshold - 1)
    <2>1. n \in Nat /\ n >= 2 /\ (n - 1) % 2 = 1 /\ n <= Len(w) /\ Len(w) \in Nat
      BY <1>3, LoopAssumption DEF Alternates
    <2>a. \A i \in Len(w) - n + 1 .. Len(w) :
            Key(w[i]) = IF (i - (Len(w) - n + 1)) % 2 = 0 THEN Key(call) ELSE other
      BY <1>3 DEF Alternates
    <2> HIDE DEF n
    <2>2. Len(w) \in Len(w) - n + 1 .. Len(w) /\ Len(w) - (Len(w) - n + 1) = n - 1
      BY <2>1
    <2>3. Key(w[Len(w)]) = IF (n - 1) % 2 = 0 THEN Key(call) ELSE other
      BY <2>a, <2>2
    <2>4. other \in {Key(w[i]) : i \in DOMAIN w} \ {Key(call)}
      BY <1>3, <2>1, <2>3
    <2> QED BY <2>1, <2>a, <2>4 DEF PingPong, n
  <1> QED BY <1>1, <1>2, <1>3 DEF LoopDetected

\* Looking up a session's window leaves the others theirs, but for the one it drops.
LEMMA WindowsKept ==
    ASSUME Windows, NEW s \in Sessions
    PROVE  /\ AccessDetector(s).at \in [Sessions -> Seq(Records)]
           /\ \A x \in Sessions : /\ Len(AccessDetector(s).at[x]) <= WindowSize
                                  /\ x \notin DropsDetector(s) =>
                                       AccessDetector(s).at[x] = detectors.at[x]
  <1>1. CASE LoopThreshold > 0
    <2>1. AccessDetector(s).at
            = [x \in Sessions |-> IF x \in Dropped(detectors, s) THEN <<>> ELSE detectors.at[x]]
      BY <1>1 DEF AccessDetector, Access
    <2>2. <<>> \in Seq(Records) /\ Len(<<>>) <= WindowSize
      BY LoopAssumption
    <2> QED BY <1>1, <2>1, <2>2 DEF DropsDetector, Windows
  <1>2. CASE ~ (LoopThreshold > 0)
    BY <1>2 DEF AccessDetector, Windows
  <1> QED BY <1>1, <1>2

LEMMA OneTask ==
    ASSUME NEW s \in Sessions, Cardinality(TasksOf(s)) = 1,
           NEW t \in Tasks, NEW u \in Tasks, SessionOf[t] = s, SessionOf[u] = s
    PROVE  t = u
  <1>1. t \in TasksOf(s) /\ u \in TasksOf(s) /\ IsFiniteSet(TasksOf(s))
    BY GuardAssumption, FS_Subset DEF TasksOf
  <1>2. TasksOf(s) = {t}
    BY <1>1, FS_Singleton
  <1> QED BY <1>1, <1>2

\* A session whose own calls and history a step leaves alone.
LEMMA Untouched ==
    ASSUME NEW x \in Sessions, LoopFree(x), history'[x] = history[x],
           \A u \in TasksOf(x) : calling'[u] = calling[u]
    PROVE  LoopFree(x)'
  <1>0. \A call : Running(x, call)' = Running(x, call)
    BY DEF Running, TasksOf
  <1>1. ASSUME RunsEnd(x) PROVE RunsEnd(x)'
    BY <1>0, <1>1 DEF RunsEnd
  <1>2. ASSUME StormsEnd(x) PROVE StormsEnd(x)'
    BY <1>2 DEF StormsEnd
  <1>3. ASSUME SpinsEnd(x) PROVE SpinsEnd(x)'
    BY <1>3 DEF SpinsEnd
  <1> QED BY <1>1, <1>2, <1>3 DEF LoopFree

\* A step that starts and ends no call, and leaves the windows of the sessions that keep
\* theirs alone.
LEMMA LoopsStay ==
    ASSUME LoopInv, IInv', calling' = calling, history' = history, evicted \subseteq evicted',
           detectors'.at \in [Sessions -> Seq(Records)],
           \A x \in Sessions : /\ Len(detectors'.at[x]) <= WindowSize
                               /\ x \notin evicted' => detectors'.at[x] = detectors.at[x]
    PROVE  LoopInv'
  <1>1. Windows'
    BY DEF LoopInv, Windows
  <1>2. Recalled'
    BY DEF LoopInv, Recalled
  <1>3. ASSUME NEW x \in Sessions, x \notin evicted' PROVE LoopFree(x)'
    BY <1>3, Untouched DEF LoopInv
  <1> QED BY <1>1, <1>2, <1>3 DEF LoopInv

\* A set of numbers has a least one.
LEMMA LeastOf ==
    ASSUME NEW T \in SUBSET Nat, T # {}
    PROVE  \E x \in T : \A y \in T : x <= y
  <1> DEFINE R == {ss \in Nat \X Nat : ss[1] < ss[2]}
  <1>1. IsWellFoundedOn(R, Nat)
    BY NatLessThanWellFounded DEF OpToRel
  <1>2. R = {ss \in Nat \X Nat : ss[1] < ss[2]}
    OBVIOUS
  <1> HIDE DEF R
  <1>3. PICK x \in T : \A y \in T : ~ (<<y, x>> \in R)
    BY <1>1, WFMin
  <1>4. \A z \in T : z \in Nat
    OBVIOUS
  <1>5. ASSUME NEW y \in T, y < x PROVE FALSE
    <2>1. <<y, x>> \in Nat \X Nat /\ <<y, x>>[1] = y /\ <<y, x>>[2] = x
      BY <1>4
    <2>2. <<y, x>> \in R
      BY <1>2, <1>5, <2>1
    <2> QED BY <1>3, <2>2
  <1> QED BY <1>4, <1>5

\* What equals what is two places on alternates: of the places that do not, none is the
\* first.
LEMMA TwoByTwo ==
    ASSUME NEW n \in Nat, NEW K, \A i \in 1 .. n - 2 : K[i] = K[i + 2]
    PROVE  \A i \in 1 .. n : K[i] = IF (i - 1) % 2 = 0 THEN K[1] ELSE K[2]
  <1> DEFINE due(i) == IF (i - 1) % 2 = 0 THEN K[1] ELSE K[2]
             bad == {i \in 1 .. n : K[i] # due(i)}
  <1>1. SUFFICES ASSUME bad # {} PROVE FALSE
    OBVIOUS
  <1>2. bad \in SUBSET Nat
    OBVIOUS
  <1>3. PICK m \in bad : \A y \in bad : m <= y
    <2> HIDE DEF bad
    <2> QED BY <1>1, <1>2, LeastOf
  <1>4. m \in 1 .. n /\ K[m] # due(m)
    OBVIOUS
  <1>5. m # 1 /\ m # 2
    BY <1>4
  <1>6. m - 2 \in 1 .. n - 2 /\ m - 2 \in 1 .. n /\ (m - 2) + 2 = m /\ ~ (m <= m - 2)
    BY <1>4, <1>5
  <1>7. m - 2 \notin bad
    <2> HIDE DEF bad
    <2> QED BY <1>3, <1>6
  <1>8. K[m - 2] = due(m - 2)
    BY <1>6, <1>7
  <1>9. ((m - 2) - 1) % 2 = (m - 1) % 2
    BY <1>4
  <1>10. due(m - 2) = due(m)
    BY <1>9
  <1>11. K[m - 2] = K[m]
    BY <1>6
  <1> HIDE DEF due
  <1> QED BY <1>4, <1>8, <1>10, <1>11

\* Starting a call: the detector, which has seen what the session did last, has not
\* recognised it as the end of a loop.
LEMMA StartLoops ==
    ASSUME LoopInv, IInv', NEW t \in Tasks, NEW call \in Calls, Start(t, call)
    PROVE  LoopInv'
  <1> DEFINE s == SessionOf[t]
  <1>1. /\ s \in Sessions /\ calling[t] = Idle /\ history' = history
        /\ detectors' = AccessDetector(s)
        /\ evicted \subseteq evicted' /\ DropsDetector(s) \subseteq evicted'
        /\ ~ LoopStops(s, call)
    BY GuardAssumption DEF Start, Checked
  <1>2. /\ calling \in [Tasks -> Calls \cup {Idle}] /\ Idle \notin Calls
        /\ calling' = [calling EXCEPT ![t] = call]
    BY GuardAssumption DEF Start, LoopInv, IInv, Shape
  <1>3. calling'[t] = call /\ \A u \in Tasks : u # t => calling'[u] = calling[u]
    BY <1>2
  <1> HIDE DEF s
  <1>4. /\ detectors'.at \in [Sessions -> Seq(Records)]
        /\ \A x \in Sessions : /\ Len(detectors'.at[x]) <= WindowSize
                               /\ x \notin evicted' => detectors'.at[x] = detectors.at[x]
    BY <1>1, WindowsKept DEF LoopInv
  <1>5. Windows'
    BY <1>1, <1>4 DEF LoopInv, Windows
  <1>6. Recalled'
    BY <1>1, <1>4 DEF LoopInv, Recalled
  <1>7. ASSUME NEW x \in Sessions, x \notin evicted', x # s PROVE LoopFree(x)'
    <2>1. \A u \in TasksOf(x) : u \in Tasks /\ u # t
      BY <1>7 DEF TasksOf, s
    <2> QED BY <1>1, <1>3, <1>7, <2>1, Untouched DEF LoopInv
  <1>8. ASSUME s \notin evicted' PROVE LoopFree(s)'
    <2> DEFINE h == history[s]
               w == detectors.at[s]
    <2>1. /\ h \in Seq(Records) /\ w \in Seq(Records) /\ history'[s] = h
          /\ LoopFree(s) /\ (LoopThreshold > 0 => Recalls(w, h))
          /\ (LoopThreshold > 0 /\ LoopAction = "terminate" => ~ LoopDetected(w, call))
      <3>1. AccessDetector(s).at[s] = w
        BY <1>1, <1>4, <1>8
      <3> QED BY <1>1, <1>8, <3>1 DEF LoopInv, Windows, Recalled, LoopStops
    <2> HIDE DEF h, w
    <2>2. ASSUME RunsSeen PROVE ~ Repeats(h, LoopThreshold - 1, call)
      <3>1. LoopThreshold - 1 \in Nat
        BY <2>2, LoopAssumption DEF RunsSeen
      <3> QED BY <2>1, <2>2, <3>1, SeenInWindow, Detected DEF RunsSeen
    <2>3. ASSUME RunsSeen, TasksOf(s) # {} PROVE RunsEnd(s)'
      <3>1. /\ IsFiniteSet(TasksOf(s)) /\ Cardinality(TasksOf(s)) \in Nat
        BY GuardAssumption, FS_Subset, FS_CardinalityType DEF TasksOf
      <3>2. ASSUME NEW c \in Calls, NEW k \in 0 .. HistoryLen, Repeats(h, k, c)
            PROVE  k + Cardinality(Running(s, c)') <= LoopThreshold - 2 + Cardinality(TasksOf(s))
        <4>1. CASE c = call
          <5>1. k < LoopThreshold - 1
            <6>1. k \in Int /\ LoopThreshold \in Int /\ Len(h) \in Int
              BY <2>1, LoopAssumption
            <6>2. ASSUME ~ (k < LoopThreshold - 1) PROVE Repeats(h, LoopThreshold - 1, call)
              BY <3>2, <4>1, <6>1, <6>2 DEF Repeats
            <6> QED BY <2>2, <2>3, <6>2
          <5>2. Running(s, c)' \subseteq TasksOf(s)
            BY DEF Running, TasksOf
          <5>3. Cardinality(Running(s, c)') <= Cardinality(TasksOf(s))
                /\ Cardinality(Running(s, c)') \in Nat
            BY <3>1, <5>2, FS_Subset, FS_CardinalityType
          <5> QED BY <3>1, <5>1, <5>3, LoopAssumption
        <4>2. CASE c # call
          <5>1. Running(s, c)' = Running(s, c)
            BY <1>1, <1>2, <1>3, <4>2 DEF Running, TasksOf
          <5>2. RunsEnd(s)
            BY <2>1, <2>3 DEF LoopFree
          <5> QED BY <3>2, <5>1, <5>2 DEF RunsEnd, h
        <4> QED BY <4>1, <4>2
      <3> QED BY <2>1, <3>2 DEF RunsEnd, TasksOf
    <2>4. ASSUME StormsSeen, Cardinality(TasksOf(s)) = 1 PROVE StormsEnd(s)'
      <3>1. LoopThreshold - 1 \in Nat /\ LoopThreshold - 1 <= WindowSize
            /\ LoopThreshold > 1 /\ LoopThreshold > 0 /\ LoopAction = "terminate"
        BY <2>4, LoopAssumption DEF StormsSeen, RunsSeen
      <3>2. \A e \in Errors : ~ Storm(h, LoopThreshold - 1, call.tool, e)
        BY <2>1, <3>1, SeenInWindow, Detected
      <3>3. \A u \in TasksOf(s) : calling'[u] = call
        BY <1>1, <1>3, <2>4, OneTask DEF TasksOf, s
      <3>4. StormsEnd(s)
        BY <2>1, <2>4 DEF LoopFree
      <3> QED BY <2>1, <3>2, <3>3, <3>4 DEF StormsEnd, TasksOf, h
    <2>5. ASSUME SpinsSeen, Cardinality(TasksOf(s)) = 1 PROVE SpinsEnd(s)'
      <3>1. 2 * (LoopThreshold - 1) \in Nat /\ 2 * (LoopThreshold - 1) <= WindowSize
            /\ LoopThreshold > 1 /\ LoopThreshold > 0 /\ LoopAction = "terminate"
        BY <2>5, LoopAssumption DEF SpinsSeen
      <3>2. \A other : other # Key(call) => ~ Alternates(h, 2 * (LoopThreshold - 1), call, other)
        BY <2>1, <3>1, SeenInWindow, Detected
      <3>3. \A u \in TasksOf(s) : calling'[u] = call
        BY <1>1, <1>3, <2>5, OneTask DEF TasksOf, s
      <3>4. SpinsEnd(s)
        BY <2>1, <2>5 DEF LoopFree
      <3>5. ASSUME NEW one \in Records, NEW two \in Records, Key(one) # Key(two), Key(call) = Key(one)
            PROVE  ~ Alternates(h, 2 * (LoopThreshold - 1), one, Key(two))
        BY <3>2, <3>5 DEF Alternates
      <3> QED BY <2>1, <3>3, <3>4, <3>5 DEF SpinsEnd, TasksOf, h
    <2> QED BY <2>3, <2>4, <2>5 DEF LoopFree, RunsSeen, StormsSeen, SpinsSeen, TasksOf
  <1> QED BY <1>5, <1>6, <1>7, <1>8 DEF LoopInv

\* A history that took in a call: what came before its last.
Continues(new, h, k, r) ==
    /\ k - 1 <= Len(h) /\ new[Len(new)] = r /\ Len(new) \in Nat
    /\ \A i \in Len(h) - (k - 1) + 1 .. Len(h) :
         \E j \in Len(new) - k + 1 .. Len(new) :
            /\ h[i] = new[j]
            /\ j - (Len(new) - k + 1) = i - (Len(h) - (k - 1) + 1)

LEMMA BeforeLast ==
    ASSUME NEW h \in Seq(Records), NEW r \in Records, Len(h) <= HistoryLen,
           NEW k \in Nat \ {0}, k <= Len(Recent(h, r, HistoryLen))
    PROVE  Continues(Recent(h, r, HistoryLen), h, k, r)
  <1> DEFINE new == Recent(h, r, HistoryLen)
  <1>1. /\ new \in Seq(Records) /\ Len(new) = IF Len(h) = HistoryLen THEN HistoryLen ELSE Len(h) + 1
        /\ TookIn(new, h, r)
    <2>0. HistoryLen \in Nat
      BY GuardAssumption
    <2> QED BY <2>0, RecentOnes
  <1>2. Len(new) \in Nat /\ Len(h) \in Nat /\ k - 1 <= Len(h) /\ 0 < Len(new) /\ k <= Len(new)
    BY <1>1, GuardAssumption
  <1> HIDE DEF new
  <1>3. new[Len(new)] = r
    <2>1. new[Len(new) - 0] = r
      BY <1>1, <1>2 DEF TookIn
    <2> QED BY <1>2, <2>1
  <1>4. ASSUME NEW i \in Len(h) - (k - 1) + 1 .. Len(h)
        PROVE  \E j \in Len(new) - k + 1 .. Len(new) :
                 /\ h[i] = new[j]
                 /\ j - (Len(new) - k + 1) = i - (Len(h) - (k - 1) + 1)
    <2> DEFINE back == Len(h) - i + 1
               j == i + Len(new) - Len(h) - 1
    <2>1. back \in Nat /\ back # 0 /\ back < Len(new)
      BY <1>2
    <2>2. Len(new) - back = j /\ Len(h) - (back - 1) = i
      BY <1>2
    <2> HIDE DEF back
    <2>3. new[Len(new) - back] = h[Len(h) - (back - 1)]
      BY <1>1, <2>1 DEF TookIn
    <2>4. /\ j \in Len(new) - k + 1 .. Len(new)
          /\ j - (Len(new) - k + 1) = i - (Len(h) - (k - 1) + 1)
      BY <1>2
    <2> HIDE DEF j
    <2>5. h[i] = new[j]
      BY <2>2, <2>3
    <2> QED BY <2>4, <2>5
  <1> QED BY <1>2, <1>3, <1>4 DEF Continues, new

\* So a loop that the last call completes was all but complete before it.
LEMMA LoopsBefore ==
    ASSUME NEW h \in Seq(Records), NEW r \in Records, Len(h) <= HistoryLen, NEW k \in Nat \ {0}
    PROVE  LET new == Recent(h, r, HistoryLen)
           IN  /\ \A call : Repeats(new, k, call) => Key(r) = Key(call) /\ Repeats(h, k - 1, call)
               /\ \A tool, e : Storm(new, k, tool, e) =>
                    r.tool = tool /\ r.error = e /\ Storm(h, k - 1, tool, e)
               /\ \A call, other : (k - 1) % 2 = 0 /\ Alternates(new, k, call, other) =>
                    Key(r) = Key(call) /\ Alternates(h, k - 1, call, other)
  <1> DEFINE new == Recent(h, r, HistoryLen)
  <1>1. SUFFICES ASSUME k <= Len(new)
                 PROVE  /\ \A call : Repeats(new, k, call) => Key(r) = Key(call) /\ Repeats(h, k - 1, call)
                        /\ \A tool, e : Storm(new, k, tool, e) =>
                             r.tool = tool /\ r.error = e /\ Storm(h, k - 1, tool, e)
                        /\ \A call, other : (k - 1) % 2 = 0 /\ Alternates(new, k, call, other) =>
                             Key(r) = Key(call) /\ Alternates(h, k - 1, call, other)
    BY DEF Repeats, Storm, Alternates
  <1>a. Continues(new, h, k, r)
    BY <1>1, BeforeLast
  <1> HIDE DEF new
  <1>b. Len(h) \in Nat
    OBVIOUS
  <1>2. /\ k - 1 <= Len(h) /\ new[Len(new)] = r /\ Len(new) \in Nat
        /\ \A i \in Len(h) - (k - 1) + 1 .. Len(h) :
             \E j \in Len(new) - k + 1 .. Len(new) :
                /\ h[i] = new[j]
                /\ j - (Len(new) - k + 1) = i - (Len(h) - (k - 1) + 1)
    BY <1>a DEF Continues
  <1>3. Len(new) \in Len(new) - k + 1 .. Len(new)
    BY <1>2, <1>b
  <1>4. ASSUME NEW call, Repeats(new, k, call) PROVE Key(r) = Key(call) /\ Repeats(h, k - 1, call)
    <2>1. \A i \in Len(new) - k + 1 .. Len(new) : Key(new[i]) = Key(call)
      BY <1>4 DEF Repeats
    <2>2. Key(r) = Key(call)
      BY <1>2, <1>b, <1>3, <2>1
    <2>3. \A i \in Len(h) - (k - 1) + 1 .. Len(h) : Key(h[i]) = Key(call)
      BY <1>2, <1>b, <2>1
    <2> QED BY <1>2, <1>b, <2>2, <2>3 DEF Repeats
  <1>5. ASSUME NEW tool, NEW e, Storm(new, k, tool, e)
        PROVE  r.tool = tool /\ r.error = e /\ Storm(h, k - 1, tool, e)
    <2>1. \A i \in Len(new) - k + 1 .. Len(new) : new[i].tool = tool /\ new[i].error = e
      BY <1>5 DEF Storm
    <2>2. r.tool = tool /\ r.error = e
      BY <1>2, <1>b, <1>3, <2>1
    <2>3. \A i \in Len(h) - (k - 1) + 1 .. Len(h) : h[i].tool = tool /\ h[i].error = e
      BY <1>2, <1>b, <2>1
    <2> QED BY <1>2, <1>b, <2>2, <2>3 DEF Storm
  <1>6. ASSUME NEW call, NEW other, (k - 1) % 2 = 0, Alternates(new, k, call, other)
        PROVE  Key(r) = Key(call) /\ Alternates(h, k - 1, call, other)
    <2>1. \A i \in Len(new) - k + 1 .. Len(new) :
            Key(new[i]) = IF (i - (Len(new) - k + 1)) % 2 = 0 THEN Key(call) ELSE other
      BY <1>6 DEF Alternates
    <2>2. Len(new) - (Len(new) - k + 1) = k - 1
      BY <1>2, <1>b
    <2>3. Key(r) = Key(call)
      BY <1>2, <1>b, <1>3, <1>6, <2>1, <2>2
    <2>4. ASSUME NEW i \in Len(h) - (k - 1) + 1 .. Len(h)
          PROVE  Key(h[i]) = IF (i - (Len(h) - (k - 1) + 1)) % 2 = 0 THEN Key(call) ELSE other
      <3>1. PICK j \in Len(new) - k + 1 .. Len(new) :
              h[i] = new[j] /\ j - (Len(new) - k + 1) = i - (Len(h) - (k - 1) + 1)
        BY <1>2, <1>b
      <3> QED BY <2>1, <3>1
    <2> QED BY <1>2, <1>b, <2>3, <2>4 DEF Alternates
  <1> QED BY <1>4, <1>5, <1>6

\* What ends, and what a window and the history then take in.
RecordOf(t, error) == [tool |-> calling[t].tool, args |-> calling[t].args, error |-> error]

LEMMA FinishedRecord ==
    ASSUME LoopInv, NEW t \in Tasks, NEW outcome \in Outcomes, NEW error \in Errors \cup {NoError},
           Finish(t, outcome, error), NEW s \in Sessions, s = SessionOf[t]
    PROVE  LET record == RecordOf(t, error)
           IN  /\ record \in Records /\ calling[t] \in Calls
               /\ history' = [x \in Sessions |->
                    IF x = s THEN Recent(history[s], record, HistoryLen) ELSE history[x]]
               /\ IF LoopThreshold > 0
                  THEN detectors'.at = [x \in Sessions |->
                         IF x = s THEN Recent(AccessDetector(s).at[s], record, WindowSize)
                         ELSE AccessDetector(s).at[x]]
                  ELSE detectors' = detectors
  <1> DEFINE record == RecordOf(t, error)
  <1>1. calling[t] \in Calls
    BY DEF LoopInv, IInv, Shape, Finish
  <1>2. record \in Records
    <2>1. \A c \in Calls, e \in Errors \cup {NoError} :
            [tool |-> c.tool, args |-> c.args, error |-> e] \in Records
      BY DEF Records
    <2> QED BY <1>1, <2>1 DEF RecordOf
  <1>4. history' = [history EXCEPT ![s] = Recent(history[s], record, HistoryLen)]
    BY DEF Finish, Recent, RecordOf
  <1>5. history' = [x \in Sessions |->
          IF x = s THEN Recent(history[s], record, HistoryLen) ELSE history[x]]
    <2> HIDE DEF record
    <2> QED BY <1>4 DEF LoopInv, Windows
  <1>6. ASSUME LoopThreshold > 0
        PROVE  detectors'.at = [x \in Sessions |->
                 IF x = s THEN Recent(AccessDetector(s).at[s], record, WindowSize)
                 ELSE AccessDetector(s).at[x]]
    <2>1. detectors' = [AccessDetector(s) EXCEPT !.at[s] = Recent(@, record, WindowSize)]
      BY <1>6 DEF Finish, RecordCall, Recent, RecordOf
    <2>2. /\ AccessDetector(s).at \in [Sessions -> Seq(Records)]
          /\ AccessDetector(s) = [lru |-> AccessDetector(s).lru, at |-> AccessDetector(s).at]
      BY <1>6, WindowsKept DEF LoopInv, AccessDetector, Access
    <2> HIDE DEF record
    <2> QED BY <2>1, <2>2
  <1>7. ASSUME ~ (LoopThreshold > 0) PROVE detectors' = detectors
    BY <1>7 DEF Finish
  <1> QED BY <1>1, <1>2, <1>5, <1>6, <1>7

\* The end of a call: had it completed a loop, the call would have been in flight with
\* the rest of the loop behind it.
LEMMA FinishLoops ==
    ASSUME LoopInv, IInv', NEW t \in Tasks, NEW outcome \in Outcomes, NEW error \in Errors \cup {NoError},
           Finish(t, outcome, error)
    PROVE  LoopInv'
  <1> DEFINE s == SessionOf[t]
             record == RecordOf(t, error)
  <1>1. /\ s \in Sessions /\ calling[t] # Idle
        /\ evicted \subseteq evicted' /\ DropsDetector(s) \subseteq evicted'
        /\ record.tool = calling[t].tool /\ Key(record) = Key(calling[t])
    BY GuardAssumption DEF Finish, Key, RecordOf
  <1>a. record \in Records /\ calling[t] \in Calls
    BY <1>1, FinishedRecord
  <1>b. \A c \in Calls : Key(record) = Key(c) => c = calling[t]
    BY <1>a, GuardAssumption DEF Key, RecordOf
  <1>2. /\ record \in Records /\ calling[t] \in Calls
        /\ \A c \in Calls : Key(record) = Key(c) => c = calling[t]
    BY <1>a, <1>b
  <1>3. history' = [x \in Sessions |->
          IF x = s THEN Recent(history[s], record, HistoryLen) ELSE history[x]]
    BY <1>1, FinishedRecord
  <1>4. LoopThreshold > 0 =>
          detectors'.at = [x \in Sessions |->
            IF x = s THEN Recent(AccessDetector(s).at[s], record, WindowSize)
            ELSE AccessDetector(s).at[x]]
    BY <1>1, FinishedRecord
  <1>5. ~ (LoopThreshold > 0) => detectors' = detectors
    BY <1>1, FinishedRecord
  <1>6. /\ calling'[t] = Idle /\ Idle \notin Calls
        /\ \A u \in Tasks : u # t => calling'[u] = calling[u]
    BY GuardAssumption DEF Finish, LoopInv, IInv, Shape
  <1> HIDE DEF s, record
  <1>7. /\ history[s] \in Seq(Records) /\ Len(history[s]) <= HistoryLen /\ HistoryLen \in Nat
        /\ \A x \in Sessions : history[x] \in Seq(Records) /\ Len(history[x]) <= HistoryLen
    BY <1>1, GuardAssumption DEF LoopInv, Windows
  <1>8. /\ Recent(history[s], record, HistoryLen) \in Seq(Records)
        /\ Len(Recent(history[s], record, HistoryLen)) <= HistoryLen
    BY <1>2, <1>7, RecentOnes
  <1>9. /\ AccessDetector(s).at[s] \in Seq(Records) /\ Len(AccessDetector(s).at[s]) <= WindowSize
        /\ AccessDetector(s).at \in [Sessions -> Seq(Records)]
        /\ \A x \in Sessions : /\ Len(AccessDetector(s).at[x]) <= WindowSize
                               /\ x \notin DropsDetector(s) => AccessDetector(s).at[x] = detectors.at[x]
    BY <1>1, WindowsKept DEF LoopInv
  <1>10. WindowSize \in Nat
    BY LoopAssumption
  <1>11. /\ Recent(AccessDetector(s).at[s], record, WindowSize) \in Seq(Records)
         /\ Len(Recent(AccessDetector(s).at[s], record, WindowSize)) <= WindowSize
    BY <1>2, <1>9, <1>10, RecentOnes
  <1>12. Windows'
    <2>1. history' \in [Sessions -> Seq(Records)] /\ \A x \in Sessions : Len(history'[x]) <= HistoryLen
      <3>1. history' = [x \in Sessions |-> history'[x]]
        BY <1>3 DEF Finish, LoopInv, Windows
      <3>2. \A x \in Sessions : history'[x] \in Seq(Records) /\ Len(history'[x]) <= HistoryLen
        BY <1>3, <1>7, <1>8
      <3> QED BY <3>1, <3>2
    <2>2. CASE LoopThreshold > 0
      <3>1. /\ detectors'.at \in [Sessions -> Seq(Records)]
            /\ \A x \in Sessions : Len(detectors'.at[x]) <= WindowSize
        BY <1>4, <1>9, <1>11, <2>2
      <3> QED BY <2>1, <3>1 DEF Windows
    <2>3. CASE ~ (LoopThreshold > 0)
      BY <1>5, <2>1, <2>3 DEF Windows, LoopInv
    <2> QED BY <2>2, <2>3
  <1>13. ASSUME LoopThreshold > 0, NEW x \in Sessions, x \notin evicted'
         PROVE  Recalls(detectors'.at[x], history'[x])
    <2>1. Recalls(detectors.at[x], history[x]) /\ AccessDetector(s).at[x] = detectors.at[x]
      BY <1>1, <1>9, <1>13 DEF LoopInv, Recalled
    <2>2. CASE x = s
      <3> DEFINE w == detectors.at[s]
                 h == history[s]
                 v == Recent(w, record, WindowSize)
                 new == Recent(h, record, HistoryLen)
      <3>1. detectors'.at[x] = v /\ history'[x] = new
        BY <1>1, <1>3, <1>4, <1>13, <2>1, <2>2
      <3>2. /\ TookIn(v, w, record) /\ TookIn(new, h, record)
            /\ Len(v) = IF Len(w) = WindowSize THEN WindowSize ELSE Len(w) + 1
            /\ Len(new) = IF Len(h) = HistoryLen THEN HistoryLen ELSE Len(h) + 1
            /\ Len(w) \in Nat /\ Len(h) \in Nat /\ Len(w) <= WindowSize /\ Len(h) <= HistoryLen
        <4>1. /\ w \in Seq(Records) /\ Len(w) <= WindowSize /\ h \in Seq(Records) /\ Len(h) <= HistoryLen
              /\ Len(w) \in Nat /\ Len(h) \in Nat
          BY <1>7, <1>9, <2>1, <2>2
        <4> HIDE DEF w, h
        <4>2. TookIn(v, w, record) /\ Len(v) = IF Len(w) = WindowSize THEN WindowSize ELSE Len(w) + 1
          BY <1>2, <1>10, <4>1, RecentOnes
        <4>3. TookIn(new, h, record) /\ Len(new) = IF Len(h) = HistoryLen THEN HistoryLen ELSE Len(h) + 1
          BY <1>2, <1>7, <4>1, RecentOnes
        <4> QED BY <4>1, <4>2, <4>3
      <3>3. Recalls(w, h)
        BY <2>1, <2>2
      <3> HIDE DEF v, new, w, h
      <3>4. Len(v) = WindowSize \/ Len(new) <= Len(v)
        BY <1>7, <1>10, <3>2, <3>3 DEF Recalls
      <3>5. ASSUME NEW j \in Nat, j < Len(v), j < Len(new) PROVE v[Len(v) - j] = new[Len(new) - j]
        <4>1. CASE j = 0
          BY <3>2, <3>5, <4>1 DEF TookIn
        <4>2. CASE j # 0
          <5>1. j - 1 \in Nat /\ j - 1 < Len(w) /\ j - 1 < Len(h)
            BY <1>7, <1>10, <3>2, <3>5, <4>2
          <5>2. w[Len(w) - (j - 1)] = h[Len(h) - (j - 1)]
            BY <3>3, <5>1 DEF Recalls
          <5> QED BY <3>2, <3>5, <4>2, <5>2 DEF TookIn
        <4> QED BY <4>1, <4>2
      <3> QED BY <3>1, <3>4, <3>5 DEF Recalls
    <2>3. CASE x # s
      BY <1>3, <1>4, <1>13, <2>1, <2>3
    <2> QED BY <2>2, <2>3
  <1>14. Recalled'
    BY <1>13 DEF Recalled
  <1>15. ASSUME NEW x \in Sessions, x \notin evicted', x # s PROVE LoopFree(x)'
    <2>1. \A u \in TasksOf(x) : u \in Tasks /\ u # t
      BY <1>15 DEF TasksOf, s
    <2> QED BY <1>1, <1>3, <1>6, <1>15, <2>1, Untouched DEF LoopInv
  <1>16. ASSUME s \notin evicted' PROVE LoopFree(s)'
    <2> DEFINE h == history[s]
               new == Recent(h, record, HistoryLen)
    <2>1. history'[s] = new /\ LoopFree(s) /\ t \in TasksOf(s)
      BY <1>1, <1>3, <1>16 DEF LoopInv, TasksOf, s
    <2>2. ASSUME NEW k \in Nat \ {0}
          PROVE  /\ \A c : Repeats(new, k, c) => Key(record) = Key(c) /\ Repeats(h, k - 1, c)
                 /\ \A tool, e : Storm(new, k, tool, e) =>
                      record.tool = tool /\ record.error = e /\ Storm(h, k - 1, tool, e)
                 /\ \A c, other : (k - 1) % 2 = 0 /\ Alternates(new, k, c, other) =>
                      Key(record) = Key(c) /\ Alternates(h, k - 1, c, other)
      BY <1>2, <1>7, LoopsBefore
    <2> HIDE DEF new
    <2>3. ASSUME RunsSeen, TasksOf(s) # {} PROVE RunsEnd(s)'
      <3>1. RunsEnd(s) /\ IsFiniteSet(TasksOf(s)) /\ Cardinality(TasksOf(s)) \in Nat
        BY <2>1, <2>3, GuardAssumption, FS_Subset, FS_CardinalityType DEF LoopFree, TasksOf
      <3>2. ASSUME NEW c \in Calls, NEW k \in 0 .. HistoryLen, Repeats(new, k, c)
            PROVE  k + Cardinality(Running(s, c)') <= LoopThreshold - 2 + Cardinality(TasksOf(s))
        <4>1. /\ Running(s, c)' = Running(s, c) \ {t} /\ IsFiniteSet(Running(s, c))
              /\ Cardinality(Running(s, c)) \in Nat
          <5>1. Running(s, c) \subseteq TasksOf(s)
            BY DEF Running
          <5>2. Running(s, c)' = Running(s, c) \ {t}
            BY <1>6 DEF Running, TasksOf
          <5> QED BY <3>1, <5>1, <5>2, FS_Subset, FS_CardinalityType
        <4>2. CASE k = 0
          <5>1. Repeats(h, 0, c)
            BY <1>7 DEF Repeats
          <5>2. 0 + Cardinality(Running(s, c)) <= LoopThreshold - 2 + Cardinality(TasksOf(s))
            BY <1>7, <3>1, <5>1 DEF RunsEnd, h
          <5>3. Cardinality(Running(s, c)') <= Cardinality(Running(s, c))
                /\ Cardinality(Running(s, c)') \in Nat
            BY <4>1, FS_Subset, FS_CardinalityType
          <5> QED BY <3>1, <4>1, <4>2, <5>2, <5>3, LoopAssumption
        <4>3. CASE k # 0
          <5>1. Key(record) = Key(c) /\ Repeats(h, k - 1, c)
            BY <1>7, <2>2, <3>2, <4>3
          <5>2. t \in Running(s, c)
            BY <1>2, <2>1, <5>1 DEF Running
          <5>3. k - 1 + Cardinality(Running(s, c)) <= LoopThreshold - 2 + Cardinality(TasksOf(s))
            <6>1. k - 1 \in 0 .. HistoryLen
              BY <1>7, <4>3
            <6> QED BY <3>1, <5>1, <6>1 DEF RunsEnd, h
          <5>4. Cardinality(Running(s, c)') = Cardinality(Running(s, c)) - 1
            BY <4>1, <5>2, FS_RemoveElement
          <5> QED BY <1>7, <3>1, <4>1, <5>3, <5>4, LoopAssumption
        <4> QED BY <4>2, <4>3
      <3> QED BY <2>1, <3>2 DEF RunsEnd, TasksOf
    <2>4. ASSUME StormsSeen, Cardinality(TasksOf(s)) = 1 PROVE StormsEnd(s)'
      <3>1. StormsEnd(s) /\ LoopThreshold \in Nat \ {0}
        BY <2>1, <2>4, LoopAssumption DEF LoopFree, StormsSeen
      <3>2. \A u \in TasksOf(s) : calling'[u] = Idle
        BY <1>1, <1>6, <2>4, OneTask DEF TasksOf, s
      <3>3. ASSUME NEW e \in Errors, NEW call \in Calls, Storm(new, LoopThreshold, call.tool, e) PROVE FALSE
        <4>1. record.tool = call.tool /\ Storm(h, LoopThreshold - 1, call.tool, e)
          BY <2>2, <3>1, <3>3
        <4> QED BY <1>1, <2>1, <3>1, <4>1 DEF StormsEnd, h
      <3> QED BY <2>1, <3>2, <3>3 DEF StormsEnd, TasksOf
    <2>5. ASSUME SpinsSeen, Cardinality(TasksOf(s)) = 1 PROVE SpinsEnd(s)'
      <3>1. /\ SpinsEnd(s) /\ 2 * LoopThreshold - 1 \in Nat \ {0}
            /\ 2 * LoopThreshold - 1 - 1 = 2 * (LoopThreshold - 1)
            /\ (2 * LoopThreshold - 1 - 1) % 2 = 0
        BY <2>1, <2>5, LoopAssumption DEF LoopFree, SpinsSeen
      <3>2. \A u \in TasksOf(s) : calling'[u] = Idle
        BY <1>1, <1>6, <2>5, OneTask DEF TasksOf, s
      <3>3. ASSUME NEW one \in Records, NEW two \in Records, Key(one) # Key(two),
                   Alternates(new, 2 * LoopThreshold - 1, one, Key(two))
            PROVE  FALSE
        <4>1. Key(record) = Key(one) /\ Alternates(h, 2 * (LoopThreshold - 1), one, Key(two))
          BY <2>2, <3>1, <3>3
        <4> QED BY <1>1, <2>1, <3>1, <3>3, <4>1 DEF SpinsEnd, h
      <3> QED BY <2>1, <3>2, <3>3 DEF SpinsEnd, TasksOf
    <2> QED BY <2>3, <2>4, <2>5 DEF LoopFree, RunsSeen, StormsSeen, SpinsSeen, TasksOf
  <1> QED BY <1>12, <1>14, <1>15, <1>16 DEF LoopInv

LEMMA InitLoops == Init => LoopInv
  <1> SUFFICES ASSUME Init PROVE LoopInv
    OBVIOUS
  <1>1. IInv
    BY InitIInv
  <1>2. /\ detectors.at = [s \in Sessions |-> <<>>] /\ history = [s \in Sessions |-> <<>>]
        /\ \A t \in Tasks : calling[t] = Idle
    BY DEF Init
  <1>3. Windows
    BY <1>2, LoopAssumption, GuardAssumption DEF Windows
  <1>4. Recalled
    BY <1>2 DEF Recalled, Recalls
  <1>5. ASSUME NEW s \in Sessions PROVE LoopFree(s)
    <2>1. /\ history[s] = <<>> /\ Len(<<>>) = 0 /\ \A t \in TasksOf(s) : calling[t] = Idle
      BY <1>2 DEF TasksOf
    <2>2. ASSUME RunsSeen, TasksOf(s) # {} PROVE RunsEnd(s)
      <3>1. Cardinality(TasksOf(s)) \in Nat \ {0}
        BY <2>2, GuardAssumption, FS_Subset, FS_CardinalityType, FS_EmptySet DEF TasksOf
      <3>2. \A call \in Calls : Running(s, call) = {}
        BY <2>1, GuardAssumption DEF Running
      <3>3. ASSUME NEW call \in Calls, NEW k \in 0 .. HistoryLen, Repeats(<<>>, k, call) PROVE k = 0
        BY <2>1, <3>3, GuardAssumption DEF Repeats
      <3>4. Cardinality({}) = 0 /\ LoopThreshold \in Nat /\ LoopThreshold > 0
        BY <2>2, FS_EmptySet, LoopAssumption DEF RunsSeen
      <3>5. ASSUME NEW call \in Calls, NEW k \in 0 .. HistoryLen, Repeats(history[s], k, call)
            PROVE  k + Cardinality(Running(s, call)) <= LoopThreshold - 2 + Cardinality(TasksOf(s))
        <4>1. k = 0 /\ Cardinality(Running(s, call)) = 0
          BY <2>1, <3>2, <3>3, <3>4, <3>5
        <4> QED BY <3>1, <3>4, <4>1
      <3> QED BY <3>5 DEF RunsEnd
    <2>3. ASSUME StormsSeen PROVE StormsEnd(s)
      <3>1. \A tool, e : ~ Storm(<<>>, LoopThreshold, tool, e)
        BY <2>1, <2>3, LoopAssumption DEF Storm, StormsSeen
      <3> QED BY <2>1, <3>1 DEF StormsEnd
    <2>4. ASSUME SpinsSeen PROVE SpinsEnd(s)
      <3>1. \A one, other : ~ Alternates(<<>>, 2 * LoopThreshold - 1, one, other)
        BY <2>1, <2>4, LoopAssumption DEF Alternates, SpinsSeen
      <3> QED BY <2>1, <3>1 DEF SpinsEnd
    <2> QED BY <2>2, <2>3, <2>4 DEF LoopFree
  <1> QED BY <1>1, <1>3, <1>4, <1>5 DEF LoopInv

LEMMA NextLoops == LoopInv /\ [Next]_vars => LoopInv'
  <1> SUFFICES ASSUME LoopInv, [Next]_vars PROVE LoopInv'
    OBVIOUS
  <1>0. IInv'
    BY NextIInv DEF LoopInv
  <1>a. /\ detectors.at \in [Sessions -> Seq(Records)]
        /\ \A x \in Sessions : Len(detectors.at[x]) <= WindowSize
    BY DEF LoopInv, Windows
  <1>b. ASSUME NEW t \in Tasks, detectors' = AccessDetector(SessionOf[t]),
               DropsDetector(SessionOf[t]) \subseteq evicted'
        PROVE  /\ detectors'.at \in [Sessions -> Seq(Records)]
               /\ \A x \in Sessions : /\ Len(detectors'.at[x]) <= WindowSize
                                      /\ x \notin evicted' => detectors'.at[x] = detectors.at[x]
    <2>1. SessionOf[t] \in Sessions
      BY GuardAssumption
    <2> QED BY <1>b, <2>1, WindowsKept DEF LoopInv
  <1>1. ASSUME NEW t \in Tasks, NEW call \in Calls, StoppedByLoop(t, call) PROVE LoopInv'
    <2>1. /\ detectors' = AccessDetector(SessionOf[t]) /\ DropsDetector(SessionOf[t]) \subseteq evicted'
          /\ evicted \subseteq evicted' /\ calling' = calling /\ history' = history
      BY <1>1 DEF StoppedByLoop
    <2> QED BY <1>0, <1>b, <2>1, LoopsStay
  <1>2. ASSUME NEW t \in Tasks, NEW call \in Calls, StoppedByBudget(t, call) PROVE LoopInv'
    <2>1. /\ detectors' = AccessDetector(SessionOf[t]) /\ DropsDetector(SessionOf[t]) \subseteq evicted'
          /\ evicted \subseteq evicted' /\ calling' = calling /\ history' = history
      BY <1>2 DEF StoppedByBudget, Checked
    <2> QED BY <1>0, <1>b, <2>1, LoopsStay
  <1>3. ASSUME NEW t \in Tasks, NEW call \in Calls, Start(t, call) PROVE LoopInv'
    BY <1>0, <1>3, StartLoops
  <1>4. ASSUME NEW t \in Tasks, NEW outcome \in Outcomes, NEW error \in Errors \cup {NoError},
               Finish(t, outcome, error)
        PROVE  LoopInv'
    BY <1>0, <1>4, FinishLoops
  <1>5. ASSUME NEW s \in Sessions, LlmCall(s) PROVE LoopInv'
    BY <1>0, <1>a, <1>5, LoopsStay DEF LlmCall
  <1>6. ASSUME NEW s \in Sessions, WallClock(s) PROVE LoopInv'
    BY <1>0, <1>a, <1>6, LoopsStay DEF WallClock
  <1>7. CASE Tick
    BY <1>0, <1>a, <1>7, LoopsStay DEF Tick
  <1>8. CASE UNCHANGED vars
    BY <1>0, <1>a, <1>8, LoopsStay DEF vars
  <1> QED BY <1>1, <1>2, <1>3, <1>4, <1>5, <1>6, <1>7, <1>8 DEF Next

\* A session that keeps its window makes at most LoopThreshold - 1 identical calls in a
\* row, those in flight counted, and one more for each other task of its own: whatever its
\* calls return, whatever the other sessions do, and however few windows there is room for.
THEOREM RunsAreBounded == Spec => []RepetitionLimit
  <1>1. LoopInv => RepetitionLimit
    <2> SUFFICES ASSUME LoopInv, LoopThreshold > 0 /\ LoopAction = "terminate" /\ WindowSize >= LoopThreshold - 1,
                        NEW s \in Sessions \ evicted, NEW call \in Calls, NEW k \in 0 .. HistoryLen,
                        TasksOf(s) # {}, Repeats(history[s], k, call)
                 PROVE  k + Cardinality({t \in TasksOf(s) : calling[t] = call})
                          <= LoopThreshold - 2 + Cardinality(TasksOf(s))
      BY DEF RepetitionLimit, TailAll, Repeats
    <2>1. RunsEnd(s)
      BY DEF LoopInv, LoopFree, RunsSeen
    <2> QED BY <2>1 DEF RunsEnd, Running
  <1> QED BY <1>1, InitLoops, NextLoops, PTL DEF Spec

\* A session that makes one call at a time and keeps its window never completes a loop
\* that the detector looks for: no alternation of two calls over 2 * LoopThreshold - 1 of
\* them, and no LoopThreshold failures in a row of one tool with one error.
THEOREM LoopsEnd == Spec => []NoLoopRuns
  <1>1. ASSUME LoopInv PROVE NoRetryStorm
    <2> SUFFICES ASSUME LoopThreshold > 1 /\ LoopAction = "terminate" /\ WindowSize >= LoopThreshold - 1,
                        NEW s \in Sessions, NEW call \in Calls, NEW e \in Errors, Sequential(s)
                 PROVE  ~ Storm(history[s], LoopThreshold, call.tool, e)
      BY DEF NoRetryStorm, TailAll, Storm
    <2>1. StormsEnd(s)
      BY <1>1, LoopAssumption DEF LoopInv, LoopFree, StormsSeen, RunsSeen, Sequential
    <2> QED BY <2>1 DEF StormsEnd
  <1>2. ASSUME LoopInv PROVE NoPingPong
    <2> DEFINE n == 2 * LoopThreshold - 1
               tail(s) == SubSeq(history[s], Len(history[s]) - n + 1, Len(history[s]))
    <2>1. SUFFICES ASSUME LoopThreshold > 1, LoopAction = "terminate", WindowSize >= 2 * (LoopThreshold - 1),
                          NEW s \in Sessions, Sequential(s), Len(history[s]) >= n,
                          Key(tail(s)[1]) # Key(tail(s)[2]),
                          \A i \in 1 .. n - 2 : Key(tail(s)[i]) = Key(tail(s)[i + 2])
                   PROVE  FALSE
      BY DEF NoPingPong
    <2>2. SpinsEnd(s) /\ history[s] \in Seq(Records)
      BY <1>2, <2>1 DEF LoopInv, LoopFree, SpinsSeen, Sequential, Windows
    <2>3. n \in Nat /\ n >= 3
      BY <2>1, LoopAssumption
    <2> DEFINE past == history[s]
               K == [i \in 1 .. n |-> Key(past[Len(past) - n + i])]
    <2>4. Len(past) \in Nat /\ past \in Seq(Records)
      BY <2>2
    <2> HIDE DEF past, n
    <2>5. \A i \in 1 .. n : SubSeq(past, Len(past) - n + 1, Len(past))[i] = past[Len(past) - n + i]
      BY <2>1, <2>3, <2>4 DEF past
    <2>6. /\ 1 \in 1 .. n /\ 2 \in 1 .. n
          /\ \A i \in 1 .. n - 2 : i \in 1 .. n /\ i + 2 \in 1 .. n
      BY <2>3
    <2>7. K[1] # K[2] /\ \A i \in 1 .. n - 2 : K[i] = K[i + 2]
      BY <2>1, <2>5, <2>6 DEF past
    <2> DEFINE one == past[Len(past) - n + 1]
               two == past[Len(past) - n + 2]
    <2>8. one \in Records /\ two \in Records /\ K[1] = Key(one) /\ K[2] = Key(two)
      <3>1. Len(past) - n + 1 \in 1 .. Len(past) /\ Len(past) - n + 2 \in 1 .. Len(past)
        BY <2>1, <2>3, <2>4 DEF past
      <3> QED BY <2>4, <2>6, <3>1
    <2>9. \A i \in 1 .. n : K[i] = IF (i - 1) % 2 = 0 THEN K[1] ELSE K[2]
      <3> HIDE DEF K
      <3> QED BY <2>3, <2>7, TwoByTwo
    <2>10. ASSUME NEW i \in Len(past) - n + 1 .. Len(past)
           PROVE  Key(past[i]) = IF (i - (Len(past) - n + 1)) % 2 = 0 THEN Key(one) ELSE Key(two)
      <3> DEFINE j == i - (Len(past) - n)
      <3>1. /\ j \in 1 .. n /\ Len(past) - n + j = i /\ j - 1 = i - (Len(past) - n + 1)
        BY <2>3, <2>4
      <3> HIDE DEF j, one, two
      <3>2. K[j] = Key(past[i])
        BY <3>1
      <3> HIDE DEF K
      <3> QED BY <2>8, <2>9, <3>1, <3>2
    <2>11. Alternates(past, n, one, Key(two))
      <3>1. n <= Len(past)
        BY <2>1, <2>3, <2>4 DEF past
      <3> QED BY <2>10, <3>1 DEF Alternates
    <2> HIDE DEF K, one, two
    <2> QED BY <2>2, <2>7, <2>8, <2>11 DEF SpinsEnd, past, n
  <1>3. LoopInv => NoLoopRuns
    BY <1>1, <1>2 DEF NoLoopRuns
  <1> QED BY <1>3, InitLoops, NextLoops, PTL DEF Spec
=============================================================================
