------------------------------ MODULE BudgetOps -------------------------------
(***************************************************************************)
(* sdk/budget.py, class SessionBudget, as operators on the record of its   *)
(* fields.  A limit of 0 is one that is not configured.  The wall clock of *)
(* a session is kept as the phase it is in: "fresh", "late" once it has    *)
(* passed the soft threshold, "over" once it has passed max_wall_time_s.   *)
(***************************************************************************)
LOCAL INSTANCE Integers

CONSTANTS
    MaxSteps,       \* max_steps
    MaxCost,        \* max_cost_usd, in units of the smallest cost
    WallLimited,    \* whether max_wall_time_s is set
    SoftPercent     \* budget_soft_alert, in percent

ASSUME BudgetAssumption ==
    /\ MaxSteps \in Nat
    /\ MaxCost \in Nat
    /\ WallLimited \in BOOLEAN
    /\ SoftPercent \in 1..100

BudgetOn == MaxSteps > 0 \/ MaxCost > 0 \/ WallLimited

Limits == {"max_steps", "max_cost_usd", "max_wall_time_s"}

Budget == [steps        : Nat,              \* _step_count
           cost         : Nat,              \* _cumulative_cost_usd
           costExceeded : BOOLEAN,          \* _cost_exceeded
           wall         : {"fresh", "late", "over"},
           softWarned   : SUBSET Limits]    \* _soft_warned

FreshBudget == [steps |-> 0, cost |-> 0, costExceeded |-> FALSE,
                wall |-> "fresh", softWarned |-> {}]

\* Mutant: the proposed step is not counted.
ViolationLate(b) ==
    \/ MaxCost > 0 /\ b.costExceeded
    \/ MaxSteps > 0 /\ b.steps > MaxSteps
    \/ WallLimited /\ b.wall = "over"

\* check_pre_call returns a violation.
Violation(b) ==
    \/ MaxCost > 0 /\ b.costExceeded
    \/ MaxSteps > 0 /\ b.steps + 1 > MaxSteps
    \/ WallLimited /\ b.wall = "over"

\* check_soft_thresholds: the limits whose warning is due, each at most once.
SoftReached(b) ==
    {l \in Limits :
        \/ l = "max_steps" /\ MaxSteps > 0 /\ b.steps * 100 >= MaxSteps * SoftPercent
        \/ l = "max_cost_usd" /\ MaxCost > 0 /\ b.cost * 100 >= MaxCost * SoftPercent
        \/ l = "max_wall_time_s" /\ WallLimited /\ b.wall # "fresh"}

CheckSoftThresholds(b) == [b EXCEPT !.softWarned = @ \cup SoftReached(b)]

\* Mutant: a call without cost is not recorded.
RecordCostOnly(b, cost) ==
    IF cost = 0 THEN b
    ELSE [b EXCEPT !.steps = @ + 1,
                   !.cost = @ + cost,
                   !.costExceeded = @ \/ (MaxCost > 0 /\ b.cost + cost > MaxCost)]

\* record_step_and_cost.
RecordStepAndCost(b, cost) ==
    [b EXCEPT !.steps = @ + 1,
              !.cost = @ + cost,
              !.costExceeded = @ \/ (MaxCost > 0 /\ b.cost + cost > MaxCost)]
=============================================================================
