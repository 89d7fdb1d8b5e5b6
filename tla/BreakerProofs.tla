---------------------------- MODULE BreakerProofs -----------------------------
(***************************************************************************)
(* What holds of a circuit breaker: of its methods, whatever well-formed   *)
(* breaker they are called on; of one in use (CircuitBreaker), for every   *)
(* set of callers and every threshold, cooldown and number of tests; and   *)
(* of those that share a hash in Redis (SharedBreaker), for any number of  *)
(* processes, calls and saves under way, and however slow Redis is.        *)
(***************************************************************************)
EXTENDS CircuitBreaker, SharedBreaker, SequenceTheorems, TLAPS

-----------------------------------------------------------------------------
(* The methods.                                                            *)

\* The values the methods write into a breaker have the types of its fields.
LEMMA FieldValues ==
    /\ CircuitBreakerState = {"closed", "open", "half_open"}
    /\ 0 \in Elapsed /\ None \in Elapsed
    /\ \A e \in Elapsed : e \in 0..(Cooldown - 1) => e + 1 \in Elapsed
  BY BreakerAssumption DEF CircuitBreakerState, Elapsed, None

\* Opening and closing a breaker leave a breaker, as record_failure and
\* record_success need.
LEMMA OpenCloseType ==
    ASSUME NEW b \in Breaker
    PROVE  Open(b) \in Breaker /\ Close(b) \in Breaker
  <1>1. Open(b) \in Breaker
    BY FieldValues DEF Breaker, Open
  <1>2. Close(b) \in Breaker
    BY FieldValues DEF Breaker, Close
  <1> QED BY <1>1, <1>2

\* Every method leaves a well-formed breaker: what should_allow, the two record
\* methods and the clock make of a Breaker is a Breaker.
LEMMA BreakerType ==
    ASSUME NEW b \in Breaker
    PROVE  /\ AfterShouldAllow(b) \in Breaker
           /\ RecordSuccess(b) \in Breaker
           /\ RecordFailure(b) \in Breaker
           /\ Age(b) \in Breaker
  <1>0. b.state \in {"closed", "open", "half_open"}
    BY FieldValues DEF Breaker
  <1>1. AfterShouldAllow(b) \in Breaker
    BY FieldValues DEF AfterShouldAllow, Breaker
  <1>2. RecordSuccess(b) \in Breaker
    <2>1. CASE b.state = "closed"
      BY <2>1 DEF RecordSuccess, Breaker
    <2>2. CASE b.state = "half_open"
      <3> DEFINE counted == [b EXCEPT !.successes = @ + 1, !.calls = @ + 1]
      <3>0. b.successes + 1 \in Nat /\ b.calls + 1 \in Nat
        BY DEF Breaker
      <3>1. counted \in Breaker
        BY <3>0 DEF Breaker
      <3>2. RecordSuccess(b) = counted \/ RecordSuccess(b) = Close(counted)
        BY <2>2 DEF RecordSuccess
      <3> QED BY <3>1, <3>2, OpenCloseType
    <2>3. CASE b.state = "open"
      BY <2>3 DEF RecordSuccess
    <2> QED BY <1>0, <2>1, <2>2, <2>3
  <1>3. RecordFailure(b) \in Breaker
    <2>1. CASE b.state = "closed"
      <3> DEFINE counted == [b EXCEPT !.failures = @ + 1]
      <3>1. counted \in Breaker
        BY DEF Breaker
      <3>2. RecordFailure(b) = counted \/ RecordFailure(b) = Open(counted)
        BY <2>1 DEF RecordFailure, FailClosed
      <3> QED BY <3>1, <3>2, OpenCloseType
    <2>2. CASE b.state = "half_open"
      <3>1. [b EXCEPT !.calls = @ + 1] \in Breaker
        BY DEF Breaker
      <3> QED BY <2>2, <3>1, OpenCloseType DEF RecordFailure
    <2>3. CASE b.state = "open"
      BY <2>3 DEF RecordFailure
    <2> QED BY <1>0, <2>1, <2>2, <2>3
  <1>4. Age(b) \in Breaker
    BY FieldValues DEF Age, Breaker
  <1> QED BY <1>1, <1>2, <1>3, <1>4

\* Asking should_allow changes the breaker only when it begins a test phase.
LEMMA ShouldAllowEffect ==
    ASSUME NEW b \in Breaker
    PROVE  /\ ~(b.state = "open" /\ CooledDown(b)) => AfterShouldAllow(b) = b
           /\ b.state = "open" /\ CooledDown(b)
                => /\ AfterShouldAllow(b).state = "half_open"
                   /\ AfterShouldAllow(b).successes = 0
                   /\ AfterShouldAllow(b).calls = 0
  BY DEF AfterShouldAllow, Breaker

\* A success, phase by phase.
LEMMA SuccessEffect ==
    ASSUME NEW b \in Breaker, NEW r, r = RecordSuccess(b)
    PROVE  /\ b.state = "closed" => r.state = "closed" /\ r.failures = 0
           /\ b.state = "open" => r = b
           /\ b.state = "half_open" /\ b.successes + 1 >= HalfOpenMax
                => r.state = "closed" /\ r.failures = 0
           /\ b.state = "half_open" /\ ~(b.successes + 1 >= HalfOpenMax)
                => /\ r.state = "half_open"
                   /\ r.successes = b.successes + 1
                   /\ r.calls = b.calls + 1
  <1>1. CASE b.state = "closed"
    BY <1>1 DEF RecordSuccess, Breaker
  <1>2. CASE b.state = "open"
    BY <1>2 DEF RecordSuccess, Breaker
  <1>3. CASE b.state = "half_open"
    <2> DEFINE counted == [b EXCEPT !.successes = @ + 1, !.calls = @ + 1]
    <2>1. /\ counted.state = "half_open"
          /\ counted.successes = b.successes + 1
          /\ counted.calls = b.calls + 1
      BY <1>3 DEF Breaker
    <2>2. CASE b.successes + 1 >= HalfOpenMax
      <3>1. r = Close(counted)
        BY <1>3, <2>1, <2>2 DEF RecordSuccess
      <3>2. Close(counted).state = "closed" /\ Close(counted).failures = 0
        BY DEF Close, Breaker
      <3> QED BY <1>3, <2>2, <3>1, <3>2
    <2>3. CASE ~(b.successes + 1 >= HalfOpenMax)
      <3>1. r = counted
        BY <1>3, <2>1, <2>3 DEF RecordSuccess
      <3> QED BY <1>3, <2>1, <2>3, <3>1
    <2> QED BY <2>2, <2>3
  <1> QED BY <1>1, <1>2, <1>3, FieldValues DEF Breaker

\* A failure, phase by phase.
LEMMA FailureEffect ==
    ASSUME NEW b \in Breaker, NEW r, r = RecordFailure(b)
    PROVE  /\ b.state = "open" => r = b
           /\ b.state = "half_open" => r.state = "open" /\ r.elapsed = 0
           /\ b.state = "closed" /\ b.failures + 1 >= FailureThreshold
                => r.state = "open" /\ r.elapsed = 0
           /\ b.state = "closed" /\ ~(b.failures + 1 >= FailureThreshold)
                => r.state = "closed" /\ r.failures = b.failures + 1
  <1>1. CASE b.state = "closed"
    <2> DEFINE counted == [b EXCEPT !.failures = @ + 1]
    <2>1. counted.state = "closed" /\ counted.failures = b.failures + 1
      BY <1>1 DEF Breaker
    <2>2. CASE b.failures + 1 >= FailureThreshold
      <3>1. r = Open(counted)
        BY <1>1, <2>1, <2>2 DEF RecordFailure, FailClosed
      <3>2. Open(counted).state = "open" /\ Open(counted).elapsed = 0
        BY DEF Open, Breaker
      <3> QED BY <1>1, <2>2, <3>1, <3>2
    <2>3. CASE ~(b.failures + 1 >= FailureThreshold)
      <3>1. r = counted
        BY <1>1, <2>1, <2>3 DEF RecordFailure, FailClosed
      <3> QED BY <1>1, <2>1, <2>3, <3>1
    <2> QED BY <2>2, <2>3
  <1>2. CASE b.state = "open"
    BY <1>2 DEF RecordFailure, Breaker
  <1>3. CASE b.state = "half_open"
    BY <1>3 DEF RecordFailure, Open, Breaker
  <1> QED BY <1>1, <1>2, <1>3, FieldValues DEF Breaker

\* A breaker that is not CLOSED knows when it opened.
DatedBreaker == {b \in Breaker : b.state \in {"open", "half_open"} => b.elapsed # None}

\* No method loses the date while the breaker is not CLOSED.
LEMMA KeepsTheDate ==
    ASSUME NEW b \in DatedBreaker
    PROVE  /\ AfterShouldAllow(b) \in DatedBreaker
           /\ RecordSuccess(b) \in DatedBreaker
           /\ RecordFailure(b) \in DatedBreaker
           /\ Age(b) \in DatedBreaker
  <1>0. b \in Breaker /\ (b.state \in {"open", "half_open"} => b.elapsed # None)
    BY DEF DatedBreaker
  <1>1. AfterShouldAllow(b) \in DatedBreaker
    <2>1. AfterShouldAllow(b).elapsed = b.elapsed
      BY <1>0 DEF AfterShouldAllow, Breaker
    <2>2. b.state # "open" => AfterShouldAllow(b).state = b.state
      BY <1>0 DEF AfterShouldAllow
    <2> QED BY <1>0, <2>1, <2>2, BreakerType DEF DatedBreaker
  <1>2. RecordSuccess(b) \in DatedBreaker
    <2>1. CASE b.state = "half_open" /\ ~ (b.successes + 1 >= HalfOpenMax)
      <3>1. RecordSuccess(b) = [b EXCEPT !.successes = b.successes + 1, !.calls = b.calls + 1]
        BY <1>0, <2>1 DEF RecordSuccess, Breaker
      <3>2. RecordSuccess(b).elapsed = b.elapsed
        BY <1>0, <3>1 DEF Breaker
      <3> QED BY <1>0, <2>1, <3>2, BreakerType DEF DatedBreaker
    <2>2. CASE ~ (b.state = "half_open" /\ ~ (b.successes + 1 >= HalfOpenMax))
      <3>1. RecordSuccess(b).state = "closed" \/ RecordSuccess(b) = b
        BY <1>0, <2>2, SuccessEffect, FieldValues DEF Breaker
      <3> QED BY <1>0, <3>1, BreakerType DEF DatedBreaker
    <2> QED BY <2>1, <2>2
  <1>3. RecordFailure(b) \in DatedBreaker
    <2>1. \/ RecordFailure(b) = b
          \/ RecordFailure(b).state = "closed"
          \/ RecordFailure(b).elapsed = 0
      BY <1>0, FailureEffect, FieldValues DEF Breaker
    <2> QED BY <1>0, <2>1, BreakerType DEF DatedBreaker, None
  <1>4. Age(b) \in DatedBreaker
    <2>1. Age(b).state = b.state
      BY <1>0 DEF Age, Breaker
    <2>2. b.elapsed # None => Age(b).elapsed # None
      BY <1>0, BreakerAssumption DEF Age, Breaker, Elapsed, None
    <2> QED BY <1>0, <2>1, <2>2, BreakerType DEF DatedBreaker
  <1> QED BY <1>1, <1>2, <1>3, <1>4

-----------------------------------------------------------------------------
(* One breaker.  The invariant IInv says in each phase what the fields of  *)
(* the breaker have to do with the results that were recorded; the three   *)
(* action properties follow from it.                                       *)

\* Time passes without a change of phase.
LEMMA AgeEffect ==
    ASSUME NEW b \in Breaker
    PROVE  /\ Age(b).state = b.state /\ Age(b).failures = b.failures
           /\ Age(b).successes = b.successes /\ Age(b).calls = b.calls
           /\ b.elapsed \in 0..Cooldown => Age(b).elapsed = UpTo(b.elapsed + 1, Cooldown)
  BY BreakerAssumption DEF Age, Breaker, UpTo, Elapsed, None

\* Saturating counters stay in their range.
LEMMA UpToType ==
    ASSUME NEW bound \in Nat, NEW n \in 0..bound
    PROVE  UpTo(n + 1, bound) \in 0..bound
  BY DEF UpTo
-----------------------------------------------------------------------------
(* The invariant.                                                          *)

\* The initial state satisfies the invariant.
LEMMA InitIInv == Init => IInv
  BY BreakerAssumption, FieldValues
     DEF Init, InitBreaker, IInv, TypeOK, Breaker, ClosedCountsTheRun,
         TrialIsUnblemished, CooldownFromLastOpening

\* A call that is let through preserves it.
LEMMA CallIInv ==
    ASSUME IInv, NEW c \in Callers, Call(c)
    PROVE  IInv'
  <1>1. TypeOK'
    BY BreakerType DEF IInv, TypeOK, Call
  <1>2. \/ breaker' = breaker
        \/ /\ breaker'.state = "half_open"
           /\ breaker'.successes = 0 /\ breaker'.calls = 0
    BY ShouldAllowEffect DEF IInv, TypeOK, Call
  <1>3. UNCHANGED <<failRun, goodRun, rest>>
    BY DEF Call
  <1>4. ClosedCountsTheRun'
    BY <1>2, <1>3 DEF IInv, ClosedCountsTheRun
  <1>5. TrialIsUnblemished'
    BY <1>2, <1>3, BreakerAssumption DEF IInv, TypeOK, TrialIsUnblemished
  <1>6. CooldownFromLastOpening'
    BY <1>2, <1>3 DEF IInv, CooldownFromLastOpening
  <1> QED BY <1>1, <1>4, <1>5, <1>6 DEF IInv

\* Recording a success preserves it.
LEMMA SuccessIInv ==
    ASSUME IInv, NEW c \in Callers, Record(c, TRUE)
    PROVE  IInv'
  <1>0. breaker \in Breaker /\ breaker' = RecordSuccess(breaker)
    BY DEF IInv, TypeOK, Record
  <1>1. /\ failRun' = 0
        /\ goodRun' = UpTo(goodRun + 1, HalfOpenMax)
        /\ UNCHANGED server
    BY DEF Record
  <1>2. breaker.state \in {"closed", "open", "half_open"}
    BY <1>0, FieldValues DEF Breaker
  <1>3. breaker'.state = "open" => breaker' = breaker /\ rest' = rest
    BY <1>0, <1>2, SuccessEffect DEF Record
  <1>4. TypeOK'
    <2>1. breaker' \in Breaker
      BY <1>0, BreakerType
    <2>2. goodRun' \in 0..HalfOpenMax /\ failRun' \in 0..FailureThreshold
      BY <1>1, UpToType, BreakerAssumption DEF IInv, TypeOK
    <2>3. rest' \in 0..Cooldown
      BY BreakerAssumption DEF IInv, TypeOK, Record
    <2>4. running' \subseteq Callers /\ probes' \subseteq running'
      BY DEF IInv, TypeOK, Record
    <2> QED BY <1>1, <2>1, <2>2, <2>3, <2>4 DEF IInv, TypeOK
  <1>5. ClosedCountsTheRun'
    <2>1. breaker'.state = "closed" => breaker'.failures = 0
      BY <1>0, <1>2, SuccessEffect
    <2> QED BY <1>1, <2>1, BreakerAssumption DEF ClosedCountsTheRun
  <1>6. TrialIsUnblemished'
    <2>1. SUFFICES ASSUME breaker'.state = "half_open"
                   PROVE  /\ breaker'.successes = breaker'.calls
                          /\ breaker'.successes < HalfOpenMax
                          /\ breaker'.successes <= goodRun'
      BY DEF TrialIsUnblemished
    <2>2. /\ breaker.state = "half_open" /\ ~(breaker.successes + 1 >= HalfOpenMax)
          /\ breaker'.successes = breaker.successes + 1
          /\ breaker'.calls = breaker.calls + 1
      BY <1>0, <1>2, <2>1, SuccessEffect
    <2>3. /\ breaker.successes \in Nat /\ breaker.calls \in Nat
          /\ goodRun \in 0..HalfOpenMax
      BY DEF IInv, TypeOK, Breaker
    <2> QED BY <1>1, <2>2, <2>3, BreakerAssumption DEF IInv, TrialIsUnblemished, UpTo
  <1>7. CooldownFromLastOpening'
    BY <1>3 DEF IInv, CooldownFromLastOpening
  <1> QED BY <1>4, <1>5, <1>6, <1>7 DEF IInv

\* Recording a failure preserves it.
LEMMA FailureIInv ==
    ASSUME IInv, NEW c \in Callers, Record(c, FALSE)
    PROVE  IInv'
  <1>0. breaker \in Breaker /\ breaker' = RecordFailure(breaker)
    BY DEF IInv, TypeOK, Record
  <1>1. /\ failRun' = UpTo(failRun + 1, FailureThreshold)
        /\ goodRun' = 0
        /\ UNCHANGED server
    BY DEF Record
  <1>2. breaker.state \in {"closed", "open", "half_open"}
    BY <1>0, FieldValues DEF Breaker
  <1>3. TypeOK'
    <2>1. breaker' \in Breaker
      BY <1>0, BreakerType
    <2>2. goodRun' \in 0..HalfOpenMax /\ failRun' \in 0..FailureThreshold
      BY <1>1, UpToType, BreakerAssumption DEF IInv, TypeOK
    <2>3. rest' \in 0..Cooldown
      BY BreakerAssumption DEF IInv, TypeOK, Record
    <2>4. running' \subseteq Callers /\ probes' \subseteq running'
      BY DEF IInv, TypeOK, Record
    <2> QED BY <1>1, <2>1, <2>2, <2>3, <2>4 DEF IInv, TypeOK
  <1>4. ClosedCountsTheRun'
    <2>1. SUFFICES ASSUME breaker'.state = "closed"
                   PROVE  breaker'.failures = failRun' /\ failRun' < FailureThreshold
      BY DEF ClosedCountsTheRun
    <2>2. /\ breaker.state = "closed" /\ ~(breaker.failures + 1 >= FailureThreshold)
          /\ breaker'.failures = breaker.failures + 1
      BY <1>0, <1>2, <2>1, FailureEffect
    <2>3. breaker.failures \in Nat /\ failRun \in 0..FailureThreshold
      BY DEF IInv, TypeOK, Breaker
    <2> QED BY <1>1, <2>2, <2>3, BreakerAssumption DEF IInv, ClosedCountsTheRun, UpTo
  <1>5. breaker'.state # "half_open"
    BY <1>0, <1>2, FailureEffect
  <1>6. CooldownFromLastOpening'
    <2>1. CASE breaker.state = "open"
      BY <1>0, <2>1, FailureEffect DEF Record, IInv, CooldownFromLastOpening
    <2>2. CASE breaker.state # "open" /\ breaker'.state = "open"
      <3>1. breaker'.elapsed = 0
        BY <1>0, <1>2, <2>2, FailureEffect
      <3> QED BY <2>2, <3>1 DEF Record, CooldownFromLastOpening
    <2> QED BY <2>1, <2>2 DEF CooldownFromLastOpening
  <1> QED BY <1>3, <1>4, <1>5, <1>6 DEF IInv, TrialIsUnblemished

\* So does the clock.
LEMMA TickIInv ==
    ASSUME IInv, Tick
    PROVE  IInv'
  <1>0. breaker \in Breaker /\ breaker' = Age(breaker) /\ rest \in 0..Cooldown
    BY DEF IInv, TypeOK, Tick
  <1>1. TypeOK'
    <2>1. breaker' \in Breaker
      BY <1>0, BreakerType
    <2>2. rest' \in 0..Cooldown
      BY <1>0, UpToType, BreakerAssumption DEF Tick
    <2> QED BY <2>1, <2>2 DEF IInv, TypeOK, Tick
  <1>2. /\ breaker'.state = breaker.state /\ breaker'.failures = breaker.failures
        /\ breaker'.successes = breaker.successes /\ breaker'.calls = breaker.calls
    BY <1>0, AgeEffect
  <1>3. ClosedCountsTheRun'
    BY <1>2 DEF IInv, ClosedCountsTheRun, Tick
  <1>4. TrialIsUnblemished'
    BY <1>2 DEF IInv, TrialIsUnblemished, Tick
  <1>5. CooldownFromLastOpening'
    <2>1. breaker.state = "open" => breaker.elapsed = rest
      BY DEF IInv, CooldownFromLastOpening
    <2> QED BY <1>0, <1>2, <2>1, AgeEffect DEF CooldownFromLastOpening, Tick
  <1> QED BY <1>1, <1>3, <1>4, <1>5 DEF IInv

\* Every step preserves the invariant.
LEMMA NextIInv == IInv /\ [Next]_vars => IInv'
  <1> SUFFICES ASSUME IInv, [Next]_vars
               PROVE  IInv'
    OBVIOUS
  <1>1. ASSUME NEW c \in Callers, Call(c) PROVE IInv'
    BY <1>1, CallIInv
  <1>2. ASSUME NEW c \in Callers, Succeed(c) \/ Cancel(c) PROVE IInv'
    BY <1>2, SuccessIInv DEF Succeed, Cancel
  <1>3. ASSUME NEW c \in Callers, Fail(c) PROVE IInv'
    BY <1>3, FailureIInv DEF Fail
  <1>4. CASE Tick
    BY <1>4, TickIInv
  <1>5. CASE Settle \/ UNCHANGED vars
    BY <1>5 DEF Settle, vars, IInv, TypeOK, ClosedCountsTheRun, TrialIsUnblemished,
                CooldownFromLastOpening
  <1> QED BY <1>1, <1>2, <1>3, <1>4, <1>5 DEF Next

\* The inductive invariant holds in every reachable state.
THEOREM Invariance == Spec => []IInv
  BY InitIInv, NextIInv, PTL DEF Spec

-----------------------------------------------------------------------------
(* What follows from it.                                                   *)

\* Every variable keeps its type.
THEOREM TypeCorrect == Spec => []TypeOK
  BY Invariance, PTL DEF IInv

\* A CLOSED breaker counts exactly the failures since the last success.
THEOREM CountsTheRun == Spec => []ClosedCountsTheRun
  BY Invariance, PTL DEF IInv

\* A step that opens a CLOSED breaker, or closes it, records a result.
LEMMA PhaseChanges ==
    ASSUME IInv, [Next]_vars
    PROVE  /\ breaker.state = "closed" /\ breaker'.state # "closed"
                => breaker'.state = "open" /\ failRun' = FailureThreshold
           /\ breaker.state # "closed" /\ breaker'.state = "closed"
                => breaker.state = "half_open" /\ goodRun' = HalfOpenMax
           /\ breaker.state = "open" /\ (breaker'.state # "open" \/ running' \ running # {})
                => CooledDown(breaker)
  <1>0. breaker \in Breaker /\ breaker.state \in {"closed", "open", "half_open"}
    BY FieldValues DEF IInv, TypeOK, Breaker
  <1>1. ASSUME NEW c \in Callers, Call(c)
        PROVE  \/ breaker' = breaker /\ breaker.state # "open"
               \/ /\ breaker.state = "open" /\ CooledDown(breaker)
                  /\ breaker'.state = "half_open"
    <2>1. ShouldAllow(breaker) /\ breaker' = AfterShouldAllow(breaker)
      BY <1>1 DEF Call
    <2>2. CASE breaker.state = "open"
      BY <1>0, <2>1, <2>2, ShouldAllowEffect DEF ShouldAllow
    <2>3. CASE breaker.state # "open"
      BY <1>0, <2>1, <2>3, ShouldAllowEffect
    <2> QED BY <2>2, <2>3
  <1>2. ASSUME NEW c \in Callers, Record(c, TRUE)
        PROVE  \/ breaker'.state = breaker.state /\ running' \subseteq running
               \/ /\ breaker.state = "half_open" /\ breaker'.state = "closed"
                  /\ goodRun' = HalfOpenMax
    <2>1. breaker' = RecordSuccess(breaker) /\ running' \subseteq running
      BY <1>2 DEF Record
    <2>2. CASE breaker.state = "half_open" /\ breaker.successes + 1 >= HalfOpenMax
      <3>1. breaker'.state = "closed"
        BY <1>0, <2>1, <2>2, SuccessEffect
      <3>2. /\ breaker.successes \in Nat /\ goodRun \in 0..HalfOpenMax
            /\ breaker.successes <= goodRun
        BY <2>2 DEF IInv, TypeOK, Breaker, TrialIsUnblemished
      <3>3. goodRun' = HalfOpenMax
        BY <1>2, <2>2, <3>2, BreakerAssumption DEF Record, UpTo
      <3> QED BY <2>2, <3>1, <3>3
    <2>3. CASE ~(breaker.state = "half_open" /\ breaker.successes + 1 >= HalfOpenMax)
      BY <1>0, <2>1, <2>3, SuccessEffect
    <2> QED BY <2>2, <2>3
  <1>3. ASSUME NEW c \in Callers, Record(c, FALSE)
        PROVE  \/ breaker'.state = breaker.state /\ running' \subseteq running
               \/ breaker.state = "half_open" /\ breaker'.state = "open"
               \/ /\ breaker.state = "closed" /\ breaker'.state = "open"
                  /\ failRun' = FailureThreshold
    <2>1. breaker' = RecordFailure(breaker) /\ running' \subseteq running
      BY <1>3 DEF Record
    <2>2. CASE breaker.state = "closed" /\ breaker.failures + 1 >= FailureThreshold
      <3>1. breaker'.state = "open"
        BY <1>0, <2>1, <2>2, FailureEffect
      <3>2. failRun \in 0..FailureThreshold /\ breaker.failures = failRun
        BY <2>2 DEF IInv, TypeOK, ClosedCountsTheRun
      <3>3. failRun' = FailureThreshold
        BY <1>3, <2>2, <3>2, BreakerAssumption DEF Record, UpTo
      <3> QED BY <2>2, <3>1, <3>3
    <2>3. CASE ~(breaker.state = "closed" /\ breaker.failures + 1 >= FailureThreshold)
      BY <1>0, <2>1, <2>3, FailureEffect
    <2> QED BY <2>2, <2>3
  <1>4. ASSUME Tick
        PROVE  breaker'.state = breaker.state /\ running' = running
    BY <1>0, <1>4, AgeEffect DEF Tick
  <1>5. ASSUME Settle \/ UNCHANGED vars
        PROVE  breaker' = breaker /\ running' = running
    BY <1>5 DEF Settle, vars
  <1>6. CASE \E c \in Callers : Call(c)
    BY <1>1, <1>6
  <1>7. CASE \E c \in Callers : Succeed(c) \/ Cancel(c)
    BY <1>2, <1>7 DEF Succeed, Cancel
  <1>8. CASE \E c \in Callers : Fail(c)
    BY <1>3, <1>8 DEF Fail
  <1>9. CASE Tick
    BY <1>4, <1>9
  <1>10. CASE Settle \/ UNCHANGED vars
    BY <1>5, <1>10
  <1> QED BY <1>6, <1>7, <1>8, <1>9, <1>10 DEF Next

\* The breaker opens from CLOSED only at the FailureThreshold-th failure in a row.
THEOREM OpensRight == Spec => OpensOnABadRun
  <1>1. IInv /\ [Next]_vars
          => [breaker.state = "closed" /\ breaker'.state = "open"
                => failRun' = FailureThreshold]_vars
    BY PhaseChanges
  <1> QED BY <1>1, Invariance, PTL DEF Spec, OpensOnABadRun

\* The breaker closes only at the HalfOpenMax-th success in a row.
THEOREM ClosesRight == Spec => ClosesOnAGoodRun
  <1>1. IInv /\ [Next]_vars
          => [breaker.state # "closed" /\ breaker'.state = "closed"
                => breaker.state = "half_open" /\ goodRun' = HalfOpenMax]_vars
    BY PhaseChanges
  <1> QED BY <1>1, Invariance, PTL DEF Spec, ClosesOnAGoodRun

\* An OPEN breaker starts no call for a whole cooldown after it last opened.
THEOREM RestsRight == Spec => RestsAWholeCooldown
  <1>1. IInv /\ [Next]_vars
          => [breaker.state = "open" /\ (breaker'.state # "open" \/ running' \ running # {})
                => rest = Cooldown]_vars
    <2>1. SUFFICES ASSUME IInv, breaker.state = "open", CooledDown(breaker)
                   PROVE  rest = Cooldown
      BY PhaseChanges
    <2>2. breaker.elapsed = rest /\ rest \in 0..Cooldown
      BY <2>1 DEF IInv, TypeOK, CooldownFromLastOpening
    <2> QED BY <2>1, <2>2, BreakerAssumption DEF CooledDown
  <1> QED BY <1>1, Invariance, PTL DEF Spec, RestsAWholeCooldown

-----------------------------------------------------------------------------
(* Shared breakers.  No breaker and nothing written or read through Redis  *)
(* is OPEN or HALF_OPEN without the date of the opening; and no breaker is *)
(* left with nothing that would move it, unless its load took a cooldown.  *)

DatedSnapshot == {s \in Snapshot : Dated(s)}
DatedHash == DatedSnapshot \cup {NoHash}
DatedLoad == [phase : LoadPhases, data : DatedHash]
DatedSave == [snap : DatedSnapshot, step : SaveSteps]

\* The invariant: what is in a process, in Redis and on the way between them is dated.
\* A load carries dates from the hash to a breaker, a save carries them back.
DatedInv ==
    /\ local \in [Replicas -> DatedBreaker]
    /\ load \in [Replicas -> DatedLoad]
    /\ saves \in [Replicas -> Seq(DatedSave)]
    /\ hash \in DatedHash

-----------------------------------------------------------------------------
\* A new breaker, as every process begins with one, is dated: it is CLOSED.
LEMMA InitDated == InitBreaker \in DatedBreaker
  BY FieldValues DEF InitBreaker, DatedBreaker, Breaker

\* The absent hash is dated.
LEMMA NoHashDated == NoHash \in DatedHash /\ Dated(NoHash)
  BY DEF DatedHash, NoHash, Dated

\* _persist writes the date of a dated breaker.
LEMMA SnapshotDated ==
    ASSUME NEW b \in DatedBreaker
    PROVE  SnapshotOf(b) \in DatedSnapshot
  <1>1. b \in Breaker /\ (b.state \in {"open", "half_open"} => b.elapsed # None)
    BY DEF DatedBreaker
  <1>2. b.state \in CircuitBreakerState /\ b.failures \in Nat /\ (b.elapsed # None) \in BOOLEAN
    BY <1>1 DEF Breaker
  <1>3. SnapshotOf(b) \in Snapshot
    BY <1>2 DEF SnapshotOf, Snapshot
  <1>4. Dated(SnapshotOf(b))
    BY <1>1 DEF SnapshotOf, Dated
  <1> QED BY <1>3, <1>4 DEF DatedSnapshot

\* A load makes a dated breaker from dated fields, whatever age it takes the date for.
LEMMA LoadedDated ==
    ASSUME NEW b \in DatedBreaker, NEW data \in DatedHash, NEW r \in Loaded(b, data)
    PROVE  r \in DatedBreaker
  <1>1. CASE data = NoHash
    BY <1>1 DEF Loaded
  <1>2. CASE data # NoHash
    <2>1. data \in Snapshot /\ Dated(data)
      BY <1>2 DEF DatedHash, DatedSnapshot
    <2>2. data.state \in CircuitBreakerState /\ data.failures \in Nat
      BY <2>1 DEF Snapshot
    <2>3. PICK e \in IF data.dated THEN 0..Cooldown ELSE {b.elapsed} :
            r = [b EXCEPT !.state = data.state, !.failures = data.failures, !.elapsed = e]
      BY <1>2 DEF Loaded
    <2>4. b \in Breaker /\ b.elapsed \in Elapsed
      BY DEF DatedBreaker, Breaker
    <2>5. e \in Elapsed
      BY <2>3, <2>4 DEF Elapsed
    <2>6. data.dated => e # None
      BY <2>3, BreakerAssumption DEF None
    <2>7. r \in Breaker /\ r.state = data.state /\ r.elapsed = e
      BY <2>2, <2>3, <2>4, <2>5 DEF Breaker
    <2> QED BY <2>1, <2>6, <2>7 DEF DatedBreaker, Dated
  <1> QED BY <1>1, <1>2

\* Ending one save leaves the others as they are.
LEMMA RemoveSave ==
    ASSUME NEW S, NEW q \in Seq(S), NEW i \in DOMAIN q
    PROVE  RemoveAt(q, i) \in Seq(S)
  <1>1. Len(q) \in Nat /\ DOMAIN q = 1..Len(q) /\ \A j \in 1..Len(q) : q[j] \in S
    BY ElementOfSeq
  <1>2. i - 1 \in Int /\ i + 1 \in Int /\ Len(q) \in Int
    BY <1>1
  <1>3. (\A j \in 1..(i - 1) : q[j] \in S) /\ (\A j \in (i + 1)..Len(q) : q[j] \in S)
    BY <1>1
  <1>4. SubSeq(q, 1, i - 1) \in Seq(S)
    BY <1>2, <1>3, SubSeqProperties
  <1>5. SubSeq(q, i + 1, Len(q)) \in Seq(S)
    BY <1>2, <1>3, SubSeqProperties
  <1> QED BY <1>4, <1>5, ConcatProperties DEF RemoveAt

-----------------------------------------------------------------------------
\* The initial state satisfies the invariant.
LEMMA InitDatedInv == SharedInit => DatedInv
  <1> SUFFICES ASSUME SharedInit PROVE DatedInv
    OBVIOUS
  <1>1. Fresh \in DatedLoad
    BY NoHashDated DEF Fresh, DatedLoad, LoadPhases
  <1>2. <<>> \in Seq(DatedSave)
    OBVIOUS
  <1> QED BY <1>1, <1>2, InitDated, NoHashDated DEF SharedInit, DatedInv

\* A call that is let through, with the copy as it is or as the load makes it.
LEMMA AdmitDated ==
    ASSUME DatedInv, NEW r \in Replicas, NEW b \in DatedBreaker, Admit(r, b)
    PROVE  local' \in [Replicas -> DatedBreaker]
  BY KeepsTheDate DEF DatedInv, Admit

\* Every step of a load keeps the invariant.
LEMMA LoadDatedInv ==
    ASSUME DatedInv, NEW r \in Replicas, StartLoad(r) \/ LoadStep(r)
    PROVE  DatedInv'
  <1>1. load[r] \in DatedLoad /\ local[r] \in DatedBreaker
    BY DEF DatedInv
  <1>2. CASE StartLoad(r)
    <2>1. [load[r] EXCEPT !.phase = "sent"] \in DatedLoad
      BY <1>1 DEF DatedLoad, LoadPhases
    <2> QED BY <1>2, <2>1 DEF DatedInv, StartLoad
  <1>3. CASE ReadHash(r)
    <2>1. [phase |-> "read", data |-> hash] \in DatedLoad
      BY DEF DatedInv, DatedLoad, LoadPhases
    <2> QED BY <1>3, <2>1 DEF DatedInv, ReadHash
  <1>4. [phase |-> "done", data |-> NoHash] \in DatedLoad
    BY NoHashDated DEF DatedLoad, LoadPhases
  <1>5. CASE FinishLoad(r)
    <2>1. PICK b \in Loaded(local[r], load[r].data) : Admit(r, b)
      BY <1>5 DEF FinishLoad
    <2>2. load[r].data \in DatedHash
      BY <1>1 DEF DatedLoad
    <2>3. local' \in [Replicas -> DatedBreaker]
      BY <1>1, <2>1, <2>2, LoadedDated, AdmitDated
    <2> QED BY <1>4, <1>5, <2>3 DEF DatedInv, FinishLoad
  <1>6. CASE FailLoad(r)
    <2>1. local' \in [Replicas -> DatedBreaker]
      BY <1>1, <1>6, AdmitDated DEF FailLoad
    <2> QED BY <1>4, <1>6, <2>1 DEF DatedInv, FailLoad
  <1> QED BY <1>2, <1>3, <1>5, <1>6 DEF LoadStep

\* A result is recorded, and a save of the copy it leaves begins.
LEMMA FinishDatedInv ==
    ASSUME DatedInv, NEW r \in Replicas, NEW success \in BOOLEAN, Finish(r, success)
    PROVE  DatedInv'
  <1>1. local' \in [Replicas -> DatedBreaker]
    BY KeepsTheDate DEF DatedInv, Finish
  <1>2. [snap |-> SnapshotOf(local'[r]), step |-> "hset"] \in DatedSave
    BY <1>1, SnapshotDated DEF DatedSave, SaveSteps
  <1>3. saves[r] \in Seq(DatedSave)
    BY DEF DatedInv
  <1>4. Append(saves[r], [snap |-> SnapshotOf(local'[r]), step |-> "hset"]) \in Seq(DatedSave)
    BY <1>2, <1>3
  <1>5. saves' \in [Replicas -> Seq(DatedSave)]
    BY <1>4 DEF DatedInv, Finish
  <1> QED BY <1>1, <1>5 DEF DatedInv, Finish

\* The commands of a save, done or failed.
LEMMA SaveDatedInv ==
    ASSUME DatedInv, NEW r \in Replicas, NEW i \in DOMAIN saves[r], Save(r, i)
    PROVE  DatedInv'
  <1>1. saves[r] \in Seq(DatedSave) /\ saves[r][i] \in DatedSave
    BY ElementOfSeq DEF DatedInv
  <1>2. CASE SaveHash(r, i)
    <2>1. saves[r][i].snap \in DatedHash
      BY <1>1 DEF DatedSave, DatedHash
    <2>2. [saves[r][i] EXCEPT !.step = "expire"] \in DatedSave
      BY <1>1 DEF DatedSave, SaveSteps
    <2>3. [saves[r] EXCEPT ![i] = [saves[r][i] EXCEPT !.step = "expire"]] \in Seq(DatedSave)
      BY <1>1, <2>2, ExceptSeq
    <2>4. saves' \in [Replicas -> Seq(DatedSave)]
      BY <1>2, <2>3 DEF DatedInv, SaveHash
    <2> QED BY <1>2, <2>1, <2>4 DEF DatedInv, SaveHash
  <1>3. RemoveAt(saves[r], i) \in Seq(DatedSave)
    BY <1>1, RemoveSave
  <1>4. CASE SaveExpiry(r, i)
    BY <1>3, <1>4 DEF DatedInv, SaveExpiry
  <1>5. CASE FailSave(r, i)
    BY <1>3, <1>5 DEF DatedInv, FailSave
  <1> QED BY <1>2, <1>4, <1>5 DEF Save

\* Every step keeps the invariant.
LEMMA NextDatedInv == DatedInv /\ [SharedNext]_sharedVars => DatedInv'
  <1> SUFFICES ASSUME DatedInv, [SharedNext]_sharedVars PROVE DatedInv'
    OBVIOUS
  <1>1. ASSUME NEW r \in Replicas, StartLoad(r) \/ LoadStep(r) PROVE DatedInv'
    BY <1>1, LoadDatedInv
  <1>2. ASSUME NEW r \in Replicas, StartCall(r) PROVE DatedInv'
    <2>1. local[r] \in DatedBreaker
      BY DEF DatedInv
    <2>2. local' \in [Replicas -> DatedBreaker]
      BY <1>2, <2>1, AdmitDated DEF StartCall
    <2> QED BY <1>2, <2>2 DEF DatedInv, StartCall
  <1>3. ASSUME NEW r \in Replicas, NEW success \in BOOLEAN, Finish(r, success) PROVE DatedInv'
    BY <1>3, FinishDatedInv
  <1>4. ASSUME NEW r \in Replicas, NEW i \in DOMAIN saves[r], Save(r, i) PROVE DatedInv'
    BY <1>4, SaveDatedInv
  <1>5. ASSUME NEW r \in Replicas, Restart(r) PROVE DatedInv'
    <2>1. Fresh \in DatedLoad
      BY NoHashDated DEF Fresh, DatedLoad, LoadPhases
    <2>2. <<>> \in Seq(DatedSave)
      OBVIOUS
    <2> QED BY <1>5, <2>1, <2>2, InitDated DEF DatedInv, Restart
  <1>6. CASE ClockTicks
    <2>1. local' \in [Replicas -> DatedBreaker]
      BY <1>6, KeepsTheDate DEF DatedInv, ClockTicks
    <2>2. hash' \in DatedHash
      BY <1>6, NoHashDated DEF DatedInv, ClockTicks
    <2> QED BY <1>6, <2>1, <2>2 DEF DatedInv, ClockTicks
  <1>7. CASE Recovery
    BY <1>7 DEF DatedInv, Recovery
  <1>8. CASE UNCHANGED sharedVars
    BY <1>8 DEF DatedInv, sharedVars
  <1> QED BY <1>1, <1>2, <1>3, <1>4, <1>5, <1>6, <1>7, <1>8 DEF SharedNext

\* The invariant says of every copy, load, save and of the hash what the property says.
LEMMA DatedInvIsEnough == DatedInv => NeverOpenWithoutDate
  <1> SUFFICES ASSUME DatedInv PROVE NeverOpenWithoutDate
    OBVIOUS
  <1>1. \A s \in DatedHash : Dated(s)
    BY NoHashDated DEF DatedHash, DatedSnapshot
  <1>2. Dated(hash)
    BY <1>1 DEF DatedInv
  <1>3. ASSUME NEW r \in Replicas
        PROVE  /\ local[r].state \in {"open", "half_open"} => local[r].elapsed # None
               /\ Dated(load[r].data)
               /\ \A i \in DOMAIN saves[r] : Dated(saves[r][i].snap)
    <2>1. local[r] \in DatedBreaker /\ load[r] \in DatedLoad /\ saves[r] \in Seq(DatedSave)
      BY DEF DatedInv
    <2>2. local[r].state \in {"open", "half_open"} => local[r].elapsed # None
      BY <2>1 DEF DatedBreaker
    <2>3. Dated(load[r].data)
      BY <1>1, <2>1 DEF DatedLoad
    <2>4. ASSUME NEW i \in DOMAIN saves[r] PROVE Dated(saves[r][i].snap)
      <3>1. saves[r][i] \in DatedSave
        BY <2>1, ElementOfSeq
      <3> QED BY <3>1 DEF DatedSave, DatedSnapshot
    <2> QED BY <2>2, <2>3, <2>4
  <1> QED BY <1>2, <1>3 DEF NeverOpenWithoutDate

\* For every number of processes, threshold and cooldown: no copy of the breaker is
\* ever locked in OPEN for want of _opened_at, and none can be by what Redis holds.
THEOREM AlwaysDated == SharedSpec => []NeverOpenWithoutDate
  <1>1. SharedSpec => []DatedInv
    BY InitDatedInv, NextDatedInv, PTL DEF SharedSpec
  <1> QED BY <1>1, DatedInvIsEnough, PTL
-----------------------------------------------------------------------------
(* Nothing is stuck.                                                       *)

\* CLOSED, a breaker has room for a failure; HALF_OPEN, its successes are all the tests
\* that it has counted, and leave room for another.
Below(s) == s.state = "closed" => s.failures < FailureThreshold
Steady(b) == b.state = "half_open" => b.calls = b.successes /\ b.calls < HalfOpenMax

BelowBreaker == {b \in Breaker : Below(b)}
BelowSnapshot == {s \in Snapshot : Below(s)}
BelowHash == BelowSnapshot \cup {NoHash}
BelowLoad == [phase : LoadPhases, data : BelowHash]
BelowSave == [snap : BelowSnapshot, step : SaveSteps]

\* As long as its load has not taken a cooldown, a copy gets no further than to OPEN: it
\* cannot have opened before the load began.
Young(b, ticks) ==
    /\ b.state # "half_open" /\ b.successes = 0 /\ b.calls = 0
    /\ b.elapsed # None => b.elapsed <= ticks

\* The invariant.  The tests that a load could leave used up are those of a copy that is
\* not Young when the load ends: only after a whole cooldown.
LoadInv(r) ==
    /\ load[r].phase = "not_started" => local[r] = InitBreaker /\ inFlight[r] = 0 /\ waited[r] = 0
    /\ load[r].phase # "done" /\ waited[r] < Cooldown => Young(local[r], waited[r])
    /\ ~ Overtaken(r) => Steady(local[r])

MoveInv ==
    /\ local \in [Replicas -> BelowBreaker]
    /\ load \in [Replicas -> BelowLoad]
    /\ waited \in [Replicas -> 0..Cooldown]
    /\ inFlight \in [Replicas -> Nat]
    /\ saves \in [Replicas -> Seq(BelowSave)]
    /\ hash \in BelowHash
    /\ \A r \in Replicas : LoadInv(r)

\* A new copy can move, and is as young as can be.
LEMMA InitMoves == InitBreaker \in BelowBreaker /\ Young(InitBreaker, 0) /\ Steady(InitBreaker)
  BY FieldValues, BreakerAssumption DEF InitBreaker, BelowBreaker, Breaker, Below, Young, Steady

\* The absent hash stops nothing.
LEMMA NoHashBelow == NoHash \in BelowHash
  BY DEF BelowHash

\* should_allow and the clock keep what a copy can still do.
LEMMA AskingMoves ==
    ASSUME NEW b \in BelowBreaker
    PROVE  /\ AfterShouldAllow(b) \in BelowBreaker /\ Age(b) \in BelowBreaker
           /\ Steady(b) => Steady(AfterShouldAllow(b)) /\ Steady(Age(b))
  <1>1. b \in Breaker /\ Below(b)
    BY DEF BelowBreaker
  <1>2. AfterShouldAllow(b) \in Breaker /\ Age(b) \in Breaker
    BY <1>1, BreakerType
  <1>3. /\ AfterShouldAllow(b) \in BelowBreaker
        /\ Steady(b) => Steady(AfterShouldAllow(b))
    <2>1. CASE b.state = "open" /\ CooledDown(b)
      BY <1>1, <1>2, <2>1, ShouldAllowEffect, BreakerAssumption DEF BelowBreaker, Below, Steady
    <2>2. CASE ~ (b.state = "open" /\ CooledDown(b))
      BY <1>1, <2>2, ShouldAllowEffect
    <2> QED BY <2>1, <2>2
  <1>4. /\ Age(b) \in BelowBreaker
        /\ Steady(b) => Steady(Age(b))
    <2>1. /\ Age(b).state = b.state /\ Age(b).failures = b.failures
          /\ Age(b).calls = b.calls /\ Age(b).successes = b.successes
      BY <1>1 DEF Age, Breaker
    <2> QED BY <1>1, <1>2, <2>1 DEF BelowBreaker, Below, Steady
  <1> QED BY <1>3, <1>4

\* So do the results.
LEMMA ResultsMove ==
    ASSUME NEW b \in BelowBreaker
    PROVE  /\ RecordSuccess(b) \in BelowBreaker /\ RecordFailure(b) \in BelowBreaker
           /\ Steady(b) => Steady(RecordSuccess(b)) /\ Steady(RecordFailure(b))
  <1>1. b \in Breaker /\ Below(b)
    BY DEF BelowBreaker
  <1>2. RecordSuccess(b) \in Breaker /\ RecordFailure(b) \in Breaker
    BY <1>1, BreakerType
  <1>3. b.failures \in Nat /\ b.successes \in Nat /\ b.calls \in Nat /\ b.state \in {"closed", "open", "half_open"}
    BY <1>1 DEF Breaker, CircuitBreakerState
  <1>4. /\ RecordSuccess(b) \in BelowBreaker
        /\ Steady(b) => Steady(RecordSuccess(b))
    <2>1. CASE b.state = "closed"
      <3>1. RecordSuccess(b).state = "closed" /\ RecordSuccess(b).failures = 0
        BY <1>1, <2>1 DEF RecordSuccess, Breaker
      <3> QED BY <1>2, <3>1, BreakerAssumption DEF BelowBreaker, Below, Steady
    <2>2. CASE b.state = "half_open" /\ b.successes + 1 >= HalfOpenMax
      <3>1. RecordSuccess(b).state = "closed" /\ RecordSuccess(b).failures = 0
        BY <1>1, <2>2 DEF RecordSuccess, Close, Breaker
      <3> QED BY <1>2, <3>1, BreakerAssumption DEF BelowBreaker, Below, Steady
    <2>3. CASE b.state = "half_open" /\ ~ (b.successes + 1 >= HalfOpenMax)
      <3>1. /\ RecordSuccess(b).state = "half_open"
            /\ RecordSuccess(b).successes = b.successes + 1 /\ RecordSuccess(b).calls = b.calls + 1
        BY <1>1, <2>3 DEF RecordSuccess, Breaker
      <3> QED BY <1>1, <1>2, <1>3, <2>3, <3>1, BreakerAssumption DEF BelowBreaker, Below, Steady
    <2>4. CASE b.state = "open"
      BY <2>4 DEF RecordSuccess
    <2> QED BY <1>3, <2>1, <2>2, <2>3, <2>4
  <1>5. /\ RecordFailure(b) \in BelowBreaker
        /\ Steady(b) => Steady(RecordFailure(b))
    <2>1. CASE b.state = "closed" /\ b.failures + 1 >= FailureThreshold
      <3>1. RecordFailure(b).state = "open"
        BY <1>1, <2>1 DEF RecordFailure, FailClosed, Open, Breaker
      <3> QED BY <1>2, <3>1 DEF BelowBreaker, Below, Steady
    <2>2. CASE b.state = "closed" /\ ~ (b.failures + 1 >= FailureThreshold)
      <3>1. RecordFailure(b).state = "closed" /\ RecordFailure(b).failures = b.failures + 1
        BY <1>1, <2>2 DEF RecordFailure, FailClosed, Breaker
      <3> QED BY <1>2, <1>3, <2>2, <3>1, BreakerAssumption DEF BelowBreaker, Below, Steady
    <2>3. CASE b.state = "half_open"
      <3>1. RecordFailure(b).state = "open"
        BY <1>1, <2>3 DEF RecordFailure, Open, Breaker
      <3> QED BY <1>2, <3>1 DEF BelowBreaker, Below, Steady
    <2>4. CASE b.state = "open"
      BY <2>4 DEF RecordFailure
    <2> QED BY <1>3, <2>1, <2>2, <2>3, <2>4
  <1> QED BY <1>4, <1>5

\* A young copy stays young: calls and results count no test, and the clock ages the
\* opening no faster than the load.
LEMMA StaysYoung ==
    ASSUME NEW b \in Breaker, NEW n \in 0..(Cooldown - 1), Young(b, n)
    PROVE  /\ Young(AfterShouldAllow(b), n) /\ Young(RecordSuccess(b), n) /\ Young(RecordFailure(b), n)
           /\ Young(Age(b), n + 1)
  <1>1. n \in Nat /\ n < Cooldown /\ Cooldown \in Nat
    BY BreakerAssumption
  <1>2. ~ CooledDown(b)
    BY <1>1 DEF Young, CooledDown, Breaker, Elapsed, None
  <1>3. Young(AfterShouldAllow(b), n)
    BY <1>2 DEF AfterShouldAllow
  <1>4. Young(RecordSuccess(b), n)
    BY DEF Young, RecordSuccess, Breaker
  <1>5. Young(RecordFailure(b), n)
    BY <1>1 DEF Young, RecordFailure, FailClosed, Open, Breaker
  <1>6. Young(Age(b), n + 1)
    BY <1>1 DEF Young, Age, Breaker, Elapsed, None
  <1> QED BY <1>3, <1>4, <1>5, <1>6

\* A load makes a copy that has room for a failure, from fields that do; it leaves it
\* with the tests it had.
LEMMA LoadedMoves ==
    ASSUME NEW b \in BelowBreaker, NEW data \in BelowHash, NEW l, l \in Loaded(b, data)
    PROVE  /\ l \in BelowBreaker
           /\ Steady(b) /\ data.state # "half_open" => Steady(l)
           /\ b.calls = 0 /\ b.successes = 0 => Steady(l)
  <1>1. CASE data = NoHash
    BY <1>1, BreakerAssumption DEF Loaded, Steady
  <1>2. CASE data # NoHash
    <2>1. data.state \in CircuitBreakerState /\ data.failures \in Nat /\ Below(data)
      BY <1>2 DEF BelowHash, BelowSnapshot, Snapshot
    <2>2. PICK e \in IF data.dated THEN 0..Cooldown ELSE {b.elapsed} :
            l = [b EXCEPT !.state = data.state, !.failures = data.failures, !.elapsed = e]
      BY <1>2 DEF Loaded
    <2>3. e \in Elapsed /\ b \in Breaker
      BY <2>2 DEF Elapsed, BelowBreaker, Breaker
    <2>4. /\ l \in Breaker /\ l.state = data.state /\ l.failures = data.failures
          /\ l.successes = b.successes /\ l.calls = b.calls
      BY <2>1, <2>2, <2>3 DEF Breaker
    <2> QED BY <2>1, <2>4, BreakerAssumption DEF BelowBreaker, Below, Steady
  <1> QED BY <1>1, <1>2

\* _persist writes fields that stop nothing.
LEMMA SnapshotBelow ==
    ASSUME NEW b \in BelowBreaker
    PROVE  SnapshotOf(b) \in BelowSnapshot
  <1>1. b.state \in CircuitBreakerState /\ b.failures \in Nat /\ (b.elapsed # None) \in BOOLEAN /\ Below(b)
    BY DEF BelowBreaker, Breaker
  <1> QED BY <1>1 DEF SnapshotOf, BelowSnapshot, Snapshot, Below

\* Every process begins so.
LEMMA InitMoveInv == SharedInit => MoveInv
  <1> SUFFICES ASSUME SharedInit PROVE MoveInv
    OBVIOUS
  <1>1. Fresh \in BelowLoad /\ <<>> \in Seq(BelowSave) /\ 0 \in 0..Cooldown
    BY NoHashBelow, BreakerAssumption DEF Fresh, BelowLoad, LoadPhases
  <1>2. /\ load \in [Replicas -> BelowLoad] /\ saves \in [Replicas -> Seq(BelowSave)]
        /\ waited \in [Replicas -> 0..Cooldown]
    BY <1>1 DEF SharedInit
  <1>3. \A r \in Replicas : LoadInv(r)
    BY InitMoves DEF SharedInit, LoadInv
  <1> QED BY <1>2, <1>3, InitMoves, NoHashBelow DEF SharedInit, MoveInv

\* What a step changes of one process leaves the invariant of the others alone.
LEMMA OthersKeep ==
    ASSUME MoveInv, NEW q \in Replicas,
           local'[q] = local[q], load'[q] = load[q], waited'[q] = waited[q], inFlight'[q] = inFlight[q]
    PROVE  LoadInv(q)'
  BY DEF MoveInv, LoadInv, Overtaken

\* A load is sent and read.
LEMMA LoadGoesOn ==
    ASSUME MoveInv, NEW r \in Replicas, StartLoad(r) \/ ReadHash(r)
    PROVE  MoveInv'
  <1>1. load[r] \in BelowLoad /\ LoadInv(r) /\ hash \in BelowHash
    BY DEF MoveInv
  <1>2. PICK next \in BelowLoad : next.phase \in {"sent", "read"} /\ load' = [load EXCEPT ![r] = next]
    <2>1. CASE StartLoad(r)
      <3>1. [load[r] EXCEPT !.phase = "sent"] \in BelowLoad
        BY <1>1 DEF BelowLoad, LoadPhases
      <3> QED BY <1>1, <2>1, <3>1 DEF StartLoad, BelowLoad
    <2>2. CASE ReadHash(r)
      BY <1>1, <2>2 DEF ReadHash, BelowLoad, LoadPhases
    <2> QED BY <2>1, <2>2
  <1>3. /\ load' \in [Replicas -> BelowLoad] /\ load'[r].phase \in {"sent", "read"}
        /\ \A q \in Replicas : q # r => load'[q] = load[q]
    BY <1>2 DEF MoveInv
  <1>4. UNCHANGED <<local, waited, inFlight, saves, hash>> /\ load[r].phase \in {"not_started", "sent"}
    BY DEF StartLoad, ReadHash
  <1>5. LoadInv(r)'
    BY <1>1, <1>3, <1>4 DEF LoadInv, Overtaken
  <1>6. \A q \in Replicas : LoadInv(q)'
    BY <1>3, <1>4, <1>5, OthersKeep
  <1> QED BY <1>3, <1>4, <1>6 DEF MoveInv

\* A load ends, with what it read or without.
LEMMA LoadEnds ==
    ASSUME MoveInv, NEW r \in Replicas, FinishLoad(r) \/ FailLoad(r)
    PROVE  MoveInv'
  <1>1. /\ load[r] \in BelowLoad /\ local[r] \in BelowBreaker /\ inFlight[r] \in Nat
        /\ waited[r] \in 0..Cooldown /\ LoadInv(r)
    BY DEF MoveInv
  <1>2. load[r].phase \in {"sent", "read"} /\ ~ Overtaken(r)
    BY DEF FinishLoad, FailLoad, Loading, Overtaken
  <1>3. PICK b, ticks :
          /\ Admit(r, b) /\ waited' = [waited EXCEPT ![r] = ticks]
          /\ b \in BelowBreaker /\ ticks \in 0..Cooldown /\ (ticks < Cooldown => Steady(b))
    <2>1. CASE FinishLoad(r)
      <3>1. PICK b \in Loaded(local[r], load[r].data) : Admit(r, b)
        BY <2>1 DEF FinishLoad
      <3>2. load[r].data \in BelowHash /\ Steady(local[r])
        BY <1>1, <1>2 DEF BelowLoad, LoadInv
      <3>3. /\ b \in BelowBreaker
            /\ load[r].data.state # "half_open" => Steady(b)
            /\ local[r].calls = 0 /\ local[r].successes = 0 => Steady(b)
        BY <1>1, <3>1, <3>2, LoadedMoves
      <3>4. waited[r] < Cooldown => local[r].calls = 0 /\ local[r].successes = 0
        BY <1>1, <1>2 DEF LoadInv, Young
      <3>5. 0 \in 0..Cooldown
        BY BreakerAssumption
      <3>6. CASE load[r].data.state = "half_open"
        BY <1>1, <2>1, <3>1, <3>3, <3>4, <3>6 DEF FinishLoad
      <3>7. CASE load[r].data.state # "half_open"
        BY <2>1, <3>1, <3>3, <3>5, <3>7 DEF FinishLoad
      <3> QED BY <3>6, <3>7
    <2>2. CASE FailLoad(r)
      <3>1. Admit(r, local[r]) /\ waited' = [waited EXCEPT ![r] = 0]
        BY <2>2 DEF FailLoad
      <3>2. 0 \in 0..Cooldown /\ Steady(local[r])
        BY <1>1, <1>2, BreakerAssumption DEF LoadInv
      <3> QED BY <1>1, <3>1, <3>2
    <2> QED BY <2>1, <2>2
  <1>4. load' = [load EXCEPT ![r] = [phase |-> "done", data |-> NoHash]] /\ UNCHANGED <<saves, hash>>
    BY DEF FinishLoad, FailLoad
  <1>5. [phase |-> "done", data |-> NoHash] \in BelowLoad
    BY NoHashBelow DEF BelowLoad, LoadPhases
  <1>6. /\ load' \in [Replicas -> BelowLoad] /\ load'[r].phase = "done"
        /\ \A q \in Replicas : q # r => load'[q] = load[q]
    BY <1>1, <1>4, <1>5 DEF MoveInv
  <1>7. /\ waited' \in [Replicas -> 0..Cooldown] /\ waited'[r] = ticks
        /\ \A q \in Replicas : q # r => waited'[q] = waited[q]
    BY <1>3 DEF MoveInv
  <1>8. AfterShouldAllow(b) \in BelowBreaker /\ (Steady(b) => Steady(AfterShouldAllow(b)))
    BY <1>3, AskingMoves
  <1>9. /\ local' \in [Replicas -> BelowBreaker] /\ local'[r] = AfterShouldAllow(b)
        /\ \A q \in Replicas : q # r => local'[q] = local[q]
    BY <1>3, <1>8 DEF MoveInv, Admit
  <1>10. /\ inFlight' \in [Replicas -> Nat]
         /\ \A q \in Replicas : q # r => inFlight'[q] = inFlight[q]
    BY <1>1, <1>3 DEF MoveInv, Admit
  <1>11. LoadInv(r)'
    <2>1. ticks = Cooldown \/ ticks < Cooldown
      BY <1>3, BreakerAssumption
    <2> QED BY <1>3, <1>6, <1>7, <1>8, <1>9, <2>1 DEF LoadInv, Overtaken
  <1>12. \A q \in Replicas : LoadInv(q)'
    BY <1>6, <1>7, <1>9, <1>10, <1>11, OthersKeep
  <1> QED BY <1>4, <1>6, <1>7, <1>9, <1>10, <1>12 DEF MoveInv

\* A call that is let through keeps it.
LEMMA CallMoves ==
    ASSUME MoveInv, NEW r \in Replicas, StartCall(r)
    PROVE  MoveInv'
  <1>1. /\ local[r] \in BelowBreaker /\ local[r] \in Breaker /\ inFlight[r] \in Nat
        /\ waited[r] \in 0..Cooldown /\ LoadInv(r)
    BY DEF MoveInv, BelowBreaker
  <1>2. load[r].phase # "not_started" /\ UNCHANGED <<load, waited, saves, hash>>
    BY DEF StartCall
  <1>3. /\ local' \in [Replicas -> BelowBreaker]
        /\ local'[r] = AfterShouldAllow(local[r]) /\ \A q \in Replicas : q # r => local'[q] = local[q]
        /\ Steady(local[r]) => Steady(local'[r])
    BY <1>1, AskingMoves DEF MoveInv, StartCall, Admit
  <1>4. /\ inFlight' \in [Replicas -> Nat] /\ \A q \in Replicas : q # r => inFlight'[q] = inFlight[q]
    BY <1>1 DEF MoveInv, StartCall, Admit
  <1>5. waited[r] < Cooldown /\ Young(local[r], waited[r]) => Young(local'[r], waited[r])
    <2>1. waited[r] < Cooldown => waited[r] \in 0..(Cooldown - 1)
      BY <1>1, BreakerAssumption
    <2> QED BY <1>1, <1>3, <2>1, StaysYoung
  <1>6. LoadInv(r)'
    BY <1>1, <1>2, <1>3, <1>5 DEF LoadInv, Overtaken
  <1>7. \A q \in Replicas : LoadInv(q)'
    BY <1>2, <1>3, <1>4, <1>6, OthersKeep
  <1> QED BY <1>2, <1>3, <1>4, <1>7 DEF MoveInv

\* A result is recorded, and a save begins.
LEMMA FinishMoves ==
    ASSUME MoveInv, NEW r \in Replicas, NEW success \in BOOLEAN, Finish(r, success)
    PROVE  MoveInv'
  <1>1. /\ local[r] \in BelowBreaker /\ local[r] \in Breaker /\ inFlight[r] \in Nat /\ inFlight[r] > 0
        /\ waited[r] \in 0..Cooldown /\ LoadInv(r)
        /\ load' = load /\ hash' = hash
    BY DEF MoveInv, BelowBreaker, Finish
  <1>2. load[r].phase # "not_started"
    BY <1>1 DEF LoadInv
  <1>3. /\ local'[r] \in {RecordSuccess(local[r]), RecordFailure(local[r])}
        /\ \A q \in Replicas : q # r => local'[q] = local[q]
        /\ local' \in [Replicas -> BelowBreaker]
        /\ Steady(local[r]) => Steady(local'[r])
    BY <1>1, ResultsMove DEF MoveInv, Finish
  <1>4. /\ inFlight' \in [Replicas -> Nat] /\ \A q \in Replicas : q # r => inFlight'[q] = inFlight[q]
    BY <1>1 DEF MoveInv, Finish
  <1>5. /\ waited' \in [Replicas -> 0..Cooldown] /\ \A q \in Replicas : q # r => waited'[q] = waited[q]
        /\ waited'[r] = IF load[r].phase = "done" /\ local'[r].state # "half_open" THEN 0 ELSE waited[r]
    <2>1. 0 \in 0..Cooldown
      BY BreakerAssumption
    <2> QED BY <1>1, <2>1 DEF MoveInv, Finish
  <1>6. [snap |-> SnapshotOf(local'[r]), step |-> "hset"] \in BelowSave
    BY <1>3, SnapshotBelow DEF BelowSave, SaveSteps
  <1>7. saves' \in [Replicas -> Seq(BelowSave)]
    BY <1>6 DEF MoveInv, Finish
  <1>8. waited[r] < Cooldown /\ Young(local[r], waited[r]) => Young(local'[r], waited[r])
    <2>1. waited[r] < Cooldown => waited[r] \in 0..(Cooldown - 1)
      BY <1>1, BreakerAssumption
    <2> QED BY <1>1, <1>3, <2>1, StaysYoung
  <1>9. LoadInv(r)'
    <2>1. CASE load[r].phase # "done"
      BY <1>1, <1>2, <1>3, <1>5, <1>8, <2>1 DEF LoadInv, Overtaken
    <2>2. CASE load[r].phase = "done" /\ local'[r].state # "half_open"
      BY <1>1, <2>2 DEF LoadInv, Overtaken, Steady
    <2>3. CASE load[r].phase = "done" /\ local'[r].state = "half_open"
      BY <1>1, <1>3, <1>5, <2>3 DEF LoadInv, Overtaken
    <2> QED BY <2>1, <2>2, <2>3
  <1>10. \A q \in Replicas : LoadInv(q)'
    BY <1>1, <1>3, <1>4, <1>5, <1>9, OthersKeep
  <1> QED BY <1>1, <1>3, <1>4, <1>5, <1>7, <1>10 DEF MoveInv

\* The commands of a save, done or failed.
LEMMA SaveMoves ==
    ASSUME MoveInv, NEW r \in Replicas, NEW i \in DOMAIN saves[r], Save(r, i)
    PROVE  MoveInv'
  <1>1. saves[r] \in Seq(BelowSave) /\ saves[r][i] \in BelowSave
    BY ElementOfSeq DEF MoveInv
  <1>2. UNCHANGED <<local, load, waited, inFlight>>
    BY DEF Save, SaveHash, SaveExpiry, FailSave
  <1>3. \A q \in Replicas : LoadInv(q)'
    BY <1>2, OthersKeep
  <1>4. CASE SaveHash(r, i)
    <2>1. saves[r][i].snap \in BelowHash
      BY <1>1 DEF BelowSave, BelowHash
    <2>2. [saves[r][i] EXCEPT !.step = "expire"] \in BelowSave
      BY <1>1 DEF BelowSave, SaveSteps
    <2>3. [saves[r] EXCEPT ![i] = [saves[r][i] EXCEPT !.step = "expire"]] \in Seq(BelowSave)
      BY <1>1, <2>2, ExceptSeq
    <2>4. saves' \in [Replicas -> Seq(BelowSave)]
      BY <1>4, <2>3 DEF MoveInv, SaveHash
    <2> QED BY <1>2, <1>3, <1>4, <2>1, <2>4 DEF MoveInv, SaveHash
  <1>5. CASE SaveExpiry(r, i) \/ FailSave(r, i)
    <2>1. RemoveAt(saves[r], i) \in Seq(BelowSave)
      BY <1>1, RemoveSave
    <2>2. saves' \in [Replicas -> Seq(BelowSave)] /\ hash' = hash
      BY <1>5, <2>1 DEF MoveInv, SaveExpiry, FailSave
    <2> QED BY <1>2, <1>3, <2>2 DEF MoveInv
  <1> QED BY <1>4, <1>5 DEF Save

\* A process ends, and another takes its place.
LEMMA RestartMoves ==
    ASSUME MoveInv, NEW r \in Replicas, Restart(r)
    PROVE  MoveInv'
  <1>1. Fresh \in BelowLoad /\ <<>> \in Seq(BelowSave) /\ 0 \in 0..Cooldown
    BY NoHashBelow, BreakerAssumption DEF Fresh, BelowLoad, LoadPhases
  <1>2. /\ load' \in [Replicas -> BelowLoad] /\ saves' \in [Replicas -> Seq(BelowSave)]
        /\ waited' \in [Replicas -> 0..Cooldown] /\ waited'[r] = 0 /\ load'[r] = Fresh
    BY <1>1 DEF MoveInv, Restart
  <1>3. /\ local' \in [Replicas -> BelowBreaker] /\ inFlight' \in [Replicas -> Nat]
        /\ local'[r] = InitBreaker /\ inFlight'[r] = 0 /\ hash' = hash
        /\ \A q \in Replicas : q # r => /\ load'[q] = load[q] /\ local'[q] = local[q]
                                        /\ inFlight'[q] = inFlight[q] /\ waited'[q] = waited[q]
    BY InitMoves DEF MoveInv, Restart
  <1>4. LoadInv(r)'
    BY <1>2, <1>3, InitMoves DEF LoadInv
  <1>5. \A q \in Replicas : LoadInv(q)'
    BY <1>3, <1>4, OthersKeep
  <1> QED BY <1>2, <1>3, <1>5 DEF MoveInv

\* Time ages a copy no faster than the load that it waits for.
LEMMA TickMoves ==
    ASSUME MoveInv, ClockTicks
    PROVE  MoveInv'
  <1>1. local' \in [Replicas -> BelowBreaker]
    BY AskingMoves DEF MoveInv, ClockTicks
  <1>2. hash' \in BelowHash
    BY NoHashBelow DEF MoveInv, ClockTicks
  <1>3. waited' \in [Replicas -> 0..Cooldown]
    <2> SUFFICES ASSUME NEW r \in Replicas
                 PROVE  (IF Loading(r) /\ waited[r] < Cooldown THEN waited[r] + 1 ELSE waited[r]) \in 0..Cooldown
      BY DEF ClockTicks
    <2>1. waited[r] \in 0..Cooldown
      BY DEF MoveInv
    <2> QED BY <2>1, BreakerAssumption
  <1>4. ASSUME NEW r \in Replicas PROVE LoadInv(r)'
    <2>1. /\ local[r] \in BelowBreaker /\ local[r] \in Breaker /\ load[r] \in BelowLoad
          /\ waited[r] \in 0..Cooldown /\ LoadInv(r)
      BY DEF MoveInv, BelowBreaker
    <2>2. /\ local'[r] = Age(local[r]) /\ load'[r] = load[r] /\ inFlight'[r] = inFlight[r]
          /\ waited'[r] = IF Loading(r) /\ waited[r] < Cooldown THEN waited[r] + 1 ELSE waited[r]
      BY DEF ClockTicks
    <2>3. Steady(local[r]) => Steady(local'[r])
      BY <2>1, <2>2, AskingMoves
    <2>4. CASE load[r].phase = "not_started"
      <3>1. local[r] = InitBreaker /\ Age(InitBreaker) = InitBreaker /\ ~ Loading(r)
        BY <2>1, <2>4, BreakerAssumption DEF LoadInv, Age, InitBreaker, None, Loading
      <3> QED BY <2>1, <2>2, <2>4, <3>1 DEF LoadInv, Overtaken
    <2>5. CASE load[r].phase = "done"
      BY <2>1, <2>2, <2>3, <2>5 DEF LoadInv, Overtaken, Loading
    <2>6. CASE load[r].phase \in {"sent", "read"} /\ waited[r] < Cooldown
      <3>1. waited[r] \in 0..(Cooldown - 1) /\ Young(local[r], waited[r]) /\ Steady(local[r])
        BY <2>1, <2>6, BreakerAssumption DEF LoadInv, Overtaken
      <3>2. Young(local'[r], waited[r] + 1) /\ waited'[r] = waited[r] + 1
        BY <2>1, <2>2, <2>6, <3>1, StaysYoung DEF Loading
      <3> QED BY <2>2, <2>3, <2>6, <3>1, <3>2 DEF LoadInv, Overtaken
    <2>7. CASE load[r].phase \in {"sent", "read"} /\ ~ (waited[r] < Cooldown)
      BY <2>1, <2>2, <2>3, <2>7 DEF LoadInv, Overtaken
    <2> QED BY <2>1, <2>4, <2>5, <2>6, <2>7 DEF BelowLoad, LoadPhases
  <1> QED BY <1>1, <1>2, <1>3, <1>4 DEF MoveInv, ClockTicks

\* Every step keeps the invariant.
LEMMA NextMoves == MoveInv /\ [SharedNext]_sharedVars => MoveInv'
  <1> SUFFICES ASSUME MoveInv, [SharedNext]_sharedVars PROVE MoveInv'
    OBVIOUS
  <1>1. CASE Recovery \/ UNCHANGED sharedVars
    <2>1. UNCHANGED <<local, load, waited, inFlight, saves, hash>>
      BY <1>1 DEF Recovery, sharedVars
    <2>2. \A q \in Replicas : LoadInv(q)'
      BY <2>1, OthersKeep
    <2> QED BY <2>1, <2>2 DEF MoveInv
  <1> QED BY <1>1, LoadGoesOn, LoadEnds, CallMoves, FinishMoves, SaveMoves, RestartMoves, TickMoves
          DEF SharedNext, LoadStep

\* However long Redis takes to answer a load, the copies of however many processes, for
\* every threshold, cooldown and number of tests, always have something left that moves
\* them: nothing that one process saves and another loads makes a CLOSED copy that cannot
\* open, or a HALF_OPEN copy that admits no test unless its load took a whole cooldown.
THEOREM NothingSticks == SharedSpec => []NeverStuck
  <1>1. MoveInv => NeverStuck
    <2> SUFFICES ASSUME MoveInv, NEW r \in Replicas
                 PROVE  /\ local[r].state = "closed" => local[r].failures < FailureThreshold
                        /\ local[r].state = "half_open" /\ ~ Overtaken(r) => ShouldAllow(local[r])
      BY DEF NeverStuck, ClosedBelowThreshold, HalfOpenAdmits
    <2>1. local[r] \in BelowBreaker /\ (~ Overtaken(r) => Steady(local[r]))
      BY DEF MoveInv, LoadInv
    <2> QED BY <2>1 DEF BelowBreaker, Below, Steady, ShouldAllow
  <1> QED BY <1>1, InitMoveInv, NextMoves, PTL DEF SharedSpec

===============================================================================
