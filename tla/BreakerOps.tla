------------------------------ MODULE BreakerOps ------------------------------
(***************************************************************************)
(* The state machine of sdk/circuit_breaker.py, class CircuitBreaker, as   *)
(* operators on the record of its fields.  Every method of the class is    *)
(* synchronous, so each one is a single operator; the modules that drive a *)
(* breaker decide who calls it and when.                                   *)
(*                                                                         *)
(* The code keeps _opened_at and only ever compares now - _opened_at with  *)
(* the cooldown; the record keeps that difference, "elapsed", saturated at *)
(* Cooldown, so that no clock value appears in a state.                    *)
(***************************************************************************)
LOCAL INSTANCE Integers

CONSTANTS
    FailureThreshold,   \* failure_threshold: consecutive failures that open the breaker
    Cooldown,           \* cooldown_seconds, in ticks
    HalfOpenMax         \* half_open_max_calls: successes that close it again

\* The minima of PreventionConfigRequest (the constructor's defaults satisfy them).
ASSUME BreakerAssumption ==
    /\ FailureThreshold \in Nat \ {0}
    /\ Cooldown \in Nat \ {0}
    /\ HalfOpenMax \in Nat \ {0}

None == -1              \* Python's None, for _opened_at

CircuitBreakerState == {"closed", "open", "half_open"}

Elapsed == (0..Cooldown) \cup {None}

Breaker == [state     : CircuitBreakerState,
            failures  : Nat,        \* _consecutive_failures
            elapsed   : Elapsed,    \* now - _opened_at
            successes : Nat,        \* _half_open_successes
            calls     : Nat]        \* _half_open_calls

InitBreaker == [state |-> "closed", failures |-> 0, elapsed |-> None,
                successes |-> 0, calls |-> 0]

CooledDown(b) == b.elapsed # None /\ b.elapsed >= Cooldown

\* The answer of should_allow ...
ShouldAllow(b) ==
    \/ b.state = "closed"
    \/ b.state = "open" /\ CooledDown(b)
    \/ b.state = "half_open" /\ b.calls < HalfOpenMax

\* Mutant: the counters of the last test phase are kept.
AfterShouldAllowKeepsCounters(b) ==
    IF b.state = "open" /\ CooledDown(b) THEN [b EXCEPT !.state = "half_open"] ELSE b

\* ... and the state it leaves: asking an OPEN breaker after the cooldown is what
\* moves it to HALF_OPEN.
AfterShouldAllow(b) ==
    IF b.state = "open" /\ CooledDown(b)
    THEN [b EXCEPT !.state = "half_open", !.successes = 0, !.calls = 0]
    ELSE b

Close(b) == [b EXCEPT !.state = "closed", !.failures = 0, !.elapsed = None]

\* Mutant: _opened_at is set only when it is None.
OpenKeepsDate(b) ==
    [b EXCEPT !.state = "open", !.elapsed = IF @ = None THEN 0 ELSE @]

Open(b) == [b EXCEPT !.state = "open", !.elapsed = 0]

\* Mutant: a success does not reset the failures.
RecordSuccessKeepsFailures(b) ==
    IF b.state = "half_open" /\ b.successes + 1 >= HalfOpenMax
    THEN Close([b EXCEPT !.successes = @ + 1, !.calls = @ + 1])
    ELSE IF b.state = "half_open" THEN [b EXCEPT !.successes = @ + 1, !.calls = @ + 1] ELSE b

\* Outside CLOSED and HALF_OPEN a result changes nothing: a call that was let
\* through before the breaker opened and ends after it is ignored.
RecordSuccess(b) ==
    CASE b.state = "closed" -> [b EXCEPT !.failures = 0]
      [] b.state = "half_open" ->
           LET counted == [b EXCEPT !.successes = @ + 1, !.calls = @ + 1]
           IN  IF counted.successes >= HalfOpenMax THEN Close(counted) ELSE counted
      [] OTHER -> b

\* A failure in the CLOSED state.
FailClosed(b) ==
    LET counted == [b EXCEPT !.failures = @ + 1]
    IN  IF counted.failures >= FailureThreshold THEN Open(counted) ELSE counted

\* Mutants: a failed test does not reopen the breaker, or closes it.
RecordFailureForgives(b) ==
    CASE b.state = "closed" -> FailClosed(b)
      [] b.state = "half_open" -> [b EXCEPT !.calls = @ + 1]
      [] OTHER -> b

RecordFailureCloses(b) ==
    CASE b.state = "closed" -> FailClosed(b)
      [] b.state = "half_open" -> Close([b EXCEPT !.calls = @ + 1])
      [] OTHER -> b

RecordFailure(b) ==
    CASE b.state = "closed" -> FailClosed(b)
      [] b.state = "half_open" -> Open([b EXCEPT !.calls = @ + 1])
      [] OTHER -> b

\* One tick of the monotonic clock.
Age(b) ==
    IF b.elapsed \in 0..(Cooldown - 1) THEN [b EXCEPT !.elapsed = @ + 1] ELSE b
=============================================================================
