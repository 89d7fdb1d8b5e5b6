---------------------------- MODULE CircuitBreaker ----------------------------
(***************************************************************************)
(* One in-process circuit breaker (sdk/circuit_breaker.py) under the calls *)
(* that MCPClientProxy.call_tool makes concurrently to its server.  A call *)
(* asks should_allow, awaits the server, and records its result when it    *)
(* ends: between the two any number of other calls start and end, so a     *)
(* result may reach a breaker that has since opened, begun its test phase  *)
(* or closed again.                                                        *)
(*                                                                         *)
(* Left out: a client that holds as many breakers as it may drops the      *)
(* oldest for a new server (client.py:211-212); the server of the one      *)
(* dropped begins again with a new breaker, CLOSED.                        *)
(***************************************************************************)
EXTENDS Integers, FiniteSets, BreakerOps

CONSTANT Callers        \* tasks that call the server, one call at a time each

VARIABLES
    breaker,    \* the CircuitBreaker object
    running,    \* callers whose call has been let through and has not ended
    server,     \* the environment: "flaky", and then for ever "healthy" or "dead"
    \* History variables: no guard reads them.
    failRun,    \* length of the trailing run of failures recorded (up to FailureThreshold)
    goodRun,    \* length of the trailing run of successes recorded (up to HalfOpenMax)
    rest,       \* ticks since the breaker last opened (up to Cooldown)
    probes      \* running calls let through in the current HALF_OPEN phase

vars == <<breaker, running, server, failRun, goodRun, rest, probes>>

UpTo(n, bound) == IF n < bound THEN n ELSE bound

Init ==
    /\ breaker = InitBreaker
    /\ running = {}
    /\ server = "flaky"
    /\ failRun = 0 /\ goodRun = 0
    /\ rest = 0
    /\ probes = {}

\* Step 1 of _check_prevention: the call goes ahead.  (A refused call changes no
\* state of the breaker and starts nothing.)
Call(c) ==
    /\ c \notin running
    /\ ShouldAllow(breaker)
    /\ breaker' = AfterShouldAllow(breaker)
    /\ running' = running \cup {c}
    /\ probes' = CASE breaker.state = "open" -> {c}
                   [] breaker.state = "half_open" -> probes \cup {c}
                   [] OTHER -> {}
    /\ UNCHANGED <<server, failRun, goodRun, rest>>

\* The finally block of call_tool, step 1 of _post_call_update.
Record(c, success) ==
    /\ c \in running
    /\ running' = running \ {c}
    /\ breaker' = IF success THEN RecordSuccess(breaker) ELSE RecordFailure(breaker)
    /\ failRun' = IF success THEN 0 ELSE UpTo(failRun + 1, FailureThreshold)
    /\ goodRun' = IF success THEN UpTo(goodRun + 1, HalfOpenMax) ELSE 0
    /\ rest' = IF breaker.state # "open" /\ breaker'.state = "open" THEN 0 ELSE rest
    /\ probes' = IF breaker'.state = "half_open" THEN probes \ {c} ELSE {}
    /\ UNCHANGED server

Succeed(c) == server # "dead" /\ Record(c, TRUE)

\* An exception, a TimeoutError or an error result.
Fail(c) == server # "healthy" /\ Record(c, FALSE)

\* The task is cancelled while it awaits the server, by asyncio.wait_for for one.
\* CancelledError is no Exception: the finally block runs with the initial SUCCESS.
Cancel(c) == Record(c, TRUE)

\* One tick of time.monotonic().
Tick ==
    /\ breaker' = Age(breaker)
    /\ rest' = UpTo(rest + 1, Cooldown)
    /\ UNCHANGED <<running, server, failRun, goodRun, probes>>

\* The server recovers, or dies, for good.
Settle ==
    /\ server = "flaky"
    /\ server' \in {"healthy", "dead"}
    /\ UNCHANGED <<breaker, running, failRun, goodRun, rest, probes>>

Next ==
    \/ \E c \in Callers : Call(c) \/ Succeed(c) \/ Fail(c) \/ Cancel(c)
    \/ Tick
    \/ Settle

Spec == Init /\ [][Next]_vars

\* Time passes, the agents keep calling, and the event loop runs every call that is
\* let through to its end.  Nothing makes a server settle or a caller cancel.
Fairness ==
    /\ WF_vars(Tick)
    /\ \A c \in Callers : /\ WF_vars(Call(c))
                          /\ WF_vars(Succeed(c) \/ Fail(c))

FairSpec == Spec /\ Fairness
-----------------------------------------------------------------------------
\* Every variable has its type, and the half-open and closed counters stay below
\* the limits at which their phase ends.
TypeOK ==
    /\ breaker \in Breaker
    /\ running \subseteq Callers
    /\ server \in {"flaky", "healthy", "dead"}
    /\ failRun \in 0..FailureThreshold
    /\ goodRun \in 0..HalfOpenMax
    /\ rest \in 0..Cooldown
    /\ probes \subseteq running

\* While the breaker is CLOSED, _consecutive_failures is the length of the unbroken
\* run of failures that ends at the last result, whichever calls those were and
\* however they overlapped; the run is shorter than the threshold.
ClosedCountsTheRun ==
    breaker.state = "closed" =>
        breaker.failures = failRun /\ failRun < FailureThreshold

\* While the breaker is HALF_OPEN no result of the phase was a failure, and it has
\* not yet seen the successes that end it.
TrialIsUnblemished ==
    breaker.state = "half_open" =>
        /\ breaker.successes = breaker.calls
        /\ breaker.successes < HalfOpenMax
        /\ breaker.successes <= goodRun

\* The OPEN breaker measures its cooldown from the moment it last opened, also when
\* a failed test reopened it.
CooldownFromLastOpening == breaker.state = "open" => breaker.elapsed = rest

\* The breaker opens from CLOSED only at the FailureThreshold-th failure in a row.
OpensOnABadRun ==
    [][breaker.state = "closed" /\ breaker'.state = "open"
         => failRun' = FailureThreshold]_vars

\* The breaker closes only when its last HalfOpenMax results were all successes.
ClosesOnAGoodRun ==
    [][breaker.state # "closed" /\ breaker'.state = "closed"
         => breaker.state = "half_open" /\ goodRun' = HalfOpenMax]_vars

\* A breaker that opened lets no call through for a whole Cooldown, counted from its
\* last opening: a late failure of an older call does not shorten the rest.
RestsAWholeCooldown ==
    [][breaker.state = "open" /\ (breaker'.state # "open" \/ running' \ running # {})
         => rest = Cooldown]_vars

\* The inductive invariant behind the three action properties.
IInv ==
    /\ TypeOK
    /\ ClosedCountsTheRun
    /\ TrialIsUnblemished
    /\ CooldownFromLastOpening

\* Once the server is healthy for good the breaker closes and stays closed: no
\* interleaving of old calls, tests and cooldowns locks a healthy server out.
Recovers == server = "healthy" ~> [](breaker.state = "closed")

\* A server that is dead for good is cut off and stays so, unless callers keep
\* cancelling calls (see Cancel: each counts as a success).
DeadServerIsCutOff ==
    <>[](server = "dead") =>
        \/ <>[](breaker.state # "closed")
        \/ []<><<\E c \in Callers : Cancel(c)>>_vars

\* "HALF_OPEN -> testing recovery, limited calls allowed": what the module's
\* docstring says of the test phase.  The code counts a test when it ends, so it
\* does not hold.
LimitedTestCalls == breaker.state = "half_open" => Cardinality(probes) <= HalfOpenMax
=============================================================================
