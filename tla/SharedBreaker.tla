---------------------------- MODULE SharedBreaker -----------------------------
(***************************************************************************)
(* AsyncCircuitBreaker and RedisCircuitBreakerStore of                     *)
(* sdk/circuit_breaker.py: the breakers that several SDK processes keep    *)
(* for one server when the client has a redis_url.  Each process decides   *)
(* on its own copy; it loads the Redis hash once, at its first call, while *)
(* other calls go on with the copy as it is, and after every result it     *)
(* starts a task that saves a snapshot of the copy.  Those tasks overtake  *)
(* one another, and fail when Redis does.                                  *)
(***************************************************************************)
EXTENDS Integers, Sequences, SequencesExt, BreakerOps

CONSTANTS
    Replicas,   \* SDK processes that call the server
    MaxCalls,   \* bound: calls in flight in one process
    MaxSaves    \* bound: unfinished saves of one process

ASSUME SharedAssumption ==
    /\ MaxCalls \in Nat \ {0}
    /\ MaxSaves \in Nat \ {0}

VARIABLES
    local,      \* each process's CircuitBreaker
    load,       \* where its load of the hash is, and what it has read
    waited,     \* ticks that the load under way has taken; afterwards, ticks that it took,
                \* as long as the copy is in the HALF_OPEN phase that the load brought
    inFlight,   \* number of its calls in flight
    saves,      \* its saves under way, oldest first: a snapshot, the command to come
    hash,       \* the Redis hash, NoHash when the key is absent
    ttl,        \* ticks until the key expires; Forever for a key without expiry
    outage      \* the environment: while TRUE, the server and Redis may fail and a
                \* process may end; at some point it is over for good

sharedVars == <<local, load, waited, inFlight, saves, hash, ttl, outage>>

\* The fields of the hash.  Only the presence of opened_at matters: it is a reading of
\* its writer's monotonic clock, which says nothing on another machine.
Snapshot == [state : CircuitBreakerState, failures : Nat, dated : BOOLEAN]
NoHash == [state |-> "absent", failures |-> 0, dated |-> FALSE]
TTL == 2 * Cooldown                 \* _ttl
Forever == TTL + 1

LoadPhases == {"not_started", "sent", "read", "done"}
SaveSteps == {"hset", "expire"}

\* The fields that _persist writes.
SnapshotOf(b) == [state |-> b.state, failures |-> b.failures, dated |-> b.elapsed # None]

\* Mutant: the load forgets opened_at.
LoadedWithoutDate(b, data) ==
    IF data = NoHash THEN {b}
    ELSE {[b EXCEPT !.state = data.state, !.failures = data.failures]}

\* What _ensure_loaded makes of a breaker and the fields it read.  The half-open
\* counters are not among them; an empty opened_at leaves the one there is.
\* Against the local clock, the opened_at of another process can be any age.
Loaded(b, data) ==
    IF data = NoHash THEN {b}
    ELSE {[b EXCEPT !.state = data.state, !.failures = data.failures, !.elapsed = e] :
             e \in IF data.dated THEN 0..Cooldown ELSE {b.elapsed}}

Fresh == [phase |-> "not_started", data |-> NoHash]

SharedInit ==
    /\ local = [r \in Replicas |-> InitBreaker]
    /\ load = [r \in Replicas |-> Fresh]
    /\ waited = [r \in Replicas |-> 0]
    /\ inFlight = [r \in Replicas |-> 0]
    /\ saves = [r \in Replicas |-> <<>>]
    /\ hash = NoHash
    /\ ttl = Forever
    /\ outage = TRUE
-----------------------------------------------------------------------------
\* should_allow once the state is loaded, or while another call is loading it.
Admit(r, b) ==
    /\ local' = [local EXCEPT ![r] = AfterShouldAllow(b)]
    /\ inFlight' = [inFlight EXCEPT ![r] = IF ShouldAllow(b) THEN @ + 1 ELSE @]

\* A call starts.  One that the breaker refuses changes nothing.  The call that
\* awaits the load counts towards MaxCalls.
Loading(r) == load[r].phase \in {"sent", "read"}

StartCall(r) ==
    /\ load[r].phase # "not_started"
    /\ inFlight[r] < IF Loading(r) THEN MaxCalls - 1 ELSE MaxCalls
    /\ ShouldAllow(local[r])
    /\ Admit(r, local[r])
    /\ UNCHANGED <<load, waited, saves, hash, ttl, outage>>

\* The first call of a process awaits HGETALL.
StartLoad(r) ==
    /\ load[r].phase = "not_started"
    /\ load' = [load EXCEPT ![r].phase = "sent"]
    /\ UNCHANGED <<local, waited, inFlight, saves, hash, ttl, outage>>

\* Redis reads the hash.
ReadHash(r) ==
    /\ load[r].phase = "sent"
    /\ load' = [load EXCEPT ![r] = [phase |-> "read", data |-> hash]]
    /\ UNCHANGED <<local, waited, inFlight, saves, hash, ttl, outage>>

\* The answer arrives: the state read replaces whatever the other calls of the
\* process have made of the copy, and the first call goes on.
FinishLoad(r) ==
    /\ load[r].phase = "read"
    /\ \E b \in Loaded(local[r], load[r].data) : Admit(r, b)
    /\ waited' = [waited EXCEPT ![r] = IF load[r].data.state = "half_open" THEN @ ELSE 0]
    /\ load' = [load EXCEPT ![r] = [phase |-> "done", data |-> NoHash]]
    /\ UNCHANGED <<saves, hash, ttl, outage>>

\* The load raises: the copy stays as it is, and is never loaded again.
FailLoad(r) ==
    /\ outage
    /\ Loading(r)
    /\ Admit(r, local[r])
    /\ waited' = [waited EXCEPT ![r] = 0]
    /\ load' = [load EXCEPT ![r] = [phase |-> "done", data |-> NoHash]]
    /\ UNCHANGED <<saves, hash, ttl, outage>>

\* record_success and record_failure: a snapshot is saved whether or not the result
\* changed the copy.
Finish(r, success) ==
    /\ inFlight[r] > 0
    /\ ~ success => outage
    /\ Len(saves[r]) < MaxSaves
    /\ inFlight' = [inFlight EXCEPT ![r] = @ - 1]
    /\ local' = [local EXCEPT ![r] = IF success THEN RecordSuccess(@) ELSE RecordFailure(@)]
    /\ waited' = [waited EXCEPT ![r] =
                     IF load[r].phase = "done" /\ local'[r].state # "half_open" THEN 0 ELSE @]
    /\ saves' = [saves EXCEPT ![r] =
                    Append(@, [snap |-> SnapshotOf(local'[r]), step |-> "hset"])]
    /\ UNCHANGED <<load, hash, ttl, outage>>

\* HSET replaces the fields; the key keeps its time to live, a new one has none.
SaveHash(r, i) ==
    /\ saves[r][i].step = "hset"
    /\ hash' = saves[r][i].snap
    /\ saves' = [saves EXCEPT ![r][i].step = "expire"]
    /\ UNCHANGED <<local, load, waited, inFlight, ttl, outage>>

\* EXPIRE has no effect on a key that is gone.
SaveExpiry(r, i) ==
    /\ saves[r][i].step = "expire"
    /\ ttl' = IF hash = NoHash THEN ttl ELSE TTL
    /\ saves' = [saves EXCEPT ![r] = RemoveAt(@, i)]
    /\ UNCHANGED <<local, load, waited, inFlight, hash, outage>>

\* Either command raises; the save is logged and forgotten.
FailSave(r, i) ==
    /\ outage
    /\ saves' = [saves EXCEPT ![r] = RemoveAt(@, i)]
    /\ UNCHANGED <<local, load, waited, inFlight, hash, ttl, outage>>

\* The process ends and another takes its place.
Restart(r) ==
    /\ outage
    /\ local' = [local EXCEPT ![r] = InitBreaker]
    /\ load' = [load EXCEPT ![r] = Fresh]
    /\ waited' = [waited EXCEPT ![r] = 0]
    /\ inFlight' = [inFlight EXCEPT ![r] = 0]
    /\ saves' = [saves EXCEPT ![r] = <<>>]
    /\ UNCHANGED <<hash, ttl, outage>>

\* Time passes, for Redis too.
ClockTicks ==
    /\ local' = [r \in Replicas |-> Age(local[r])]
    /\ waited' = [r \in Replicas |->
                     IF Loading(r) /\ waited[r] < Cooldown THEN waited[r] + 1 ELSE waited[r]]
    /\ hash' = IF ttl = 1 THEN NoHash ELSE hash
    /\ ttl' = CASE ttl = Forever -> Forever
                [] ttl = 1 -> Forever
                [] OTHER -> ttl - 1
    /\ UNCHANGED <<load, inFlight, saves, outage>>

\* The server and Redis recover for good.
Recovery ==
    /\ outage
    /\ outage' = FALSE
    /\ UNCHANGED <<local, load, waited, inFlight, saves, hash, ttl>>

\* The tasks that save overtake one another.
Save(r, i) == SaveHash(r, i) \/ SaveExpiry(r, i) \/ FailSave(r, i)
LoadStep(r) == ReadHash(r) \/ FinishLoad(r) \/ FailLoad(r)

SharedNext ==
    \/ \E r \in Replicas :
         \/ StartLoad(r) \/ LoadStep(r) \/ StartCall(r)
         \/ \E success \in BOOLEAN : Finish(r, success)
         \/ \E i \in DOMAIN saves[r] : Save(r, i)
         \/ Restart(r)
    \/ ClockTicks
    \/ Recovery

SharedSpec == SharedInit /\ [][SharedNext]_sharedVars

\* Every process keeps calling; its event loop runs each call, load and save to the
\* end; time passes.  Nothing makes the outage end.
SharedFairness ==
    /\ WF_sharedVars(ClockTicks)
    /\ \A r \in Replicas : /\ WF_sharedVars(StartLoad(r) \/ StartCall(r))
                           /\ WF_sharedVars(LoadStep(r))
                           /\ WF_sharedVars(Finish(r, TRUE) \/ Finish(r, FALSE))
                           /\ WF_sharedVars(saves[r] # <<>> /\ Save(r, 1))

FairSharedSpec == SharedSpec /\ SharedFairness

\* The processes differ in name only, and no one of them has a role of its own.
Symmetry == Permutations(Replicas)
-----------------------------------------------------------------------------
\* An OPEN breaker without _opened_at refuses every call for ever.  No copy is in that
\* state, and neither Redis nor any message can put one there.
Dated(s) == s.state \in {"open", "half_open"} => s.dated

NeverOpenWithoutDate ==
    /\ Dated(hash)
    /\ \A r \in Replicas :
         /\ local[r].state \in {"open", "half_open"} => local[r].elapsed # None
         /\ Dated(load[r].data)
         /\ \A i \in DOMAIN saves[r] : Dated(saves[r][i].snap)

\* A copy that is CLOSED has room for a failure, also when the load mixed a remote
\* state with local counters.
ClosedBelowThreshold ==
    \A r \in Replicas : local[r].state = "closed" => local[r].failures < FailureThreshold

\* The copy is in a HALF_OPEN phase that its load brought, after a whole cooldown: long
\* enough for the other calls of the process to have opened the copy, tested the server
\* and counted tests that the load does not reset.
Overtaken(r) == load[r].phase = "done" /\ waited[r] = Cooldown

\* Any other copy that is HALF_OPEN admits a call: a load never leaves it with the tests
\* of an earlier phase used up.
HalfOpenAdmits ==
    \A r \in Replicas :
      local[r].state = "half_open" /\ ~ Overtaken(r) => ShouldAllow(local[r])

\* No copy is left with nothing that would move it, whatever a load mixed; the one
\* exception is a load that takes a whole cooldown and brings HALF_OPEN.
NeverStuck == ClosedBelowThreshold /\ HalfOpenAdmits

\* What such a load can leave: a copy that refuses every call, for ever.
Spent(r) == Overtaken(r) /\ ~ ShouldAllow(local[r])

\* Once the server is healthy and Redis is up for good, every copy that is not Spent ends
\* up CLOSED, and so does the hash, unless it expires or no process is left that calls:
\* no late save and no stale load brings the breaker back to OPEN for ever.
Converges ==
    ~ outage
        ~> [](/\ \A r \in Replicas : local[r].state = "closed" \/ Spent(r)
              /\ \/ hash = NoHash \/ hash.state = "closed"
                 \/ \A r \in Replicas : Spent(r))

\* "Worker A opening the breaker for postgres-mcp prevents Workers B and C from
\* continuing to hammer it": while Redis holds OPEN and the breaker of the process that
\* opened it is not over its cooldown, no process starts a call.  Those that have
\* loaded before do.
OpeningStopsOthers ==
    [][hash.state = "open"
         /\ (\E q \in Replicas : local[q].state = "open" /\ ~ CooledDown(local[q]))
         => \A r \in Replicas : inFlight'[r] <= inFlight[r]]_sharedVars
=============================================================================
