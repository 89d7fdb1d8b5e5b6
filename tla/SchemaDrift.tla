---------------------------- MODULE SchemaDrift -------------------------------
(***************************************************************************)
(* Health checks and the drift of a server's tools (health/checker.py,     *)
(* health/schema_tracker.py, and the tables of storage/postgres.py and     *)
(* storage/clickhouse.py).  A check pings a server, compares the hash of   *)
(* its tools with the last snapshot, saves an event when they differ, and  *)
(* stores the snapshot, its result and the tools, one await after the      *)
(* other.  Checks of the monitor loops and of requests overlap, the batch  *)
(* timeout cancels a check between any two of its steps, and the SDK       *)
(* writes the same catalog of tools.                                       *)
(*                                                                         *)
(* Checks run in a project or in none; snapshots, events, results and      *)
(* catalogs are kept per project, the rows of no project apart.  A hash is *)
(* modelled by the tools it is taken of.                                   *)
(*                                                                         *)
(* Left out: descriptions, latencies, and the tool probed as health_tool.  *)
(***************************************************************************)
EXTENDS Naturals

CONSTANTS
    Checkers,       \* what checks the server, one check at a time
    Loops,          \* ... those that do it again and again: langsight monitor
    Scopes,         \* where checks run: "global" or a project
    Tools, Params, Types,
    FirstTools,     \* the tools the server has at first
    MaxChanges,     \* bound: releases of the server that change its tools
    MaxDisturbed    \* bound: checks on request, that fail or are cancelled, and
                    \* tools posted by the SDK

None   == [hash |-> "none"]         \* no snapshot yet
NoTools == <<>>

\* What a tool declares: the type of each parameter, "any" when it gives none.
Schemas == UNION {[type : [D -> Types \cup {"any"}], required : SUBSET D] : D \in SUBSET Params}
ToolLists == UNION {[D -> Schemas] : D \in SUBSET Tools}

ASSUME CheckersAssumption ==
    /\ Loops \subseteq Checkers
    /\ FirstTools \in ToolLists
    /\ MaxChanges \in Nat /\ MaxDisturbed \in Nat

VARIABLES
    scopeOf,        \* where each checker's checks run
    server,         \* the tools the server has
    snapshot,       \* per scope, the tools of the latest snapshot
    catalog,        \* per scope, the rows of server_tools
    events,         \* drift events saved
    status,         \* per scope, the latest health result
    checks,         \* per checker, the check under way
    baselines,      \* history: per scope, the tools stored as a first snapshot
    changes, disturbed

vars == <<scopeOf, server, snapshot, catalog, events, status, checks, baselines, changes, disturbed>>

Idle == [step |-> "idle"]

-----------------------------------------------------------------------------
\* classify_drift

Nothing == ""       \* not a parameter, or no type before
Both(old, new) == DOMAIN old \cap DOMAIN new
Change(kind, tool, param) == [kind |-> kind, tool |-> tool, param |-> param, was |-> Nothing]

Removed(old, new) == {Change("tool_removed", t, Nothing) : t \in DOMAIN old \ DOMAIN new}
Added(old, new)   == {Change("tool_added", t, Nothing) : t \in DOMAIN new \ DOMAIN old}
NoLongerRequired(old, new) ==
    UNION {{Change("required_param_removed", t, p) :
                p \in old[t].required \ new[t].required} : t \in Both(old, new)}
NewlyRequired(old, new) ==
    UNION {{Change("required_param_added", t, p) :
                p \in new[t].required \ old[t].required} : t \in Both(old, new)}
\* A parameter that is gone, or that had or has no type, is passed over.
Retyped(old, new) ==
    UNION {{[Change("param_type_changed", t, p) EXCEPT !.was = old[t].type[p]] :
                p \in {q \in DOMAIN old[t].type \cap DOMAIN new[t].type :
                            /\ old[t].type[q] # "any" /\ new[t].type[q] # "any"
                            /\ old[t].type[q] # new[t].type[q]}} : t \in Both(old, new)}
NewOptional(old, new) ==
    UNION {{Change("optional_param_added", t, p) :
                p \in DOMAIN new[t].type \ (DOMAIN old[t].type \cup new[t].required)} :
           t \in Both(old, new)}

BreakingForSenders(old, new) ==     \* Mutant: only what callers send can break.
    Removed(old, new) \cup NoLongerRequired(old, new) \cup Retyped(old, new)
Breaking(old, new) ==
    Removed(old, new) \cup NoLongerRequired(old, new) \cup NewlyRequired(old, new)
    \cup Retyped(old, new)
Compatible(old, new) == Added(old, new) \cup NewOptional(old, new)
Changes(old, new) == Breaking(old, new) \cup Compatible(old, new)
has_breaking(old, new) == Breaking(old, new) # {}

\* "View full schemas": the schema before a change, from the one of today.
BeforeOptional(change, current) ==      \* Mutant: what is required now was so before.
    CASE change.kind = "optional_param_added" ->
            [current EXCEPT !.type = [q \in DOMAIN @ \ {change.param} |-> @[q]]]
      [] change.kind = "required_param_removed" ->
            [current EXCEPT !.required = @ \cup {change.param}]
      [] change.kind = "param_type_changed" ->
            [current EXCEPT !.type = [q \in DOMAIN @ \cup {change.param} |->
                IF q = change.param THEN change.was ELSE @[q]]]
      [] OTHER -> current
reconstructBeforeSchema(change, current) ==
    CASE change.kind = "optional_param_added" ->
            [current EXCEPT !.type = [q \in DOMAIN @ \ {change.param} |-> @[q]]]
      [] change.kind = "required_param_added" ->
            [current EXCEPT !.required = @ \ {change.param}]
      [] change.kind = "required_param_removed" ->
            [current EXCEPT !.required = @ \cup {change.param}]
      [] change.kind = "param_type_changed" ->
            [current EXCEPT !.type = [q \in DOMAIN @ \cup {change.param} |->
                IF q = change.param THEN change.was ELSE @[q]]]
      [] OTHER -> current

-----------------------------------------------------------------------------
\* The tables

NullRows == "global"        \* the rows of no project
\* Tools are added and replaced, never deleted.
Upserted(rows, tools) ==
    [t \in DOMAIN rows \cup DOMAIN tools |-> IF t \in DOMAIN tools THEN tools[t] ELSE rows[t]]
\* The tracker writes the rows of no project under the empty string, which the
\* foreign key to the projects refuses.
Accepted(check) == check.scope # "global" \/ check.tools = NoTools

-----------------------------------------------------------------------------
\* A check, step by step

Init ==
    /\ scopeOf \in [Checkers -> Scopes]
    /\ server = FirstTools
    /\ snapshot = [s \in Scopes |-> None]
    /\ catalog = [s \in Scopes \cup {NullRows} |-> NoTools]
    /\ events = {}
    /\ status = [s \in Scopes |-> "unknown"]
    /\ checks = [c \in Checkers |-> Idle]
    /\ baselines = [s \in Scopes |-> {}]
    /\ changes = 0 /\ disturbed = 0

At(c, step) == checks[c].step = step
Drifted(c) == checks[c].previous \notin {None, checks[c].tools}
AfterUnannounced(c) ==      \* Mutant: the event is saved when the snapshot is.
    CASE At(c, "diff")     -> "snapshot"
      [] At(c, "snapshot") -> IF Drifted(c) THEN "event" ELSE "store"
      [] At(c, "event")    -> "store"
      [] At(c, "store")    -> "result"
      [] At(c, "result")   -> "catalog"
AfterToolsFirst(c) ==       \* Mutant: the tools are stored before the snapshot.
    CASE At(c, "diff")     -> "event"
      [] At(c, "event")    -> "store"
      [] At(c, "store")    -> IF checks[c].tools = snapshot[checks[c].scope]
                              THEN "result" ELSE "snapshot"
      [] At(c, "snapshot") -> IF Drifted(c) THEN "result" ELSE "store"
      [] At(c, "result")   -> "catalog"
After(c) ==
    CASE At(c, "diff")     -> "event"
      [] At(c, "event")    -> "snapshot"
      [] At(c, "snapshot") -> "store"
      [] At(c, "store")    -> "result"
      [] At(c, "result")   -> "catalog"
GoesOn(c) == checks' = [checks EXCEPT ![c].step = After(c)]
Ends(c)   == checks' = [checks EXCEPT ![c] = Idle]
Reports(c, how) == status' = [status EXCEPT ![checks[c].scope] = how]

Disturb == disturbed < MaxDisturbed /\ disturbed' = disturbed + 1
Ping(c) ==
    /\ checks[c] = Idle
    /\ IF c \in Loops THEN UNCHANGED disturbed ELSE Disturb
    /\ checks' = [checks EXCEPT ![c] = [step |-> "hash", scope |-> scopeOf[c], tools |-> server,
                                        previous |-> None, old |-> NoTools]]
    /\ UNCHANGED <<scopeOf, server, snapshot, catalog, events, status, baselines, changes>>
GetHash(c) ==
    /\ At(c, "hash")
    /\ LET previous == snapshot[checks[c].scope]
       IN  checks' = [checks EXCEPT
            ![c].previous = previous,
            ![c].step = CASE previous = None            -> "snapshot"
                          [] previous = checks[c].tools -> "result"
                          [] OTHER                      -> "diff"]
    /\ UNCHANGED <<scopeOf, server, snapshot, catalog, events, status, baselines, changes, disturbed>>
\* get_server_tools is asked for no project, whatever the check's.
Diff(c) ==
    /\ At(c, "diff")
    /\ checks' = [checks EXCEPT ![c].old = catalog[NullRows], ![c].step = After(c)]
    /\ UNCHANGED <<scopeOf, server, snapshot, catalog, events, status, baselines, changes, disturbed>>
SaveEvent(c) ==
    /\ At(c, "event")
    /\ events' = events \cup {[scope |-> checks[c].scope, old |-> checks[c].old,
                               from |-> checks[c].previous, to |-> checks[c].tools]}
    /\ GoesOn(c)
    /\ UNCHANGED <<scopeOf, server, snapshot, catalog, status, baselines, changes, disturbed>>
SaveSnapshot(c) ==
    /\ At(c, "snapshot")
    /\ snapshot' = [snapshot EXCEPT ![checks[c].scope] = checks[c].tools]
    /\ baselines' = IF Drifted(c) THEN baselines
                    ELSE [baselines EXCEPT ![checks[c].scope] = @ \cup {checks[c].tools}]
    /\ GoesOn(c)
    /\ UNCHANGED <<scopeOf, server, catalog, events, status, changes, disturbed>>
StoreTools(c) ==
    /\ At(c, "store")
    /\ Accepted(checks[c])
    /\ catalog' = [catalog EXCEPT ![checks[c].scope] = Upserted(@, checks[c].tools)]
    /\ GoesOn(c)
    /\ UNCHANGED <<scopeOf, server, snapshot, events, status, baselines, changes, disturbed>>
StoreRefused(c) ==
    /\ At(c, "store")
    /\ ~Accepted(checks[c])
    /\ Reports(c, "down")
    /\ Ends(c)
    /\ UNCHANGED <<scopeOf, server, snapshot, catalog, events, baselines, changes, disturbed>>
SaveResult(c) ==
    /\ At(c, "result")
    /\ Reports(c, IF Drifted(c) THEN "degraded" ELSE "up")
    /\ GoesOn(c)
    /\ UNCHANGED <<scopeOf, server, snapshot, catalog, events, baselines, changes, disturbed>>
\* The same tools again, with no project as it should be.
StoreCatalog(c) ==
    /\ At(c, "catalog")
    /\ catalog' = [catalog EXCEPT ![checks[c].scope] = Upserted(@, checks[c].tools)]
    /\ Ends(c)
    /\ UNCHANGED <<scopeOf, server, snapshot, events, status, baselines, changes, disturbed>>

-----------------------------------------------------------------------------
\* What else happens

\* A ping or a query raises: the check reports the server down.
Fails(c) ==
    /\ checks[c] # Idle /\ Disturb
    /\ Reports(c, "down")
    /\ Ends(c)
    /\ UNCHANGED <<scopeOf, server, snapshot, catalog, events, baselines, changes>>
\* The batch times out or the process stops: nothing is stored.
Cancelled(c) ==
    /\ checks[c] # Idle /\ Disturb
    /\ Ends(c)
    /\ UNCHANGED <<scopeOf, server, snapshot, catalog, events, status, baselines, changes>>
\* A client of the server that wraps list_tools posts what it got.
record_tool_schemas(s) ==
    /\ Disturb
    /\ catalog' = [catalog EXCEPT ![s] = Upserted(@, server)]
    /\ UNCHANGED <<scopeOf, server, snapshot, events, status, checks, baselines, changes>>
ServerChanges ==
    /\ changes < MaxChanges /\ changes' = changes + 1
    /\ \E t \in Tools, schema \in Schemas :
        \/ server' = Upserted(server, [u \in {t} |-> schema])
        \/ server' = [u \in DOMAIN server \ {t} |-> server[u]]
    /\ UNCHANGED <<scopeOf, snapshot, catalog, events, status, checks, baselines, disturbed>>

Step(c) ==
    GetHash(c) \/ Diff(c) \/ SaveEvent(c) \/ SaveSnapshot(c) \/ StoreTools(c)
    \/ StoreRefused(c) \/ SaveResult(c) \/ StoreCatalog(c)
Next ==
    \/ \E c \in Checkers : Ping(c) \/ Step(c) \/ Fails(c) \/ Cancelled(c)
    \/ \E s \in Scopes : record_tool_schemas(s)
    \/ ServerChanges
Spec == Init /\ [][Next]_vars
\* A check goes on unless it is cancelled, and a loop begins the next one.
FairSpec ==
    /\ Spec
    /\ \A c \in Checkers : WF_vars(Step(c))
    /\ \A c \in Loops : WF_vars(Ping(c))

-----------------------------------------------------------------------------
\* Each event starts where the baseline or another event ended, and the latest
\* snapshot is one of these: however checks overlap and wherever they are cut
\* off, the drift history of a server never jumps over a change it stored.
Known(s) == baselines[s] \cup {e.to : e \in {d \in events : d.scope = s}}
HistoryHasNoGaps ==
    /\ \A s \in Scopes : snapshot[s] # None => snapshot[s] \in Known(s)
    /\ \A e \in events : e.from \in Known(e.scope)

\* A call of a tool, as JSON Schema reads it: what is not declared is let through.
Calls(schema) ==
    UNION {{call \in [D -> Types] :
                \A p \in D : schema.type[p] \in {"any", call[p]}} :
           D \in {E \in SUBSET DOMAIN schema.type : schema.required \subseteq E}}
Takes(schema, call) ==
    /\ schema.required \subseteq DOMAIN call
    /\ \A p \in DOMAIN call \cap DOMAIN schema.type : schema.type[p] \in {"any", call[p]}
CallsBreak(old, new) ==
    \E t \in DOMAIN old : \E call \in Calls(old[t]) :
        t \in DOMAIN new => ~Takes(new[t], call)
\* A parameter without a type that is given one is no change to classify_drift.
Tightened(old, new) ==
    \E t \in Both(old, new) : \E p \in DOMAIN old[t].type \cap DOMAIN new[t].type :
        old[t].type[p] = "any" /\ new[t].type[p] # "any"
\* classify_drift misses no change, untyped parameters apart, that makes a call
\* fail that the catalog it compared with allowed.
NoBreakMissed ==
    \A e \in events :
        CallsBreak(e.old, e.to) /\ ~Tightened(e.old, e.to) => has_breaking(e.old, e.to)

\* What classify_drift promises: a drift event reports breaking whenever calls
\* allowed by the tools of the last check fail on those of this one.
BreakingIsReported ==
    \A e \in events : CallsBreak(e.from, e.to) => has_breaking(e.old, e.to)

\* The change said to have been made, undone.
Undone(d, before) ==
    CASE d.kind = "optional_param_added"   -> d.param \notin DOMAIN before.type
      [] d.kind = "required_param_added"   -> d.param \notin before.required
      [] d.kind = "required_param_removed" -> d.param \in before.required
      [] d.kind = "param_type_changed"     ->
            d.param \in DOMAIN before.type /\ before.type[d.param] = d.was
      [] OTHER                             -> TRUE
\* What two schemas say of a parameter, and whether it is the same as far as types are given.
SaysOf(schema, p) == <<p \in schema.required, {schema.type[q] : q \in DOMAIN schema.type \cap {p}}>>
Alike(x, y, p) ==
    /\ p \in x.required <=> p \in y.required
    /\ p \in DOMAIN x.type \cap DOMAIN y.type =>
            "any" \in {x.type[p], y.type[p]} \/ x.type[p] = y.type[p]
\* "View full schemas" of an event in the history is computed from the schema of today,
\* whatever has become of the tool since.  It always shows the event's change undone; and
\* of every parameter that has not changed since the event, and that none of its other
\* changes concerns, what was said of it before the event.  Of the others it shows what
\* is said of them today.
BeforeWasBefore ==
    \A e \in events : \A t \in Both(e.old, e.to) \cap DOMAIN catalog[e.scope] :
    \A d \in {x \in Changes(e.old, e.to) : x.tool = t} :
        LET now    == catalog[e.scope][t]
            before == reconstructBeforeSchema(d, now)
            others == {x \in Changes(e.old, e.to) : x.tool = t /\ x # d}
        IN  /\ Undone(d, before)
            /\ \A p \in Params \ {x.param : x \in others} :
                 SaysOf(now, p) = SaysOf(e.to[t], p) => Alike(e.old[t], before, p)

\* When the server has stopped changing and disturbances are over, checks find it up,
\* and its snapshot and its tools are stored where they look for them.
Settles ==
    <>[](\A c \in Loops :
            LET s == scopeOf[c]
            IN  /\ status[s] = "up"
                /\ snapshot[s] = server
                /\ \A t \in DOMAIN server : t \in DOMAIN catalog[s] /\ catalog[s][t] = server[t])
=============================================================================
