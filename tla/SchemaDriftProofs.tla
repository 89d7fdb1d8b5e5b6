--------------------------- MODULE SchemaDriftProofs --------------------------
(***************************************************************************)
(* What classify_drift and the page's reconstruction of a schema say of    *)
(* any two lists of tools, and what any number of overlapping checks leave *)
(* of a server's history.                                                  *)
(***************************************************************************)
EXTENDS SchemaDrift, TLAPS

-----------------------------------------------------------------------------
(* The shapes of things.                                                   *)

Steps == {"hash", "diff", "event", "snapshot", "store", "result", "catalog"}
CheckRecords == [step : Steps, scope : Scopes, tools : ToolLists,
                 previous : ToolLists \cup {None}, old : ToolLists]
EventRecords == [scope : Scopes, old : ToolLists, from : ToolLists \cup {None}, to : ToolLists]

Shape ==
    /\ scopeOf \in [Checkers -> Scopes]
    /\ server \in ToolLists
    /\ snapshot \in [Scopes -> ToolLists \cup {None}]
    /\ catalog \in [Scopes \cup {NullRows} -> ToolLists]
    /\ events \in SUBSET EventRecords
    /\ checks \in [Checkers -> CheckRecords \cup {Idle}]
    /\ baselines \in [Scopes -> SUBSET ToolLists]

\* A list of tools is a function to schemas, a schema a record of what is typed and what
\* is required.
LEMMA ToolListIs ==
    ASSUME NEW f, f = [t \in DOMAIN f |-> f[t]]
    PROVE  f \in ToolLists <=> DOMAIN f \subseteq Tools /\ \A t \in DOMAIN f : f[t] \in Schemas
  <1>1. ASSUME f \in ToolLists PROVE DOMAIN f \subseteq Tools /\ \A t \in DOMAIN f : f[t] \in Schemas
    <2>1. PICK D \in SUBSET Tools : f \in [D -> Schemas]
      BY <1>1 DEF ToolLists
    <2> QED BY <2>1
  <1>2. ASSUME DOMAIN f \subseteq Tools, \A t \in DOMAIN f : f[t] \in Schemas PROVE f \in ToolLists
    <2>1. DOMAIN f \in SUBSET Tools /\ f \in [DOMAIN f -> Schemas]
      BY <1>2
    <2> QED BY <2>1 DEF ToolLists
  <1> QED BY <1>1, <1>2

LEMMA ToolListHas ==
    ASSUME NEW f \in ToolLists
    PROVE  f = [t \in DOMAIN f |-> f[t]] /\ DOMAIN f \subseteq Tools /\ \A t \in DOMAIN f : f[t] \in Schemas
  <1>1. PICK D \in SUBSET Tools : f \in [D -> Schemas]
    BY DEF ToolLists
  <1> QED BY <1>1

LEMMA SchemaHas ==
    ASSUME NEW s \in Schemas
    PROVE  /\ s = [type |-> s.type, required |-> s.required]
           /\ s.type = [p \in DOMAIN s.type |-> s.type[p]]
           /\ s.required \subseteq DOMAIN s.type
  <1>1. PICK D \in SUBSET Params : s \in [type : [D -> Types \cup {"any"}], required : SUBSET D]
    BY DEF Schemas
  <1> QED BY <1>1

LEMMA NoToolsIsOne == NoTools \in ToolLists
  <1>1. NoTools \in [{} -> Schemas] /\ {} \in SUBSET Tools
    BY DEF NoTools
  <1> QED BY <1>1 DEF ToolLists

LEMMA UpsertedIsOne ==
    ASSUME NEW rows \in ToolLists, NEW tools \in ToolLists
    PROVE  Upserted(rows, tools) \in ToolLists
  <1> DEFINE f == Upserted(rows, tools)
  <1>1. /\ DOMAIN rows \subseteq Tools /\ DOMAIN tools \subseteq Tools
        /\ \A t \in DOMAIN rows : rows[t] \in Schemas
        /\ \A t \in DOMAIN tools : tools[t] \in Schemas
    BY ToolListHas
  <1>2. /\ f = [t \in DOMAIN f |-> f[t]] /\ DOMAIN f \subseteq Tools
        /\ \A t \in DOMAIN f : f[t] \in Schemas
    BY <1>1 DEF Upserted
  <1> HIDE DEF f
  <1>3. f \in ToolLists
    BY <1>2, ToolListIs
  <1> QED BY <1>3 DEF f

-----------------------------------------------------------------------------
(* classify_drift                                                          *)

\* What it finds, one kind of change after the other.
LEMMA Finds ==
    ASSUME NEW old, NEW new, NEW t \in Both(old, new)
    PROVE  /\ \A p \in old[t].required \ new[t].required :
                Change("required_param_removed", t, p) \in NoLongerRequired(old, new)
           /\ \A p \in new[t].required \ old[t].required :
                Change("required_param_added", t, p) \in NewlyRequired(old, new)
           /\ \A p \in DOMAIN old[t].type \cap DOMAIN new[t].type :
                old[t].type[p] # "any" /\ new[t].type[p] # "any" /\ old[t].type[p] # new[t].type[p] =>
                  [Change("param_type_changed", t, p) EXCEPT !.was = old[t].type[p]] \in Retyped(old, new)
  <1>1. \A p \in old[t].required \ new[t].required :
          Change("required_param_removed", t, p) \in NoLongerRequired(old, new)
    BY DEF NoLongerRequired
  <1>2. \A p \in new[t].required \ old[t].required :
          Change("required_param_added", t, p) \in NewlyRequired(old, new)
    BY DEF NewlyRequired
  <1>3. \A p \in DOMAIN old[t].type \cap DOMAIN new[t].type :
          old[t].type[p] # "any" /\ new[t].type[p] # "any" /\ old[t].type[p] # new[t].type[p] =>
            [Change("param_type_changed", t, p) EXCEPT !.was = old[t].type[p]] \in Retyped(old, new)
    BY DEF Retyped
  <1> QED BY <1>1, <1>2, <1>3

\* A drift that is not breaking leaves what callers may send as it was, or lets more through.
LEMMA Classified ==
    ASSUME NEW old, NEW new, CallsBreak(old, new), ~ Tightened(old, new)
    PROVE  has_breaking(old, new)
  <1> SUFFICES ASSUME Removed(old, new) = {}, NoLongerRequired(old, new) = {},
                      NewlyRequired(old, new) = {}, Retyped(old, new) = {}
               PROVE  FALSE
    BY DEF has_breaking, Breaking
  <1>1. PICK t \in DOMAIN old : \E call \in Calls(old[t]) : t \in DOMAIN new => ~ Takes(new[t], call)
    BY DEF CallsBreak
  <1>2. PICK call \in Calls(old[t]) : t \in DOMAIN new => ~ Takes(new[t], call)
    BY <1>1
  <1>3. t \in DOMAIN new
    <2>1. t \notin DOMAIN new => Change("tool_removed", t, Nothing) \in Removed(old, new)
      BY DEF Removed
    <2> QED BY <2>1
  <1>4. t \in Both(old, new)
    BY <1>3 DEF Both
  <1>5. /\ old[t].required = new[t].required
        /\ \A p \in DOMAIN old[t].type \cap DOMAIN new[t].type :
             old[t].type[p] # "any" /\ new[t].type[p] # "any" => old[t].type[p] = new[t].type[p]
    <2>1. old[t].required \ new[t].required = {} /\ new[t].required \ old[t].required = {}
      BY <1>4, Finds
    <2>2. \A p \in DOMAIN old[t].type \cap DOMAIN new[t].type :
            old[t].type[p] # "any" /\ new[t].type[p] # "any" => old[t].type[p] = new[t].type[p]
      BY <1>4, Finds
    <2>3. \A p : p \in old[t].required <=> p \in new[t].required
      BY <2>1
    <2> QED BY <2>2, <2>3
  <1>6. PICK D \in {E \in SUBSET DOMAIN old[t].type : old[t].required \subseteq E} :
          call \in {c \in [D -> Types] : \A p \in D : old[t].type[p] \in {"any", c[p]}}
    BY <1>2 DEF Calls
  <1>7. /\ DOMAIN call = D /\ D \subseteq DOMAIN old[t].type /\ old[t].required \subseteq D
        /\ \A p \in D : old[t].type[p] \in {"any", call[p]}
    BY <1>6
  <1>8. \A p \in DOMAIN old[t].type \cap DOMAIN new[t].type : old[t].type[p] = "any" => new[t].type[p] = "any"
    BY <1>4 DEF Tightened
  <1>9. Takes(new[t], call)
    BY <1>5, <1>7, <1>8 DEF Takes
  <1> QED BY <1>2, <1>3, <1>9

\* However the tools of two checks differ, untyped parameters that are given a type
\* apart: when a call that the stored tools allow fails on those of the check, the drift
\* event says that it breaks something.
THEOREM BreaksAreReported == Spec => []NoBreakMissed
  <1>1. NoBreakMissed
    BY Classified DEF NoBreakMissed
  <1> QED BY <1>1, PTL

-----------------------------------------------------------------------------
(* The steps keep the shapes.                                              *)

LEMMA UnderWay ==
    ASSUME Shape, NEW c \in Checkers
    PROVE  /\ checks[c] # Idle => checks[c] \in CheckRecords
           /\ \A step \in Steps : At(c, step) => checks[c] \in CheckRecords
  <1>1. checks[c] \in CheckRecords \cup {Idle}
    BY DEF Shape
  <1>2. \A step \in Steps : At(c, step) => checks[c] # Idle
    BY DEF At, Idle, Steps
  <1> QED BY <1>1, <1>2

LEMMA InitShape == Init => Shape
  BY NoToolsIsOne, CheckersAssumption DEF Init, Shape

LEMMA PingShape ==
    ASSUME Shape, NEW c \in Checkers, Ping(c)
    PROVE  Shape'
  <1>1. [step |-> "hash", scope |-> scopeOf[c], tools |-> server, previous |-> None, old |-> NoTools]
          \in CheckRecords
    BY NoToolsIsOne DEF Shape, CheckRecords, Steps
  <1> QED BY <1>1 DEF Shape, Ping

LEMMA StepShape ==
    ASSUME Shape, NEW c \in Checkers, Step(c)
    PROVE  Shape'
  <1> DEFINE k == checks[c]
  <1>1. CASE GetHash(c)
    <2>1. k \in CheckRecords
      BY <1>1, UnderWay DEF GetHash, Steps
    <2>2. snapshot[k.scope] \in ToolLists \cup {None}
      BY <2>1 DEF CheckRecords, Shape
    <2> DEFINE step == CASE snapshot[k.scope] = None -> "snapshot"
                         [] snapshot[k.scope] = k.tools -> "result"
                         [] OTHER -> "diff"
    <2>3. step \in Steps /\ checks' = [checks EXCEPT ![c].previous = snapshot[k.scope], ![c].step = step]
      BY <1>1 DEF GetHash, Steps
    <2> HIDE DEF step
    <2>4. [k EXCEPT !.previous = snapshot[k.scope], !.step = step] \in CheckRecords
      BY <2>1, <2>2, <2>3 DEF CheckRecords
    <2>5. checks' \in [Checkers -> CheckRecords \cup {Idle}]
      BY <2>3, <2>4 DEF Shape
    <2> QED BY <1>1, <2>5 DEF GetHash, Shape
  <1>2. CASE Diff(c)
    <2>1. k \in CheckRecords /\ After(c) = "event"
      BY <1>2, UnderWay DEF Diff, Steps, After, At
    <2>2. catalog[NullRows] \in ToolLists
      BY DEF Shape
    <2>3. [k EXCEPT !.old = catalog[NullRows], !.step = "event"] \in CheckRecords
      BY <2>1, <2>2 DEF CheckRecords, Steps
    <2>4. checks' \in [Checkers -> CheckRecords \cup {Idle}]
      BY <1>2, <2>1, <2>3 DEF Diff, Shape
    <2> QED BY <1>2, <2>4 DEF Diff, Shape
  <1>3. ASSUME k \in CheckRecords, NEW step \in Steps, checks' = [checks EXCEPT ![c].step = step]
        PROVE  checks' \in [Checkers -> CheckRecords \cup {Idle}]
    <2>1. [k EXCEPT !.step = step] \in CheckRecords
      BY <1>3 DEF CheckRecords
    <2> QED BY <1>3, <2>1 DEF Shape
  <1>4. CASE SaveEvent(c)
    <2>1. k \in CheckRecords /\ After(c) = "snapshot"
      BY <1>4, UnderWay DEF SaveEvent, Steps, After, At
    <2>2. checks' \in [Checkers -> CheckRecords \cup {Idle}]
      BY <1>3, <1>4, <2>1 DEF SaveEvent, GoesOn, Steps
    <2>3. [scope |-> k.scope, old |-> k.old, from |-> k.previous, to |-> k.tools] \in EventRecords
      BY <2>1 DEF CheckRecords, EventRecords
    <2> QED BY <1>4, <2>2, <2>3 DEF SaveEvent, Shape
  <1>5. CASE SaveSnapshot(c)
    <2>1. k \in CheckRecords /\ After(c) = "store"
      BY <1>5, UnderWay DEF SaveSnapshot, Steps, After, At
    <2>2. checks' \in [Checkers -> CheckRecords \cup {Idle}]
      BY <1>3, <1>5, <2>1 DEF SaveSnapshot, GoesOn, Steps
    <2>3. k.tools \in ToolLists /\ k.scope \in Scopes
      BY <2>1 DEF CheckRecords
    <2>4. snapshot' \in [Scopes -> ToolLists \cup {None}] /\ baselines' \in [Scopes -> SUBSET ToolLists]
      BY <1>5, <2>3 DEF SaveSnapshot, Shape
    <2> QED BY <1>5, <2>2, <2>4 DEF SaveSnapshot, Shape
  <1>6. ASSUME k \in CheckRecords,
               catalog' = [catalog EXCEPT ![k.scope] = Upserted(catalog[k.scope], k.tools)]
        PROVE  catalog' \in [Scopes \cup {NullRows} -> ToolLists]
    <2>1. k.tools \in ToolLists /\ catalog[k.scope] \in ToolLists
      BY <1>6 DEF Shape, CheckRecords
    <2> QED BY <1>6, <2>1, UpsertedIsOne DEF Shape
  <1>7. CASE StoreTools(c)
    <2>1. k \in CheckRecords /\ After(c) = "result"
      BY <1>7, UnderWay DEF StoreTools, Steps, After, At
    <2>2. checks' \in [Checkers -> CheckRecords \cup {Idle}]
      BY <1>3, <1>7, <2>1 DEF StoreTools, GoesOn, Steps
    <2> QED BY <1>6, <1>7, <2>1, <2>2 DEF StoreTools, Shape
  <1>8. CASE StoreRefused(c)
    BY <1>8 DEF StoreRefused, Ends, Shape
  <1>9. CASE SaveResult(c)
    <2>1. k \in CheckRecords /\ After(c) = "catalog"
      BY <1>9, UnderWay DEF SaveResult, Steps, After, At
    <2>2. checks' \in [Checkers -> CheckRecords \cup {Idle}]
      BY <1>3, <1>9, <2>1 DEF SaveResult, GoesOn, Steps
    <2> QED BY <1>9, <2>2 DEF SaveResult, Shape
  <1>10. CASE StoreCatalog(c)
    <2>1. k \in CheckRecords
      BY <1>10, UnderWay DEF StoreCatalog, Steps
    <2> QED BY <1>6, <1>10, <2>1 DEF StoreCatalog, Ends, Shape
  <1> QED BY <1>1, <1>2, <1>4, <1>5, <1>7, <1>8, <1>9, <1>10 DEF Step

\* A release of the server leaves it a list of tools.
LEMMA ServerShape ==
    ASSUME Shape, ServerChanges
    PROVE  Shape'
  <1>1. PICK t \in Tools, schema \in Schemas :
          \/ server' = Upserted(server, [u \in {t} |-> schema])
          \/ server' = [u \in DOMAIN server \ {t} |-> server[u]]
    BY DEF ServerChanges
  <1>2. server \in ToolLists
    BY DEF Shape
  <1>3. [u \in {t} |-> schema] \in ToolLists
    BY ToolListIs
  <1>4. [u \in DOMAIN server \ {t} |-> server[u]] \in ToolLists
    <2> DEFINE f == [u \in DOMAIN server \ {t} |-> server[u]]
    <2>1. f = [u \in DOMAIN f |-> f[u]] /\ DOMAIN f \subseteq Tools /\ \A u \in DOMAIN f : f[u] \in Schemas
      BY <1>2, ToolListHas
    <2> HIDE DEF f
    <2>2. f \in ToolLists
      BY <2>1, ToolListIs
    <2> QED BY <2>2 DEF f
  <1>5. server' \in ToolLists
    BY <1>1, <1>2, <1>3, <1>4, UpsertedIsOne
  <1> QED BY <1>5 DEF ServerChanges, Shape

LEMMA NextShape == Shape /\ [Next]_vars => Shape'
  <1> SUFFICES ASSUME Shape, [Next]_vars PROVE Shape'
    OBVIOUS
  <1>1. ASSUME NEW c \in Checkers, Fails(c) \/ Cancelled(c) PROVE Shape'
    BY <1>1 DEF Fails, Cancelled, Ends, Shape
  <1>2. ASSUME NEW s \in Scopes, record_tool_schemas(s) PROVE Shape'
    <2>1. Upserted(catalog[s], server) \in ToolLists
      BY UpsertedIsOne DEF Shape
    <2> QED BY <1>2, <2>1 DEF record_tool_schemas, Shape
  <1>3. CASE UNCHANGED vars
    BY <1>3 DEF vars, Shape
  <1> QED BY <1>1, <1>2, <1>3, PingShape, StepShape, ServerShape DEF Next

-----------------------------------------------------------------------------
(* "View full schemas"                                                     *)

\* What the reconstruction keeps of a schema and what it changes.
LEMMA Reconstructs ==
    ASSUME NEW now \in Schemas, NEW d, NEW before, before = reconstructBeforeSchema(d, now)
    PROVE  /\ d.kind = "optional_param_added" =>
                /\ before.required = now.required
                /\ DOMAIN before.type = DOMAIN now.type \ {d.param}
                /\ \A p \in DOMAIN before.type : before.type[p] = now.type[p]
           /\ d.kind = "required_param_added" =>
                before.required = now.required \ {d.param} /\ before.type = now.type
           /\ d.kind = "required_param_removed" =>
                before.required = now.required \cup {d.param} /\ before.type = now.type
           /\ d.kind = "param_type_changed" =>
                /\ before.required = now.required
                /\ DOMAIN before.type = DOMAIN now.type \cup {d.param}
                /\ \A p \in DOMAIN before.type :
                     before.type[p] = IF p = d.param THEN d.was ELSE now.type[p]
  <1>1. /\ now = [type |-> now.type, required |-> now.required]
        /\ now.type = [p \in DOMAIN now.type |-> now.type[p]]
    BY SchemaHas
  <1>2. CASE d.kind = "optional_param_added"
    <2>1. before = [now EXCEPT !.type = [q \in DOMAIN @ \ {d.param} |-> @[q]]]
      BY <1>2 DEF reconstructBeforeSchema
    <2> QED BY <1>1, <1>2, <2>1
  <1>3. CASE d.kind = "required_param_added"
    <2>1. before = [now EXCEPT !.required = @ \ {d.param}]
      BY <1>3 DEF reconstructBeforeSchema
    <2> QED BY <1>1, <1>3, <2>1
  <1>4. CASE d.kind = "required_param_removed"
    <2>1. before = [now EXCEPT !.required = @ \cup {d.param}]
      BY <1>4 DEF reconstructBeforeSchema
    <2> QED BY <1>1, <1>4, <2>1
  <1>5. CASE d.kind = "param_type_changed"
    <2>1. before = [now EXCEPT !.type = [q \in DOMAIN @ \cup {d.param} |->
                                            IF q = d.param THEN d.was ELSE @[q]]]
      BY <1>5 DEF reconstructBeforeSchema
    <2> QED BY <1>1, <1>5, <2>1
  <1> QED BY <1>2, <1>3, <1>4, <1>5

\* The one change of a tool that both lists have is to what it requires, to a type, or an
\* optional parameter.
LEMMA OneChange ==
    ASSUME NEW old, NEW new, NEW t \in Both(old, new), NEW d \in Changes(old, new), d.tool = t
    PROVE  \/ d.kind = "required_param_removed" /\ d.param \in old[t].required \ new[t].required
           \/ d.kind = "required_param_added" /\ d.param \in new[t].required \ old[t].required
           \/ /\ d.kind = "param_type_changed" /\ d.was = old[t].type[d.param]
              /\ d.param \in DOMAIN old[t].type \cap DOMAIN new[t].type
           \/ /\ d.kind = "optional_param_added"
              /\ d.param \in DOMAIN new[t].type \ (DOMAIN old[t].type \cup new[t].required)
  <1>1. CASE d \in NoLongerRequired(old, new)
    <2>1. PICK u \in Both(old, new) : \E p \in old[u].required \ new[u].required :
             d = Change("required_param_removed", u, p)
      BY <1>1 DEF NoLongerRequired
    <2> QED BY <2>1 DEF Change
  <1>2. CASE d \in NewlyRequired(old, new)
    <2>1. PICK u \in Both(old, new) : \E p \in new[u].required \ old[u].required :
             d = Change("required_param_added", u, p)
      BY <1>2 DEF NewlyRequired
    <2> QED BY <2>1 DEF Change
  <1>3. CASE d \in Retyped(old, new)
    <2>1. PICK u \in Both(old, new) : \E p \in DOMAIN old[u].type \cap DOMAIN new[u].type :
             d = [Change("param_type_changed", u, p) EXCEPT !.was = old[u].type[p]]
      BY <1>3 DEF Retyped
    <2> QED BY <2>1 DEF Change
  <1>4. CASE d \in NewOptional(old, new)
    <2>1. PICK u \in Both(old, new) :
             \E p \in DOMAIN new[u].type \ (DOMAIN old[u].type \cup new[u].required) :
               d = Change("optional_param_added", u, p)
      BY <1>4 DEF NewOptional
    <2> QED BY <2>1 DEF Change
  <1>5. CASE d \in Removed(old, new)
    <2>1. PICK u \in DOMAIN old \ DOMAIN new : d = Change("tool_removed", u, Nothing)
      BY <1>5 DEF Removed
    <2> QED BY <2>1 DEF Change, Both
  <1>6. CASE d \in Added(old, new)
    <2>1. PICK u \in DOMAIN new \ DOMAIN old : d = Change("tool_added", u, Nothing)
      BY <1>6 DEF Added
    <2> QED BY <2>1 DEF Change, Both
  <1> QED BY <1>1, <1>2, <1>3, <1>4, <1>5, <1>6 DEF Changes, Breaking, Compatible

\* What is said differently of a parameter is the one change that concerns it.
LEMMA OnlyChange ==
    ASSUME NEW old, NEW new, NEW t \in Both(old, new), NEW d, NEW p,
           \A x \in Changes(old, new) : x.tool = t /\ x.param = p => x = d
    PROVE  /\ p \in old[t].required \ new[t].required =>
                d.kind = "required_param_removed" /\ d.param = p
           /\ p \in new[t].required \ old[t].required =>
                d.kind = "required_param_added" /\ d.param = p
           /\ p \in DOMAIN old[t].type \cap DOMAIN new[t].type
                  /\ old[t].type[p] # "any" /\ new[t].type[p] # "any" /\ old[t].type[p] # new[t].type[p] =>
                  d.kind = "param_type_changed" /\ d.param = p
  <1>1. ASSUME p \in old[t].required \ new[t].required
        PROVE  d.kind = "required_param_removed" /\ d.param = p
    <2>1. Change("required_param_removed", t, p) \in Changes(old, new)
      BY <1>1, Finds DEF Changes, Breaking
    <2>2. Change("required_param_removed", t, p) = d
      BY <2>1 DEF Change
    <2> QED BY <2>2 DEF Change
  <1>2. ASSUME p \in new[t].required \ old[t].required
        PROVE  d.kind = "required_param_added" /\ d.param = p
    <2>1. Change("required_param_added", t, p) \in Changes(old, new)
      BY <1>2, Finds DEF Changes, Breaking
    <2>2. Change("required_param_added", t, p) = d
      BY <2>1 DEF Change
    <2> QED BY <2>2 DEF Change
  <1>3. ASSUME p \in DOMAIN old[t].type \cap DOMAIN new[t].type,
               old[t].type[p] # "any", new[t].type[p] # "any", old[t].type[p] # new[t].type[p]
        PROVE  d.kind = "param_type_changed" /\ d.param = p
    <2> DEFINE x == [Change("param_type_changed", t, p) EXCEPT !.was = old[t].type[p]]
    <2>1. x.tool = t /\ x.kind = "param_type_changed" /\ x.param = p
      BY DEF Change
    <2>2. x \in Retyped(old, new)
      BY <1>3, Finds
    <2> HIDE DEF x
    <2>3. x \in Changes(old, new)
      BY <2>2 DEF Changes, Breaking
    <2> QED BY <2>1, <2>3
  <1> QED BY <1>1, <1>2, <1>3

\* Whatever has become of a tool since an event, its change is shown undone, and with it
\* what was said before of every parameter that only this change concerns and that has
\* not changed since, for any parameters, types, releases and overlapping checks.
THEOREM SchemasAreRebuilt == Spec => []BeforeWasBefore
  <1> DEFINE Rebuilt(old, new, now, t, d) ==
        LET before == reconstructBeforeSchema(d, now)
        IN  /\ Undone(d, before)
            /\ \A p \in Params :
                 /\ SaysOf(now, p) = SaysOf(new[t], p)
                 /\ \A x \in Changes(old, new) : x.tool = t /\ x.param = p => x = d
                 => Alike(old[t], before, p)
  <1>1. ASSUME NEW old \in ToolLists, NEW new \in ToolLists, NEW now \in Schemas,
               NEW t \in Both(old, new), NEW d \in Changes(old, new), d.tool = t
        PROVE  Rebuilt(old, new, now, t, d)
    <2> DEFINE was == old[t]
               left == new[t]
    <2>1. PICK b : b = reconstructBeforeSchema(d, now)
      OBVIOUS
    <2>2. was \in Schemas /\ left \in Schemas
      BY ToolListHas DEF Both
    <2>3. ASSUME NEW p, \A x \in Changes(old, new) : x.tool = t /\ x.param = p => x = d
          PROVE  /\ p \in was.required \ left.required => d.kind = "required_param_removed" /\ d.param = p
                 /\ p \in left.required \ was.required => d.kind = "required_param_added" /\ d.param = p
                 /\ p \in DOMAIN was.type \cap DOMAIN left.type
                        /\ was.type[p] # "any" /\ left.type[p] # "any" /\ was.type[p] # left.type[p] =>
                        d.kind = "param_type_changed" /\ d.param = p
      BY <2>3, OnlyChange
    <2>4. \/ d.kind = "required_param_removed" /\ d.param \in was.required \ left.required
          \/ d.kind = "required_param_added" /\ d.param \in left.required \ was.required
          \/ /\ d.kind = "param_type_changed" /\ d.was = was.type[d.param]
             /\ d.param \in DOMAIN was.type \cap DOMAIN left.type
          \/ /\ d.kind = "optional_param_added"
             /\ d.param \in DOMAIN left.type \ (DOMAIN was.type \cup left.required)
      BY <1>1, OneChange
    <2>5. was.required \subseteq DOMAIN was.type
      BY <2>2, SchemaHas
    <2> HIDE DEF was, left
    <2>6. /\ d.kind = "optional_param_added" =>
               /\ b.required = now.required
               /\ DOMAIN b.type = DOMAIN now.type \ {d.param}
               /\ \A p \in DOMAIN b.type : b.type[p] = now.type[p]
          /\ d.kind = "required_param_added" =>
               b.required = now.required \ {d.param} /\ b.type = now.type
          /\ d.kind = "required_param_removed" =>
               b.required = now.required \cup {d.param} /\ b.type = now.type
          /\ d.kind = "param_type_changed" =>
               /\ b.required = now.required
               /\ DOMAIN b.type = DOMAIN now.type \cup {d.param}
               /\ \A p \in DOMAIN b.type :
                    b.type[p] = IF p = d.param THEN d.was ELSE now.type[p]
      BY <2>1, Reconstructs
    <2>7. Undone(d, b)
      BY <2>4, <2>6 DEF Undone
    <2>8. ASSUME NEW p \in Params, SaysOf(now, p) = SaysOf(left, p),
                 \A x \in Changes(old, new) : x.tool = t /\ x.param = p => x = d
          PROVE  Alike(was, b, p)
      <3>1. /\ p \in now.required <=> p \in left.required
            /\ {now.type[q] : q \in DOMAIN now.type \cap {p}} = {left.type[q] : q \in DOMAIN left.type \cap {p}}
        BY <2>8 DEF SaysOf
      <3>2. /\ p \in DOMAIN now.type <=> p \in DOMAIN left.type
            /\ p \in DOMAIN now.type => now.type[p] = left.type[p]
        BY <3>1
      <3>3. /\ p \in was.required \ left.required => d.kind = "required_param_removed" /\ d.param = p
            /\ p \in left.required \ was.required => d.kind = "required_param_added" /\ d.param = p
            /\ p \in DOMAIN was.type \cap DOMAIN left.type
                   /\ was.type[p] # "any" /\ left.type[p] # "any" /\ was.type[p] # left.type[p] =>
                   d.kind = "param_type_changed" /\ d.param = p
        BY <2>3, <2>8
      <3>4. p \in was.required <=> p \in b.required
        BY <2>4, <2>6, <3>1, <3>3
      <3>5. p \in DOMAIN was.type \cap DOMAIN b.type =>
               "any" \in {was.type[p], b.type[p]} \/ was.type[p] = b.type[p]
        BY <2>4, <2>6, <3>2, <3>3
      <3> QED BY <3>4, <3>5 DEF Alike
    <2> QED BY <2>1, <2>7, <2>8 DEF was, left
  <1>2. Shape => BeforeWasBefore
    <2> SUFFICES ASSUME Shape, NEW e \in events, NEW t \in Both(e.old, e.to) \cap DOMAIN catalog[e.scope],
                        NEW d \in Changes(e.old, e.to), d.tool = t
                 PROVE  Rebuilt(e.old, e.to, catalog[e.scope][t], t, d)
      BY DEF BeforeWasBefore
    <2>1. e.old \in ToolLists /\ e.to \in ToolLists
      BY DEF Shape, EventRecords
    <2>2. catalog[e.scope][t] \in Schemas
      BY ToolListHas DEF Shape, EventRecords
    <2> HIDE DEF Rebuilt
    <2> QED BY <1>1, <2>1, <2>2
  <1> QED BY <1>2, InitShape, NextShape, PTL DEF Spec

-----------------------------------------------------------------------------
(* The history.                                                            *)

\* What a check under way knows: where its event starts is known, and before it stores a
\* snapshot that differs from the last one its event is saved.
Informed(c) ==
    \A s \in Scopes : checks[c].scope = s =>
        /\ checks[c].step \in {"diff", "event"} => checks[c].previous \in Known(s)
        /\ checks[c].step = "snapshot" /\ checks[c].previous \notin {None, checks[c].tools} =>
             checks[c].tools \in Known(s)
Announced == \A c \in Checkers : Informed(c)

HistInv == Shape /\ HistoryHasNoGaps /\ Announced

\* What is known stays known.
LEMMA KnownGrows ==
    ASSUME events \subseteq events', NEW s \in Scopes, baselines[s] \subseteq baselines'[s]
    PROVE  Known(s) \subseteq Known(s)'
  BY DEF Known

\* A step of one check leaves the knowledge of the others.
LEMMA OthersAnnounced ==
    ASSUME HistInv, NEW c \in Checkers, NEW d \in Checkers, d # c,
           \A e \in Checkers : e # c => checks'[e] = checks[e],
           \A s \in Scopes : Known(s) \subseteq Known(s)'
    PROVE  Informed(d)'
  <1>1. checks'[d] = checks[d] /\ Informed(d)
    BY DEF HistInv, Announced
  <1> QED BY <1>1 DEF Informed

\* A step that saves no event and no snapshot, and brings its check to none of the steps
\* that need to know something.
LEMMA NothingSaved ==
    ASSUME HistInv, Shape', UNCHANGED <<events, snapshot, baselines>>, NEW c \in Checkers,
           \A d \in Checkers : d # c => checks'[d] = checks[d],
           checks'[c] = checks[c] \/ checks'[c].step \notin {"diff", "event", "snapshot"}
    PROVE  HistInv'
  <1>1. \A s \in Scopes : Known(s)' = Known(s)
    BY DEF Known
  <1>2. HistoryHasNoGaps'
    <2>1. \A e \in events : e.scope \in Scopes
      BY DEF HistInv, Shape, EventRecords
    <2> QED BY <1>1, <2>1 DEF HistInv, HistoryHasNoGaps
  <1>4. ASSUME NEW d \in Checkers
        PROVE  Informed(d)'
    <2>1. CASE checks'[d] = checks[d]
      <3>1. Informed(d)
        BY DEF HistInv, Announced
      <3> QED BY <1>1, <2>1, <3>1 DEF Informed
    <2>2. CASE checks'[d] # checks[d]
      <3>1. checks'[d].step \notin {"diff", "event", "snapshot"}
        BY <2>2
      <3> QED BY <3>1 DEF Informed
    <2> QED BY <2>1, <2>2
  <1>5. Announced'
    BY <1>4 DEF Announced
  <1> QED BY <1>2, <1>5 DEF HistInv

\* The check reads the last snapshot, which is known.
LEMMA GetHashHist ==
    ASSUME HistInv, Shape', NEW c \in Checkers, GetHash(c)
    PROVE  HistInv'
  <1> DEFINE k == checks[c]
             previous == snapshot[k.scope]
  <1>1. k \in CheckRecords /\ k.scope \in Scopes
    BY UnderWay DEF GetHash, Steps, HistInv, CheckRecords
  <1>2. /\ UNCHANGED <<events, snapshot, baselines>>
        /\ \A d \in Checkers : d # c => checks'[d] = checks[d]
        /\ checks'[c].scope = k.scope /\ checks'[c].previous = previous
        /\ checks'[c].step = CASE previous = None -> "snapshot"
                               [] previous = k.tools -> "result"
                               [] OTHER -> "diff"
    BY <1>1 DEF GetHash, HistInv, Shape, CheckRecords
  <1>3. \A s \in Scopes : Known(s)' = Known(s)
    BY <1>2 DEF Known
  <1>4. HistoryHasNoGaps'
    <2>1. \A e \in events : e.scope \in Scopes
      BY DEF HistInv, Shape, EventRecords
    <2> QED BY <1>2, <1>3, <2>1 DEF HistInv, HistoryHasNoGaps
  <1>5. previous # None => previous \in Known(k.scope)
    BY <1>1 DEF HistInv, HistoryHasNoGaps
  <1>6. Informed(c)'
    BY <1>1, <1>2, <1>3, <1>5 DEF Informed
  <1>7. Announced'
    BY <1>2, <1>3, <1>6, OthersAnnounced DEF Announced
  <1> QED BY <1>4, <1>7 DEF HistInv

LEMMA DiffHist ==
    ASSUME HistInv, Shape', NEW c \in Checkers, Diff(c)
    PROVE  HistInv'
  <1> DEFINE k == checks[c]
  <1>1. k \in CheckRecords /\ k.scope \in Scopes /\ After(c) = "event"
    BY UnderWay DEF Diff, Steps, HistInv, CheckRecords, After, At
  <1>2. /\ UNCHANGED <<events, snapshot, baselines>>
        /\ \A d \in Checkers : d # c => checks'[d] = checks[d]
        /\ checks'[c].scope = k.scope /\ checks'[c].previous = k.previous /\ checks'[c].step = "event"
    BY <1>1 DEF Diff, HistInv, Shape, CheckRecords
  <1>3. \A s \in Scopes : Known(s)' = Known(s)
    BY <1>2 DEF Known
  <1>4. HistoryHasNoGaps'
    <2>1. \A e \in events : e.scope \in Scopes
      BY DEF HistInv, Shape, EventRecords
    <2> QED BY <1>2, <1>3, <2>1 DEF HistInv, HistoryHasNoGaps
  <1>5. k.previous \in Known(k.scope)
    BY <1>1 DEF Diff, At, HistInv, Announced, Informed
  <1>6. Informed(c)'
    BY <1>1, <1>2, <1>3, <1>5 DEF Informed
  <1>7. Announced'
    BY <1>2, <1>3, <1>6, OthersAnnounced DEF Announced
  <1> QED BY <1>4, <1>7 DEF HistInv

\* The event that is saved starts where something known ended, and makes its own end known.
LEMMA SaveEventHist ==
    ASSUME HistInv, Shape', NEW c \in Checkers, SaveEvent(c)
    PROVE  HistInv'
  <1> DEFINE k == checks[c]
             e == [scope |-> k.scope, old |-> k.old, from |-> k.previous, to |-> k.tools]
  <1>1. k \in CheckRecords /\ k.scope \in Scopes /\ After(c) = "snapshot"
    BY UnderWay DEF SaveEvent, Steps, HistInv, CheckRecords, After, At
  <1>2. /\ UNCHANGED <<snapshot, baselines>> /\ events' = events \cup {e}
        /\ \A d \in Checkers : d # c => checks'[d] = checks[d]
        /\ checks'[c].scope = k.scope /\ checks'[c].tools = k.tools /\ checks'[c].step = "snapshot"
    BY <1>1 DEF SaveEvent, GoesOn, HistInv, Shape, CheckRecords
  <1>3. e.scope = k.scope /\ e.to = k.tools /\ e.from = k.previous
    OBVIOUS
  <1>4. k.previous \in Known(k.scope)
    BY <1>1 DEF SaveEvent, At, HistInv, Announced, Informed
  <1> HIDE DEF e
  <1>5. \A s \in Scopes : Known(s) \subseteq Known(s)'
    BY <1>2, KnownGrows
  <1>6. k.tools \in Known(k.scope)'
    BY <1>2, <1>3 DEF Known
  <1>7. HistoryHasNoGaps'
    <2>1. \A d \in events : d.scope \in Scopes
      BY DEF HistInv, Shape, EventRecords
    <2>2. \A s \in Scopes : snapshot'[s] # None => snapshot'[s] \in Known(s)'
      BY <1>2, <1>5 DEF HistInv, HistoryHasNoGaps
    <2>3. \A d \in events' : d.from \in Known(d.scope)'
      BY <1>1, <1>2, <1>3, <1>4, <1>5, <2>1 DEF HistInv, HistoryHasNoGaps
    <2> QED BY <2>2, <2>3 DEF HistoryHasNoGaps
  <1>8. Informed(c)'
    BY <1>1, <1>2, <1>6 DEF Informed
  <1>9. Announced'
    BY <1>2, <1>5, <1>8, OthersAnnounced DEF Announced
  <1> QED BY <1>7, <1>9 DEF HistInv

\* The snapshot that is stored is the end of an event, or a first one.
LEMMA SaveSnapshotHist ==
    ASSUME HistInv, Shape', NEW c \in Checkers, SaveSnapshot(c)
    PROVE  HistInv'
  <1> DEFINE k == checks[c]
  <1>1. k \in CheckRecords /\ k.scope \in Scopes /\ After(c) = "store"
    BY UnderWay DEF SaveSnapshot, Steps, HistInv, CheckRecords, After, At
  <1>2. /\ events' = events
        /\ \A s \in Scopes : snapshot'[s] = IF s = k.scope THEN k.tools ELSE snapshot[s]
        /\ \A d \in Checkers : d # c => checks'[d] = checks[d]
        /\ checks'[c].step = "store"
    BY <1>1 DEF SaveSnapshot, GoesOn, HistInv, Shape, CheckRecords
  <1>3. /\ Drifted(c) => baselines' = baselines
        /\ ~ Drifted(c) => baselines' = [baselines EXCEPT ![k.scope] = @ \cup {k.tools}]
    BY DEF SaveSnapshot
  <1>4. \A s \in Scopes : baselines[s] \subseteq baselines'[s]
    BY <1>3 DEF HistInv, Shape
  <1>5. \A s \in Scopes : Known(s) \subseteq Known(s)'
    BY <1>2, <1>4, KnownGrows
  <1>6. ASSUME NEW s \in Scopes, s = k.scope PROVE k.tools \in Known(s)'
    <2>1. CASE Drifted(c)
      <3>1. k.tools \in Known(s)
        BY <1>6, <2>1 DEF HistInv, Announced, Informed, SaveSnapshot, At, Drifted
      <3> QED BY <1>5, <3>1
    <2>2. CASE ~ Drifted(c)
      <3>1. k.tools \in baselines'[s]
        BY <1>3, <1>6, <2>2 DEF HistInv, Shape
      <3> QED BY <3>1 DEF Known
    <2> QED BY <2>1, <2>2
  <1>7. HistoryHasNoGaps'
    <2>1. \A e \in events : e.scope \in Scopes
      BY DEF HistInv, Shape, EventRecords
    <2>2. \A s \in Scopes : snapshot'[s] # None => snapshot'[s] \in Known(s)'
      BY <1>2, <1>5, <1>6 DEF HistInv, HistoryHasNoGaps
    <2>3. \A e \in events' : e.from \in Known(e.scope)'
      BY <1>2, <1>5, <2>1 DEF HistInv, HistoryHasNoGaps
    <2> QED BY <2>2, <2>3 DEF HistoryHasNoGaps
  <1>8. Informed(c)'
    BY <1>2 DEF Informed
  <1>9. Announced'
    BY <1>2, <1>5, <1>8, OthersAnnounced DEF Announced
  <1> QED BY <1>7, <1>9 DEF HistInv

\* However many checks of however many projects overlap, and wherever a timeout or a stop
\* cuts one of them off: each event starts where the first snapshot of its project or
\* another of its events ended, and so does what comes after the last snapshot.
THEOREM HistoryIsWhole == Spec => []HistoryHasNoGaps
  <1>1. Init => HistInv
    <2> SUFFICES ASSUME Init PROVE HistInv
      OBVIOUS
    <2>1. HistoryHasNoGaps
      BY DEF Init, HistoryHasNoGaps
    <2>2. \A c \in Checkers : checks[c].step = "idle"
      <3>1. Idle.step = "idle"
        BY DEF Idle
      <3>2. \A c \in Checkers : checks[c] = Idle
        BY DEF Init
      <3> QED BY <3>1, <3>2
    <2> QED BY <2>1, <2>2, InitShape DEF HistInv, Announced, Informed
  <1>2. HistInv /\ [Next]_vars => HistInv'
    <2> SUFFICES ASSUME HistInv, [Next]_vars PROVE HistInv'
      OBVIOUS
    <2>1. Shape'
      BY NextShape DEF HistInv
    <2>2. checks \in [Checkers -> CheckRecords \cup {Idle}] /\ Idle.step = "idle"
      BY DEF HistInv, Shape, Idle
    <2>3. ASSUME NEW c \in Checkers, Ping(c) PROVE HistInv'
      <3>1. checks'[c].step = "hash" /\ \A d \in Checkers : d # c => checks'[d] = checks[d]
        BY <2>2, <2>3 DEF Ping
      <3> QED BY <2>1, <2>3, <3>1, NothingSaved DEF Ping
    <2>4. ASSUME NEW c \in Checkers, checks' = [checks EXCEPT ![c] = Idle],
                 UNCHANGED <<events, snapshot, baselines>>
          PROVE  HistInv'
      <3>1. checks'[c].step = "idle" /\ \A d \in Checkers : d # c => checks'[d] = checks[d]
        BY <2>2, <2>4
      <3> QED BY <2>1, <2>4, <3>1, NothingSaved
    <2>5. ASSUME NEW c \in Checkers, NEW step \in {"result", "catalog"}, checks[c] \in CheckRecords,
                 checks' = [checks EXCEPT ![c].step = step], UNCHANGED <<events, snapshot, baselines>>
          PROVE  HistInv'
      <3>1. checks'[c].step = step /\ \A d \in Checkers : d # c => checks'[d] = checks[d]
        BY <2>2, <2>5 DEF CheckRecords
      <3> QED BY <2>1, <2>5, <3>1, NothingSaved
    <2>6. ASSUME NEW c \in Checkers, StoreTools(c) PROVE HistInv'
      <3>1. checks[c] \in CheckRecords /\ After(c) = "result"
        BY <2>6, UnderWay DEF StoreTools, Steps, After, At, HistInv
      <3> QED BY <2>5, <2>6, <3>1 DEF StoreTools, GoesOn
    <2>7. ASSUME NEW c \in Checkers, SaveResult(c) PROVE HistInv'
      <3>1. checks[c] \in CheckRecords /\ After(c) = "catalog"
        BY <2>7, UnderWay DEF SaveResult, Steps, After, At, HistInv
      <3> QED BY <2>5, <2>7, <3>1 DEF SaveResult, GoesOn
    <2>8. ASSUME NEW c \in Checkers, StoreRefused(c) \/ StoreCatalog(c) \/ Fails(c) \/ Cancelled(c)
          PROVE  HistInv'
      BY <2>4, <2>8 DEF StoreRefused, StoreCatalog, Fails, Cancelled, Ends
    <2>9. ASSUME NEW c \in Checkers, Step(c) PROVE HistInv'
      BY <2>1, <2>6, <2>7, <2>8, <2>9, GetHashHist, DiffHist, SaveEventHist, SaveSnapshotHist DEF Step
    <2>10. ASSUME UNCHANGED <<events, snapshot, baselines, checks>> PROVE HistInv'
      <3>1. \A s \in Scopes : Known(s)' = Known(s)
        BY <2>10 DEF Known
      <3>2. \A e \in events : e.scope \in Scopes
        BY DEF HistInv, Shape, EventRecords
      <3>3. HistoryHasNoGaps'
        BY <2>10, <3>1, <3>2 DEF HistInv, HistoryHasNoGaps
      <3>5. Announced'
        BY <2>10, <3>1 DEF HistInv, Announced, Informed
      <3> QED BY <2>1, <3>3, <3>5 DEF HistInv
    <2>11. ASSUME NEW s \in Scopes, record_tool_schemas(s) PROVE HistInv'
      BY <2>10, <2>11 DEF record_tool_schemas
    <2>12. CASE ServerChanges
      BY <2>10, <2>12 DEF ServerChanges
    <2>13. CASE UNCHANGED vars
      BY <2>10, <2>13 DEF vars
    <2> QED BY <2>3, <2>8, <2>9, <2>11, <2>12, <2>13 DEF Next
  <1>3. HistInv => HistoryHasNoGaps
    BY DEF HistInv
  <1> QED BY <1>1, <1>2, <1>3, PTL DEF Spec

=============================================================================
