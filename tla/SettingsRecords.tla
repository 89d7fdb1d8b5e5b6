-------------------------- MODULE SettingsRecords -----------------------------
(***************************************************************************)
(* The forms of the dashboard that edit one record of the API: the         *)
(* instance's settings, by the redaction switch and the AI providers of    *)
(* the settings page; and the alert configuration, by the notifications of *)
(* the settings page and the rules of the alerts page.  The two forms of a *)
(* record share what SWR holds of it, and one of them is mounted at a time.*)
(*                                                                         *)
(* The API saves a record in two steps: it reads the record, merges the    *)
(* request into it and writes the whole of it.  A secret is never shown:   *)
(* its field then says Masked, which the API takes as no change.           *)
(*                                                                         *)
(* Left out: models and base URLs of providers, the environment's keys and *)
(* webhook, the webhook test, and the copy of the keys in os.environ.      *)
(***************************************************************************)
EXTENDS Naturals, Fetching

CONSTANTS MaxSaves      \* bound: saves, mounts, failures and saves by others

Forms == {"instance", "providers", "notifications", "rules"}
Masked     == "*masked*"    \* or null, for the webhook
Providers  == {"openai", "anthropic"}
AlertTypes == {"mcp_down", "agent_failure"}

VARIABLES
    form,           \* the form that is mounted
    record,         \* the record of the API
    held,           \* what SWR holds of it; a part of it after a switch of redaction
    saving,         \* the field whose button is disabled
    saves,          \* requests, from the click to the end of their handler
    wanted,         \* what the user last saved in each field
    disturbed,      \* somebody else has saved, or a request failed
    crossed,        \* a save was sent before the last one ended, or the record was shown
    tries

recordVars == <<form, record, held, saving, saves, wanted, disturbed, crossed, tries>>

-----------------------------------------------------------------------------
OfSettings == form \in {"instance", "providers"}
RecordFields == IF OfSettings THEN {"redact_payloads"} \cup Providers
          ELSE {"slack_webhook"} \cup AlertTypes
\* One provider has a key, and all types of alert are on, as they are by default.
StartRecords ==
    {r \in [RecordFields -> {"on", "off", "key", ""}] : \A f \in RecordFields :
        r[f] \in CASE f = "redact_payloads" -> {"on", "off"}
                   [] f = "openai"          -> {"key"}
                   [] f \in AlertTypes      -> {"on"}
                   [] OTHER                 -> {""}}

RecordsInit ==
    /\ record \in StartRecords
    /\ held = Fresh
    /\ saving = {} /\ saves = {}
    /\ wanted = record
    /\ disturbed = FALSE /\ crossed = FALSE
    /\ tries = 0

Flip(v) == IF v = "on" THEN "off" ELSE "on"
\* undefined is off for redaction, and on for a type of alert.
Shown(f) ==
    IF Loaded(held) /\ f \in DOMAIN Data(held) THEN Data(held)[f]
    ELSE IF f = "redact_payloads" THEN "off" ELSE "on"

\* The field a click changes and its new value; a provider's save may keep the
\* key, and the webhook's may be empty, which the API takes as no change.
Switches(fields)     == {<<f, Flip(Shown(f))>> : f \in fields}
InstanceSection      == Switches({"redact_payloads"})
AIProvidersSection   == Providers \X {"new", Masked}
NotificationsSection == Switches(AlertTypes) \cup {"slack_webhook"} \X {"url", Masked}
AlertRules           == IF Loaded(held) THEN Switches(AlertTypes) ELSE {}
Edits ==
    CASE form = "instance"      -> InstanceSection
      [] form = "providers"     -> AIProvidersSection
      [] form = "notifications" -> NotificationsSection
      [] form = "rules"         -> AlertRules
\* What is sent: the providers' form adds the redaction it knows of, the
\* rules send every type.
saveProvider(f, v) == [g \in {f, "redact_payloads"} |-> IF g = f THEN v ELSE Shown(g)]
toggleType(f, v)   == [g \in AlertTypes |-> IF g = f THEN v ELSE Shown(g)]
Body(f, v) ==
    CASE form = "providers" -> saveProvider(f, v)
      [] form = "rules"     -> toggleType(f, v)
      [] OTHER              -> [g \in {f} |-> v]
Disabled(f) ==
    \/ f \in saving
    \/ form = "rules" /\ saving # {}
Save(f, v) ==
    /\ tries < MaxSaves /\ tries' = tries + 1
    /\ ~Disabled(f)
    /\ saves' = saves \cup {[id |-> tries, form |-> form, here |-> TRUE, body |-> Body(f, v),
                             stage |-> "sent", existing |-> <<>>]}
    /\ saving' = IF form = "notifications" /\ f \in AlertTypes THEN saving ELSE {f}
    /\ wanted' = IF v = Masked THEN wanted ELSE [wanted EXCEPT ![f] = v]
    /\ crossed' = (crossed \/ saves # {} \/ ~Loaded(held))
    /\ UNCHANGED <<form, record, held, disturbed>>

\* save_settings and save_alerts_config, before and after their await.
Merge(body, existing) ==
    [f \in DOMAIN existing |-> IF f \in DOMAIN body /\ body[f] # Masked THEN body[f] ELSE existing[f]]
Turn(q, to) == (saves \ {q}) \cup {[q EXCEPT !.stage = to]}
ReadExisting(q) ==
    /\ q.stage = "sent"
    /\ saves' = (saves \ {q}) \cup {[q EXCEPT !.stage = "read", !.existing = record]}
    /\ UNCHANGED <<form, record, held, saving, wanted, disturbed, crossed, tries>>
WriteMerged(q) ==
    /\ q.stage = "read"
    /\ record' = Merge(q.body, q.existing)
    /\ saves' = Turn(q, "answered")
    /\ UNCHANGED <<form, held, saving, wanted, disturbed, crossed, tries>>

\* The answer, which three of the forms take for a success whatever it says.
\* The redaction switch puts its value in the place of the whole record; the
\* others ask again, and those of the alerts wait for it.
Awaits(q) == q.form \in {"notifications", "rules"}
Reply(q) ==
    IF q.form = "instance"
    THEN [data |-> {[f \in {"redact_payloads"} |-> q.body[f]]}, fetch |-> Idle]
    ELSE Asking(held)
Ended(q) == IF Awaits(q) THEN Turn(q, "refetching") ELSE saves \ {q}
Enabled(q) == IF q.here /\ ~Awaits(q) THEN {} ELSE saving
AnsweredLate(q) ==      \* Mutant: a fetch under way may still replace the reply.
    /\ q.stage = "answered"
    /\ held' = [Reply(q) EXCEPT !.fetch = IF q.form = "instance" THEN held.fetch ELSE @]
    /\ saves' = Ended(q)
    /\ saving' = Enabled(q)
    /\ UNCHANGED <<form, record, wanted, disturbed, crossed, tries>>
SaveAnswered(q) ==
    /\ q.stage = "answered"
    /\ held' = Reply(q)
    /\ saves' = Ended(q)
    /\ saving' = Enabled(q)
    /\ UNCHANGED <<form, record, wanted, disturbed, crossed, tries>>
Refetched(q) ==
    /\ q.stage = "refetching" /\ Quiet(held)
    /\ saves' = saves \ {q}
    /\ saving' = IF q.here THEN {} ELSE saving
    /\ UNCHANGED <<form, record, held, wanted, disturbed, crossed, tries>>
\* A refusal is an answer like any other to three of the forms; the network
\* fails for all.  The record may have been written or not.
SaveFails(q) ==
    /\ tries < MaxSaves /\ tries' = tries + 1
    /\ q.stage # "refetching"
    /\ disturbed' = TRUE
    /\ \/ q.form # "notifications" /\ saves' = Turn(q, "answered") /\ UNCHANGED saving
       \/ saves' = saves \ {q} /\ saving' = IF q.here THEN {} ELSE saving
    /\ UNCHANGED <<form, record, held, wanted, crossed>>

OtherSaves(f) ==
    /\ tries < MaxSaves /\ tries' = tries + 1
    /\ f \in DOMAIN record
    /\ record' = [record EXCEPT ![f] = IF @ \in {"on", "off"} THEN Flip(@) ELSE "theirs"]
    /\ disturbed' = TRUE
    /\ UNCHANGED <<form, held, saving, saves, wanted, crossed>>

\* The other form of the record is mounted, which asks again, unless it did so
\* in the last two seconds.
Mount(f) ==
    /\ tries < MaxSaves /\ tries' = tries + 1
    /\ f # form /\ (f \in {"instance", "providers"}) = OfSettings
    /\ form' = f
    /\ held' \in {held, Joining(held)}
    /\ saving' = {}
    /\ saves' = {[q EXCEPT !.here = FALSE] : q \in saves}
    /\ UNCHANGED <<record, wanted, disturbed, crossed>>

\* The rules are polled; the browser comes back online.
ViewRefresh ==
    /\ Quiet(held)
    /\ held' = Asking(held)
    /\ UNCHANGED <<form, record, saving, saves, wanted, disturbed, crossed, tries>>
ViewRead ==
    /\ IsSent(held)
    /\ held' = Reading(held, record)
    /\ UNCHANGED <<form, record, saving, saves, wanted, disturbed, crossed, tries>>
ViewArrives ==
    /\ IsAnswered(held)
    /\ held' = Arrived(held)
    /\ UNCHANGED <<form, record, saving, saves, wanted, disturbed, crossed, tries>>
ViewFails ==
    /\ ~Quiet(held) /\ tries < MaxSaves /\ tries' = tries + 1
    /\ held' = Lost(held)
    /\ disturbed' = TRUE
    /\ UNCHANGED <<form, record, saving, saves, wanted, crossed>>

RecordsNext ==
    \/ \E e \in Edits : Save(e[1], e[2])
    \/ \E q \in saves : \/ ReadExisting(q) \/ WriteMerged(q)
                        \/ SaveAnswered(q) \/ Refetched(q) \/ SaveFails(q)
    \/ \E f \in DOMAIN record : OtherSaves(f)
    \/ \E f \in Forms : Mount(f)
    \/ ViewRefresh \/ ViewRead \/ ViewArrives \/ ViewFails

-----------------------------------------------------------------------------
Settled == saves = {} /\ ~disturbed /\ ~crossed

\* At rest the record says, in every field, what the user last saved there: a
\* save of one field neither reverts another, nor stores a mask for a secret,
\* as long as no two saves overlap and the form had loaded the record.
SavesKept == Settled => record = wanted

\* ... and what the mounted form shows of the record is what the record says.
ViewIsTrue ==
    Settled /\ Quiet(held)
        => \A d \in held.data : \A f \in DOMAIN d : d[f] = record[f]
=============================================================================
