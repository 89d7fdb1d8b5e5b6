-------------------------- MODULE SettingsTables ------------------------------
(***************************************************************************)
(* The sections of the settings page that manage tables of the API: API    *)
(* keys, projects, users, and model prices                                 *)
(* (src/dashboard/app/(dashboard)/settings/page.tsx), and the SLOs of an   *)
(* agent (agents/page.tsx).  A section shows the rows SWR holds, changes   *)
(* them through dialogs and buttons, and asks again after a change that    *)
(* succeeded.                                                              *)
(*                                                                         *)
(* Requests can overlap: the Enter key submits a form again while its      *)
(* button is disabled, a dialog can be cancelled while it waits and opened *)
(* anew, and rows are clicked one after the other.  A request may fail     *)
(* before or after the server has applied it, and others change the rows.  *)
(*                                                                         *)
(* Left out: names, dates and prices of rows, the copy buttons, and an     *)
(* invitation's acceptance, which adds a user much later.                  *)
(***************************************************************************)
EXTENDS Naturals, FiniteSets, TLC, Fetching

CONSTANTS
    MaxRows,        \* bound: rows ever there are, 1 to MaxRows, never used again
    MaxEvents       \* bound: submissions, clicks, changes by others, failures

NoRow  == 0
ApiKeysSection      == {"create", "revoke"}
ProjectsSection     == {"create", "delete"}
UsersSection        == {"invite", "admin", "viewer", "deactivate"}
ModelPricingSection == {"create", "replace"}
SLOTab              == {"create", "erase"}
OpsOf == [keys |-> ApiKeysSection, projects |-> ProjectsSection, users |-> UsersSection,
          prices |-> ModelPricingSection, slos |-> SLOTab]
Tables == DOMAIN OpsOf
FromNothing == {"create", "invite"}         \* which start from no row
ByClick     == {"admin", "viewer", "deactivate", "erase"}    \* which need no dialog

VARIABLES
    section,        \* the section of the page that is mounted, of these or others
    rows,           \* its table: the state of each row there is
    made,           \* rows made so far
    table,          \* what SWR holds of it
    dialogs,        \* open dialogs, forms and confirmations
    opened,         \* ... opened so far
    requests,       \* changes sent and not yet answered
    deletingId,     \* of SLOs: the row whose button is disabled
    outside,        \* somebody else has changed a row, or a request failed
    events

tableVars == <<rows, made, table, dialogs, opened, requests, deletingId,
               outside, events>>

-----------------------------------------------------------------------------
\* The API

StartRows(s) ==
    CASE s = "users"  -> 1 :> "admin" @@ 2 :> "viewer"
      [] s = "prices" -> 1 :> "active" @@ 2 :> "active"
      [] OTHER        -> 1 :> "active"
Over == {"revoked", "inactive"}
Adds  == {"create", "replace"}
NewRow == made + 1

\* A request is refused when its row is gone; a key is revoked only once, and
\* the role of a user can be set when the account is no longer active.
Accepts(op, r) ==
    CASE op = "revoke" -> rows[r] = "active"
      [] op \in {"delete", "erase"} -> r \in DOMAIN rows
      [] OTHER         -> TRUE
\* An edited price is a new row, whether or not the row it replaces had ended.
Result(op, r) ==
    CASE op = "create"     -> NewRow :> "active" @@ rows
      [] op = "revoke"     -> r :> "revoked" @@ rows
      [] op \in {"delete", "erase"} -> [x \in DOMAIN rows \ {r} |-> rows[x]]
      [] op = "deactivate" -> r :> "inactive" @@ rows
      [] op = "replace"    -> r :> "inactive" @@ NewRow :> "active" @@ rows
      [] op = "invite"     -> rows
      [] OTHER             -> IF rows[r] \in Over THEN rows ELSE r :> op @@ rows
Apply(op, r) ==
    /\ op \in Adds => made < MaxRows
    /\ Accepts(op, r)
    /\ rows' = Result(op, r)
    /\ made' = IF op \in Adds THEN NewRow ELSE made

-----------------------------------------------------------------------------
\* The section

TablesInit ==
    /\ rows = StartRows(section)
    /\ made = Cardinality(DOMAIN rows)
    /\ table = Fresh
    /\ dialogs = {} /\ opened = 0
    /\ requests = {} /\ deletingId = NoRow
    /\ outside = FALSE /\ events = 0

LiveRows(d) == {r \in DOMAIN d : d[r] \notin Over}
Clickable == UNION {LiveRows(d) : d \in table.data}
Event == events < MaxEvents /\ events' = events + 1

\* What each section can open: the dialogs of keys and users cover the page,
\* one price is edited at a time.
Openable(op, r) ==
    /\ op \in OpsOf[section] \ ByClick
    /\ IF op \in FromNothing THEN r = NoRow ELSE r \in Clickable
    /\ section \in {"keys", "users"} => dialogs = {}
    /\ \A d \in dialogs : d.op # op \/ d.row # r
OpenDialog(op, r) ==
    /\ Openable(op, r)
    /\ Event
    /\ opened' = opened + 1
    /\ dialogs' = {d \in dialogs : op = "replace" => d.op # "replace"}
                  \cup {[n |-> opened, op |-> op, row |-> r, result |-> FALSE]}
    /\ UNCHANGED <<rows, made, table, requests, deletingId, outside>>
Cancel(d) ==
    /\ dialogs' = dialogs \ {d}
    /\ UNCHANGED <<rows, made, table, opened, requests, deletingId, outside, events>>

\* Enter submits what a disabled button would not; a dialog that shows its
\* result has no input any more.
Guarded(d) ==       \* a request of this button is under way
    \E q \in requests :
        CASE d.op = "delete"                                  -> q.op = "delete" /\ q.row = d.row
          [] d.op = "create" /\ section \in {"prices", "slos"} -> q.op = "create"
          [] d.op \in {"revoke", "replace"}                   -> q.from = d.n
          [] OTHER                                            -> FALSE
Request(op, r, n) == [id |-> events, op |-> op, row |-> r, from |-> n, answer |-> "none"]
Submit(d) ==
    /\ ~d.result /\ ~Guarded(d)
    /\ Event
    /\ requests' = requests \cup {Request(d.op, d.row, d.n)}
    /\ UNCHANGED <<rows, made, table, dialogs, opened, deletingId, outside>>
Click(op, r) ==
    /\ r \in Clickable
    /\ Event
    /\ requests' = requests \cup {Request(op, r, opened)}
    /\ UNCHANGED <<rows, made, table, dialogs, opened, outside>>
\* handleRoleToggle, from the role that is shown, and handleDeactivate.
ClickUser(r) ==
    /\ section = "users" /\ dialogs = {}
    /\ LET toggled == IF Data(table)[r] = "admin" THEN "viewer" ELSE "admin"
       IN  Click(toggled, r) \/ Click("deactivate", r)
    /\ UNCHANGED deletingId
\* handleDelete of an SLO disables the button of its row, until another one is
\* clicked or any answer arrives.
ClickSlo(r) ==
    /\ section = "slos" /\ r # deletingId
    /\ Click("erase", r)
    /\ deletingId' = r

Serve(q) ==
    /\ q.answer = "none"
    /\ IF Accepts(q.op, q.row)
       THEN /\ Apply(q.op, q.row)
            /\ requests' = (requests \ {q}) \cup {[q EXCEPT !.answer = "ok"]}
       ELSE /\ requests' = (requests \ {q}) \cup {[q EXCEPT !.answer = "refused"]}
            /\ UNCHANGED <<rows, made>>
    /\ UNCHANGED <<table, dialogs, opened, deletingId, outside, events>>

\* The dialogs as an answer leaves them: a created key or invitation is shown
\* in its own dialog, but an answer that closes a revocation or an edit closes
\* the one that is open by then.
CreateKeyDialog(q) == {IF d.n = q.from THEN [d EXCEPT !.result = TRUE] ELSE d : d \in dialogs}
InviteDialog(q)    == CreateKeyDialog(q)
RevokeDialog       == {d \in dialogs : d.op # "revoke"}
EditPricingRow     == {d \in dialogs : d.op # "replace"}
CreateForm         == {d \in dialogs : d.op # "create"}
ProjectRow(q)      == {d \in dialogs : d.op # "delete" \/ d.row # q.row}
AfterSuccess(q) ==
    CASE q.op = "create"  -> IF section = "keys" THEN CreateKeyDialog(q) ELSE CreateForm
      [] q.op = "invite"  -> InviteDialog(q)
      [] q.op = "revoke"  -> RevokeDialog
      [] q.op = "replace" -> EditPricingRow
      [] q.op = "delete"  -> ProjectRow(q)
      [] OTHER            -> dialogs
AfterFailure(q) == IF q.op = "delete" THEN ProjectRow(q) ELSE dialogs
AfterAnswer(q) ==
    /\ requests' = requests \ {q}
    /\ deletingId' = IF q.op = "erase" THEN NoRow ELSE deletingId
Succeeds(q) ==
    /\ q.answer = "ok"
    /\ AfterAnswer(q)
    /\ table' = Asking(table)
    /\ dialogs' = AfterSuccess(q)
    /\ UNCHANGED <<rows, made, opened, outside, events>>
Declined(q) ==
    /\ q.answer = "refused"
    /\ AfterAnswer(q)
    /\ dialogs' = AfterFailure(q)
    /\ UNCHANGED <<rows, made, table, opened, outside, events>>
\* A request fails on its way there or back, or at the 15 s timeout.
Fails(q) ==
    /\ Event
    /\ AfterAnswer(q)
    /\ dialogs' = AfterFailure(q)
    /\ outside' = TRUE
    /\ UNCHANGED <<rows, made, table, opened>>

OthersChange(op, r) ==
    /\ op # "invite"
    /\ IF op = "create" THEN r = NoRow ELSE r \in DOMAIN rows
    /\ Event
    /\ Apply(op, r)
    /\ outside' = TRUE
    /\ UNCHANGED <<table, dialogs, opened, requests, deletingId>>
\* The timer of keys and projects, or the browser coming back online.
Refresh ==
    /\ Quiet(table)
    /\ table' = Asking(table)
    /\ UNCHANGED <<rows, made, dialogs, opened, requests, deletingId, outside, events>>
TableRead ==
    /\ IsSent(table)
    /\ table' = Reading(table, rows)
    /\ UNCHANGED <<rows, made, dialogs, opened, requests, deletingId, outside, events>>
TableArrives ==
    /\ IsAnswered(table)
    /\ table' = Arrived(table)
    /\ UNCHANGED <<rows, made, dialogs, opened, requests, deletingId, outside, events>>
TableFails ==
    /\ ~Quiet(table) /\ Event
    /\ table' = Lost(table)
    /\ outside' = TRUE
    /\ UNCHANGED <<rows, made, dialogs, opened, requests, deletingId>>

TablesNext ==
    /\ section \in Tables
    /\ \/ \E op \in OpsOf[section], r \in 0..MaxRows :
            OpenDialog(op, r) \/ OthersChange(op, r)
       \/ \E d \in dialogs : Cancel(d) \/ Submit(d)
       \/ \E r \in 1..MaxRows : ClickUser(r) \/ ClickSlo(r)
       \/ \E q \in requests : Serve(q) \/ Succeeds(q) \/ Declined(q) \/ Fails(q)
       \/ Refresh \/ TableRead \/ TableArrives \/ TableFails

-----------------------------------------------------------------------------
\* At rest a section shows the rows of the server, unless others have changed
\* them or a request has failed: however the user's own requests, their answers
\* and the polls overlapped, the last answer was read after the last change.
TableIsTrue ==
    requests = {} /\ Quiet(table) /\ ~outside => \A d \in table.data : d = rows

=============================================================================
