-------------------------- MODULE CatalogEditor -------------------------------
(***************************************************************************)
(* The catalog of agents and of MCP servers, and the About tab of their    *)
(* pages that edits it (AgentsPage and ServersPage in                      *)
(* src/dashboard/app/(dashboard)/{agents,servers}/page.tsx).  An entry has *)
(* two fields here: its owner, a text edited in place (EditableText), and  *)
(* its tags, which are saved at each click.                                *)
(*                                                                         *)
(* A save sends the whole entry, as the page last saw it, with one field   *)
(* changed.  The API also writes entries by itself: ingestion registers    *)
(* what it has not seen since it started, and a health check registers the *)
(* server it reached.                                                      *)
(*                                                                         *)
(* Left out: the other fields, which are like these two, the table and the *)
(* other tabs, and the removal of a server (SettingsTables).               *)
(***************************************************************************)
EXTENDS Naturals, Fetching

CONSTANTS
    Names,          \* the agents, or the servers
    Known,          \* those that are in the catalog at first; the others were removed
    Checked,        \* the servers that health checks reach; no agent
    Texts,          \* what may be typed
    MaxSaves,       \* bound: saves of the user
    MaxFaults       \* bound: restarts, checks, changes by others, failures

ASSUME EditorAssumption == MaxSaves \in Nat /\ MaxFaults \in Nat

Nobody == "nobody"
NoSave == 0
Blank  == [owner |-> "", tags |-> {}]

VARIABLES
    catalog,        \* agent_metadata, or server_metadata: the entry of each name
    registered,     \* _seen_agents, or _seen_servers, of the API process
    meta,           \* what SWR holds of the catalog
    selected,       \* selectedAgent, or selectedServer
    listed,         \* the page's last list has the selected name
    tab,            \* activeTab: "about" or another one
    editor,         \* the state of the owner's EditableText
    saves,          \* saves not yet answered
    wanted,         \* each entry as the user has last saved it
    disturbed,      \* the API or somebody else rewrote an entry, or a save failed
    hurried,        \* the user edited an entry that did not show his last saves
    sent,           \* saves sent so far
    faults

aboutVars == <<catalog, registered, meta, selected, listed, tab, editor, saves, wanted,
               disturbed, hurried, sent, faults>>

-----------------------------------------------------------------------------
\* What is on the screen

Seen(n) == IF Loaded(meta) /\ n \in DOMAIN Data(meta) THEN Data(meta)[n] ELSE Blank
Behind   == selected # Nobody /\ Seen(selected) # wanted[selected]
Detailed == selected # Nobody /\ listed     \* selectedAgent && selected
Mounted  == Detailed /\ tab = "about"
Value    == Seen(selected).owner

NoEditor   == [editing |-> FALSE, draft |-> "", saving |-> NoSave]
FreshEditor(v) == [NoEditor EXCEPT !.draft = v]
\* The editor after a step that renders the page anew: one component stays for
\* whatever entry is selected, and takes a value that has changed as its draft.
Rerender(before) ==
    editor' = IF ~Mounted' THEN NoEditor
              ELSE IF ~Mounted THEN FreshEditor(Value')
              ELSE IF Value' # Value THEN [before EXCEPT !.draft = Value']
              ELSE before

Entry(n) == IF n \in DOMAIN catalog THEN catalog[n] ELSE Blank
Upserts(n, entry) == catalog' = [m \in DOMAIN catalog \cup {n} |-> IF m = n THEN entry ELSE catalog[m]]
Fault == faults < MaxFaults /\ faults' = faults + 1 /\ UNCHANGED sent

AboutInit ==
    /\ catalog = [n \in Known |-> Blank]
    /\ registered = Names
    /\ meta = Fresh
    /\ selected = Nobody /\ listed = TRUE /\ tab = "about"
    /\ editor = NoEditor
    /\ saves = {}
    /\ wanted = [n \in Names |-> Entry(n)]
    /\ disturbed = FALSE /\ hurried = FALSE
    /\ sent = 0 /\ faults = 0

-----------------------------------------------------------------------------
\* The page

\* A row of the table or of the sidebar; nothing is there to click when the
\* selected name is no longer listed.
Select(n) ==
    /\ listed
    /\ selected' = IF selected = n THEN Nobody ELSE n
    /\ tab' = "about"
    /\ UNCHANGED <<catalog, registered, meta, listed, saves, wanted, disturbed, sent, faults>>
    /\ hurried' = (hurried \/ (editor.editing /\ Behind'))
    /\ Rerender(editor)
OpenTab(t) ==
    /\ Detailed /\ t # tab
    /\ tab' = t
    /\ UNCHANGED <<catalog, registered, meta, listed, selected, saves, wanted, disturbed,
                   hurried, sent, faults>>
    /\ Rerender(editor)
\* The list depends on the window of time, the project's spans and health checks.
ListArrives ==
    /\ selected # Nobody
    /\ listed' = ~listed
    /\ UNCHANGED <<catalog, registered, meta, selected, tab, saves, wanted, disturbed,
                   hurried, sent, faults>>
    /\ Rerender(editor)

StartEditing ==
    /\ Mounted /\ ~editor.editing
    /\ editor' = [editor EXCEPT !.editing = TRUE]
    /\ hurried' = (hurried \/ Behind)
    /\ UNCHANGED <<catalog, registered, meta, selected, listed, tab, saves, wanted,
                   disturbed, sent, faults>>
Type(v) ==
    /\ editor.editing /\ editor.saving = NoSave
    /\ v # editor.draft
    /\ editor' = [editor EXCEPT !.draft = v]
    /\ UNCHANGED <<catalog, registered, meta, selected, listed, tab, saves, wanted,
                   disturbed, hurried, sent, faults>>
Escape ==
    /\ editor.editing
    /\ editor' = [editor EXCEPT !.editing = FALSE, !.draft = Value]
    /\ UNCHANGED <<catalog, registered, meta, selected, listed, tab, saves, wanted,
                   disturbed, hurried, sent, faults>>

\* saveMeta, or save: the entry as the page knows it, with one field changed.
BodyOfField(f, v) == [Blank EXCEPT ![f] = v]    \* Mutant: only the field.
Body(f, v) == [Seen(selected) EXCEPT ![f] = v]
Send(f, v) ==
    /\ sent < MaxSaves /\ sent' = sent + 1
    /\ saves' = saves \cup {[id |-> sent', name |-> selected, body |-> Body(f, v),
                             answered |-> FALSE]}
    /\ wanted' = [wanted EXCEPT ![selected][f] = v]
    /\ hurried' = (hurried \/ Behind)
    /\ UNCHANGED <<catalog, registered, meta, selected, listed, tab, disturbed, faults>>
SaveText ==
    /\ editor.editing /\ editor.saving = NoSave
    /\ IF editor.draft = Value
       THEN /\ editor' = [editor EXCEPT !.editing = FALSE]
            /\ UNCHANGED <<catalog, registered, meta, selected, listed, tab, saves, wanted,
                           disturbed, hurried, sent, faults>>
       ELSE /\ Send("owner", editor.draft)
            /\ editor' = [editor EXCEPT !.saving = sent']
ClickTag ==
    /\ Mounted
    /\ Send("tags", IF Seen(selected).tags = {} THEN {"prod"} ELSE {})
    /\ UNCHANGED editor

\* A save is answered: the editor that waited for it closes, whatever entry it
\* shows by now, and the catalog is asked again.
AfterSave(s) == IF editor.saving = s.id
                THEN [editor EXCEPT !.editing = FALSE, !.saving = NoSave] ELSE editor
SaveAnswered(s) ==
    /\ s.answered
    /\ saves' = saves \ {s}
    /\ meta' = Asking(meta)
    /\ editor' = AfterSave(s)
    /\ UNCHANGED <<catalog, registered, selected, listed, tab, wanted, disturbed, hurried, sent, faults>>
SaveFails(s) ==
    /\ Fault
    /\ saves' = saves \ {s}
    /\ editor' = IF editor.saving = s.id THEN [editor EXCEPT !.saving = NoSave] ELSE editor
    /\ disturbed' = TRUE
    /\ UNCHANGED <<catalog, registered, meta, selected, listed, tab, wanted, hurried>>

MetaPoll ==
    /\ Quiet(meta)
    /\ meta' = Asking(meta)
    /\ UNCHANGED <<catalog, registered, selected, listed, tab, editor, saves, wanted,
                   disturbed, hurried, sent, faults>>
MetaArrives ==
    /\ IsAnswered(meta)
    /\ meta' = Arrived(meta)
    /\ UNCHANGED <<catalog, registered, selected, listed, tab, saves, wanted, disturbed,
                   hurried, sent, faults>>
    /\ Rerender(editor)
MetaFails ==
    /\ ~Quiet(meta) /\ Fault
    /\ meta' = Lost(meta)
    /\ UNCHANGED <<catalog, registered, selected, listed, tab, editor, saves, wanted,
                   disturbed, hurried>>

-----------------------------------------------------------------------------
\* The API

MetaRead ==
    /\ IsSent(meta)
    /\ meta' = Reading(meta, catalog)
    /\ UNCHANGED <<catalog, registered, selected, listed, tab, editor, saves, wanted,
                   disturbed, hurried, sent, faults>>
ServeSave(s) ==
    /\ ~s.answered
    /\ Upserts(s.name, s.body)
    /\ saves' = (saves \ {s}) \cup {[s EXCEPT !.answered = TRUE]}
    /\ UNCHANGED <<registered, meta, selected, listed, tab, editor, wanted, disturbed,
                   hurried, sent, faults>>
OtherSaves(n) ==
    /\ Fault
    /\ Upserts(n, [Entry(n) EXCEPT !.owner = "theirs"])
    /\ disturbed' = TRUE
    /\ UNCHANGED <<registered, meta, selected, listed, tab, editor, saves, wanted, hurried>>

\* What the API knows of a name it comes across: nothing but the name.
Register(n) ==
    /\ Upserts(n, Blank)
    /\ disturbed' = (disturbed \/ n \in DOMAIN catalog)
    /\ UNCHANGED <<meta, selected, listed, tab, editor, saves, wanted, hurried>>
\* The first span of a name since the process started.
Ingest(n) ==
    /\ n \notin registered
    /\ Register(n)
    /\ registered' = registered \cup {n}
    /\ UNCHANGED <<sent, faults>>
HealthCheck(n) ==
    /\ n \in Checked /\ Fault
    /\ Register(n)
    /\ UNCHANGED registered
Restart ==
    /\ Fault
    /\ registered' = {}
    /\ UNCHANGED <<catalog, meta, selected, listed, tab, editor, saves, wanted, disturbed, hurried>>

AboutNext ==
    \/ \E n \in Names : Select(n) \/ OtherSaves(n) \/ Ingest(n) \/ HealthCheck(n)
    \/ \E t \in {"about", "other"} : OpenTab(t)
    \/ ListArrives
    \/ StartEditing \/ Escape \/ SaveText \/ ClickTag
    \/ \E v \in Texts : Type(v)
    \/ \E s \in saves : ServeSave(s) \/ SaveAnswered(s) \/ SaveFails(s)
    \/ MetaPoll \/ MetaRead \/ MetaArrives \/ MetaFails
    \/ Restart

-----------------------------------------------------------------------------
\* No save of the user loses another: once all are answered each entry is what
\* he last saved, in every field, however saves of different entries, polls and
\* selections overlapped; as long as each save was made while the page showed
\* the earlier ones, and neither the API nor others rewrote an entry.
EditsKept ==
    saves = {} /\ ~disturbed /\ ~hurried => \A n \in Names : Entry(n) = wanted[n]

\* The set of names seen is "Reset on process restart -- safe because upsert is
\* idempotent": to register a name that is in the catalog changes nothing.
RegistrationIsSafe ==
    [][\A n \in DOMAIN catalog : Ingest(n) \/ HealthCheck(n) => catalog'[n] = catalog[n]]_aboutVars
=============================================================================
