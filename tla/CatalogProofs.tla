---------------------------- MODULE CatalogProofs -----------------------------
(***************************************************************************)
(* What the editors on the pages of agents and servers promise, and what   *)
(* the list of servers and the panels of one do (ServerTable, ServerPanels)*)
(* for every set of names, servers, projects and configurations and any    *)
(* number of saves, jobs and requests; and what the list of agents says of *)
(* any sessions (AgentList).  The parts of the pages share no              *)
(* variable but the one that says which is looked at, so each invariant is *)
(* proved of its part's own actions and then of the composition.           *)
(***************************************************************************)
EXTENDS CatalogPage, FiniteSetTheorems, SequenceTheorems, TLAPS

\* Of the variables of one part, the composition takes a step of that part or none.
LEMMA PartSteps ==
    ASSUME [Next]_vars
    PROVE  /\ [AboutNext]_aboutVars
           /\ \/ part = "guards" /\ GuardNext
              \/ part = "section" /\ SectionNext
              \/ UNCHANGED guardVars
           /\ part' = part
BY DEF Next, vars

-----------------------------------------------------------------------------
(* What a page holds of an address.                                        *)

IsCell(c) == c = [data |-> c.data, fetch |-> c.fetch]

LEMMA CellSteps ==
    ASSUME NEW c, IsCell(c)
    PROVE  /\ Asking(c).data = c.data /\ Asking(c).fetch = Sent /\ IsCell(Asking(c))
           /\ Lost(c).data = c.data /\ Lost(c).fetch = Idle /\ IsCell(Lost(c))
           /\ Arrived(c).data = {c.fetch.data} /\ Arrived(c).fetch = Idle /\ IsCell(Arrived(c))
           /\ \A d : Reading(c, d).data = c.data /\ Reading(c, d).fetch = Answered(d) /\ IsCell(Reading(c, d))
  BY DEF IsCell, Asking, Lost, Arrived, Reading

LEMMA Stages ==
    /\ Idle.stage # "answered" /\ Sent.stage # "answered" /\ Idle # Sent
    /\ \A d : Answered(d).stage = "answered" /\ Answered(d).data = d
  BY DEF Idle, Sent, Answered

-----------------------------------------------------------------------------
(* The About tab.                                                          *)

IsEntry(e) == e = [owner |-> e.owner, tags |-> e.tags]
IsSave(s) == "answered" \in DOMAIN s
IsEditor(e) == e = [editing |-> e.editing, draft |-> e.draft, saving |-> e.saving]
Entered(d, n) == IF n \in DOMAIN d THEN d[n] ELSE Blank
Unserved(n) == {s \in saves : s.name = n /\ ~ s.answered}

AboutTypes ==
    /\ IsCell(meta)
    /\ wanted = [n \in Names |-> wanted[n]]
    /\ \A n \in Names : IsEntry(wanted[n])
    /\ \A s \in saves : IsSave(s)
    /\ selected \in Names \cup {Nobody}
    /\ IsEditor(editor)
    /\ editor.editing => Mounted
    /\ disturbed \in BOOLEAN /\ hurried \in BOOLEAN

\* Of the saves of an entry only one is on its way to the API, and until it is there the
\* page shows, and is about to be told, what the API has, which is not what is wanted.
\* With none on its way the API has what is wanted, and whatever is on its way back is
\* that or what the page shows.
Settled(n) ==
    /\ Unserved(n) = {} =>
        /\ Entry(n) = wanted[n]
        /\ IsAnswered(meta) => Entered(meta.fetch.data, n) \in {Seen(n), wanted[n]}
    /\ Unserved(n) # {} =>
        /\ Entry(n) = Seen(n) /\ Seen(n) # wanted[n]
        /\ IsAnswered(meta) => Entered(meta.fetch.data, n) = Seen(n)
    /\ \A s \in Unserved(n) : s.body = wanted[n] /\ Unserved(n) = {s}

EditInv == AboutTypes /\ (~ disturbed /\ ~ hurried => \A n \in Names : Settled(n))

LEMMA AnsweredSave ==
    ASSUME NEW s, IsSave(s)
    PROVE  IsSave([s EXCEPT !.answered = TRUE]) /\ [s EXCEPT !.answered = TRUE].answered
  BY DEF IsSave

LEMMA NewEditor ==
    ASSUME NEW v
    PROVE  /\ IsEditor(NoEditor) /\ ~ NoEditor.editing
           /\ IsEditor(FreshEditor(v)) /\ ~ FreshEditor(v).editing
  <1>1. IsEditor(NoEditor)
    BY DEF NoEditor, IsEditor
  <1>2. ~ NoEditor.editing
    BY DEF NoEditor
  <1>3. FreshEditor(v) = [NoEditor EXCEPT !.draft = v]
    BY DEF FreshEditor
  <1>4. IsEditor(FreshEditor(v)) /\ ~ FreshEditor(v).editing
    BY <1>1, <1>2, <1>3 DEF IsEditor
  <1> QED BY <1>1, <1>2, <1>4

\* A step that leaves the catalog, the saves and what is wanted as they are, and of the
\* page's copy what it shows.
LEMMA NothingSaved ==
    ASSUME NEW n \in Names, Settled(n), UNCHANGED <<catalog, saves, wanted>>,
           meta'.data = meta.data, meta' = meta \/ ~ IsAnswered(meta)'
    PROVE  Settled(n)'
  <1>1. Seen(n)' = Seen(n) /\ Entry(n)' = Entry(n) /\ Unserved(n)' = Unserved(n)
    BY DEF Seen, Entry, Unserved, Loaded, Data
  <1>2. CASE meta' = meta
    BY <1>1, <1>2 DEF Settled
  <1>3. CASE ~ IsAnswered(meta)'
    BY <1>1, <1>3 DEF Settled
  <1> QED BY <1>2, <1>3

\* The user saves a field that he changed of an entry that shows what he wants.
LEMMA SendSettles ==
    ASSUME NEW n \in Names, Settled(n), AboutTypes, selected # Nobody, ~ hurried',
           NEW f \in {"owner", "tags"}, NEW v, Send(f, v), Seen(selected)[f] # v
    PROVE  Settled(n)'
  <1>1. Seen(selected) = wanted[selected] /\ IsEntry(Seen(selected))
    BY DEF Send, Behind, AboutTypes
  <1> DEFINE new == [id |-> sent', name |-> selected, body |-> Body(f, v), answered |-> FALSE]
  <1>2. /\ new.name = selected /\ new.body = Body(f, v) /\ ~ new.answered
        /\ saves' = saves \cup {new}
    BY DEF Send
  <1> HIDE DEF new
  <1>3. Seen(n)' = Seen(n) /\ Entry(n)' = Entry(n) /\ meta' = meta
    BY DEF Send, Seen, Entry
  <1>4. CASE n # selected
    <2>1. Unserved(n)' = Unserved(n)
      BY <1>2, <1>4 DEF Unserved
    <2>2. wanted'[n] = wanted[n]
      BY <1>4 DEF Send, AboutTypes
    <2> QED BY <1>3, <2>1, <2>2 DEF Settled
  <1>5. CASE n = selected
    <2>1. Unserved(n) = {}
      BY <1>1, <1>5 DEF Settled
    <2>2. Unserved(n)' = {new}
      BY <1>2, <1>5, <2>1 DEF Unserved
    <2>3. wanted'[n] = [wanted[n] EXCEPT ![f] = v]
      BY <1>5 DEF Send, AboutTypes
    <2>4. Body(f, v) = wanted'[n]
      BY <1>1, <1>5, <2>3 DEF Body
    <2>5. Seen(n) # wanted'[n]
      BY <1>1, <1>5, <2>3 DEF IsEntry
    <2>6. Entry(n) = Seen(n) /\ (IsAnswered(meta) => Entered(meta.fetch.data, n) = Seen(n))
      BY <1>1, <1>5, <2>1 DEF Settled
    <2> QED BY <1>2, <1>3, <2>2, <2>4, <2>5, <2>6 DEF Settled
  <1> QED BY <1>4, <1>5

\* The API stores what was sent.
LEMMA ServeSettles ==
    ASSUME NEW n \in Names, Settled(n), AboutTypes, NEW s \in saves, ServeSave(s)
    PROVE  Settled(n)'
  <1> DEFINE r == [s EXCEPT !.answered = TRUE]
  <1>1. Seen(n)' = Seen(n) /\ meta' = meta /\ wanted' = wanted
    BY DEF ServeSave, Seen
  <1>2. r \notin Unserved(n)' /\ r \notin Unserved(n)
    <2>1. r.answered
      BY AnsweredSave DEF AboutTypes
    <2> QED BY <2>1 DEF Unserved
  <1>3. saves' = (saves \ {s}) \cup {r}
    BY DEF ServeSave
  <1> HIDE DEF r
  <1>4. Unserved(n)' = Unserved(n) \ {s}
    BY <1>2, <1>3 DEF Unserved
  <1>5. CASE s.name # n
    <2>1. Entry(n)' = Entry(n)
      BY <1>5 DEF ServeSave, Upserts, Entry
    <2>2. Unserved(n)' = Unserved(n)
      BY <1>4, <1>5 DEF Unserved
    <2> QED BY <1>1, <2>1, <2>2 DEF Settled
  <1>6. CASE s.name = n
    <2>1. s \in Unserved(n)
      BY <1>6 DEF Unserved, ServeSave
    <2>2. Unserved(n)' = {} /\ Entry(n)' = s.body
      <3>1. Entry(n)' = s.body
        BY <1>6 DEF ServeSave, Upserts, Entry
      <3> QED BY <1>4, <2>1, <3>1 DEF Settled
    <2> QED BY <1>1, <2>1, <2>2 DEF Settled
  <1> QED BY <1>5, <1>6

\* An answer is what the page shows or what it is to show.
LEMMA ArrivesSettles ==
    ASSUME NEW n \in Names, Settled(n), AboutTypes, MetaArrives
    PROVE  Settled(n)'
  <1>1. Entry(n)' = Entry(n) /\ Unserved(n)' = Unserved(n) /\ wanted' = wanted
    BY DEF MetaArrives, Entry, Unserved
  <1>2. meta'.data = {meta.fetch.data} /\ meta'.fetch = Idle
    BY CellSteps DEF MetaArrives, AboutTypes
  <1>3. ~ IsAnswered(meta)'
    BY <1>2, Stages DEF IsAnswered
  <1>4. Seen(n)' = Entered(meta.fetch.data, n)
    BY <1>2 DEF Seen, Loaded, Data, Entered
  <1>5. IsAnswered(meta)
    BY DEF MetaArrives
  <1> QED BY <1>1, <1>3, <1>4, <1>5 DEF Settled

\* The API reads what it has.
LEMMA ReadSettles ==
    ASSUME NEW n \in Names, Settled(n), AboutTypes, MetaRead
    PROVE  Settled(n)'
  <1>1. Entry(n)' = Entry(n) /\ Unserved(n)' = Unserved(n) /\ wanted' = wanted
    BY DEF MetaRead, Entry, Unserved
  <1>2. meta'.data = meta.data /\ meta'.fetch = Answered(catalog)
    BY CellSteps DEF MetaRead, AboutTypes
  <1>3. Seen(n)' = Seen(n)
    BY <1>2 DEF Seen, Loaded, Data
  <1>4. Entered(meta'.fetch.data, n) = Entry(n)
    BY <1>2, Stages DEF Entered, Entry
  <1> QED BY <1>1, <1>3, <1>4 DEF Settled

\* A name that the catalog does not have is registered.
LEMMA RegisterSettles ==
    ASSUME NEW n \in Names, Settled(n), NEW m, Register(m), ~ disturbed'
    PROVE  Settled(n)'
  <1>1. Entry(n)' = Entry(n)
    BY DEF Register, Upserts, Entry
  <1>2. Seen(n)' = Seen(n) /\ Unserved(n)' = Unserved(n) /\ UNCHANGED <<meta, wanted>>
    BY DEF Register, Seen, Unserved
  <1> QED BY <1>1, <1>2 DEF Settled

\* The types of what a step changes.
LEMMA CellTypes ==
    ASSUME AboutTypes, [AboutNext]_aboutVars
    PROVE  IsCell(meta)'
  <1> USE DEF AboutTypes
  <1>1. CASE MetaRead
    <2>1. IsCell(Reading(meta, catalog))
      BY CellSteps
    <2> QED BY <1>1, <2>1 DEF MetaRead
  <1>2. CASE MetaPoll \/ MetaArrives \/ MetaFails \/ \E s \in saves : SaveAnswered(s)
    <2>1. IsCell(Asking(meta)) /\ IsCell(Arrived(meta)) /\ IsCell(Lost(meta))
      BY CellSteps
    <2> QED BY <1>2, <2>1 DEF MetaPoll, MetaArrives, MetaFails, SaveAnswered
  <1>3. CASE UNCHANGED meta
    BY <1>3
  <1> QED BY <1>1, <1>2, <1>3 DEF AboutNext, aboutVars, Select, OtherSaves, Ingest, HealthCheck, Register,
             OpenTab, ListArrives, StartEditing, Escape, SaveText, ClickTag, Send, Type, ServeSave, SaveFails, Restart

LEMMA WantedTypes ==
    ASSUME AboutTypes, [AboutNext]_aboutVars
    PROVE  /\ wanted' = [n \in Names |-> wanted'[n]]
           /\ \A n \in Names : IsEntry(wanted'[n])
  <1> USE DEF AboutTypes
  <1>1. ASSUME NEW f \in {"owner", "tags"}, NEW v, Send(f, v)
        PROVE  /\ wanted' = [n \in Names |-> wanted'[n]]
               /\ \A n \in Names : IsEntry(wanted'[n])
    <2>1. wanted' = [wanted EXCEPT ![selected][f] = v]
      BY <1>1 DEF Send
    <2>2. \A n \in Names : IsEntry(wanted'[n])
      BY <2>1 DEF IsEntry
    <2> QED BY <2>1, <2>2
  <1>2. CASE SaveText \/ ClickTag
    BY <1>1, <1>2 DEF SaveText, ClickTag
  <1>3. CASE UNCHANGED wanted
    BY <1>3
  <1> QED BY <1>2, <1>3 DEF AboutNext, aboutVars, Select, OtherSaves, Ingest, HealthCheck, Register,
             OpenTab, ListArrives, StartEditing, Escape, Type, ServeSave, SaveAnswered, SaveFails,
             MetaPoll, MetaRead, MetaArrives, MetaFails, Restart

LEMMA SavesTypes ==
    ASSUME AboutTypes, [AboutNext]_aboutVars
    PROVE  \A s \in saves' : IsSave(s)
  <1> USE DEF AboutTypes
  <1>1. ASSUME NEW f, NEW v, Send(f, v) PROVE \A s \in saves' : IsSave(s)
    <2> DEFINE new == [id |-> sent', name |-> selected, body |-> Body(f, v), answered |-> FALSE]
    <2>1. IsSave(new)
      BY DEF IsSave
    <2>2. saves' = saves \cup {new}
      BY <1>1 DEF Send
    <2> HIDE DEF new
    <2> QED BY <2>1, <2>2
  <1>2. CASE SaveText \/ ClickTag
    BY <1>1, <1>2 DEF SaveText, ClickTag
  <1>3. ASSUME NEW s \in saves, ServeSave(s) PROVE \A r \in saves' : IsSave(r)
    <2>1. IsSave([s EXCEPT !.answered = TRUE])
      BY AnsweredSave
    <2> QED BY <1>3, <2>1 DEF ServeSave
  <1>4. ASSUME NEW s \in saves, SaveAnswered(s) \/ SaveFails(s) PROVE \A r \in saves' : IsSave(r)
    BY <1>4 DEF SaveAnswered, SaveFails
  <1>5. CASE UNCHANGED saves
    BY <1>5
  <1> QED BY <1>2, <1>3, <1>4, <1>5 DEF AboutNext, aboutVars, Select, OtherSaves, Ingest, HealthCheck, Register,
             OpenTab, ListArrives, StartEditing, Escape, Type, MetaPoll, MetaRead, MetaArrives, MetaFails, Restart

\* An editor is only there with the tab that it is on.
LEMMA EditingTypes ==
    ASSUME AboutTypes, [AboutNext]_aboutVars
    PROVE  selected' \in Names \cup {Nobody} /\ IsEditor(editor') /\ (editor'.editing => Mounted')
  <1>1. IsEditor(editor) /\ (editor.editing => Mounted) /\ selected \in Names \cup {Nobody}
    BY DEF AboutTypes
  <1> DEFINE Right == IsEditor(editor') /\ (editor'.editing => Mounted')
  <1>2. selected' \in Names \cup {Nobody}
    BY <1>1 DEF AboutNext, aboutVars, Select, OpenTab, ListArrives, StartEditing, Escape, SaveText, ClickTag, Send,
       Type, OtherSaves, Ingest, HealthCheck, Register, ServeSave, SaveAnswered, SaveFails,
       MetaPoll, MetaRead, MetaArrives, MetaFails, Restart
  <1> SUFFICES Right
    BY <1>2
  <1>11. CASE UNCHANGED <<selected, listed, tab, editor>>
    BY <1>1, <1>11 DEF Mounted, Detailed
  <1>3. ASSUME UNCHANGED <<selected, listed, tab>>, IsEditor(editor'), editor'.editing => editor.editing
        PROVE  Right
    BY <1>1, <1>3 DEF Mounted, Detailed
  <1>4. ASSUME Rerender(editor) PROVE Right
    <2>1. CASE ~ Mounted'
      BY <1>4, <2>1, NewEditor DEF Rerender
    <2>2. CASE Mounted' /\ ~ Mounted
      BY <1>4, <2>2, NewEditor DEF Rerender
    <2>3. CASE Mounted' /\ Mounted
      <3>1. IsEditor([editor EXCEPT !.draft = Value'])
        BY <1>1 DEF IsEditor
      <3> QED BY <1>1, <1>4, <2>3, <3>1 DEF Rerender
    <2> QED BY <2>1, <2>2, <2>3
  <1>5. CASE \/ \E n \in Names : Select(n)
             \/ \E t \in {"about", "other"} : OpenTab(t)
             \/ ListArrives \/ MetaArrives
    BY <1>4, <1>5 DEF Select, OpenTab, ListArrives, MetaArrives
  <1>6. CASE StartEditing
    <2>1. IsEditor(editor')
      BY <1>1, <1>6 DEF StartEditing, IsEditor
    <2> QED BY <1>6, <2>1 DEF StartEditing, Mounted, Detailed
  <1>7. ASSUME NEW v \in Texts, Type(v) PROVE Right
    <2>1. IsEditor(editor') /\ editor'.editing = editor.editing
      BY <1>1, <1>7 DEF Type, IsEditor
    <2> QED BY <1>3, <1>7, <2>1 DEF Type
  <1>8. CASE Escape
    <2>1. IsEditor(editor')
      BY <1>1, <1>8 DEF Escape, IsEditor
    <2> QED BY <1>3, <1>8, <2>1 DEF Escape
  <1>9. CASE SaveText
    <2>1. UNCHANGED <<selected, listed, tab>> /\ editor.editing
      BY <1>9 DEF SaveText, Send
    <2>2. CASE editor' = [editor EXCEPT !.editing = FALSE]
      BY <1>1, <1>3, <2>1, <2>2 DEF IsEditor
    <2>3. CASE editor' = [editor EXCEPT !.saving = sent']
      BY <1>1, <1>3, <2>1, <2>3 DEF IsEditor
    <2> QED BY <1>9, <2>2, <2>3 DEF SaveText
  <1>10. ASSUME NEW s \in saves, SaveAnswered(s) \/ SaveFails(s) PROVE Right
    <2>1. UNCHANGED <<selected, listed, tab>>
      BY <1>10 DEF SaveAnswered, SaveFails
    <2>2. CASE editor' = [editor EXCEPT !.editing = FALSE, !.saving = NoSave]
      BY <1>1, <1>3, <2>1, <2>2 DEF IsEditor
    <2>3. CASE editor' = [editor EXCEPT !.saving = NoSave]
      BY <1>1, <1>3, <2>1, <2>3 DEF IsEditor
    <2>4. CASE editor' = editor
      BY <1>1, <1>3, <2>1, <2>4
    <2> QED BY <1>10, <2>2, <2>3, <2>4 DEF SaveAnswered, AfterSave, SaveFails
  <1> QED BY <1>11, <1>5, <1>6, <1>7, <1>8, <1>9, <1>10 DEF AboutNext, aboutVars, ClickTag, Send, OtherSaves, Ingest,
       HealthCheck, Register, ServeSave, MetaPoll, MetaRead, MetaFails, Restart

\* What happened to the user cannot be undone.
LEMMA FlagTypes ==
    ASSUME AboutTypes, [AboutNext]_aboutVars
    PROVE  /\ disturbed' \in BOOLEAN /\ (disturbed => disturbed')
           /\ hurried' \in BOOLEAN /\ (hurried => hurried')
  <1> USE DEF AboutTypes
  <1>1. CASE UNCHANGED <<disturbed, hurried>>
    BY <1>1
  <1>2. CASE \E n \in Names : Select(n)
    <2>1. disturbed' = disturbed /\ \E more \in BOOLEAN : hurried' = (hurried \/ more)
      BY <1>2 DEF Select
    <2> QED BY <2>1
  <1>3. ASSUME UNCHANGED disturbed, hurried' = (hurried \/ Behind)
        PROVE  /\ disturbed' \in BOOLEAN /\ (disturbed => disturbed')
               /\ hurried' \in BOOLEAN /\ (hurried => hurried')
    BY <1>3
  <1>4. CASE StartEditing \/ SaveText \/ ClickTag
    BY <1>1, <1>3, <1>4 DEF StartEditing, SaveText, ClickTag, Send
  <1>5. ASSUME NEW n, Register(n)
        PROVE  /\ disturbed' \in BOOLEAN /\ (disturbed => disturbed')
               /\ hurried' \in BOOLEAN /\ (hurried => hurried')
    BY <1>5 DEF Register
  <1>6. ASSUME UNCHANGED hurried, disturbed' = TRUE
        PROVE  /\ disturbed' \in BOOLEAN /\ (disturbed => disturbed')
               /\ hurried' \in BOOLEAN /\ (hurried => hurried')
    BY <1>6
  <1> QED BY <1>1, <1>2, <1>4, <1>5, <1>6 DEF AboutNext, aboutVars, OpenTab, ListArrives, Escape, Type, OtherSaves,
      Ingest, HealthCheck, ServeSave, SaveAnswered, SaveFails, MetaPoll, MetaRead, MetaArrives, MetaFails, Restart

\* Each step of the tab keeps the invariant.
LEMMA EditSteps ==
    ASSUME EditInv, [AboutNext]_aboutVars
    PROVE  EditInv'
  <1>1. AboutTypes'
    <2>1. /\ IsCell(meta') /\ \A s \in saves' : IsSave(s)
          /\ wanted' = [m \in Names |-> wanted'[m]] /\ \A m \in Names : IsEntry(wanted'[m])
          /\ selected' \in Names \cup {Nobody} /\ IsEditor(editor') /\ (editor'.editing => Mounted')
          /\ disturbed' \in BOOLEAN /\ hurried' \in BOOLEAN
      BY CellTypes, WantedTypes, SavesTypes, EditingTypes, FlagTypes DEF EditInv
    <2> QED BY <2>1 DEF AboutTypes
  <1> SUFFICES ASSUME ~ disturbed', ~ hurried', NEW n \in Names PROVE Settled(n)'
    BY <1>1 DEF EditInv
  <1>2. ~ disturbed /\ ~ hurried
    BY FlagTypes DEF EditInv
  <1>3. AboutTypes /\ Settled(n)
    BY <1>2 DEF EditInv
  <1>4. CASE UNCHANGED <<catalog, meta, saves, wanted>>
    BY <1>3, <1>4, NothingSaved
  <1>5. CASE SaveText
    <2>1. CASE editor.draft = Value
      BY <1>4, <1>5, <2>1 DEF SaveText
    <2>2. CASE editor.draft # Value
      <3>1. Send("owner", editor.draft) /\ Seen(selected).owner # editor.draft /\ selected # Nobody
        BY <1>3, <1>5, <2>2 DEF SaveText, Value, AboutTypes, Mounted, Detailed
      <3> QED BY <1>3, <3>1, SendSettles
    <2> QED BY <2>1, <2>2
  <1>6. CASE ClickTag
    <2> DEFINE v == IF Seen(selected).tags = {} THEN {"prod"} ELSE {}
    <2>1. Send("tags", v) /\ selected # Nobody /\ Seen(selected).tags # v
      BY <1>6 DEF ClickTag, Mounted, Detailed
    <2> HIDE DEF v
    <2> QED BY <1>3, <2>1, SendSettles
  <1>7. ASSUME NEW s \in saves, ServeSave(s) PROVE Settled(n)'
    BY <1>3, <1>7, ServeSettles
  <1>8. ASSUME NEW s \in saves, SaveAnswered(s) PROVE Settled(n)'
    <2>1. Seen(n)' = Seen(n) /\ ~ IsAnswered(meta)'
      <3>1. meta'.data = meta.data /\ meta'.fetch = Sent
        BY <1>3, <1>8, CellSteps DEF SaveAnswered, AboutTypes
      <3> QED BY <3>1, Stages DEF Seen, Loaded, Data, IsAnswered
    <2>2. Unserved(n)' = Unserved(n) /\ Entry(n)' = Entry(n) /\ wanted' = wanted
      BY <1>8 DEF SaveAnswered, Unserved, Entry
    <2> QED BY <1>3, <2>1, <2>2 DEF Settled
  <1>9. CASE MetaPoll \/ MetaFails
    <2>1. meta'.data = meta.data /\ meta'.fetch \in {Sent, Idle}
      BY <1>3, <1>9, CellSteps DEF MetaPoll, MetaFails, AboutTypes
    <2>2. ~ IsAnswered(meta)'
      BY <2>1, Stages DEF IsAnswered
    <2> QED BY <1>3, <1>9, <2>1, <2>2, NothingSaved DEF MetaPoll, MetaFails
  <1>10. CASE MetaRead
    BY <1>3, <1>10, ReadSettles
  <1>11. CASE MetaArrives
    BY <1>3, <1>11, ArrivesSettles
  <1>12. ASSUME NEW m, Register(m) PROVE Settled(n)'
    BY <1>3, <1>12, RegisterSettles
  <1> QED BY <1>4, <1>5, <1>6, <1>7, <1>8, <1>9, <1>10, <1>11, <1>12 DEF AboutNext, aboutVars, Select, OpenTab,
      ListArrives, StartEditing, Escape, Type, OtherSaves, Ingest, HealthCheck, SaveFails, Restart

LEMMA EditInit == Init => EditInv
  <1> SUFFICES ASSUME Init PROVE EditInv
    OBVIOUS
  <1>1. /\ wanted = [n \in Names |-> Entry(n)] /\ \A n \in Names : Entry(n) = Blank
        /\ saves = {} /\ selected = Nobody /\ editor = NoEditor /\ meta \in {Fresh, Closed}
    BY DEF Init, AboutInit, AboutRests, Entry
  <1>2. IsCell(meta) /\ ~ IsAnswered(meta)
    BY <1>1, Stages DEF Fresh, Closed, IsCell, IsAnswered
  <1>3. AboutTypes
    <2>1. IsEntry(Blank)
      BY DEF IsEntry, Blank
    <2>2. disturbed = FALSE /\ hurried = FALSE
      BY DEF Init, AboutInit, AboutRests
    <2> QED BY <1>1, <1>2, <2>1, <2>2, NewEditor DEF AboutTypes
  <1>4. \A n \in Names : Settled(n)
    BY <1>1, <1>2 DEF Settled, Unserved
  <1> QED BY <1>3, <1>4 DEF EditInv

\* No save of the user loses another: whatever other entries were selected and saved
\* meanwhile, when all saves are answered the catalog has what was last saved of each
\* field; as long as each was made with the earlier ones on the screen, and nobody else
\* wrote an entry.
THEOREM SavesAreKept == Spec => []EditsKept
  <1>1. EditInv /\ [Next]_vars => EditInv'
    BY PartSteps, EditSteps
  <1>2. EditInv => EditsKept
    BY DEF EditInv, EditsKept, Settled, Unserved
  <1> QED BY <1>1, <1>2, EditInit, PTL DEF Spec

-----------------------------------------------------------------------------
(* The Guards tab.                                                         *)

TaskFields == {"id", "kind", "row", "page", "project", "value", "answered", "found"}
IsTask(t) == TaskFields \subseteq DOMAIN t /\ t.answered \in BOOLEAN
FormTypes ==
    /\ binding \in Projects \cup {AllProjects}
    /\ overrides = [p \in Projects |-> overrides[p]]
    /\ defaults = [p \in Projects |-> defaults[p]]
    /\ clashed \in BOOLEAN
    /\ \A t \in tasks : IsTask(t)
TabTypes ==
    /\ FormTypes
    /\ editing = TabForm
    /\ project \in Projects
    /\ \A t \in tasks : t.row = NoRow /\ t.kind \in {"load", "fallback", "save", "delete"}

\* The agent's own configuration, and the one it has, in the project that is active.
Own  == overrides[Resolve(project)]
Here == Effective(Resolve(project))
FormIsTrue ==
    /\ isDefault = (Own = Unset)
    /\ \A config \in Here : edited \/ values = config.value

\* The requests whose answers fill the form, or lead to one that does.
Loads(t) == t.kind \in {"load", "fallback"}
Mends(t) ==
    \/ Loads(t)
    \/ t.kind = "save" /\ t.value \notin Unfit
    \/ t.kind = "delete" /\ t.answered /\ t.found # {}
\* An answer on its way is still right when it arrives.
Truthful(t) ==
    /\ t.kind = "load" /\ t.answered => t.found = Here
    /\ t.kind = "fallback" => Here = {} /\ Own = Unset /\ (t.answered => t.found = {})
    /\ t.kind = "save" =>
         /\ t.value # Unset
         /\ t.answered => IF t.value \in Unfit THEN t.found = {}
                          ELSE Own = t.value /\ t.found = {Config(t.value, FALSE)}
    /\ t.kind = "delete" /\ t.answered /\ t.found # {} => Own = Unset
\* While nothing overlaps but resets: a save is alone, a form is loaded beside a reset
\* only when there is nothing left to reset, and the form is true or about to be filled.
Unhurried ==
    /\ values # Unset
    /\ \A t \in tasks : t.project = project /\ Truthful(t)
    /\ \A t \in tasks : t.kind = "save" => tasks = {t}
    /\ \A t, r \in tasks : Loads(t) /\ r.kind = "delete" => Own = Unset
    /\ FormIsTrue \/ \E t \in tasks : Mends(t)
TabInv == TabTypes /\ (~ clashed => Unhurried)

\* A request when it is sent, answered, or continued by another.
LoadOf(p) == [Task("load") EXCEPT !.project = p, !.page = p]
AnsweredBy(t, found) == [t EXCEPT !.answered = TRUE, !.found = found]
ContinuedBy(t, kind) == [t EXCEPT !.kind = kind, !.answered = FALSE, !.found = {}]

LEMMA NewTask ==
    ASSUME NEW kind
    PROVE  /\ Task(kind).kind = kind /\ Task(kind).row = NoRow /\ Task(kind).project = project
           /\ Task(kind).value = values /\ Task(kind).found = {}
           /\ Task(kind).answered = FALSE /\ IsTask(Task(kind))
  <1>1. /\ Task(kind).kind = kind /\ Task(kind).row = NoRow /\ Task(kind).project = project
        /\ Task(kind).value = values /\ Task(kind).found = {}
    BY DEF Task
  <1>2. Task(kind).answered = FALSE
    BY DEF Task
  <1>3. IsTask(Task(kind))
    <2>1. TaskFields \subseteq DOMAIN Task(kind)
      BY DEF Task, TaskFields
    <2> QED BY <1>2, <2>1 DEF IsTask
  <1> QED BY <1>1, <1>2, <1>3

LEMMA NewLoad ==
    ASSUME NEW p
    PROVE  /\ LoadOf(p).kind = "load" /\ LoadOf(p).row = NoRow /\ LoadOf(p).project = p
           /\ LoadOf(p).answered = FALSE /\ IsTask(LoadOf(p))
  <1>1. /\ LoadOf(p).kind = "load" /\ LoadOf(p).row = NoRow /\ LoadOf(p).project = p
        /\ LoadOf(p).answered = FALSE
    BY DEF LoadOf, Task
  <1>2. IsTask(LoadOf(p))
    BY <1>1, NewTask DEF IsTask, TaskFields, LoadOf
  <1> QED BY <1>1, <1>2

LEMMA AnsweredTask ==
    ASSUME NEW t, IsTask(t), NEW found
    PROVE  /\ IsTask(AnsweredBy(t, found))
           /\ AnsweredBy(t, found).answered = TRUE /\ AnsweredBy(t, found).found = found
           /\ AnsweredBy(t, found).kind = t.kind /\ AnsweredBy(t, found).row = t.row
           /\ AnsweredBy(t, found).project = t.project /\ AnsweredBy(t, found).value = t.value
           /\ AnsweredBy(t, found).page = t.page
  <1>1. AnsweredBy(t, found).answered = TRUE /\ AnsweredBy(t, found).found = found
    BY DEF IsTask, TaskFields, AnsweredBy
  <1>2. /\ AnsweredBy(t, found).kind = t.kind /\ AnsweredBy(t, found).row = t.row
        /\ AnsweredBy(t, found).project = t.project /\ AnsweredBy(t, found).value = t.value
        /\ AnsweredBy(t, found).page = t.page
    BY DEF IsTask, TaskFields, AnsweredBy
  <1>3. DOMAIN AnsweredBy(t, found) = DOMAIN t
    BY DEF AnsweredBy
  <1>4. IsTask(AnsweredBy(t, found))
    BY <1>1, <1>3 DEF IsTask
  <1> QED BY <1>1, <1>2, <1>4

LEMMA ContinuedTask ==
    ASSUME NEW t, IsTask(t), NEW kind
    PROVE  /\ IsTask(ContinuedBy(t, kind))
           /\ ContinuedBy(t, kind).kind = kind /\ ContinuedBy(t, kind).answered = FALSE
           /\ ContinuedBy(t, kind).row = t.row /\ ContinuedBy(t, kind).project = t.project
  <1>1. ContinuedBy(t, kind).kind = kind /\ ContinuedBy(t, kind).answered = FALSE
    BY DEF IsTask, TaskFields, ContinuedBy
  <1>2. ContinuedBy(t, kind).row = t.row /\ ContinuedBy(t, kind).project = t.project
    BY DEF IsTask, TaskFields, ContinuedBy
  <1>3. DOMAIN ContinuedBy(t, kind) = DOMAIN t
    BY DEF ContinuedBy
  <1>4. IsTask(ContinuedBy(t, kind))
    BY <1>1, <1>3 DEF IsTask
  <1> QED BY <1>1, <1>2, <1>4

LEMMA ResolveIs ==
    ASSUME FormTypes, NEW p \in Projects
    PROVE  Resolve(p) \in Projects /\ Resolve(p) # AllProjects
  BY PreventionAssumption DEF FormTypes, Resolve

LEMMA ConfigIs ==
    ASSUME NEW v, NEW d \in BOOLEAN
    PROVE  Config(v, d).value = v /\ Config(v, d).is_default = d
  BY DEF Config

\* The configuration an agent has is its own, or else the default, if any.
LEMMA HereIs ==
    /\ Own # Unset => Here = {Config(Own, FALSE)}
    /\ Own = Unset => \/ Here = {}
                      \/ /\ defaults[Resolve(project)] # Unset
                         /\ Here = {Config(defaults[Resolve(project)], TRUE)}
  BY DEF Here, Own, Effective, Default

\* What does not concern the active project leaves what the agent has there.
LEMMA HereStays ==
    ASSUME FormTypes, project \in Projects, UNCHANGED <<defaults, binding, project>>,
           overrides'[Resolve(project)] = overrides[Resolve(project)]
    PROVE  Own' = Own /\ Here' = Here /\ \A t : Truthful(t)' = Truthful(t)
  <1>1. Own' = Own /\ Here' = Here
    BY DEF Own, Here, Effective, Default, Resolve
  <1> QED BY <1>1 DEF Truthful

\* The types of what a step of the tab changes.
LEMMA TabStepTypes ==
    ASSUME TabTypes, GuardNext, UNCHANGED <<binding, sectionVars>>
    PROVE  TabTypes'
  <1>1. /\ binding \in Projects \cup {AllProjects} /\ project \in Projects
        /\ overrides = [p \in Projects |-> overrides[p]] /\ defaults = [p \in Projects |-> defaults[p]]
        /\ clashed \in BOOLEAN /\ editing = TabForm
        /\ \A t \in tasks : IsTask(t) /\ t.row = NoRow /\ t.kind \in {"load", "fallback", "save", "delete"}
    BY DEF TabTypes, FormTypes
  <1> DEFINE Good(S) == \A t \in S : IsTask(t) /\ t.row = NoRow /\ t.kind \in {"load", "fallback", "save", "delete"}
  <1>2. binding' \in Projects \cup {AllProjects} /\ editing' = TabForm
    BY <1>1 DEF sectionVars
  <1>3. project' \in Projects
    BY <1>1 DEF GuardNext, Edit, HandleSave, HandleReset, SwitchProject, OthersSave, Answer, Arrives, Fails
  <1>4. overrides' = [p \in Projects |-> overrides'[p]] /\ defaults' = [p \in Projects |-> defaults'[p]]
    <2>1. ASSUME NEW t \in tasks, Answer(t)
          PROVE  overrides' = [p \in Projects |-> overrides'[p]] /\ defaults' = [p \in Projects |-> defaults'[p]]
      BY <1>1, <2>1 DEF Answer, Writes
    <2>2. ASSUME NEW p, NEW v, OthersSave(p, v)
          PROVE  overrides' = [q \in Projects |-> overrides'[q]] /\ defaults' = [q \in Projects |-> defaults'[q]]
      BY <1>1, <2>2 DEF OthersSave
    <2>3. CASE UNCHANGED <<overrides, defaults>>
      BY <1>1, <2>3
    <2> QED BY <2>1, <2>2, <2>3 DEF GuardNext, Edit, HandleSave, HandleReset, SwitchProject, Arrives, Fails
  <1>5. clashed' \in BOOLEAN
    <2>1. \/ clashed' = clashed \/ clashed' = TRUE
          \/ \E b \in BOOLEAN : clashed' = (clashed \/ b)
      BY DEF GuardNext, Edit, HandleSave, HandleReset, SwitchProject, OthersSave, Answer, Arrives, Fails, Meets
    <2> QED BY <1>1, <2>1
  <1>6. Good(tasks')
    <2>1. CASE UNCHANGED tasks
      BY <1>1, <2>1
    <2>2. ASSUME NEW kind \in {"save", "delete"}, tasks' = tasks \cup {Task(kind)} PROVE Good(tasks')
      BY <1>1, <2>2, NewTask
    <2>3. ASSUME NEW p, SwitchProject(p) PROVE Good(tasks')
      <3>1. tasks' = tasks \cup {LoadOf(p)}
        BY <2>3 DEF SwitchProject, LoadOf
      <3> QED BY <1>1, <3>1, NewLoad
    <2>4. ASSUME NEW t \in tasks, Answer(t) PROVE Good(tasks')
      <3>1. tasks' = (tasks \ {t}) \cup {AnsweredBy(t, Found(t))}
        BY <2>4 DEF Answer, AnsweredBy
      <3>2. IsTask(t) /\ t.row = NoRow /\ t.kind \in {"load", "fallback", "save", "delete"}
        BY <1>1
      <3>3. /\ IsTask(AnsweredBy(t, Found(t))) /\ AnsweredBy(t, Found(t)).row = t.row
            /\ AnsweredBy(t, Found(t)).kind = t.kind
        BY <3>2, AnsweredTask
      <3> QED BY <1>1, <3>1, <3>2, <3>3
    <2>5. ASSUME NEW t \in tasks, NEW kind \in {"load", "fallback"}, tasks' = Continues(t, kind) PROVE Good(tasks')
      <3>1. tasks' = (tasks \ {t}) \cup {ContinuedBy(t, kind)}
        BY <2>5 DEF Continues, ContinuedBy
      <3>2. IsTask(t) /\ t.row = NoRow
        BY <1>1
      <3>3. /\ IsTask(ContinuedBy(t, kind)) /\ ContinuedBy(t, kind).row = t.row
            /\ ContinuedBy(t, kind).kind = kind
        BY <3>2, ContinuedTask
      <3> QED BY <1>1, <3>1, <3>2, <3>3
    <2>6. ASSUME NEW t \in tasks, tasks' = tasks \ {t} PROVE Good(tasks')
      BY <1>1, <2>6
    <2>7. ASSUME NEW t \in tasks, NEW found, Ends(t, found) PROVE Good(tasks')
      BY <2>5, <2>6, <2>7 DEF Ends, LoadEnds, SaveEnds, ResetEnds
    <2> HIDE DEF Good
    <2> QED BY <2>1, <2>2, <2>3, <2>4, <2>7 DEF GuardNext, Edit, HandleSave, HandleReset, OthersSave, Arrives, Fails
  <1> QED BY <1>2, <1>3, <1>4, <1>5, <1>6 DEF TabTypes, FormTypes

\* The user edits, saves, resets and switches.
LEMMA EditTells ==
    ASSUME TabTypes, Unhurried, UNCHANGED binding, NEW v \in Forms, Edit(v)
    PROVE  Unhurried'
  <1>1. Own' = Own /\ Here' = Here /\ \A t : Truthful(t)' = Truthful(t)
    BY HereStays DEF Edit, TabTypes
  <1>2. v # Unset
    BY PreventionAssumption DEF Forms
  <1>3. FormIsTrue => FormIsTrue'
    BY <1>1 DEF Edit, FormIsTrue
  <1> QED BY <1>1, <1>2, <1>3 DEF Unhurried, Edit

LEMMA SaveTells ==
    ASSUME TabTypes, Unhurried, UNCHANGED binding, HandleSave, ~ clashed'
    PROVE  Unhurried'
  <1>1. PICK n : n = Task("save")
    OBVIOUS
  <1>2. tasks = {} /\ tasks' = {n} /\ values' = values /\ project' = project
    BY <1>1 DEF HandleSave, Meets, TabTypes, FormTypes
  <1>3. n.kind = "save" /\ n.project = project /\ n.value = values /\ n.answered = FALSE
    BY <1>1, NewTask
  <1>4. Truthful(n)'
    BY <1>3 DEF Truthful, Unhurried
  <1>5. FormIsTrue
    BY <1>2 DEF Unhurried
  <1>6. Own' = Own /\ Here' = Here
    BY HereStays DEF HandleSave, TabTypes
  <1>7. FormIsTrue'
    BY <1>5, <1>6 DEF FormIsTrue, HandleSave
  <1> QED BY <1>2, <1>3, <1>4, <1>7 DEF Unhurried, Loads

LEMMA ResetTells ==
    ASSUME TabTypes, Unhurried, UNCHANGED binding, HandleReset, ~ clashed'
    PROVE  Unhurried'
  <1>1. PICK n : n = Task("delete")
    OBVIOUS
  <1>2. /\ \A t \in tasks : t.kind = "delete"
        /\ tasks' = tasks \cup {n} /\ UNCHANGED <<values, project, isDefault, edited, overrides, defaults>>
    BY <1>1 DEF HandleReset, TabTypes, FormTypes
  <1>3. n.kind = "delete" /\ n.project = project /\ n.answered = FALSE
    BY <1>1, NewTask
  <1>4. Own' = Own /\ Here' = Here /\ \A t : Truthful(t)' = Truthful(t)
    BY <1>2, HereStays DEF TabTypes
  <1>5. Truthful(n)
    BY <1>3 DEF Truthful
  <1>6. FormIsTrue' = FormIsTrue
    BY <1>2, <1>4 DEF FormIsTrue
  <1> QED BY <1>2, <1>3, <1>4, <1>5, <1>6 DEF Unhurried, Loads

LEMMA SwitchTells ==
    ASSUME TabTypes, Unhurried, UNCHANGED binding, NEW p \in Projects, SwitchProject(p), ~ clashed'
    PROVE  Unhurried'
  <1>1. PICK n : n = LoadOf(p)
    OBVIOUS
  <1>2. tasks = {} /\ tasks' = {n} /\ values' = values /\ project' = p
    BY <1>1 DEF SwitchProject, Meets, TabTypes, FormTypes, LoadOf
  <1>3. n.kind = "load" /\ n.project = p /\ n.answered = FALSE
    BY <1>1, NewLoad
  <1>4. Truthful(n)' /\ Mends(n)
    BY <1>3 DEF Truthful, Mends, Loads
  <1> QED BY <1>2, <1>3, <1>4 DEF Unhurried

\* Others save the agent's configuration in another project.
LEMMA OthersTell ==
    ASSUME TabTypes, Unhurried, UNCHANGED binding, NEW p \in Projects, NEW v, OthersSave(p, v), ~ clashed'
    PROVE  Unhurried'
  <1>1. p # Resolve(project) /\ overrides' = [overrides EXCEPT ![p] = v]
    BY DEF OthersSave, TabTypes, FormTypes
  <1>2. overrides'[Resolve(project)] = overrides[Resolve(project)]
    BY <1>1, ResolveIs DEF TabTypes, FormTypes
  <1>3. Own' = Own /\ Here' = Here /\ \A t : Truthful(t)' = Truthful(t)
    BY <1>2, HereStays DEF TabTypes, OthersSave
  <1>4. FormIsTrue' = FormIsTrue
    BY <1>3 DEF FormIsTrue, OthersSave
  <1> QED BY <1>3, <1>4 DEF Unhurried, OthersSave

\* The API answers: the other requests under way, if any, stay truthful.
LEMMA AnswerTells ==
    ASSUME TabTypes, Unhurried, UNCHANGED binding, NEW t \in tasks, Answer(t)
    PROVE  Unhurried'
  <1>1. PICK p : p = Resolve(project)
    OBVIOUS
  <1>2. PICK r : r = AnsweredBy(t, Found(t))
    OBVIOUS
  <1>3. IsTask(t) /\ t.row = NoRow /\ t.kind \in {"load", "fallback", "save", "delete"}
    BY DEF TabTypes, FormTypes
  <1>4. t.project = project /\ Truthful(t)
    BY DEF Unhurried
  <1>5. /\ r.answered = TRUE /\ r.found = Found(t) /\ r.kind = t.kind
        /\ r.project = project /\ r.value = t.value
    BY <1>2, <1>3, <1>4, AnsweredTask
  <1>6. tasks' = (tasks \ {t}) \cup {r}
    BY <1>2 DEF Answer, AnsweredBy
  <1>7. p \in Projects /\ p # AllProjects /\ p = Resolve(t.project)
    BY <1>1, <1>4, ResolveIs DEF TabTypes
  <1>8. defaults' = defaults /\ project' = project
    BY <1>3 DEF Answer, Writes, NoRow
  <1>9. ASSUME overrides' = overrides, Truthful(r)', Mends(t) => Mends(r)
        PROVE  Unhurried'
    <2>1. Own' = Own /\ Here' = Here /\ \A x : Truthful(x)' = Truthful(x)
      BY <1>8, <1>9, HereStays DEF TabTypes
    <2>2. FormIsTrue' = FormIsTrue
      BY <2>1 DEF FormIsTrue, Answer
    <2> QED BY <1>5, <1>6, <1>8, <1>9, <2>1, <2>2 DEF Unhurried, Loads, Answer
  <1>10. CASE t.kind = "load"
    <2>1. Found(t) = Here /\ overrides' = overrides
      BY <1>1, <1>7, <1>10 DEF Answer, Writes, Found, Here
    <2>2. Here' = Here
      BY <1>8, <2>1, HereStays DEF TabTypes
    <2> QED BY <1>5, <1>9, <1>10, <2>1, <2>2 DEF Truthful, Mends, Loads
  <1>11. CASE t.kind = "fallback"
    <2>1. Here = {} /\ Own = Unset
      BY <1>4, <1>11 DEF Truthful
    <2>2. Found(t) = {} /\ overrides' = overrides
      BY <1>1, <1>7, <1>11, <2>1 DEF Answer, Writes, Found, Here, Effective, Own
    <2>3. Here' = Here /\ Own' = Own
      BY <1>8, <2>2, HereStays DEF TabTypes
    <2> QED BY <1>5, <1>9, <1>11, <2>1, <2>2, <2>3 DEF Truthful, Mends, Loads
  <1>14. CASE t.kind = "save" /\ t.value \in Unfit
    <2>1. Found(t) = {}
      BY <1>7, <1>14 DEF Found
    <2>2. overrides' = overrides /\ t.value # Unset
      BY <1>4, <1>14, <2>1 DEF Answer, Writes, Truthful
    <2> QED BY <1>5, <1>9, <1>14, <2>1, <2>2 DEF Truthful, Mends, Loads
  <1>12. CASE t.kind = "save" /\ t.value \notin Unfit
    <2>1. tasks = {t} /\ t.value # Unset
      BY <1>4, <1>12 DEF Unhurried, Truthful
    <2>2. Found(t) = {Config(t.value, FALSE)}
      BY <1>7, <1>12 DEF Found
    <2>3. overrides' = [overrides EXCEPT ![p] = t.value]
      BY <1>3, <1>7, <1>12, <2>2 DEF Answer, Writes, NoRow
    <2>4. Own' = t.value
      BY <1>1, <1>7, <1>8, <2>3 DEF Own, Resolve, TabTypes, FormTypes
    <2>5. Truthful(r)' /\ Mends(r)
      BY <1>5, <1>12, <2>1, <2>2, <2>4 DEF Truthful, Mends
    <2> QED BY <1>5, <1>6, <1>8, <1>12, <2>1, <2>5 DEF Unhurried, Loads, Answer
  <1>13. CASE t.kind = "delete"
    <2>1. CASE Own = Unset
      <3>1. Found(t) = {} /\ overrides' = overrides
        BY <1>1, <1>7, <1>13, <2>1 DEF Answer, Writes, Found, Own
      <3> QED BY <1>5, <1>9, <1>13, <3>1 DEF Truthful, Mends, Loads, Answer
    <2>2. CASE Own # Unset
      <3>1. Found(t) # {}
        BY <1>1, <1>7, <1>13, <2>2 DEF Found, Own
      <3>2. overrides' = [overrides EXCEPT ![p] = Unset]
        BY <1>3, <1>7, <1>13, <3>1 DEF Answer, Writes, NoRow
      <3>3. Own' = Unset
        BY <1>1, <1>7, <1>8, <3>2 DEF Own, Resolve, TabTypes, FormTypes
      <3>4. \A x \in tasks : x.kind = "delete"
        BY <1>13, <2>2 DEF Unhurried, TabTypes, Loads
      <3>5. \A x \in tasks' : x.kind = "delete" /\ x.project = project
        BY <1>5, <1>6, <1>13, <3>4 DEF Unhurried
      <3>6. Mends(r)
        BY <1>5, <1>13, <3>1 DEF Mends
      <3>7. \A x \in tasks' : Truthful(x)'
        BY <3>3, <3>5 DEF Truthful
      <3> QED BY <1>6, <1>8, <3>3, <3>5, <3>6, <3>7 DEF Unhurried, Loads, Answer
    <2> QED BY <2>1, <2>2
  <1> QED BY <1>3, <1>10, <1>11, <1>12, <1>13, <1>14

\* What fills the form is true of the agent.
LEMMA Fills ==
    ASSUME NEW v, NEW d \in BOOLEAN, NEW e \in BOOLEAN,
           ApplyConfig([Config(v, d) EXCEPT !.is_default = @ \/ e])
    PROVE  values' = v /\ isDefault' = (d \/ e) /\ edited' = FALSE
  BY DEF ApplyConfig, Config

LEMMA FillsPlain ==
    ASSUME NEW v, NEW d \in BOOLEAN, ApplyConfig(Config(v, d))
    PROVE  values' = v /\ isDefault' = d /\ edited' = FALSE
  BY DEF ApplyConfig, Config

\* An answer arrives: it fills the form with the truth, or leads to one that will.
LEMMA ArriveTells ==
    ASSUME TabTypes, Unhurried, UNCHANGED binding, NEW t \in tasks, Arrives(t)
    PROVE  Unhurried'
  <1>1. Own' = Own /\ Here' = Here /\ (\A x : Truthful(x)' = Truthful(x)) /\ project' = project
    BY HereStays DEF TabTypes, Arrives
  <1>2. t.answered /\ Ends(t, t.found) /\ Truthful(t) /\ IsTask(t) /\ t.project = project
    BY DEF Arrives, Unhurried, TabTypes, FormTypes
  <1>3. ASSUME FormIsTrue', values' # Unset, tasks' = tasks \ {t} PROVE Unhurried'
    BY <1>1, <1>3 DEF Unhurried, Loads
  <1>4. ASSUME NEW kind \in {"load", "fallback"}, tasks' = Continues(t, kind), Own = Unset, t.kind # "save",
               kind = "fallback" => Here = {}, values' = values
        PROVE  Unhurried'
    <2>1. PICK r : r = ContinuedBy(t, kind)
      OBVIOUS
    <2>2. tasks' = (tasks \ {t}) \cup {r}
      BY <1>4, <2>1 DEF Continues, ContinuedBy
    <2>3. r.kind = kind /\ r.answered = FALSE /\ r.project = project
      BY <1>2, <2>1, ContinuedTask
    <2>4. Truthful(r) /\ Mends(r)
      BY <1>4, <2>3 DEF Truthful, Mends, Loads
    <2>5. \A x \in tasks : x.kind # "save"
      BY <1>4 DEF Unhurried
    <2> QED BY <1>1, <1>4, <2>2, <2>3, <2>4, <2>5 DEF Unhurried
  <1>5. CASE t.kind = "load"
    <2>1. t.found = Here
      BY <1>2, <1>5 DEF Truthful
    <2>2. CASE Here = {}
      <3>1. Own = Unset
        BY <2>2, HereIs
      <3>2. tasks' = Continues(t, "fallback") /\ values' = values
        BY <1>2, <1>5, <2>1, <2>2 DEF Ends, LoadEnds, SaveEnds, ResetEnds
      <3> QED BY <1>4, <1>5, <2>2, <3>1, <3>2
    <2>3. CASE Here # {}
      <3>1. PICK config \in Here : /\ ApplyConfig([config EXCEPT !.is_default = @ \/ t.kind = "fallback"])
                                   /\ tasks' = tasks \ {t}
        BY <1>2, <1>5, <2>1, <2>3 DEF Ends, LoadEnds, SaveEnds, ResetEnds
      <3>2. PICK d \in BOOLEAN : d = (Own = Unset)
        OBVIOUS
      <3>3. PICK v : Here = {Config(v, d)} /\ v # Unset
        <4>1. CASE Own = Unset
          BY <2>3, <3>2, <4>1, HereIs
        <4>2. CASE Own # Unset
          BY <3>2, <4>2, HereIs
        <4> QED BY <4>1, <4>2
      <3>4. values' = v /\ isDefault' = d /\ edited' = FALSE
        <4>1. PICK e \in BOOLEAN : e = (t.kind = "fallback")
          OBVIOUS
        <4>2. e = FALSE
          BY <1>5, <4>1
        <4>3. ApplyConfig([Config(v, d) EXCEPT !.is_default = @ \/ e])
          BY <3>1, <3>3, <4>1
        <4> QED BY <4>2, <4>3, Fills
      <3>5. FormIsTrue'
        BY <1>1, <3>2, <3>3, <3>4, ConfigIs DEF FormIsTrue
      <3> QED BY <1>3, <3>1, <3>3, <3>4, <3>5
    <2> QED BY <2>2, <2>3
  <1>6. CASE t.kind = "fallback"
    <2>1. Here = {} /\ Own = Unset /\ t.found = {}
      BY <1>2, <1>6 DEF Truthful
    <2>2. isDefault' = TRUE /\ tasks' = tasks \ {t} /\ values' = values
      BY <1>2, <1>6, <2>1 DEF Ends, LoadEnds, SaveEnds, ResetEnds
    <2>3. FormIsTrue'
      BY <1>1, <2>1, <2>2 DEF FormIsTrue
    <2> QED BY <1>3, <2>2, <2>3 DEF Unhurried
  <1>10. CASE t.kind = "save" /\ t.value \in Unfit
    <2>1. t.found = {}
      BY <1>2, <1>10 DEF Truthful
    <2>2. tasks' = tasks \ {t} /\ UNCHANGED <<values, isDefault, edited>>
      BY <1>2, <1>10, <2>1 DEF Ends, LoadEnds, SaveEnds, ResetEnds
    <2>3. ~ Mends(t)
      BY <1>10 DEF Mends, Loads
    <2>4. FormIsTrue' = FormIsTrue
      BY <1>1, <2>2 DEF FormIsTrue
    <2> QED BY <1>1, <2>2, <2>3, <2>4 DEF Unhurried
  <1>7. CASE t.kind = "save" /\ t.value \notin Unfit
    <2>1. t.value # Unset /\ Own = t.value /\ t.found = {Config(t.value, FALSE)}
      BY <1>2, <1>7 DEF Truthful
    <2>2. ApplyConfig(Config(t.value, FALSE)) /\ tasks' = tasks \ {t}
      BY <1>2, <1>7, <2>1 DEF Ends, LoadEnds, SaveEnds, ResetEnds
    <2>3. values' = t.value /\ isDefault' = FALSE /\ edited' = FALSE
      BY <2>2, FillsPlain
    <2>4. FormIsTrue'
      BY <1>1, <2>1, <2>3, HereIs, ConfigIs DEF FormIsTrue
    <2> QED BY <1>3, <2>1, <2>2, <2>3, <2>4
  <1>8. CASE t.kind = "delete"
    <2>1. CASE t.found = {}
      <3>1. tasks' = tasks \ {t} /\ UNCHANGED <<values, isDefault, edited>>
        BY <1>2, <1>8, <2>1 DEF Ends, LoadEnds, SaveEnds, ResetEnds
      <3>2. ~ Mends(t)
        BY <1>8, <2>1 DEF Mends, Loads
      <3>3. FormIsTrue' = FormIsTrue
        BY <1>1, <3>1 DEF FormIsTrue
      <3> QED BY <1>1, <3>1, <3>2, <3>3 DEF Unhurried
    <2>2. CASE t.found # {}
      <3>1. tasks' = Continues(t, "load") /\ values' = values
        BY <1>2, <1>8, <2>2 DEF Ends, LoadEnds, SaveEnds, ResetEnds
      <3>2. Own = Unset
        BY <1>2, <1>8, <2>2 DEF Truthful
      <3> QED BY <1>4, <1>8, <3>1, <3>2
    <2> QED BY <2>1, <2>2
  <1>9. t.kind \in {"load", "fallback", "save", "delete"}
    BY DEF TabTypes
  <1> QED BY <1>5, <1>6, <1>7, <1>8, <1>9, <1>10

LEMMA TabSteps ==
    ASSUME TabInv, GuardNext
    PROVE  TabInv'
  <1>1. TabTypes /\ UNCHANGED <<binding, sectionVars>>
    BY DEF TabInv, GuardNext
  <1>2. TabTypes'
    BY <1>1, TabStepTypes
  <1>3. ASSUME ~ clashed' PROVE Unhurried'
    <2>1. ~ clashed
      BY <1>1, <1>3 DEF GuardNext, Edit, HandleSave, HandleReset, SwitchProject, OthersSave, Answer,
                        Arrives, Fails, Meets
    <2>2. Unhurried /\ UNCHANGED binding
      BY <1>1, <2>1 DEF TabInv
    <2>3. ASSUME NEW t \in tasks, Fails(t) PROVE FALSE
      BY <1>3, <2>3 DEF Fails
    <2> QED BY <1>1, <1>3, <2>2, <2>3, EditTells, SaveTells, ResetTells, SwitchTells, OthersTell,
               AnswerTells, ArriveTells DEF GuardNext
  <1> QED BY <1>2, <1>3 DEF TabInv

LEMMA TabInit ==
    ASSUME GuardInit
    PROVE  TabInv
  <1>1. PICK t : t = Task("load")
    OBVIOUS
  <1>2. tasks = {t}
    BY <1>1 DEF GuardInit
  <1>3. t.kind = "load" /\ t.row = NoRow /\ t.project = project /\ t.answered = FALSE /\ IsTask(t)
    BY <1>1, NewTask
  <1>4. TabTypes
    BY <1>2, <1>3, PreventionAssumption DEF GuardInit, TabTypes, FormTypes
  <1>5. Truthful(t) /\ Mends(t)
    BY <1>3 DEF Truthful, Mends, Loads
  <1>6. values # Unset
    BY DEF GuardInit, Unset
  <1> QED BY <1>2, <1>3, <1>4, <1>5, <1>6 DEF TabInv, Unhurried

LEMMA TabTells == TabInv => BannerIsTrue
  BY DEF TabInv, Unhurried, FormIsTrue, BannerIsTrue, Own, Here

-----------------------------------------------------------------------------
(* The section of the settings.                                            *)

Viewed == Projects \cup {AllProjects}

\* What the list of the project that is shown says, and an answer that will have it read.
Stands == ListConfigs(Resolve(project))
Done(t) == t.found # {}
Heard(t) == t.kind \in {"save", "delete"} /\ t.answered /\ Done(t)
\* The page has it, or is about to.
ListSoon ==
    \/ \E t \in tasks : Heard(t)
    \/ IsSent(ConfigsCell)
    \/ Quiet(ConfigsCell) /\ ConfigsCell.data \subseteq {Stands}
    \/ IsAnswered(ConfigsCell) /\ ConfigsCell.fetch.data = Stands
OthersRest == \A p \in Viewed : p # project => Quiet(configs[p])
SectionTypes ==
    /\ FormTypes
    /\ editing # TabForm
    /\ project \in Viewed
    /\ configs = [p \in Viewed |-> configs[p]]
    /\ \A p \in Viewed : IsCell(configs[p])
    /\ \A t \in tasks : /\ Done(t) => binding # AllProjects
                        /\ t.kind \in {"save", "delete"} => t.project = AllProjects
SectionInv == SectionTypes /\ (~ clashed => ListSoon /\ OthersRest)

\* A request of the section when its answer has the list read.
ReadingOf(t) == [t EXCEPT !.kind = IF @ = "save" THEN "saved" ELSE "removed",
                          !.project = project, !.answered = FALSE]

LEMMA NewNameless ==
    ASSUME NEW kind, NEW r, NEW v
    PROVE  /\ IsTask(Nameless(kind, r, v)) /\ ~ Done(Nameless(kind, r, v))
           /\ Nameless(kind, r, v).project = AllProjects
  <1>1. /\ Nameless(kind, r, v).answered = FALSE /\ Nameless(kind, r, v).found = {}
        /\ Nameless(kind, r, v).project = AllProjects
    BY DEF Nameless, Task
  <1>2. IsTask(Nameless(kind, r, v))
    BY <1>1, NewTask DEF IsTask, TaskFields, Nameless
  <1> QED BY <1>1, <1>2 DEF Done

LEMMA ReadingTask ==
    ASSUME NEW t, IsTask(t)
    PROVE  /\ IsTask(ReadingOf(t)) /\ Done(ReadingOf(t)) = Done(t)
           /\ ReadingOf(t).kind = "saved" \/ ReadingOf(t).kind = "removed"
  <1>1. ReadingOf(t).answered = FALSE
    BY DEF IsTask, TaskFields, ReadingOf
  <1>2. ReadingOf(t).found = t.found
    BY DEF IsTask, TaskFields, ReadingOf
  <1>3. DOMAIN ReadingOf(t) = DOMAIN t
    BY DEF ReadingOf
  <1>4. ReadingOf(t).kind = "saved" \/ ReadingOf(t).kind = "removed"
    BY DEF IsTask, TaskFields, ReadingOf
  <1> QED BY <1>1, <1>2, <1>3, <1>4 DEF IsTask, Done

LEMMA StandsStill ==
    ASSUME project \in Viewed, binding \in Viewed, UNCHANGED <<binding, project, defaults>>,
           Resolve(project) \in Projects => overrides'[Resolve(project)] = overrides[Resolve(project)]
    PROVE  Stands' = Stands
  <1>1. Resolve(project)' = Resolve(project) /\ Resolve(project) \in Viewed
    BY DEF Resolve
  <1>2. CASE Resolve(project) = AllProjects
    BY <1>1, <1>2 DEF Stands, ListConfigs
  <1>3. CASE Resolve(project) \in Projects
    <2>1. \A r \in Rows : Stored(Resolve(project), r)' = Stored(Resolve(project), r)
      BY <1>1, <1>3 DEF Stored
    <2> QED BY <1>1, <2>1 DEF Stands, ListConfigs
  <1> QED BY <1>1, <1>2, <1>3 DEF Viewed

\* A step that leaves what is stored, the cells and the project, and ends no answer
\* that will have the list read.
LEMMA ListWaits ==
    ASSUME ListSoon, Stands' = Stands, UNCHANGED <<project, configs>>,
           \A t \in tasks : Heard(t) => t \in tasks'
    PROVE  ListSoon'
  <1>1. ConfigsCell' = ConfigsCell
    BY DEF ConfigsCell
  <1>2. \A t : Heard(t)' = Heard(t)
    BY DEF Heard
  <1> QED BY <1>1, <1>2 DEF ListSoon

\* The types of what a step of the section changes.
LEMMA SectionStepTypes ==
    ASSUME SectionTypes, SectionNext
    PROVE  SectionTypes'
  <1>1. /\ binding \in Projects \cup {AllProjects} /\ project \in Viewed
        /\ overrides = [p \in Projects |-> overrides[p]] /\ defaults = [p \in Projects |-> defaults[p]]
        /\ clashed \in BOOLEAN /\ editing # TabForm
        /\ configs = [p \in Viewed |-> configs[p]] /\ \A p \in Viewed : IsCell(configs[p])
    BY DEF SectionTypes, FormTypes
  <1> DEFINE Good(t) == /\ IsTask(t) /\ (Done(t) => binding # AllProjects)
                        /\ (t.kind \in {"save", "delete"} => t.project = AllProjects)
  <1>2. \A t \in tasks : Good(t)
    BY DEF SectionTypes, FormTypes
  <1>3. binding' = binding
    BY DEF SectionNext
  <1>4. project' \in Viewed
    BY <1>1 DEF SectionNext, StartEdit, AddAgent, SetForm, CancelEdit, SaveRow, RemoveRow, ConfigsRefresh,
                ShowProject, ConfigsRead, ConfigsArrive, ConfigsFail, ConfigsChange, OthersSave, Answer,
                RowAnswered, RowDone, RowFails, Viewed
  <1>5. overrides' = [p \in Projects |-> overrides'[p]] /\ defaults' = [p \in Projects |-> defaults'[p]]
    <2>1. ASSUME NEW t \in tasks, Answer(t)
          PROVE  overrides' = [p \in Projects |-> overrides'[p]] /\ defaults' = [p \in Projects |-> defaults'[p]]
      BY <1>1, <2>1 DEF Answer, Writes
    <2>2. ASSUME NEW p, NEW v, OthersSave(p, v)
          PROVE  overrides' = [q \in Projects |-> overrides'[q]] /\ defaults' = [q \in Projects |-> defaults'[q]]
      BY <1>1, <2>2 DEF OthersSave
    <2>3. CASE UNCHANGED <<overrides, defaults>>
      BY <1>1, <2>3
    <2> QED BY <2>1, <2>2, <2>3
            DEF SectionNext, StartEdit, AddAgent, SetForm, CancelEdit, SaveRow, RemoveRow, ConfigsRefresh,
                ShowProject, ConfigsRead, ConfigsArrive, ConfigsFail, ConfigsChange,
                RowAnswered, RowDone, RowFails
  <1>6. clashed' \in BOOLEAN
    <2>1. \/ clashed' = clashed \/ clashed' = TRUE
          \/ \E b \in BOOLEAN : clashed' = (clashed \/ b)
      BY DEF SectionNext, StartEdit, AddAgent, SetForm, CancelEdit, SaveRow, RemoveRow, ConfigsRefresh,
                ShowProject, ConfigsRead, ConfigsArrive, ConfigsFail, ConfigsChange, OthersSave, Answer,
                RowAnswered, RowDone, RowFails
    <2> QED BY <1>1, <2>1
  <1>7. editing' # TabForm
    BY <1>1 DEF SectionNext, StartEdit, AddAgent, SetForm, CancelEdit, SaveRow, RemoveRow, ConfigsRefresh,
                ShowProject, ConfigsRead, ConfigsArrive, ConfigsFail, ConfigsChange, OthersSave, Answer,
                RowAnswered, RowDone, RowFails, sectionVars, Rows, TabForm, NoRow
  <1>8. configs' = [p \in Viewed |-> configs'[p]] /\ \A p \in Viewed : IsCell(configs'[p])
    <2>1. ASSUME NEW p \in Viewed, NEW c, IsCell(c), configs' = [configs EXCEPT ![p] = c]
          PROVE  configs' = [q \in Viewed |-> configs'[q]] /\ \A q \in Viewed : IsCell(configs'[q])
      BY <1>1, <2>1
    <2>2. CASE UNCHANGED configs
      BY <1>1, <2>2
    <2>3. ASSUME NEW p \in Viewed, ShowProject(p)
          PROVE  configs' = [configs EXCEPT ![p] = Joining(configs[p])] /\ IsCell(Joining(configs[p]))
      <3>1. IsCell(Joining(configs[p]))
        BY <1>1, CellSteps DEF Joining
      <3> QED BY <2>3, <3>1 DEF ShowProject
    <2>4. ASSUME NEW t \in tasks, RowAnswered(t)
          PROVE  \/ UNCHANGED configs
                 \/ configs' = [configs EXCEPT ![project] = Asking(configs[project])] /\ IsCell(Asking(configs[project]))
      BY <1>1, <2>4, CellSteps DEF RowAnswered
    <2>5. CASE ConfigsRefresh
      BY <1>1, <2>1, <2>5, CellSteps DEF ConfigsRefresh, ConfigsChange, ConfigsCell
    <2>6. ASSUME NEW p \in Viewed, ConfigsRead(p) \/ ConfigsArrive(p) \/ ConfigsFail(p)
          PROVE  configs' = [q \in Viewed |-> configs'[q]] /\ \A q \in Viewed : IsCell(configs'[q])
      BY <1>1, <2>1, <2>6, CellSteps DEF ConfigsRead, ConfigsArrive, ConfigsFail, ConfigsChange
    <2>7. ASSUME NEW p \in Viewed, ShowProject(p)
          PROVE  configs' = [q \in Viewed |-> configs'[q]] /\ \A q \in Viewed : IsCell(configs'[q])
      BY <2>1, <2>3, <2>7
    <2>8. ASSUME NEW t \in tasks, RowAnswered(t)
          PROVE  configs' = [q \in Viewed |-> configs'[q]] /\ \A q \in Viewed : IsCell(configs'[q])
      BY <1>1, <2>1, <2>2, <2>4, <2>8
    <2> QED BY <2>2, <2>5, <2>6, <2>7, <2>8
            DEF SectionNext, StartEdit, AddAgent, SetForm, CancelEdit, SaveRow, RemoveRow, Answer,
                OthersSave, RowDone, RowFails, sectionVars, Viewed
  <1>9. \A t \in tasks' : Good(t)
    <2>1. CASE tasks' \subseteq tasks
      BY <1>2, <2>1
    <2>2. ASSUME NEW kind, NEW r, NEW v, tasks' = tasks \cup {Nameless(kind, r, v)}
          PROVE  \A t \in tasks' : Good(t)
      <3>1. PICK n : n = Nameless(kind, r, v)
        OBVIOUS
      <3>2. IsTask(n) /\ ~ Done(n) /\ n.project = AllProjects
        BY <3>1, NewNameless
      <3>3. Good(n)
        BY <3>2
      <3> QED BY <1>2, <2>2, <3>1, <3>3
    <2>3. ASSUME NEW t \in tasks, Answer(t), t.kind \in {"save", "delete"}
          PROVE  \A x \in tasks' : Good(x)
      <3>1. PICK r : r = AnsweredBy(t, Found(t))
        OBVIOUS
      <3>2. tasks' = (tasks \ {t}) \cup {r}
        BY <2>3, <3>1 DEF Answer, AnsweredBy
      <3>3. IsTask(t) /\ t.project = AllProjects
        BY <1>2, <2>3
      <3>4. IsTask(r) /\ r.found = Found(t) /\ r.project = AllProjects
        BY <3>1, <3>3, AnsweredTask
      <3>5. Done(r) => binding # AllProjects
        BY <3>3, <3>4 DEF Found, Resolve, Done
      <3>6. Good(r)
        BY <3>4, <3>5
      <3> QED BY <1>2, <3>2, <3>6
    <2>4. ASSUME NEW t \in tasks, RowAnswered(t)
          PROVE  \A x \in tasks' : Good(x)
      <3>1. PICK r : r = ReadingOf(t)
        OBVIOUS
      <3>2. tasks' = (tasks \ {t}) \cup {r} \/ tasks' = tasks \ {t}
        BY <2>4, <3>1 DEF RowAnswered, ReadingOf
      <3>3. IsTask(t) /\ (Done(t) => binding # AllProjects)
        BY <1>2
      <3>4. IsTask(r) /\ Done(r) = Done(t) /\ (r.kind = "saved" \/ r.kind = "removed")
        BY <3>1, <3>3, ReadingTask
      <3>5. Good(r)
        BY <3>3, <3>4
      <3> QED BY <1>2, <3>2, <3>5
    <2> HIDE DEF Good
    <2> QED BY <2>1, <2>2, <2>3, <2>4
            DEF SectionNext, StartEdit, AddAgent, SetForm, CancelEdit, SaveRow, RemoveRow, ConfigsRefresh,
                ShowProject, ConfigsRead, ConfigsArrive, ConfigsFail, ConfigsChange, OthersSave,
                RowDone, RowFails
  <1> QED BY <1>1, <1>3, <1>4, <1>5, <1>6, <1>7, <1>8, <1>9 DEF SectionTypes, FormTypes

\* The requests of the section: what one of them changes it has the list read for.
LEMMA RowsTell ==
    ASSUME SectionTypes, ListSoon, UNCHANGED <<binding, sectionVars>>, NEW t \in tasks,
           t.kind \in {"save", "delete"}, Answer(t)
    PROVE  ListSoon'
  <1>1. PICK r : r = AnsweredBy(t, Found(t))
    OBVIOUS
  <1>2. IsTask(t) /\ project \in Viewed /\ binding \in Viewed
    BY DEF SectionTypes, FormTypes, Viewed
  <1>3. r.kind = t.kind /\ r.answered = TRUE /\ r.found = Found(t)
    BY <1>1, <1>2, AnsweredTask
  <1>4. tasks' = (tasks \ {t}) \cup {r} /\ ~ Heard(t) /\ project' = project /\ configs' = configs
    BY <1>1 DEF Answer, AnsweredBy, Heard, sectionVars
  <1>5. CASE Found(t) = {}
    <2>1. overrides' = overrides /\ defaults' = defaults
      BY <1>5 DEF Answer, Writes
    <2>2. Stands' = Stands
      BY <1>2, <1>4, <2>1, StandsStill
    <2> QED BY <1>4, <2>2, ListWaits
  <1>6. CASE Found(t) # {}
    <2>1. Heard(r)
      BY <1>3, <1>6 DEF Heard, Done
    <2>2. Heard(r)'
      BY <2>1 DEF Heard
    <2> QED BY <1>4, <2>2 DEF ListSoon
  <1> QED BY <1>5, <1>6

LEMMA ReadsTell ==
    ASSUME SectionTypes, ListSoon, OthersRest, NEW t \in tasks, RowAnswered(t), UNCHANGED binding
    PROVE  ListSoon' /\ OthersRest'
  <1>1. /\ project \in Viewed /\ binding \in Viewed /\ IsCell(configs[project])
        /\ configs = [p \in Viewed |-> configs[p]]
    BY DEF SectionTypes, FormTypes, Viewed
  <1>2. project' = project /\ overrides' = overrides /\ defaults' = defaults
    BY DEF RowAnswered
  <1>3. CASE Done(t)
    <2>1. configs' = [configs EXCEPT ![project] = Asking(configs[project])]
      BY <1>3 DEF RowAnswered, Done
    <2>2. IsSent(ConfigsCell)'
      BY <1>1, <1>2, <2>1, CellSteps DEF IsSent, ConfigsCell
    <2>3. OthersRest'
      BY <1>1, <1>2, <2>1 DEF OthersRest, Viewed
    <2> QED BY <2>2, <2>3 DEF ListSoon
  <1>4. CASE ~ Done(t)
    <2>1. tasks' = tasks \ {t} /\ configs' = configs
      BY <1>4 DEF RowAnswered, Done
    <2>2. ~ Heard(t)
      BY <1>4 DEF Heard
    <2>3. Stands' = Stands
      BY <1>1, <1>2, StandsStill
    <2>4. OthersRest'
      BY <1>2, <2>1 DEF OthersRest, Viewed
    <2> QED BY <1>2, <2>1, <2>2, <2>3, <2>4, ListWaits
  <1> QED BY <1>3, <1>4

\* What comes of asking for the list.
LEMMA ListTells ==
    ASSUME SectionTypes, ListSoon, OthersRest, UNCHANGED binding, NEW p \in Viewed,
           ConfigsRefresh \/ ConfigsRead(p) \/ ConfigsArrive(p)
    PROVE  ListSoon' /\ OthersRest'
  <1>1. /\ project \in Viewed /\ binding \in Viewed /\ \A q \in Viewed : IsCell(configs[q])
        /\ configs = [q \in Viewed |-> configs[q]]
    BY DEF SectionTypes, FormTypes, Viewed
  <1>2. UNCHANGED <<project, overrides, defaults, tasks>>
    BY DEF ConfigsRefresh, ConfigsRead, ConfigsArrive, ConfigsChange
  <1>3. Stands' = Stands /\ \A t : Heard(t)' = Heard(t)
    BY <1>1, <1>2, StandsStill DEF Heard
  <1>4. CASE ConfigsRefresh
    <2>1. configs' = [configs EXCEPT ![project] = Asking(configs[project])]
      BY <1>4 DEF ConfigsRefresh, ConfigsChange, ConfigsCell
    <2>2. IsSent(ConfigsCell)'
      BY <1>1, <1>2, <2>1, CellSteps DEF IsSent, ConfigsCell
    <2>3. OthersRest'
      BY <1>1, <1>2, <2>1 DEF OthersRest, Viewed
    <2> QED BY <2>2, <2>3 DEF ListSoon
  <1>5. CASE ConfigsRead(p)
    <2>1. p = project
      BY <1>5, Stages DEF ConfigsRead, OthersRest, Quiet, IsSent, Idle, Sent
    <2>2. configs' = [configs EXCEPT ![project] = Reading(configs[project], Stands)]
      BY <1>5, <2>1 DEF ConfigsRead, ConfigsChange, Stands
    <2>3. ConfigsCell'.fetch = Answered(Stands)
      BY <1>1, <1>2, <2>2, CellSteps DEF ConfigsCell
    <2>4. IsAnswered(ConfigsCell)' /\ ConfigsCell'.fetch.data = Stands'
      BY <1>3, <2>3, Stages DEF IsAnswered
    <2>5. OthersRest'
      BY <1>1, <1>2, <2>2 DEF OthersRest, Viewed
    <2> QED BY <2>4, <2>5 DEF ListSoon
  <1>6. CASE ConfigsArrive(p)
    <2>1. p = project
      BY <1>6, Stages DEF ConfigsArrive, OthersRest, Quiet, IsAnswered
    <2>2. configs' = [configs EXCEPT ![project] = Arrived(configs[project])]
      BY <1>6, <2>1 DEF ConfigsArrive, ConfigsChange
    <2>3. ConfigsCell'.fetch = Idle /\ ConfigsCell'.data = {ConfigsCell.fetch.data}
      BY <1>1, <1>2, <2>2, CellSteps DEF ConfigsCell
    <2>4. IsAnswered(ConfigsCell)
      BY <1>6, <2>1 DEF ConfigsArrive, ConfigsCell
    <2>5. ListSoon'
      <3>1. ~ IsSent(ConfigsCell) /\ ~ Quiet(ConfigsCell)
        BY <2>4, Stages DEF IsAnswered, IsSent, Quiet
      <3>2. CASE ConfigsCell.fetch.data = Stands
        BY <1>3, <2>3, <3>2 DEF ListSoon, Quiet
      <3>3. CASE \E t \in tasks : Heard(t)
        BY <1>2, <1>3, <3>3 DEF ListSoon
      <3> QED BY <3>1, <3>2, <3>3 DEF ListSoon
    <2>6. OthersRest'
      BY <1>1, <1>2, <2>2 DEF OthersRest, Viewed
    <2> QED BY <2>5, <2>6
  <1> QED BY <1>4, <1>5, <1>6

\* Another project is shown, with nothing under way.
LEMMA ShowTells ==
    ASSUME SectionTypes, OthersRest, NEW p \in Viewed, ShowProject(p), ~ clashed'
    PROVE  ListSoon' /\ OthersRest'
  <1>1. /\ project \in Viewed /\ \A q \in Viewed : IsCell(configs[q])
        /\ configs = [q \in Viewed |-> configs[q]]
    BY DEF SectionTypes, FormTypes, Viewed
  <1>2. p # project /\ project' = p /\ Quiet(configs[project])
    BY DEF ShowProject, ConfigsCell, SectionTypes, FormTypes
  <1>3. Joining(configs[p]) = Asking(configs[p])
    BY <1>2 DEF OthersRest, Quiet, Joining
  <1>4. configs' = [configs EXCEPT ![p] = Asking(configs[p])]
    BY <1>3 DEF ShowProject
  <1>5. IsSent(ConfigsCell)'
    BY <1>1, <1>2, <1>4, CellSteps DEF IsSent, ConfigsCell
  <1>6. OthersRest'
    <2>1. \A q \in Viewed : Quiet(configs[q])
      BY <1>2 DEF OthersRest
    <2> QED BY <1>1, <1>2, <1>4, <2>1 DEF OthersRest, Viewed
  <1> QED BY <1>5, <1>6 DEF ListSoon

LEMMA SectionSteps ==
    ASSUME SectionInv, SectionNext
    PROVE  SectionInv'
  <1>1. SectionTypes /\ SectionTypes'
    BY SectionStepTypes DEF SectionInv
  <1>2. SUFFICES ASSUME ~ clashed' PROVE ListSoon' /\ OthersRest'
    BY <1>1 DEF SectionInv
  <1>3. ~ clashed
    BY <1>1, <1>2 DEF SectionNext, StartEdit, AddAgent, SetForm, CancelEdit, SaveRow, RemoveRow,
        ConfigsRefresh, ShowProject, ConfigsRead, ConfigsArrive, ConfigsFail, OthersSave, Answer,
        RowAnswered, RowDone, RowFails
  <1>4. ListSoon /\ OthersRest /\ UNCHANGED binding
    BY <1>3 DEF SectionInv, SectionNext
  <1>5. project \in Viewed /\ binding \in Viewed /\ overrides = [p \in Projects |-> overrides[p]]
    BY <1>1 DEF SectionTypes, FormTypes, Viewed
  <1>6. ASSUME UNCHANGED <<project, configs>> PROVE OthersRest'
    BY <1>4, <1>6 DEF OthersRest, Viewed
  <1>7. ASSUME UNCHANGED <<project, configs, defaults, overrides>>, \A t \in tasks : Heard(t) => t \in tasks'
        PROVE  ListSoon' /\ OthersRest'
    BY <1>4, <1>5, <1>6, <1>7, StandsStill, ListWaits
  <1>8. CASE \/ \E r \in Rows : StartEdit(r) \/ AddAgent(r)
             \/ \E v \in Forms : SetForm(v)
             \/ CancelEdit \/ SaveRow \/ RemoveRow
    BY <1>7, <1>8 DEF StartEdit, AddAgent, SetForm, CancelEdit, SaveRow, RemoveRow, sectionVars
  <1>9. ASSUME NEW p \in Projects, NEW v, OthersSave(p, v), UNCHANGED sectionVars
        PROVE  ListSoon' /\ OthersRest'
    <2>1. p # Resolve(project) /\ overrides' = [overrides EXCEPT ![p] = v]
      BY <1>2, <1>3, <1>9 DEF OthersSave
    <2>2. Resolve(project) \in Projects => overrides'[Resolve(project)] = overrides[Resolve(project)]
      BY <1>5, <2>1
    <2>3. UNCHANGED <<project, configs, defaults, tasks>>
      BY <1>9 DEF OthersSave, sectionVars
    <2>4. Stands' = Stands
      BY <1>4, <1>5, <2>2, <2>3, StandsStill
    <2> QED BY <1>4, <1>6, <2>3, <2>4, ListWaits
  <1>10. ASSUME NEW t \in tasks, t.kind \in {"save", "delete"}, Answer(t), UNCHANGED sectionVars
         PROVE  ListSoon' /\ OthersRest'
    BY <1>1, <1>4, <1>6, <1>10, RowsTell DEF Answer, sectionVars
  <1>11. ASSUME NEW t \in tasks, RowAnswered(t) PROVE ListSoon' /\ OthersRest'
    BY <1>1, <1>4, <1>11, ReadsTell
  <1>12. ASSUME NEW t \in tasks, RowDone(t) PROVE ListSoon' /\ OthersRest'
    BY <1>7, <1>12 DEF RowDone, Heard
  <1>13. ASSUME NEW t \in tasks, RowFails(t) PROVE FALSE
    BY <1>2, <1>13 DEF RowFails
  <1>14. ASSUME NEW p \in Viewed, ConfigsFail(p) PROVE FALSE
    BY <1>2, <1>14 DEF ConfigsFail
  <1>15. ASSUME NEW p \in Viewed, ConfigsRead(p) \/ ConfigsArrive(p) \/ ConfigsRefresh
         PROVE  ListSoon' /\ OthersRest'
    BY <1>1, <1>4, <1>15, ListTells
  <1>16. ASSUME NEW p \in Viewed, ShowProject(p) PROVE ListSoon' /\ OthersRest'
    BY <1>1, <1>2, <1>4, <1>16, ShowTells
  <1>17. CASE ConfigsRefresh
    BY <1>5, <1>15, <1>17
  <1> QED BY <1>8, <1>9, <1>10, <1>11, <1>12, <1>13, <1>14, <1>15, <1>16, <1>17 DEF SectionNext, Viewed

LEMMA SectionStarts ==
    ASSUME SectionInit
    PROVE  SectionInv
  <1>1. /\ configs = [p \in Viewed |-> IF p = project THEN Fresh ELSE Closed]
        /\ project \in Viewed /\ binding \in Viewed /\ tasks = {} /\ clashed = FALSE /\ editing = NoRow
    BY PreventionAssumption DEF SectionInit, Viewed
  <1>2. overrides = [p \in Projects |-> overrides[p]] /\ defaults = [p \in Projects |-> defaults[p]]
    BY PreventionAssumption DEF SectionInit
  <1>3. IsCell(Fresh) /\ IsCell(Closed) /\ Fresh.fetch = Sent /\ Closed.fetch = Idle
    BY DEF Fresh, Closed, IsCell
  <1>4. SectionTypes
    BY <1>1, <1>2, <1>3 DEF SectionTypes, FormTypes, NoRow, TabForm, Viewed
  <1>5. ListSoon
    BY <1>1, <1>3 DEF ListSoon, ConfigsCell, IsSent
  <1>6. OthersRest
    BY <1>1, <1>3 DEF OthersRest, Quiet
  <1> QED BY <1>4, <1>5, <1>6 DEF SectionInv

LEMMA SectionTells == SectionInv => SectionIsTrue
  <1>1. ASSUME SectionInv, NEW t \in tasks, t.found # {}
        PROVE  Resolve(AllProjects) = Resolve(t.page)
    <2>1. binding # AllProjects
      BY <1>1 DEF SectionInv, SectionTypes, Done
    <2> QED BY <2>1 DEF Resolve
  <1>2. ASSUME SectionInv, tasks = {}, ~ clashed, Quiet(ConfigsCell)
        PROVE  \A d \in ConfigsCell.data : d = Stands
    <2>1. ~ IsSent(ConfigsCell) /\ ~ IsAnswered(ConfigsCell)
      BY <1>2, Stages DEF IsAnswered, IsSent, Quiet
    <2> QED BY <1>2, <2>1 DEF SectionInv, ListSoon
  <1> QED BY <1>1, <1>2 DEF SectionIsTrue, Stands

-----------------------------------------------------------------------------
(* Both forms.                                                             *)

FormInv ==
    /\ part = "guards" => TabInv
    /\ part = "section" => SectionInv
    /\ part \notin {"guards", "section"} => tasks = {} /\ clashed = TRUE

LEMMA FormSteps ==
    ASSUME FormInv, [Next]_vars
    PROVE  FormInv'
  <1>1. CASE part = "guards" /\ GuardNext
    BY <1>1, PartSteps, TabSteps DEF FormInv
  <1>2. CASE part = "section" /\ SectionNext
    BY <1>2, PartSteps, SectionSteps DEF FormInv
  <1>3. CASE UNCHANGED guardVars
    <2>1. TabInv' = TabInv
      BY <1>3 DEF guardVars, sectionVars, TabInv, TabTypes, FormTypes, Unhurried, Truthful, Mends, FormIsTrue,
                  Own, Here, Effective, Default, Resolve
    <2>2. SectionInv' = SectionInv
      BY <1>3 DEF guardVars, sectionVars, SectionInv, SectionTypes, FormTypes, ListSoon, OthersRest, Heard,
                  ConfigsCell, Stands, ListConfigs, Stored, Resolve
    <2> QED BY <1>3, <2>1, <2>2, PartSteps DEF FormInv, guardVars
  <1> QED BY <1>1, <1>2, <1>3, PartSteps

\* At rest each form tells what is stored in the project it shows, and whether it is the
\* agent's own, after any edits, saves, resets, removals and switches, as long as they
\* did not overlap, no request failed and no one else acted on that project: what the
\* banner of the Guards tab says, and the list of the settings' section, whose requests
\* all end up in the project that the user was looking at.
THEOREM FormsTell == Spec => []FormsAreTrue
  <1>1. Init => FormInv
    <2>1. CASE part = "guards" /\ GuardInit
      BY <2>1, TabInit DEF FormInv
    <2>2. CASE part = "section" /\ SectionInit
      BY <2>2, SectionStarts DEF FormInv
    <2>3. ASSUME part \notin {"guards", "section"}, GuardsRest
          PROVE  FormInv
      BY <2>3 DEF FormInv, GuardsRest
    <2> QED BY <2>1, <2>2, <2>3 DEF Init
  <1>2. FormInv => FormsAreTrue
    <2>1. CASE part = "guards"
      BY <2>1, TabTells DEF FormInv, FormsAreTrue, SectionIsTrue, TabInv, TabTypes
    <2>2. CASE part = "section"
      BY <2>2, SectionTells DEF FormInv, FormsAreTrue, BannerIsTrue, SectionInv, SectionTypes
    <2>3. CASE part \notin {"guards", "section"}
      BY <2>3 DEF FormInv, FormsAreTrue, BannerIsTrue, SectionIsTrue
    <2> QED BY <2>1, <2>2, <2>3
  <1> QED BY <1>1, <1>2, FormSteps, PTL DEF Spec

-----------------------------------------------------------------------------
\* To join a request that is under way changes nothing; otherwise the page asks.
LEMMA JoiningCell ==
    ASSUME NEW c, IsCell(c)
    PROVE  /\ IsCell(Joining(c)) /\ ~ Quiet(Joining(c)) /\ Joining(c).data = c.data
           /\ IsAnswered(Joining(c)) => Joining(c) = c
<1>1. CASE Quiet(c)
  BY <1>1, CellSteps, Stages DEF Joining, Quiet, IsAnswered
<1>2. CASE ~ Quiet(c)
  BY <1>2 DEF Joining, Quiet
<1> QED BY <1>1, <1>2

-----------------------------------------------------------------------------
(* The list of servers.                                                    *)

JobKinds == {"history", "remove", "add", "discover", "check"}
IsJob(j) ==
    /\ {"kind", "server", "place", "done", "ok"} \subseteq DOMAIN j
    /\ j.kind \in JobKinds /\ j.place \in Places /\ j.done \in BOOLEAN /\ j.ok \in BOOLEAN
    /\ j.kind \in {"remove", "add"} => j.place # NoProject
TableTypes ==
    /\ place \in Places
    /\ DOMAIN known = Places /\ DOMAIN traced = Places /\ DOMAIN checked = Places
    /\ DOMAIN lists = Places /\ \A p \in Places : IsCell(lists[p])
    /\ \A p \in Places : DOMAIN checked[p] = Servers
    /\ \A j \in jobs : IsJob(j)

\* The answer to a job is on its way, and will have the list of its place asked for again.
Told(j, p) == j.place = p /\ j.kind # "history" /\ j.done /\ j.ok
\* Otherwise the list of the place is true, or about to come; and what comes is true,
\* of every place.
CellTells(p) ==
    /\ IsAnswered(lists[p]) => lists[p].fetch.data = Listing(p)
    /\ p = place /\ Quiet(lists[p]) => lists[p].data = {Listing(p)}
ListStands ==
    ~ crossed /\ ~ lost =>
        \A p \in Places \ news : (\A j \in jobs : ~ Told(j, p)) => CellTells(p)

\* The server that is picked is listed, and will be.
Stays ==
    ~ vanished /\ ~ hasty /\ picked # NoServer =>
        /\ picked \in NamesIn(place)
        /\ Loaded(ListCell) /\ picked \in DOMAIN Data(ListCell)
        /\ IsAnswered(ListCell) => picked \in DOMAIN ListCell.fetch.data
        /\ \A j \in jobs : ~ (j.kind = "remove" /\ j.server = picked /\ j.place = place)

\* What a list says rests on what the API knows of its place.
LEMMA ListingStays ==
    ASSUME NEW p, checked' = checked,
           p # NoProject => known'[p] \cup traced'[p] = known[p] \cup traced[p]
    PROVE  Listing(p)' = Listing(p)
  <1>1. \A q, s : Latest(q, s)' = Latest(q, s)
    BY DEF Latest
  <1>2. \A s : StatusIn(p, s)' = StatusIn(p, s)
    BY <1>1 DEF StatusIn
  <1>3. \A q : WasChecked(q)' = WasChecked(q)
    BY DEF WasChecked
  <1>4. NamesIn(p)' = NamesIn(p)
    BY <1>3 DEF NamesIn
  <1> QED BY <1>2, <1>4 DEF Listing

\* ... and of a project, on its own checks alone.
LEMMA ListingElsewhere ==
    ASSUME NEW p, p # NoProject, checked'[p] = checked[p],
           known'[p] \cup traced'[p] = known[p] \cup traced[p]
    PROVE  Listing(p)' = Listing(p)
  <1>1. \A s : Latest(p, s)' = Latest(p, s)
    BY DEF Latest
  <1>2. \A s : StatusIn(p, s)' = StatusIn(p, s)
    BY <1>1 DEF StatusIn
  <1>3. NamesIn(p)' = NamesIn(p)
    BY DEF NamesIn, WasChecked
  <1> QED BY <1>2, <1>3 DEF Listing

\* A job begins unanswered, in the project that is active.
LEMMA NewJob ==
    ASSUME TableTypes, NEW kind \in JobKinds, NEW s, kind \in {"remove", "add"} => place # NoProject
    PROVE  /\ IsJob(Job(kind, s)) /\ Job(kind, s).kind = kind /\ Job(kind, s).server = s
           /\ \A p : ~ Told(Job(kind, s), p)
BY DEF IsJob, Job, Told, TableTypes

\* A list that arrives asks for histories, which change no list.
LEMMA NewHistories ==
    ASSUME TableTypes, NEW p \in Places, NEW data, NEW j \in Histories(p, data)
    PROVE  IsJob(j) /\ j.kind = "history"
  <1>1. PICK s : j = [Job("history", s) EXCEPT !.place = p]
    BY DEF Histories
  <1>2. IsJob(Job("history", s)) /\ Job("history", s).kind = "history"
    BY NewJob DEF JobKinds
  <1> QED BY <1>1, <1>2 DEF IsJob

\* The jobs that are new have not been answered, and what the lists say stays.
LEMMA JobsKeep ==
    ASSUME TableTypes, ListStands, UNCHANGED <<known, traced, checked, lists, place, news, crossed, lost>>,
           \A j \in jobs' : j \in jobs \/ IsJob(j), \A j \in jobs : j \in jobs'
    PROVE  TableTypes' /\ ListStands'
  <1>1. TableTypes'
    BY DEF TableTypes
  <1>2. \A p : Listing(p)' = Listing(p)
    BY ListingStays
  <1>3. \A p : CellTells(p)' <=> CellTells(p)
    BY <1>2 DEF CellTells
  <1> QED BY <1>1, <1>3 DEF ListStands

\* A server that stays picked, while no list changes but for the better.
LEMMA StaysStill ==
    ASSUME Stays, UNCHANGED <<lists, place, picked, vanished, hasty>>, NamesIn(place) \subseteq NamesIn(place)',
           \A j \in jobs' : j \in jobs \/ j.kind # "remove" \/ picked = NoServer
    PROVE  Stays'
BY DEF Stays, ListCell

\* The clicks that change no list and pick no server.
LEMMA ClicksKeep ==
    ASSUME TableTypes, ListStands, Stays,
           \/ \E f : SetFilter(f)
           \/ \E s \in Servers : RemoveServer(s) \/ HandleSubmit(s)
           \/ RunCheck \/ RunDiscover \/ ToggleDialog
    PROVE  TableTypes' /\ ListStands' /\ Stays'
  <1>1. /\ UNCHANGED <<known, traced, checked, lists, place, picked, vanished, hasty, news, crossed, lost>>
        /\ \/ jobs' = jobs
           \/ \E kind \in JobKinds : \E s :
                 /\ jobs' = jobs \cup {Job(kind, s)}
                 /\ kind \in {"remove", "add"} => place # NoProject
                 /\ kind = "remove" => picked = NoServer
    BY DEF SetFilter, RemoveServer, HandleSubmit, RunCheck, RunDiscover, ToggleDialog, apiWorld,
           tableFlags, Asks, JobKinds, InTable
  <1>2. /\ \A j \in jobs' : j \in jobs \/ (IsJob(j) /\ (j.kind = "remove" => picked = NoServer))
        /\ \A j \in jobs : j \in jobs'
    <2>1. CASE jobs' = jobs
      BY <2>1
    <2>2. ASSUME NEW kind \in JobKinds, NEW s, jobs' = jobs \cup {Job(kind, s)},
                 kind \in {"remove", "add"} => place # NoProject, kind = "remove" => picked = NoServer
          PROVE  /\ \A j \in jobs' : j \in jobs \/ (IsJob(j) /\ (j.kind = "remove" => picked = NoServer))
                 /\ \A j \in jobs : j \in jobs'
      BY <2>2, NewJob
    <2> QED BY <1>1, <2>1, <2>2
  <1>3. TableTypes' /\ ListStands'
    BY <1>1, <1>2, JobsKeep
  <1>4. NamesIn(place)' = NamesIn(place)
    BY <1>1 DEF NamesIn, WasChecked
  <1> QED BY <1>1, <1>2, <1>3, <1>4, StaysStill

\* A server is picked from what is listed; if it will not be for long, that is known.
LEMMA SelectKeeps ==
    ASSUME TableTypes, ListStands, Stays, NEW s, SelectServer(s)
    PROVE  TableTypes' /\ ListStands' /\ Stays'
  <1>1. /\ UNCHANGED <<known, traced, checked, lists, place, jobs, news, crossed, lost>>
        /\ picked' = IF picked = s THEN NoServer ELSE s
        /\ hasty' = (picked' = s /\ Leaving(s)) /\ vanished' = vanished
    BY DEF SelectServer, apiWorld
  <1>2. TableTypes' /\ ListStands'
    BY <1>1, JobsKeep
  <1>3. s \in Listed
    BY DEF SelectServer, TableRows, Attention, Groups, WithStatus
  <1>4. Loaded(ListCell) /\ s \in DOMAIN Data(ListCell)
    BY <1>3 DEF Listed
  <1>5. NamesIn(place)' = NamesIn(place) /\ ListCell' = ListCell
    BY <1>1 DEF NamesIn, WasChecked, ListCell
  <1>6. ASSUME ~ hasty', picked' # NoServer
        PROVE  /\ picked' = s /\ s \in NamesIn(place)
               /\ IsAnswered(ListCell) => s \in DOMAIN ListCell.fetch.data
               /\ \A j \in jobs : ~ (j.kind = "remove" /\ j.server = s /\ j.place = place)
    BY <1>1, <1>6 DEF Leaving
  <1> QED BY <1>1, <1>2, <1>4, <1>5, <1>6 DEF Stays

\* The list of one place changes.
LEMMA ListMoves ==
    ASSUME TableTypes, NEW p \in Places, NEW c, IsCell(c), lists' = [lists EXCEPT ![p] = c]
    PROVE  /\ lists'[p] = c /\ DOMAIN lists' = Places
           /\ \A q \in Places : q # p => lists'[q] = lists[q]
           /\ \A q \in Places : IsCell(lists'[q])
BY DEF TableTypes

\* Another project: its list is asked for, unless that is under way.
LEMMA PlaceTells ==
    ASSUME TableTypes, ListStands, Stays, NEW p \in Places, SwitchTo(p)
    PROVE  TableTypes' /\ ListStands' /\ Stays'
  <1>1. /\ place' = p /\ lists' = [lists EXCEPT ![p] = Joining(lists[p])]
        /\ vanished' = (vanished \/ picked # NoServer)
        /\ UNCHANGED <<known, traced, checked, picked, news, crossed, hasty, lost>>
        /\ \A j \in jobs : j \in jobs'
        /\ \A j \in jobs' : j \in jobs \/ j \in Histories(p, Data(lists[p]))
    BY DEF SwitchTo, apiWorld
  <1>2. IsCell(lists[p])
    BY DEF TableTypes
  <1>3. /\ IsCell(Joining(lists[p])) /\ ~ Quiet(Joining(lists[p]))
        /\ IsAnswered(Joining(lists[p])) => Joining(lists[p]) = lists[p]
    BY <1>2, JoiningCell
  <1>4. /\ lists'[p] = Joining(lists[p]) /\ DOMAIN lists' = Places
        /\ \A q \in Places : q # p => lists'[q] = lists[q]
        /\ \A q \in Places : IsCell(lists'[q])
    BY <1>1, <1>3, ListMoves
  <1>5. \A j \in jobs' : j \in jobs \/ IsJob(j)
    BY <1>1, NewHistories
  <1>6. TableTypes'
    BY <1>1, <1>4, <1>5 DEF TableTypes
  <1>7. \A q : Listing(q)' = Listing(q)
    BY <1>1, ListingStays
  <1>8. \A q \in Places : CellTells(q) => CellTells(q)'
    BY <1>1, <1>3, <1>4, <1>7 DEF CellTells
  <1> QED BY <1>1, <1>6, <1>8 DEF ListStands, Stays

\* An answer arrives; the histories that are then asked for change no list.
LEMMA ArrivalTells ==
    ASSUME TableTypes, ListStands, Stays, NEW p \in Places, ServersArrive(p)
    PROVE  TableTypes' /\ ListStands' /\ Stays'
  <1>1. /\ IsAnswered(lists[p]) /\ lists' = [lists EXCEPT ![p] = Arrived(lists[p])]
        /\ UNCHANGED <<known, traced, checked, place, picked, news, crossed, vanished, hasty, lost>>
        /\ \A j \in jobs : j \in jobs'
        /\ \A j \in jobs' : j \in jobs \/ j \in Histories(p, lists[p].fetch.data)
    BY DEF ServersArrive, apiWorld, tableFlags
  <1>2. IsCell(lists[p])
    BY DEF TableTypes
  <1>3. /\ IsCell(Arrived(lists[p])) /\ Arrived(lists[p]).data = {lists[p].fetch.data}
        /\ ~ IsAnswered(Arrived(lists[p]))
    BY <1>2, CellSteps, Stages DEF IsAnswered
  <1>4. /\ lists'[p] = Arrived(lists[p]) /\ DOMAIN lists' = Places
        /\ \A q \in Places : q # p => lists'[q] = lists[q]
        /\ \A q \in Places : IsCell(lists'[q])
    BY <1>1, <1>3, ListMoves
  <1>5. \A j \in jobs' : j \in jobs \/ (IsJob(j) /\ j.kind = "history")
    BY <1>1, NewHistories
  <1>6. TableTypes'
    BY <1>1, <1>4, <1>5 DEF TableTypes
  <1>7. \A q : Listing(q)' = Listing(q)
    BY <1>1, ListingStays
  <1>8. \A q \in Places : CellTells(q) => CellTells(q)'
    BY <1>1, <1>3, <1>4, <1>7 DEF CellTells
  <1>9. ListStands'
    BY <1>1, <1>8 DEF ListStands
  <1>10. NamesIn(place)' = NamesIn(place)
    BY <1>1 DEF NamesIn, WasChecked
  <1>11. Stays'
    <2>1. CASE p = place
      <3>1. Loaded(ListCell)' /\ Data(ListCell)' = lists[p].fetch.data
        BY <1>1, <1>3, <1>4, <2>1 DEF ListCell, Loaded, Data
      <3> QED BY <1>1, <1>3, <1>4, <1>5, <1>10, <2>1, <3>1 DEF Stays, ListCell
    <2>2. CASE p # place
      <3>1. ListCell' = ListCell
        BY <1>1, <1>4, <2>2 DEF ListCell, TableTypes
      <3> QED BY <1>1, <1>5, <1>10, <3>1 DEF Stays
    <2> QED BY <2>1, <2>2
  <1> QED BY <1>6, <1>9, <1>11

\* A list is asked for, and what is shown of it stays.
LEMMA AskingTells ==
    ASSUME TableTypes, Stays, NEW p \in Places, NEW c, IsCell(c), c.data = lists[p].data,
           ~ IsAnswered(c), lists' = [lists EXCEPT ![p] = c],
           UNCHANGED <<known, traced, checked, place, picked, vanished, hasty>>,
           jobs' \subseteq jobs
    PROVE  TableTypes' /\ Stays'
  <1>1. /\ lists'[p] = c /\ DOMAIN lists' = Places
        /\ \A q \in Places : q # p => lists'[q] = lists[q]
        /\ \A q \in Places : IsCell(lists'[q])
    BY ListMoves
  <1>2. TableTypes'
    BY <1>1 DEF TableTypes
  <1>3. NamesIn(place)' = NamesIn(place)
    BY DEF NamesIn, WasChecked
  <1>4. /\ Loaded(ListCell)' <=> Loaded(ListCell)
        /\ Data(ListCell)' = Data(ListCell)
        /\ IsAnswered(ListCell)' => ListCell' = ListCell
    BY <1>1 DEF ListCell, Loaded, Data, TableTypes
  <1> QED BY <1>2, <1>3, <1>4 DEF Stays

\* The list that is looked at is polled.
LEMMA PollTells ==
    ASSUME TableTypes, ListStands, Stays, PollList
    PROVE  TableTypes' /\ ListStands' /\ Stays'
  <1>1. /\ place \in Places /\ lists' = [lists EXCEPT ![place] = Asking(lists[place])]
        /\ UNCHANGED <<known, traced, checked, jobs, place, picked, news, crossed, vanished, hasty, lost>>
    BY DEF PollList, apiWorld, tableFlags, ListCell, TableTypes
  <1>2. IsCell(lists[place])
    BY DEF TableTypes
  <1>3. /\ IsCell(Asking(lists[place])) /\ Asking(lists[place]).data = lists[place].data
        /\ ~ IsAnswered(Asking(lists[place])) /\ ~ Quiet(Asking(lists[place]))
    BY <1>2, CellSteps, Stages DEF IsAnswered, Quiet
  <1>4. TableTypes' /\ Stays'
    BY <1>1, <1>3, AskingTells
  <1>5. /\ lists'[place] = Asking(lists[place])
        /\ \A q \in Places : q # place => lists'[q] = lists[q]
    BY <1>1, <1>3, ListMoves
  <1>6. \A q : Listing(q)' = Listing(q)
    BY <1>1, ListingStays
  <1>7. \A q \in Places : CellTells(q) => CellTells(q)'
    BY <1>1, <1>3, <1>5, <1>6 DEF CellTells
  <1> QED BY <1>1, <1>4, <1>7 DEF ListStands

\* A request that fails is forgotten.
LEMMA FailureTells ==
    ASSUME TableTypes, ListStands, Stays,
           \/ \E p \in Places : ListFails(p)
           \/ \E j \in jobs : JobFails(j)
    PROVE  TableTypes' /\ ListStands' /\ Stays'
  <1>1. lost' /\ UNCHANGED <<known, traced, checked, place, picked, news, crossed, vanished, hasty>>
    BY DEF ListFails, JobFails, apiWorld
  <1>2. ListStands'
    BY <1>1 DEF ListStands
  <1>3. ASSUME NEW p \in Places, ListFails(p)
        PROVE  TableTypes' /\ Stays'
    <2>1. lists' = [lists EXCEPT ![p] = Lost(lists[p])] /\ jobs' = jobs
      BY <1>3 DEF ListFails
    <2>2. IsCell(lists[p])
      BY DEF TableTypes
    <2>3. /\ IsCell(Lost(lists[p])) /\ Lost(lists[p]).data = lists[p].data
          /\ ~ IsAnswered(Lost(lists[p]))
      BY <2>2, CellSteps, Stages DEF IsAnswered
    <2> QED BY <1>1, <2>1, <2>3, AskingTells
  <1>4. ASSUME NEW j \in jobs, JobFails(j)
        PROVE  TableTypes' /\ Stays'
    <2>1. lists' = lists /\ jobs' \subseteq jobs
      BY <1>4 DEF JobFails
    <2>2. TableTypes'
      BY <1>1, <2>1 DEF TableTypes
    <2>3. NamesIn(place)' = NamesIn(place)
      BY <1>1 DEF NamesIn, WasChecked
    <2> QED BY <1>1, <2>1, <2>2, <2>3, StaysStill
  <1> QED BY <1>2, <1>3, <1>4

\* The API answers with what it knows; to register what was traced changes no list.
LEMMA ReadTells ==
    ASSUME TableTypes, ListStands, Stays, NEW p \in Places, ListRead(p)
    PROVE  TableTypes' /\ ListStands' /\ Stays'
  <1>1. /\ lists' = [lists EXCEPT ![p] = Reading(lists[p], Listing(p))] /\ news' = news \ {p}
        /\ known' = IF p = NoProject THEN known ELSE [known EXCEPT ![p] = @ \cup traced[p]]
        /\ UNCHANGED <<traced, checked, jobs, place, picked, crossed, vanished, hasty, lost>>
    BY DEF ListRead
  <1>2. IsCell(lists[p])
    BY DEF TableTypes
  <1>3. /\ IsCell(Reading(lists[p], Listing(p)))
        /\ Reading(lists[p], Listing(p)).data = lists[p].data
        /\ Reading(lists[p], Listing(p)).fetch = Answered(Listing(p))
    BY <1>2, CellSteps
  <1>4. /\ IsAnswered(Reading(lists[p], Listing(p))) /\ ~ Quiet(Reading(lists[p], Listing(p)))
        /\ Reading(lists[p], Listing(p)).fetch.data = Listing(p)
    BY <1>3, Stages DEF IsAnswered, Quiet
  <1>5. PICK c : c = Reading(lists[p], Listing(p))
    OBVIOUS
  <1>6. /\ lists'[p] = c /\ DOMAIN lists' = Places
        /\ \A q \in Places : q # p => lists'[q] = lists[q]
        /\ \A q \in Places : IsCell(lists'[q])
    BY <1>1, <1>3, <1>5, ListMoves
  <1>7. /\ DOMAIN known' = Places
        /\ \A q \in Places : q # NoProject => known'[q] \cup traced'[q] = known[q] \cup traced[q]
    BY <1>1 DEF TableTypes
  <1>8. \A q \in Places : Listing(q)' = Listing(q)
    BY <1>1, <1>7, ListingStays
  <1>9. TableTypes'
    BY <1>1, <1>6, <1>7 DEF TableTypes
  <1>10. CellTells(p)' /\ \A q \in Places : CellTells(q) => CellTells(q)'
    BY <1>1, <1>4, <1>5, <1>6, <1>8 DEF CellTells
  <1>11. ListStands'
    BY <1>1, <1>10 DEF ListStands, Told
  <1>12. \A q \in Places : NamesIn(q)' = NamesIn(q)
    <2>1. \A q : WasChecked(q)' = WasChecked(q)
      BY <1>1 DEF WasChecked
    <2>2. NamesIn(NoProject)' = NamesIn(NoProject)
      BY <2>1 DEF NamesIn
    <2>3. ASSUME NEW q \in Places, q # NoProject
          PROVE  NamesIn(q)' = NamesIn(q)
      BY <1>7, <2>1, <2>3 DEF NamesIn
    <2> QED BY <2>2, <2>3
  <1>13. /\ Loaded(ListCell)' <=> Loaded(ListCell)
         /\ Data(ListCell)' = Data(ListCell)
         /\ IsAnswered(ListCell)' => ListCell' = ListCell \/ ListCell.fetch'.data = Listing(place)
    BY <1>1, <1>3, <1>4, <1>5, <1>6 DEF ListCell, Loaded, Data, TableTypes
  <1>14. place \in Places /\ DOMAIN Listing(place) = NamesIn(place)
    BY DEF Listing, TableTypes
  <1>15. Stays'
    BY <1>1, <1>12, <1>13, <1>14 DEF Stays
  <1> QED BY <1>9, <1>11, <1>15

\* A job is served: the answer will have its list asked for again, or the list stays.
LEMMA ServedJob ==
    ASSUME TableTypes, NEW j \in jobs, ServeJob(j)
    PROVE  \E k : /\ IsJob(k) /\ k.kind = j.kind /\ k.server = j.server /\ k.place = j.place
                  /\ k.done /\ jobs' = (jobs \ {j}) \cup {k}
                  /\ j.kind = "remove" => k.ok = (j.server \in known[j.place])
                  /\ j.kind = "discover" => k.ok = (Undiscovered(j.place) # {})
                  /\ j.kind \in {"add", "check"} => k.ok
  <1>1. /\ {"kind", "server", "place", "done", "ok"} \subseteq DOMAIN j /\ IsJob(j)
    BY DEF TableTypes, IsJob
  <1>2. PICK ok \in BOOLEAN :
           /\ Served(j, ok)
           /\ j.kind = "remove" => ok = (j.server \in known[j.place])
           /\ j.kind = "discover" => ok = (Undiscovered(j.place) # {})
           /\ j.kind \in {"add", "check"} => ok
    <2>1. CASE j.kind = "history"
      BY <2>1 DEF ServeJob, Allowed
    <2>2. CASE j.kind = "remove"
      <3>1. Served(j, j.server \in known[j.place])
        BY <2>2 DEF ServeJob
      <3>2. (j.server \in known[j.place]) \in BOOLEAN
        OBVIOUS
      <3>3. WITNESS (j.server \in known[j.place]) \in BOOLEAN
      <3> QED BY <2>2, <3>1
    <2>3. CASE j.kind = "discover"
      <3>1. Served(j, Undiscovered(j.place) # {})
        BY <2>3 DEF ServeJob
      <3> QED BY <2>3, <3>1
    <2>4. CASE j.kind \in {"add", "check"}
      <3>1. Served(j, TRUE)
        BY <2>4 DEF ServeJob
      <3> QED BY <2>4, <3>1
    <2> QED BY <1>1, <2>1, <2>2, <2>3, <2>4 DEF IsJob, JobKinds
  <1>3. PICK k : k = [j EXCEPT !.done = TRUE, !.ok = ok]
    OBVIOUS
  <1>4. /\ DOMAIN k = DOMAIN j /\ k.kind = j.kind /\ k.server = j.server /\ k.place = j.place
        /\ k.done = TRUE /\ k.ok = ok
    BY <1>1, <1>3
  <1>5. IsJob(k)
    BY <1>1, <1>4 DEF IsJob
  <1>6. jobs' = (jobs \ {j}) \cup {k}
    BY <1>2, <1>3 DEF Served
  <1> QED BY <1>2, <1>4, <1>5, <1>6

\* ... no server leaves the list that is looked at, but one that a job removes;
LEMMA ServedWorld ==
    ASSUME TableTypes, NEW j \in jobs, ServeJob(j)
    PROVE  /\ DOMAIN known' = Places /\ DOMAIN traced' = Places /\ DOMAIN checked' = Places
           /\ \A p \in Places : DOMAIN checked'[p] = Servers
           /\ \A s : s \in NamesIn(place) => s \in NamesIn(place)' \/ (j.kind = "remove" /\ s = j.server /\ j.place = place)
  <1>1. IsJob(j) /\ traced' = traced /\ place' = place
    BY DEF TableTypes, ServeJob, apiWorld
  <1>2. \/ /\ j.kind # "check" /\ checked' = checked
           /\ \/ known' = known
              \/ j.kind = "remove" /\ known' = [known EXCEPT ![j.place] = @ \ {j.server}]
              \/ j.kind = "add" /\ known' = [known EXCEPT ![j.place] = @ \cup {j.server}]
              \/ j.kind = "discover" /\ known' = [known EXCEPT ![j.place] = @ \cup Undiscovered(j.place)]
        \/ /\ j.kind = "check" /\ known' = known
           /\ checked' = [checked EXCEPT ![NoProject] =
                              [s \in Servers |-> IF s \in Configured THEN "up" ELSE @[s]]]
    BY <1>1 DEF ServeJob, apiWorld
  <1>3. /\ DOMAIN known' = Places /\ DOMAIN checked' = Places
        /\ \A p \in Places : DOMAIN checked'[p] = Servers
    BY <1>2 DEF TableTypes
  <1>4. \A p \in Places : WasChecked(p) \subseteq WasChecked(p)'
    BY <1>2 DEF WasChecked, TableTypes, Unchecked
  <1>5. \A s, p : p \in Places /\ s \in known[p] => s \in known'[p] \/ (j.kind = "remove" /\ s = j.server /\ j.place = p)
    BY <1>2 DEF TableTypes
  <1>6. place \in Places
    BY DEF TableTypes
  <1>7. ASSUME place = NoProject, NEW s \in NamesIn(place)
        PROVE  s \in NamesIn(place)'
    BY <1>1, <1>4, <1>7 DEF NamesIn
  <1>8. ASSUME place # NoProject, NEW s \in NamesIn(place), ~ (j.kind = "remove" /\ s = j.server /\ j.place = place)
        PROVE  s \in NamesIn(place)'
    BY <1>1, <1>4, <1>5, <1>6, <1>8 DEF NamesIn
  <1> QED BY <1>1, <1>3, <1>7, <1>8 DEF TableTypes

\* ... and a list that no answer will renew stays as it was.
LEMMA ServedListing ==
    ASSUME TableTypes, NEW j \in jobs, ServeJob(j), NEW q \in Places, q \notin news',
           \A k \in jobs' : ~ Told(k, q)
    PROVE  Listing(q)' = Listing(q)
  <1>1. PICK k : /\ k.kind = j.kind /\ k.place = j.place /\ k.done /\ k \in jobs'
                 /\ j.kind = "remove" => k.ok = (j.server \in known[j.place])
                 /\ j.kind = "discover" => k.ok = (Undiscovered(j.place) # {})
                 /\ j.kind \in {"add", "check"} => k.ok
    BY ServedJob
  <1>2. ~ Told(k, q) /\ IsJob(j) /\ traced' = traced
    BY <1>1 DEF TableTypes, ServeJob, apiWorld
  <1>3. CASE j.kind = "history"
    BY <1>3, ListingStays DEF ServeJob, apiWorld
  <1>4. CASE j.kind \in {"remove", "add", "discover"}
    <2>1. checked' = checked
      BY <1>4 DEF ServeJob, apiWorld
    <2>2. q # j.place => known'[q] = known[q]
      BY <1>4 DEF ServeJob, TableTypes
    <2>3. q = j.place => known'[q] = known[q] \/ (j.kind = "discover" /\ q = NoProject)
      <3> SUFFICES ASSUME q = j.place PROVE known'[q] = known[q] \/ (j.kind = "discover" /\ q = NoProject)
        OBVIOUS
      <3>1. ~ k.ok
        BY <1>1, <1>2, <1>4 DEF Told
      <3>2. CASE j.kind = "remove"
        <4>1. j.server \notin known[q] /\ known' = [known EXCEPT ![q] = @ \ {j.server}]
          BY <1>1, <3>1, <3>2 DEF ServeJob
        <4> QED BY <4>1 DEF TableTypes
      <3>3. CASE j.kind = "discover"
        <4>1. Undiscovered(q) = {} /\ known' = [known EXCEPT ![q] = @ \cup Undiscovered(q)]
          BY <1>1, <3>1, <3>3 DEF ServeJob
        <4> QED BY <4>1 DEF TableTypes
      <3> QED BY <1>1, <1>4, <3>1, <3>2, <3>3
    <2> QED BY <1>2, <2>1, <2>2, <2>3, ListingStays
  <1>5. CASE j.kind = "check"
    <2>1. q # NoProject
      BY <1>1, <1>2, <1>5 DEF ServeJob, Told
    <2>2. known' = known /\ checked'[q] = checked[q]
      BY <1>5, <2>1 DEF ServeJob, apiWorld, TableTypes
    <2> QED BY <1>2, <2>1, <2>2, ListingElsewhere
  <1> QED BY <1>2, <1>3, <1>4, <1>5 DEF IsJob, JobKinds

\* So a served job leaves the lists true, or about to be asked for again.
LEMMA ServeTells ==
    ASSUME TableTypes, ListStands, Stays, NEW j \in jobs, ServeJob(j)
    PROVE  TableTypes' /\ ListStands' /\ Stays'
  <1>1. UNCHANGED <<lists, place, picked, crossed, vanished, hasty, lost>> /\ news \subseteq news' /\ ~ j.done
    BY DEF ServeJob
  <1>2. PICK k : /\ IsJob(k) /\ k.kind = j.kind /\ k.server = j.server /\ k.place = j.place
                 /\ jobs' = (jobs \ {j}) \cup {k}
    BY ServedJob
  <1>3. TableTypes'
    BY <1>1, <1>2, ServedWorld DEF TableTypes
  <1>4. ASSUME NEW q \in Places, q \notin news', \A i \in jobs' : ~ Told(i, q)
        PROVE  Listing(q)' = Listing(q) /\ q \notin news /\ \A i \in jobs : ~ Told(i, q)
    <2>1. Listing(q)' = Listing(q)
      BY <1>4, ServedListing
    <2> QED BY <1>1, <1>2, <1>4, <2>1 DEF Told
  <1>5. ASSUME ~ crossed', ~ lost', NEW q \in Places, q \notin news', \A i \in jobs' : ~ Told(i, q)
        PROVE  CellTells(q)'
    <2>1. CellTells(q)
      BY <1>1, <1>4, <1>5 DEF ListStands
    <2> QED BY <1>1, <1>4, <1>5, <2>1 DEF CellTells
  <1>6. \A q : (\A i \in jobs' : ~ Told(i, q)') => (\A i \in jobs' : ~ Told(i, q))
    BY DEF Told
  <1>7. ListStands'
    BY <1>5, <1>6 DEF ListStands
  <1>8. Stays'
    <2> SUFFICES ASSUME ~ vanished', ~ hasty', picked' # NoServer PROVE Stays'
      BY DEF Stays
    <2>1. /\ picked \in NamesIn(place) /\ \A i \in jobs : ~ (i.kind = "remove" /\ i.server = picked /\ i.place = place)
      BY <1>1 DEF Stays
    <2>2. picked \in NamesIn(place)'
      BY <2>1, ServedWorld
    <2> QED BY <1>1, <1>2, <2>1, <2>2 DEF Stays, ListCell
  <1> QED BY <1>3, <1>7, <1>8

\* A job ends: what changed the list of its place has it asked for again.
LEMMA EndTells ==
    ASSUME TableTypes, ListStands, Stays, NEW j \in jobs, JobEnds(j)
    PROVE  TableTypes' /\ ListStands' /\ Stays'
  <1>1. /\ jobs' = jobs \ {j} /\ j.done /\ place \in Places
        /\ UNCHANGED <<known, traced, checked, place, picked, news, vanished, hasty, lost>>
    BY DEF JobEnds, apiWorld, TableTypes
  <1>2. \A q : Listing(q)' = Listing(q)
    BY <1>1, ListingStays
  <1>3. CASE j.kind = "history" \/ ~ j.ok
    <2>1. lists' = lists /\ (~ crossed' => ~ crossed)
      <3>1. lists' = lists
        BY <1>3 DEF JobEnds
      <3>2. CASE j.kind = "history"
        BY <3>1, <3>2 DEF JobEnds
      <3>3. CASE j.kind # "history"
        BY <3>1, <3>3 DEF JobEnds
      <3> QED BY <3>2, <3>3
    <2>2. TableTypes'
      BY <1>1, <2>1 DEF TableTypes
    <2>3. \A q : CellTells(q) => CellTells(q)'
      BY <1>1, <1>2, <2>1 DEF CellTells
    <2>4. \A q : (\A i \in jobs' : ~ Told(i, q)') => \A i \in jobs : ~ Told(i, q)
      BY <1>1, <1>3 DEF Told
    <2>5. ListStands'
      BY <1>1, <2>1, <2>3, <2>4 DEF ListStands
    <2>6. NamesIn(place)' = NamesIn(place)
      BY <1>1 DEF NamesIn, WasChecked
    <2> QED BY <1>1, <2>1, <2>2, <2>5, <2>6, StaysStill
  <1>4. CASE j.kind # "history" /\ j.ok
    <2>1. /\ lists' = [lists EXCEPT ![place] = Asking(lists[place])]
          /\ ~ crossed' => ~ crossed /\ j.place = place
      BY <1>4 DEF JobEnds
    <2>2. IsCell(lists[place])
      BY <1>1 DEF TableTypes
    <2>3. /\ IsCell(Asking(lists[place])) /\ Asking(lists[place]).data = lists[place].data
          /\ ~ IsAnswered(Asking(lists[place])) /\ ~ Quiet(Asking(lists[place]))
      BY <2>2, CellSteps, Stages DEF IsAnswered, Quiet
    <2>4. TableTypes' /\ Stays'
      BY <1>1, <2>1, <2>3, AskingTells
    <2>5. /\ lists'[place] = Asking(lists[place])
          /\ \A q \in Places : q # place => lists'[q] = lists[q]
      BY <1>1, <2>1, <2>3, ListMoves
    <2>6. CellTells(place)' /\ \A q \in Places : CellTells(q) => CellTells(q)'
      BY <1>1, <1>2, <2>3, <2>5 DEF CellTells
    <2>7. ASSUME ~ crossed', NEW q, q # place, \A i \in jobs' : ~ Told(i, q)'
          PROVE  \A i \in jobs : ~ Told(i, q)
      BY <1>1, <2>1, <2>7 DEF Told
    <2>8. ListStands'
      BY <1>1, <2>1, <2>6, <2>7 DEF ListStands
    <2> QED BY <2>4, <2>8
  <1> QED BY <1>3, <1>4

\* What others do is news in the places it touches, and leaves the lists of the others.
LEMMA NewsTells ==
    ASSUME TableTypes, ListStands, Stays,
           \E p \in Places, s \in Servers : Spans(p, s) \/ OtherRemoves(p, s) \/ Checks(p, s, "down")
    PROVE  TableTypes' /\ ListStands' /\ Stays'
  <1>1. UNCHANGED <<lists, jobs, place, picked, crossed, hasty, lost>>
    BY DEF Spans, OtherRemoves, Checks
  <1>2. PICK p \in Places, s \in Servers :
           \/ Spans(p, s) /\ p # NoProject
           \/ OtherRemoves(p, s)
           \/ Checks(p, s, "down") /\ p # NoProject
    BY DEF Spans, Checks
  <1>3. news \cup {p} \subseteq news' /\ (vanished' \/ vanished' = vanished)
    BY <1>2 DEF Spans, OtherRemoves, Checks
  <1>4. /\ DOMAIN known' = Places /\ DOMAIN traced' = Places /\ DOMAIN checked' = Places
        /\ \A q \in Places : DOMAIN checked'[q] = Servers
    BY <1>2 DEF TableTypes, Spans, OtherRemoves, Checks
  <1>5. TableTypes'
    BY <1>1, <1>4 DEF TableTypes
  <1>6. ASSUME NEW q \in Places, q \notin news'
        PROVE  Listing(q)' = Listing(q)
    <2>1. q # p /\ q \notin news
      BY <1>3, <1>6
    <2>2. CASE Spans(p, s)
      <3>1. checked' = checked /\ known' = known /\ traced'[q] = traced[q]
        BY <2>1, <2>2 DEF Spans, TableTypes
      <3> QED BY <3>1, ListingStays
    <2>3. CASE OtherRemoves(p, s)
      <3>1. checked' = checked /\ traced' = traced /\ known'[q] = known[q]
        BY <2>1, <2>3 DEF OtherRemoves, TableTypes
      <3> QED BY <3>1, ListingStays
    <2>4. CASE Checks(p, s, "down")
      <3>1. q # NoProject
        BY <1>6, <2>4 DEF Checks
      <3>2. known' = known /\ traced' = traced /\ checked'[q] = checked[q]
        BY <2>1, <2>4 DEF Checks, TableTypes
      <3> QED BY <3>1, <3>2, ListingElsewhere
    <2> QED BY <1>2, <2>2, <2>3, <2>4
  <1>7. \A q \in Places \ news' : CellTells(q) => CellTells(q)'
    BY <1>1, <1>6 DEF CellTells
  <1>8. ListStands'
    BY <1>1, <1>3, <1>7 DEF ListStands, Told
  <1>9. ASSUME ~ vanished'
        PROVE  NamesIn(place) \subseteq NamesIn(place)'
    <2>1. /\ known' = known
          /\ \A q \in Places : traced[q] \subseteq traced'[q] /\ WasChecked(q) \subseteq WasChecked(q)'
      <3>1. CASE Spans(p, s)
        BY <3>1 DEF Spans, TableTypes, WasChecked
      <3>2. CASE Checks(p, s, "down")
        BY <3>2 DEF Checks, TableTypes, WasChecked, Unchecked
      <3> QED BY <1>2, <1>9, <3>1, <3>2 DEF OtherRemoves
    <2>2. place' = place /\ place \in Places
      BY <1>1 DEF TableTypes
    <2> QED BY <2>1, <2>2 DEF NamesIn
  <1>10. Stays'
    BY <1>1, <1>3, <1>9, StaysStill DEF Stays
  <1> QED BY <1>5, <1>8, <1>10

\* Every step of the list of servers.
LEMMA TableSteps ==
    ASSUME TableTypes, ListStands, Stays, TableNext
    PROVE  TableTypes' /\ ListStands' /\ Stays'
  <1>1. CASE \/ \E f : SetFilter(f)
             \/ \E s \in Servers : RemoveServer(s) \/ HandleSubmit(s)
             \/ RunCheck \/ RunDiscover \/ ToggleDialog
    BY <1>1, ClicksKeep
  <1>2. CASE \E p \in Places, s \in Servers : Spans(p, s) \/ OtherRemoves(p, s) \/ Checks(p, s, "down")
    BY <1>2, NewsTells
  <1>3. CASE (\E p \in Places : ListFails(p)) \/ (\E j \in jobs : JobFails(j))
    BY <1>3, FailureTells
  <1>4. CASE \/ \E s \in Servers : SelectServer(s)
             \/ \E p \in Places : SwitchTo(p) \/ ListRead(p) \/ ServersArrive(p)
             \/ PollList
             \/ \E j \in jobs : ServeJob(j) \/ JobEnds(j)
    BY <1>4, SelectKeeps, PlaceTells, ReadTells, ArrivalTells, PollTells, ServeTells, EndTells
  <1> QED BY <1>1, <1>2, <1>3, <1>4 DEF TableNext

\* The page opens with its list asked for.
LEMMA TableStarts ==
    ASSUME TableInit
    PROVE  TableTypes /\ ListStands /\ Stays
  <1>1. /\ IsCell(Fresh) /\ IsCell(Closed) /\ ~ IsAnswered(Fresh) /\ ~ IsAnswered(Closed)
        /\ ~ Quiet(Fresh)
    BY Stages DEF IsCell, IsAnswered, Fresh, Closed, Quiet
  <1>2. \A p \in Places : lists[p] = IF p = place THEN Fresh ELSE Closed
    BY DEF TableInit
  <1>3. TableTypes
    BY <1>1, <1>2 DEF TableInit, TableTypes
  <1>4. \A p \in Places : CellTells(p)
    BY <1>1, <1>2 DEF CellTells
  <1>5. Stays
    BY DEF TableInit, Stays
  <1> QED BY <1>3, <1>4, <1>5 DEF ListStands

\* What the invariant says of a page at rest.
LEMMA TableTells ==
    ASSUME TableTypes, ListStands, Stays
    PROVE  ListIsTrue /\ NeverBlank
  <1>1. ListIsTrue
    BY DEF ListIsTrue, ListStands, CellTells, ListCell, TableTypes
  <1>2. NeverBlank
    BY DEF NeverBlank, Stays, InTable, InDetail, Listed
  <1> QED BY <1>1, <1>2

-----------------------------------------------------------------------------
(* The panels of a server.                                                 *)

IsRequest(r) == {"kind", "scope", "tool"} \subseteq DOMAIN r
Expects(kind) == \E r \in requests : r.kind = kind
PanelTypes ==
    /\ open \in {"health", "drift", "logs"} /\ scope \in Scopes /\ hours \in Windows
    /\ \A r \in requests : IsRequest(r)
    /\ DOMAIN log = Scopes \X Windows /\ \A k \in DOMAIN log : IsCell(log[k]) /\ ~ IsAnswered(log[k])
    /\ \A k \in DOMAIN log : log[k].data \subseteq {Callers[k]}
PanelStands ==
    ~ overlapped /\ ~ failed =>
        /\ \A r \in requests : r.scope = scope
        /\ open = "health" =>
              /\ Expects("blast") \/ blast = [shows |-> scope, loading |-> FALSE]
              /\ Expects("history") \/ history = "of the server"
        /\ open = "drift" =>
              \/ Expects("events")
              \/ /\ events = scope
                 /\ \A t \in Drifted[scope] :
                       \/ \E r \in requests : r.kind = "impact" /\ r.tool = t
                       \/ t \in DOMAIN impact /\ impact[t] = scope
        /\ open = "logs" => paused \/ Loaded(log[LogKey]) \/ ~ Quiet(log[LogKey])

\* A request is of its kind, project and tool.
LEMMA NewRequest ==
    ASSUME NEW kind, NEW p, NEW tool
    PROVE  /\ IsRequest(Request(kind, p, tool)) /\ Request(kind, p, tool).kind = kind
           /\ Request(kind, p, tool).scope = p /\ Request(kind, p, tool).tool = tool
BY DEF IsRequest, Request

\* The effects ask about the project they run for.
LEMMA NewRequests ==
    ASSUME NEW p, open \in {"health", "drift", "logs"}, NEW r \in AsksAnew(p)
    PROVE  IsRequest(r) /\ r.scope = p
BY NewRequest DEF AsksAnew

\* What SWR holds of the log at one address changes.
LEMMA LogMoves ==
    ASSUME PanelTypes, NEW k \in DOMAIN log, NEW c, log' = [log EXCEPT ![k] = c],
           IsCell(c), ~ IsAnswered(c), c.data \subseteq {Callers[k]},
           UNCHANGED <<open, scope, hours, requests>>
    PROVE  PanelTypes' /\ log'[k] = c /\ \A j \in DOMAIN log : j # k => log'[j] = log[j]
BY DEF PanelTypes

\* The log of another address is looked at.
LEMMA KeyAsked ==
    ASSUME PanelTypes, AsksForKey, scope' \in Scopes, hours' \in Windows
    PROVE  /\ DOMAIN log' = Scopes \X Windows
           /\ \A k \in DOMAIN log' : /\ IsCell(log'[k]) /\ ~ IsAnswered(log'[k])
                                     /\ log'[k].data \subseteq {Callers[k]}
           /\ open = "logs" /\ ~ paused' => ~ Quiet(log'[LogKey'])
           /\ (open # "logs" \/ paused') => log' = log
  <1>1. LogKey' \in DOMAIN log
    BY DEF LogKey, PanelTypes
  <1>2. /\ IsCell(log[LogKey']) /\ ~ IsAnswered(log[LogKey'])
        /\ log[LogKey'].data \subseteq {Callers[LogKey']}
    BY <1>1 DEF PanelTypes
  <1>3. CASE open = "logs" /\ ~ paused'
    <2>1. log' = [log EXCEPT ![LogKey'] = Joining(log[LogKey'])]
      BY <1>3 DEF AsksForKey
    <2>2. /\ DOMAIN log' = DOMAIN log /\ log'[LogKey'] = Joining(log[LogKey'])
          /\ \A k \in DOMAIN log : k # LogKey' => log'[k] = log[k]
      BY <1>1, <2>1
    <2>3. /\ IsCell(log'[LogKey']) /\ ~ IsAnswered(log'[LogKey']) /\ ~ Quiet(log'[LogKey'])
          /\ log'[LogKey'].data \subseteq {Callers[LogKey']}
      BY <1>2, <2>2, JoiningCell
    <2> QED BY <1>3, <2>2, <2>3 DEF PanelTypes
  <1>4. CASE open # "logs" \/ paused'
    BY <1>4 DEF AsksForKey, PanelTypes
  <1> QED BY <1>3, <1>4

\* Another project: every panel asks again.
LEMMA ScopeTells ==
    ASSUME PanelTypes, PanelStands, NEW p \in Scopes, SwitchScope(p)
    PROVE  PanelTypes' /\ PanelStands'
  <1>1. /\ scope' = p /\ requests' = requests \cup AsksAnew(p) /\ AsksForKey
        /\ overlapped' = (overlapped \/ requests # {})
        /\ UNCHANGED <<open, history, events, impact, paused, hours, failed>>
    BY DEF SwitchScope, driftVars
  <1>2. PanelTypes'
    <2>1. \A r \in requests' : IsRequest(r)
      BY <1>1, NewRequests DEF PanelTypes
    <2>2. /\ DOMAIN log' = Scopes \X Windows
          /\ \A k \in DOMAIN log' : /\ IsCell(log'[k]) /\ ~ IsAnswered(log'[k])
                                    /\ log'[k].data \subseteq {Callers[k]}
      BY <1>1, KeyAsked DEF PanelTypes
    <2> QED BY <1>1, <2>1, <2>2 DEF PanelTypes
  <1>3. ASSUME ~ overlapped', ~ failed'
        PROVE  /\ \A r \in requests' : r.scope = scope'
               /\ open = "health" => Expects("blast")' /\ (Expects("history")' \/ history' = "of the server")
               /\ open = "drift" => Expects("events")'
               /\ open = "logs" => paused' \/ ~ Quiet(log[LogKey])'
    <2>1. requests' = AsksAnew(p)
      BY <1>1, <1>3
    <2>2. open = "health" => Expects("history") \/ history = "of the server"
      BY <1>1, <1>3 DEF PanelStands
    <2>3. ~ Expects("history")
      BY <1>1, <1>3 DEF Expects
    <2>4. \A r \in requests' : r.scope = scope'
      BY <1>1, <2>1, NewRequests DEF PanelTypes
    <2>5. open = "health" => Expects("blast")'
      BY <2>1, NewRequest DEF AsksAnew, Expects
    <2>6. open = "drift" => Expects("events")'
      BY <2>1, NewRequest DEF AsksAnew, Expects
    <2>7. open = "logs" => paused' \/ ~ Quiet(log[LogKey])'
      BY <1>1, KeyAsked DEF PanelTypes
    <2> QED BY <1>1, <2>2, <2>3, <2>4, <2>5, <2>6, <2>7
  <1> QED BY <1>1, <1>2, <1>3 DEF PanelStands

\* An investigation is asked for by hand.
LEMMA InvestigationTells ==
    ASSUME PanelTypes, PanelStands, RunInvestigation
    PROVE  PanelTypes' /\ PanelStands'
  <1>1. /\ open = "health" /\ requests' = requests \cup {Request("investigate", scope, Nothing)}
        /\ UNCHANGED <<open, scope, blast, history, log, hours, overlapped, failed>>
    BY DEF RunInvestigation, logVars
  <1>2. PanelTypes'
    BY <1>1, NewRequest DEF PanelTypes
  <1>3. \A kind : Expects(kind) => Expects(kind)'
    BY <1>1 DEF Expects
  <1>4. \A r \in requests' : r \in requests \/ r.scope = scope
    BY <1>1, NewRequest
  <1> QED BY <1>1, <1>2, <1>3, <1>4 DEF PanelStands, LogKey

\* The log is paused, or resumed, or another window of it is chosen.
LEMMA LogClicks ==
    ASSUME PanelTypes, PanelStands, Pause \/ \E h \in Windows : SetHours(h)
    PROVE  PanelTypes' /\ PanelStands'
  <1>1. /\ open = "logs" /\ AsksForKey /\ hours' \in Windows
        /\ UNCHANGED <<open, scope, requests, overlapped, failed>>
    BY DEF Pause, SetHours, PanelTypes
  <1>2. PanelTypes'
    BY <1>1, KeyAsked DEF PanelTypes
  <1>3. paused' \/ ~ Quiet(log[LogKey])'
    BY <1>1, KeyAsked DEF PanelTypes
  <1> QED BY <1>1, <1>2, <1>3 DEF PanelStands

\* The log is polled, arrives or fails.
LEMMA LogFetches ==
    ASSUME PanelTypes, PanelStands, PollLog \/ \E k \in Scopes \X Windows : LogArrives(k) \/ LogFails(k)
    PROVE  PanelTypes' /\ PanelStands'
  <1>1. /\ UNCHANGED <<open, scope, hours, requests, blast, history, events, impact, paused, overlapped>>
        /\ LogKey' = LogKey /\ LogKey \in DOMAIN log /\ Expects("blast")' = Expects("blast")
        /\ Expects("history")' = Expects("history") /\ Expects("events")' = Expects("events")
    BY DEF PollLog, LogArrives, LogFails, healthVars, driftVars, PanelTypes, LogKey, Expects
  <1>2. CASE PollLog
    <2>1. /\ IsCell(Asking(log[LogKey])) /\ ~ IsAnswered(Asking(log[LogKey]))
          /\ ~ Quiet(Asking(log[LogKey])) /\ Asking(log[LogKey]).data \subseteq {Callers[LogKey]}
      BY <1>1, CellSteps, Stages DEF PanelTypes, IsAnswered, Quiet
    <2>2. PanelTypes' /\ log'[LogKey] = Asking(log[LogKey])
      BY <1>1, <1>2, <2>1, LogMoves DEF PollLog
    <2> QED BY <1>1, <1>2, <2>1, <2>2 DEF PanelStands, PollLog
  <1>3. ASSUME NEW k \in Scopes \X Windows, LogArrives(k)
        PROVE  PanelTypes' /\ PanelStands'
    <2> DEFINE c == Arrived(Reading(log[k], Callers[k]))
    <2>1. k \in DOMAIN log
      BY DEF PanelTypes
    <2>2. IsCell(c) /\ c.data = {Callers[k]} /\ ~ IsAnswered(c)
      BY <2>1, CellSteps, Stages DEF PanelTypes, IsAnswered
    <2>3. log' = [log EXCEPT ![k] = c] /\ failed' = failed
      BY <1>3 DEF LogArrives
    <2>4. PanelTypes' /\ log'[k] = c /\ \A j \in DOMAIN log : j # k => log'[j] = log[j]
      BY <1>1, <2>1, <2>2, <2>3, LogMoves
    <2> HIDE DEF c
    <2>5. Loaded(c)
      BY <2>2 DEF Loaded
    <2>6. Loaded(log[LogKey]) \/ ~ Quiet(log[LogKey]) => (Loaded(log[LogKey]) \/ ~ Quiet(log[LogKey]))'
      BY <1>1, <2>4, <2>5
    <2> QED BY <1>1, <2>3, <2>4, <2>6 DEF PanelStands
  <1>4. ASSUME NEW k \in Scopes \X Windows, LogFails(k)
        PROVE  PanelTypes' /\ PanelStands'
    <2>1. k \in DOMAIN log
      BY DEF PanelTypes
    <2>2. /\ IsCell(Lost(log[k])) /\ ~ IsAnswered(Lost(log[k]))
          /\ Lost(log[k]).data \subseteq {Callers[k]}
      BY <2>1, CellSteps, Stages DEF PanelTypes, IsAnswered
    <2>3. log' = [log EXCEPT ![k] = Lost(@)] /\ failed'
      BY <1>4 DEF LogFails
    <2>4. PanelTypes'
      BY <1>1, <2>1, <2>2, <2>3, LogMoves
    <2> QED BY <2>3, <2>4 DEF PanelStands
  <1> QED BY <1>2, <1>3, <1>4

\* A request by hand ends: what it brings is about the project that is active.
LEMMA EndTypes ==
    ASSUME PanelTypes, NEW r \in requests, NEW content, PanelEnds(r, content),
           UNCHANGED <<open, scope, log, hours>>
    PROVE  PanelTypes'
  <1>1. \A q \in requests' : q \in requests \/ \E t : q = Request("impact", scope, t)
    BY DEF PanelEnds
  <1>2. \A q \in requests' : IsRequest(q)
    BY <1>1, NewRequest DEF PanelTypes
  <1> QED BY <1>2 DEF PanelTypes

\* An answer fills its panel; the changes that arrive have their impact asked for.
LEMMA AnswerTellsPanel ==
    ASSUME PanelTypes, PanelStands, NEW r \in requests, Answers(r)
    PROVE  PanelTypes' /\ PanelStands'
  <1>1. /\ UNCHANGED <<open, scope, log, paused, hours, overlapped, failed>>
        /\ PanelEnds(r, r.scope)
    BY DEF Answers, logVars
  <1>2. PanelTypes'
    BY <1>1, EndTypes
  <1> SUFFICES ASSUME ~ overlapped', ~ failed'
               PROVE  PanelStands'
    BY <1>2 DEF PanelStands
  <1>3. /\ \A q \in requests : q.scope = scope
        /\ open = "health" =>
              /\ Expects("blast") \/ blast = [shows |-> scope, loading |-> FALSE]
              /\ Expects("history") \/ history = "of the server"
        /\ open = "logs" => paused \/ Loaded(log[LogKey]) \/ ~ Quiet(log[LogKey])
    BY <1>1 DEF PanelStands
  <1>4. r.scope = scope /\ scope \in Scopes /\ scope # Nothing
    BY <1>3, PanelAssumption DEF PanelTypes
  <1>6. \A q \in requests' : q.scope = scope'
    <2>1. \A q \in requests' : q \in requests \/ \E t : q = Request("impact", scope, t)
      BY <1>1 DEF PanelEnds
    <2>2. \A t : Request("impact", scope, t).scope = scope
      BY NewRequest
    <2> QED BY <1>1, <1>3, <2>1, <2>2
  <1>7. \A kind : kind # r.kind => (Expects(kind) => Expects(kind)')
    BY <1>1 DEF PanelEnds, Expects
  <1>8. open = "health" =>
              /\ Expects("blast")' \/ blast' = [shows |-> scope, loading |-> FALSE]
              /\ Expects("history")' \/ history' = "of the server"
    <2>1. CASE r.kind = "blast"
      BY <1>1, <1>3, <1>4, <1>7, <2>1 DEF PanelEnds
    <2>2. CASE r.kind = "history"
      BY <1>1, <1>3, <1>4, <1>7, <2>2 DEF PanelEnds
    <2>3. CASE r.kind \notin {"blast", "history"}
      BY <1>1, <1>3, <1>7, <2>3 DEF PanelEnds, healthVars
    <2> QED BY <2>1, <2>2, <2>3
  <1>9. open = "drift" =>
                \/ Expects("events")'
                \/ /\ events' = scope
                   /\ \A t \in Drifted[scope] :
                         \/ \E q \in requests' : q.kind = "impact" /\ q.tool = t
                         \/ t \in DOMAIN impact' /\ impact'[t] = scope
    <2>1. CASE r.kind = "events"
      <3>1. /\ events' = scope
            /\ requests' = (requests \ {r}) \cup {Request("impact", scope, t) : t \in Drifted[scope]}
        BY <1>1, <1>4, <2>1 DEF PanelEnds, EventsShown, ToolsOf
      <3> QED BY <3>1, NewRequest
    <2>2. CASE r.kind = "impact"
      <3>1. /\ impact' = Put(impact, r.tool, scope) /\ requests' = requests \ {r} /\ events' = events
        BY <1>1, <1>4, <2>2 DEF PanelEnds
      <3>2. /\ r.tool \in DOMAIN impact' /\ impact'[r.tool] = scope
            /\ \A t \in DOMAIN impact : t # r.tool => t \in DOMAIN impact' /\ impact'[t] = impact[t]
        BY <3>1 DEF Put
      <3> QED BY <1>1, <1>7, <2>2, <3>1, <3>2 DEF PanelStands
    <2>3. CASE r.kind \notin {"events", "impact"}
      <3>1. requests' = requests \ {r} /\ UNCHANGED <<events, impact>>
        BY <1>1, <2>3 DEF PanelEnds, driftVars
      <3> QED BY <1>1, <1>7, <2>3, <3>1 DEF PanelStands
    <2> QED BY <2>1, <2>2, <2>3
  <1> QED BY <1>1, <1>3, <1>6, <1>8, <1>9 DEF PanelStands, LogKey

\* Every step of the panels.
LEMMA PanelSteps ==
    ASSUME PanelTypes, PanelStands, PanelNext
    PROVE  PanelTypes' /\ PanelStands'
  <1>1. ASSUME NEW a, SetAgent(a)
        PROVE  PanelTypes' /\ PanelStands'
    <2>1. UNCHANGED <<open, scope, blast, history, events, impact, log, paused, hours, requests,
                      overlapped, failed>>
      BY <1>1 DEF SetAgent, healthVars, driftVars
    <2> QED BY <2>1 DEF PanelTypes, PanelStands, Expects, LogKey
  <1>2. ASSUME NEW r \in requests, PanelFails(r)
        PROVE  PanelTypes' /\ PanelStands'
    <2>1. UNCHANGED <<open, scope, log, hours>> /\ failed' /\ PanelEnds(r, Nothing)
      BY <1>2 DEF PanelFails, logVars
    <2> QED BY <2>1, EndTypes DEF PanelStands
  <1> QED
    BY <1>1, <1>2, ScopeTells, InvestigationTells, LogClicks, LogFetches, AnswerTellsPanel
       DEF PanelNext

\* A tab opens with all that it shows asked for.
LEMMA PanelStarts ==
    ASSUME PanelInit
    PROVE  PanelTypes /\ PanelStands
  <1>1. /\ open \in {"health", "drift", "logs"} /\ scope \in Scopes /\ hours \in Windows
        /\ blast = [shows |-> Nothing, loading |-> TRUE] /\ paused = FALSE
    BY DEF PanelInit
  <1>2. \A r \in requests : IsRequest(r) /\ r.scope = scope
    BY <1>1, NewRequest, NewRequests DEF PanelInit
  <1>3. /\ DOMAIN log = Scopes \X Windows
        /\ \A k \in DOMAIN log : log[k] = IF open = "logs" /\ k = LogKey THEN Fresh ELSE Closed
    BY DEF PanelInit
  <1>4. /\ IsCell(Fresh) /\ IsCell(Closed) /\ ~ IsAnswered(Fresh) /\ ~ IsAnswered(Closed)
        /\ ~ Quiet(Fresh) /\ Fresh.data = {} /\ Closed.data = {}
    BY Stages DEF IsCell, IsAnswered, Fresh, Closed, Quiet
  <1>5. PanelTypes
    BY <1>1, <1>2, <1>3, <1>4 DEF PanelTypes
  <1>6. /\ open = "health" => Expects("blast") /\ Expects("history")
        /\ open = "drift" => Expects("events")
    BY NewRequest DEF PanelInit, AsksAnew, Expects
  <1>7. open = "logs" => ~ Quiet(log[LogKey])
    BY <1>1, <1>3, <1>4 DEF LogKey
  <1> QED BY <1>1, <1>2, <1>5, <1>6, <1>7 DEF PanelStands

\* What the invariant says of a tab at rest.
LEMMA PanelTells ==
    ASSUME PanelTypes, PanelStands
    PROVE  PanelIsTrue
  <1> SUFFICES ASSUME requests = {}, \A k \in DOMAIN log : Quiet(log[k]), ~ overlapped, ~ failed
               PROVE  CASE open = "health" -> HealthIsTrue
                        [] open = "drift"  -> DriftIsTrue
                        [] open = "logs"   -> LogIsTrue
    BY DEF PanelIsTrue
  <1>1. \A kind : ~ Expects(kind)
    BY DEF Expects
  <1>2. CASE open = "health"
    BY <1>1, <1>2 DEF PanelStands, HealthIsTrue
  <1>3. CASE open = "drift"
    BY <1>1, <1>3 DEF PanelStands, DriftIsTrue
  <1>4. CASE open = "logs"
    <2>1. LogKey \in DOMAIN log
      BY DEF LogKey, PanelTypes
    <2>2. paused \/ log[LogKey].data = {Callers[LogKey]}
      BY <1>4, <2>1 DEF PanelStands, PanelTypes, Loaded
    <2>3. paused \/ LogAgents = Callers[LogKey]
      BY <2>2 DEF LogAgents, LogShown, Data
    <2> QED BY <1>4, <2>3 DEF LogIsTrue, LogEntries
  <1> QED BY <1>2, <1>3, <1>4 DEF PanelTypes

-----------------------------------------------------------------------------
(* The page of servers.                                                    *)

PageInv ==
    /\ IF part = "servers" THEN TableTypes /\ ListStands /\ Stays ELSE lost /\ vanished
    /\ IF part = "panels" THEN PanelTypes /\ PanelStands ELSE failed

\* A step of the page is one of its list, of a panel, or of neither.
LEMMA PageSteps ==
    ASSUME PageInv, [Next]_vars
    PROVE  PageInv'
  <1>1. /\ (part = "servers" /\ TableNext) \/ UNCHANGED tableVars
        /\ (part = "panels" /\ PanelNext) \/ UNCHANGED panelVars
        /\ part' = part
    BY DEF Next, vars
  <1>2. CASE part = "servers"
    <2>1. failed'
      BY <1>1, <1>2 DEF PageInv, panelVars
    <2>2. TableTypes' /\ ListStands' /\ Stays'
      <3>1. CASE TableNext
        BY <1>2, <3>1, TableSteps DEF PageInv
      <3>2. CASE UNCHANGED tableVars
        <4>1. TableTypes' /\ ListStands'
          BY <1>2, <3>2, JobsKeep DEF PageInv, tableVars
        <4>2. NamesIn(place)' = NamesIn(place)
          BY <3>2 DEF NamesIn, WasChecked, tableVars
        <4> QED BY <1>2, <3>2, <4>1, <4>2, StaysStill DEF PageInv, tableVars
      <3> QED BY <1>1, <3>1, <3>2
    <2> QED BY <1>1, <1>2, <2>1, <2>2 DEF PageInv
  <1>3. CASE part = "panels"
    <2>1. lost' /\ vanished'
      BY <1>1, <1>3 DEF PageInv, tableVars
    <2>2. PanelTypes' /\ PanelStands'
      <3>1. CASE PanelNext
        BY <1>3, <3>1, PanelSteps DEF PageInv
      <3>2. CASE UNCHANGED panelVars
        BY <1>3, <3>2 DEF PageInv, panelVars, PanelTypes, PanelStands, Expects, LogKey
      <3> QED BY <1>1, <3>1, <3>2
    <2> QED BY <1>1, <1>3, <2>1, <2>2 DEF PageInv
  <1>4. CASE part \notin {"servers", "panels"}
    BY <1>1, <1>4 DEF PageInv, tableVars, panelVars
  <1> QED BY <1>2, <1>3, <1>4

\* At rest the page of servers shows what the API says now: its list, with the status of
\* each server, also after additions, removals, discoveries, checks and switches of
\* project that overlapped with polls and with each other; and each panel of a server.
\* With a server selected it goes blank only if that is gone otherwise than by the page's
\* own removal, or was selected after the click that removes it.
THEOREM PagesTell == Spec => []PagesAreTrue
  <1>1. Init => PageInv
    <2>1. CASE part = "servers" /\ TableInit /\ PanelsRest
      BY <2>1, TableStarts DEF PageInv, PanelsRest
    <2>2. CASE part = "panels" /\ PanelInit /\ TableRests
      BY <2>2, PanelStarts DEF PageInv, TableRests
    <2>3. CASE part \notin {"servers", "panels"} /\ TableRests /\ PanelsRest
      BY <2>3 DEF PageInv, TableRests, PanelsRest
    <2> QED BY <2>1, <2>2, <2>3 DEF Init
  <1>2. PageInv => PagesAreTrue
    <2>1. PageInv => ListIsTrue /\ NeverBlank
      BY TableTells DEF PageInv, ListIsTrue, NeverBlank
    <2>2. PageInv => PanelIsTrue
      BY PanelTells DEF PageInv, PanelIsTrue
    <2> QED BY <2>1, <2>2 DEF PagesAreTrue
  <1> QED BY <1>1, <1>2, PageSteps, PTL DEF Spec


-----------------------------------------------------------------------------
(* The list of agents. *)

\* The greatest of a finite set of numbers.
IsGreatest(m, T) == m \in T /\ \A n \in T : n <= m

\* Numbers from 0, so that a finite set of them has a greatest.
Numbers(S) == S \subseteq Nat

\* A family of subsets, and one of them that has no other below it.
Family(odd, S) == odd \subseteq SUBSET S /\ odd # {}
Least(T, odd) == T \in odd /\ \A U \in odd : ~ (U \subseteq T /\ U # T)

\* Of finitely many indices, a family of subsets has a smallest.
LEMMA SmallestBadIndex ==
    ASSUME NEW S, IsFiniteSet(S), NEW odd, Family(odd, S)
    PROVE  \E T : Least(T, odd)
  <1>1. IsWellFoundedOn(StrictSubsetOrdering(S), FiniteSubsetsOf(S)) /\ odd \subseteq FiniteSubsetsOf(S)
    BY FS_StrictSubsetOrderingWellFounded, FS_FiniteSubsetsOfFinite DEF Family
  <1>2. PICK T \in odd : \A U \in odd : ~ (<<U, T>> \in StrictSubsetOrdering(S))
    BY <1>1, WFMin DEF Family
  <1>3. ASSUME NEW U \in odd, U \subseteq T, U # T
        PROVE  FALSE
    <2>1. PICK p : p = <<U, T>>
      OBVIOUS
    <2>2. p \in (SUBSET S) \X (SUBSET S) /\ p[1] = U /\ p[2] = T
      BY <2>1 DEF Family
    <2>3. p \in StrictSubsetOrdering(S)
      BY <1>3, <2>2 DEF StrictSubsetOrdering
    <2> QED BY <1>2, <2>1, <2>3
  <1> QED BY <1>3 DEF Least

\* Finitely many numbers have a greatest.
LEMMA HasGreatest ==
    ASSUME NEW S, IsFiniteSet(S), Numbers(S), S # {}
    PROVE  IsGreatest(Max(S), S)
  <1> DEFINE good(T) == T # {} => \E m : IsGreatest(m, T)
  <1>1. PICK odd : odd = {T \in SUBSET S : ~ good(T)}
    OBVIOUS
  <1>2. odd = {}
    <2>1. SUFFICES ASSUME odd # {} PROVE FALSE
      OBVIOUS
    <2>2. PICK T : Least(T, odd)
      <3>1. Family(odd, S)
        BY <1>1, <2>1 DEF Family
      <3> HIDE DEF good
      <3> QED BY <3>1, SmallestBadIndex
    <2>3. PICK x : x \in T
      BY <1>1, <2>2 DEF Least
    <2>4. good(T \ {x}) /\ T \in SUBSET Nat
      BY <1>1, <2>2, <2>3 DEF Numbers, Least
    <2>5. CASE T \ {x} = {}
      <3>1. \A n \in T : n = x /\ x \in Nat
        BY <2>3, <2>4, <2>5
      <3>2. IsGreatest(x, T)
        BY <2>3, <3>1 DEF IsGreatest
      <3> QED BY <1>1, <2>2, <3>2 DEF Least
    <2>6. CASE T \ {x} # {}
      <3>1. PICK m : IsGreatest(m, T \ {x})
        BY <2>4, <2>6
      <3>2. m \in Nat /\ x \in Nat /\ \A n \in T : n \in Nat
        BY <2>3, <2>4, <3>1 DEF IsGreatest
      <3>3. IsGreatest(m, T) \/ IsGreatest(x, T)
        BY <2>3, <3>1, <3>2 DEF IsGreatest
      <3> QED BY <1>1, <2>2, <3>3 DEF Least
    <2> QED BY <2>5, <2>6
  <1>3. PICK m : IsGreatest(m, S)
    BY <1>1, <1>2
  <1>4. \A n \in S : m >= n
    BY <1>3 DEF IsGreatest
  <1>5. Max(S) \in S /\ \A n \in S : Max(S) >= n
    BY <1>3, <1>4 DEF Max, IsGreatest
  <1> QED BY <1>5 DEF IsGreatest

\* The calls of some sessions, of which each has a number.
CallsOver(T, f) == UNION {Each(j, f[j]) : j \in T}
\* One index more than some of them, and a number for each index.
IsMore(i, T, I) == T \subseteq I /\ i \in I /\ i \notin T
Numbered(f, I) == IsFiniteSet(I) /\ f \in [I -> Nat]

\* One session more adds its calls.
LEMMA CallsOfOneMore ==
    ASSUME NEW I, NEW f, Numbered(f, I), NEW T, NEW i, IsMore(i, T, I)
    PROVE  /\ Cardinality(CallsOver(T \cup {i}, f)) = Cardinality(CallsOver(T, f)) + f[i]
           /\ CallsOver({}, f) = {}
  <1>1. f[i] \in Nat /\ IsFiniteSet(T) /\ T \in SUBSET I /\ i \in I /\ i \notin T
    BY FS_Subset DEF Numbered, IsMore
  <1>2. ASSUME NEW j \in I
        PROVE  IsFiniteSet(Each(j, f[j])) /\ Cardinality(Each(j, f[j])) = f[j]
    <2>1. PICK n : n = f[j]
      OBVIOUS
    <2>2. n \in Nat
      BY <2>1 DEF Numbered
    <2>3. IsFiniteSet(1 .. n) /\ Cardinality(1 .. n) = n
      BY <2>2, FS_Interval
    <2>4. IsFiniteSet({j}) /\ Cardinality({j}) = 1
      BY FS_Singleton
    <2>5. /\ IsFiniteSet({j} \X (1 .. n))
          /\ Cardinality({j} \X (1 .. n)) = Cardinality({j}) * Cardinality(1 .. n)
      BY <2>3, <2>4, FS_Product
    <2>6. Cardinality({j} \X (1 .. n)) = n
      BY <2>2, <2>3, <2>4, <2>5
    <2> QED BY <2>1, <2>5, <2>6 DEF Each
  <1>3. PICK A, B : A = CallsOver(T, f) /\ B = Each(i, f[i])
    OBVIOUS
  <1>4. IsFiniteSet(A)
    <2>1. PICK N : N = {Each(j, f[j]) : j \in T}
      OBVIOUS
    <2>2. IsFiniteSet(N)
      <3>1. PICK g : g = [j \in T |-> Each(j, f[j])]
        OBVIOUS
      <3>2. g \in Surjection(T, N)
        BY <2>1, <3>1 DEF Surjection
      <3> QED BY <1>1, <3>2, FS_Surjection
    <2>3. \A F \in N : IsFiniteSet(F)
      BY <1>1, <1>2, <2>1
    <2>4. IsFiniteSet(UNION N)
      BY <2>2, <2>3, FS_UNION
    <2> QED BY <1>3, <2>1, <2>4 DEF CallsOver
  <1>5. IsFiniteSet(B) /\ Cardinality(B) = f[i]
    BY <1>1, <1>2, <1>3
  <1>6. A \cap B = {} /\ CallsOver(T \cup {i}, f) = A \cup B
    BY <1>1, <1>3 DEF CallsOver, Each
  <1>7. Cardinality(A \cup B) = Cardinality(A) + Cardinality(B) - Cardinality(A \cap B)
    BY <1>4, <1>5, FS_Union
  <1>8. Cardinality(A \cap B) = 0 /\ Cardinality(A) \in Nat
    BY <1>4, <1>6, FS_EmptySet, FS_CardinalityType
  <1>9. CallsOver({}, f) = {}
    BY DEF CallsOver
  <1>10. Cardinality(A \cup B) = Cardinality(A) + f[i]
    BY <1>1, <1>5, <1>7, <1>8
  <1> QED BY <1>3, <1>6, <1>9, <1>10

\* The numbers of an agent, of the sessions of a list with these indices.
SumHad(T, seq) == IF T = {} THEN NoWork ELSE SumOver(T, seq)

\* Counting one session more is counting all of them.
LEMMA CountsOneMore ==
    ASSUME NEW seq, IsWork(seq), NEW T \in SUBSET (1 .. Len(seq)), NEW i \in 1 .. Len(seq), i \notin T
    PROVE  Count(SumHad(T, seq), seq[i]) = SumOver(T \cup {i}, seq)
  <1>0. PICK I : I = 1 .. Len(seq)
    OBVIOUS
  <1>1. /\ \A j \in I : /\ seq[j].calls \in Nat /\ seq[j].failed \in Nat /\ seq[j].at \in Nat
                        /\ seq[j].healthy \in BOOLEAN
        /\ I \in SUBSET Nat /\ IsFiniteSet(I) /\ T \in SUBSET I /\ i \in I
    <2>1. Len(seq) \in Nat
      BY DEF IsWork
    <2>2. IsFiniteSet(I)
      BY <1>0, <2>1, FS_Interval
    <2> QED BY <1>0, <2>1, <2>2 DEF IsWork
  <1>2. IsFiniteSet(T) /\ Cardinality(T) \in Nat
    BY <1>1, FS_Subset, FS_CardinalityType
  <1>3. Cardinality(T \cup {i}) = Cardinality(T) + 1
    BY <1>2, FS_AddElement
  <1>4. PICK calls, fails : calls = [j \in I |-> seq[j].calls] /\ fails = [j \in I |-> seq[j].failed]
    OBVIOUS
  <1>5. Numbered(calls, I) /\ Numbered(fails, I)
    BY <1>1, <1>4 DEF Numbered
  <1>6. /\ Cardinality(CallsOver(T \cup {i}, calls)) = Cardinality(CallsOver(T, calls)) + seq[i].calls
        /\ Cardinality(CallsOver(T \cup {i}, fails)) = Cardinality(CallsOver(T, fails)) + seq[i].failed
        /\ CallsOver({}, calls) = {} /\ CallsOver({}, fails) = {}
    <2>1. calls[i] = seq[i].calls /\ fails[i] = seq[i].failed
      BY <1>1, <1>4
    <2>2. IsMore(i, T, I)
      BY <1>1 DEF IsMore
    <2>3. /\ Cardinality(CallsOver(T \cup {i}, calls)) = Cardinality(CallsOver(T, calls)) + calls[i]
          /\ CallsOver({}, calls) = {}
      BY <1>5, <2>2, CallsOfOneMore
    <2>4. /\ Cardinality(CallsOver(T \cup {i}, fails)) = Cardinality(CallsOver(T, fails)) + fails[i]
          /\ CallsOver({}, fails) = {}
      BY <1>5, <2>2, CallsOfOneMore
    <2> QED BY <2>1, <2>3, <2>4
  <1>7. \A S \in SUBSET I : /\ UNION {Each(j, seq[j].calls) : j \in S} = CallsOver(S, calls)
                            /\ UNION {Each(j, seq[j].failed) : j \in S} = CallsOver(S, fails)
    BY <1>4 DEF CallsOver
  <1>8. PICK H, K : H = {j \in T : seq[j].healthy} /\ K = {j \in T \cup {i} : seq[j].healthy}
    OBVIOUS
  <1>8a. Cardinality(K) = Cardinality(H) + (IF seq[i].healthy THEN 1 ELSE 0)
    <2>2. IsFiniteSet(H) /\ i \notin H /\ Cardinality(H) \in Nat
      <3>1. H \in SUBSET T
        BY <1>8
      <3> QED BY <1>2, <1>8, <3>1, FS_Subset, FS_CardinalityType
    <2>3. CASE seq[i].healthy
      <3>1. K = H \cup {i}
        BY <1>8, <2>3
      <3>2. Cardinality(H \cup {i}) = Cardinality(H) + 1
        BY <2>2, FS_AddElement
      <3> QED BY <2>3, <3>1, <3>2
    <2>4. CASE ~ seq[i].healthy
      <3>1. K = H
        BY <1>8, <2>4
      <3> QED BY <2>2, <2>4, <3>1
    <2> QED BY <2>3, <2>4
  <1>9. PICK V, W : V = UNION {seq[j].servers : j \in T} /\ W = UNION {seq[j].servers : j \in T \cup {i}}
    OBVIOUS
  <1>9a. W = V \cup seq[i].servers
    <2>1. \A x : x \in W <=> x \in V \/ x \in seq[i].servers
      <3>1. \A x : x \in W <=> \E j \in T \cup {i} : x \in seq[j].servers
        BY <1>9
      <3>2. \A x : x \in V <=> \E j \in T : x \in seq[j].servers
        BY <1>9
      <3> QED BY <3>1, <3>2
    <2> QED BY <2>1
  <1>10. PICK A, B : A = {seq[j].at : j \in T} /\ B = {seq[j].at : j \in T \cup {i}}
    OBVIOUS
  <1>11. Max(B) = IF T = {} THEN seq[i].at ELSE Later(seq[i].at, Max(A))
    <2>1. B = A \cup {seq[i].at} /\ Numbers(A) /\ Numbers(B) /\ B # {} /\ (A = {} <=> T = {})
      BY <1>1, <1>10 DEF Numbers
    <2>2. IsFiniteSet(A) /\ IsFiniteSet(B)
      <3>1. PICK g : g = [j \in T |-> seq[j].at]
        OBVIOUS
      <3>2. g \in Surjection(T, A)
        BY <1>10, <3>1 DEF Surjection
      <3>3. IsFiniteSet(A)
        BY <1>2, <3>2, FS_Surjection
      <3> QED BY <2>1, <3>3, FS_AddElement
    <2>3. IsGreatest(Max(B), B)
      BY <2>1, <2>2, HasGreatest
    <2>4. CASE T = {}
      <3>1. B = {seq[i].at}
        BY <2>1, <2>4
      <3> QED BY <2>3, <2>4, <3>1 DEF IsGreatest
    <2>5. CASE T # {}
      <3>1. IsGreatest(Max(A), A)
        BY <2>1, <2>2, <2>5, HasGreatest
      <3>2. PICK m, n, at : m = Max(B) /\ n = Max(A) /\ at = seq[i].at
        OBVIOUS
      <3>3. m \in Nat /\ n \in Nat /\ at \in Nat
        BY <1>1, <2>1, <2>3, <3>1, <3>2 DEF IsGreatest, Numbers
      <3>4. n <= m /\ at <= m /\ (m = at \/ m \in A)
        BY <2>1, <2>3, <3>1, <3>2 DEF IsGreatest
      <3>5. m \in A => m <= n
        BY <3>1, <3>2 DEF IsGreatest
      <3>6. m = IF at > n THEN at ELSE n
        BY <3>3, <3>4, <3>5
      <3> QED BY <2>5, <3>2, <3>6 DEF Later
    <2> QED BY <2>4, <2>5
  <1>12. PICK sum : sum = SumHad(T, seq)
    OBVIOUS
  <1>13. /\ sum.sessions = Cardinality(T)
         /\ sum.calls = Cardinality(CallsOver(T, calls)) /\ sum.failed = Cardinality(CallsOver(T, fails))
         /\ sum.healthy = Cardinality(H)
         /\ sum.servers = V
         /\ Later(seq[i].at, sum.latest) = Max(B)
    <2>1. CASE T = {}
      <3>1. sum = NoWork
        BY <1>12, <2>1 DEF SumHad
      <3>2. Cardinality({}) = 0
        BY FS_EmptySet
      <3>3. H = {} /\ V = {}
        BY <1>8, <1>9, <2>1
      <3>4. Later(seq[i].at, 0) = seq[i].at
        BY <1>1 DEF Later
      <3> QED BY <1>6, <1>11, <2>1, <3>1, <3>2, <3>3, <3>4 DEF NoWork
    <2>2. CASE T # {}
      <3>1. sum = SumOver(T, seq)
        BY <1>12, <2>2 DEF SumHad
      <3>2. /\ UNION {Each(j, seq[j].calls) : j \in T} = CallsOver(T, calls)
            /\ UNION {Each(j, seq[j].failed) : j \in T} = CallsOver(T, fails)
        BY <1>1, <1>7
      <3> QED BY <1>8, <1>9, <1>10, <1>11, <2>2, <3>1, <3>2 DEF SumOver
    <2> QED BY <2>1, <2>2
  <1>14. PICK U : U = T \cup {i}
    OBVIOUS
  <1>15. SumOver(U, seq) =
            [sessions |-> Cardinality(T) + 1,
             calls    |-> Cardinality(CallsOver(T, calls)) + seq[i].calls,
             failed   |-> Cardinality(CallsOver(T, fails)) + seq[i].failed,
             healthy  |-> Cardinality(H) + (IF seq[i].healthy THEN 1 ELSE 0),
             servers  |-> V \cup seq[i].servers,
             latest   |-> Max(B)]
    <2>1. U \in SUBSET I
      BY <1>1, <1>14
    <2>2. /\ UNION {Each(j, seq[j].calls) : j \in U} = CallsOver(U, calls)
          /\ UNION {Each(j, seq[j].failed) : j \in U} = CallsOver(U, fails)
      BY <1>7, <2>1
    <2> QED BY <1>3, <1>6, <1>8, <1>8a, <1>9, <1>9a, <1>10, <1>14, <2>2 DEF SumOver
  <1> QED BY <1>12, <1>13, <1>14, <1>15 DEF Count

\* The summaries of some of the sessions of a list.
Had(a, T, seq) == {i \in T : a \in Credited(seq[i])}
\* What the list should say of some of the sessions.
Summed(T, seq) ==
    [a \in UNION {Credited(seq[i]) : i \in T} |-> SumOver(Had(a, T, seq), seq)]

\* Adding a session to what the list says of others is what it should say of them all.
LEMMA AddsOneMore ==
    ASSUME NEW seq, IsWork(seq), NEW S \in SUBSET (1 .. Len(seq)), NEW i \in S
    PROVE  Add(Summed(S \ {i}, seq), seq[i]) = Summed(S, seq)
  <1>1. PICK T, s, old, new : T = S \ {i} /\ s = seq[i] /\ old = Summed(T, seq) /\ new = Summed(S, seq)
    OBVIOUS
  <1>2. /\ DOMAIN old = UNION {Credited(seq[j]) : j \in T}
        /\ DOMAIN new = UNION {Credited(seq[j]) : j \in S}
        /\ \A a \in DOMAIN old : old[a] = SumOver(Had(a, T, seq), seq)
        /\ \A a \in DOMAIN new : new[a] = SumOver(Had(a, S, seq), seq)
        /\ new = [a \in DOMAIN new |-> new[a]]
    BY <1>1 DEF Summed
  <1>3. DOMAIN new = DOMAIN old \cup Credited(s)
    <2>1. \A a : a \in DOMAIN new <=> \E j \in S : a \in Credited(seq[j])
      BY <1>2
    <2>2. \A a : a \in DOMAIN old <=> \E j \in T : a \in Credited(seq[j])
      BY <1>2
    <2>3. \A a : a \in DOMAIN new <=> a \in DOMAIN old \/ a \in Credited(s)
      BY <1>1, <2>1, <2>2
    <2> QED BY <2>3
  <1>4. ASSUME NEW a \in DOMAIN new
        PROVE  new[a] = LET sum == IF a \in DOMAIN old THEN old[a] ELSE NoWork
                        IN  IF a \in Credited(s) THEN Count(sum, s) ELSE sum
    <2>1. PICK H : H = Had(a, T, seq)
      OBVIOUS
    <2>2. a \in DOMAIN old <=> H # {}
      BY <1>2, <2>1 DEF Had
    <2>3. PICK sum : sum = IF a \in DOMAIN old THEN old[a] ELSE NoWork
      OBVIOUS
    <2>4. sum = SumHad(H, seq)
      BY <1>2, <2>1, <2>2, <2>3 DEF SumHad
    <2>5. CASE a \in Credited(s)
      <3>1. Had(a, S, seq) = H \cup {i}
        BY <1>1, <2>1, <2>5 DEF Had
      <3>2. H \in SUBSET (1 .. Len(seq)) /\ i \in 1 .. Len(seq) /\ i \notin H
        BY <1>1, <2>1 DEF Had
      <3>3. Count(SumHad(H, seq), seq[i]) = SumOver(H \cup {i}, seq)
        BY <3>2, CountsOneMore
      <3> QED BY <1>1, <1>2, <2>3, <2>4, <2>5, <3>1, <3>3
    <2>6. CASE a \notin Credited(s)
      <3>1. Had(a, S, seq) = H
        BY <1>1, <2>1, <2>6 DEF Had
      <3>2. a \in DOMAIN old
        BY <1>3, <2>6
      <3> QED BY <1>2, <2>1, <2>3, <2>6, <3>1, <3>2
    <2> QED BY <2>5, <2>6
  <1>5. PICK f : f = Add(old, s)
    OBVIOUS
  <1>6. f = [a \in DOMAIN old \cup Credited(s) |->
                LET sum == IF a \in DOMAIN old THEN old[a] ELSE NoWork
                IN  IF a \in Credited(s) THEN Count(sum, s) ELSE sum]
    BY <1>5 DEF Add
  <1>7. f = new
    BY <1>2, <1>3, <1>4, <1>6
  <1> QED BY <1>1, <1>5, <1>7

\* What the page makes of a list is what the list says of each agent.
LEMMA AggregateTells ==
    ASSUME NEW seq, IsWork(seq)
    PROVE  aggregateAgents(seq) = Summed(1 .. Len(seq), seq)
  <1> DEFINE I == 1 .. Len(seq)
             Onward(g) == [T \in SUBSET I |-> IF T = {} THEN NoSummaries
                                            ELSE Add(g[T \ {Max(T)}], seq[Max(T)])]
             h == [T \in SUBSET I |-> Summed(T, seq)]
  <1>1. Len(seq) \in Nat /\ DOMAIN seq = I
    BY DEF IsWork
  <1>2. IsFiniteSet(I) /\ I \subseteq Nat
    BY <1>1, FS_Interval
  <1>3. \A T \in SUBSET I : T # {} => Max(T) \in T
    <2>1. ASSUME NEW T \in SUBSET I, T # {}
          PROVE  Max(T) \in T
      <3>1. IsFiniteSet(T) /\ Numbers(T)
        BY <1>2, FS_Subset DEF Numbers
      <3> QED BY <2>1, <3>1, HasGreatest DEF IsGreatest
    <2> QED BY <2>1
  <1>4. h = Onward(h)
    <2>1. ASSUME NEW T \in SUBSET I, T # {}
          PROVE  h[T] = Add(h[T \ {Max(T)}], seq[Max(T)])
      <3>1. PICK i : i = Max(T) /\ i \in T
        BY <1>3, <2>1
      <3>2. Add(Summed(T \ {i}, seq), seq[i]) = Summed(T, seq)
        BY <3>1, AddsOneMore
      <3>3. T \ {i} \in SUBSET I
        OBVIOUS
      <3> QED BY <3>1, <3>2, <3>3
    <2>2. h[{}] = NoSummaries
      BY DEF Summed, NoSummaries
    <2> QED BY <2>1, <2>2
  <1>5. ASSUME NEW g, g = Onward(g)
        PROVE  g = h
    <2>0. PICK odd : odd = {T \in SUBSET I : g[T] # h[T]}
      OBVIOUS
    <2>1. SUFFICES ASSUME odd # {} PROVE FALSE
      <3>1. \A T \in SUBSET I : g[T] = h[T]
        BY <2>0, <2>1
      <3>2. g = [T \in SUBSET I |-> g[T]]
        BY <1>5
      <3> QED BY <3>1, <3>2
    <2>2. PICK T : Least(T, odd)
      <3>1. Family(odd, I)
        BY <2>0, <2>1 DEF Family
      <3> HIDE DEF I, h, Onward
      <3> QED BY <1>2, <3>1, SmallestBadIndex
    <2>3. T # {} /\ T \in SUBSET I
      <3>1. g[{}] = NoSummaries /\ h[{}] = NoSummaries
        BY <1>4, <1>5
      <3> QED BY <2>0, <2>2, <3>1 DEF Least
    <2>4. PICK i : i = Max(T) /\ i \in T
      BY <1>3, <2>3
    <2>5. g[T \ {i}] = h[T \ {i}]
      <3>1. PICK U : U = T \ {i}
        OBVIOUS
      <3>2. U \in SUBSET I /\ U \notin odd
        BY <2>2, <2>3, <2>4, <3>1 DEF Least
      <3> HIDE DEF I, h, Onward
      <3> QED BY <2>0, <3>1, <3>2
    <2>6. g[T] = Add(g[T \ {i}], seq[i])
      BY <1>5, <2>3, <2>4
    <2>7. h[T] = Add(h[T \ {i}], seq[i])
      BY <1>4, <2>3, <2>4
    <2> QED BY <2>0, <2>2, <2>5, <2>6, <2>7 DEF Least
  <1>6. aggregateAgents(seq) = (CHOOSE g : g = Onward(g))[I]
    BY <1>1 DEF aggregateAgents, FoldLeft, MapThenFoldSet
  <1>7. (CHOOSE g : g = Onward(g)) = h
    <2> HIDE DEF h
    <2> QED BY <1>4, <1>5
  <1> QED BY <1>6, <1>7

\* What the API has is what it had at first, and what has come since.
PastGrew ==
    /\ moves \in Nat /\ moves <= MaxMoves
    /\ \E h \in Happened, n \in 0 .. moves : \E c \in [1 .. n -> Coming] : past = h \o c
\* What is on its way says what the API has, and what is shown is what it said; unless
\* something has happened since.
WindowTells(w) ==
    /\ IsAnswered(sessions[w]) => sessions[w].fetch.data = list_sessions(past, w)
    /\ w = window /\ Quiet(sessions[w]) => sessions[w].data = {list_sessions(past, w)}
\* The cells say what the API has, unless something has happened since.
AgentInv ==
    /\ PastGrew
    /\ window \in Lookbacks /\ DOMAIN sessions = Lookbacks
    /\ \A w \in Lookbacks : IsCell(sessions[w])
    /\ \A w \in Lookbacks \ behind : WindowTells(w)

\* It holds when the page is opened, ...
LEMMA AgentStarts ==
    ASSUME AgentInit
    PROVE  AgentInv
  <1>1. PICK h \in Happened : past = h
    BY DEF AgentInit
  <1>2. PICK c : c = <<>>
    OBVIOUS
  <1>3. c \in [1 .. 0 -> Coming] /\ h \o c = h
    <2>1. h \in Seq(UNION {Range(g) : g \in Happened})
      BY AgentAssumption
    <2> QED BY <1>2, <2>1
  <1>4. PastGrew
    <2>1. PICK n : n = 0
      OBVIOUS
    <2>2. n \in 0 .. moves /\ moves \in Nat /\ moves <= MaxMoves
      BY <2>1, AgentAssumption DEF AgentInit
    <2>3. c \in [1 .. n -> Coming] /\ past = h \o c
      BY <1>1, <1>3, <2>1
    <2> QED BY <2>2, <2>3 DEF PastGrew
  <1>5. /\ IsCell(Fresh) /\ IsCell(Closed) /\ ~ Quiet(Fresh) /\ ~ IsAnswered(Fresh) /\ ~ IsAnswered(Closed)
    BY Stages DEF IsCell, Fresh, Closed, Quiet, IsAnswered, Sent, Idle
  <1>6. \A w \in Lookbacks : sessions[w] = IF w = window THEN Fresh ELSE Closed
    BY DEF AgentInit
  <1> QED BY <1>4, <1>5, <1>6 DEF AgentInv, AgentInit, WindowTells

\* A click, of which there are not too many.
LEMMA MovesKeep ==
    ASSUME PastGrew, AgentMove \/ moves' = moves, past' = past
    PROVE  PastGrew'
  <1>1. moves' \in Nat /\ moves' <= MaxMoves /\ moves <= moves' /\ moves \in Nat
    BY AgentAssumption DEF PastGrew, AgentMove
  <1>2. \A n \in 0 .. moves : n \in 0 .. moves'
    BY <1>1
  <1> QED BY <1>1, <1>2 DEF PastGrew

\* One window is asked for, answered, or forgotten.
LEMMA WindowKeeps ==
    ASSUME AgentInv, NEW w \in Lookbacks, NEW c, IsCell(c),
           sessions' = [sessions EXCEPT ![w] = c], past' = past, PastGrew',
           window' \in Lookbacks, window' = window \/ (window' = w /\ ~ Quiet(c)),
           Lookbacks \ behind' \subseteq (Lookbacks \ behind) \cup {w},
           w \notin behind' =>
              /\ IsAnswered(c) => c.fetch.data = list_sessions(past, w)
              /\ window' = w /\ Quiet(c) => c.data = {list_sessions(past, w)}
    PROVE  AgentInv'
  <1>1. /\ DOMAIN sessions' = Lookbacks /\ sessions'[w] = c
        /\ \A v \in Lookbacks : v # w => sessions'[v] = sessions[v]
    BY DEF AgentInv
  <1>2. \A v \in Lookbacks : IsCell(sessions'[v])
    BY <1>1 DEF AgentInv
  <1>3. ASSUME NEW v \in Lookbacks \ behind'
        PROVE  WindowTells(v)'
    <2>1. CASE v = w
      BY <1>1, <1>3, <2>1 DEF WindowTells
    <2>2. CASE v # w
      <3>1. WindowTells(v) /\ sessions'[v] = sessions[v]
        BY <1>1, <1>3, <2>2 DEF AgentInv
      <3> QED BY <2>2, <3>1 DEF WindowTells
    <2> QED BY <2>1, <2>2
  <1> QED BY <1>1, <1>2, <1>3 DEF AgentInv

\* ... and after every step.
LEMMA AgentSteps ==
    ASSUME AgentInv, AgentNext
    PROVE  AgentInv'
  <1>1. ASSUME UNCHANGED <<past, window, sessions, behind>>, AgentMove
        PROVE  AgentInv'
    BY <1>1, MovesKeep DEF AgentInv, WindowTells
  <1>2. CASE \/ \E a \in AgentsListed : SelectAgent(a)
             \/ \E t \in {"about", "sessions", "topology"} : OpenAgentTab(t)
             \/ \E f \in {"all", "clean", "failed"} : FilterSessions(f)
             \/ CloseAgent \/ ExpandRail
    BY <1>1, <1>2 DEF SelectAgent, OpenAgentTab, FilterSessions, CloseAgent, ExpandRail
  <1>3. ASSUME NEW w \in Lookbacks, SetWindow(w)
        PROVE  AgentInv'
    <2>1. PICK c, d : c = sessions[w] /\ d = Joining(c)
      OBVIOUS
    <2>2. IsCell(d) /\ ~ Quiet(d) /\ (IsAnswered(d) => d = c)
      BY <2>1, JoiningCell DEF AgentInv
    <2>3. PastGrew'
      BY <1>3, MovesKeep DEF SetWindow, AgentInv
    <2>4. /\ sessions' = [sessions EXCEPT ![w] = d] /\ window' = w
          /\ past' = past /\ behind' = behind
      BY <1>3, <2>1 DEF SetWindow
    <2>5. w \notin behind => (IsAnswered(d) => d.fetch.data = list_sessions(past, w))
      BY <2>1, <2>2 DEF AgentInv, WindowTells
    <2> QED BY <2>2, <2>3, <2>4, <2>5, WindowKeeps
  <1>4. CASE PollSessions
    <2>1. PICK c, d : c = sessions[window] /\ d = Asking(c)
      OBVIOUS
    <2>2. IsCell(d) /\ ~ Quiet(d) /\ ~ IsAnswered(d)
      BY <2>1, CellSteps, Stages DEF AgentInv, Quiet, IsAnswered
    <2>3. PastGrew'
      BY <1>4, MovesKeep DEF PollSessions, AgentInv
    <2>4. /\ sessions' = [sessions EXCEPT ![window] = d] /\ window' = window /\ window \in Lookbacks
          /\ past' = past /\ behind' = behind
      BY <1>4, <2>1 DEF PollSessions, AgentView, WindowCell, AgentInv
    <2> QED BY <2>2, <2>3, <2>4, WindowKeeps
  <1>5. ASSUME NEW w \in Lookbacks, SessionsRead(w)
        PROVE  AgentInv'
    <2>0. PICK told : told = list_sessions(past, w)
      OBVIOUS
    <2>1. PICK c, d : c = sessions[w] /\ d = Reading(c, told)
      OBVIOUS
    <2>2. IsCell(d) /\ ~ Quiet(d) /\ d.fetch.data = told
      <3>1. d.fetch = Answered(told) /\ IsCell(d)
        BY <2>1, CellSteps DEF AgentInv
      <3>2. Answered(told).stage = "answered" /\ Answered(told).data = told
        BY Stages
      <3> QED BY <3>1, <3>2, Stages DEF Quiet
    <2>3. PastGrew'
      BY <1>5, MovesKeep DEF SessionsRead, AgentInv
    <2>4. /\ sessions' = [sessions EXCEPT ![w] = d] /\ window' = window /\ window \in Lookbacks
          /\ past' = past /\ behind' = behind \ {w}
      BY <1>5, <2>0, <2>1 DEF SessionsRead, AgentView, AgentInv
    <2> QED BY <2>0, <2>2, <2>3, <2>4, WindowKeeps
  <1>6. ASSUME NEW w \in Lookbacks, SessionsArrive(w)
        PROVE  AgentInv'
    <2>1. PICK c, d : c = sessions[w] /\ d = Arrived(c)
      OBVIOUS
    <2>2. IsCell(d) /\ ~ IsAnswered(d) /\ d.data = {c.fetch.data}
      BY <2>1, CellSteps, Stages DEF AgentInv, Quiet, IsAnswered
    <2>3. PastGrew'
      BY <1>6, MovesKeep DEF SessionsArrive, AgentInv
    <2>4. /\ sessions' = [sessions EXCEPT ![w] = d] /\ window' = window /\ window \in Lookbacks
          /\ past' = past /\ behind' = behind /\ IsAnswered(c)
      BY <1>6, <2>1 DEF SessionsArrive, AgentView, AgentInv
    <2>5. w \notin behind => d.data = {list_sessions(past, w)}
      BY <2>1, <2>2, <2>4 DEF AgentInv, WindowTells
    <2> QED BY <2>2, <2>3, <2>4, <2>5, WindowKeeps
  <1>7. ASSUME NEW w \in Lookbacks, SessionsFail(w)
        PROVE  AgentInv'
    <2>1. PICK c, d : c = sessions[w] /\ d = Lost(c)
      OBVIOUS
    <2>2. IsCell(d)
      BY <2>1, CellSteps DEF AgentInv
    <2>3. PastGrew'
      BY <1>7, MovesKeep DEF SessionsFail, AgentInv
    <2>4. /\ sessions' = [sessions EXCEPT ![w] = d] /\ window' = window /\ window \in Lookbacks
          /\ past' = past /\ behind' = behind \cup {w}
      BY <1>7, <2>1 DEF SessionsFail, AgentView, AgentInv
    <2> QED BY <2>2, <2>3, <2>4, WindowKeeps
  <1>8. ASSUME NEW s \in Coming, SessionHappens(s)
        PROVE  AgentInv'
    <2>1. /\ past' = Append(past, s) /\ behind' = Lookbacks /\ UNCHANGED <<window, sessions>>
          /\ moves < MaxMoves /\ moves' = moves + 1
      BY <1>8 DEF SessionHappens, AgentView, AgentMove
    <2>2. PICK h \in Happened, n \in 0 .. moves : \E c \in [1 .. n -> Coming] : past = h \o c
      BY DEF AgentInv, PastGrew
    <2>3. PICK c \in [1 .. n -> Coming] : past = h \o c
      BY <2>2
    <2>4. PICK R : R = UNION {Range(g) : g \in Happened}
      OBVIOUS
    <2>5. h \in Seq(R \cup Coming) /\ c \in Seq(R \cup Coming) /\ s \in R \cup Coming /\ n \in Nat
      <3>1. h \in Seq(R)
        BY <2>4, AgentAssumption
      <3>2. n \in Nat
        BY DEF AgentInv, PastGrew
      <3>3. c \in Seq(Coming)
        BY <3>2
      <3> QED BY <3>1, <3>2, <3>3
    <2>6. PICK d : d = Append(c, s)
      OBVIOUS
    <2>7. d \in [1 .. n + 1 -> Coming]
      <3>1. c \in Seq(Coming) /\ Len(c) = n
        BY <2>5
      <3>2. d \in Seq(Coming) /\ Len(d) = n + 1
        BY <2>6, <3>1
      <3> QED BY <3>2
    <2>8. past' = h \o d
      <3>1. Append(h \o c, s) = h \o Append(c, s)
        <4>1. PICK Q : Q = R \cup Coming
          OBVIOUS
        <4>2. h \in Seq(Q) /\ c \in Seq(Q) /\ s \in Q
          BY <2>5, <4>1
        <4>3. <<s>> \in Seq(Q) /\ h \o c \in Seq(Q)
          BY <4>2
        <4>4. (h \o c) \o <<s>> = h \o (c \o <<s>>)
          BY <4>2, <4>3, ConcatAssociative
        <4>5. Append(h \o c, s) = (h \o c) \o <<s>> /\ Append(c, s) = c \o <<s>>
          BY <4>2, <4>3, AppendIsConcat
        <4> QED BY <4>4, <4>5
      <3> QED BY <2>1, <2>3, <2>6, <3>1
    <2>9. n + 1 \in 0 .. moves' /\ moves' \in Nat /\ moves' <= MaxMoves
      BY <2>1, <2>5, AgentAssumption DEF AgentInv, PastGrew
    <2>10. PastGrew'
      BY <2>7, <2>8, <2>9 DEF PastGrew
    <2> QED BY <2>1, <2>10 DEF AgentInv
  <1> QED BY <1>2, <1>3, <1>4, <1>5, <1>6, <1>7, <1>8 DEF AgentNext

\* The newest of some sessions are sessions.
LEMMA NewestIsWork ==
    ASSUME NEW seq, IsWork(seq)
    PROVE  IsWork(Newest(seq))
  <1>1. PICK n, m : n = Len(seq) /\ m = MaxListed
    OBVIOUS
  <1>2. n \in Nat /\ m \in Nat
    BY <1>1, AgentAssumption DEF IsWork
  <1>3. CASE n <= m
    BY <1>1, <1>3 DEF Newest
  <1>4. CASE ~ (n <= m)
    <2>1. PICK new : new = [i \in 1 .. m |-> seq[i + n - m]]
      OBVIOUS
    <2>2. Newest(seq) = SubSeq(seq, n - m + 1, n)
      BY <1>1, <1>4 DEF Newest
    <2>3. PICK S : S = {seq[i] : i \in 1 .. n}
      OBVIOUS
    <2>4. seq \in Seq(S)
      <3>1. seq \in [1 .. n -> S]
        BY <1>1, <2>3 DEF IsWork
      <3> QED BY <1>2, <3>1
    <2>5. Newest(seq) = new
      BY <1>1, <1>2, <1>4, <2>1, <2>2, <2>4
    <2>6. Len(new) = m
      BY <1>2, <2>1
    <2>7. \A i \in 1 .. m : i + n - m \in 1 .. Len(seq) /\ new[i] = seq[i + n - m]
      BY <1>1, <1>2, <1>4, <2>1
    <2> QED BY <1>2, <2>1, <2>5, <2>6, <2>7 DEF IsWork
  <1> QED BY <1>2, <1>3, <1>4

\* What a quiet cell holds is folded into what its sessions add up to.
LEMMA AgentsTold ==
    ASSUME AgentInv
    PROVE  AgentsAreTrue
  <1> SUFFICES ASSUME Quiet(WindowCell), window \notin behind
               PROVE  LET seq == list_sessions(past, window)
                      IN  Summaries = [a \in UNION {Credited(seq[i]) : i \in DOMAIN seq}
                                          |-> SumOver(Taken(a, seq), seq)]
    BY DEF AgentsAreTrue
  <1>1. PICK seq : seq = list_sessions(past, window)
    OBVIOUS
  <1>2. past \in Pasts
    <2>1. PICK h \in Happened, n \in 0 .. moves : \E c \in [1 .. n -> Coming] : past = h \o c
      BY DEF AgentInv, PastGrew
    <2>2. n \in 0 .. MaxMoves
      BY AgentAssumption DEF AgentInv, PastGrew
    <2>3. PICK c \in [1 .. n -> Coming] : past = h \o c
      BY <2>1
    <2>4. c \in Arrivals
      BY <2>2 DEF Arrivals
    <2>5. h \o c \in {h \o d : d \in Arrivals}
      BY <2>4
    <2> QED BY <2>3, <2>5 DEF Pasts
  <1>3. IsWork(seq)
    <2>1. PICK all : all = Within(past, window)
      OBVIOUS
    <2>2. IsWork(all)
      BY <1>2, <2>1, AgentAssumption DEF AgentInv
    <2> QED BY <1>1, <2>1, <2>2, NewestIsWork DEF list_sessions
  <1>4. WindowCell.data = {seq}
    BY <1>1 DEF AgentInv, WindowTells, WindowCell
  <1>5. Got = seq
    BY <1>4 DEF Got, Loaded, Data
  <1>6. Summaries = Summed(1 .. Len(seq), seq)
    BY <1>3, <1>5, AggregateTells DEF Summaries
  <1>7. DOMAIN seq = 1 .. Len(seq)
    BY <1>3 DEF IsWork
  <1>8. \A a : Taken(a, seq) = Had(a, 1 .. Len(seq), seq)
    BY <1>7 DEF Taken, Had
  <1> QED BY <1>1, <1>6, <1>7, <1>8 DEF Summed

\* The other pages of the composition leave the agents' list as it was.
AgentHolds == IF part = "agents" THEN AgentInv ELSE window \in behind

\* However windows, sessions, polls and answers follow one another, the list of agents has
\* exactly those that took part in the newest sessions of the window chosen, as many as
\* the page asks for, each with the sums over its sessions among them.
THEOREM AgentsAreTold == Spec => []AgentsAreTrue
  <1>1. Init => AgentHolds
    <2>1. CASE part = "agents" /\ AgentInit
      BY <2>1, AgentStarts DEF AgentHolds
    <2>2. CASE part # "agents" /\ AgentsRest
      BY <2>2, AgentAssumption DEF AgentHolds, AgentsRest, Longest
    <2> QED BY <2>1, <2>2 DEF Init
  <1>2. AgentHolds /\ [Next]_vars => AgentHolds'
    <2> SUFFICES ASSUME AgentHolds, [Next]_vars PROVE AgentHolds'
      OBVIOUS
    <2>1. ((part = "agents" /\ AgentNext) \/ UNCHANGED agentVars) /\ part' = part
      BY DEF Next, vars
    <2>2. CASE part = "agents" /\ AgentNext
      BY <2>1, <2>2, AgentSteps DEF AgentHolds
    <2>3. CASE UNCHANGED agentVars
      BY <2>1, <2>3 DEF AgentHolds, AgentInv, PastGrew, WindowTells, agentVars
    <2> QED BY <2>1, <2>2, <2>3
  <1>3. AgentHolds => AgentsAreTrue
    BY AgentsTold DEF AgentHolds, AgentsAreTrue
  <1> QED BY <1>1, <1>2, <1>3, PTL DEF Spec
================================================================================
