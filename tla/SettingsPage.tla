--------------------------- MODULE SettingsPage -------------------------------
(***************************************************************************)
(* The settings page (SettingsPage in                                      *)
(* src/dashboard/app/(dashboard)/settings/page.tsx): one section is        *)
(* mounted, the one the address names, with its state as it starts; the    *)
(* sections that only show something keep none.  The project's members are *)
(* a row of the projects, and the rules of the alerts page share their     *)
(* record with the notifications.                                          *)
(*                                                                         *)
(* A part of the page that is not mounted does nothing: its variables rest *)
(* at one value.                                                           *)
(***************************************************************************)
EXTENDS SettingsTables, SettingsRecords, ProjectMembers

settingsVars == <<section, tableVars, recordVars, memberVars>>

TablesUnmounted ==
    /\ rows = <<>> /\ made = 0 /\ table = Closed
    /\ dialogs = {} /\ opened = 0 /\ requests = {} /\ deletingId = NoRow
    /\ outside = FALSE /\ events = 0
RecordsUnmounted ==
    /\ form = "none" /\ record = <<>> /\ held = Closed
    /\ saving = {} /\ saves = {} /\ wanted = record
    /\ disturbed = FALSE /\ crossed = FALSE /\ tries = 0
MembersUnmounted ==
    /\ members = <<>> /\ expanded = FALSE
    /\ list = {} /\ loadingMembers = FALSE /\ loads = {}
    /\ selectedUserId = Nobody /\ addingUser = FALSE /\ changes = {}
    /\ byOthers = FALSE /\ raced = FALSE /\ memberActs = 0

SettingsInit ==
    \/ section \in Tables /\ TablesInit /\ RecordsUnmounted /\ MembersUnmounted
    \/ section = "records" /\ form \in Forms
       /\ TablesUnmounted /\ RecordsInit /\ MembersUnmounted
    \/ section = "members" /\ TablesUnmounted /\ RecordsUnmounted /\ MembersInit
SettingsNext ==
    /\ UNCHANGED section
    /\ \/ TablesNext /\ UNCHANGED <<recordVars, memberVars>>
       \/ section = "records" /\ RecordsNext /\ UNCHANGED <<tableVars, memberVars>>
       \/ section = "members" /\ MembersNext /\ UNCHANGED <<tableVars, recordVars>>
SettingsSpec == SettingsInit /\ [][SettingsNext]_settingsVars

-----------------------------------------------------------------------------
\* Whichever section is open, what it shows once its requests have ended is what
\* is stored, however the user's requests, their answers and the polls overlap:
\* the rows of a table, the fields of a form, the members of a project; and a
\* form stores what the user saved, of every field.
ShownIsStored == TableIsTrue /\ SavesKept /\ ViewIsTrue /\ MembersTrue
=============================================================================
