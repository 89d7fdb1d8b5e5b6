----------------------------- MODULE Dashboard --------------------------------
(***************************************************************************)
(* The pages of DashboardPages and the settings page: a browser shows one  *)
(* or the other (the links of components/sidebar.tsx), each with the state *)
(* it starts with.  The page that is not shown rests.                      *)
(***************************************************************************)
EXTENDS DashboardPages, SettingsPage

PagesRest ==
    /\ page = "settings"
    /\ ProjectRests /\ ListRests /\ SignRests /\ CostsRest /\ TreeRests /\ HomeRests /\ ScansRest
SettingsRest ==
    /\ section = "none"
    /\ TablesUnmounted /\ RecordsUnmounted /\ MembersUnmounted

DashboardInit ==
    \/ Init /\ SettingsRest
    \/ PagesRest /\ SettingsInit
DashboardNext ==
    \/ Next /\ UNCHANGED settingsVars
    \/ page = "settings" /\ SettingsNext /\ UNCHANGED vars
DashboardSpec == DashboardInit /\ [][DashboardNext]_<<vars, settingsVars>>
=============================================================================
