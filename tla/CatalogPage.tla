---------------------------- MODULE CatalogPage -------------------------------
(***************************************************************************)
(* The pages of the agents and of the MCP servers (AgentsPage and          *)
(* ServersPage in src/dashboard/app/(dashboard)/{agents,servers}/page.tsx):*)
(* the list of each, and the tabs of the one that is selected.  They share *)
(* no state but the selection, and a tab that is left loses its own: each  *)
(* part of a page is looked at by itself, and the variables of the others  *)
(* rest.                                                                   *)
(***************************************************************************)
EXTENDS CatalogEditor, PreventionTab, ServerTable, ServerPanels, AgentList

VARIABLE part       \* what is looked at

vars == <<part, aboutVars, guardVars, tableVars, panelVars, agentVars>>

AboutRests ==
    /\ catalog = <<>> /\ registered = {} /\ meta = Closed
    /\ selected = Nobody /\ listed = TRUE /\ tab = "other" /\ editor = NoEditor
    /\ saves = {} /\ wanted = [n \in Names |-> Blank]
    /\ disturbed = FALSE /\ hurried = FALSE /\ sent = 0 /\ faults = 0
GuardsRest ==
    /\ overrides = <<>> /\ defaults = <<>> /\ project = "none" /\ binding = "none"
    /\ configs = <<>> /\ editing = TabForm
    /\ values = "initial" /\ isDefault = FALSE
    /\ loading = FALSE /\ saving = FALSE /\ tasks = {}
    /\ edited = FALSE /\ clashed = TRUE /\ steps = 0
TableRests ==
    /\ known = <<>> /\ traced = <<>> /\ checked = <<>> /\ place = NoProject
    /\ lists = [p \in Places |-> Closed] /\ trends = <<>> /\ jobs = {}
    /\ picked = NoServer /\ statusFilter = "all" /\ dialog = FALSE
    /\ news = {} /\ crossed = FALSE /\ vanished = TRUE /\ hasty = TRUE /\ lost = TRUE
    /\ clicks = 0 /\ bad = 0
PanelsRest ==
    /\ open = "none" /\ scope = "none" /\ blast = Nothing /\ history = Waiting
    /\ events = Waiting /\ impact = <<>> /\ report = Nothing
    /\ log = <<>> /\ paused = FALSE /\ hours = 0 /\ agentFilter = AnyAgent
    /\ requests = {} /\ overlapped = FALSE /\ failed = TRUE /\ turns = 0
Longest == CHOOSE w \in Lookbacks : \A v \in Lookbacks : v <= w
AgentsRest ==
    /\ past = <<>> /\ window = Longest /\ agent = NoAgent
    /\ sessions = [w \in Lookbacks |-> Closed]
    /\ agentTab = "about" /\ sessionFilter = "all" /\ railExpanded = FALSE
    /\ behind = Lookbacks /\ moves = 0

Init ==
    \/ part = "about" /\ AboutInit /\ GuardsRest /\ TableRests /\ PanelsRest /\ AgentsRest
    \/ part = "guards" /\ GuardInit /\ AboutRests /\ TableRests /\ PanelsRest /\ AgentsRest
    \/ part = "section" /\ SectionInit /\ AboutRests /\ TableRests /\ PanelsRest /\ AgentsRest
    \/ part = "servers" /\ TableInit /\ AboutRests /\ GuardsRest /\ PanelsRest /\ AgentsRest
    \/ part = "panels" /\ PanelInit /\ AboutRests /\ GuardsRest /\ TableRests /\ AgentsRest
    \/ part = "agents" /\ AgentInit /\ AboutRests /\ GuardsRest /\ TableRests /\ PanelsRest
Next ==
    \/ /\ part = "about" /\ AboutNext
       /\ UNCHANGED <<part, guardVars, tableVars, panelVars, agentVars>>
    \/ /\ \/ part = "guards" /\ GuardNext
          \/ part = "section" /\ SectionNext
       /\ UNCHANGED <<part, aboutVars, tableVars, panelVars, agentVars>>
    \/ /\ part = "servers" /\ TableNext
       /\ UNCHANGED <<part, aboutVars, guardVars, panelVars, agentVars>>
    \/ /\ part = "panels" /\ PanelNext
       /\ UNCHANGED <<part, aboutVars, guardVars, tableVars, agentVars>>
    \/ /\ part = "agents" /\ AgentNext
       /\ UNCHANGED <<part, aboutVars, guardVars, tableVars, panelVars>>
Spec == Init /\ [][Next]_vars

-----------------------------------------------------------------------------
\* At rest the pages show what the API says now: the list of servers with their
\* status, also after a check, a discovery, an addition or a removal and a switch
\* of project; and each panel of a server.  With a server selected the page of
\* servers goes blank only if that is gone otherwise than by the page's own removal,
\* or was selected after the click that removes it.
PagesAreTrue == ListIsTrue /\ NeverBlank /\ PanelIsTrue
=============================================================================
