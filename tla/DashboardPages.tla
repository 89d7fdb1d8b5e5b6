--------------------------- MODULE DashboardPages -----------------------------
(***************************************************************************)
(* The dashboard's other pages, each looked at by itself: which project is *)
(* active in the tabs of a browser (lib/project-context.tsx), the list of  *)
(* sessions, signing in by an invite and a password (app/(auth)), the      *)
(* costs, the trace of a session as a tree, the overview and the security  *)
(* scan.  Of the session of a browser they share only the active project,  *)
(* whose changes are inputs of each of them.  The variables of the others  *)
(* rest.                                                                   *)
(***************************************************************************)
EXTENDS ActiveProject, SessionList, SignIn, CostPage, SpanTree, ReportPages

VARIABLE page       \* what is looked at

vars == <<page, projectVars, listVars, signVars, costVars, treeVars, homeVars, scanVars>>

AnyOf(S) == CHOOSE x \in S : TRUE
ProjectRests ==
    /\ admin = FALSE /\ visible = {} /\ stored = None
    /\ active = [t \in Tabs |-> None] /\ rechecks = [t \in Tabs |-> {}] /\ menu = [t \in Tabs |-> {}]
    /\ creations = {} /\ choice = [project |-> None, tabs |-> {}, lasts |-> FALSE]
    /\ sound = {} /\ acts = 0
ListRests ==
    /\ contents = [v \in Views |-> {}] /\ inView = AnyOf(Views) /\ view = FirstView
    /\ cells = [c \in Views \X {1, 24} |-> Closed]
    /\ deferred = NoWord /\ shrunk = TRUE /\ tooSoon = TRUE /\ inputs = 0
SignRests ==
    /\ person = NoAccount /\ invites = <<>> /\ screens = [s \in Screens |-> Opened]
    /\ accepting = {} /\ verifying = {}
    /\ failures = 0 /\ locked = FALSE /\ wrong = 0 /\ atOnce = 0 /\ submits = 0
CostsRest ==
    /\ traced = {} /\ payer = AnyOf(Payers) /\ hours = AnyOf(Periods) /\ filters = NoFilters
    /\ costs = [c \in CostCells |-> Closed] /\ unreachable = {} /\ picks = 0
TreeRests ==
    /\ storage = NoSpans /\ answers = {} /\ fetches = 0
    /\ shown = NoSpans /\ failed = FALSE /\ traceTab = FALSE
    /\ closed = {} /\ details = {} /\ payload = NoPayload /\ toggles = 0
HomeRests ==
    /\ ready = FALSE /\ place = AllProjects /\ window = Week /\ homeTab = "overview"
    /\ home = <<>> /\ homeClicks = 0
ScansRest ==
    /\ scanned = NotOpen /\ visit = 0 /\ scanning = FALSE
    /\ scans = {} /\ switched = FALSE /\ results = {} /\ scanClicks = 0

Init ==
    \/ /\ page = "projects" /\ ProjectInit
       /\ ListRests /\ SignRests /\ CostsRest /\ TreeRests /\ HomeRests /\ ScansRest
    \/ /\ page = "sessions" /\ ListInit
       /\ ProjectRests /\ SignRests /\ CostsRest /\ TreeRests /\ HomeRests /\ ScansRest
    \/ /\ page = "sign-in" /\ SignInit
       /\ ProjectRests /\ ListRests /\ CostsRest /\ TreeRests /\ HomeRests /\ ScansRest
    \/ /\ page = "costs" /\ CostInit
       /\ ProjectRests /\ ListRests /\ SignRests /\ TreeRests /\ HomeRests /\ ScansRest
    \/ /\ page = "trace" /\ TreeInit
       /\ ProjectRests /\ ListRests /\ SignRests /\ CostsRest /\ HomeRests /\ ScansRest
    \/ /\ page = "overview" /\ HomeInit
       /\ ProjectRests /\ ListRests /\ SignRests /\ CostsRest /\ TreeRests /\ ScansRest
    \/ /\ page = "security" /\ ScanInit
       /\ ProjectRests /\ ListRests /\ SignRests /\ CostsRest /\ TreeRests /\ HomeRests
Next ==
    \/ /\ page = "projects" /\ ProjectNext
       /\ UNCHANGED <<page, listVars, signVars, costVars, treeVars, homeVars, scanVars>>
    \/ /\ page = "sessions" /\ ListNext
       /\ UNCHANGED <<page, projectVars, signVars, costVars, treeVars, homeVars, scanVars>>
    \/ /\ page = "sign-in" /\ SignNext
       /\ UNCHANGED <<page, projectVars, listVars, costVars, treeVars, homeVars, scanVars>>
    \/ /\ page = "costs" /\ CostNext
       /\ UNCHANGED <<page, projectVars, listVars, signVars, treeVars, homeVars, scanVars>>
    \/ /\ page = "trace" /\ TreeNext
       /\ UNCHANGED <<page, projectVars, listVars, signVars, costVars, homeVars, scanVars>>
    \/ /\ page = "overview" /\ HomeNext
       /\ UNCHANGED <<page, projectVars, listVars, signVars, costVars, treeVars, scanVars>>
    \/ /\ page = "security" /\ ScanNext
       /\ UNCHANGED <<page, projectVars, listVars, signVars, costVars, treeVars, homeVars>>
Spec == Init /\ [][Next]_vars
=============================================================================
