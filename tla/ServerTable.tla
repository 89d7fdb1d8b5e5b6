--------------------------- MODULE ServerTable ---------------------------------
(***************************************************************************)
(* The list of MCP servers (ServersPage, ServerTable, GroupedSidebar and   *)
(* AddServerModal in src/dashboard/app/(dashboard)/servers/page.tsx) and   *)
(* the routes that answer it (api/routers/{health,servers}.py).            *)
(*                                                                         *)
(* To read the list is to write it: it registers what the traces of the    *)
(* project name, and adds whatever was ever checked in it.  Without an     *)
(* active project it is what the configuration names and whatever was      *)
(* checked in any project.                                                 *)
(*                                                                         *)
(* Left out: the order of the rows and the search, the fields of an entry  *)
(* (CatalogEditor), and the tabs of the detail (ServerPanels).             *)
(***************************************************************************)
EXTENDS Naturals, Fetching

CONSTANTS
    Servers,
    Places,         \* the projects, and NoProject
    Configured,     \* config.servers
    Registered,     \* the servers that the projects start with
    MaxClicks,      \* bound: what the user does
    MaxNews         \* bound: what others do, and failures

NoProject == "no project"
NoServer  == "no server"
Unchecked == "unchecked"
Statuses  == {"up", "degraded", "down", "stale", "unknown"}

VARIABLES
    known,          \* server_metadata of each project
    traced,         \* the servers that the spans of a project name
    checked,        \* the latest health check of each server in a project
    lists,          \* what SWR holds of each place's list: the status of each server
    trends,         \* historyCache: the place that each history is from
    jobs,           \* the page's other requests under way
    place,          \* the active project
    picked,         \* selectedServer
    statusFilter,
    dialog,         \* AddServerModal is open
    news,           \* the places where others acted since their list was last read
    crossed,        \* an answer came when another place was active than at its click
    vanished,       \* the server picked went away otherwise than by the page's removal
    hasty,          \* the server picked was picked after the click that removes it
    lost,           \* a request failed
    clicks, bad

tableVars == <<known, traced, checked, lists, trends, jobs, place, picked, statusFilter,
               dialog, news, crossed, vanished, hasty, lost, clicks, bad>>
apiWorld == <<known, traced, checked>>
tableFlags == <<news, crossed, vanished, hasty, lost>>

-----------------------------------------------------------------------------
\* The API's list

WasChecked(p) == {s \in Servers : checked[p][s] # Unchecked}
NamesIn(p) == IF p = NoProject THEN Configured \cup UNION {WasChecked(q) : q \in Places}
                             ELSE known[p] \cup traced[p] \cup WasChecked(p)
\* Without a project the latest check is taken from anywhere.
Latest(p, s) == IF p # NoProject \/ checked[p][s] # Unchecked THEN {checked[p][s]}
                ELSE {checked[q][s] : q \in Places}
AnyOf(statuses) == CHOOSE status \in statuses : TRUE
StatusIn(p, s) == IF Latest(p, s) \subseteq {Unchecked} THEN "unknown"
                  ELSE AnyOf(Latest(p, s) \ {Unchecked})
Listing(p) == [s \in NamesIn(p) |-> StatusIn(p, s)]
Undiscovered(p) == IF p = NoProject THEN UNION {traced[q] \ known[q] : q \in Places}
                                    ELSE traced[p] \ known[p]
Allowed(p, s) == p = NoProject \/ s \in known[p] \cup WasChecked(p)

-----------------------------------------------------------------------------
\* What is on the screen

ListCell == lists[place]
Listed   == IF Loaded(ListCell) THEN DOMAIN Data(ListCell) ELSE {}
WithStatus(status) == {s \in Listed : Data(ListCell)[s] \in status}
\* An unknown server shows as healthy, though the chip does not count it.
TableRows == CASE statusFilter = "all" -> Listed
             [] statusFilter = "up"  -> WithStatus({"up", "unknown"})
             [] OTHER                -> WithStatus({statusFilter})
Chip(f) == IF f = "all" THEN Listed ELSE WithStatus({f})
Attention == IF statusFilter = "all" THEN WithStatus({"down", "degraded"}) ELSE {}
Groups  == {WithStatus({"down"}), WithStatus({"degraded"}), WithStatus({"up", "stale", "unknown"})}
InTable  == Listed # {} /\ picked = NoServer
InDetail == picked \in Listed

\* A server whose row is still there, though its removal was asked for.
Leaving(s) == \/ s \notin NamesIn(place)
              \/ IsAnswered(ListCell) /\ s \notin DOMAIN ListCell.fetch.data
              \/ \E j \in jobs : j.kind = "remove" /\ j.server = s /\ j.place = place

Job(kind, s) == [kind |-> kind, server |-> s, place |-> place, done |-> FALSE, ok |-> FALSE]
\* The effect on the list: a history for each server that has none.
Histories(p, data) == {[Job("history", s) EXCEPT !.place = p] :
                            s \in {s \in DOMAIN data : trends[s] = {}}}
Busy(kind) == \E j \in jobs : j.kind = kind

TableInit ==
    /\ known = [p \in Places |-> IF p = NoProject THEN {} ELSE Registered]
    /\ traced = [p \in Places |-> {}]
    /\ checked = [p \in Places |-> [s \in Servers |-> Unchecked]]
    /\ place \in Places
    /\ lists = [p \in Places |-> IF p = place THEN Fresh ELSE Closed]
    /\ trends = [s \in Servers |-> {}]
    /\ jobs = {}
    /\ picked = NoServer /\ statusFilter = "all" /\ dialog = FALSE
    /\ news = {} /\ crossed = FALSE /\ vanished = FALSE /\ hasty = FALSE /\ lost = FALSE
    /\ clicks = 0 /\ bad = 0

TableClick == clicks < MaxClicks /\ clicks' = clicks + 1 /\ UNCHANGED bad
TableBad   == bad < MaxNews /\ bad' = bad + 1 /\ UNCHANGED clicks

-----------------------------------------------------------------------------
\* The user

\* The page stays, with whatever the cache has of the other place's list.
SwitchTo(p) ==
    /\ p # place /\ TableClick
    /\ place' = p
    /\ lists' = [lists EXCEPT ![p] = Joining(@)]
    /\ jobs' = jobs \cup (IF Loaded(lists[p]) THEN Histories(p, Data(lists[p])) ELSE {})
    /\ vanished' = (vanished \/ picked # NoServer)
    /\ UNCHANGED <<apiWorld, trends, picked, statusFilter, dialog, news, crossed, hasty, lost>>
SetFilter(f) ==
    /\ InTable /\ f # statusFilter /\ TableClick
    /\ statusFilter' = f
    /\ UNCHANGED <<apiWorld, lists, trends, jobs, place, picked, dialog, tableFlags>>
\* A row, a server that needs attention, or an entry of the sidebar.
SelectServer(s) ==
    /\ \/ InTable /\ s \in TableRows \cup Attention
       \/ InDetail /\ s \in UNION Groups
    /\ TableClick
    /\ picked' = IF picked = s THEN NoServer ELSE s
    /\ statusFilter' = IF picked' = NoServer \/ picked = NoServer THEN "all" ELSE statusFilter
    /\ hasty' = (picked' = s /\ Leaving(s))
    /\ UNCHANGED <<apiWorld, lists, trends, jobs, place, dialog, news, crossed, vanished, lost>>
Asks(kind, s) == jobs' = jobs \cup {Job(kind, s)}
\* The button does not let its row see the click.
RemoveServer(s) ==
    /\ InTable /\ s \in TableRows /\ place # NoProject /\ TableClick
    /\ Asks("remove", s)
    /\ UNCHANGED <<apiWorld, lists, trends, place, picked, statusFilter, dialog, tableFlags>>
RunCheck ==
    /\ InTable /\ ~Busy("check") /\ TableClick
    /\ Asks("check", NoServer)
    /\ UNCHANGED <<apiWorld, lists, trends, place, picked, statusFilter, dialog, tableFlags>>
RunDiscover ==
    /\ Loaded(ListCell) /\ Listed = {} /\ ~Busy("discover") /\ TableClick
    /\ Asks("discover", NoServer)
    /\ UNCHANGED <<apiWorld, lists, trends, place, picked, statusFilter, dialog, tableFlags>>
\* A dialog that closes forgets what was typed; its submission goes on, and
\* closes whatever dialog is open when it is answered.
ToggleDialog ==
    /\ place # NoProject /\ TableClick
    /\ dialog' = ~dialog
    /\ UNCHANGED <<apiWorld, lists, trends, jobs, place, picked, statusFilter, tableFlags>>
HandleSubmit(s) ==
    /\ dialog /\ ~Busy("add") /\ place # NoProject
    /\ Asks("add", s)
    /\ UNCHANGED <<apiWorld, lists, trends, place, picked, statusFilter, dialog, tableFlags, clicks, bad>>

-----------------------------------------------------------------------------
\* The list

\* A poll that would show nothing new is not told from none.
PollList ==
    /\ Quiet(ListCell) /\ ListCell.data # {Listing(place)}
    /\ lists' = [lists EXCEPT ![place] = Asking(@)]
    /\ UNCHANGED <<apiWorld, trends, jobs, place, picked, statusFilter, dialog, tableFlags, clicks, bad>>
ListRead(p) ==
    /\ IsSent(lists[p])
    /\ known' = IF p = NoProject THEN known ELSE [known EXCEPT ![p] = @ \cup traced[p]]
    /\ lists' = [lists EXCEPT ![p] = Reading(@, Listing(p))]
    /\ news' = news \ {p}
    /\ UNCHANGED <<traced, checked, trends, jobs, place, picked, statusFilter, dialog,
                   crossed, vanished, hasty, lost, clicks, bad>>
\* An answer equal to the last leaves the page as it is; one that has a server
\* nobody checked is never equal, as its time is the time of the answer.
Renews(p) == LET new == lists[p].fetch.data
             IN lists[p].data # {new} \/ \E s \in DOMAIN new : new[s] = "unknown"
ServersArrive(p) ==
    /\ IsAnswered(lists[p])
    /\ lists' = [lists EXCEPT ![p] = Arrived(@)]
    /\ jobs' = IF p = place /\ Renews(p) THEN jobs \cup Histories(p, lists[p].fetch.data) ELSE jobs
    /\ UNCHANGED <<apiWorld, trends, place, picked, statusFilter, dialog, tableFlags, clicks, bad>>
ListFails(p) ==
    /\ ~Quiet(lists[p]) /\ TableBad
    /\ lists' = [lists EXCEPT ![p] = Lost(@)]
    /\ lost' = TRUE
    /\ UNCHANGED <<apiWorld, trends, jobs, place, picked, statusFilter, dialog, news, crossed, vanished, hasty>>

-----------------------------------------------------------------------------
\* The other requests

Served(j, ok) == jobs' = (jobs \ {j}) \cup {[j EXCEPT !.done = TRUE, !.ok = ok]}
ServeJob(j) ==
    /\ ~j.done
    /\ \/ /\ j.kind = "history" /\ Served(j, Allowed(j.place, j.server))
          /\ UNCHANGED apiWorld
       \/ /\ j.kind = "remove" /\ Served(j, j.server \in known[j.place])
          /\ known' = [known EXCEPT ![j.place] = @ \ {j.server}]
          /\ UNCHANGED <<traced, checked>>
       \/ /\ j.kind = "add" /\ Served(j, TRUE)
          /\ known' = [known EXCEPT ![j.place] = @ \cup {j.server}]
          /\ UNCHANGED <<traced, checked>>
       \/ /\ j.kind = "discover" /\ Served(j, Undiscovered(j.place) # {})
          /\ known' = [known EXCEPT ![j.place] = @ \cup Undiscovered(j.place)]
          /\ UNCHANGED <<traced, checked>>
       \* The request names no project: what it checks is the configuration's.
       \/ /\ j.kind = "check" /\ Served(j, TRUE)
          /\ checked' = [checked EXCEPT ![NoProject] =
                            [s \in Servers |-> IF s \in Configured THEN "up" ELSE @[s]]]
          /\ UNCHANGED <<known, traced>>
    /\ news' = IF j.kind = "check" /\ j.place # NoProject THEN news \cup {NoProject} ELSE news
    /\ UNCHANGED <<lists, trends, place, picked, statusFilter, dialog, crossed, vanished, hasty,
                   lost, clicks, bad>>

\* mutate() asks for the list of the place that is active now.
JobEndsQuietly(j) ==    \* Mutant: nothing asks.
    /\ j.done /\ jobs' = jobs \ {j}
    /\ trends' = IF j.kind = "history" /\ j.ok
                 THEN [trends EXCEPT ![j.server] = {j.place}] ELSE trends
    /\ dialog' = IF j.kind = "add" /\ j.ok THEN FALSE ELSE dialog
    /\ UNCHANGED <<apiWorld, lists, place, picked, statusFilter, tableFlags, clicks, bad>>
JobEnds(j) ==
    /\ j.done /\ jobs' = jobs \ {j}
    /\ \/ /\ j.kind = "history"
          /\ trends' = IF j.ok THEN [trends EXCEPT ![j.server] = {j.place}] ELSE trends
          /\ UNCHANGED <<lists, dialog, crossed>>
       \/ /\ j.kind # "history"
          /\ lists' = IF j.ok THEN [lists EXCEPT ![place] = Asking(@)] ELSE lists
          /\ dialog' = IF j.kind = "add" /\ j.ok THEN FALSE ELSE dialog
          /\ crossed' = (crossed \/ j.place # place)
          /\ UNCHANGED trends
    /\ UNCHANGED <<apiWorld, place, picked, statusFilter, news, vanished, hasty, lost, clicks, bad>>
JobFails(j) ==
    /\ TableBad
    /\ jobs' = jobs \ {j}
    /\ lost' = TRUE
    /\ UNCHANGED <<apiWorld, lists, trends, place, picked, statusFilter, dialog, news, crossed, vanished, hasty>>

\* Agents, the command line and other administrators.
Spans(p, s) ==
    /\ p # NoProject /\ s \notin traced[p] /\ TableBad
    /\ traced' = [traced EXCEPT ![p] = @ \cup {s}]
    /\ news' = news \cup {p}
    /\ UNCHANGED <<known, checked, lists, trends, jobs, place, picked, statusFilter, dialog,
                   crossed, vanished, hasty, lost>>
Checks(p, s, status) ==
    /\ p # NoProject /\ status # checked[p][s] /\ TableBad
    /\ checked' = [checked EXCEPT ![p][s] = status]
    /\ news' = news \cup {p, NoProject}
    /\ UNCHANGED <<known, traced, lists, trends, jobs, place, picked, statusFilter, dialog,
                   crossed, vanished, hasty, lost>>
OtherRemoves(p, s) ==
    /\ s \in known[p] /\ TableBad
    /\ known' = [known EXCEPT ![p] = @ \ {s}]
    /\ news' = news \cup {p}
    /\ vanished' = TRUE
    /\ UNCHANGED <<traced, checked, lists, trends, jobs, place, picked, statusFilter, dialog,
                   crossed, hasty, lost>>

TableNext ==
    \/ \E p \in Places : SwitchTo(p) \/ ListRead(p) \/ ServersArrive(p) \/ ListFails(p)
    \/ \E s \in Servers : SelectServer(s) \/ RemoveServer(s) \/ HandleSubmit(s)
    \/ \E f \in {"all", "down", "degraded", "up"} : SetFilter(f)
    \/ RunCheck \/ RunDiscover \/ ToggleDialog
    \/ PollList
    \/ \E j \in jobs : ServeJob(j) \/ JobEnds(j) \/ JobFails(j)
    \/ \E p \in Places, s \in Servers :
           Spans(p, s) \/ OtherRemoves(p, s) \/ Checks(p, s, "down")

-----------------------------------------------------------------------------
\* At rest the list is what the API has: whatever the user removed, added,
\* discovered or had checked shows, however that overlapped with polls and with
\* other such requests; as long as he stayed in the project until it was done,
\* nothing failed and nobody else acted since the list was read.
ListIsTrue ==
    jobs = {} /\ Quiet(ListCell) /\ place \notin news /\ ~crossed /\ ~lost
        => ListCell.data = {Listing(place)}

\* The page never goes blank, with a server selected that it does not list, by
\* what its own table offers, the removal included: unless the server was selected
\* in the row that it still had after the click that removes it.  (Then the page
\* stays blank: removeServer looks at the selection of its click, which was none.)
NeverBlank == ~vanished /\ ~hasty /\ Listed # {} => InTable \/ InDetail
=============================================================================
