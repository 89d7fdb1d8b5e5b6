---------------------------- MODULE SessionList --------------------------------
(***************************************************************************)
(* The list of sessions (SessionsPage in                                   *)
(* src/dashboard/app/(dashboard)/sessions/page.tsx and its parts in        *)
(* src/dashboard/components/sessions/): a window of time, filters, a page, *)
(* an order, all of them kept in the page's address, and a list that is    *)
(* polled from list_sessions (api/routers/agents.py).                      *)
(*                                                                         *)
(* Left out: the filter by health tag, which works as the one by status;   *)
(* the limit of 500 sessions; how two rows compare.                        *)
(***************************************************************************)
EXTENDS Naturals, FiniteSets, Fetching

CONSTANTS
    Views,          \* projects
    SessionRows,    \* sessions: their agent, and whether they failed, and are recent
    Words,          \* what may be searched for; a session's agent has it or not
    PageSize,
    MaxInputs       \* bound: what the user does, and what happens to sessions

ASSUME ListAssumption ==
    /\ Views # {}
    /\ IsFiniteSet(SessionRows)
    /\ PageSize \in Nat \ {0}

NoWord == ""
NoKey == "no key"
NoDir == "no direction"
SortKeys == {"first_call_at", "tool_calls"}

VARIABLES
    contents,       \* each project's sessions
    cells,          \* what SWR holds for each project and window
    inView,         \* the active project
    view,           \* what the address is made of
    deferred,       \* the search that the filter uses, which lags the one that is typed
    shrunk,         \* the list lost a session, or another took its place, since its first page was left
    tooSoon,        \* a later page was reloaded before the search had caught up
    inputs

listVars == <<contents, cells, inView, view, deferred, shrunk, tooSoon, inputs>>

-----------------------------------------------------------------------------
\* The address and the state that is made from it

FirstView == [hours |-> 24, query |-> NoWord, status |-> "all", agent |-> "all", page |-> 0,
              sortKey |-> "first_call_at", sortDir |-> "desc"]
\* What is as at first is left out, and so is an order that is off.
Told(v, f) == CASE f = "sortKey" -> v.sortKey \notin {NoKey, FirstView.sortKey}
                [] f = "sortDir" -> v.sortDir \notin {NoDir, FirstView.sortDir}
                [] OTHER         -> v[f] # FirstView[f]
ToAddress(v) == [f \in {f \in DOMAIN v : Told(v, f)} |-> v[f]]
FromAddress(a) == [f \in DOMAIN FirstView |-> IF f \in DOMAIN a THEN a[f] ELSE FirstView[f]]

-----------------------------------------------------------------------------
\* What is on the screen

InWindow(p, h) == {r \in contents[p] : h = 24 \/ r.recent}
Cell   == cells[<<inView, view.hours>>]
RowsHeld  == IF Loaded(Cell) THEN Data(Cell) ELSE {}
ByStatus(st) == {r \in RowsHeld : st = "all" \/ (st = "failed") = r.failed}
Filtered == {r \in ByStatus(view.status) : /\ view.agent \in {"all", r.agent}
                                           /\ deferred \in {NoWord, r.agent}}
AgentNames == {r.agent : r \in RowsHeld}
RowsOnPage == LET left == Cardinality(Filtered) - view.page * PageSize
              IN  IF left < 0 THEN 0 ELSE IF left > PageSize THEN PageSize ELSE left
TotalPages == (Cardinality(Filtered) + PageSize - 1) \div PageSize

ListInit ==
    /\ contents \in [Views -> {SessionRows, {}}]
    /\ inView \in Views
    /\ view = FirstView
    /\ cells = [c \in Views \X {1, 24} |-> IF c = <<inView, 24>> THEN Fresh ELSE Closed]
    /\ deferred = NoWord /\ shrunk = FALSE /\ tooSoon = FALSE /\ inputs = 0

Input == inputs < MaxInputs /\ inputs' = inputs + 1
\* The user goes to a page that there is; what the first one shows cannot be gone.
Looks(v) == view' = v /\ shrunk' = (shrunk /\ v.page # 0) /\ tooSoon' = FALSE

\* An effect goes to the first page when a filter changes.
SetFilterInPlace(field, value) ==   \* Mutant: nothing goes to the first page.
    /\ Looks([view EXCEPT ![field] = value])
    /\ UNCHANGED <<contents, inView, deferred>>
SetFilterTo(field, value) ==
    /\ Looks([view EXCEPT ![field] = value, !.page = 0])
    /\ UNCHANGED <<contents, inView, deferred>>
FilterByStatus(st) == st # view.status /\ Input /\ SetFilterTo("status", st) /\ UNCHANGED cells
\* The select is there when the list has two agents.
FilterByAgent(a) ==
    /\ a # view.agent /\ a \in AgentNames \cup {"all"} /\ Cardinality(AgentNames) > 1
    /\ Input /\ SetFilterTo("agent", a) /\ UNCHANGED cells
ChooseWindow(h) ==
    /\ h # view.hours /\ Input /\ SetFilterTo("hours", h)
    /\ cells' = [cells EXCEPT ![<<inView, h>>] = Joining(@)]
Type(word) ==
    /\ word # view.query /\ Input
    /\ view' = [view EXCEPT !.query = word]
    /\ UNCHANGED <<contents, cells, inView, deferred, shrunk, tooSoon>>
CatchUp ==
    /\ deferred # view.query
    /\ deferred' = view.query
    /\ Looks([view EXCEPT !.page = 0])
    /\ UNCHANGED <<contents, cells, inView, inputs>>
\* SessionPagination
OnPage(n) ==
    /\ Filtered # {} /\ n \in 0 .. TotalPages - 1 /\ n # view.page /\ Input
    /\ Looks([view EXCEPT !.page = n])
    /\ UNCHANGED <<contents, cells, inView, deferred>>
\* A column is sorted downwards, then not, and then no column is: upwards
\* comes only from an address.
HandleSort(k) ==
    /\ Filtered # {} /\ Input
    /\ LET dir == CASE view.sortKey # k        -> "desc"
                    [] view.sortDir = "asc"    -> "desc"
                    [] view.sortDir = "desc"   -> NoDir
                    [] view.sortDir = NoDir    -> "asc"
           key == IF view.sortKey = k /\ view.sortDir = NoDir THEN NoKey ELSE k
       IN Looks([view EXCEPT !.sortKey = key, !.sortDir = dir, !.page = 0])
    /\ UNCHANGED <<contents, cells, inView, deferred>>
\* A reload finds the state in the address, where a search is as soon as it is
\* typed; the effect that goes to the first page skips the first rendering.
ReloadPage ==
    /\ Input
    /\ view' = FromAddress(ToAddress(view)) /\ deferred' = view'.query
    /\ cells' = [c \in Views \X {1, 24} |-> IF c = <<inView, view.hours>> THEN Fresh ELSE Closed]
    /\ shrunk' = (shrunk \/ /\ view.page # 0
                            /\ ~(RowsHeld \subseteq InWindow(inView, view.hours)))
    /\ tooSoon' = (view.page # 0 /\ (tooSoon \/ deferred # view.query))
    /\ UNCHANGED <<contents, inView>>
\* The page, and the page's number, stay.
SwitchView(p) ==
    /\ p # inView /\ Input
    /\ inView' = p
    /\ cells' = [cells EXCEPT ![<<p, view.hours>>] = Joining(@)]
    /\ shrunk' = (shrunk \/ view.page # 0)
    /\ UNCHANGED <<contents, view, deferred, tooSoon>>

\* The list is polled, or asked for by the button.
PollCell ==
    /\ Quiet(Cell) /\ Cell.data # {InWindow(inView, view.hours)}
    /\ cells' = [cells EXCEPT ![<<inView, view.hours>>] = Asking(@)]
    /\ UNCHANGED <<contents, inView, view, deferred, shrunk, tooSoon, inputs>>
CellRead(p, h) ==
    /\ IsSent(cells[<<p, h>>])
    /\ cells' = [cells EXCEPT ![<<p, h>>] = Reading(@, InWindow(p, h))]
    /\ UNCHANGED <<contents, inView, view, deferred, shrunk, tooSoon, inputs>>
CellArrives(p, h) ==
    /\ LET c == cells[<<p, h>>]
       IN /\ IsAnswered(c)
          /\ cells' = [cells EXCEPT ![<<p, h>>] = Arrived(@)]
          /\ shrunk' = (shrunk \/ /\ <<p, h>> = <<inView, view.hours>> /\ view.page # 0
                                  /\ Loaded(c) /\ ~(Data(c) \subseteq c.fetch.data))
    /\ UNCHANGED <<contents, inView, view, deferred, tooSoon, inputs>>

Appears(p, r) ==
    /\ r \notin contents[p] /\ Input
    /\ contents' = [contents EXCEPT ![p] = @ \cup {r}]
    /\ UNCHANGED <<cells, inView, view, deferred, shrunk, tooSoon>>
Ages(p, r) ==     \* leaves the window of time
    /\ r \in contents[p] /\ Input
    /\ contents' = [contents EXCEPT ![p] = @ \ {r}]
    /\ shrunk' = (shrunk \/ (view.page # 0 /\ ~Loaded(Cell)))
    /\ UNCHANGED <<cells, inView, view, deferred, tooSoon>>

ListNext ==
    \/ \E st \in {"all", "clean", "failed"} : FilterByStatus(st)
    \/ \E a \in AgentNames \cup {"all"} : FilterByAgent(a)
    \/ \E h \in {1, 24} : ChooseWindow(h)
    \/ \E w \in Words \cup {NoWord} : Type(w)
    \/ \E n \in 0 .. Cardinality(SessionRows) : OnPage(n)
    \/ \E k \in SortKeys : HandleSort(k)
    \/ \E p \in Views : SwitchView(p) \/ (\E r \in SessionRows : Appears(p, r) \/ Ages(p, r))
    \/ \E p \in Views, h \in {1, 24} : CellRead(p, h) \/ CellArrives(p, h)
    \/ CatchUp \/ ReloadPage \/ PollCell

-----------------------------------------------------------------------------

\* The page that is open has rows, whatever is typed, filtered, sorted and
\* reloaded, in whatever order the search and the answers catch up; unless the
\* list lost rows meanwhile, or another project's took its place.  A reload between
\* a search and its catching up is the one step of the user that may leave him on
\* an empty page: the address then has the new search with the old page.
PageExists ==
    Loaded(Cell) /\ ~shrunk /\ ~tooSoon => view.page = 0 \/ RowsOnPage > 0
=============================================================================
