---------------------------- MODULE ActiveProject -------------------------------
(***************************************************************************)
(* The active project (ProjectProvider in                                  *)
(* src/dashboard/lib/project-context.tsx) and the menu that chooses it     *)
(* (ProjectSwitcher and UserMenu in src/dashboard/components/sidebar.tsx). *)
(* Each tab of the browser has its own; they share the one that is stored, *)
(* which survives a reload, and the sign-out of its user.                  *)
(*                                                                         *)
(* Whenever the session's object changes, as it does when a tab is looked  *)
(* at again, the tab reads what is stored, asks for the projects, and when *)
(* they arrive, which may be after newer choices, takes what it had read.  *)
(* Projects are numbered in the order of the API's list.                   *)
(***************************************************************************)
EXTENDS Naturals, FiniteSets

CONSTANTS
    Tabs,
    Early, Late,    \* projects that exist, and those that may be created: numbers
    MaxActs         \* bound: what users do, sessions that are renewed, failures

ASSUME ProjectAssumption ==
    /\ Early \cup Late \subseteq Nat \ {0}
    /\ IsFiniteSet(Early \cup Late)
    /\ Early # {}

None     == 0
NoTab    == "no tab"
Unread   == [kind |-> "unread"]
Seen(ps) == [kind |-> "seen", projects |-> ps, late |-> FALSE]
Refused  == [kind |-> "refused"]

VARIABLES
    admin,      \* the user's role
    visible,    \* the projects that the API lists for the user
    stored,     \* localStorage
    active,     \* each tab's activeProject
    rechecks,   \* each tab's effects under way: what was restored, and the answer
    menu,       \* each tab's list of projects, as it was last polled
    creations,  \* POST /projects under way
    choice,     \* the latest: its project, the tabs bound by it, and whether it should last
    sound,      \* tabs whose last answer was true, and no project went away since
    acts

projectVars == <<admin, visible, stored, active, rechecks, menu, creations, choice, sound, acts>>
account == <<admin, visible>>

Act == acts < MaxActs /\ acts' = acts + 1
\* The number tells apart two that are alike.
Recheck(role) == [restored |-> stored, admin |-> role, answer |-> Unread, number |-> acts]
Outdated(rs) == {IF r.answer.kind = "seen" THEN [r EXCEPT !.answer.late = TRUE] ELSE r : r \in rs}
Rechecking == \E t \in Tabs : rechecks[t] # {}
First(ps) == CHOOSE p \in ps : \A q \in ps : p <= q
Forgotten == choice' = [choice EXCEPT !.lasts = FALSE]

\* The tabs have loaded.
ProjectInit ==
    /\ admin \in BOOLEAN
    /\ visible \in {Early, {First(Early)}}
    /\ stored \in visible \cup (IF admin THEN {None} ELSE {})
    /\ active = [t \in Tabs |-> stored]
    /\ rechecks = [t \in Tabs |-> {}]
    /\ menu = [t \in Tabs |-> visible]
    /\ creations = {}
    /\ choice = [project |-> None, tabs |-> {}, lasts |-> FALSE]
    /\ sound = {}
    /\ acts = 0

-----------------------------------------------------------------------------
\* The effect of ProjectProvider

RenewSession(t) ==
    /\ Act
    /\ rechecks' = [rechecks EXCEPT ![t] = @ \cup {Recheck(admin)}]
    /\ choice' = IF choice.project = None THEN choice
                 ELSE [choice EXCEPT !.tabs = @ \cup {t}]
    /\ UNCHANGED <<account, stored, active, menu, creations, sound>>
Reload(t) ==
    /\ Act
    /\ active' = [active EXCEPT ![t] = None]
    /\ rechecks' = [rechecks EXCEPT ![t] = {Recheck(admin)}]
    /\ menu' = [menu EXCEPT ![t] = visible]
    /\ creations' = {IF c.tab = t THEN [c EXCEPT !.tab = NoTab] ELSE c : c \in creations}
    /\ choice' = [choice EXCEPT !.tabs = @ \cup {t}]
    /\ sound' = sound \ {t}
    /\ UNCHANGED <<account, stored>>
\* What is stored outlives the user; the other tabs are told of the new session.
SignInAs(t, role, ps) ==
    /\ Act
    /\ admin' = role /\ visible' = ps
    /\ active' = [active EXCEPT ![t] = None]
    /\ rechecks' = [u \in Tabs |-> (IF u = t THEN {} ELSE Outdated(rechecks[u])) \cup {Recheck(role)}]
    /\ menu' = [menu EXCEPT ![t] = ps]
    /\ creations' = {IF c.tab = t THEN [c EXCEPT !.tab = NoTab] ELSE c : c \in creations}
    /\ Forgotten /\ sound' = {}
    /\ UNCHANGED stored

RecheckRead(t, r) ==
    /\ r.answer = Unread
    /\ rechecks' = [rechecks EXCEPT ![t] = (@ \ {r}) \cup {[r EXCEPT !.answer = Seen(visible)]}]
    /\ UNCHANGED <<account, stored, active, menu, creations, choice, sound, acts>>
\* The proxy answers for an API that is down: an answer that is not a list.
RecheckRefused(t, r) ==
    /\ r.answer = Unread /\ Act
    /\ rechecks' = [rechecks EXCEPT ![t] = (@ \ {r}) \cup {[r EXCEPT !.answer = Refused]}]
    /\ UNCHANGED <<account, stored, active, menu, creations, choice, sound>>

Take(t, p) == active' = [active EXCEPT ![t] = p] /\ stored' = p
RecheckTrusts(t, r) ==  \* Mutant: takes what was stored without looking for it in the list.
    /\ r.answer.kind = "seen"
    /\ IF r.restored # None THEN Take(t, r.restored) ELSE UNCHANGED <<stored, active>>
    /\ sound' = IF r.answer.late \/ r.admin # admin THEN sound \ {t} ELSE sound \cup {t}
    /\ rechecks' = [rechecks EXCEPT ![t] = @ \ {r}]
    /\ UNCHANGED <<account, menu, creations, choice, acts>>
RecheckArrives(t, r) ==
    /\ r.answer.kind = "seen"
    /\ LET listed == r.answer.projects
       IN \/ r.restored \in listed /\ Take(t, r.restored)
          \/ r.restored \notin listed /\ ~r.admin /\ listed # {} /\ Take(t, First(listed))
          \/ /\ r.restored \notin listed /\ (r.admin \/ listed = {})
             /\ stored' = IF r.restored = None THEN stored ELSE None
             /\ UNCHANGED active
    /\ sound' = IF r.answer.late \/ r.admin # admin THEN sound \ {t} ELSE sound \cup {t}
    /\ rechecks' = [rechecks EXCEPT ![t] = @ \ {r}]
    /\ UNCHANGED <<account, menu, creations, choice, acts>>
RecheckEnds(t, r) ==
    /\ r.answer = Refused
    /\ rechecks' = [rechecks EXCEPT ![t] = @ \ {r}]
    /\ Forgotten /\ sound' = sound \ {t}
    /\ UNCHANGED <<account, stored, active, menu, creations, acts>>
\* The dashboard's own server is down.
RecheckFails(t, r) ==
    /\ Act
    /\ active' = IF r.restored = None THEN active ELSE [active EXCEPT ![t] = r.restored]
    /\ rechecks' = [rechecks EXCEPT ![t] = @ \ {r}]
    /\ Forgotten /\ sound' = sound \ {t}
    /\ UNCHANGED <<account, stored, menu, creations>>

-----------------------------------------------------------------------------
\* ProjectSwitcher

\* A choice lasts unless a recheck restored an older one, or another is coming.
Chosen(t, p) ==
    /\ choice' = [project |-> p, tabs |-> {t},
                  lasts |-> ~Rechecking /\ p \in visible \cup {None}]
    /\ sound' = IF p \in visible THEN sound ELSE sound \ {t}
setActiveProjectHere(t, p) ==   \* Mutant: stores nothing.
    /\ active' = [active EXCEPT ![t] = p]
    /\ Chosen(t, p)
    /\ UNCHANGED stored
setActiveProject(t, p) == Take(t, p) /\ Chosen(t, p)
\* Only an admin is offered all projects at once.
Choose(t, p) ==
    /\ p \in menu[t] \cup (IF admin THEN {None} ELSE {})
    /\ Act
    /\ setActiveProject(t, p)
    /\ UNCHANGED <<account, rechecks, menu, creations>>
\* Anyone is offered it; the Enter key does so again while one is under way.
HandleCreate(t, p) ==
    /\ p \notin visible /\ \A c \in creations : c.project # p
    /\ Act
    /\ creations' = creations \cup {[tab |-> t, project |-> p, done |-> FALSE, made |-> FALSE]}
    /\ UNCHANGED <<account, stored, active, rechecks, menu, choice, sound>>
CreationRead(c) ==
    /\ ~c.done
    /\ visible' = IF admin THEN visible \cup {c.project} ELSE visible
    /\ creations' = (creations \ {c}) \cup {[c EXCEPT !.done = TRUE, !.made = admin]}
    /\ UNCHANGED <<admin, stored, active, rechecks, menu, choice, sound, acts>>
CreationEnds(c) ==
    /\ c.done
    /\ creations' = creations \ {c}
    /\ IF c.made /\ c.tab # NoTab THEN setActiveProject(c.tab, c.project)
                                  ELSE UNCHANGED <<stored, active, choice, sound>>
    /\ UNCHANGED <<account, rechecks, menu, acts>>

\* The menu's list is polled, and is not asked for after a creation.
MenusPoll ==
    /\ menu' = [t \in Tabs |-> visible] /\ menu' # menu
    /\ UNCHANGED <<account, stored, active, rechecks, creations, choice, sound, acts>>

\* A project is deleted, or the user is no longer its member.
Withdraw(p) ==
    /\ p \in visible /\ Act
    /\ visible' = visible \ {p}
    /\ rechecks' = [t \in Tabs |-> Outdated(rechecks[t])]
    /\ sound' = {}
    /\ IF p = choice.project THEN Forgotten ELSE UNCHANGED choice
    /\ UNCHANGED <<admin, stored, active, menu, creations>>

ProjectNext ==
    \/ \E t \in Tabs : RenewSession(t) \/ Reload(t)
    \/ \E t \in Tabs, role \in BOOLEAN, p \in Early : SignInAs(t, role, {p})
    \/ \E t \in Tabs : \E r \in rechecks[t] :
           RecheckRead(t, r) \/ RecheckRefused(t, r) \/ RecheckArrives(t, r)
           \/ RecheckEnds(t, r) \/ RecheckFails(t, r)
    \/ \E t \in Tabs, p \in Early \cup Late \cup {None} : Choose(t, p)
    \/ \E t \in Tabs, p \in Late : HandleCreate(t, p)
    \/ \E c \in creations : CreationRead(c) \/ CreationEnds(c)
    \/ \E p \in Early \cup Late : Withdraw(p)
    \/ MenusPoll

-----------------------------------------------------------------------------
\* The choice made last, by a click or by a creation, is the active project of
\* its tab and, when it is a project, of every tab that rechecks after it, also
\* across reloads; unless it was made while a recheck was under way somewhere, the
\* project went away, or a recheck failed.
ChoiceKept ==
    choice.lasts => \A t \in choice.tabs : rechecks[t] = {} => active[t] = choice.project

\* "A deleted or revoked project would strand non-admins with persistent
\* 403/404s": once a tab has rechecked, its user is in a project that is still
\* his, if he has any; also when another user's project is stored.
NobodyStranded ==
    ~admin /\ visible # {} => \A t \in sound : rechecks[t] = {} => active[t] \in visible
=============================================================================
