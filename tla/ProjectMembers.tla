-------------------------- MODULE ProjectMembers ------------------------------
(***************************************************************************)
(* The members of a project, as a row of the settings page edits them      *)
(* (ProjectRow in src/dashboard/app/(dashboard)/settings/page.tsx).  The   *)
(* row loads the list when it is first expanded and from then on keeps it  *)
(* itself: an answer to an addition or a removal changes the list the row  *)
(* has by then.                                                            *)
(*                                                                         *)
(* Left out: the project's deletion, which is a row of SettingsTables, and *)
(* the names of users.                                                     *)
(***************************************************************************)
EXTENDS Naturals

CONSTANTS
    Users,          \* users of the instance; the project starts with none of them
    MaxMemberActs         \* bound: expansions, clicks, failures and changes by others

Roles == {"member", "owner"}        \* a viewer is like a member here

VARIABLES
    members,        \* project_members: the role of each member
    expanded,
    list,           \* members of the row: {} before it is loaded, then {rows}
    loadingMembers,
    loads,          \* loadMembers under way
    selectedUserId,
    addingUser,
    changes,        \* additions and removals under way
    byOthers,       \* somebody else has changed the members, or a request failed
    raced,          \* a load met another load, or a change of a user another one
    memberActs

memberVars == <<members, expanded, list, loadingMembers, loads, selectedUserId,
                addingUser, changes, byOthers, raced, memberActs>>

-----------------------------------------------------------------------------
Nobody == "nobody"
RowsOf(m) == {<<u, m[u]>> : u \in DOMAIN m}
Listed == UNION list
Names == {row[1] : row \in Listed}

MembersInit ==
    /\ members \in [{} -> Roles] \cup [Users -> {"member"}]
    /\ expanded = FALSE
    /\ list = {} /\ loadingMembers = FALSE /\ loads = {}
    /\ selectedUserId = Nobody /\ addingUser = FALSE
    /\ changes = {}
    /\ byOthers = FALSE /\ raced = FALSE
    /\ memberActs = 0

MemberAct == memberActs < MaxMemberActs /\ memberActs' = memberActs + 1

\* handleExpand and loadMembers.
HandleExpand ==
    /\ MemberAct
    /\ expanded' = ~expanded
    /\ IF expanded' /\ list = {}
       THEN /\ loadingMembers' = TRUE
            /\ loads' = loads \cup {[id |-> memberActs, stage |-> "sent", rows |-> {}]}
            /\ raced' = (raced \/ loads # {})
       ELSE UNCHANGED <<loadingMembers, loads, raced>>
    /\ UNCHANGED <<members, list, selectedUserId, addingUser, changes, byOthers>>
LoadRead(l) ==
    /\ l.stage = "sent"
    /\ loads' = (loads \ {l}) \cup {[l EXCEPT !.stage = "answered", !.rows = RowsOf(members)]}
    /\ UNCHANGED <<members, expanded, list, loadingMembers, selectedUserId, addingUser,
                   changes, byOthers, raced, memberActs>>
LoadArrives(l) ==
    /\ l.stage = "answered"
    /\ loads' = loads \ {l}
    /\ list' = {l.rows}
    /\ loadingMembers' = FALSE
    /\ UNCHANGED <<members, expanded, selectedUserId, addingUser, changes, byOthers, raced, memberActs>>
LoadFails(l) ==
    /\ MemberAct
    /\ loads' = loads \ {l}
    /\ loadingMembers' = FALSE
    /\ UNCHANGED <<members, expanded, list, selectedUserId, addingUser, changes, byOthers, raced>>

\* The list and the form are there when the row is expanded and loaded; users
\* are loaded with the members.
Visible == expanded /\ ~loadingMembers /\ list # {}
Select(u) ==
    /\ Visible /\ u \in Users \ Names
    /\ u # selectedUserId
    /\ selectedUserId' = u
    /\ UNCHANGED <<members, expanded, list, loadingMembers, loads, addingUser, changes,
                   byOthers, raced, memberActs>>
Change(op, u, role) ==
    /\ changes' = changes \cup {[id |-> memberActs, op |-> op, user |-> u, role |-> role,
                                 answer |-> "none"]}
    /\ raced' = (raced \/ \E c \in changes : c.user = u)
\* handleAddMember: one at a time.
HandleAddMember(role) ==
    /\ Visible /\ Users \ Names # {}
    /\ selectedUserId # Nobody /\ ~addingUser
    /\ MemberAct
    /\ Change("add", selectedUserId, role)
    /\ addingUser' = TRUE
    /\ UNCHANGED <<members, expanded, list, loadingMembers, loads, selectedUserId, byOthers>>
\* handleRemoveMember: an owner has no button, and nothing disables the others.
HandleRemoveMember(u) ==
    /\ Visible /\ <<u, "member">> \in Listed
    /\ MemberAct
    /\ Change("remove", u, "member")
    /\ UNCHANGED <<members, expanded, list, loadingMembers, loads, selectedUserId, addingUser, byOthers>>

With(u, role) == [v \in DOMAIN members \cup {u} |-> IF v = u THEN role ELSE members[v]]
Without(u)    == [v \in DOMAIN members \ {u} |-> members[v]]
\* add_member sets the role of a member there is; remove_member finds none.
ServeChange(c) ==
    /\ c.answer = "none"
    /\ members' = IF c.op = "add" THEN With(c.user, c.role) ELSE Without(c.user)
    /\ LET found == c.op = "add" \/ c.user \in DOMAIN members
       IN  changes' = (changes \ {c}) \cup {[c EXCEPT !.answer = IF found THEN "ok" ELSE "404"]}
    /\ UNCHANGED <<expanded, list, loadingMembers, loads, selectedUserId, addingUser,
                   byOthers, raced, memberActs>>
\* The answer changes the list of that moment.
After(c) ==
    IF c.op = "add" THEN Listed \cup {<<c.user, c.role>>}
    ELSE {row \in Listed : row[1] # c.user}
ChangeEnds(c) ==
    /\ changes' = changes \ {c}
    /\ addingUser' = (addingUser /\ c.op # "add")
ChangeSucceeds(c) ==
    /\ c.answer = "ok"
    /\ ChangeEnds(c)
    /\ list' = {After(c)}
    /\ selectedUserId' = IF c.op = "add" THEN Nobody ELSE selectedUserId
    /\ UNCHANGED <<members, expanded, loadingMembers, loads, byOthers, raced, memberActs>>
ChangeFails(c) ==
    /\ \/ c.answer = "404" /\ UNCHANGED <<byOthers, memberActs>>
       \/ MemberAct /\ byOthers' = TRUE
    /\ ChangeEnds(c)
    /\ UNCHANGED <<members, expanded, list, loadingMembers, loads, selectedUserId, raced>>
OthersChangeMember(u) ==
    /\ MemberAct
    /\ byOthers' = TRUE
    /\ members' = IF u \in DOMAIN members THEN Without(u) ELSE With(u, "member")
    /\ UNCHANGED <<expanded, list, loadingMembers, loads, selectedUserId, addingUser, changes, raced>>

MembersNext ==
    \/ HandleExpand
    \/ \E l \in loads : LoadRead(l) \/ LoadArrives(l) \/ LoadFails(l)
    \/ \E u \in Users : Select(u) \/ HandleRemoveMember(u) \/ OthersChangeMember(u)
    \/ \E role \in Roles : HandleAddMember(role)
    \/ \E c \in changes : ServeChange(c) \/ ChangeSucceeds(c) \/ ChangeFails(c)

-----------------------------------------------------------------------------
\* Once the row has loaded the members, it lists at rest those of the server
\* with their roles, each once, in whatever order the additions and removals of
\* different users were served and answered; unless others change the members,
\* two loads overlap, or one user is changed twice at a time.
MembersTrue ==
    changes = {} /\ loads = {} /\ ~byOthers /\ ~raced
        => \A l \in list : l = RowsOf(members)
=============================================================================
