------------------------------- MODULE SignIn ----------------------------------
(***************************************************************************)
(* How a person gets an account and signs in: the two pages that are open  *)
(* to all (LoginPage and AcceptInviteForm in                               *)
(* src/dashboard/app/(auth)/{login,accept-invite}/page.tsx), the route and *)
(* the provider that ask the API for them (app/api/accept-invite/route.ts, *)
(* lib/auth.ts), and the API (accept_invite and verify_credentials in      *)
(* src/src/langsight/api/routers/users.py).                                *)
(*                                                                         *)
(* One person, whose links may be opened in several windows of a browser.  *)
(* The API's hashing runs in a thread: requests interleave before it and   *)
(* after it.  The asking side gives up after a while; the API does not.    *)
(*                                                                         *)
(* Left out: the limits on requests per minute, other people, the form of  *)
(* the addresses and passwords, that a window goes home once another is    *)
(* signed in, and a database that is not there or whose queries on the     *)
(* failures break off: then nobody is locked out, and no failure counted.  *)
(***************************************************************************)
EXTENDS Naturals, FiniteSets

CONSTANTS
    Screens,        \* windows of the browser
    Invites,        \* links sent to the person
    Passwords,
    MaxFailures,    \* _MAX_FAILURES
    MaxSubmits      \* bound: forms sent, and what the administrator does

ASSUME SignAssumption ==
    /\ "none" \notin Passwords
    /\ MaxFailures \in Nat \ {0}
    /\ MaxSubmits \in Nat

NoAccount  == [password |-> "none", active |-> FALSE]
NoAnswer   == MaxSubmits    \* requests are numbered below it
Opened     == [shows |-> "form", password |-> "none", waits |-> NoAnswer]

VARIABLES
    person,         \* the row of users with the person's address, which is unique
    invites,        \* each invite: unused or not
    screens,        \* what each shows, the password sent, and the request it waits for
    accepting,      \* POST /api/users/accept-invite under way
    verifying,      \* POST /api/users/verify under way
    failures,       \* login_failures.fail_count
    locked,
    wrong,          \* wrong passwords found so since the window of time began
    atOnce,         \* the most verifications there were at a time since then
    submits

signVars == <<person, invites, screens, accepting, verifying, failures, locked, wrong,
              atOnce, submits>>
lock == <<failures, locked, wrong, atOnce>>

SignInit ==
    /\ person = NoAccount
    /\ invites = [i \in Invites |-> "unused"]
    /\ screens = [s \in Screens |-> Opened]
    /\ accepting = {} /\ verifying = {}
    /\ failures = 0 /\ locked = FALSE /\ wrong = 0 /\ atOnce = 0
    /\ submits = 0

Submits == submits < MaxSubmits /\ submits' = submits + 1
Shows(s, what) == screens' = [screens EXCEPT ![s].shows = what, ![s].waits = NoAnswer]
Awaited(r) == screens[r.screen].waits = r.number

-----------------------------------------------------------------------------
\* An invite

SubmitInvite(s, i, pw) ==
    /\ screens[s].shows \in {"form", "refused"} /\ Submits
    /\ screens' = [screens EXCEPT ![s] = [shows |-> "creating", password |-> pw, waits |-> submits]]
    /\ accepting' = accepting \cup
            {[screen |-> s, invite |-> i, password |-> pw, number |-> submits, step |-> "sent"]}
    /\ UNCHANGED <<person, invites, verifying, lock>>
MovesTo(r, step) == accepting' = (accepting \ {r}) \cup {[r EXCEPT !.step = step]}
\* An account that was deactivated is not found.
CheckInvite(r) ==
    /\ r.step = "sent"
    /\ MovesTo(r, IF invites[r.invite] = "used" \/ person.active THEN "failed" ELSE "hashing")
    /\ UNCHANGED <<person, invites, screens, verifying, lock, submits>>
\* One transaction; but addresses are unique among the deactivated, too.
AcceptInviteAnew(r) ==      \* Mutant: the account is replaced.
    /\ r.step = "hashing"
    /\ MovesTo(r, "made")
    /\ invites' = [invites EXCEPT ![r.invite] = "used"]
    /\ person' = [password |-> r.password, active |-> TRUE]
    /\ UNCHANGED <<screens, verifying, lock, submits>>
AcceptInvite(r) ==
    /\ r.step = "hashing"
    /\ \/ /\ invites[r.invite] = "unused" /\ person = NoAccount
          /\ MovesTo(r, "made")
          /\ invites' = [invites EXCEPT ![r.invite] = "used"]
          /\ person' = [password |-> r.password, active |-> TRUE]
       \/ /\ invites[r.invite] = "used" \/ person # NoAccount
          /\ MovesTo(r, "failed")
          /\ UNCHANGED <<person, invites>>
    /\ UNCHANGED <<screens, verifying, lock, submits>>
InviteAnswered(r) ==
    /\ r.step \in {"made", "failed"}
    /\ accepting' = accepting \ {r}
    /\ IF Awaited(r) THEN Shows(r.screen, IF r.step = "made" THEN "created" ELSE "refused")
                     ELSE UNCHANGED screens
    /\ UNCHANGED <<person, invites, verifying, lock, submits>>
\* The route gives up after 15 s and says that the API is unreachable.
InviteTimesOut(r) ==
    /\ Awaited(r)
    /\ Shows(r.screen, "refused")
    /\ UNCHANGED <<person, invites, accepting, verifying, lock, submits>>

-----------------------------------------------------------------------------
\* Signing in

GoToLogin(s) ==
    /\ screens[s].shows \in {"form", "refused", "created"}
    /\ Shows(s, "login")
    /\ UNCHANGED <<person, invites, accepting, verifying, lock, submits>>
SubmitLogin(s, pw) ==
    /\ screens[s].shows = "login" /\ Submits
    /\ screens' = [screens EXCEPT ![s] = [shows |-> "signing", password |-> pw, waits |-> submits]]
    /\ verifying' = verifying \cup
            {[screen |-> s, password |-> pw, number |-> submits, step |-> "sent", found |-> NoAccount]}
    /\ UNCHANGED <<person, invites, accepting, lock>>
Larger(a, b) == IF a > b THEN a ELSE b
Hashing(rs) == Cardinality({q \in rs : q.step = "hashing"})
Goes(r, new) == verifying' = (verifying \ {r}) \cup {new}
\* The lock is looked at before the password is checked, and not after.
CheckLock(r) ==
    /\ r.step = "sent"
    /\ \/ locked  /\ Goes(r, [r EXCEPT !.step = "failed"]) /\ UNCHANGED atOnce
       \/ /\ ~locked
          /\ Goes(r, [r EXCEPT !.step = "hashing", !.found = person])
          /\ atOnce' = Larger(atOnce, Hashing(verifying'))
    /\ UNCHANGED <<person, invites, screens, accepting, failures, locked, wrong, submits>>
Matches(r) == r.found.active /\ r.found.password = r.password
Clears == failures' = 0 /\ locked' = FALSE /\ wrong' = 0
       /\ atOnce' = Hashing(verifying')
RecordsLate(r) ==           \* Mutant: the lock comes one failure too late.
    /\ failures' = failures + 1 /\ wrong' = wrong + 1
    /\ locked' = (failures' > MaxFailures)
    /\ UNCHANGED atOnce
Records(r) ==
    /\ failures' = failures + 1 /\ wrong' = wrong + 1
    /\ locked' = (failures' >= MaxFailures)
    /\ UNCHANGED atOnce
VerifyPassword(r) ==
    /\ r.step = "hashing"
    /\ \/ Matches(r)  /\ Goes(r, [r EXCEPT !.step = "right"]) /\ Clears
       \/ ~Matches(r) /\ Goes(r, [r EXCEPT !.step = "failed"]) /\ Records(r)
    /\ UNCHANGED <<person, invites, screens, accepting, submits>>
\* Whatever went wrong, the page says that the password did.
LoginAnswered(r) ==
    /\ r.step \in {"right", "failed"}
    /\ verifying' = verifying \ {r}
    /\ IF Awaited(r) THEN Shows(r.screen, IF r.step = "right" THEN "in" ELSE "login")
                     ELSE UNCHANGED screens
    /\ UNCHANGED <<person, invites, accepting, lock, submits>>
LoginTimesOut(r) ==
    /\ Awaited(r)
    /\ Shows(r.screen, "login")
    /\ UNCHANGED <<person, invites, accepting, verifying, lock, submits>>
\* Five minutes after the first failure, or after the last when it locked.
WindowEnds ==
    /\ failures > 0
    /\ UNCHANGED <<person, invites, screens, accepting, verifying, submits>>
    /\ Clears

Deactivate ==
    /\ person.active /\ Submits
    /\ person' = [person EXCEPT !.active = FALSE]
    /\ UNCHANGED <<invites, screens, accepting, verifying, lock>>

SignNext ==
    \/ \E s \in Screens : GoToLogin(s) \/ \E pw \in Passwords :
           SubmitLogin(s, pw) \/ \E i \in Invites : SubmitInvite(s, i, pw)
    \/ \E r \in accepting : CheckInvite(r) \/ AcceptInvite(r) \/ InviteAnswered(r) \/ InviteTimesOut(r)
    \/ \E r \in verifying : CheckLock(r) \/ VerifyPassword(r) \/ LoginAnswered(r) \/ LoginTimesOut(r)
    \/ WindowEnds \/ Deactivate

-----------------------------------------------------------------------------
\* "The invite token is consumed on use": of all the windows that send links
\* of the same person, only one is told "Account created!", and it is the one
\* whose password the account has.
InviteOnce ==
    /\ Cardinality({s \in Screens : screens[s].shows = "created"}) <= 1
    /\ \A s \in Screens : screens[s].shows = "created" => screens[s].password = person.password

\* "Locked out after _MAX_FAILURES failures": of the passwords that one window
\* of time finds wrong, those beyond the limit were all under way at once with
\* the one that reached it.
LocksInTime == wrong < MaxFailures + (IF atOnce = 0 THEN 1 ELSE atOnce)
=============================================================================
