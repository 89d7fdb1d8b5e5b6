--------------------------- MODULE DashboardProofs -----------------------------
(***************************************************************************)
(* What the pages of DashboardPages promise, for every number of windows,  *)
(* projects, sessions, invites and passwords, for every ledger, trace and  *)
(* set of spans.  The pages share no variable but the one that says which  *)
(* is looked at, so each invariant is proved of its page's own actions and *)
(* then of the composition.                                                *)
(*                                                                         *)
(* Then what the settings page promises (SettingsPage, a specification of  *)
(* its own), for every number of rows, users, saves and clicks: an         *)
(* invariant each for its tables, its forms and the members of a project.  *)
(***************************************************************************)
EXTENDS DashboardPages, SettingsPage, SumProofs

\* Of the variables of one page, the composition takes a step of that page or none.
LEMMA PageSteps ==
    ASSUME [Next]_vars
    PROVE  [ProjectNext]_projectVars /\ [ListNext]_listVars /\ [SignNext]_signVars
BY DEF Next, vars

-----------------------------------------------------------------------------
(* Signing in: the invite. *)

ScreenStates == {"form", "creating", "created", "refused", "login", "signing", "in"}
Steps == {"sent", "hashing", "made", "right", "failed"}
Secrets == Passwords \cup {"none"}
Accounts == [password : Secrets, active : BOOLEAN]

SignTypes ==
    /\ person \in Accounts
    /\ screens \in [Screens -> [shows : ScreenStates, password : Secrets, waits : 0..MaxSubmits]]
    /\ accepting \in SUBSET [screen : Screens, invite : Invites, password : Passwords,
                             number : Nat, step : Steps]
    /\ verifying \in SUBSET [screen : Screens, password : Passwords, number : Nat,
                             step : Steps, found : Accounts]
    /\ submits \in 0..MaxSubmits

\* Requests are told apart by their numbers, and a window waits only for one that it sent
\* and whose password it still shows.
Numbered ==
    /\ \A r \in accepting : r.number < submits
    /\ \A r, q \in accepting : r.number = q.number => r = q
    /\ \A r \in accepting : Awaited(r) => screens[r.screen].password = r.password

\* An account comes from one request.  From then on that request, while its answer is
\* under way, or the window that was answered, is the only one that knows of it.
MadeOnce ==
    /\ person # NoAccount => person.password \in Passwords
    /\ \A r \in accepting : r.step = "made" =>
          person # NoAccount /\ r.password = person.password
    /\ \A r, q \in accepting : r.step = "made" /\ q.step = "made" => r = q
    /\ \A s \in Screens : screens[s].shows = "created" =>
          /\ person # NoAccount /\ screens[s].password = person.password
          /\ \A r \in accepting : r.step # "made"
    /\ \A s, t \in Screens : screens[s].shows = "created" /\ screens[t].shows = "created" => s = t

InviteInv == SignTypes /\ Numbered /\ MadeOnce

\* What a window shows next.
LEMMA ShowsScreen ==
    ASSUME SignTypes, NEW s \in Screens, NEW what \in ScreenStates, Shows(s, what)
    PROVE  /\ screens' \in [Screens -> [shows : ScreenStates, password : Secrets, waits : 0..MaxSubmits]]
           /\ screens'[s].shows = what
           /\ screens'[s].waits = MaxSubmits
           /\ screens'[s].password = screens[s].password
           /\ \A t \in Screens \ {s} : screens'[t] = screens[t]
<1> DEFINE types == [shows : ScreenStates, password : Secrets, waits : 0..MaxSubmits]
           first == [screens[s] EXCEPT !.shows = what]
           middle == [screens EXCEPT ![s] = first]
           second == [middle[s] EXCEPT !.waits = MaxSubmits]
<1>1. screens' = [middle EXCEPT ![s] = second]
  BY DEF Shows, NoAnswer
<1>2. screens \in [Screens -> types] /\ screens[s] \in types
  BY DEF SignTypes
<1>3. first \in types /\ first.shows = what /\ first.password = screens[s].password
  BY <1>2
<1> HIDE DEF first
<1>4. /\ middle \in [Screens -> types] /\ middle[s] = first
      /\ \A t \in Screens \ {s} : middle[t] = screens[t]
  BY <1>2, <1>3
<1> HIDE DEF middle
<1>5. /\ second \in types /\ second.shows = what /\ second.waits = MaxSubmits
      /\ second.password = screens[s].password
  BY <1>3, <1>4, SignAssumption
<1> HIDE DEF second
<1> QED BY <1>1, <1>4, <1>5

\* A change of windows only: none of them is told that an account was made.
LEMMA OtherShows ==
    ASSUME InviteInv, NEW s \in Screens, NEW what \in ScreenStates \ {"created"},
           Shows(s, what), accepting' = accepting, person' = person,
           verifying' \in SUBSET [screen : Screens, password : Passwords, number : Nat,
                                  step : Steps, found : Accounts],
           submits' = submits
    PROVE  InviteInv'
<1>1. /\ screens' \in [Screens -> [shows : ScreenStates, password : Secrets, waits : 0..MaxSubmits]]
      /\ screens'[s].shows = what
      /\ screens'[s].waits = MaxSubmits
      /\ \A t \in Screens \ {s} : screens'[t] = screens[t]
  BY ShowsScreen DEF InviteInv
<1>2. SignTypes'
  BY <1>1 DEF InviteInv, SignTypes
<1>3. Numbered'
  BY <1>1, SignAssumption DEF InviteInv, SignTypes, Numbered, Awaited
<1>4. MadeOnce'
  BY <1>1 DEF InviteInv, MadeOnce
<1> QED BY <1>2, <1>3, <1>4 DEF InviteInv

\* A request goes on, and no account is made.
LEMMA OtherMoves ==
    ASSUME InviteInv, NEW r \in accepting, NEW step \in Steps \ {"made"}, MovesTo(r, step),
           r.step # "made",
           UNCHANGED <<person, screens, verifying, submits>>
    PROVE  InviteInv'
<1> DEFINE new == [r EXCEPT !.step = step]
<1>1. /\ new \in [screen : Screens, invite : Invites, password : Passwords,
                  number : Nat, step : Steps]
      /\ new.number = r.number /\ new.step = step
      /\ new.screen = r.screen /\ new.password = r.password
  BY DEF InviteInv, SignTypes
<1>2. accepting' = (accepting \ {r}) \cup {new}
  BY DEF MovesTo
<1> HIDE DEF new
<1>3. SignTypes'
  BY <1>1, <1>2 DEF InviteInv, SignTypes
<1>4. Numbered'
  BY <1>1, <1>2 DEF InviteInv, Numbered, Awaited
<1>5. MadeOnce'
  BY <1>1, <1>2 DEF InviteInv, MadeOnce
<1> QED BY <1>3, <1>4, <1>5 DEF InviteInv

LEMMA InviteSteps ==
    ASSUME InviteInv, SignNext
    PROVE  InviteInv'
<1> USE DEF InviteInv
<1>1. ASSUME NEW s \in Screens, NEW pw \in Passwords, NEW i \in Invites, SubmitInvite(s, i, pw)
      PROVE  InviteInv'
  <2> DEFINE new == [screen |-> s, invite |-> i, password |-> pw, number |-> submits, step |-> "sent"]
  <2>1. /\ accepting' = accepting \cup {new} /\ UNCHANGED <<person, verifying>>
        /\ submits' = submits + 1 /\ submits < MaxSubmits
        /\ screens[s].shows # "created"
    BY <1>1 DEF SubmitInvite, Submits
  <2>2. /\ new \in [screen : Screens, invite : Invites, password : Passwords,
                    number : Nat, step : Steps]
        /\ new.number = submits /\ new.step = "sent"
        /\ new.screen = s /\ new.password = pw
    BY DEF SignTypes, Steps
  <2> HIDE DEF new
  <2>3. /\ screens' \in [Screens -> [shows : ScreenStates, password : Secrets, waits : 0..MaxSubmits]]
        /\ screens'[s] = [shows |-> "creating", password |-> pw, waits |-> submits]
        /\ \A t \in Screens \ {s} : screens'[t] = screens[t]
    BY <1>1 DEF SubmitInvite, SignTypes, ScreenStates, Secrets
  <2>4. SignTypes'
    BY <2>1, <2>2, <2>3, SignAssumption DEF SignTypes
  <2>5. Numbered'
    BY <2>1, <2>2, <2>3 DEF SignTypes, Numbered, Awaited
  <2>6. MadeOnce'
    BY <2>1, <2>2, <2>3 DEF MadeOnce
  <2> QED BY <2>4, <2>5, <2>6
<1>2. ASSUME NEW s \in Screens, NEW pw \in Passwords, SubmitLogin(s, pw)
      PROVE  InviteInv'
  <2> DEFINE new == [screen |-> s, password |-> pw, number |-> submits, step |-> "sent",
                     found |-> NoAccount]
  <2>1. /\ verifying' = verifying \cup {new} /\ UNCHANGED <<person, accepting>>
        /\ submits' = submits + 1 /\ submits < MaxSubmits
    BY <1>2 DEF SubmitLogin, Submits
  <2>2. new \in [screen : Screens, password : Passwords, number : Nat,
                 step : Steps, found : Accounts]
    BY DEF SignTypes, Steps, Accounts, NoAccount, Secrets
  <2> HIDE DEF new
  <2>3. /\ screens' \in [Screens -> [shows : ScreenStates, password : Secrets, waits : 0..MaxSubmits]]
        /\ screens'[s] = [shows |-> "signing", password |-> pw, waits |-> submits]
        /\ \A t \in Screens \ {s} : screens'[t] = screens[t]
    BY <1>2 DEF SubmitLogin, SignTypes, ScreenStates, Secrets
  <2>4. SignTypes'
    BY <2>1, <2>2, <2>3, SignAssumption DEF SignTypes
  <2>5. Numbered'
    BY <2>1, <2>3 DEF SignTypes, Numbered, Awaited
  <2>6. MadeOnce'
    BY <2>1, <2>3 DEF MadeOnce
  <2> QED BY <2>4, <2>5, <2>6
<1>3. ASSUME NEW r \in accepting, CheckInvite(r) PROVE InviteInv'
  <2>1. PICK step \in {"failed", "hashing"} : MovesTo(r, step)
    BY <1>3 DEF CheckInvite
  <2> QED BY <1>3, <2>1, OtherMoves DEF CheckInvite, Steps
<1>4. ASSUME NEW r \in accepting, AcceptInvite(r) PROVE InviteInv'
  <2>1. CASE MovesTo(r, "failed") /\ UNCHANGED person
    BY <1>4, <2>1, OtherMoves DEF AcceptInvite, Steps
  <2>2. CASE person = NoAccount /\ MovesTo(r, "made")
             /\ person' = [password |-> r.password, active |-> TRUE]
    <3> DEFINE new == [r EXCEPT !.step = "made"]
    <3>1. /\ new \in [screen : Screens, invite : Invites, password : Passwords,
                      number : Nat, step : Steps]
          /\ new.number = r.number /\ new.screen = r.screen /\ new.password = r.password
      BY DEF SignTypes, Steps
    <3>2. accepting' = (accepting \ {r}) \cup {new} /\ UNCHANGED <<screens, verifying, submits>>
      BY <1>4, <2>2 DEF AcceptInvite, MovesTo
    <3> HIDE DEF new
    <3>3. /\ person' \in Accounts /\ person' # NoAccount
          /\ person'.password = new.password /\ person'.password \in Passwords
      BY <2>2, <3>1, SignAssumption DEF SignTypes, Accounts, Secrets, NoAccount
    <3>4. SignTypes'
      BY <3>1, <3>2, <3>3 DEF SignTypes
    <3>5. Numbered'
      BY <3>1, <3>2 DEF Numbered, Awaited
    <3>6. /\ \A q \in accepting : q.step # "made"
          /\ \A s \in Screens : screens[s].shows # "created"
      BY <2>2 DEF MadeOnce
    <3>7. MadeOnce'
      BY <3>2, <3>3, <3>6 DEF MadeOnce
    <3> QED BY <3>4, <3>5, <3>7
  <2> QED BY <1>4, <2>1, <2>2 DEF AcceptInvite
<1>5. ASSUME NEW r \in accepting, InviteAnswered(r) PROVE InviteInv'
  <2>1. /\ accepting' = accepting \ {r} /\ UNCHANGED <<person, verifying, submits>>
        /\ r.screen \in Screens
    BY <1>5 DEF InviteAnswered, SignTypes
  <2>2. CASE UNCHANGED screens
    BY <2>1, <2>2 DEF SignTypes, Numbered, MadeOnce, Awaited
  <2>3. CASE Awaited(r) /\ Shows(r.screen, "refused")
    <3>1. /\ screens' \in [Screens -> [shows : ScreenStates, password : Secrets, waits : 0..MaxSubmits]]
          /\ screens'[r.screen].shows = "refused"
          /\ screens'[r.screen].waits = MaxSubmits
          /\ \A t \in Screens \ {r.screen} : screens'[t] = screens[t]
      BY <2>1, <2>3, ShowsScreen DEF ScreenStates
    <3>2. SignTypes'
      BY <2>1, <3>1 DEF SignTypes
    <3>3. Numbered'
      BY <2>1, <3>1, SignAssumption DEF SignTypes, Numbered, Awaited
    <3>4. MadeOnce'
      BY <2>1, <3>1 DEF MadeOnce
    <3> QED BY <3>2, <3>3, <3>4
  <2>4. CASE Awaited(r) /\ r.step = "made" /\ Shows(r.screen, "created")
    <3>1. /\ screens' \in [Screens -> [shows : ScreenStates, password : Secrets, waits : 0..MaxSubmits]]
          /\ screens'[r.screen].shows = "created"
          /\ screens'[r.screen].waits = MaxSubmits
          /\ screens'[r.screen].password = r.password
          /\ \A t \in Screens \ {r.screen} : screens'[t] = screens[t]
      BY <2>1, <2>4, ShowsScreen DEF ScreenStates, Numbered
    <3>2. SignTypes'
      BY <2>1, <3>1 DEF SignTypes
    <3>3. Numbered'
      BY <2>1, <3>1, SignAssumption DEF SignTypes, Numbered, Awaited
    <3>4. /\ \A s \in Screens : screens[s].shows # "created"
          /\ person # NoAccount /\ r.password = person.password
          /\ \A q \in accepting \ {r} : q.step # "made"
      BY <2>4 DEF MadeOnce
    <3>5. MadeOnce'
      BY <2>1, <3>1, <3>4 DEF MadeOnce
    <3> QED BY <3>2, <3>3, <3>5
  <2> QED BY <1>5, <2>2, <2>3, <2>4 DEF InviteAnswered
<1>6. ASSUME NEW r \in accepting, InviteTimesOut(r) PROVE InviteInv'
  <2>1. r.screen \in Screens
    BY DEF SignTypes
  <2> QED BY <1>6, <2>1, OtherShows DEF InviteTimesOut, ScreenStates, SignTypes
<1>7. ASSUME NEW s \in Screens, GoToLogin(s) PROVE InviteInv'
  BY <1>7, OtherShows DEF GoToLogin, ScreenStates, SignTypes
<1>8. ASSUME verifying' \in SUBSET [screen : Screens, password : Passwords, number : Nat,
                                    step : Steps, found : Accounts],
             UNCHANGED <<person, screens, accepting, submits>>
      PROVE  InviteInv'
  BY <1>8 DEF SignTypes, Numbered, MadeOnce, Awaited
<1>9. ASSUME NEW r \in verifying, CheckLock(r) \/ VerifyPassword(r) PROVE InviteInv'
  <2> DEFINE types == [screen : Screens, password : Passwords, number : Nat,
                       step : Steps, found : Accounts]
  <2>1. UNCHANGED <<person, screens, accepting, submits>>
    BY <1>9 DEF CheckLock, VerifyPassword
  <2>2. /\ person \in Accounts /\ r \in types /\ verifying \in SUBSET types
        /\ "failed" \in Steps /\ "hashing" \in Steps /\ "right" \in Steps
    BY DEF SignTypes, Steps
  <2>3. /\ [r EXCEPT !.step = "failed"] \in types
        /\ [r EXCEPT !.step = "right"] \in types
        /\ [r EXCEPT !.step = "hashing", !.found = person] \in types
    BY <2>2
  <2> HIDE DEF types
  <2>4. PICK new \in types : verifying' = (verifying \ {r}) \cup {new}
    BY <1>9, <2>3 DEF CheckLock, VerifyPassword, Goes
  <2>5. verifying' \in SUBSET types
    BY <2>2, <2>4
  <2> QED BY <1>8, <2>1, <2>5 DEF types
<1>12. ASSUME NEW r \in verifying, LoginAnswered(r) PROVE InviteInv'
  <2>1. /\ verifying' \in SUBSET [screen : Screens, password : Passwords, number : Nat,
                                  step : Steps, found : Accounts]
        /\ UNCHANGED <<person, accepting, submits>> /\ r.screen \in Screens
    BY <1>12 DEF LoginAnswered, lock, SignTypes
  <2>2. CASE UNCHANGED screens
    BY <1>8, <2>1, <2>2
  <2>3. CASE Shows(r.screen, "in") \/ Shows(r.screen, "login")
    BY <2>1, <2>3, OtherShows DEF ScreenStates
  <2> QED BY <1>12, <2>2, <2>3 DEF LoginAnswered
<1>13. ASSUME NEW r \in verifying, LoginTimesOut(r) PROVE InviteInv'
  <2>1. r.screen \in Screens
    BY DEF SignTypes
  <2> QED BY <1>13, <2>1, OtherShows DEF LoginTimesOut, ScreenStates, SignTypes
<1>14. CASE WindowEnds
  BY <1>8, <1>14 DEF WindowEnds, SignTypes
<1>15. CASE Deactivate
  <2>1. /\ person' \in Accounts /\ person'.password = person.password
        /\ person' # NoAccount /\ person # NoAccount
    <3>1. person \in Accounts /\ person.active /\ person' = [person EXCEPT !.active = FALSE]
      BY <1>15 DEF Deactivate, SignTypes
    <3>2. person # NoAccount /\ person.password # "none"
      BY <3>1, SignAssumption DEF NoAccount, MadeOnce
    <3> QED BY <3>1, <3>2 DEF Accounts, NoAccount
  <2>2. submits' = submits + 1 /\ submits < MaxSubmits /\ UNCHANGED <<screens, accepting, verifying>>
    BY <1>15 DEF Deactivate, Submits
  <2>3. SignTypes'
    BY <2>1, <2>2, SignAssumption DEF SignTypes
  <2>4. Numbered'
    BY <2>2 DEF SignTypes, Numbered, Awaited
  <2>5. MadeOnce'
    BY <2>1, <2>2 DEF MadeOnce
  <2> QED BY <2>3, <2>4, <2>5
<1> QED
  BY <1>1, <1>2, <1>3, <1>4, <1>5, <1>6, <1>7, <1>9, <1>12, <1>13, <1>14, <1>15 DEF SignNext

LEMMA InviteInit ==
    ASSUME Init
    PROVE  InviteInv
<1>1. /\ person = NoAccount /\ accepting = {} /\ verifying = {} /\ submits = 0
      /\ screens = [s \in Screens |-> Opened]
  BY DEF Init, SignRests, SignInit
<1>2. SignTypes
  BY <1>1, SignAssumption
  DEF SignTypes, Accounts, NoAccount, Secrets, Opened, NoAnswer, ScreenStates
<1>3. Numbered /\ MadeOnce
  BY <1>1 DEF Numbered, MadeOnce, Opened
<1> QED BY <1>2, <1>3 DEF InviteInv

LEMMA InviteKept ==
    ASSUME InviteInv, [Next]_vars
    PROVE  InviteInv'
<1>1. CASE SignNext
  BY <1>1, InviteSteps
<1>2. CASE UNCHANGED signVars
  BY <1>2 DEF signVars, InviteInv, SignTypes, Numbered, MadeOnce, Awaited
<1> QED BY <1>1, <1>2, PageSteps

\* "The invite token is consumed on use": of all the windows that send links at once, in
\* whatever order the API hashes their passwords, only one is told "Account created!", and
\* its password is the account's.
THEOREM OneAccount == Spec => []InviteOnce
<1>1. Init => InviteInv
  BY InviteInit
<1>2. InviteInv /\ [Next]_vars => InviteInv'
  BY InviteKept
<1>3. InviteInv => InviteOnce
  <2> SUFFICES ASSUME InviteInv PROVE InviteOnce
    OBVIOUS
  <2> DEFINE told == {s \in Screens : screens[s].shows = "created"}
  <2>1. Cardinality(told) <= 1
    <3>1. CASE told = {}
      BY <3>1, FS_EmptySet
    <3>2. CASE \E s \in told : TRUE
      <4>1. PICK s \in told : TRUE
        BY <3>2
      <4>2. told = {s}
        BY <4>1 DEF InviteInv, MadeOnce
      <4>3. Cardinality(told) = 1
        BY <4>2, FS_Singleton
      <4> QED BY <4>3
    <3> QED BY <3>1, <3>2
  <2> QED BY <2>1 DEF InviteOnce, InviteInv, MadeOnce
<1> QED BY <1>1, <1>2, <1>3, PTL DEF Spec

-----------------------------------------------------------------------------
(* Signing in: the lock. *)

LockTypes ==
    /\ IsFiniteSet(verifying)
    /\ failures \in Nat /\ wrong \in Nat /\ atOnce \in Nat
    /\ locked \in BOOLEAN

\* An open lock has room for a failure, and a closed one lets no verification begin: those
\* that are under way are the only ones that can still fail.
LockCounts ==
    /\ failures = wrong
    /\ ~ locked => wrong < MaxFailures
    /\ Hashing(verifying) <= atOnce
    /\ wrong + Hashing(verifying) < MaxFailures + atOnce

LockInv == LockTypes /\ LockCounts

LEMMA SomeFailures == MaxFailures \in Nat /\ 0 < MaxFailures
BY SignAssumption

LEMMA HashingCounts ==
    ASSUME NEW rs, IsFiniteSet(rs)
    PROVE  /\ IsFiniteSet({q \in rs : q.step = "hashing"})
           /\ Hashing(rs) \in Nat
BY FS_Subset, FS_CardinalityType DEF Hashing

\* A request goes on: it is hashing from now on, or no more.
LEMMA HashingMoves ==
    ASSUME LockTypes, NEW r \in verifying, NEW new, Goes(r, new)
    PROVE  /\ IsFiniteSet(verifying')
           /\ Hashing(verifying') \in Nat
           /\ new.step # "hashing" /\ r.step # "hashing" => Hashing(verifying') = Hashing(verifying)
           /\ new.step # "hashing" /\ r.step = "hashing" => Hashing(verifying') = Hashing(verifying) - 1
<1> DEFINE before == {q \in verifying : q.step = "hashing"}
           after == {q \in verifying' : q.step = "hashing"}
<1>1. verifying' = (verifying \ {r}) \cup {new}
  BY DEF Goes
<1>2. IsFiniteSet(verifying') /\ IsFiniteSet(before)
  <2>1. IsFiniteSet(verifying \ {r})
    BY FS_RemoveElement DEF LockTypes
  <2> QED BY <1>1, <2>1, FS_AddElement, HashingCounts DEF LockTypes
<1>3. Hashing(verifying') \in Nat
  BY <1>2, HashingCounts
<1>4. CASE new.step # "hashing" /\ r.step # "hashing"
  <2>1. after = before
    BY <1>1, <1>4
  <2> QED BY <1>2, <1>3, <1>4, <2>1 DEF Hashing
<1>5. CASE new.step # "hashing" /\ r.step = "hashing"
  <2>1. after = before \ {r} /\ r \in before
    BY <1>1, <1>5
  <2>2. Cardinality(after) = Cardinality(before) - 1
    BY <1>2, <2>1, FS_RemoveElement
  <2> QED BY <1>2, <1>3, <1>5, <2>2 DEF Hashing
<1> QED BY <1>2, <1>3, <1>4, <1>5

LEMMA LockSteps ==
    ASSUME SignTypes, LockInv, SignNext
    PROVE  LockInv'
<1> USE DEF LockInv, lock
<1>0. Hashing(verifying) \in Nat
  BY HashingCounts DEF LockTypes
<1>1. ASSUME UNCHANGED <<verifying, failures, locked, wrong, atOnce>>
      PROVE  LockInv'
  BY <1>1 DEF LockTypes, LockCounts, Hashing
<1>2. CASE \/ \E s \in Screens : GoToLogin(s) \/ \E pw \in Passwords, i \in Invites : SubmitInvite(s, i, pw)
           \/ \E r \in accepting : CheckInvite(r) \/ AcceptInvite(r) \/ InviteAnswered(r) \/ InviteTimesOut(r)
           \/ \E r \in verifying : LoginTimesOut(r)
           \/ Deactivate
  <2>1. UNCHANGED <<verifying, failures, locked, wrong, atOnce>>
    BY <1>2 DEF GoToLogin, SubmitInvite, CheckInvite, AcceptInvite, InviteAnswered, InviteTimesOut,
       LoginTimesOut, Deactivate
  <2> QED BY <1>1, <2>1
\* Of the verifications, those that hash are the same.
<1>3. ASSUME IsFiniteSet(verifying'),
             {q \in verifying' : q.step = "hashing"} = {q \in verifying : q.step = "hashing"},
             UNCHANGED <<failures, locked, wrong, atOnce>>
      PROVE  LockInv'
  <2>1. Hashing(verifying') = Hashing(verifying)
    BY <1>3 DEF Hashing
  <2> QED BY <1>3, <2>1 DEF LockTypes, LockCounts
\* The counts begin anew.
<1>4. ASSUME Clears, IsFiniteSet(verifying'), Hashing(verifying') \in Nat
      PROVE  LockInv'
  <2>1. failures' = 0 /\ wrong' = 0 /\ atOnce' = Hashing(verifying') /\ locked' = FALSE
    BY <1>4 DEF Clears
  <2>2. LockTypes'
    BY <1>4, <2>1 DEF LockTypes
  <2>3. /\ wrong' < MaxFailures /\ Hashing(verifying') <= atOnce'
        /\ wrong' + Hashing(verifying') < MaxFailures + atOnce'
    BY <1>4, <2>1, SomeFailures
  <2>4. LockCounts'
    BY <2>1, <2>3 DEF LockCounts
  <2> QED BY <2>2, <2>4
<1>5. ASSUME NEW s \in Screens, NEW pw \in Passwords, SubmitLogin(s, pw) PROVE LockInv'
  <2> DEFINE new == [screen |-> s, password |-> pw, number |-> submits, step |-> "sent",
                     found |-> NoAccount]
  <2>1. verifying' = verifying \cup {new} /\ new.step # "hashing"
    BY <1>5 DEF SubmitLogin
  <2> HIDE DEF new
  <2>2. IsFiniteSet(verifying')
    BY <2>1, FS_AddElement DEF LockTypes
  <2>3. {q \in verifying' : q.step = "hashing"} = {q \in verifying : q.step = "hashing"}
    BY <2>1
  <2> QED BY <1>3, <1>5, <2>2, <2>3 DEF SubmitLogin
<1>6. ASSUME NEW r \in verifying, LoginAnswered(r) PROVE LockInv'
  <2>1. verifying' = verifying \ {r} /\ r.step # "hashing"
    BY <1>6 DEF LoginAnswered
  <2>2. IsFiniteSet(verifying')
    BY <2>1, FS_RemoveElement DEF LockTypes
  <2>3. {q \in verifying' : q.step = "hashing"} = {q \in verifying : q.step = "hashing"}
    BY <2>1
  <2> QED BY <1>3, <1>6, <2>2, <2>3 DEF LoginAnswered
<1>7. ASSUME NEW r \in verifying, CheckLock(r) PROVE LockInv'
  <2> DEFINE refused == [r EXCEPT !.step = "failed"]
             goesOn == [r EXCEPT !.step = "hashing", !.found = person]
  <2>1. r.step = "sent" /\ UNCHANGED <<failures, locked, wrong>>
    BY <1>7 DEF CheckLock
  <2>2. refused.step # "hashing"
    BY DEF SignTypes
  <2>3. CASE locked /\ Goes(r, refused) /\ UNCHANGED atOnce
    <3> HIDE DEF refused
    <3>1. IsFiniteSet(verifying') /\ Hashing(verifying') = Hashing(verifying)
      BY <2>1, <2>2, <2>3, HashingMoves
    <3> QED BY <2>1, <2>3, <3>1 DEF LockTypes, LockCounts
  <2>4. CASE ~locked /\ Goes(r, goesOn) /\ atOnce' = Larger(atOnce, Hashing(verifying'))
    <3> HIDE DEF goesOn
    <3>1. IsFiniteSet(verifying') /\ Hashing(verifying') \in Nat
      BY <2>4, HashingMoves
    <3>2. atOnce' \in Nat /\ Hashing(verifying') <= atOnce'
      BY <2>4, <3>1 DEF Larger, LockTypes
    <3>3. /\ failures' = failures /\ wrong' = wrong /\ ~ locked'
          /\ wrong \in Nat /\ wrong < MaxFailures
      BY <2>1, <2>4 DEF LockTypes, LockCounts
    <3>4. LockTypes'
      BY <2>1, <3>1, <3>2 DEF LockTypes
    <3>5. wrong' + Hashing(verifying') < MaxFailures + atOnce'
      BY <3>1, <3>2, <3>3, SignAssumption
    <3>6. LockCounts'
      BY <3>2, <3>3, <3>5 DEF LockCounts
    <3> QED BY <3>4, <3>6
  <2> QED BY <1>7, <2>3, <2>4 DEF CheckLock
<1>8. ASSUME NEW r \in verifying, VerifyPassword(r) PROVE LockInv'
  <2> DEFINE right == [r EXCEPT !.step = "right"]
             refused == [r EXCEPT !.step = "failed"]
  <2>1. r.step = "hashing" /\ right.step # "hashing" /\ refused.step # "hashing"
    BY <1>8 DEF VerifyPassword, SignTypes
  <2>2. Hashing(verifying') = Hashing(verifying) - 1 /\ Hashing(verifying') \in Nat
        /\ IsFiniteSet(verifying')
    <3> HIDE DEF right, refused
    <3>1. Goes(r, right) \/ Goes(r, refused)
      BY <1>8 DEF VerifyPassword, right, refused
    <3> QED BY <2>1, <3>1, HashingMoves
  <2>3. CASE Clears
    BY <1>4, <2>2, <2>3
  <2>4. CASE Records(r)
    <3>1. /\ failures' = failures + 1 /\ wrong' = wrong + 1 /\ atOnce' = atOnce
          /\ locked' = (failures' >= MaxFailures)
      BY <2>4 DEF Records
    <3>2. LockTypes'
      BY <2>2, <3>1 DEF LockTypes
    <3>3. ~ locked' => wrong' < MaxFailures
      <4>1. failures' = wrong' /\ wrong' \in Nat
        BY <3>1 DEF LockTypes, LockCounts
      <4>2. ~ (failures' >= MaxFailures) => wrong' < MaxFailures
        BY <4>1, SomeFailures
      <4> QED BY <3>1, <4>2, Zenon
    <3>4. /\ Hashing(verifying') <= atOnce'
          /\ wrong' + Hashing(verifying') < MaxFailures + atOnce'
      BY <1>0, <2>2, <3>1, SignAssumption DEF LockTypes, LockCounts
    <3>5. LockCounts'
      BY <3>1, <3>3, <3>4 DEF LockCounts
    <3> QED BY <3>2, <3>5
  <2> QED BY <1>8, <2>3, <2>4 DEF VerifyPassword
<1>9. CASE WindowEnds
  BY <1>0, <1>9, <1>4 DEF WindowEnds, LockTypes
<1> QED BY <1>2, <1>5, <1>6, <1>7, <1>8, <1>9 DEF SignNext

\* "Locked out after _MAX_FAILURES failures": whatever the limit, the number of windows and
\* the order of the verifications, a window of time finds no more wrong passwords than the
\* limit and those under way at once with the one that reached it.
THEOREM Locks == Spec => []LocksInTime
<1>1. Init => InviteInv /\ LockInv
  <2> SUFFICES ASSUME Init PROVE LockInv /\ InviteInv
    OBVIOUS
  <2>1. failures = 0 /\ wrong = 0 /\ atOnce = 0 /\ locked = FALSE /\ verifying = {}
    BY DEF Init, SignRests, SignInit
  <2>2. {q \in verifying : q.step = "hashing"} = {}
    BY <2>1
  <2>3. Hashing(verifying) = 0 /\ IsFiniteSet(verifying)
    BY <2>1, <2>2, FS_EmptySet DEF Hashing
  <2>4. LockTypes
    BY <2>1, <2>3 DEF LockTypes
  <2>5. LockCounts
    BY <2>1, <2>3, SomeFailures DEF LockCounts
  <2> QED BY <2>4, <2>5, InviteInit DEF LockInv
<1>2. InviteInv /\ LockInv /\ [Next]_vars => InviteInv' /\ LockInv'
  <2> SUFFICES ASSUME InviteInv, LockInv, [Next]_vars PROVE LockInv' /\ InviteInv'
    OBVIOUS
  <2>1. CASE SignNext
    BY <2>1, InviteSteps, LockSteps DEF InviteInv
  <2>2. CASE UNCHANGED signVars
    BY <2>2, InviteKept DEF signVars, LockInv, LockTypes, LockCounts, Hashing
  <2> QED BY <2>1, <2>2, PageSteps
<1>3. LockInv => LocksInTime
  <2> SUFFICES ASSUME LockInv PROVE LocksInTime
    OBVIOUS
  <2>1. wrong \in Nat /\ atOnce \in Nat /\ Hashing(verifying) \in Nat
    BY HashingCounts DEF LockInv, LockTypes
  <2>2. wrong + Hashing(verifying) < MaxFailures + atOnce
    BY DEF LockInv, LockCounts
  <2> QED BY <2>1, <2>2, SomeFailures DEF LocksInTime
<1> QED BY <1>1, <1>2, <1>3, PTL DEF Spec

-----------------------------------------------------------------------------
(* The active project. *)

\* A finite set of numbers has a least one: of the sets of those below a member, one
\* contains no other.
LEMMA LeastNatural ==
    ASSUME NEW T \in SUBSET Nat, IsFiniteSet(T), T # {}
    PROVE  \E x \in T : \A y \in T : x <= y
<1> DEFINE UpTo(x) == {y \in T : y <= x}
           family == {UpTo(x) : x \in T}
<1>0. \A x \in T : x \in Int
  OBVIOUS
<1>1. family \subseteq FiniteSubsetsOf(T) /\ family # {}
  <2>1. \A x \in T : UpTo(x) \in SUBSET T
    OBVIOUS
  <2>2. \A x \in T : UpTo(x) \in FiniteSubsetsOf(T)
    BY <2>1, FS_Subset DEF FiniteSubsetsOf
  <2> QED BY <2>2
<1>2. PICK m \in family : \A n \in family : ~ (<<n, m>> \in StrictSubsetOrdering(T))
  BY <1>1, FS_StrictSubsetOrderingWellFounded, WFMin
<1>3. PICK x \in T : m = UpTo(x)
  OBVIOUS
<1>4. ASSUME NEW y \in T, ~ (x <= y) PROVE FALSE
  <2>1. \A z \in T : z <= y => z <= x
    BY <1>0, <1>4
  <2>2. x <= x
    BY <1>0
  <2>3. UpTo(y) \subseteq UpTo(x)
    BY <2>1
  <2>4. x \in UpTo(x) /\ x \notin UpTo(y)
    BY <1>4, <2>2
  <2>5. <<UpTo(y), m>> \in StrictSubsetOrdering(T)
    BY <1>3, <2>3, <2>4 DEF StrictSubsetOrdering
  <2> QED BY <1>2, <2>5
<1> QED BY <1>4

Projects == Early \cup Late

LEMMA FirstOf ==
    ASSUME NEW ps \in SUBSET Projects, ps # {}
    PROVE  First(ps) \in ps
<1>1. ps \in SUBSET Nat /\ IsFiniteSet(ps)
  BY ProjectAssumption, FS_Subset DEF Projects
<1>2. \E p \in ps : \A q \in ps : p <= q
  BY <1>1, LeastNatural
<1> QED BY <1>2 DEF First

LEMMA NoProject == None \notin Projects /\ Early \in SUBSET Projects
BY ProjectAssumption DEF None, Projects

Answers == {Unread, Refused} \cup [kind : {"seen"}, projects : SUBSET Projects, late : BOOLEAN]
Rechecks == [restored : Projects \cup {None}, admin : BOOLEAN, answer : Answers, number : Nat]

CreationRecords == [tab : Tabs \cup {NoTab}, project : Projects, done : BOOLEAN, made : BOOLEAN]
ChoiceRecords == [project : Projects \cup {None}, tabs : SUBSET Tabs, lasts : BOOLEAN]

ProjectTypes ==
    /\ admin \in BOOLEAN
    /\ visible \in SUBSET Projects
    /\ stored \in Projects \cup {None}
    /\ active \in [Tabs -> Projects \cup {None}]
    /\ rechecks \in [Tabs -> SUBSET Rechecks]
    /\ menu \in [Tabs -> SUBSET Projects]
    /\ creations \in SUBSET CreationRecords
    /\ choice \in ChoiceRecords
    /\ sound \in SUBSET Tabs
    /\ acts \in Nat

\* What was chosen last, as long as it should last, is what is stored, what every recheck
\* restored, and what each has found, or will find, in the list.
ChoiceStored ==
    choice.lasts =>
        /\ stored = choice.project
        /\ IF choice.project = None THEN admin ELSE choice.project \in visible
        /\ \A t \in Tabs : \A r \in rechecks[t] :
              /\ r.restored = choice.project /\ r.admin = admin
              /\ r.answer.kind = "seen" /\ choice.project # None =>
                    choice.project \in r.answer.projects
        /\ \A t \in choice.tabs :
              rechecks[t] = {} \/ choice.project = None => active[t] = choice.project

\* An answer that is not late lists the projects that there are for a user who is no
\* admin, and a tab that took a project from such an answer is in one of them.
SoundAnswers ==
    /\ ~ admin => \A t \in Tabs : \A r \in rechecks[t] :
          r.answer.kind = "seen" /\ ~ r.admin /\ ~ r.answer.late => r.answer.projects = visible
    /\ ~ admin /\ visible # {} => \A t \in sound : active[t] \in visible

ProjectInv == ProjectTypes /\ ChoiceStored /\ SoundAnswers

\* What an answer is.
LEMMA AnswerKinds ==
    /\ Unread \in Answers /\ Refused \in Answers
    /\ Unread.kind # "seen" /\ Refused.kind # "seen" /\ Unread # Refused
    /\ \A a \in Answers : a.kind = "seen" => a.projects \in SUBSET Projects /\ a.late \in BOOLEAN
    /\ \A ps \in SUBSET Projects :
          /\ Seen(ps) \in Answers /\ Seen(ps).kind = "seen"
          /\ Seen(ps).projects = ps /\ Seen(ps).late = FALSE
BY DEF Answers, Unread, Refused, Seen

\* A new recheck.
LEMMA NewRecheck ==
    ASSUME ProjectTypes, NEW role \in BOOLEAN
    PROVE  /\ Recheck(role) \in Rechecks
           /\ Recheck(role).restored = stored /\ Recheck(role).admin = role
           /\ Recheck(role).answer = Unread
BY AnswerKinds DEF ProjectTypes, Rechecks, Recheck

\* Answers that are outdated are late from then on, and else as they were.
LEMMA OutdatedRechecks ==
    ASSUME NEW rs \in SUBSET Rechecks
    PROVE  /\ Outdated(rs) \in SUBSET Rechecks
           /\ Outdated(rs) = {} => rs = {}
           /\ \A o \in Outdated(rs) :
                /\ o.answer.kind = "seen" => o.answer.late
                /\ \E r \in rs : /\ o.restored = r.restored /\ o.admin = r.admin
                                 /\ o.answer.kind = r.answer.kind
                                 /\ r.answer.kind = "seen" => o.answer.projects = r.answer.projects
<1> DEFINE late(r) == [r EXCEPT !.answer.late = TRUE]
<1>1. ASSUME NEW r \in rs, r.answer.kind = "seen"
      PROVE  /\ late(r) \in Rechecks
             /\ late(r).restored = r.restored /\ late(r).admin = r.admin
             /\ late(r).answer.kind = "seen" /\ late(r).answer.late
             /\ late(r).answer.projects = r.answer.projects
  <2>1. r \in Rechecks /\ r.answer \in [kind : {"seen"}, projects : SUBSET Projects, late : BOOLEAN]
    BY <1>1, AnswerKinds DEF Rechecks, Answers
  <2>2. [r.answer EXCEPT !.late = TRUE] \in Answers
    BY <2>1 DEF Answers
  <2> QED BY <2>1, <2>2 DEF Rechecks
<1>2. \A o \in Outdated(rs) : \E r \in rs :
        o = IF r.answer.kind = "seen" THEN late(r) ELSE r
  BY DEF Outdated
<1>3. Outdated(rs) = {} => rs = {}
  BY DEF Outdated
<1> HIDE DEF late
<1> QED BY <1>1, <1>2, <1>3

\* A tab takes a project, or is without one.
LEMMA TabTakes ==
    ASSUME ProjectTypes, NEW t \in Tabs, NEW p \in Projects \cup {None},
           active' = [active EXCEPT ![t] = p]
    PROVE  /\ active' \in [Tabs -> Projects \cup {None}]
           /\ active'[t] = p /\ \A u \in Tabs \ {t} : active'[u] = active[u]
BY DEF ProjectTypes

\* The rechecks of one tab change.
LEMMA TabRechecks ==
    ASSUME ProjectTypes, NEW t \in Tabs, NEW rs \in SUBSET Rechecks,
           rechecks' = [rechecks EXCEPT ![t] = rs]
    PROVE  /\ rechecks' \in [Tabs -> SUBSET Rechecks]
           /\ rechecks'[t] = rs /\ \A u \in Tabs \ {t} : rechecks'[u] = rechecks[u]
BY DEF ProjectTypes

\* What an arriving answer does to the tab.
LEMMA ArrivesTypes ==
    ASSUME ProjectTypes, NEW t \in Tabs, NEW r \in rechecks[t], RecheckArrives(t, r)
    PROVE  /\ r \in Rechecks /\ r.answer.projects \in SUBSET Projects
           /\ stored' \in Projects \cup {None}
           /\ active' \in [Tabs -> Projects \cup {None}]
           /\ \A u \in Tabs \ {t} : active'[u] = active[u]
           /\ r.restored \in r.answer.projects => active'[t] = r.restored /\ stored' = r.restored
           /\ r.restored \notin r.answer.projects /\ ~ r.admin /\ r.answer.projects # {} =>
                active'[t] \in r.answer.projects
           /\ r.restored \notin r.answer.projects /\ (r.admin \/ r.answer.projects = {}) =>
                active' = active /\ (r.restored = None => stored' = stored)
<1>1. /\ r \in Rechecks /\ r.answer.projects \in SUBSET Projects
      /\ active \in [Tabs -> Projects \cup {None}] /\ stored \in Projects \cup {None}
  BY AnswerKinds DEF ProjectTypes, Rechecks, RecheckArrives
<1>2. CASE r.restored \in r.answer.projects
  <2>1. r.restored \in Projects
    BY <1>1, <1>2
  <2>2. stored' = r.restored /\ active' = [active EXCEPT ![t] = r.restored]
    BY <1>2 DEF RecheckArrives, Take
  <2> QED BY <1>1, <1>2, <2>1, <2>2, TabTakes
<1>3. CASE r.restored \notin r.answer.projects /\ ~ r.admin /\ r.answer.projects # {}
  <2> DEFINE p == First(r.answer.projects)
  <2>1. p \in r.answer.projects /\ p \in Projects
    BY <1>1, <1>3, FirstOf
  <2>2. stored' = p /\ active' = [active EXCEPT ![t] = p]
    BY <1>3 DEF RecheckArrives, Take
  <2> HIDE DEF p
  <2> QED BY <1>1, <1>3, <2>1, <2>2, TabTakes
<1>4. CASE r.restored \notin r.answer.projects /\ (r.admin \/ r.answer.projects = {})
  BY <1>1, <1>4 DEF RecheckArrives
<1> QED BY <1>2, <1>3, <1>4


\* One of a tab's rechecks is answered.
TabAnswered(t, r, answer) ==
    rechecks' = [rechecks EXCEPT ![t] = (@ \ {r}) \cup {[r EXCEPT !.answer = answer]}]

LEMMA TabAnswers ==
    ASSUME ProjectTypes, NEW t \in Tabs, NEW r \in rechecks[t], NEW answer \in Answers,
           TabAnswered(t, r, answer)
    PROVE  /\ rechecks' \in [Tabs -> SUBSET Rechecks]
           /\ rechecks'[t] # {} /\ \A u \in Tabs \ {t} : rechecks'[u] = rechecks[u]
           /\ \A o \in rechecks'[t] :
                o \in rechecks[t]
                \/ (o.restored = r.restored /\ o.admin = r.admin /\ o.answer = answer)
<1> DEFINE new == [r EXCEPT !.answer = answer]
           rest == (rechecks[t] \ {r}) \cup {new}
<1>1. r \in Rechecks /\ rechecks[t] \in SUBSET Rechecks
  BY DEF ProjectTypes
<1>2. new \in Rechecks /\ new.restored = r.restored /\ new.admin = r.admin /\ new.answer = answer
  BY <1>1 DEF Rechecks
<1>3. rechecks' = [rechecks EXCEPT ![t] = rest]
  BY DEF TabAnswered
<1>4. rest \in SUBSET Rechecks /\ rest # {} /\ \A o \in rest : o \in rechecks[t] \/ o = new
  BY <1>1, <1>2
<1> HIDE DEF new, rest
<1> QED BY <1>2, <1>3, <1>4, TabRechecks

\* One of a tab's rechecks ends.
LEMMA TabForgets ==
    ASSUME ProjectTypes, NEW t \in Tabs, NEW r \in rechecks[t],
           rechecks' = [rechecks EXCEPT ![t] = @ \ {r}]
    PROVE  /\ rechecks' \in [Tabs -> SUBSET Rechecks]
           /\ rechecks'[t] = rechecks[t] \ {r}
           /\ \A u \in Tabs \ {t} : rechecks'[u] = rechecks[u]
<1>1. rechecks[t] \ {r} \in SUBSET Rechecks
  BY DEF ProjectTypes
<1> QED BY <1>1, TabRechecks

\* What may happen to the choice: it is given up, or binds another tab, or is a new one.
LEMMA GivenUp ==
    ASSUME ProjectTypes, Forgotten
    PROVE  choice' \in ChoiceRecords /\ ~ choice'.lasts
BY DEF ProjectTypes, ChoiceRecords, Forgotten

LEMMA Bound ==
    ASSUME ProjectTypes, NEW t \in Tabs, choice' = [choice EXCEPT !.tabs = @ \cup {t}]
    PROVE  /\ choice' \in ChoiceRecords /\ choice'.project = choice.project
           /\ choice'.lasts = choice.lasts /\ choice'.tabs = choice.tabs \cup {t}
BY DEF ProjectTypes, ChoiceRecords

LEMMA Chooses ==
    ASSUME ProjectTypes, NEW t \in Tabs, NEW p \in Projects \cup {None}, setActiveProject(t, p)
    PROVE  /\ stored' = p /\ active' \in [Tabs -> Projects \cup {None}]
           /\ active'[t] = p /\ \A u \in Tabs \ {t} : active'[u] = active[u]
           /\ choice' \in ChoiceRecords /\ choice'.project = p /\ choice'.tabs = {t}
           /\ choice'.lasts => ~ Rechecking /\ p \in visible \cup {None}
           /\ sound' \in SUBSET sound
           /\ p \notin visible => t \notin sound'
<1>1. (~ Rechecking /\ p \in visible \cup {None}) \in BOOLEAN
  OBVIOUS
<1>2. /\ choice' \in ChoiceRecords /\ choice'.project = p /\ choice'.tabs = {t}
      /\ choice'.lasts => ~ Rechecking /\ p \in visible \cup {None}
  BY <1>1 DEF setActiveProject, Chosen, ChoiceRecords
<1>3. stored' = p /\ active' = [active EXCEPT ![t] = p]
  BY DEF setActiveProject, Take
<1>4. sound' \in SUBSET sound /\ (p \notin visible => t \notin sound')
  BY DEF setActiveProject, Chosen
<1> QED BY <1>2, <1>3, <1>4, TabTakes

\* What may happen to a creation: its tab goes away, or it is done.
LEMMA Left ==
    ASSUME ProjectTypes, NEW t \in Tabs,
           creations' = {IF c.tab = t THEN [c EXCEPT !.tab = NoTab] ELSE c : c \in creations}
    PROVE  creations' \in SUBSET CreationRecords
<1> DEFINE gone(c) == [c EXCEPT !.tab = NoTab]
<1>1. ASSUME NEW c \in creations PROVE c \in CreationRecords /\ gone(c) \in CreationRecords
  BY DEF ProjectTypes, CreationRecords
<1>2. creations' = {IF c.tab = t THEN gone(c) ELSE c : c \in creations}
  OBVIOUS
<1> HIDE DEF gone
<1> QED BY <1>1, <1>2

LEMMA Created ==
    ASSUME ProjectTypes, NEW c \in creations, CreationRead(c)
    PROVE  creations' \in SUBSET CreationRecords
<1> DEFINE new == [c EXCEPT !.done = TRUE, !.made = admin]
<1>1. new \in CreationRecords
  BY DEF ProjectTypes, CreationRecords
<1>2. creations' = (creations \ {c}) \cup {new}
  BY DEF CreationRead
<1> HIDE DEF new
<1> QED BY <1>1, <1>2 DEF ProjectTypes


LEMMA ProjectStepTypes ==
    ASSUME ProjectTypes, ProjectNext
    PROVE  ProjectTypes'
<1>0. Act => acts' \in Nat
  BY DEF ProjectTypes, Act
<1>1. ASSUME NEW t \in Tabs, RenewSession(t) PROVE ProjectTypes'
  <2>1. rechecks[t] \cup {Recheck(admin)} \in SUBSET Rechecks
    BY NewRecheck DEF ProjectTypes
  <2>2. rechecks' \in [Tabs -> SUBSET Rechecks]
    BY <1>1, <2>1, TabRechecks DEF RenewSession
  <2>3. choice' \in ChoiceRecords
    BY <1>1, Bound DEF RenewSession, ProjectTypes
  <2>4. UNCHANGED <<account, stored, active, menu, creations, sound>> /\ acts' \in Nat
    BY <1>0, <1>1 DEF RenewSession
  <2> QED BY <2>2, <2>3, <2>4 DEF account, ProjectTypes
<1>2. ASSUME NEW t \in Tabs, Reload(t) PROVE ProjectTypes'
  <2>1. {Recheck(admin)} \in SUBSET Rechecks
    BY NewRecheck DEF ProjectTypes
  <2>2. rechecks' \in [Tabs -> SUBSET Rechecks]
    BY <1>2, <2>1, TabRechecks DEF Reload
  <2>3. active' \in [Tabs -> Projects \cup {None}]
    BY <1>2, TabTakes DEF Reload
  <2>4. creations' \in SUBSET CreationRecords /\ choice' \in ChoiceRecords
    BY <1>2, Left, Bound DEF Reload
  <2>5. menu' \in [Tabs -> SUBSET Projects]
    BY <1>2 DEF Reload, ProjectTypes
  <2>6. UNCHANGED <<account, stored>> /\ acts' \in Nat /\ sound' \in SUBSET sound
    BY <1>0, <1>2 DEF Reload
  <2> QED BY <2>2, <2>3, <2>4, <2>5, <2>6 DEF account, ProjectTypes
<1>3. ASSUME NEW t \in Tabs, NEW role \in BOOLEAN, NEW p \in Early, SignInAs(t, role, {p})
      PROVE  ProjectTypes'
  <2>1. {p} \in SUBSET Projects
    BY NoProject
  <2>2. \A u \in Tabs : (IF u = t THEN {} ELSE Outdated(rechecks[u])) \cup {Recheck(role)} \in SUBSET Rechecks
    BY NewRecheck, OutdatedRechecks DEF ProjectTypes
  <2>3. rechecks' \in [Tabs -> SUBSET Rechecks]
    BY <1>3, <2>2 DEF SignInAs
  <2>4. active' \in [Tabs -> Projects \cup {None}]
    BY <1>3, TabTakes DEF SignInAs
  <2>5. creations' \in SUBSET CreationRecords /\ choice' \in ChoiceRecords
    BY <1>3, Left, GivenUp DEF SignInAs
  <2>6. menu' \in [Tabs -> SUBSET Projects]
    BY <1>3, <2>1 DEF SignInAs, ProjectTypes
  <2>7. /\ admin' = role /\ visible' = {p} /\ sound' = {} /\ stored' = stored
        /\ acts' \in Nat
    BY <1>0, <1>3 DEF SignInAs
  <2> QED BY <2>1, <2>3, <2>4, <2>5, <2>6, <2>7 DEF ProjectTypes
<1>5. ASSUME NEW t \in Tabs, NEW r \in rechecks[t], RecheckRead(t, r) PROVE ProjectTypes'
  <2>1. Seen(visible) \in Answers
    BY AnswerKinds DEF ProjectTypes
  <2>2. rechecks' \in [Tabs -> SUBSET Rechecks]
    BY <1>5, <2>1, TabAnswers DEF RecheckRead, TabAnswered
  <2>3. UNCHANGED <<account, stored, active, menu, creations, choice, sound, acts>>
    BY <1>5 DEF RecheckRead
  <2> QED BY <2>2, <2>3 DEF account, ProjectTypes
<1>6. ASSUME NEW t \in Tabs, NEW r \in rechecks[t], RecheckRefused(t, r) PROVE ProjectTypes'
  <2>1. rechecks' \in [Tabs -> SUBSET Rechecks]
    BY <1>6, TabAnswers, AnswerKinds DEF RecheckRefused, TabAnswered
  <2>2. UNCHANGED <<account, stored, active, menu, creations, choice, sound>> /\ acts' \in Nat
    BY <1>0, <1>6 DEF RecheckRefused
  <2> QED BY <2>1, <2>2 DEF account, ProjectTypes
<1>8. ASSUME NEW t \in Tabs, NEW r \in rechecks[t], RecheckArrives(t, r) PROVE ProjectTypes'
  <2>1. /\ stored' \in Projects \cup {None}
        /\ active' \in [Tabs -> Projects \cup {None}]
    BY <1>8, ArrivesTypes
  <2>2. sound' \in SUBSET Tabs
    BY <1>8 DEF RecheckArrives, ProjectTypes
  <2>3. rechecks' \in [Tabs -> SUBSET Rechecks]
    BY <1>8, TabForgets DEF RecheckArrives
  <2>4. UNCHANGED <<account, menu, creations, choice, acts>>
    BY <1>8 DEF RecheckArrives
  <2> QED BY <2>1, <2>2, <2>3, <2>4 DEF account, ProjectTypes
<1>9. ASSUME NEW t \in Tabs, NEW r \in rechecks[t], RecheckEnds(t, r) PROVE ProjectTypes'
  <2>1. rechecks' \in [Tabs -> SUBSET Rechecks] /\ choice' \in ChoiceRecords
    BY <1>9, TabForgets, GivenUp DEF RecheckEnds
  <2>2. UNCHANGED <<account, stored, active, menu, creations, acts>> /\ sound' \in SUBSET sound
    BY <1>9 DEF RecheckEnds
  <2> QED BY <2>1, <2>2 DEF account, ProjectTypes
<1>10. ASSUME NEW t \in Tabs, NEW r \in rechecks[t], RecheckFails(t, r) PROVE ProjectTypes'
  <2>1. r.restored \in Projects \cup {None}
    BY DEF ProjectTypes, Rechecks
  <2>2. active' \in [Tabs -> Projects \cup {None}]
    BY <1>10, <2>1, TabTakes DEF RecheckFails, ProjectTypes
  <2>3. rechecks' \in [Tabs -> SUBSET Rechecks] /\ choice' \in ChoiceRecords
    BY <1>10, TabForgets, GivenUp DEF RecheckFails
  <2>4. UNCHANGED <<account, stored, menu, creations>> /\ sound' \in SUBSET sound /\ acts' \in Nat
    BY <1>0, <1>10 DEF RecheckFails
  <2> QED BY <2>2, <2>3, <2>4 DEF account, ProjectTypes
<1>12. ASSUME NEW t \in Tabs, NEW p \in Projects \cup {None}, Choose(t, p) PROVE ProjectTypes'
  <2>1. UNCHANGED <<account, rechecks, menu, creations>> /\ acts' \in Nat /\ setActiveProject(t, p)
    BY <1>0, <1>12 DEF Choose
  <2> QED BY <2>1, Chooses DEF account, ProjectTypes
<1>13. ASSUME NEW t \in Tabs, NEW p \in Late, HandleCreate(t, p) PROVE ProjectTypes'
  <2>1. [tab |-> t, project |-> p, done |-> FALSE, made |-> FALSE] \in CreationRecords
    BY DEF Projects, CreationRecords
  <2>2. creations' \in SUBSET CreationRecords
    BY <1>13, <2>1 DEF HandleCreate, ProjectTypes
  <2>3. UNCHANGED <<account, stored, active, rechecks, menu, choice, sound>> /\ acts' \in Nat
    BY <1>0, <1>13 DEF HandleCreate
  <2> QED BY <2>2, <2>3 DEF account, ProjectTypes
<1>14. ASSUME NEW c \in creations, CreationRead(c) PROVE ProjectTypes'
  <2>1. c.project \in Projects
    BY DEF ProjectTypes, CreationRecords
  <2>2. visible' \in SUBSET Projects
    BY <1>14, <2>1 DEF CreationRead, ProjectTypes
  <2>3. creations' \in SUBSET CreationRecords
    BY <1>14, Created
  <2>4. UNCHANGED <<admin, stored, active, rechecks, menu, choice, sound, acts>>
    BY <1>14 DEF CreationRead
  <2> QED BY <2>2, <2>3, <2>4 DEF ProjectTypes
<1>15. ASSUME NEW c \in creations, CreationEnds(c) PROVE ProjectTypes'
  <2>1. c.tab \in Tabs \cup {NoTab} /\ c.project \in Projects
    BY DEF ProjectTypes, CreationRecords
  <2>2. UNCHANGED <<account, rechecks, menu, acts>> /\ creations' \in SUBSET creations
    BY <1>15 DEF CreationEnds
  <2>3. CASE c.made /\ c.tab # NoTab
    <3>1. setActiveProject(c.tab, c.project) /\ c.tab \in Tabs
      BY <1>15, <2>1, <2>3 DEF CreationEnds
    <3> QED BY <2>1, <2>2, <3>1, Chooses DEF account, ProjectTypes
  <2>4. CASE ~ (c.made /\ c.tab # NoTab)
    <3>1. UNCHANGED <<stored, active, choice, sound>>
      BY <1>15, <2>4 DEF CreationEnds
    <3> QED BY <2>2, <3>1 DEF account, ProjectTypes
  <2> QED BY <2>3, <2>4
<1>16. ASSUME NEW p, Withdraw(p) PROVE ProjectTypes'
  <2>1. \A t \in Tabs : Outdated(rechecks[t]) \in SUBSET Rechecks
    BY OutdatedRechecks DEF ProjectTypes
  <2>2. rechecks' \in [Tabs -> SUBSET Rechecks]
    BY <1>16, <2>1 DEF Withdraw
  <2>3. choice' \in ChoiceRecords
    BY <1>16, GivenUp DEF Withdraw, ProjectTypes
  <2>4. /\ UNCHANGED <<admin, stored, active, menu, creations>>
        /\ acts' \in Nat /\ sound' = {} /\ visible' \in SUBSET visible
    BY <1>0, <1>16 DEF Withdraw
  <2> QED BY <2>2, <2>3, <2>4 DEF ProjectTypes
<1>17. CASE MenusPoll
  BY <1>17 DEF MenusPoll, account, ProjectTypes
<1> QED
  BY <1>1, <1>2, <1>3, <1>5, <1>6, <1>8, <1>9, <1>10, <1>12, <1>13, <1>14, <1>15, <1>16, <1>17
  DEF ProjectNext, Projects

\* A step keeps the choice.
LEMMA ProjectStepChoice ==
    ASSUME ProjectTypes, ProjectTypes', ChoiceStored, ProjectNext
    PROVE  ChoiceStored'
<1> SUFFICES ASSUME choice'.lasts
             PROVE  /\ stored' = choice'.project
                    /\ IF choice'.project = None THEN admin' ELSE choice'.project \in visible'
                    /\ \A u \in Tabs : \A o \in rechecks'[u] :
                          /\ o.restored = choice'.project /\ o.admin = admin'
                          /\ o.answer.kind = "seen" /\ choice'.project # None =>
                                choice'.project \in o.answer.projects
                    /\ \A u \in choice'.tabs :
                          rechecks'[u] = {} \/ choice'.project = None => active'[u] = choice'.project
  BY DEF ChoiceStored
<1> DEFINE found(o, p, role) ==
               /\ o.restored = p /\ o.admin = role
               /\ o.answer.kind = "seen" /\ p # None => p \in o.answer.projects
           goal == /\ stored' = choice'.project
                   /\ IF choice'.project = None THEN admin' ELSE choice'.project \in visible'
                   /\ \A u \in Tabs : \A o \in rechecks'[u] : found(o, choice'.project, admin')
                   /\ \A u \in choice'.tabs :
                         rechecks'[u] = {} \/ choice'.project = None => active'[u] = choice'.project
<1>0. ASSUME choice.lasts
      PROVE  /\ stored = choice.project
             /\ IF choice.project = None THEN admin ELSE choice.project \in visible
             /\ \A u \in Tabs : \A o \in rechecks[u] : found(o, choice.project, admin)
             /\ \A u \in choice.tabs :
                   rechecks[u] = {} \/ choice.project = None => active[u] = choice.project
  BY <1>0 DEF ChoiceStored
<1>a. choice.tabs \in SUBSET Tabs /\ choice'.tabs \in SUBSET Tabs
  BY DEF ProjectTypes, ChoiceRecords
<1>b. ASSUME NEW t \in Tabs, NEW p \in Projects \cup {None}, setActiveProject(t, p),
             p = None => admin, UNCHANGED <<admin, rechecks>>, visible' = visible
      PROVE  goal
  <2>1. ~ Rechecking /\ p \in visible \cup {None}
    BY <1>b, Chooses
  <2>2. \A u \in Tabs : rechecks'[u] = {}
    BY <1>b, <2>1 DEF Rechecking
  <2>3. stored' = p /\ choice'.project = p /\ choice'.tabs = {t} /\ active'[t] = p
    BY <1>b, Chooses
  <2>4. IF p = None THEN admin' ELSE p \in visible'
    BY <1>b, <2>1
  <2> QED BY <2>2, <2>3, <2>4
<1>1. ASSUME NEW t \in Tabs, RenewSession(t) PROVE goal
  <2> DEFINE new == Recheck(admin)
  <2>1. rechecks[t] \cup {new} \in SUBSET Rechecks
    BY NewRecheck DEF ProjectTypes
  <2>2. /\ rechecks'[t] = rechecks[t] \cup {new}
        /\ \A u \in Tabs \ {t} : rechecks'[u] = rechecks[u]
    BY <1>1, <2>1, TabRechecks DEF RenewSession
  <2>3. found(new, stored, admin)
    BY NewRecheck, AnswerKinds DEF ProjectTypes
  <2>4. /\ choice'.project = choice.project /\ choice'.lasts = choice.lasts
        /\ choice'.tabs = IF choice.project = None THEN choice.tabs ELSE choice.tabs \cup {t}
    BY <1>1, Bound DEF RenewSession
  <2>5. UNCHANGED <<admin, visible, stored, active>>
    BY <1>1 DEF RenewSession, account
  <2> HIDE DEF new, found
  <2> QED BY <1>0, <1>a, <2>2, <2>3, <2>4, <2>5
<1>2. ASSUME NEW t \in Tabs, Reload(t) PROVE goal
  <2> DEFINE new == Recheck(admin)
  <2>1. {new} \in SUBSET Rechecks
    BY NewRecheck DEF ProjectTypes
  <2>2. rechecks'[t] = {new} /\ \A u \in Tabs \ {t} : rechecks'[u] = rechecks[u]
    BY <1>2, <2>1, TabRechecks DEF Reload
  <2>3. found(new, stored, admin)
    BY NewRecheck, AnswerKinds DEF ProjectTypes
  <2>4. /\ choice'.project = choice.project /\ choice'.lasts = choice.lasts
        /\ choice'.tabs = choice.tabs \cup {t}
    BY <1>2, Bound DEF Reload
  <2>5. UNCHANGED <<admin, visible, stored>>
    BY <1>2 DEF Reload, account
  <2>6. active'[t] = None /\ \A u \in Tabs \ {t} : active'[u] = active[u]
    BY <1>2, TabTakes DEF Reload
  <2> HIDE DEF new, found
  <2> QED BY <1>0, <1>a, <2>2, <2>3, <2>4, <2>5, <2>6
<1>3. ASSUME NEW t \in Tabs, NEW role \in BOOLEAN, NEW p \in Early, SignInAs(t, role, {p})
      PROVE  goal
  BY <1>3, GivenUp DEF SignInAs
<1>5. ASSUME NEW t \in Tabs, NEW r \in rechecks[t], RecheckRead(t, r) PROVE goal
  <2>0. UNCHANGED <<admin, visible, stored, active, choice>>
    BY <1>5 DEF RecheckRead, account
  <2>1. /\ Seen(visible) \in Answers /\ Seen(visible).projects = visible
    BY AnswerKinds DEF ProjectTypes
  <2>a. TabAnswered(t, r, Seen(visible))
    BY <1>5 DEF RecheckRead, TabAnswered
  <2>2. /\ rechecks'[t] # {} /\ \A u \in Tabs \ {t} : rechecks'[u] = rechecks[u]
        /\ \A o \in rechecks'[t] :
             o \in rechecks[t]
             \/ (o.restored = r.restored /\ o.admin = r.admin /\ o.answer = Seen(visible))
    BY <2>a, <2>1, TabAnswers
  <2>3. ASSUME NEW o \in rechecks'[t] PROVE found(o, choice.project, admin)
    <3>1. CASE o \in rechecks[t]
      BY <1>0, <2>0, <3>1
    <3>2. CASE o.restored = r.restored /\ o.admin = r.admin /\ o.answer = Seen(visible)
      BY <1>0, <2>0, <2>1, <3>2
    <3> QED BY <2>2, <3>1, <3>2
  <2> HIDE DEF found
  <2> QED BY <1>0, <1>a, <2>0, <2>2, <2>3
<1>6. ASSUME NEW t \in Tabs, NEW r \in rechecks[t], RecheckRefused(t, r) PROVE goal
  <2>0. UNCHANGED <<admin, visible, stored, active, choice>>
    BY <1>6 DEF RecheckRefused, account
  <2>a. TabAnswered(t, r, Refused)
    BY <1>6 DEF RecheckRefused, TabAnswered
  <2>2. /\ rechecks'[t] # {} /\ \A u \in Tabs \ {t} : rechecks'[u] = rechecks[u]
        /\ \A o \in rechecks'[t] :
             o \in rechecks[t]
             \/ (o.restored = r.restored /\ o.admin = r.admin /\ o.answer = Refused)
    BY <2>a, AnswerKinds, TabAnswers
  <2>3. ASSUME NEW o \in rechecks'[t] PROVE found(o, choice.project, admin)
    <3>1. CASE o \in rechecks[t]
      BY <1>0, <2>0, <3>1
    <3>2. CASE o.restored = r.restored /\ o.admin = r.admin /\ o.answer = Refused
      BY <1>0, <2>0, AnswerKinds, <3>2
    <3> QED BY <2>2, <3>1, <3>2
  <2> HIDE DEF found
  <2> QED BY <1>0, <1>a, <2>0, <2>2, <2>3
<1>8. ASSUME NEW t \in Tabs, NEW r \in rechecks[t], RecheckArrives(t, r) PROVE goal
  <2>0. UNCHANGED <<admin, visible, choice>>
    BY <1>8 DEF RecheckArrives, account
  <2>1. found(r, choice.project, admin) /\ r.answer.kind = "seen" /\ r.answer.projects \in SUBSET Projects
    BY <1>0, <1>8, <2>0, ArrivesTypes DEF RecheckArrives
  <2>2. /\ rechecks'[t] = rechecks[t] \ {r}
        /\ \A u \in Tabs \ {t} : rechecks'[u] = rechecks[u] /\ active'[u] = active[u]
    BY <1>8, TabForgets, ArrivesTypes DEF RecheckArrives
  <2>3. CASE choice.project # None
    <3>1. active'[t] = choice.project /\ stored' = choice.project
      BY <1>8, <2>1, <2>3, ArrivesTypes
    <3> HIDE DEF found
    <3> QED BY <1>0, <1>a, <2>0, <2>2, <2>3, <3>1
  <2>4. CASE choice.project = None
    <3>1. admin /\ r.restored = None /\ r.admin
      BY <1>0, <2>0, <2>1, <2>4
    <3>2. r.restored \notin r.answer.projects
      BY <2>1, <3>1, NoProject
    <3>3. active' = active /\ stored' = stored
      BY <1>8, <3>1, <3>2, ArrivesTypes
    <3> HIDE DEF found
    <3> QED BY <1>0, <1>a, <2>0, <2>2, <2>4, <3>3
  <2> QED BY <2>3, <2>4
<1>9. ASSUME NEW t \in Tabs, NEW r \in rechecks[t], RecheckEnds(t, r) PROVE goal
  BY <1>9, GivenUp DEF RecheckEnds
<1>10. ASSUME NEW t \in Tabs, NEW r \in rechecks[t], RecheckFails(t, r) PROVE goal
  BY <1>10, GivenUp DEF RecheckFails
<1>12. ASSUME NEW t \in Tabs, NEW p \in Projects \cup {None}, Choose(t, p) PROVE goal
  <2>1. menu[t] \in SUBSET Projects
    BY DEF ProjectTypes
  <2>2. p = None => admin
    BY <1>12, <2>1, NoProject DEF Choose
  <2>3. setActiveProject(t, p) /\ UNCHANGED <<admin, rechecks>> /\ visible' = visible
    BY <1>12 DEF Choose, account
  <2> QED BY <1>b, <2>2, <2>3
<1>13. ASSUME NEW t \in Tabs, NEW p \in Late, HandleCreate(t, p) PROVE goal
  <2> HIDE DEF found
  <2> QED BY <1>0, <1>13 DEF HandleCreate, account
<1>14. ASSUME NEW c \in creations, CreationRead(c) PROVE goal
  <2>1. UNCHANGED <<admin, stored, active, rechecks, choice>> /\ visible \subseteq visible'
    BY <1>14 DEF CreationRead
  <2> HIDE DEF found
  <2> QED BY <1>0, <2>1
<1>15. ASSUME NEW c \in creations, CreationEnds(c) PROVE goal
  <2>1. c.tab \in Tabs \cup {NoTab} /\ c.project \in Projects
    BY DEF ProjectTypes, CreationRecords
  <2>2. UNCHANGED <<admin, rechecks>> /\ visible' = visible
    BY <1>15 DEF CreationEnds, account
  <2>3. CASE c.made /\ c.tab # NoTab
    <3>1. setActiveProject(c.tab, c.project) /\ c.tab \in Tabs /\ c.project # None
      BY <1>15, <2>1, <2>3, NoProject DEF CreationEnds
    <3> QED BY <1>b, <2>1, <2>2, <3>1
  <2>4. CASE ~ (c.made /\ c.tab # NoTab)
    <3>1. UNCHANGED <<stored, active, choice>>
      BY <1>15, <2>4 DEF CreationEnds
    <3> HIDE DEF found
    <3> QED BY <1>0, <2>2, <3>1
  <2> QED BY <2>3, <2>4
<1>16. ASSUME NEW p, Withdraw(p) PROVE goal
  <2>1. UNCHANGED <<admin, stored, active>> /\ visible' = visible \ {p}
    BY <1>16 DEF Withdraw
  <2>2. choice' = choice /\ p # choice.project
    BY <1>16, GivenUp DEF Withdraw
  <2>3. rechecks' = [t \in Tabs |-> Outdated(rechecks[t])]
    BY <1>16 DEF Withdraw
  <2>4. ASSUME NEW u \in Tabs, NEW o \in rechecks'[u] PROVE found(o, choice.project, admin)
    <3>1. rechecks[u] \in SUBSET Rechecks /\ o \in Outdated(rechecks[u])
      BY <2>3 DEF ProjectTypes
    <3>2. PICK r \in rechecks[u] :
             /\ o.restored = r.restored /\ o.admin = r.admin
             /\ o.answer.kind = r.answer.kind
             /\ r.answer.kind = "seen" => o.answer.projects = r.answer.projects
      BY <3>1, OutdatedRechecks
    <3>3. found(r, choice.project, admin)
      BY <1>0, <2>2
    <3> QED BY <3>2, <3>3
  <2>5. \A u \in Tabs : rechecks'[u] = {} => rechecks[u] = {}
    BY <2>3, OutdatedRechecks DEF ProjectTypes
  <2> HIDE DEF found
  <2> QED BY <1>0, <1>a, <2>1, <2>2, <2>4, <2>5
<1>17. ASSUME MenusPoll PROVE goal
  <2>1. UNCHANGED <<admin, visible, stored, active, rechecks, choice>>
    BY <1>17 DEF MenusPoll, account
  <2>2. goal
    <3> HIDE DEF found
    <3> QED BY <1>0, <2>1
  <2> QED BY <2>2
<1>18. goal
  <2> HIDE DEF goal
  <2> QED BY <1>1, <1>2, <1>3, <1>5, <1>6, <1>8, <1>9, <1>10, <1>12, <1>13, <1>14, <1>15, <1>16, <1>17
    DEF ProjectNext, Projects
<1> QED BY <1>18

\* A step keeps what the answers say, and what was taken from them.
LEMMA ProjectStepAnswers ==
    ASSUME ProjectTypes, ProjectTypes', SoundAnswers, ProjectNext
    PROVE  SoundAnswers'
<1> DEFINE true(o, ps) ==
               o.answer.kind = "seen" /\ ~ o.admin /\ ~ o.answer.late => o.answer.projects = ps
           goal == /\ ~ admin' => \A u \in Tabs : \A o \in rechecks'[u] : true(o, visible')
                   /\ ~ admin' /\ visible' # {} => \A u \in sound' : active'[u] \in visible'
<1>0. /\ ~ admin => \A u \in Tabs : \A o \in rechecks[u] : true(o, visible)
      /\ ~ admin /\ visible # {} => \A u \in sound : active[u] \in visible
      /\ sound \in SUBSET Tabs
  BY DEF SoundAnswers, ProjectTypes
<1>a. \A role \in BOOLEAN : \A ps : true(Recheck(role), ps)
  BY NewRecheck, AnswerKinds
<1>b. ASSUME NEW t \in Tabs, NEW p \in Projects \cup {None}, setActiveProject(t, p),
             UNCHANGED <<admin, visible, rechecks>>
      PROVE  goal
  <2>1. /\ active'[t] = p /\ \A u \in Tabs \ {t} : active'[u] = active[u]
        /\ sound' \in SUBSET sound /\ (p \notin visible => t \notin sound')
    BY <1>b, Chooses
  <2> HIDE DEF true
  <2> QED BY <1>0, <1>b, <2>1
<1>1. ASSUME NEW t \in Tabs, RenewSession(t) PROVE goal
  <2>1. rechecks[t] \cup {Recheck(admin)} \in SUBSET Rechecks /\ true(Recheck(admin), visible)
    BY <1>a, NewRecheck DEF ProjectTypes
  <2>2. /\ rechecks'[t] = rechecks[t] \cup {Recheck(admin)}
        /\ \A u \in Tabs \ {t} : rechecks'[u] = rechecks[u]
    BY <1>1, <2>1, TabRechecks DEF RenewSession
  <2>3. UNCHANGED <<admin, visible, active, sound>>
    BY <1>1 DEF RenewSession, account
  <2> HIDE DEF true
  <2> QED BY <1>0, <2>1, <2>2, <2>3
<1>2. ASSUME NEW t \in Tabs, Reload(t) PROVE goal
  <2>1. {Recheck(admin)} \in SUBSET Rechecks /\ true(Recheck(admin), visible)
    BY <1>a, NewRecheck DEF ProjectTypes
  <2>2. rechecks'[t] = {Recheck(admin)} /\ \A u \in Tabs \ {t} : rechecks'[u] = rechecks[u]
    BY <1>2, <2>1, TabRechecks DEF Reload
  <2>3. UNCHANGED <<admin, visible>> /\ sound' = sound \ {t}
    BY <1>2 DEF Reload, account
  <2>4. \A u \in Tabs \ {t} : active'[u] = active[u]
    BY <1>2, TabTakes DEF Reload
  <2> HIDE DEF true
  <2> QED BY <1>0, <2>1, <2>2, <2>3, <2>4
<1>3. ASSUME NEW t \in Tabs, NEW role \in BOOLEAN, NEW p \in Early, SignInAs(t, role, {p})
      PROVE  goal
  <2>1. sound' = {} /\ rechecks' = [u \in Tabs |->
           (IF u = t THEN {} ELSE Outdated(rechecks[u])) \cup {Recheck(role)}]
    BY <1>3 DEF SignInAs
  <2>2. ASSUME NEW u \in Tabs, NEW o \in rechecks'[u] PROVE true(o, visible')
    <3>1. o \in Outdated(rechecks[u]) \/ o = Recheck(role)
      BY <2>1
    <3>2. CASE o \in Outdated(rechecks[u])
      BY <3>2, OutdatedRechecks DEF ProjectTypes
    <3>3. CASE o = Recheck(role)
      BY <1>a, <3>3
    <3> QED BY <3>1, <3>2, <3>3
  <2> HIDE DEF true
  <2> QED BY <2>1, <2>2
<1>5. ASSUME NEW t \in Tabs, NEW r \in rechecks[t], RecheckRead(t, r) PROVE goal
  <2>0. UNCHANGED <<admin, visible, active, sound>>
    BY <1>5 DEF RecheckRead, account
  <2>1. /\ Seen(visible) \in Answers /\ Seen(visible).projects = visible
    BY AnswerKinds DEF ProjectTypes
  <2>a. TabAnswered(t, r, Seen(visible))
    BY <1>5 DEF RecheckRead, TabAnswered
  <2>2. /\ \A u \in Tabs \ {t} : rechecks'[u] = rechecks[u]
        /\ \A o \in rechecks'[t] : o \in rechecks[t] \/ o.answer = Seen(visible)
    BY <2>a, <2>1, TabAnswers
  <2>3. \A o : o.answer = Seen(visible) => true(o, visible)
    BY <2>1
  <2> HIDE DEF true
  <2> QED BY <1>0, <2>0, <2>2, <2>3
<1>6. ASSUME NEW t \in Tabs, NEW r \in rechecks[t], RecheckRefused(t, r) PROVE goal
  <2>0. UNCHANGED <<admin, visible, active, sound>>
    BY <1>6 DEF RecheckRefused, account
  <2>a. TabAnswered(t, r, Refused)
    BY <1>6 DEF RecheckRefused, TabAnswered
  <2>2. /\ \A u \in Tabs \ {t} : rechecks'[u] = rechecks[u]
        /\ \A o \in rechecks'[t] : o \in rechecks[t] \/ o.answer = Refused
    BY <2>a, AnswerKinds, TabAnswers
  <2>3. \A o : o.answer = Refused => true(o, visible)
    BY AnswerKinds
  <2> HIDE DEF true
  <2> QED BY <1>0, <2>0, <2>2, <2>3
<1>8. ASSUME NEW t \in Tabs, NEW r \in rechecks[t], RecheckArrives(t, r) PROVE goal
  <2>0. /\ UNCHANGED <<admin, visible>> /\ r.answer.kind = "seen"
        /\ sound' = IF r.answer.late \/ r.admin # admin THEN sound \ {t} ELSE sound \cup {t}
    BY <1>8 DEF RecheckArrives, account
  <2>1. /\ rechecks'[t] = rechecks[t] \ {r}
        /\ \A u \in Tabs \ {t} : rechecks'[u] = rechecks[u] /\ active'[u] = active[u]
    BY <1>8, TabForgets, ArrivesTypes DEF RecheckArrives
  <2>2. ASSUME ~ admin, visible # {}, t \in sound' PROVE active'[t] \in visible
    <3>1. ~ r.admin /\ ~ r.answer.late
      BY <2>0, <2>2 DEF ProjectTypes, Rechecks
    <3>2. r.answer.projects = visible
      BY <1>0, <2>0, <2>2, <3>1
    <3> QED BY <1>8, <2>2, <3>1, <3>2, ArrivesTypes
  <2>3. \A u \in Tabs \ {t} : u \in sound' => u \in sound
    BY <2>0
  <2>4. sound' \in SUBSET Tabs
    BY DEF ProjectTypes
  <2> HIDE DEF true
  <2> QED BY <1>0, <2>0, <2>1, <2>2, <2>3, <2>4
<1>9. ASSUME NEW t \in Tabs, NEW r \in rechecks[t], RecheckEnds(t, r) PROVE goal
  <2>1. UNCHANGED <<admin, visible, active>> /\ sound' = sound \ {t}
    BY <1>9 DEF RecheckEnds, account
  <2>2. rechecks'[t] = rechecks[t] \ {r} /\ \A u \in Tabs \ {t} : rechecks'[u] = rechecks[u]
    BY <1>9, TabForgets DEF RecheckEnds
  <2> HIDE DEF true
  <2> QED BY <1>0, <2>1, <2>2
<1>10. ASSUME NEW t \in Tabs, NEW r \in rechecks[t], RecheckFails(t, r) PROVE goal
  <2>1. UNCHANGED <<admin, visible>> /\ sound' = sound \ {t}
    BY <1>10 DEF RecheckFails, account
  <2>2. rechecks'[t] = rechecks[t] \ {r} /\ \A u \in Tabs \ {t} : rechecks'[u] = rechecks[u]
    BY <1>10, TabForgets DEF RecheckFails
  <2>3. r.restored \in Projects \cup {None}
    BY DEF ProjectTypes, Rechecks
  <2>4. \A u \in Tabs \ {t} : active'[u] = active[u]
    BY <1>10, <2>3, TabTakes DEF RecheckFails
  <2> HIDE DEF true
  <2> QED BY <1>0, <2>1, <2>2, <2>4
<1>12. ASSUME NEW t \in Tabs, NEW p \in Projects \cup {None}, Choose(t, p) PROVE goal
  <2>1. setActiveProject(t, p) /\ UNCHANGED <<admin, visible, rechecks>>
    BY <1>12 DEF Choose, account
  <2> QED BY <1>b, <2>1
<1>13. ASSUME NEW t \in Tabs, NEW p \in Late, HandleCreate(t, p) PROVE goal
  <2>1. UNCHANGED <<admin, visible, active, rechecks, sound>>
    BY <1>13 DEF HandleCreate, account
  <2> HIDE DEF true
  <2> QED BY <1>0, <2>1
<1>14. ASSUME NEW c \in creations, CreationRead(c) PROVE goal
  <2>1. UNCHANGED <<admin, active, rechecks, sound>> /\ (~ admin => visible' = visible)
    BY <1>14 DEF CreationRead
  <2> HIDE DEF true
  <2> QED BY <1>0, <2>1
<1>15. ASSUME NEW c \in creations, CreationEnds(c) PROVE goal
  <2>1. c.tab \in Tabs \cup {NoTab} /\ c.project \in Projects
    BY DEF ProjectTypes, CreationRecords
  <2>2. UNCHANGED <<admin, visible, rechecks>>
    BY <1>15 DEF CreationEnds, account
  <2>3. CASE c.made /\ c.tab # NoTab
    <3>1. setActiveProject(c.tab, c.project) /\ c.tab \in Tabs
      BY <1>15, <2>1, <2>3 DEF CreationEnds
    <3>2. goal
      BY <1>b, <2>1, <2>2, <3>1
    <3> QED BY <3>2
  <2>4. CASE ~ (c.made /\ c.tab # NoTab)
    <3>1. UNCHANGED <<active, sound>>
      BY <1>15, <2>4 DEF CreationEnds
    <3>2. goal
      <4> HIDE DEF true
      <4> QED BY <1>0, <2>2, <3>1
    <3> QED BY <3>2
  <2> QED BY <2>3, <2>4
<1>16. ASSUME NEW p, Withdraw(p) PROVE goal
  <2>1. sound' = {} /\ rechecks' = [t \in Tabs |-> Outdated(rechecks[t])]
    BY <1>16 DEF Withdraw
  <2>2. ASSUME NEW u \in Tabs, NEW o \in rechecks'[u] PROVE true(o, visible')
    <3>1. o \in Outdated(rechecks[u])
      BY <2>1
    <3> QED BY <3>1, OutdatedRechecks DEF ProjectTypes
  <2> HIDE DEF true
  <2> QED BY <2>1, <2>2
<1>17. ASSUME MenusPoll PROVE goal
  <2>1. UNCHANGED <<admin, visible, active, rechecks, sound>>
    BY <1>17 DEF MenusPoll, account
  <2> HIDE DEF true
  <2> QED BY <1>0, <2>1
<1>18. goal
  <2> HIDE DEF goal
  <2> QED BY <1>1, <1>2, <1>3, <1>5, <1>6, <1>8, <1>9, <1>10, <1>12, <1>13, <1>14, <1>15, <1>16, <1>17
    DEF ProjectNext, Projects
<1> QED BY <1>18 DEF SoundAnswers

LEMMA ProjectInits ==
    ASSUME Init
    PROVE  ProjectInv
<1>1. CASE ProjectInit
  <2>0. Early # {} /\ Early \in SUBSET Projects
    BY ProjectAssumption, NoProject
  <2>1. First(Early) \in Projects
    BY <2>0, FirstOf
  <2>2. visible \in SUBSET Projects /\ stored \in Projects \cup {None}
    BY <1>1, <2>0, <2>1 DEF ProjectInit
  <2>3. choice \in ChoiceRecords /\ ~ choice.lasts
    BY <1>1 DEF ProjectInit, ChoiceRecords
  <2>4. ProjectTypes
    BY <1>1, <2>2, <2>3 DEF ProjectInit, ProjectTypes
  <2>5. ChoiceStored
    BY <2>3 DEF ChoiceStored
  <2>6. SoundAnswers
    BY <1>1 DEF ProjectInit, SoundAnswers
  <2> QED BY <2>4, <2>5, <2>6 DEF ProjectInv
<1>2. CASE ProjectRests
  <2>1. choice \in ChoiceRecords /\ ~ choice.lasts
    BY <1>2 DEF ProjectRests, ChoiceRecords
  <2>2. ProjectTypes
    BY <1>2, <2>1 DEF ProjectRests, ProjectTypes
  <2>3. ChoiceStored
    BY <2>1 DEF ChoiceStored
  <2>4. SoundAnswers
    BY <1>2 DEF ProjectRests, SoundAnswers
  <2> QED BY <2>2, <2>3, <2>4 DEF ProjectInv
<1> QED BY <1>1, <1>2 DEF Init

LEMMA ProjectKept ==
    ASSUME ProjectInv, [Next]_vars
    PROVE  ProjectInv'
<1>1. CASE ProjectNext
  BY <1>1, ProjectStepTypes, ProjectStepChoice, ProjectStepAnswers DEF ProjectInv
<1>2. CASE UNCHANGED projectVars
  BY <1>2 DEF projectVars, ProjectInv, ProjectTypes, ChoiceStored, SoundAnswers
<1> QED BY <1>1, <1>2, PageSteps

\* However the tabs of a browser renew, reload, choose, create and sign in as others, with
\* answers that arrive in any order: the project that was chosen last is active in the tab
\* that chose it and in those that rechecked since, as long as nothing took it away.
THEOREM ChoiceLasts == Spec => []ChoiceKept
<1>1. Init => ProjectInv
  BY ProjectInits
<1>2. ProjectInv /\ [Next]_vars => ProjectInv'
  BY ProjectKept
<1>3. ProjectInv => ChoiceKept
  BY DEF ProjectInv, ChoiceStored, ChoiceKept
<1> QED BY <1>1, <1>2, <1>3, PTL DEF Spec

\* "A deleted or revoked project would strand non-admins": a tab that has taken an answer
\* that was still true is in a project that its user has, if there is one.
THEOREM NoOneStranded == Spec => []NobodyStranded
<1>1. Init => ProjectInv
  BY ProjectInits
<1>2. ProjectInv /\ [Next]_vars => ProjectInv'
  BY ProjectKept
<1>3. ProjectInv => NobodyStranded
  BY DEF ProjectInv, SoundAnswers, NobodyStranded
<1> QED BY <1>1, <1>2, <1>3, PTL DEF Spec

-----------------------------------------------------------------------------
(* The list of sessions. *)

\* The rows that the filters let through, and whether they reach the page that is open.
LetThrough(r, v, d) ==
    /\ v.status = "all" \/ (v.status = "failed") = r.failed
    /\ v.agent \in {"all", r.agent} /\ d \in {NoWord, r.agent}
Passing(S, v, d) == {r \in S : LetThrough(r, v, d)}
Reached(S, v, d) == v.page * PageSize < Cardinality(Passing(S, v, d))

Fetches == {Idle, Sent} \cup [stage : {"answered"}, data : SUBSET SessionRows]
Holdings == {{}} \cup {{S} : S \in SUBSET SessionRows}
CellRecords == [data : Holdings, fetch : Fetches]
CellKeys == Views \X {1, 24}
Fields == {"hours", "query", "status", "agent", "page", "sortKey", "sortDir"}

ViewTyped == view = [f \in Fields |-> view[f]] /\ view.hours \in {1, 24} /\ view.page \in Nat
ListTypes ==
    /\ contents \in [Views -> SUBSET SessionRows]
    /\ cells \in [CellKeys -> CellRecords]
    /\ inView \in Views
    /\ ViewTyped
    /\ shrunk \in BOOLEAN

\* A page that is open is reached by the rows that are shown, or else by those that are
\* there to be read and by those on their way.
ReachedByRows ==
    ~ shrunk /\ ~ tooSoon /\ view.page # 0 =>
        IF Loaded(Cell) THEN Reached(Data(Cell), view, deferred)
        ELSE /\ Reached(InWindow(inView, view.hours), view, deferred)
             /\ IsAnswered(Cell) => Reached(Cell.fetch.data, view, deferred)

ListInv == ListTypes /\ ReachedByRows

\* The page that is open begins before the rows end.
LEMMA PageBegins ==
    ASSUME NEW count \in Nat, NEW size \in Nat \ {0}, NEW n \in Nat,
           n <= ((count + size - 1) \div size) - 1
    PROVE  n * size < count
<1> DEFINE pages == (count + size - 1) \div size
<1>1. pages \in Int /\ pages * size <= count + size - 1
  OBVIOUS
<1>2. n + 1 <= pages
  BY <1>1
<1> HIDE DEF pages
<1>3. (n + 1) * size <= pages * size
  BY <1>1, <1>2
<1>4. (n + 1) * size = n * size + size
  OBVIOUS
<1>5. n * size \in Int /\ pages * size \in Int
  BY <1>1
<1> QED BY <1>1, <1>3, <1>4, <1>5

LEMMA ReachesMore ==
    ASSUME NEW S \in SUBSET SessionRows, NEW T \in SUBSET SessionRows, S \subseteq T,
           NEW v, v.page \in Nat, NEW d, Reached(S, v, d)
    PROVE  Reached(T, v, d)
<1>1. Passing(S, v, d) \subseteq Passing(T, v, d) /\ IsFiniteSet(Passing(T, v, d))
  BY ListAssumption, FS_Subset DEF Passing
<1>2. /\ Cardinality(Passing(S, v, d)) \in Nat /\ Cardinality(Passing(T, v, d)) \in Nat
      /\ Cardinality(Passing(S, v, d)) <= Cardinality(Passing(T, v, d))
  BY <1>1, FS_Subset, FS_CardinalityType
<1>3. v.page * PageSize \in Nat
  BY ListAssumption
<1> QED BY <1>2, <1>3 DEF Reached

\* What is reached depends on the filters and the page, and not on the window.
LEMMA FilterAlike ==
    ASSUME NEW v, NEW w, NEW d, NEW S, w.status = v.status, w.agent = v.agent
    PROVE  Passing(S, w, d) = Passing(S, v, d)
<1>1. \A r : LetThrough(r, w, d) = LetThrough(r, v, d)
  BY DEF LetThrough
<1> QED BY <1>1 DEF Passing

LEMMA ReachedAlike ==
    ASSUME NEW v, NEW w, NEW d, NEW S,
           w.status = v.status, w.agent = v.agent, w.page = v.page
    PROVE  Reached(S, w, d) = Reached(S, v, d)
BY FilterAlike DEF Reached

LEMMA FilteredRows == Filtered = Passing(RowsHeld, view, deferred)
BY DEF Filtered, ByStatus, Passing, LetThrough

\* What a cell holds, and what its requests do to it.
LEMMA CellHolds ==
    ASSUME NEW c \in CellRecords
    PROVE  /\ Loaded(c) => Data(c) \in SUBSET SessionRows
           /\ IsAnswered(c) => c.fetch.data \in SUBSET SessionRows
BY DEF CellRecords, Loaded, Data, Holdings, IsAnswered, Fetches, Idle, Sent

LEMMA CellAsks ==
    ASSUME NEW c \in CellRecords
    PROVE  /\ Asking(c) \in CellRecords /\ Joining(c) \in CellRecords
           /\ Asking(c).data = c.data /\ Joining(c).data = c.data
           /\ ~ IsAnswered(Asking(c))
BY DEF CellRecords, Asking, Joining, Fetches, IsAnswered, Sent

LEMMA CellReads ==
    ASSUME NEW c \in CellRecords, NEW S \in SUBSET SessionRows
    PROVE  /\ Reading(c, S) \in CellRecords /\ Reading(c, S).data = c.data
           /\ Reading(c, S).fetch.data = S
BY DEF CellRecords, Reading, Answered, Fetches

LEMMA CellTakes ==
    ASSUME NEW c \in CellRecords, IsAnswered(c)
    PROVE  /\ Arrived(c) \in CellRecords /\ Loaded(Arrived(c))
           /\ Data(Arrived(c)) = c.fetch.data
<1>1. c.fetch.data \in SUBSET SessionRows
  BY CellHolds
<1> QED BY <1>1 DEF CellRecords, Holdings, Fetches, Arrived, Loaded, Data

LEMMA CellOpens ==
    /\ Fresh \in CellRecords /\ Closed \in CellRecords
    /\ ~ Loaded(Fresh) /\ ~ IsAnswered(Fresh)
BY DEF CellRecords, Holdings, Fetches, Fresh, Closed, Loaded, IsAnswered, Sent, Idle

\* One cell changes.
LEMMA CellMoves ==
    ASSUME ListTypes, NEW k \in CellKeys, NEW c \in CellRecords,
           cells' = [cells EXCEPT ![k] = c]
    PROVE  /\ cells' \in [CellKeys -> CellRecords]
           /\ cells'[k] = c /\ \A j \in CellKeys \ {k} : cells'[j] = cells[j]
BY DEF ListTypes, ViewTyped

\* A filter changes, and the first page is looked at.
LEMMA FilterMoves ==
    ASSUME ListTypes, NEW field \in {"status", "agent", "hours"}, NEW value,
           field = "hours" => value \in {1, 24}, SetFilterTo(field, value)
    PROVE  /\ ViewTyped' /\ view'.page = 0 /\ shrunk' \in BOOLEAN
           /\ field # "hours" => view'.hours = view.hours
           /\ field = "hours" => view'.hours = value
           /\ UNCHANGED <<contents, inView, deferred>>
<1> DEFINE v == [view EXCEPT ![field] = value]
           w == [v EXCEPT !.page = 0]
<1>1. view = [f \in Fields |-> view[f]] /\ view.hours \in {1, 24}
  BY DEF ListTypes, ViewTyped
<1>2. v = [f \in Fields |-> IF f = field THEN value ELSE view[f]]
  BY <1>1 DEF Fields
<1>a. Looks(w) /\ UNCHANGED <<contents, inView, deferred>>
  BY Zenon DEF SetFilterTo
<1> HIDE DEF v
<1>4. w = [f \in Fields |-> IF f = "page" THEN 0 ELSE v[f]]
  BY <1>2 DEF Fields
<1> HIDE DEF w
<1>3. view' = w /\ shrunk' = (shrunk /\ w.page # 0)
  BY <1>a DEF Looks
<1>5. /\ w = [f \in Fields |-> w[f]] /\ w.page = 0
      /\ w.hours = IF field = "hours" THEN value ELSE view.hours
  BY <1>2, <1>4 DEF Fields
<1> QED BY <1>1, <1>a, <1>3, <1>5 DEF ViewTyped

\* The page is another one.
LEMMA PageMoves ==
    ASSUME ListTypes, NEW n \in Nat, Looks([view EXCEPT !.page = n])
    PROVE  /\ ViewTyped' /\ view'.page = n /\ shrunk' \in BOOLEAN /\ (shrunk' => shrunk)
           /\ n # 0 => shrunk' = shrunk
           /\ view'.hours = view.hours /\ view'.status = view.status /\ view'.agent = view.agent
<1> DEFINE v == [view EXCEPT !.page = n]
<1>1. view = [f \in Fields |-> view[f]] /\ view.hours \in {1, 24} /\ shrunk \in BOOLEAN
  BY DEF ListTypes, ViewTyped
<1>2. v = [f \in Fields |-> IF f = "page" THEN n ELSE view[f]]
  BY <1>1 DEF Fields
<1>3. view' = v /\ shrunk' = (shrunk /\ v.page # 0)
  BY DEF Looks
<1> HIDE DEF v
<1>4. /\ v = [f \in Fields |-> v[f]] /\ v.page = n
      /\ v.hours = view.hours /\ v.status = view.status /\ v.agent = view.agent
  BY <1>2 DEF Fields
<1> QED BY <1>1, <1>3, <1>4 DEF ViewTyped

LEMMA TypeMoves ==
    ASSUME ListTypes, NEW word, Type(word)
    PROVE  /\ ViewTyped' /\ view'.page = view.page /\ view'.hours = view.hours
           /\ view'.status = view.status /\ view'.agent = view.agent
           /\ UNCHANGED <<contents, cells, inView, deferred, shrunk, tooSoon>>
<1> DEFINE v == [view EXCEPT !.query = word]
<1>1. view = [f \in Fields |-> view[f]] /\ view.hours \in {1, 24} /\ view.page \in Nat
  BY DEF ListTypes, ViewTyped
<1>2. v = [f \in Fields |-> IF f = "query" THEN word ELSE view[f]]
  BY <1>1 DEF Fields
<1>3. view' = v /\ UNCHANGED <<contents, cells, inView, deferred, shrunk, tooSoon>>
  BY DEF Type
<1> HIDE DEF v
<1>4. /\ v = [f \in Fields |-> v[f]] /\ v.page = view.page
      /\ v.hours = view.hours /\ v.status = view.status /\ v.agent = view.agent
  BY <1>2 DEF Fields
<1> QED BY <1>1, <1>3, <1>4 DEF ViewTyped

LEMMA SortMoves ==
    ASSUME ListTypes, NEW k \in SortKeys, HandleSort(k)
    PROVE  /\ ViewTyped' /\ view'.page = 0 /\ shrunk' \in BOOLEAN
           /\ UNCHANGED <<contents, cells, inView, deferred>>
<1> DEFINE dir == CASE view.sortKey # k        -> "desc"
                    [] view.sortDir = "asc"    -> "desc"
                    [] view.sortDir = "desc"   -> NoDir
                    [] view.sortDir = NoDir    -> "asc"
           key == IF view.sortKey = k /\ view.sortDir = NoDir THEN NoKey ELSE k
<1>1. Looks([view EXCEPT !.sortKey = key, !.sortDir = dir, !.page = 0])
  BY Zenon DEF HandleSort
<1> HIDE DEF dir, key
<1> DEFINE u == [view EXCEPT !.sortKey = key]
           v == [u EXCEPT !.sortDir = dir]
           w == [v EXCEPT !.page = 0]
<1>2. view = [f \in Fields |-> view[f]] /\ view.hours \in {1, 24}
  BY DEF ListTypes, ViewTyped
<1>3. u = [f \in Fields |-> IF f = "sortKey" THEN key ELSE view[f]]
  BY <1>2 DEF Fields
<1>4. Looks(w)
  BY <1>1, Zenon
<1> HIDE DEF u
<1>5. v = [f \in Fields |-> IF f = "sortDir" THEN dir ELSE u[f]]
  BY <1>3 DEF Fields
<1> HIDE DEF v
<1>6. w = [f \in Fields |-> IF f = "page" THEN 0 ELSE v[f]]
  BY <1>5 DEF Fields
<1> HIDE DEF w
<1>7. w = [f \in Fields |-> w[f]] /\ w.page = 0 /\ w.hours = view.hours
  BY <1>3, <1>5, <1>6 DEF Fields
<1>8. view' = w /\ shrunk' = (shrunk /\ w.page # 0)
  BY <1>4 DEF Looks
<1>9. UNCHANGED <<contents, cells, inView, deferred>>
  BY DEF HandleSort
<1> QED BY <1>2, <1>7, <1>8, <1>9 DEF ViewTyped

\* The address says all that is not as at first, but the order.
LEMMA AddressTells ==
    ASSUME ListTypes
    PROVE  LET w == FromAddress(ToAddress(view))
           IN  /\ w = [f \in Fields |-> w[f]]
               /\ \A f \in Fields \ {"sortKey", "sortDir"} : w[f] = view[f]
<1> DEFINE a == ToAddress(view)
           w == FromAddress(a)
<1>1. DOMAIN view = Fields
  BY DEF ListTypes, ViewTyped
<1>2. DOMAIN FirstView = Fields
  BY DEF FirstView, Fields
<1>3. \A f \in Fields \ {"sortKey", "sortDir"} :
         /\ f \in DOMAIN a \/ view[f] = FirstView[f]
         /\ f \in DOMAIN a => a[f] = view[f]
  BY <1>1 DEF ToAddress, Told
<1> HIDE DEF a
<1>4. w = [f \in Fields |-> IF f \in DOMAIN a THEN a[f] ELSE FirstView[f]]
  BY <1>2 DEF FromAddress
<1> HIDE DEF w
<1>5. w = [f \in Fields |-> w[f]] /\ \A f \in Fields \ {"sortKey", "sortDir"} : w[f] = view[f]
  BY <1>3, <1>4
<1> QED BY <1>5 DEF w, a

\* The cell on the screen, and what there is to be read for it.
LEMMA OnScreen ==
    ASSUME ListTypes
    PROVE  /\ <<inView, view.hours>> \in CellKeys /\ Cell \in CellRecords
           /\ \A p \in Views, h \in {1, 24} : InWindow(p, h) \in SUBSET SessionRows
BY DEF ListTypes, ViewTyped, CellKeys, Cell, InWindow

LEMMA ListSteps ==
    ASSUME ListInv, ListNext
    PROVE  ListInv'
<1>0. ListTypes /\ ReachedByRows /\ contents \in [Views -> SUBSET SessionRows]
  BY DEF ListInv, ListTypes
<1>a. ASSUME ListTypes', view'.page = 0 PROVE ListInv'
  BY <1>a DEF ListInv, ReachedByRows
<1>1. ASSUME NEW st, FilterByStatus(st) PROVE ListInv'
  <2>1. SetFilterTo("status", st) /\ UNCHANGED cells
    BY <1>1 DEF FilterByStatus
  <2>2. ViewTyped' /\ view'.page = 0 /\ shrunk' \in BOOLEAN /\ UNCHANGED <<contents, inView>>
    BY <1>0, <2>1, FilterMoves
  <2> QED BY <1>0, <1>a, <2>1, <2>2 DEF ListTypes
<1>2. ASSUME NEW a, FilterByAgent(a) PROVE ListInv'
  <2>1. SetFilterTo("agent", a) /\ UNCHANGED cells
    BY <1>2 DEF FilterByAgent
  <2>2. ViewTyped' /\ view'.page = 0 /\ shrunk' \in BOOLEAN /\ UNCHANGED <<contents, inView>>
    BY <1>0, <2>1, FilterMoves
  <2> QED BY <1>0, <1>a, <2>1, <2>2 DEF ListTypes
<1>3. ASSUME NEW h \in {1, 24}, ChooseWindow(h) PROVE ListInv'
  <2> DEFINE k == <<inView, h>>
  <2>1. SetFilterTo("hours", h) /\ cells' = [cells EXCEPT ![k] = Joining(cells[k])]
    BY <1>3 DEF ChooseWindow
  <2>2. ViewTyped' /\ view'.page = 0 /\ shrunk' \in BOOLEAN /\ UNCHANGED <<contents, inView>>
    BY <1>0, <2>1, FilterMoves
  <2>3. k \in CellKeys /\ Joining(cells[k]) \in CellRecords
    BY <1>0, CellAsks DEF ListTypes, CellKeys
  <2>4. cells' \in [CellKeys -> CellRecords]
    BY <1>0, <2>1, <2>3, CellMoves
  <2> QED BY <1>0, <1>a, <2>2, <2>4 DEF ListTypes
<1>4. ASSUME NEW word, Type(word) PROVE ListInv'
  <2>1. /\ ViewTyped' /\ view'.page = view.page /\ view'.hours = view.hours
        /\ view'.status = view.status /\ view'.agent = view.agent
        /\ UNCHANGED <<contents, cells, inView, deferred, shrunk, tooSoon>>
    BY <1>0, <1>4, TypeMoves
  <2>2. ListTypes'
    BY <1>0, <2>1 DEF ListTypes
  <2>3. Cell' = Cell /\ InWindow(inView, view.hours)' = InWindow(inView, view.hours)
    BY <2>1 DEF Cell, InWindow
  <2>4. \A S : Reached(S, view', deferred') = Reached(S, view, deferred)
    BY <2>1, ReachedAlike
  <2> QED BY <1>0, <2>1, <2>2, <2>3, <2>4 DEF ListInv, ReachedByRows
<1>5. ASSUME CatchUp PROVE ListInv'
  <2>1. Looks([view EXCEPT !.page = 0]) /\ UNCHANGED <<contents, cells, inView>>
    BY <1>5 DEF CatchUp
  <2>2. ViewTyped' /\ view'.page = 0 /\ shrunk' \in BOOLEAN
    BY <1>0, <2>1, PageMoves
  <2> QED BY <1>0, <1>a, <2>1, <2>2 DEF ListTypes
<1>6. ASSUME NEW n \in Nat, OnPage(n) PROVE ListInv'
  <2>1. Looks([view EXCEPT !.page = n]) /\ UNCHANGED <<contents, cells, inView, deferred>>
    BY <1>6 DEF OnPage
  <2>2. /\ ViewTyped' /\ view'.page = n /\ shrunk' \in BOOLEAN
        /\ view'.hours = view.hours /\ view'.status = view.status /\ view'.agent = view.agent
    BY <1>0, <2>1, PageMoves
  <2>3. ListTypes'
    BY <1>0, <2>1, <2>2 DEF ListTypes
  <2>4. Loaded(Cell) /\ Data(Cell) \in SUBSET SessionRows /\ Filtered = Passing(Data(Cell), view, deferred)
    <3>1. Filtered # {}
      BY <1>6 DEF OnPage
    <3>2. RowsHeld # {}
      BY <3>1, FilteredRows DEF Passing
    <3> QED BY <1>0, <3>2, FilteredRows, CellHolds, OnScreen DEF RowsHeld
  <2>5. n * PageSize < Cardinality(Filtered)
    <3>1. IsFiniteSet(Filtered)
      BY <2>4, ListAssumption, FS_Subset DEF Passing
    <3>2. Cardinality(Filtered) \in Nat
      BY <3>1, FS_CardinalityType
    <3>3. n \in 0 .. TotalPages - 1
      BY <1>6 DEF OnPage
    <3>4. n <= ((Cardinality(Filtered) + PageSize - 1) \div PageSize) - 1
      BY <3>2, <3>3, ListAssumption DEF TotalPages
    <3> QED BY <3>2, <3>4, PageBegins, ListAssumption
  <2>6. Reached(Data(Cell), view', deferred')
    <3>1. Passing(Data(Cell), view', deferred) = Passing(Data(Cell), view, deferred)
      BY <2>2, FilterAlike
    <3> QED BY <2>1, <2>2, <2>4, <2>5, <3>1 DEF Reached
  <2>7. Cell' = Cell
    BY <2>1, <2>2 DEF Cell
  <2> QED BY <2>3, <2>4, <2>6, <2>7 DEF ListInv, ReachedByRows
<1>7. ASSUME NEW k \in SortKeys, HandleSort(k) PROVE ListInv'
  <2>1. /\ ViewTyped' /\ view'.page = 0 /\ shrunk' \in BOOLEAN
        /\ UNCHANGED <<contents, cells, inView, deferred>>
    BY <1>0, <1>7, SortMoves
  <2> QED BY <1>0, <1>a, <2>1 DEF ListTypes
<1>8. ASSUME ReloadPage PROVE ListInv'
  <2>1. view' = FromAddress(ToAddress(view)) /\ UNCHANGED <<contents, inView>>
    BY <1>8 DEF ReloadPage
  <2>2. /\ ViewTyped' /\ view'.page = view.page /\ view'.hours = view.hours
        /\ view'.status = view.status /\ view'.agent = view.agent /\ view'.query = view.query
    BY <1>0, <2>1, AddressTells DEF ListTypes, ViewTyped, Fields
  <2>3. /\ deferred' = view'.query
        /\ cells' = [c \in CellKeys |-> IF c = <<inView, view.hours>> THEN Fresh ELSE Closed]
        /\ shrunk' = (shrunk \/ /\ view.page # 0
                                /\ ~ (RowsHeld \subseteq InWindow(inView, view.hours)))
        /\ tooSoon' = (view.page # 0 /\ (tooSoon \/ deferred # view.query))
    BY <1>8 DEF ReloadPage, CellKeys
  <2>4. ListTypes'
    BY <1>0, <2>1, <2>2, <2>3, CellOpens DEF ListTypes
  <2>5. ASSUME ~ shrunk', ~ tooSoon', view'.page # 0
        PROVE  Reached(InWindow(inView, view.hours), view, deferred)
    <3>1. ~ shrunk /\ ~ tooSoon /\ RowsHeld \subseteq InWindow(inView, view.hours)
      BY <2>2, <2>3, <2>5
    <3>2. CASE ~ Loaded(Cell)
      BY <1>0, <2>2, <2>5, <3>1, <3>2 DEF ReachedByRows
    <3>3. CASE Loaded(Cell)
      <4>1. Reached(Data(Cell), view, deferred)
        BY <1>0, <2>2, <2>5, <3>1, <3>3 DEF ReachedByRows
      <4>2. Data(Cell) \subseteq InWindow(inView, view.hours)
        BY <3>1, <3>3 DEF RowsHeld
      <4>3. InWindow(inView, view.hours) \in SUBSET SessionRows /\ view.page \in Nat
        BY <1>0, OnScreen DEF ListTypes, ViewTyped
      <4> QED BY <4>1, <4>2, <4>3, ReachesMore
    <3> QED BY <3>2, <3>3
  <2>6. ~ shrunk' /\ ~ tooSoon' /\ view'.page # 0 => deferred' = deferred
    BY <2>2, <2>3
  <2>7. Cell' = Fresh /\ InWindow(inView, view.hours)' = InWindow(inView, view.hours)
    BY <1>0, <2>1, <2>2, <2>3, OnScreen DEF Cell, InWindow
  <2>8. \A S : Reached(S, view', deferred) = Reached(S, view, deferred)
    BY <2>2, ReachedAlike
  <2> QED BY <2>4, <2>5, <2>6, <2>7, <2>8, CellOpens DEF ListInv, ReachedByRows
<1>9. ASSUME NEW p \in Views, SwitchView(p) PROVE ListInv'
  <2> DEFINE k == <<p, view.hours>>
  <2>1. /\ cells' = [cells EXCEPT ![k] = Joining(cells[k])] /\ inView' = p
        /\ shrunk' = (shrunk \/ view.page # 0) /\ UNCHANGED <<contents, view, deferred, tooSoon>>
    BY <1>9 DEF SwitchView
  <2>2. k \in CellKeys /\ Joining(cells[k]) \in CellRecords
    BY <1>0, CellAsks DEF ListTypes, ViewTyped, CellKeys
  <2>3. cells' \in [CellKeys -> CellRecords]
    BY <1>0, <2>1, <2>2, CellMoves
  <2>4. ListTypes'
    BY <1>0, <2>1, <2>3 DEF ListTypes, ViewTyped
  <2> QED BY <2>1, <2>4 DEF ListInv, ReachedByRows
<1>10. ASSUME PollCell PROVE ListInv'
  <2> DEFINE k == <<inView, view.hours>>
  <2>1. /\ cells' = [cells EXCEPT ![k] = Asking(cells[k])]
        /\ UNCHANGED <<contents, inView, view, deferred, shrunk, tooSoon>>
    BY <1>10 DEF PollCell
  <2>2. k \in CellKeys /\ Cell = cells[k] /\ Cell \in CellRecords
    BY <1>0, OnScreen DEF Cell
  <2>3. cells' \in [CellKeys -> CellRecords] /\ Cell' = Asking(Cell)
    BY <1>0, <2>1, <2>2, CellAsks, CellMoves DEF Cell
  <2>4. ListTypes'
    BY <1>0, <2>1, <2>3 DEF ListTypes, ViewTyped
  <2>5. ~ IsAnswered(Cell') /\ Loaded(Cell') = Loaded(Cell) /\ Data(Cell') = Data(Cell)
    BY <2>2, <2>3, CellAsks DEF Loaded, Data
  <2>6. InWindow(inView, view.hours)' = InWindow(inView, view.hours)
    BY <2>1 DEF InWindow
  <2> QED BY <1>0, <2>1, <2>4, <2>5, <2>6 DEF ListInv, ReachedByRows
<1>11. ASSUME NEW p \in Views, NEW h \in {1, 24}, CellRead(p, h) PROVE ListInv'
  <2> DEFINE k == <<p, h>>
  <2>1. /\ cells' = [cells EXCEPT ![k] = Reading(cells[k], InWindow(p, h))]
        /\ UNCHANGED <<contents, inView, view, deferred, shrunk, tooSoon>>
    BY <1>11 DEF CellRead
  <2>2. k \in CellKeys /\ cells[k] \in CellRecords /\ InWindow(p, h) \in SUBSET SessionRows
    BY <1>0, OnScreen DEF ListTypes, CellKeys
  <2>3. /\ cells' \in [CellKeys -> CellRecords] /\ cells'[k] = Reading(cells[k], InWindow(p, h))
        /\ \A j \in CellKeys \ {k} : cells'[j] = cells[j]
    BY <1>0, <2>1, <2>2, CellReads, CellMoves
  <2>4. ListTypes'
    BY <1>0, <2>1, <2>3 DEF ListTypes, ViewTyped
  <2>5. InWindow(inView, view.hours)' = InWindow(inView, view.hours)
    BY <2>1 DEF InWindow
  <2>6. CASE k = <<inView, view.hours>>
    <3>1. /\ Loaded(Cell') = Loaded(Cell) /\ Data(Cell') = Data(Cell)
          /\ Cell'.fetch.data = InWindow(inView, view.hours)
      BY <2>1, <2>2, <2>3, <2>6, CellReads DEF Loaded, Data, Cell
    <3> QED BY <1>0, <2>1, <2>4, <2>5, <3>1 DEF ListInv, ReachedByRows
  <2>7. CASE k # <<inView, view.hours>>
    <3>1. Cell' = Cell
      BY <1>0, <2>1, <2>3, <2>7, OnScreen DEF Cell
    <3> QED BY <1>0, <2>1, <2>4, <2>5, <3>1 DEF ListInv, ReachedByRows
  <2> QED BY <2>6, <2>7
<1>12. ASSUME NEW p \in Views, NEW h \in {1, 24}, CellArrives(p, h) PROVE ListInv'
  <2> DEFINE k == <<p, h>>
             c == cells[k]
  <2>1. /\ cells' = [cells EXCEPT ![k] = Arrived(c)] /\ IsAnswered(c)
        /\ shrunk' = (shrunk \/ /\ k = <<inView, view.hours>> /\ view.page # 0
                                /\ Loaded(c) /\ ~ (Data(c) \subseteq c.fetch.data))
        /\ UNCHANGED <<contents, inView, view, deferred, tooSoon>>
    BY <1>12 DEF CellArrives
  <2>2. k \in CellKeys /\ c \in CellRecords /\ c.fetch.data \in SUBSET SessionRows
    BY <1>0, <2>1, CellHolds DEF ListTypes, CellKeys
  <2>3. /\ cells' \in [CellKeys -> CellRecords] /\ cells'[k] = Arrived(c)
        /\ \A j \in CellKeys \ {k} : cells'[j] = cells[j]
    BY <1>0, <2>1, <2>2, CellTakes, CellMoves
  <2>4. ListTypes'
    BY <1>0, <2>1, <2>3 DEF ListTypes, ViewTyped
  <2>5. InWindow(inView, view.hours)' = InWindow(inView, view.hours)
    BY <2>1 DEF InWindow
  <2>6. CASE k = <<inView, view.hours>>
    <3>1. Cell = c /\ Loaded(Cell') /\ Data(Cell') = c.fetch.data
      BY <2>1, <2>2, <2>3, <2>6, CellTakes DEF Cell
    <3>2. ASSUME ~ shrunk', ~ tooSoon, view.page # 0 PROVE Reached(c.fetch.data, view, deferred)
      <4>1. ~ shrunk /\ (Loaded(c) => Data(c) \subseteq c.fetch.data)
        BY <2>1, <2>6, <3>2
      <4>2. CASE Loaded(c)
        <5>1. Reached(Data(c), view, deferred) /\ view.page \in Nat
          BY <1>0, <3>1, <3>2, <4>1, <4>2 DEF ReachedByRows, ListTypes, ViewTyped
        <5>2. Data(c) \in SUBSET SessionRows
          BY <2>2, <4>2, CellHolds
        <5> HIDE DEF c
        <5> QED BY <2>2, <4>1, <4>2, <5>1, <5>2, ReachesMore
      <4>3. CASE ~ Loaded(c)
        BY <1>0, <2>1, <3>1, <3>2, <4>1, <4>3 DEF ReachedByRows
      <4> QED BY <4>2, <4>3
    <3> QED BY <2>1, <2>4, <3>1, <3>2 DEF ListInv, ReachedByRows
  <2>7. CASE k # <<inView, view.hours>>
    <3>1. Cell' = Cell /\ shrunk' = shrunk
      BY <1>0, <2>1, <2>3, <2>7, OnScreen DEF Cell, ListTypes
    <3> QED BY <1>0, <2>1, <2>4, <2>5, <3>1 DEF ListInv, ReachedByRows
  <2> QED BY <2>6, <2>7
<1>13. ASSUME NEW p \in Views, NEW r \in SessionRows, Appears(p, r) PROVE ListInv'
  <2>1. /\ contents' = [contents EXCEPT ![p] = contents[p] \cup {r}]
        /\ UNCHANGED <<cells, inView, view, deferred, shrunk, tooSoon>>
    BY <1>13 DEF Appears
  <2>2. contents' \in [Views -> SUBSET SessionRows] /\ \A q \in Views : contents[q] \subseteq contents'[q]
    BY <1>0, <2>1
  <2>3. ListTypes'
    BY <1>0, <2>1, <2>2 DEF ListTypes, ViewTyped
  <2>4. InWindow(inView, view.hours) \subseteq InWindow(inView, view.hours)'
    BY <1>0, <2>1, <2>2 DEF InWindow, ListTypes
  <2>5. /\ InWindow(inView, view.hours) \in SUBSET SessionRows
        /\ InWindow(inView, view.hours)' \in SUBSET SessionRows
    BY <1>0, <2>1, <2>2 DEF InWindow, ListTypes
  <2>6. Reached(InWindow(inView, view.hours), view, deferred) =>
          Reached(InWindow(inView, view.hours)', view, deferred)
    BY <1>0, <2>4, <2>5, ReachesMore DEF ListTypes, ViewTyped
  <2>7. Cell' = Cell
    BY <2>1 DEF Cell
  <2> QED BY <1>0, <2>1, <2>3, <2>6, <2>7 DEF ListInv, ReachedByRows
<1>14. ASSUME NEW p \in Views, NEW r \in SessionRows, Ages(p, r) PROVE ListInv'
  <2>1. /\ contents' = [contents EXCEPT ![p] = contents[p] \ {r}]
        /\ shrunk' = (shrunk \/ (view.page # 0 /\ ~ Loaded(Cell)))
        /\ UNCHANGED <<cells, inView, view, deferred, tooSoon>>
    BY <1>14 DEF Ages
  <2>2. contents' \in [Views -> SUBSET SessionRows]
    BY <1>0, <2>1
  <2>3. ListTypes'
    BY <1>0, <2>1, <2>2 DEF ListTypes, ViewTyped
  <2>4. Cell' = Cell
    BY <2>1 DEF Cell
  <2> QED BY <1>0, <2>1, <2>3, <2>4 DEF ListInv, ReachedByRows
<1>15. Cardinality(SessionRows) \in Nat
  BY ListAssumption, FS_CardinalityType
<1>16. \A n \in 0 .. Cardinality(SessionRows) : n \in Nat
  BY <1>15
<1>17. ASSUME NEW p \in Views,
              SwitchView(p) \/ \E r \in SessionRows : Appears(p, r) \/ Ages(p, r)
       PROVE  ListInv'
  BY <1>9, <1>13, <1>14, <1>17
<1>18. ASSUME NEW p \in Views, NEW h \in {1, 24}, CellRead(p, h) \/ CellArrives(p, h)
       PROVE  ListInv'
  BY <1>11, <1>12, <1>18
<1> QED
  BY <1>1, <1>2, <1>3, <1>4, <1>5, <1>6, <1>7, <1>8, <1>10, <1>16, <1>17, <1>18 DEF ListNext

LEMMA ListInits ==
    ASSUME Init
    PROVE  ListInv
<1>0. ListInit \/ ListRests
  BY Zenon DEF Init
<1>1. ViewTyped /\ shrunk \in BOOLEAN /\ view.page = 0
  <2>1. view = FirstView /\ shrunk \in BOOLEAN
    BY <1>0 DEF ListInit, ListRests
  <2>2. /\ FirstView = [f \in Fields |-> FirstView[f]]
        /\ FirstView.hours = 24 /\ FirstView.page = 0
    BY DEF FirstView, Fields
  <2> QED BY <2>1, <2>2 DEF ViewTyped
<1>2. AnyOf(Views) \in Views
  BY ListAssumption DEF AnyOf
<1>3. inView \in Views /\ contents \in [Views -> SUBSET SessionRows]
  BY <1>0, <1>2 DEF ListInit, ListRests
<1>4. cells \in [CellKeys -> CellRecords]
  BY <1>0, CellOpens DEF ListInit, ListRests, CellKeys
<1> QED BY <1>1, <1>3, <1>4 DEF ListInv, ListTypes, ReachedByRows

\* Whatever is typed, filtered, sorted, paged and reloaded while the search and the answers
\* of the polls lag behind, the page of the list that is open has rows on it; unless the
\* list lost some, or a later page was reloaded before the search had caught up.
THEOREM OpenPageExists == Spec => []PageExists
<1>1. Init => ListInv
  BY ListInits
<1>2. ListInv /\ [Next]_vars => ListInv'
  <2> SUFFICES ASSUME ListInv, [Next]_vars PROVE ListInv'
    OBVIOUS
  <2>1. CASE ListNext
    BY <2>1, ListSteps
  <2>2. CASE UNCHANGED listVars
    BY <2>2 DEF listVars, ListInv, ListTypes, ViewTyped, ReachedByRows, Cell, InWindow
  <2> QED BY <2>1, <2>2, PageSteps
<1>3. ListInv => PageExists
  <2> SUFFICES ASSUME ListInv, Loaded(Cell), ~ shrunk, ~ tooSoon, view.page # 0 PROVE RowsOnPage > 0
    BY DEF PageExists
  <2> DEFINE count == Cardinality(Filtered)
  <2>1. Filtered = Passing(Data(Cell), view, deferred)
    BY FilteredRows DEF RowsHeld
  <2>2. Data(Cell) \in SUBSET SessionRows
    BY OnScreen, CellHolds DEF ListInv
  <2>3. IsFiniteSet(Filtered)
    BY <2>1, <2>2, ListAssumption, FS_Subset DEF Passing
  <2>4. count \in Nat /\ view.page * PageSize \in Nat /\ PageSize \in Nat /\ PageSize > 0
    BY <2>3, FS_CardinalityType, ListAssumption DEF ListInv, ListTypes, ViewTyped
  <2>5. view.page * PageSize < count
    BY <2>1 DEF ListInv, ReachedByRows, Reached
  <2> QED BY <2>4, <2>5 DEF RowsOnPage
<1> QED BY <1>1, <1>2, <1>3, PTL DEF Spec

-----------------------------------------------------------------------------
(* What SWR holds of an address, on every page. *)

\* What SWR holds of an address is a record of an answer and a request.
IsCell(c) == c = [data |-> c.data, fetch |-> c.fetch]

\* ... and stays one, whatever the request does.
LEMMA CellSteps ==
    ASSUME NEW c, IsCell(c)
    PROVE  /\ Asking(c).data = c.data /\ Asking(c).fetch = Sent /\ IsCell(Asking(c))
           /\ Lost(c).data = c.data /\ Lost(c).fetch = Idle /\ IsCell(Lost(c))
           /\ Arrived(c).data = {c.fetch.data} /\ Arrived(c).fetch = Idle /\ IsCell(Arrived(c))
           /\ \A d : /\ Reading(c, d).data = c.data /\ Reading(c, d).fetch = Answered(d)
                    /\ IsCell(Reading(c, d))
BY DEF IsCell, Asking, Lost, Arrived, Reading

\* The stages of a request are told apart.
LEMMA FetchStages ==
    /\ Idle.stage # "answered" /\ Sent.stage # "answered" /\ Idle # Sent
    /\ \A d : Answered(d).stage = "answered" /\ Answered(d).data = d /\ Answered(d) # Idle
BY DEF Idle, Sent, Answered

-----------------------------------------------------------------------------
(* The costs. *)

\* What the page adds up of an answer: the costs and the calls of the tools and of the
\* agents are those in total, and the sessions shown cost no more.
Costs(E) == [e \in E |-> e.cost]
Calls(E) == [e \in E |-> e.calls]
Sums(E, cost, calls) ==
    /\ IsFiniteSet(E) /\ Costs(E) \in [E -> Nat] /\ Calls(E) \in [E -> Nat]
    /\ SumFunction(Costs(E)) = cost /\ SumFunction(Calls(E)) = calls
AddsUp(d) ==
    /\ Sums(d.tools, d.cost, d.calls) /\ Sums(d.agents, d.cost, d.calls)
    /\ \A e \in d.tools : e.type \in {"token_based", "call_based"}
    /\ \A X \in SUBSET d.sessions : SumFunction(Costs(X)) <= d.cost

\* The rows of finitely many calls.
RowCosts(R) == [r \in R |-> CostOf(r)]
RowCalls(R) == [r \in R |-> Cardinality(r)]
RowsCount(R) == IsFiniteSet(R) /\ RowCosts(R) \in [R -> Nat] /\ RowCalls(R) \in [R -> Nat]

\* The engine's rows are finitely many, each with its cost and its number of calls.
LEMMA RowsOfCalls ==
    ASSUME NEW S \in SUBSET Ledger, IsFiniteSet(S)
    PROVE  RowsCount(CostRows(S))
  <1>1. CostRows(S) \subseteq SUBSET S
    BY DEF CostRows, Groups
  <1>2. IsFiniteSet(CostRows(S))
    BY <1>1, FS_SUBSET, FS_Subset
  <1>3. ASSUME NEW r \in CostRows(S)
        PROVE  CostOf(r) \in Nat /\ Cardinality(r) \in Nat
    <2>1. IsFiniteSet(r) /\ Cardinality(r) \in Nat /\ r \in SUBSET S
      BY <1>1, FS_Subset, FS_CardinalityType
    <2>2. PICK f : f = [c \in r |-> c.tokens]
      OBVIOUS
    <2>3. f \in [r -> Nat]
      BY <2>1, <2>2, CostAssumption
    <2>4. SumFunction(f) = SumFunctionOnSet(f, r)
      BY <2>2, SumOfAll
    <2>5. SumFunction(f) \in Nat
      BY <2>1, <2>3, <2>4, SumOfPart
    <2> QED BY <2>1, <2>2, <2>5 DEF CostOf, Tokens, SumOf
  <1> QED BY <1>2, <1>3 DEF RowsCount, RowCosts, RowCalls

\* The total of some of the rows.
LEMMA PartTotals ==
    ASSUME NEW R, RowsCount(R), NEW A \in SUBSET R
    PROVE  /\ TotalCost(A) = SumFunctionOnSet(RowCosts(R), A)
           /\ TotalCalls(A) = SumFunctionOnSet(RowCalls(R), A)
  <1>1. IsFiniteSet(A) /\ IsFiniteSet(R)
    BY FS_Subset DEF RowsCount
  <1>2. ASSUME NEW w \in [R -> Nat], NEW f, f = [x \in A |-> w[x]]
        PROVE  SumFunction(f) = SumFunctionOnSet(w, A)
    <2>1. f \in [A -> Nat] /\ A \in SUBSET A
      BY <1>2
    <2>2. SumFunction(f) = SumFunctionOnSet(f, A)
      BY <1>2, SumOfAll
    <2>3. SumFunctionOnSet(f, A) = SumFunctionOnSet(w, A)
      BY <1>1, <1>2, <2>1, SumAlike
    <2> QED BY <2>2, <2>3
  <1>3. TotalCost(A) = SumFunctionOnSet(RowCosts(R), A)
    <2>1. [x \in A |-> RowCosts(R)[x]] = [x \in A |-> CostOf(x)]
      BY DEF RowCosts
    <2>2. RowCosts(R) \in [R -> Nat]
      BY DEF RowsCount
    <2> QED BY <1>2, <2>1, <2>2 DEF TotalCost, SumOf
  <1>4. TotalCalls(A) = SumFunctionOnSet(RowCalls(R), A)
    <2>1. [x \in A |-> RowCalls(R)[x]] = [x \in A |-> Cardinality(x)]
      BY DEF RowCalls
    <2>2. RowCalls(R) \in [R -> Nat]
      BY DEF RowsCount
    <2> QED BY <1>2, <2>1, <2>2 DEF TotalCalls, SumOf
  <1> QED BY <1>3, <1>4

\* Entries of the rows of one key each, with the costs and the calls of these.
LEMMA EntriesSum ==
    ASSUME NEW R, RowsCount(R), NEW E, NEW key, NEW part, Grouping(R, E, key, part),
           NoneEmpty(part, E),
           \A e \in E : e.cost = TotalCost(part[e])
    PROVE  /\ IsFiniteSet(E) /\ Costs(E) \in [E -> Nat] /\ SumFunction(Costs(E)) = TotalCost(R)
           /\ (\A e \in E : e.calls = TotalCalls(part[e]))
                 => Calls(E) \in [E -> Nat] /\ SumFunction(Calls(E)) = TotalCalls(R)
  <1>1. IsFiniteSet(R) /\ RowCosts(R) \in [R -> Nat] /\ RowCalls(R) \in [R -> Nat]
    BY DEF RowsCount
  <1>2. TotalCost(R) = SumFunction(RowCosts(R)) /\ TotalCalls(R) = SumFunction(RowCalls(R))
    BY DEF TotalCost, TotalCalls, SumOf, RowCosts, RowCalls
  <1>3. /\ IsFiniteSet(E) /\ Costs(E) \in [E -> Nat]
        /\ SumFunction(Costs(E)) = SumFunction(RowCosts(R))
    <2>1. PICK v, w : v = Costs(E) /\ w = RowCosts(R)
      OBVIOUS
    <2>2. v = [e \in E |-> v[e]] /\ w \in [R -> Nat]
      BY <1>1, <2>1 DEF Costs
    <2>3. ASSUME NEW e \in E
          PROVE  v[e] = SumFunctionOnSet(w, part[e])
      <3>1. part[e] \in SUBSET R
        BY DEF Grouping
      <3>2. PICK A : A = part[e] /\ A \in SUBSET R
        BY <3>1
      <3>3. TotalCost(A) = SumFunctionOnSet(w, A)
        BY <2>1, <3>2, PartTotals
      <3>4. v[e] = e.cost
        BY <2>1 DEF Costs
      <3> QED BY <3>2, <3>3, <3>4
    <2>4. Counts(v, E, w, part)
      BY <2>2, <2>3 DEF Counts
    <2>5. IsFiniteSet(E) /\ v \in [E -> Nat] /\ SumFunction(v) = SumFunction(w)
      BY <1>1, <2>2, <2>4, EntriesAddUp
    <2> QED BY <2>1, <2>5
  <1>4. ASSUME \A e \in E : e.calls = TotalCalls(part[e])
        PROVE  Calls(E) \in [E -> Nat] /\ SumFunction(Calls(E)) = SumFunction(RowCalls(R))
    <2>1. PICK v, w : v = Calls(E) /\ w = RowCalls(R)
      OBVIOUS
    <2>2. v = [e \in E |-> v[e]] /\ w \in [R -> Nat]
      BY <1>1, <2>1 DEF Calls
    <2>3. ASSUME NEW e \in E
          PROVE  v[e] = SumFunctionOnSet(w, part[e])
      <3>1. part[e] \in SUBSET R
        BY DEF Grouping
      <3>2. PICK A : A = part[e] /\ A \in SUBSET R
        BY <3>1
      <3>3. TotalCalls(A) = SumFunctionOnSet(w, A)
        BY <2>1, <3>2, PartTotals
      <3>4. v[e] = e.calls
        BY <2>1 DEF Calls
      <3> QED BY <1>4, <3>2, <3>3, <3>4
    <2>4. Counts(v, E, w, part)
      BY <2>2, <2>3 DEF Counts
    <2>5. IsFiniteSet(E) /\ v \in [E -> Nat] /\ SumFunction(v) = SumFunction(w)
      BY <1>1, <2>2, <2>4, EntriesAddUp
    <2> QED BY <2>1, <2>5
  <1> QED BY <1>2, <1>3, <1>4

\* The costs of some of the entries.
LEMMA CostsOfPart ==
    ASSUME NEW E, IsFiniteSet(E), Costs(E) \in [E -> Nat], NEW X \in SUBSET E
    PROVE  /\ SumFunction(Costs(X)) = SumFunctionOnSet(Costs(E), X)
           /\ SumFunction(Costs(X)) \in Nat /\ SumFunction(Costs(E)) \in Nat
           /\ SumFunction(Costs(X)) <= SumFunction(Costs(E))
  <1>1. PICK v, w : v = Costs(X) /\ w = Costs(E)
    OBVIOUS
  <1>2. \A x \in X : v[x] = w[x]
    BY <1>1 DEF Costs
  <1>3. v \in [X -> Nat] /\ v = [x \in X |-> v[x]] /\ w \in [E -> Nat] /\ w = [x \in E |-> w[x]]
    BY <1>1, <1>2 DEF Costs
  <1>4. IsFiniteSet(X) /\ X \in SUBSET X /\ E \in SUBSET E
    BY FS_Subset
  <1>5. SumFunction(v) = SumFunctionOnSet(v, X) /\ SumFunction(w) = SumFunctionOnSet(w, E)
    BY <1>3, SumOfAll
  <1>6. SumFunctionOnSet(v, X) = SumFunctionOnSet(w, X)
    BY <1>2, <1>3, <1>4, SumAlike
  <1>7. SumFunctionOnSet(w, X) \in Nat /\ SumFunctionOnSet(w, E) \in Nat
    BY <1>3, <1>4, SumOfPart
  <1>8. \A x \in X : w[x] <= w[x]
    BY <1>3
  <1>9. SumFunctionOnSet(w, X) <= SumFunctionOnSet(w, E)
    BY <1>3, <1>4, <1>8, SumGrows
  <1> QED BY <1>1, <1>5, <1>6, <1>7, <1>9

\* The tables of an answer.
LEMMA ToolsAddUp ==
    ASSUME NEW R, RowsCount(R), NEW L \in SUBSET R,
           \A r \in R : \E f \in Firsts({q \in R : ToolOf(q) = ToolOf(r)}) :
                {q \in L : ToolOf(q) = ToolOf(r)} = {f}
    PROVE  /\ Sums(ToolEntries(R, L), TotalCost(R), TotalCalls(R))
           /\ \A e \in ToolEntries(R, L) : e.type \in {"token_based", "call_based"}
  <1> DEFINE OfTool(f) == {r \in R : ToolOf(r) = ToolOf(f)}
             Entry(f) == ToolEntry(OfTool(f), f)
             Lead(r) == CHOOSE f \in L : ToolOf(f) = ToolOf(r)
  <1>1. PICK E : E = ToolEntries(R, L)
    OBVIOUS
  <1>2. E = {Entry(f) : f \in L}
    BY <1>1 DEF ToolEntries
  <1>3. ASSUME NEW f
        PROVE  /\ <<Entry(f).server, Entry(f).tool>> = ToolOf(f)
               /\ Entry(f).cost = TotalCost(OfTool(f)) /\ Entry(f).calls = TotalCalls(OfTool(f))
               /\ Entry(f).type \in {"token_based", "call_based"}
    BY DEF ToolEntry, ToolOf
  <1>4. ASSUME NEW r \in R
        PROVE  Lead(r) \in L /\ ToolOf(Lead(r)) = ToolOf(r)
    BY <1>4
  <1>5. ASSUME NEW r \in R, NEW f \in L, ToolOf(f) = ToolOf(r)
        PROVE  Lead(r) = f
    BY <1>4, <1>5
  <1> HIDE DEF Entry, OfTool, Lead
  <1>6. PICK key : key = [r \in R |-> Entry(Lead(r))]
    OBVIOUS
  <1>7. PICK part : part = [e \in E |-> {r \in R : ToolOf(r) = <<e.server, e.tool>>}]
    OBVIOUS
  <1>8. \A f \in L : part[Entry(f)] = OfTool(f)
    BY <1>2, <1>3, <1>7 DEF OfTool
  <1>9. Grouping(R, E, key, part)
    <2>1. key \in [R -> E] /\ part \in [E -> SUBSET R]
      BY <1>2, <1>4, <1>6, <1>7
    <2>2. ASSUME NEW f \in L, NEW r \in R
          PROVE  r \in part[Entry(f)] <=> key[r] = Entry(f)
      <3>1. r \in part[Entry(f)] <=> ToolOf(r) = ToolOf(f)
        BY <1>8 DEF OfTool
      <3>2. ToolOf(r) = ToolOf(f) => key[r] = Entry(f)
        BY <1>5, <1>6
      <3>3. key[r] = Entry(f) => ToolOf(Lead(r)) = ToolOf(f)
        BY <1>3, <1>6
      <3> QED BY <1>4, <3>1, <3>2, <3>3
    <2> QED BY <1>2, <2>1, <2>2 DEF Grouping
  <1>10. NoneEmpty(part, E)
    <2>1. \A f \in L : f \in part[Entry(f)]
      BY <1>8 DEF OfTool
    <2> QED BY <1>2, <2>1 DEF NoneEmpty
  <1>11. \A e \in E : e.cost = TotalCost(part[e]) /\ e.calls = TotalCalls(part[e])
    BY <1>2, <1>3, <1>8
  <1>12. /\ IsFiniteSet(E) /\ Costs(E) \in [E -> Nat] /\ SumFunction(Costs(E)) = TotalCost(R)
         /\ Calls(E) \in [E -> Nat] /\ SumFunction(Calls(E)) = TotalCalls(R)
    BY <1>9, <1>10, <1>11, EntriesSum
  <1> QED BY <1>1, <1>2, <1>3, <1>12 DEF Sums

\* What the rows are worth is what their agents are worth together, ...
LEMMA AgentsAddUp ==
    ASSUME NEW R, RowsCount(R)
    PROVE  Sums(AgentEntries(R), TotalCost(R), TotalCalls(R))
  <1> DEFINE OfAgent(a) == {q \in R : Of(q).agent = a}
             Entry(r) == AgentEntry(Of(r).agent, OfAgent(Of(r).agent))
  <1>1. PICK E : E = AgentEntries(R)
    OBVIOUS
  <1>2. E = {Entry(r) : r \in R}
    BY <1>1 DEF AgentEntries
  <1>3. ASSUME NEW r
        PROVE  /\ Entry(r).agent = Of(r).agent
               /\ Entry(r).cost = TotalCost(OfAgent(Of(r).agent))
               /\ Entry(r).calls = TotalCalls(OfAgent(Of(r).agent))
    BY DEF AgentEntry
  <1>4. \A r, q : Of(r).agent = Of(q).agent => Entry(r) = Entry(q)
    OBVIOUS
  <1> HIDE DEF Entry, OfAgent
  <1>6. PICK key : key = [r \in R |-> Entry(r)]
    OBVIOUS
  <1>7. PICK part : part = [e \in E |-> OfAgent(e.agent)]
    OBVIOUS
  <1>8. \A r \in R : part[Entry(r)] = OfAgent(Of(r).agent)
    BY <1>2, <1>3, <1>7
  <1>9. Grouping(R, E, key, part)
    <2>1. key \in [R -> E] /\ part \in [E -> SUBSET R]
      BY <1>2, <1>6, <1>7 DEF OfAgent
    <2>2. ASSUME NEW f \in R, NEW r \in R
          PROVE  r \in part[Entry(f)] <=> key[r] = Entry(f)
      <3>1. r \in part[Entry(f)] <=> Of(r).agent = Of(f).agent
        BY <1>8 DEF OfAgent
      <3> QED BY <1>3, <1>4, <1>6, <3>1
    <2> QED BY <1>2, <2>1, <2>2 DEF Grouping
  <1>10. NoneEmpty(part, E)
    <2>1. \A f \in R : f \in part[Entry(f)]
      BY <1>8 DEF OfAgent
    <2> QED BY <1>2, <2>1 DEF NoneEmpty
  <1>11. \A e \in E : e.cost = TotalCost(part[e]) /\ e.calls = TotalCalls(part[e])
    BY <1>2, <1>3, <1>8
  <1>12. /\ IsFiniteSet(E) /\ Costs(E) \in [E -> Nat] /\ SumFunction(Costs(E)) = TotalCost(R)
         /\ Calls(E) \in [E -> Nat] /\ SumFunction(Calls(E)) = TotalCalls(R)
    BY <1>9, <1>10, <1>11, EntriesSum
  <1> QED BY <1>1, <1>12 DEF Sums

\* ... and no fewer than any of their sessions.
LEMMA SessionsAddUp ==
    ASSUME NEW R, RowsCount(R), NEW X \in SUBSET SessionEntries(R)
    PROVE  SumFunction(Costs(X)) <= TotalCost(R)
  <1> DEFINE OfSession(s, a) == {q \in R : Of(q).session = s /\ Of(q).agent = a}
             Entry(r) == [session |-> Of(r).session, agent |-> Of(r).agent,
                          cost |-> TotalCost(OfSession(Of(r).session, Of(r).agent))]
  <1>0. PICK Q : Q = {q \in R : Of(q).session # Unset}
    OBVIOUS
  <1>1. PICK E : E = SessionEntries(R)
    OBVIOUS
  <1>2. E = {Entry(r) : r \in Q}
    BY <1>0, <1>1 DEF SessionEntries
  <1>3. \A r : /\ Entry(r).session = Of(r).session /\ Entry(r).agent = Of(r).agent
               /\ Entry(r).cost = TotalCost(OfSession(Of(r).session, Of(r).agent))
    OBVIOUS
  <1>4. \A r, q : Of(r).session = Of(q).session /\ Of(r).agent = Of(q).agent => Entry(r) = Entry(q)
    OBVIOUS
  <1>5. Q \in SUBSET R /\ RowsCount(Q)
    <2>1. Q \in SUBSET R
      BY <1>0
    <2>2. IsFiniteSet(Q)
      BY <2>1, FS_Subset DEF RowsCount
    <2> QED BY <2>1, <2>2 DEF RowsCount, RowCosts, RowCalls
  <1> HIDE DEF Entry, OfSession
  <1>6. PICK key : key = [r \in Q |-> Entry(r)]
    OBVIOUS
  <1>7. PICK part : part = [e \in E |-> OfSession(e.session, e.agent)]
    OBVIOUS
  <1>8. \A r \in Q : part[Entry(r)] = OfSession(Of(r).session, Of(r).agent)
    BY <1>2, <1>3, <1>7
  <1>9. Grouping(Q, E, key, part)
    <2>1. key \in [Q -> E]
      BY <1>2, <1>6
    <2>2. part \in [E -> SUBSET Q]
      <3>1. \A r \in Q : OfSession(Of(r).session, Of(r).agent) \in SUBSET Q
        BY <1>0 DEF OfSession
      <3> QED BY <1>2, <1>7, <1>8, <3>1
    <2>3. ASSUME NEW f \in Q, NEW r \in Q
          PROVE  r \in part[Entry(f)] <=> key[r] = Entry(f)
      <3>1. r \in part[Entry(f)] <=> Of(r).session = Of(f).session /\ Of(r).agent = Of(f).agent
        BY <1>5, <1>8 DEF OfSession
      <3> QED BY <1>3, <1>4, <1>6, <3>1
    <2> QED BY <1>2, <2>1, <2>2, <2>3 DEF Grouping
  <1>10. NoneEmpty(part, E)
    <2>1. \A f \in Q : f \in part[Entry(f)]
      BY <1>5, <1>8 DEF OfSession
    <2> QED BY <1>2, <2>1 DEF NoneEmpty
  <1>11. \A e \in E : e.cost = TotalCost(part[e])
    BY <1>2, <1>3, <1>8
  <1>12. IsFiniteSet(E) /\ Costs(E) \in [E -> Nat] /\ SumFunction(Costs(E)) = TotalCost(Q)
    BY <1>5, <1>9, <1>10, <1>11, EntriesSum
  <1>13. TotalCost(Q) <= TotalCost(R)
    <2>1. IsFiniteSet(R) /\ RowCosts(R) \in [R -> Nat] /\ R \in SUBSET R
      BY DEF RowsCount
    <2>2. PICK w : w = RowCosts(R)
      OBVIOUS
    <2>3. TotalCost(Q) = SumFunctionOnSet(w, Q) /\ TotalCost(R) = SumFunctionOnSet(w, R)
      BY <1>5, <2>1, <2>2, PartTotals
    <2>4. \A x \in Q : w[x] <= w[x]
      BY <1>5, <2>1, <2>2
    <2>5. SumFunctionOnSet(w, Q) <= SumFunctionOnSet(w, R)
      BY <1>5, <2>1, <2>2, <2>4, SumGrows
    <2> QED BY <2>3, <2>5
  <1>14. SumFunction(Costs(X)) <= SumFunction(Costs(E))
    BY <1>1, <1>12, CostsOfPart
  <1>15. SumFunction(Costs(X)) \in Nat /\ TotalCost(Q) \in Nat /\ TotalCost(R) \in Nat
    <2>1. IsFiniteSet(R) /\ RowCosts(R) \in [R -> Nat] /\ R \in SUBSET R
      BY DEF RowsCount
    <2>2. SumFunctionOnSet(RowCosts(R), R) \in Nat
      BY <2>1, SumOfPart
    <2>3. SumFunctionOnSet(RowCosts(R), Q) \in Nat
      BY <1>5, <2>1, SumOfPart
    <2> QED BY <1>1, <1>5, <1>12, <2>1, <2>2, <2>3, CostsOfPart, PartTotals
  <1> QED BY <1>12, <1>13, <1>14, <1>15

\* Whatever is held or on its way adds up.
HoldsSums(x) ==
    /\ IsCell(x)
    /\ \A d \in x.data : AddsUp(d)
    /\ IsAnswered(x) => AddsUp(x.fetch.data)
\* The calls traced are among those there may be, and every cell holds what adds up.
CostInv ==
    /\ traced \in SUBSET Ledger /\ IsFiniteSet(traced)
    /\ payer \in Payers /\ hours \in Periods
    /\ costs = [c \in CostCells |-> costs[c]]
    /\ \A c \in CostCells : HoldsSums(costs[c])

\* Whatever of the calls the API has read, its answer adds up.
LEMMA AnswersAddUp ==
    ASSUME NEW S \in SUBSET Ledger, IsFiniteSet(S), NEW d \in Breakdowns(S)
    PROVE  AddsUp(d)
  <1>1. PICK R : R = CostRows(S)
    OBVIOUS
  <1>2. RowsCount(R)
    BY <1>1, RowsOfCalls
  <1>3. PICK L \in SUBSET R, top \in Tops(SessionEntries(R)) :
            /\ \A r \in R : \E f \in Firsts({q \in R : ToolOf(q) = ToolOf(r)}) :
                  {q \in L : ToolOf(q) = ToolOf(r)} = {f}
            /\ d = [tools |-> ToolEntries(R, L), agents |-> AgentEntries(R), sessions |-> top,
                    cost |-> TotalCost(R), calls |-> TotalCalls(R)]
    BY <1>1 DEF Breakdowns
  <1>4. top \in SUBSET SessionEntries(R)
    BY DEF Tops, kSubset
  <1>5. /\ d.tools = ToolEntries(R, L) /\ d.agents = AgentEntries(R) /\ d.sessions = top
        /\ d.cost = TotalCost(R) /\ d.calls = TotalCalls(R)
    BY <1>3
  <1>6. /\ Sums(d.tools, d.cost, d.calls)
        /\ \A e \in d.tools : e.type \in {"token_based", "call_based"}
    BY <1>2, <1>3, <1>5, ToolsAddUp
  <1>7. Sums(d.agents, d.cost, d.calls)
    BY <1>2, <1>5, AgentsAddUp
  <1>8. ASSUME NEW X \in SUBSET d.sessions
        PROVE  SumFunction(Costs(X)) <= d.cost
    <2>1. X \in SUBSET SessionEntries(R)
      BY <1>4, <1>5
    <2> QED BY <1>2, <1>5, <2>1, SessionsAddUp
  <1> QED BY <1>6, <1>7, <1>8 DEF AddsUp

\* What the steps of a request make of an address.
LEMMA CostCellSteps ==
    ASSUME NEW x, HoldsSums(x)
    PROVE  /\ HoldsSums(Asking(x)) /\ HoldsSums(Joining(x)) /\ HoldsSums(Lost(x))
           /\ IsAnswered(x) => HoldsSums(Arrived(x))
           /\ \A d : AddsUp(d) => HoldsSums(Reading(x, d))
  <1>1. HoldsSums(Asking(x)) /\ HoldsSums(Lost(x))
    BY CellSteps, FetchStages DEF HoldsSums, IsAnswered
  <1>2. HoldsSums(Joining(x))
    BY <1>1 DEF Joining
  <1>3. IsAnswered(x) => HoldsSums(Arrived(x))
    BY CellSteps, FetchStages DEF HoldsSums, IsAnswered
  <1>4. \A d : AddsUp(d) => HoldsSums(Reading(x, d))
    BY CellSteps, FetchStages DEF HoldsSums, IsAnswered
  <1> QED BY <1>1, <1>2, <1>3, <1>4

\* One address changes.
LEMMA CostCellMoves ==
    ASSUME CostInv, NEW k \in CostCells, NEW x, HoldsSums(x), costs' = [costs EXCEPT ![k] = x],
           traced' = traced, payer' \in Payers, hours' \in Periods
    PROVE  CostInv'
  <1>1. /\ costs' = [c \in CostCells |-> costs'[c]]
        /\ \A c \in CostCells : costs'[c] = IF c = k THEN x ELSE costs[c]
    BY DEF CostInv
  <1> QED BY <1>1 DEF CostInv

\* Tracing calls, choosing a period or a project, and the answers keep it.
LEMMA CostSteps ==
    ASSUME CostInv, CostNext
    PROVE  CostInv'
  <1>0. CostView \in CostCells
    BY DEF CostInv, CostView, CostCells
  <1>1. CASE UNCHANGED <<traced, payer, hours, costs>>
    BY <1>1 DEF CostInv
  <1>2. CASE \E p \in Payers, h \in Periods : LookAt(p, h)
    <2>1. PICK p \in Payers, h \in Periods : LookAt(p, h)
      BY <1>2
    <2>5. <<p, h>> \in CostCells
      BY DEF CostCells
    <2>2. PICK k : k = <<p, h>> /\ k \in CostCells
      BY <2>5
    <2>3. HoldsSums(Joining(costs[k]))
      BY <2>2, CostCellSteps DEF CostInv
    <2>4. costs' = [costs EXCEPT ![k] = Joining(costs[k])]
      BY <2>1, <2>2 DEF LookAt
    <2> QED BY <2>1, <2>2, <2>3, <2>4, CostCellMoves DEF LookAt
  <1>3. CASE PollCosts
    <2>1. HoldsSums(Asking(costs[CostView]))
      BY <1>0, CostCellSteps DEF CostInv
    <2>2. costs' = [costs EXCEPT ![CostView] = Asking(costs[CostView])]
      BY <1>3 DEF PollCosts
    <2>3. traced' = traced /\ payer' \in Payers /\ hours' \in Periods
      BY <1>3 DEF PollCosts, CostKept, CostInv
    <2> QED BY <1>0, <2>1, <2>2, <2>3, CostCellMoves
  <1>4. CASE \E c \in CostCells : CostsRead(c) \/ CostsArrive(c) \/ CostsFail(c)
    <2>1. PICK k \in CostCells : CostsRead(k) \/ CostsArrive(k) \/ CostsFail(k)
      BY <1>4
    <2>2. traced' = traced /\ payer' \in Payers /\ hours' \in Periods
      BY <2>1 DEF CostsRead, CostsArrive, CostsFail, CostKept, CostInv
    <2>3. HoldsSums(costs[k])
      BY DEF CostInv
    <2>4. CASE CostsRead(k)
      <3>1. PICK d \in Breakdowns(Traced(k)) : costs' = [costs EXCEPT ![k] = Reading(costs[k], d)]
        BY <2>4 DEF CostsRead
      <3>2. Traced(k) \in SUBSET Ledger /\ IsFiniteSet(Traced(k))
        <4>1. Traced(k) \in SUBSET traced
          BY DEF Traced
        <4> QED BY <4>1, FS_Subset DEF CostInv
      <3>3. HoldsSums(Reading(costs[k], d))
        BY <2>3, <3>2, AnswersAddUp, CostCellSteps
      <3> QED BY <2>2, <3>1, <3>3, CostCellMoves
    <2>5. CASE CostsArrive(k)
      <3>1. costs' = [costs EXCEPT ![k] = Arrived(costs[k])] /\ IsAnswered(costs[k])
        BY <2>5 DEF CostsArrive
      <3>2. HoldsSums(Arrived(costs[k]))
        BY <2>3, <3>1, CostCellSteps
      <3> QED BY <2>2, <3>1, <3>2, CostCellMoves
    <2>6. CASE CostsFail(k)
      <3>1. costs' = [costs EXCEPT ![k] = Lost(costs[k])]
        BY <2>6 DEF CostsFail
      <3>2. HoldsSums(Lost(costs[k]))
        BY <2>3, CostCellSteps
      <3> QED BY <2>2, <3>1, <3>2, CostCellMoves
    <2> QED BY <2>1, <2>4, <2>5, <2>6
  <1>5. CASE \E c \in Ledger : CallTraced(c)
    <2>1. PICK c \in Ledger : CallTraced(c)
      BY <1>5
    <2>2. traced' = traced \cup {c} /\ UNCHANGED <<payer, hours, costs>>
      BY <2>1 DEF CallTraced
    <2>3. IsFiniteSet(traced')
      BY <2>2, FS_AddElement DEF CostInv
    <2> QED BY <2>2, <2>3 DEF CostInv
  <1>6. ASSUME NEW new, Filters(new)
        PROVE  UNCHANGED <<traced, payer, hours, costs>>
    BY <1>6 DEF Filters
  <1>7. CASE \E k \in Kinds : \/ ClearPill(k)
                              \/ \E v \in UNION {{c.server, c.agent, c.model} : c \in Ledger}
                                          \cup {"token_based", "call_based"} : ToggleFilter(k, v)
    <2>1. UNCHANGED <<traced, payer, hours, costs>>
      BY <1>6, <1>7 DEF ClearPill, ToggleFilter
    <2> QED BY <1>1, <2>1
  <1>8. CASE ClearAll
    BY <1>1, <1>6, <1>8 DEF ClearAll
  <1>9. CASE ShowsCosts /\ \E e \in FilteredTools : ClickTool(e)
    <2>1. UNCHANGED <<traced, payer, hours, costs>>
      BY <1>6, <1>9 DEF ClickTool
    <2> QED BY <1>1, <2>1
  <1> QED BY <1>2, <1>3, <1>4, <1>5, <1>7, <1>8, <1>9 DEF CostNext

\* It holds at first, on this page and on the others.
LEMMA CostInits ==
    ASSUME Init
    PROVE  CostInv
  <1>0. CostInit \/ CostsRest
    BY Zenon DEF Init
  <1>1. AnyOf(Payers) \in Payers /\ AnyOf(Periods) \in Periods /\ 24 \in Periods
    BY CostAssumption DEF AnyOf
  <1>2. HoldsSums(Fresh) /\ HoldsSums(Closed)
    BY FetchStages DEF HoldsSums, IsCell, Fresh, Closed, IsAnswered
  <1>3. payer \in Payers /\ hours \in Periods /\ traced = {}
    BY <1>0, <1>1 DEF CostInit, CostsRest
  <1>4. /\ costs = [c \in CostCells |-> costs[c]]
        /\ \A c \in CostCells : costs[c] \in {Fresh, Closed}
    BY <1>0 DEF CostInit, CostsRest
  <1> QED BY <1>2, <1>3, <1>4, FS_EmptySet DEF CostInv

\* The tools, filtered by type, and the sums the page shows of them.
LEMMA TypesMakeUp ==
    ASSUME NEW F, NEW E, IsFiniteSet(E), Costs(E) \in [E -> Nat], F \in SUBSET E,
           \A e \in E : e.type \in {"token_based", "call_based"},
           NEW A, A = {e \in F : e.type = "token_based"},
           NEW B, B = {e \in F : e.type = "call_based"}
    PROVE  SumFunction(Costs(A)) + SumFunction(Costs(B)) = SumFunction(Costs(F))
  <1>1. A \in SUBSET E /\ B \in SUBSET E /\ A \cap B = {} /\ A \cup B = F
    OBVIOUS
  <1>2. PICK w : w = Costs(E) /\ w \in [E -> Nat]
    OBVIOUS
  <1>3. SumFunctionOnSet(w, A \cup B) = SumFunctionOnSet(w, A) + SumFunctionOnSet(w, B)
    BY <1>1, <1>2, SumOfTwoParts
  <1>4. SumFunctionOnSet(w, F) = SumFunctionOnSet(w, A) + SumFunctionOnSet(w, B)
    BY <1>1, <1>3
  <1> QED BY <1>1, <1>2, <1>4, CostsOfPart

\* The cards add up what is held, and what is held adds up.
LEMMA CostsTell ==
    ASSUME CostInv
    PROVE  CostsAddUp
  <1> SUFFICES ASSUME ShowsCosts PROVE CostsAddUp
    BY DEF CostsAddUp
  <1>1. CostView \in CostCells
    BY DEF CostInv, CostView, CostCells
  <1>2. PICK a : a = Answer
    OBVIOUS
  <1>3. AddsUp(a)
    <2>1. a \in costs[CostView].data
      BY <1>2 DEF ShowsCosts, Loaded, Answer, Data
    <2> QED BY <1>1, <2>1 DEF CostInv, HoldsSums
  <1>4. /\ IsFiniteSet(a.tools) /\ Costs(a.tools) \in [a.tools -> Nat]
        /\ SumFunction(Costs(a.tools)) = a.cost
        /\ SumFunction(Costs(a.agents)) = a.cost /\ SumFunction(Calls(a.agents)) = a.calls
        /\ \A e \in a.tools : e.type \in {"token_based", "call_based"}
    BY <1>3 DEF AddsUp, Sums
  <1>5. FilteredTools \in SUBSET a.tools /\ FilteredSessions \in SUBSET a.sessions
    BY <1>2 DEF FilteredTools, FilteredSessions
  <1>6. \A X : SumOf(X, EntryCost) = SumFunction(Costs(X)) /\ SumOf(X, EntryCalls) = SumFunction(Calls(X))
    BY DEF SumOf, Costs, Calls, EntryCost, EntryCalls
  <1>7. TypeShown("token_based") + TypeShown("call_based") = TotalShown
    <2>1. PICK A, B : /\ A = {e \in FilteredTools : e.type = "token_based"}
                      /\ B = {e \in FilteredTools : e.type = "call_based"}
      OBVIOUS
    <2>2. SumFunction(Costs(A)) + SumFunction(Costs(B)) = SumFunction(Costs(FilteredTools))
      BY <1>4, <1>5, <2>1, TypesMakeUp
    <2>3. TypeShown("token_based") = SumFunction(Costs(A)) /\ TypeShown("call_based") = SumFunction(Costs(B))
      BY <1>6, <2>1 DEF TypeShown
    <2>4. TotalShown = SumFunction(Costs(FilteredTools))
      <3>1. CASE HasFilters
        BY <1>6, <3>1 DEF TotalShown
      <3>2. CASE ~ HasFilters
        <4>1. \A k \in Kinds : filters[k] = {}
          BY <3>2 DEF HasFilters, NoFilters
        <4>2. FilteredTools = a.tools
          BY <1>2, <4>1 DEF FilteredTools, Passes, Kinds
        <4> QED BY <1>2, <1>4, <3>2, <4>2 DEF TotalShown
      <3> QED BY <3>1, <3>2
    <2> QED BY <2>2, <2>3, <2>4
  <1>8. ASSUME filters["agent"] = {}
        PROVE  /\ SumOf(FilteredAgents, EntryCost) = a.cost
               /\ SumOf(FilteredAgents, EntryCalls) = a.calls
    <2>1. FilteredAgents = a.agents
      BY <1>2, <1>8 DEF FilteredAgents, Passes
    <2> QED BY <1>4, <1>6, <2>1
  <1>9. SumOf(FilteredSessions, EntryCost) <= a.cost
    <2>1. PICK X : X = FilteredSessions /\ X \in SUBSET a.sessions
      BY <1>5
    <2>2. SumFunction(Costs(X)) <= a.cost
      BY <1>3, <2>1 DEF AddsUp
    <2> QED BY <1>6, <2>1, <2>2
  <1> QED BY <1>2, <1>7, <1>8, <1>9 DEF CostsAddUp

\* Whatever is traced, and whichever windows, projects and filters are chosen while
\* answers are under way: the costs page adds up to one sum by type and by agent, and no
\* session costs more.
THEOREM CostsAlwaysAddUp == Spec => []CostsAddUp
<1>1. Init => CostInv
  BY CostInits
<1>2. CostInv /\ [Next]_vars => CostInv'
  <2> SUFFICES ASSUME CostInv, [Next]_vars PROVE CostInv'
    OBVIOUS
  <2>1. CASE CostNext
    BY <2>1, CostSteps
  <2>2. CASE UNCHANGED costVars
    BY <2>2 DEF costVars, CostInv
  <2>3. CostNext \/ UNCHANGED costVars
    BY DEF Next, vars
  <2> QED BY <2>1, <2>2, <2>3
<1>3. CostInv => CostsAddUp
  BY CostsTell
<1> QED BY <1>1, <1>2, <1>3, PTL DEF Spec

-----------------------------------------------------------------------------
(* A trace as a tree. *)

\* Rows that include the roots shown and the children of those that are open.
HasRows(t, Open, S) ==
    /\ {i \in Roots(t) : ~Hidden(i)} \subseteq S
    /\ \A i \in S \cap Open : Children(t, i) \subseteq S

\* The rows are the least set that has the roots and the children of its open rows.
LEMMA RowsLeast ==
    ASSUME NEW t, NEW O
    PROVE  /\ RowsAmong(t, O) \subseteq In(t) /\ HasRows(t, O, RowsAmong(t, O))
           /\ \A S \in SUBSET In(t) : HasRows(t, O, S) => RowsAmong(t, O) \subseteq S
  <1>1. PICK R : R = RowsAmong(t, O)
    OBVIOUS
  <1>2. /\ R \subseteq In(t)
        /\ \A S \in SUBSET In(t) : HasRows(t, O, S) => R \subseteq S
        /\ \A i \in In(t) : (\A S \in SUBSET In(t) : HasRows(t, O, S) => i \in S) => i \in R
    <2>1. \A S \in SUBSET In(t) :
             HasRows(t, O, S) <=>
                /\ {i \in Roots(t) : ~Hidden(i)} \subseteq S
                /\ \A i \in S \cap O : [j \in In(t) |-> Children(t, j)][i] \subseteq S
      BY DEF HasRows
    <2> QED BY <1>1, <2>1 DEF RowsAmong
  <1>3. ASSUME NEW i \in Roots(t), ~ Hidden(i)
        PROVE  i \in R
    <2>1. i \in In(t)
      BY DEF Roots
    <2>2. \A S \in SUBSET In(t) : HasRows(t, O, S) => i \in S
      BY <1>3 DEF HasRows
    <2> QED BY <1>2, <2>1, <2>2
  <1>4. ASSUME NEW j \in R \cap O, NEW i \in Children(t, j)
        PROVE  i \in R
    <2>1. i \in In(t)
      BY DEF Children
    <2>2. ASSUME NEW S \in SUBSET In(t), HasRows(t, O, S)
          PROVE  i \in S
      <3>1. j \in S
        BY <1>2, <2>2
      <3> QED BY <2>2, <3>1 DEF HasRows
    <2> QED BY <1>2, <2>1, <2>2
  <1>5. HasRows(t, O, R)
    BY <1>3, <1>4 DEF HasRows
  <1> QED BY <1>1, <1>2, <1>5

\* How a span gets a row, and that it gets no other way.
LEMMA RowOf ==
    ASSUME NEW t, NEW O, NEW i \in In(t)
    PROVE  i \in RowsAmong(t, O) <=>
              IF SpanOf(i).parent \in In(t) THEN SpanOf(i).parent \in RowsAmong(t, O) \cap O
              ELSE ~ Hidden(i)
  <1>1. PICK R : R = RowsAmong(t, O)
    OBVIOUS
  <1>2. /\ R \subseteq In(t) /\ HasRows(t, O, R)
        /\ \A S \in SUBSET In(t) : HasRows(t, O, S) => R \subseteq S
    BY <1>1, RowsLeast
  <1>3. ASSUME SpanOf(i).parent \in R \cap O
        PROVE  i \in R
    BY <1>2, <1>3 DEF HasRows, Children
  <1>4. ASSUME SpanOf(i).parent \notin In(t), ~ Hidden(i)
        PROVE  i \in R
    BY <1>2, <1>4 DEF HasRows, Roots
  <1>5. ASSUME i \in R, SpanOf(i).parent \notin R \cap O,
               SpanOf(i).parent \in In(t) \/ Hidden(i)
        PROVE  FALSE
    <2>1. PICK S : S = R \ {i}
      OBVIOUS
    <2>2. S \in SUBSET In(t)
      BY <1>2, <2>1
    <2>3. {j \in Roots(t) : ~Hidden(j)} \subseteq S
      BY <1>2, <1>5, <2>1 DEF HasRows, Roots
    <2>4. \A j \in S \cap O : Children(t, j) \subseteq S
      BY <1>2, <1>5, <2>1 DEF HasRows, Children
    <2>5. HasRows(t, O, S)
      BY <2>3, <2>4 DEF HasRows
    <2> QED BY <1>2, <1>5, <2>1, <2>2, <2>5
  <1> QED BY <1>1, <1>2, <1>3, <1>4, <1>5

\* Of some spans, one has a parent that is none of them.
LEMMA Topmost ==
    ASSUME NEW t, NEW T \in SUBSET In(t), T # {}
    PROVE  \E i \in T : i \in In(t) /\ SpanOf(i).parent \notin T
  <1>1. T \in SUBSET Ids
    BY DEF In
  <1> QED BY <1>1, TreeAssumption

\* Opening more of a tree hides nothing of it.
LEMMA RowsGrow ==
    ASSUME NEW t, NEW O, NEW Q, O \subseteq Q
    PROVE  RowsAmong(t, O) \subseteq RowsAmong(t, Q)
  <1>1. PICK R : R = RowsAmong(t, Q)
    OBVIOUS
  <1>2. R \in SUBSET In(t) /\ HasRows(t, Q, R)
    BY <1>1, RowsLeast
  <1>3. HasRows(t, O, R)
    BY <1>2 DEF HasRows
  <1> QED BY <1>1, <1>2, <1>3, RowsLeast

\* What is a row with some collapsed and with others collapsed is one with all of them.
LEMMA RowsMeet ==
    ASSUME NEW t, NEW O, NEW Q
    PROVE  RowsAmong(t, O) \cap RowsAmong(t, Q) \subseteq RowsAmong(t, O \cap Q)
  <1>1. PICK T : T = (RowsAmong(t, O) \cap RowsAmong(t, Q)) \ RowsAmong(t, O \cap Q)
    OBVIOUS
  <1>2. SUFFICES ASSUME T # {} PROVE FALSE
    BY <1>1
  <1>3. T \in SUBSET In(t)
    BY <1>1, RowsLeast
  <1>4. PICK i \in T : i \in In(t) /\ SpanOf(i).parent \notin T
    BY <1>2, <1>3, Topmost
  <1>5. i \in RowsAmong(t, O) /\ i \in RowsAmong(t, Q) /\ i \notin RowsAmong(t, O \cap Q)
    BY <1>1
  <1>6. CASE SpanOf(i).parent \in In(t)
    <2>1. SpanOf(i).parent \in RowsAmong(t, O) \cap O /\ SpanOf(i).parent \in RowsAmong(t, Q) \cap Q
      BY <1>4, <1>5, <1>6, RowOf
    <2>2. SpanOf(i).parent \in RowsAmong(t, O \cap Q)
      BY <1>1, <1>4, <2>1
    <2>3. i \in RowsAmong(t, O \cap Q)
      <3>1. PICK P : P = O \cap Q
        OBVIOUS
      <3> QED BY <1>4, <1>6, <2>1, <2>2, <3>1, RowOf
    <2> QED BY <1>5, <2>3
  <1>7. CASE SpanOf(i).parent \notin In(t)
    <2>1. ~ Hidden(i)
      BY <1>4, <1>5, <1>7, RowOf
    <2>2. PICK P : P = O \cap Q
      OBVIOUS
    <2> QED BY <1>4, <1>5, <1>7, <2>1, <2>2, RowOf
  <1> QED BY <1>6, <1>7

\* A row stays one when it is collapsed itself.
LEMMA RowCollapses ==
    ASSUME NEW t, NEW O, NEW i \in RowsAmong(t, O)
    PROVE  i \in RowsAmong(t, O \ {i})
  <1>1. PICK Q, R, N : Q = O \ {i} /\ R = RowsAmong(t, O) /\ N = RowsAmong(t, Q)
    OBVIOUS
  <1>2. PICK T : T = R \ N
    OBVIOUS
  <1>3. SUFFICES ASSUME i \in T PROVE FALSE
    BY <1>1, <1>2
  <1>4. T \in SUBSET In(t)
    BY <1>1, <1>2, RowsLeast
  <1>5. PICK j \in T : j \in In(t) /\ SpanOf(j).parent \notin T
    BY <1>3, <1>4, Topmost
  <1>6. j \in R /\ j \notin N
    BY <1>2
  <1>7. CASE SpanOf(j).parent \in In(t)
    <2>1. SpanOf(j).parent \in R \cap O
      BY <1>1, <1>5, <1>6, <1>7, RowOf
    <2>2. SpanOf(j).parent \in N \cap Q
      BY <1>1, <1>2, <1>3, <1>5, <2>1
    <2> QED BY <1>1, <1>5, <1>6, <1>7, <2>2, RowOf
  <1>8. CASE SpanOf(j).parent \notin In(t)
    BY <1>1, <1>5, <1>6, <1>8, RowOf
  <1> QED BY <1>7, <1>8

\* A span is hidden only if it is in no span and no span is in it.
LEMMA HiddenAlone ==
    ASSUME NEW i \in Ids, Hidden(i)
    PROVE  /\ SpanOf(i) \in Spans /\ SpanOf(i).id = i
           /\ SpanOf(i).parent \notin Ids /\ \A j \in Ids : SpanOf(j).parent # i
  <1>1. \A j \in Ids : SpanOf(j) \in Spans /\ SpanOf(j).id = j
    BY DEF Ids, SpanOf
  <1> QED BY <1>1, TreeAssumption DEF Hidden

\* With every row open, every span that is not hidden is a row.
LEMMA AllRows ==
    ASSUME NEW t
    PROVE  RowsAmong(t, Ids) = {i \in In(t) : ~ Hidden(i)}
  <1>1. PICK R, N : R = RowsAmong(t, Ids) /\ N = {i \in In(t) : ~ Hidden(i)}
    OBVIOUS
  <1>2. In(t) \subseteq Ids /\ R \subseteq In(t) /\ N \subseteq In(t)
    BY <1>1, RowsLeast DEF In
  <1>3. R \subseteq N
    <2>1. {j \in Roots(t) : ~Hidden(j)} \subseteq N
      BY <1>1 DEF Roots
    <2>2. \A j \in N \cap Ids : Children(t, j) \subseteq N
      BY <1>1, <1>2, HiddenAlone DEF Children
    <2>3. HasRows(t, Ids, N)
      BY <2>1, <2>2 DEF HasRows
    <2> QED BY <1>1, <1>2, <2>3, RowsLeast
  <1>4. PICK T : T = N \ R
    OBVIOUS
  <1>5. ASSUME T # {}
        PROVE  FALSE
    <2>1. T \in SUBSET In(t)
      BY <1>2, <1>4
    <2>2. PICK i \in T : i \in In(t) /\ SpanOf(i).parent \notin T
      BY <1>5, <2>1, Topmost
    <2>3. i \notin R /\ ~ Hidden(i)
      BY <1>1, <1>4
    <2>4. SpanOf(i).parent \in In(t)
      BY <1>1, <2>2, <2>3, RowOf
    <2>5. ~ Hidden(SpanOf(i).parent)
      BY <1>2, <2>2, <2>4, HiddenAlone
    <2>6. SpanOf(i).parent \in R \cap Ids
      BY <1>1, <1>2, <1>4, <2>2, <2>4, <2>5
    <2> QED BY <1>1, <2>2, <2>3, <2>4, <2>6, RowOf
  <1> QED BY <1>1, <1>3, <1>4, <1>5

\* Each of them is a row as things are, or below one that is collapsed.
LEMMA NoneLost ==
    ASSUME NEW C
    PROVE  RowsAmong(shown, Ids)
              = RowsAmong(shown, Ids \ C) \cup UNION {Below(c) : c \in C}
  <1>1. PICK R, N, U : /\ R = RowsAmong(shown, Ids) /\ N = RowsAmong(shown, Ids \ C)
                       /\ U = UNION {Below(c) : c \in C}
    OBVIOUS
  <1>2. N \subseteq R /\ U \subseteq R
    <2>1. PICK Q : Q = Ids \ C /\ Q \subseteq Ids
      OBVIOUS
    <2>2. N \subseteq R
      BY <1>1, <2>1, RowsGrow
    <2> QED BY <1>1, <2>2 DEF Below
  <1>3. PICK T : T = R \ (N \cup U)
    OBVIOUS
  <1>4. ASSUME T # {}
        PROVE  FALSE
    <2>1. T \in SUBSET In(shown)
      BY <1>1, <1>3, RowsLeast
    <2>2. PICK i \in T : i \in In(shown) /\ SpanOf(i).parent \notin T
      BY <1>4, <2>1, Topmost
    <2>3. i \in R /\ i \notin N /\ i \notin U
      BY <1>3
    <2>4. PICK j : j = SpanOf(i).parent
      OBVIOUS
    <2>5. j \in In(shown)
      <3>1. PICK Q : Q = Ids \ C
        OBVIOUS
      <3> QED BY <1>1, <2>2, <2>3, <2>4, <3>1, RowOf
    <2>6. j \in R \cap Ids
      BY <1>1, <2>2, <2>3, <2>4, <2>5, RowOf
    <2>7. CASE j \in N /\ j \notin C
      <3>1. PICK Q : Q = Ids \ C
        OBVIOUS
      <3> QED BY <1>1, <2>2, <2>3, <2>4, <2>5, <2>6, <2>7, <3>1, RowOf
    <2>8. ASSUME NEW c \in C, j = c \/ j \notin RowsAmong(shown, Ids \ {c})
          PROVE  FALSE
      <3>1. PICK Q : Q = Ids \ {c}
        OBVIOUS
      <3>2. i \notin RowsAmong(shown, Q)
        BY <2>2, <2>4, <2>5, <2>8, <3>1, RowOf
      <3>3. i \in Below(c)
        BY <1>1, <2>3, <3>1, <3>2 DEF Below
      <3> QED BY <1>1, <2>3, <3>3
    <2>9. j \in N \/ j \in U
      BY <1>3, <2>2, <2>4, <2>6
    <2> QED BY <1>1, <2>7, <2>8, <2>9 DEF Below
  <1> QED BY <1>1, <1>2, <1>3, <1>4

-----------------------------------------------------------------------------
\* How often a trace has each span, and what the page keeps of its requests.
Counted == [Spans -> Nat]
TreeTypes ==
    /\ storage \in Counted /\ shown \in Counted /\ fetches \in Nat
    /\ answers \in SUBSET [number : Nat, read : BOOLEAN, trace : Counted]
\* A row that is collapsed or has its payload open is there.
OpenRows == closed \cup details \subseteq Rows
\* Together they are what every step keeps.
TreeInv == TreeTypes /\ OpenRows

\* Every step keeps the types.
LEMMA TreeStepTypes ==
    ASSUME TreeTypes, TreeNext
    PROVE  TreeTypes'
  <1>0. NoSpans \in Counted
    BY DEF NoSpans, Counted
  <1>1. CASE \E s \in Spans : Store(s)
    BY <1>1 DEF TreeTypes, Store, Counted
  <1>2. CASE FetchTrace
    <2>1. PICK q : q = [number |-> fetches, read |-> FALSE, trace |-> NoSpans]
      OBVIOUS
    <2>2. q \in [number : Nat, read : BOOLEAN, trace : Counted]
      BY <1>0, <2>1 DEF TreeTypes
    <2>3. answers' = answers \cup {q} /\ fetches' = fetches + 1 /\ shown' = NoSpans /\ storage' = storage
      BY <1>2, <2>1 DEF FetchTrace
    <2> QED BY <1>0, <2>2, <2>3 DEF TreeTypes
  <1>3. ASSUME NEW a \in answers, TraceRead(a) \/ TraceShown(a) \/ TraceFails(a)
        PROVE  TreeTypes'
    <2>1. a \in [number : Nat, read : BOOLEAN, trace : Counted]
      BY DEF TreeTypes
    <2>2. CASE TraceRead(a)
      <3>1. [a EXCEPT !.read = TRUE, !.trace = storage] \in [number : Nat, read : BOOLEAN, trace : Counted]
        BY <2>1 DEF TreeTypes
      <3> QED BY <2>2, <3>1 DEF TreeTypes, TraceRead
    <2>3. CASE TraceShown(a)
      BY <2>1, <2>3 DEF TreeTypes, TraceShown
    <2>4. CASE TraceFails(a)
      BY <2>4 DEF TreeTypes, TraceFails
    <2> QED BY <1>3, <2>2, <2>3, <2>4
  <1>4. CASE UNCHANGED <<storage, answers, fetches, shown>>
    BY <1>4 DEF TreeTypes
  <1>5. CASE \E yes \in BOOLEAN : OpenTraceTab(yes)
    BY <1>4, <1>5 DEF OpenTraceTab, TreeClick
  <1>6. CASE \E i \in Ids : ToggleRow(i) \/ ToggleDetail(i) \/ ViewFull(i)
    BY <1>4, <1>6 DEF ToggleRow, ToggleDetail, ViewFull, TreeClick
  <1>7. CASE CloseSlideout
    BY <1>4, <1>7 DEF CloseSlideout, TreeClick
  <1> QED BY <1>1, <1>2, <1>3, <1>5, <1>6, <1>7 DEF TreeNext

\* Collapsing a row leaves it, and every row that is not below it, where it is.
LEMMA RowsCollapse ==
    ASSUME NEW i \in Rows
    PROVE  /\ i \in RowsAmong(shown, Ids \ ((closed \ Below(i)) \cup {i}))
           /\ Rows \ Below(i) \subseteq RowsAmong(shown, Ids \ ((closed \ Below(i)) \cup {i}))
  <1>1. PICK O, Q, P, M : /\ O = Ids \ closed /\ Q = Ids \ {i}
                          /\ P = Ids \ ((closed \ Below(i)) \cup {i}) /\ M = O \cap Q
    OBVIOUS
  <1>2. M \subseteq P /\ O \subseteq Ids
    BY <1>1
  <1>3. RowsAmong(shown, M) \subseteq RowsAmong(shown, P)
    BY <1>2, RowsGrow
  <1>4. RowsAmong(shown, O) \cap RowsAmong(shown, Q) \subseteq RowsAmong(shown, M)
    BY <1>1, RowsMeet
  <1>5. Rows = RowsAmong(shown, O) /\ RowsAmong(shown, O) \subseteq RowsAmong(shown, Ids)
    BY <1>1, <1>2, RowsGrow DEF Rows
  <1>6. i \in RowsAmong(shown, Q)
    BY <1>1, <1>5, RowCollapses
  <1>7. Rows \ Below(i) \subseteq RowsAmong(shown, Q)
    BY <1>1, <1>5 DEF Below
  <1> QED BY <1>1, <1>3, <1>4, <1>5, <1>6, <1>7

\* Every step keeps the rows that are collapsed or have their payload open among the rows.
LEMMA TreeStepRows ==
    ASSUME OpenRows, TreeNext
    PROVE  OpenRows'
  <1>1. CASE UNCHANGED <<shown, closed, details>>
    BY <1>1 DEF OpenRows, Rows, In, Roots, RowsAmong, HasRows, Children
  <1>2. CASE closed' = {} /\ details' = {}
    BY <1>2 DEF OpenRows
  <1>3. CASE \E s \in Spans : Store(s)
    BY <1>1, <1>3 DEF Store, rowState
  <1>4. CASE FetchTrace
    BY <1>2, <1>4 DEF FetchTrace
  <1>5. ASSUME NEW a \in answers, TraceRead(a) \/ TraceFails(a)
        PROVE  OpenRows'
    BY <1>1, <1>5 DEF TraceRead, TraceFails, rowState
  <1>6. ASSUME NEW a \in answers, TraceShown(a)
        PROVE  OpenRows'
    <2>1. PICK t, O : t = a.trace /\ O = Ids \ closed
      OBVIOUS
    <2>2. closed' \subseteq closed /\ closed' \cup details' \subseteq RowsAmong(t, O) /\ shown' = t
      BY <1>6, <2>1 DEF TraceShown, Keep
    <2>3. PICK Q : Q = Ids \ closed'
      OBVIOUS
    <2>4. O \subseteq Q
      BY <2>1, <2>2, <2>3
    <2>5. RowsAmong(t, O) \subseteq RowsAmong(t, Q)
      BY <2>4, RowsGrow
    <2> QED BY <2>2, <2>3, <2>5 DEF OpenRows, Rows
  <1>7. CASE \E yes \in BOOLEAN : OpenTraceTab(yes)
    BY <1>2, <1>7 DEF OpenTraceTab
  <1>8. ASSUME NEW i \in Ids, ToggleRow(i)
        PROVE  OpenRows'
    <2>1. i \in Rows /\ shown' = shown
      BY <1>8 DEF ToggleRow, TreeClick
    <2>2. PICK Q : Q = Ids \ closed'
      OBVIOUS
    <2>3. CASE i \in closed
      <3>1. closed' = closed \ {i} /\ details' = details
        BY <1>8, <2>3 DEF ToggleRow
      <3>2. PICK O : O = Ids \ closed
        OBVIOUS
      <3>3. O \subseteq Q
        BY <2>2, <3>1, <3>2
      <3>4. RowsAmong(shown, O) \subseteq RowsAmong(shown, Q)
        BY <3>3, RowsGrow
      <3> QED BY <2>1, <2>2, <3>1, <3>2, <3>4 DEF OpenRows, Rows
    <2>4. CASE i \notin closed
      <3>1. closed' = (closed \ Below(i)) \cup {i} /\ details' = details \ Below(i)
        BY <1>8, <2>4 DEF ToggleRow
      <3>2. i \in RowsAmong(shown, Q) /\ Rows \ Below(i) \subseteq RowsAmong(shown, Q)
        BY <2>1, <2>2, <3>1, RowsCollapse
      <3>3. closed' \cup details' \subseteq RowsAmong(shown, Q)
        BY <3>1, <3>2 DEF OpenRows
      <3> QED BY <2>1, <2>2, <3>3 DEF OpenRows, Rows
    <2> QED BY <2>3, <2>4
  <1>9. ASSUME NEW i \in Ids, ToggleDetail(i)
        PROVE  OpenRows'
    <2>1. UNCHANGED <<shown, closed>> /\ i \in Rows /\ details' \subseteq details \cup {i}
      BY <1>9 DEF ToggleDetail, TreeClick, SymDiff
    <2>2. Rows' = Rows
      BY <2>1 DEF Rows, In, Roots, RowsAmong, HasRows, Children
    <2> QED BY <2>1, <2>2 DEF OpenRows
  <1>10. ASSUME NEW i \in Ids, ViewFull(i)
         PROVE  OpenRows'
    BY <1>1, <1>10 DEF ViewFull, TreeClick, rowState
  <1>11. CASE CloseSlideout
    BY <1>1, <1>11 DEF CloseSlideout, TreeClick, rowState
  <1> QED BY <1>3, <1>4, <1>5, <1>6, <1>7, <1>8, <1>9, <1>10, <1>11 DEF TreeNext

\* A span and its id name each other.
LEMMA SpanIds ==
    /\ \A s \in Spans : s.id \in Ids /\ SpanOf(s.id) = s
    /\ \A i \in Ids : SpanOf(i) \in Spans /\ SpanOf(i).id = i
  <1>1. \A i \in Ids : SpanOf(i) \in Spans /\ SpanOf(i).id = i
    BY DEF Ids, SpanOf
  <1>2. \A s \in Spans : s.id \in Ids
    BY DEF Ids
  <1> QED BY <1>1, <1>2, TreeAssumption

\* The tokens of the spans, and of those that name a model.
Weights(t) == [s \in Spans |-> t[s] * s.tokens]

\* What a span weighs is its tokens, as often as the trace has it.
LEMMA WeightsCount ==
    ASSUME NEW t \in Counted
    PROVE  Weights(t) \in [Spans -> Nat] /\ \A s \in Spans : Weights(t)[s] = t[s] * s.tokens
  <1>1. \A s \in Spans : t[s] \in Nat /\ s.tokens \in Nat
    BY TreeAssumption DEF Counted
  <1>2. \A s \in Spans : t[s] * s.tokens \in Nat
    BY <1>1
  <1> QED BY <1>2 DEF Weights

\* The models' tokens are some of all, and all if only models have tokens.
LEMMA TokensTell ==
    ASSUME NEW t \in Counted
    PROVE  /\ ModelTokens(t) <= TokenSum(t)
           /\ (\A s \in Spans : t[s] > 0 /\ s.tokens > 0 => s.model) => ModelTokens(t) = TokenSum(t)
  <1>1. PICK w : w = Weights(t)
    OBVIOUS
  <1>2. w \in [Spans -> Nat] /\ IsFiniteSet(Spans)
    BY <1>1, WeightsCount, TreeAssumption
  <1>3. PICK A, B : A = {s \in Spans : s.model} /\ B = Spans \ A
    OBVIOUS
  <1>4. A \in SUBSET Spans /\ B \in SUBSET Spans /\ Spans \in SUBSET Spans /\ A \cap B = {} /\ A \cup B = Spans
    BY <1>3
  <1>5. ModelTokens(t) = SumFunctionOnSet(w, A) /\ TokenSum(t) = SumFunctionOnSet(w, Spans)
    BY <1>1, <1>3 DEF ModelTokens, TokenSum, TokensIn, Weights
  <1>6. \A s \in A : w[s] <= w[s]
    BY <1>2, <1>4
  <1>7. SumFunctionOnSet(w, A) <= SumFunctionOnSet(w, Spans)
    BY <1>2, <1>4, <1>6, SumGrows
  <1>8. ASSUME \A s \in Spans : t[s] > 0 /\ s.tokens > 0 => s.model
        PROVE  SumFunctionOnSet(w, A) = SumFunctionOnSet(w, Spans)
    <2>1. ASSUME NEW s \in B
          PROVE  w[s] = 0
      <3>1. t[s] \in Nat /\ s.tokens \in Nat /\ ~ (t[s] > 0 /\ s.tokens > 0)
        BY <1>3, <1>8, TreeAssumption DEF Counted
      <3>2. w[s] = t[s] * s.tokens
        BY <1>1, <1>4, WeightsCount
      <3>3. t[s] = 0 \/ s.tokens = 0
        BY <3>1
      <3> QED BY <3>1, <3>2, <3>3
    <2>2. SumFunctionOnSet(w, B) = 0
      BY <1>2, <1>4, <2>1, SumOfZeros
    <2>3. SumFunctionOnSet(w, A \cup B) = SumFunctionOnSet(w, A) + SumFunctionOnSet(w, B)
      BY <1>2, <1>4, SumOfTwoParts
    <2>4. SumFunctionOnSet(w, A) \in Nat
      BY <1>2, <1>4, SumOfPart
    <2> QED BY <1>4, <2>2, <2>3, <2>4
  <1> QED BY <1>5, <1>7, <1>8

\* Of spans that are stored once at most, those that are counted are rows.
LEMMA CopiesAreRows ==
    ASSUME NEW t \in Counted, \A s \in Spans : t[s] <= 1, NEW all,
           all = {SpanOf(i) : i \in RowsAmong(t, Ids)},
           NEW S \in SUBSET Spans, \A s \in S : ~ IsHidden(s)
    PROVE  Copies(t, S) = Cardinality({s \in all : s \in S})
  <1>1. all = {s \in Spans : t[s] > 0 /\ ~ IsHidden(s)}
    BY AllRows, SpanIds DEF In, Hidden
  <1>2. \A s \in S : t[s] \in Nat /\ t[s] <= 1
    BY DEF Counted
  <1>3. \A s \in S : t[s] \in {0, 1}
    BY <1>2
  <1>4. Copies(t, S) = Cardinality({s \in S : t[s] = 1})
    BY <1>3, TreeAssumption, SumOfOnes DEF Copies, Counted
  <1>5. {s \in S : t[s] = 1} = {s \in all : s \in S}
    BY <1>1, <1>2
  <1> QED BY <1>4, <1>5

\* Of a trace that has no span twice, the cards count what the tree shows when it is open.
LEMMA CountsTell ==
    ASSUME NEW t \in Counted, \A s \in Spans : t[s] <= 1, NEW all,
           all = {SpanOf(i) : i \in RowsAmong(t, Ids)}
    PROVE  /\ TabCount(t) = Cardinality(all)
           /\ ToolCalls(t) = Cardinality({s \in all : IsCall(s)})
           /\ FailedCalls(t) = Cardinality({s \in all : IsCall(s) /\ s.status # "success"})
           /\ Errors(t) = Cardinality({s \in all : s.status = "error"})
           /\ TokenSum(t) = SumFunction([s \in all |-> s.tokens])
  <1>1. all = {s \in Spans : t[s] > 0 /\ ~ IsHidden(s)}
    BY AllRows, SpanIds DEF In, Hidden
  <1>2. \A s \in Spans : IsCall(s) \/ s.status = "error" => ~ IsHidden(s)
    BY TreeAssumption DEF IsCall, IsHidden
  <1>3. TabCount(t) = Cardinality(all)
    <2>1. PICK S : S = {s \in Spans : ~ Hidden(s.id)}
      OBVIOUS
    <2>2. S \in SUBSET Spans /\ \A s \in S : ~ IsHidden(s)
      BY <2>1, SpanIds DEF Hidden
    <2>3. {s \in all : s \in S} = all
      BY <1>1, <2>1, SpanIds DEF Hidden
    <2> QED BY <2>1, <2>2, <2>3, CopiesAreRows DEF TabCount
  <1>4. ToolCalls(t) = Cardinality({s \in all : IsCall(s)})
    <2>1. PICK S : S = {s \in Spans : IsCall(s)}
      OBVIOUS
    <2>2. S \in SUBSET Spans /\ \A s \in S : ~ IsHidden(s)
      BY <1>2, <2>1
    <2>3. {s \in all : s \in S} = {s \in all : IsCall(s)}
      BY <1>1, <2>1
    <2> QED BY <2>1, <2>2, <2>3, CopiesAreRows DEF ToolCalls
  <1>5. FailedCalls(t) = Cardinality({s \in all : IsCall(s) /\ s.status # "success"})
    <2>1. PICK S : S = {s \in Spans : IsCall(s) /\ s.status # "success"}
      OBVIOUS
    <2>2. S \in SUBSET Spans /\ \A s \in S : ~ IsHidden(s)
      BY <1>2, <2>1
    <2>3. {s \in all : s \in S} = {s \in all : IsCall(s) /\ s.status # "success"}
      BY <1>1, <2>1
    <2>4. Copies(t, S) = Cardinality({s \in all : s \in S})
      BY <2>2, CopiesAreRows
    <2>5. FailedCalls(t) = Copies(t, S)
      BY <2>1 DEF FailedCalls
    <2> QED BY <2>3, <2>4, <2>5
  <1>6. Errors(t) = Cardinality({s \in all : s.status = "error"})
    <2>1. PICK S : S = {s \in Spans : s.status = "error"}
      OBVIOUS
    <2>2. S \in SUBSET Spans /\ \A s \in S : ~ IsHidden(s)
      BY <1>2, <2>1
    <2>3. {s \in all : s \in S} = {s \in all : s.status = "error"}
      BY <1>1, <2>1
    <2> QED BY <2>1, <2>2, <2>3, CopiesAreRows DEF Errors
  <1>7. TokenSum(t) = SumFunction([s \in all |-> s.tokens])
    <2>1. PICK w, f, B : w = Weights(t) /\ f = [s \in all |-> s.tokens] /\ B = Spans \ all
      OBVIOUS
    <2>2. /\ w \in [Spans -> Nat] /\ IsFiniteSet(Spans)
          /\ all \in SUBSET Spans /\ B \in SUBSET Spans /\ all \cap B = {} /\ all \cup B = Spans
      BY <1>1, <2>1, WeightsCount, TreeAssumption
    <2>3. \A s \in B : w[s] = 0
      <3>1. ASSUME NEW s \in B
            PROVE  w[s] = 0
        <4>1. t[s] \in Nat /\ s.tokens \in Nat /\ (t[s] = 0 \/ s.tokens = 0)
          BY <1>1, <2>1, TreeAssumption DEF Counted
        <4>2. w[s] = t[s] * s.tokens
          BY <2>1, WeightsCount
        <4> QED BY <4>1, <4>2
      <3> QED BY <3>1
    <2>4. \A s \in all : f[s] = w[s] /\ f[s] \in Nat
      <3>1. ASSUME NEW s \in all
            PROVE  f[s] = w[s] /\ f[s] \in Nat
        <4>1. t[s] = 1 /\ s.tokens \in Nat
          BY <1>1, TreeAssumption DEF Counted
        <4>2. w[s] = t[s] * s.tokens
          BY <1>1, <2>1, WeightsCount
        <4> QED BY <2>1, <4>1, <4>2
      <3> QED BY <3>1
    <2>5. f \in [all -> Nat] /\ f = [s \in all |-> f[s]] /\ IsFiniteSet(all) /\ all \in SUBSET all
      BY <2>1, <2>2, <2>4, FS_Subset
    <2>6. SumFunction(f) = SumFunctionOnSet(f, all)
      BY <2>5, SumOfAll
    <2>7. SumFunctionOnSet(f, all) = SumFunctionOnSet(w, all)
      BY <2>2, <2>4, <2>5, SumAlike
    <2>8. SumFunctionOnSet(w, B) = 0
      BY <2>2, <2>3, SumOfZeros
    <2>9. SumFunctionOnSet(w, all \cup B) = SumFunctionOnSet(w, all) + SumFunctionOnSet(w, B)
      BY <2>2, SumOfTwoParts
    <2>10. SumFunctionOnSet(w, all) \in Nat
      BY <2>2, SumOfPart
    <2>11. TokenSum(t) = SumFunctionOnSet(w, Spans)
      BY <2>1 DEF TokenSum, TokensIn, Weights
    <2>12. SumFunctionOnSet(w, Spans) = SumFunctionOnSet(w, all)
      BY <2>2, <2>8, <2>9, <2>10
    <2> QED BY <2>1, <2>6, <2>7, <2>11, <2>12
  <1> QED BY <1>3, <1>4, <1>5, <1>6, <1>7

\* The cards and the tree are of the same spans.
LEMMA TreeTells ==
    ASSUME TreeInv
    PROVE  TreeIsWhole
  <1>1. shown \in Counted
    BY DEF TreeInv, TreeTypes
  <1>2. {i \in In(shown) : ~ Hidden(i)} = Rows \cup UNION {Below(i) : i \in closed}
    BY AllRows, NoneLost DEF Rows
  <1>3. closed \cup details \subseteq Rows
    BY DEF TreeInv, OpenRows
  <1>4. /\ ModelTokens(shown) <= TokenSum(shown)
        /\ (\A s \in Spans : shown[s] > 0 /\ s.tokens > 0 => s.model) =>
              ModelTokens(shown) = TokenSum(shown)
    BY <1>1, TokensTell
  <1>5. PICK all : all = {SpanOf(i) : i \in RowsAmong(shown, Ids)}
    OBVIOUS
  <1>6. ASSUME \A s \in Spans : shown[s] <= 1
        PROVE  /\ TabCount(shown) = Cardinality(all)
               /\ ToolCalls(shown) = Cardinality({s \in all : IsCall(s)})
               /\ FailedCalls(shown) = Cardinality({s \in all : IsCall(s) /\ s.status # "success"})
               /\ Errors(shown) = Cardinality({s \in all : s.status = "error"})
               /\ TokenSum(shown) = SumFunction([s \in all |-> s.tokens])
    BY <1>1, <1>5, <1>6, CountsTell
  <1> QED BY <1>2, <1>3, <1>4, <1>5, <1>6 DEF TreeIsWhole

\* In whatever order the spans of a trace arrive, and however its rows are folded, the
\* trace tab shows each span it counts, or has it below a row that is collapsed; and what
\* the cards count is what the rows have.
THEOREM TreesAreWhole == Spec => []TreeIsWhole
<1>1. Init => TreeInv
  <2> SUFFICES ASSUME Init PROVE TreeInv
    OBVIOUS
  <2>1. TreeInit \/ TreeRests
    BY Zenon DEF Init
  <2>2. NoSpans \in Counted
    BY DEF NoSpans, Counted
  <2> QED BY <2>1, <2>2 DEF TreeInit, TreeRests, TreeInv, TreeTypes, OpenRows
<1>2. TreeInv /\ [Next]_vars => TreeInv'
  <2> SUFFICES ASSUME TreeInv, [Next]_vars PROVE TreeInv'
    OBVIOUS
  <2>1. CASE TreeNext
    BY <2>1, TreeStepTypes, TreeStepRows DEF TreeInv
  <2>2. CASE UNCHANGED treeVars
    BY <2>2 DEF treeVars, TreeInv, TreeTypes, OpenRows, Rows, RowsAmong, In, Roots, Children
  <2>3. TreeNext \/ UNCHANGED treeVars
    BY DEF Next, vars
  <2> QED BY <2>1, <2>2, <2>3
<1>3. TreeInv => TreeIsWhole
  BY TreeTells
<1> QED BY <1>1, <1>2, <1>3, PTL DEF Spec

-----------------------------------------------------------------------------
(* The security page and the overview. *)

\* Scans are told apart by their numbers, a visit waits for one of them at most, and
\* what it shows is of an earlier one; each is of the project that is looked at, unless
\* that was switched since it was asked for.
ScanInv ==
    /\ visit \in Nat /\ scanClicks \in Nat
    /\ \A s \in scans : s.visit <= visit /\ s.number < scanClicks /\ s.visit \in Nat /\ s.number \in Nat
    /\ \A s, q \in scans : Waits(s) /\ Waits(q) => s = q
    /\ (\E s \in scans : Waits(s)) <=> scanning
    /\ scanning \in BOOLEAN
    /\ \A r \in results : r.number \in Nat /\ r.number < scanClicks
    /\ \A r \in results, s \in scans : Waits(s) => r.number < s.number
    /\ \A s \in scans : Waits(s) => s.project = scanned \/ switched
    /\ \A r, q \in results : r = q
    /\ \A r \in results : r.project = scanned \/ r.crossed
    /\ scanned = NotOpen => results = {}

\* Every step keeps it.
LEMMA ScanSteps ==
    ASSUME ScanInv, ScanNext
    PROVE  ScanInv'
  <1>1. CASE RunScan
    <2>1. PICK q : q = [number |-> scanClicks, project |-> scanned, visit |-> visit]
      OBVIOUS
    <2>2. /\ scans' = scans \cup {q} /\ scanning' = TRUE /\ scanClicks' = scanClicks + 1
          /\ UNCHANGED <<scanned, visit, results>> /\ ~ scanning /\ scanned # NotOpen
      BY <1>1, <2>1 DEF RunScan, ScanClick
    <2>3. q.number = scanClicks /\ q.visit = visit /\ q.project = scanned
      BY <2>1
    <2>4. \A s \in scans : ~ Waits(s)
      BY <2>2 DEF ScanInv
    <2>5. \A s : Waits(s)' <=> Waits(s)
      BY <2>2 DEF Waits
    <2>6. Waits(q)
      BY <2>2, <2>3 DEF Waits
    <2>7. \A s \in scans' : Waits(s) => s = q
      BY <2>2, <2>4
    <2>8. visit' \in Nat /\ scanClicks' \in Nat /\ scanClicks < scanClicks'
      BY <2>2 DEF ScanInv
    <2>13. /\ \A s \in scans' : Waits(s) => s.project = scanned'
           /\ \A r, p \in results' : r = p
           /\ \A r \in results' : r.project = scanned' \/ r.crossed
      BY <2>2, <2>3, <2>7 DEF ScanInv
    <2>9. \A s \in scans' : s.visit <= visit' /\ s.number < scanClicks' /\ s.visit \in Nat /\ s.number \in Nat
      BY <2>2, <2>3, <2>8 DEF ScanInv
    <2>10. \A r \in results' : r.number \in Nat /\ r.number < scanClicks /\ r.number < scanClicks'
      BY <2>2, <2>8 DEF ScanInv
    <2>11. \A r \in results', s \in scans' : Waits(s) => r.number < s.number
      BY <2>3, <2>7, <2>10
    <2>12. \E s \in scans' : Waits(s)
      BY <2>2, <2>6
    <2> QED BY <2>2, <2>5, <2>7, <2>8, <2>9, <2>10, <2>11, <2>12, <2>13 DEF ScanInv
  <1>2. CASE \E p \in HomeProjects : ScanElsewhere(p)
    <2>1. PICK p \in HomeProjects : ScanElsewhere(p)
      BY <1>2
    <2>2. /\ scanned # NotOpen /\ scanned' # NotOpen /\ results' = {} /\ scanClicks' = scanClicks + 1
          /\ switched' = TRUE /\ UNCHANGED <<visit, scanning, scans>>
      BY <2>1, ReportAssumption DEF ScanElsewhere, ScanClick
    <2>3. \A s : Waits(s)' <=> Waits(s)
      BY <2>2 DEF Waits
    <2>4. scanClicks' \in Nat /\ \A s \in scans : s.number < scanClicks'
      BY <2>2 DEF ScanInv
    <2> QED BY <2>2, <2>3, <2>4 DEF ScanInv
  <1>3. CASE LeaveScans
    <2>1. /\ scanned' = NotOpen /\ scanning' = FALSE /\ results' = {} /\ scanClicks' = scanClicks + 1
          /\ UNCHANGED <<visit, scans>>
      BY <1>3 DEF LeaveScans, ScanClick
    <2>2. \A s : ~ Waits(s)'
      BY <2>1 DEF Waits
    <2>3. scanClicks' \in Nat /\ \A s \in scans : s.number < scanClicks'
      BY <2>1 DEF ScanInv
    <2> QED BY <2>1, <2>2, <2>3 DEF ScanInv
  <1>4. CASE \E p \in HomeProjects : OpenScans(p)
    <2>1. /\ scanned = NotOpen /\ visit' = visit + 1 /\ scanClicks' = scanClicks + 1
          /\ UNCHANGED <<scanning, scans, switched, results>>
      BY <1>4 DEF OpenScans, ScanClick
    <2>6. results' = {}
      BY <2>1 DEF ScanInv
    <2>2. ~ scanning
      BY <2>1 DEF ScanInv, Waits
    <2>3. \A s \in scans : ~ Waits(s)'
      BY <2>1 DEF Waits, ScanInv
    <2>4. visit' \in Nat /\ scanClicks' \in Nat /\ \A s \in scans : s.number < scanClicks' /\ s.visit <= visit'
      BY <2>1 DEF ScanInv
    <2>5. \A r \in results : r.number < scanClicks'
      BY <2>1 DEF ScanInv
    <2> QED BY <2>1, <2>2, <2>3, <2>4, <2>5, <2>6 DEF ScanInv
  <1>5. ASSUME NEW s \in scans, (\E failing : ScanEnds(s, failing)) \/ ScanFails(s)
        PROVE  ScanInv'
    <2>1. scans' = scans \ {s} /\ UNCHANGED <<scanned, visit, switched, scanClicks>>
      BY <1>5 DEF ScanEnds, ScanFails
    <2>2. \A q : Waits(q)' <=> Waits(q)
      BY <2>1 DEF Waits
    <2>3. CASE Waits(s)
      <3>1. \A q \in scans' : ~ Waits(q)
        BY <2>1, <2>3 DEF ScanInv
      <3>2. PICK failing : ScanEnds(s, failing) \/ ScanFails(s)
        BY <1>5
      <3>3. PICK q : q = ReportOf(s, failing)
        OBVIOUS
      <3>4. q.number = s.number /\ q.project = s.project /\ q.crossed = switched
        BY <3>3 DEF ReportOf
      <3>5. ~ scanning' /\ (results' = {q} \/ results' = results) /\ scanning' \in BOOLEAN
        BY <2>3, <3>2, <3>3 DEF ScanEnds, ScanFails
      <3>6. \A r \in results' : r.number \in Nat /\ r.number < scanClicks
        BY <3>4, <3>5 DEF ScanInv
      <3>7. (\A r \in results' : r.project = scanned \/ r.crossed) /\ \A r, p \in results' : r = p
        BY <2>3, <3>4, <3>5 DEF ScanInv
      <3>8. scanned # NotOpen
        BY <2>3 DEF Waits
      <3> QED BY <2>1, <2>2, <3>1, <3>5, <3>6, <3>7, <3>8 DEF ScanInv
    <2>4. CASE ~ Waits(s)
      <3>1. UNCHANGED <<results, scanning>>
        BY <1>5, <2>4 DEF ScanEnds, ScanFails
      <3> QED BY <2>1, <2>2, <2>4, <3>1 DEF ScanInv
    <2> QED BY <2>3, <2>4
  <1> QED BY <1>1, <1>2, <1>3, <1>4, <1>5 DEF ScanNext

\* So one scan is waited for at a time, results only get newer, and they are of the project.
LEMMA ScansTell ==
    ASSUME ScanInv
    PROVE  OneScanAtATime /\ ScanIsOfTheProject
  <1>1. PICK W : W = {s \in scans : Waits(s)}
    OBVIOUS
  <1>2. \A s, q \in W : s = q
    BY <1>1 DEF ScanInv
  <1>3. Cardinality(W) <= 1
    <2>1. CASE W = {}
      BY <2>1, FS_EmptySet
    <2>2. CASE W # {}
      <3>1. PICK s : W = {s}
        BY <1>2, <2>2
      <3> QED BY <3>1, FS_Singleton
    <2> QED BY <2>1, <2>2
  <1>4. ASSUME NEW r \in results, ~ r.crossed
        PROVE  ServersScanned = ScanOf(scanned)
    <2>1. r.project = scanned /\ results = {r}
      BY <1>4 DEF ScanInv
    <2> QED BY <2>1 DEF ServersScanned
  <1>5. ScanIsOfTheProject
    BY <1>4 DEF ScanIsOfTheProject
  <1> QED BY <1>1, <1>3, <1>5 DEF ScanInv, OneScanAtATime

-----------------------------------------------------------------------------
\* There are finitely many servers and findings.
LEMMA FindingsFinite ==
    /\ IsFiniteSet(ServersScanned) /\ ServersScanned \subseteq HomeServers
    /\ IsFiniteSet(AllFindings)
  <1>1. ServersScanned \in SUBSET HomeServers
    BY DEF ServersScanned, ScanOf
  <1>2. IsFiniteSet(ServersScanned)
    BY <1>1, ReportAssumption, FS_Subset
  <1>3. PICK A : A = UNION {v.findings : v \in HomeServers}
    OBVIOUS
  <1>4. IsFiniteSet(A)
    <2>1. PICK N : N = {v.findings : v \in HomeServers}
      OBVIOUS
    <2>2. IsFiniteSet(N)
      <3>1. PICK f : f = [v \in HomeServers |-> v.findings]
        OBVIOUS
      <3>2. f \in Surjection(HomeServers, N)
        BY <2>1, <3>1 DEF Surjection
      <3> QED BY <3>2, ReportAssumption, FS_Surjection
    <2>3. \A F \in N : IsFiniteSet(F)
      BY <2>1, ReportAssumption
    <2>4. IsFiniteSet(UNION N)
      BY <2>2, <2>3, FS_UNION
    <2> QED BY <1>3, <2>1, <2>4
  <1>5. PICK B : B = {v.name : v \in HomeServers}
    OBVIOUS
  <1>6. IsFiniteSet(B)
    <2>1. PICK f : f = [v \in HomeServers |-> v.name]
      OBVIOUS
    <2>2. f \in Surjection(HomeServers, B)
      BY <1>5, <2>1 DEF Surjection
    <2> QED BY <2>2, ReportAssumption, FS_Surjection
  <1>7. PICK P : P = B \X A
    OBVIOUS
  <1>8. IsFiniteSet(P)
    BY <1>4, <1>6, <1>7, FS_Product
  <1>9. AllFindings \in SUBSET P
    <2>1. \A v : FoundIn(v) \subseteq v.findings
      BY DEF FoundIn
    <2> QED BY <1>1, <1>3, <1>5, <1>7, <2>1 DEF AllFindings
  <1>10. IsFiniteSet(AllFindings)
    BY <1>8, <1>9, FS_Subset
  <1> QED BY <1>1, <1>2, <1>10

\* The cards of the security page count every finding once, and no server as clean that
\* has a grave one.
LEMMA FindingsTell == ScanAddsUp
  <1>1. PICK R, K : R = AllFindings /\ K = Severities
    OBVIOUS
  <1>2. IsFiniteSet(R) /\ IsFiniteSet(K)
    <2>1. IsFiniteSet({"critical", "high", "medium", "low", "info"})
      <3>1. /\ IsFiniteSet({"critical"}) /\ IsFiniteSet({"critical", "high"})
            /\ IsFiniteSet({"critical", "high", "medium"}) /\ IsFiniteSet({"critical", "high", "medium", "low"})
        <4>1. IsFiniteSet({"critical"})
          BY FS_Singleton
        <4>2. IsFiniteSet({"critical"} \cup {"high"})
          BY <4>1, FS_AddElement
        <4>3. IsFiniteSet(({"critical"} \cup {"high"}) \cup {"medium"})
          BY <4>2, FS_AddElement
        <4>4. IsFiniteSet((({"critical"} \cup {"high"}) \cup {"medium"}) \cup {"low"})
          BY <4>3, FS_AddElement
        <4>5. /\ {"critical"} \cup {"high"} = {"critical", "high"}
              /\ ({"critical"} \cup {"high"}) \cup {"medium"} = {"critical", "high", "medium"}
              /\ (({"critical"} \cup {"high"}) \cup {"medium"}) \cup {"low"}
                    = {"critical", "high", "medium", "low"}
          OBVIOUS
        <4> QED BY <4>1, <4>2, <4>3, <4>4, <4>5
      <3>2. IsFiniteSet({"critical", "high", "medium", "low"} \cup {"info"})
        BY <3>1, FS_AddElement
      <3>3. {"critical", "high", "medium", "low"} \cup {"info"} = {"critical", "high", "medium", "low", "info"}
        OBVIOUS
      <3> QED BY <3>2, <3>3
    <2> QED BY <1>1, <2>1, FindingsFinite DEF Severities
  <1>3. \A r \in R : r[2].severity \in K
    <2>1. \A v : FoundIn(v) \subseteq v.findings
      BY DEF FoundIn
    <2> QED BY <1>1, <2>1, FindingsFinite, ReportAssumption DEF AllFindings
  <1>4. PICK key : key = [r \in R |-> r[2].severity]
    OBVIOUS
  <1>5. PICK part : part = [x \in K |-> BySeverity(x)]
    OBVIOUS
  <1>6. Grouping(R, K, key, part)
    BY <1>1, <1>3, <1>4, <1>5 DEF Grouping, BySeverity
  <1>7. PICK g : g = [x \in K |-> Cardinality(part[x])]
    OBVIOUS
  <1>8. SumFunction(g) = Cardinality(R) /\ g \in [K -> Nat]
    BY <1>2, <1>6, <1>7, CountByGroups
  <1>9. g = [x \in Severities |-> Cardinality(BySeverity(x))]
    BY <1>1, <1>5, <1>7
  <1>10. PICK S, C : S = ServersScanned /\ C = {v \in S : FoundIn(v) = {}}
    OBVIOUS
  <1>11. ScanCards.clean = Cardinality(C) /\ ScanCards.servers = Cardinality(S)
    BY <1>10 DEF ScanCards
  <1>12. C \in SUBSET S /\ IsFiniteSet(S)
    BY <1>10, FindingsFinite
  <1>13. /\ Cardinality(C) <= Cardinality(S) /\ (Cardinality(S) = Cardinality(C) => S = C)
         /\ Cardinality(C) \in Nat /\ Cardinality(S) \in Nat
    BY <1>12, FS_Subset, FS_CardinalityType
  <1>14. R = {} <=> C = S
    <2>1. ASSUME R = {}, NEW v \in S
          PROVE  v \in C
      <3>1. \A f \in FoundIn(v) : <<v.name, f>> \in R
        BY <1>1, <1>10 DEF AllFindings
      <3> QED BY <1>10, <2>1, <3>1
    <2>2. ASSUME C = S, NEW r \in R
          PROVE  FALSE
      <3>1. PICK v \in S : \E f \in FoundIn(v) : r = <<v.name, f>>
        BY <1>1, <1>10 DEF AllFindings
      <3>2. FoundIn(v) = {}
        BY <1>10, <2>2
      <3> QED BY <3>1, <3>2
    <2> QED BY <1>10, <2>1, <2>2
  <1>15. SaysClean <=> ScanCards.clean = ScanCards.servers
    BY <1>1, <1>11, <1>13, <1>14 DEF SaysClean
  <1>16. ASSUME R = {}
         PROVE  ScanCards.critical + ScanCards.high = 0
    <2>1. BySeverity("critical") = {} /\ BySeverity("high") = {}
      BY <1>1, <1>16 DEF BySeverity
    <2>2. ScanCards.critical = 0 /\ ScanCards.high = 0
      BY <2>1, FS_EmptySet DEF ScanCards
    <2> QED BY <2>2
  <1>17. ScanCards.critical + ScanCards.high > 0 => ScanCards.clean < ScanCards.servers
    BY <1>11, <1>13, <1>14, <1>16
  <1>18. SaysClean => \A v \in ServersScanned : v.findings = {} \/ v \in ScansFailed
    BY <1>1, <1>10, <1>14 DEF SaysClean, FoundIn
  <1> QED BY <1>1, <1>8, <1>9, <1>15, <1>17, <1>18 DEF ScanAddsUp

-----------------------------------------------------------------------------
\* What the overview holds of an address, and what is on its way, is its answer.
TrueTo(c, answer) ==
    /\ IsCell(c)
    /\ \A d \in c.data : d = answer
    /\ IsAnswered(c) => c.fetch.data = answer
\* Every cell of the overview holds the answer to its own address.
HomeInv ==
    /\ place \in HomeProjects /\ window \in Hours /\ homeTab \in HomeTabs
    /\ home = [k \in HomeKeys |-> home[k]]
    /\ \A k \in HomeKeys : TrueTo(home[k], HomeAnswer(k))

\* A request changes neither.
LEMMA StaysTrue ==
    ASSUME NEW c, NEW answer, TrueTo(c, answer)
    PROVE  /\ TrueTo(Asking(c), answer) /\ TrueTo(Lost(c), answer) /\ TrueTo(Joining(c), answer)
           /\ TrueTo(Reading(c, answer), answer)
           /\ IsAnswered(c) => TrueTo(Arrived(c), answer)
  <1>1. TrueTo(Asking(c), answer) /\ TrueTo(Lost(c), answer)
    BY CellSteps, FetchStages DEF TrueTo, IsAnswered
  <1>2. TrueTo(Joining(c), answer)
    BY <1>1 DEF Joining
  <1>3. TrueTo(Reading(c, answer), answer)
    BY CellSteps, FetchStages DEF TrueTo, IsAnswered
  <1>4. IsAnswered(c) => TrueTo(Arrived(c), answer)
    BY CellSteps, FetchStages DEF TrueTo, IsAnswered
  <1> QED BY <1>1, <1>2, <1>3, <1>4

\* It holds when the page is opened.
LEMMA HomeStarts ==
    ASSUME HomeInit
    PROVE  HomeInv
  <1>1. PICK c : c = Closed
    OBVIOUS
  <1>2. c.data = {} /\ c.fetch = Idle /\ IsCell(c)
    BY <1>1 DEF Closed, IsCell
  <1>3. ~ IsAnswered(c)
    BY <1>2, FetchStages DEF IsAnswered
  <1>4. \A answer : TrueTo(c, answer)
    BY <1>2, <1>3 DEF TrueTo
  <1>5. home = [k \in HomeKeys |-> c]
    BY <1>1 DEF HomeInit
  <1> QED BY <1>4, <1>5 DEF HomeInv, HomeInit

\* A component that is shown asks for what it needs.
LEMMA MountsKeep ==
    ASSUME HomeInv, NEW keys, home' = Mounts(keys)
    PROVE  home' = [k \in HomeKeys |-> home'[k]] /\ \A k \in HomeKeys : TrueTo(home'[k], HomeAnswer(k))
  <1>1. \A k \in HomeKeys : TrueTo(Joining(home[k]), HomeAnswer(k)) /\ TrueTo(home[k], HomeAnswer(k))
    BY StaysTrue DEF HomeInv
  <1>2. /\ home' = [k \in HomeKeys |-> home'[k]]
        /\ \A k \in HomeKeys : home'[k] = IF k \in keys THEN Joining(home[k]) ELSE home[k]
    BY DEF Mounts
  <1> QED BY <1>1, <1>2

\* Every step keeps it.
LEMMA HomeSteps ==
    ASSUME HomeInv, HomeNext
    PROVE  HomeInv'
  <1>1. CASE ProjectsLoaded
    BY <1>1, MountsKeep DEF ProjectsLoaded, HomeInv, HomeAnswer, TrueTo
  <1>2. ASSUME NEW p \in HomeProjects, NEW h \in Hours, NEW t \in HomeTabs, HomeView(p, h, t)
        PROVE  HomeInv'
    BY <1>2, MountsKeep DEF HomeView, HomeInv, HomeAnswer, TrueTo
  <1>3. ASSUME NEW k \in HomeKeys, HomePoll(k) \/ HomeRead(k) \/ HomeArrives(k) \/ HomeFails(k)
        PROVE  HomeInv'
    <2>1. PICK c, answer : c = home[k] /\ answer = HomeAnswer(k)
      OBVIOUS
    <2>2. TrueTo(c, answer)
      BY <2>1 DEF HomeInv
    <2>3. UNCHANGED <<place, window, homeTab>>
      BY <1>3 DEF HomePoll, HomeRead, HomeArrives, HomeFails, HomeKept
    <2>4. \E e : home' = [home EXCEPT ![k] = e] /\ TrueTo(e, answer)
      <3>1. CASE HomePoll(k)
        <4>1. PICK e : e = Asking(c)
          OBVIOUS
        <4> QED BY <2>1, <2>2, <3>1, <4>1, StaysTrue DEF HomePoll
      <3>2. CASE HomeRead(k)
        <4>1. PICK e : e = Reading(c, answer)
          OBVIOUS
        <4> QED BY <2>1, <2>2, <3>2, <4>1, StaysTrue DEF HomeRead
      <3>3. CASE HomeArrives(k)
        <4>1. PICK e : e = Arrived(c)
          OBVIOUS
        <4> QED BY <2>1, <2>2, <3>3, <4>1, StaysTrue DEF HomeArrives
      <3>4. CASE HomeFails(k)
        <4>1. PICK e : e = Lost(c)
          OBVIOUS
        <4> QED BY <2>1, <2>2, <3>4, <4>1, StaysTrue DEF HomeFails
      <3> QED BY <1>3, <3>1, <3>2, <3>3, <3>4
    <2>5. PICK e : home' = [home EXCEPT ![k] = e] /\ TrueTo(e, answer)
      BY <2>4
    <2>6. /\ home' = [j \in HomeKeys |-> home'[j]]
          /\ \A j \in HomeKeys : home'[j] = IF j = k THEN e ELSE home[j]
      BY <2>5 DEF HomeInv
    <2>7. \A j \in HomeKeys : TrueTo(home'[j], HomeAnswer(j))
      BY <2>1, <2>5, <2>6 DEF HomeInv
    <2> QED BY <2>3, <2>6, <2>7 DEF HomeInv, HomeAnswer, TrueTo
  <1> QED
    <2>1. ASSUME HomeInv, (\E h \in Hours : ChangeHours(h)) \/ (\E t \in HomeTabs : ChangeTab(t))
                            \/ (\E p \in HomeProjects : ChangePlace(p))
          PROVE  \E p \in HomeProjects, h \in Hours, t \in HomeTabs : HomeView(p, h, t)
      BY <2>1 DEF ChangeHours, ChangeTab, ChangePlace, HomeInv
    <2> QED BY <1>1, <1>2, <1>3, <2>1 DEF HomeNext

-----------------------------------------------------------------------------
\* What the overview asks for.
HomeKinds == {"series", "models", "tools", "trends", "health", "agents"}

\* What is held of an address is what it answers.
LEMMA HomeShows ==
    ASSUME HomeInv, NEW kind \in HomeKinds, Loaded(Held(kind))
    PROVE  Data(Held(kind)) = HomeAnswer(KeyOf(kind, place, window))
  <1>1. PICK k : k = KeyOf(kind, place, window)
    OBVIOUS
  <1>2. k \in HomeKeys
    BY <1>1 DEF KeyOf, HomeKeys, HomeInv, HomeKinds, ByWindow
  <1>3. PICK c : c = home[k]
    OBVIOUS
  <1>4. c.data # {} /\ \A d \in c.data : d = HomeAnswer(k)
    BY <1>1, <1>2, <1>3 DEF HomeInv, TrueTo, Held, Loaded
  <1>5. PICK d : d \in c.data /\ d = Data(c)
    BY <1>4 DEF Data
  <1> QED BY <1>1, <1>3, <1>4, <1>5 DEF Held

\* What it answers.
LEMMA HomeAnswers ==
    ASSUME NEW p, NEW h
    PROVE  /\ HomeAnswer(KeyOf("series", p, h)) = {c \in CallsOf(p, h) : c.session # NoSession}
           /\ HomeAnswer(KeyOf("trends", p, h)) = {c \in CallsOf(p, Week) : c.session # NoSession}
           /\ HomeAnswer(KeyOf("models", p, h)) = ModelGroups(CallsOf(p, h))
           /\ HomeAnswer(KeyOf("tools", p, h)) = ToolGroups(CallsOf(p, h))
           /\ HomeAnswer(KeyOf("health", p, h)) = ServersOf(p)
           /\ HomeAnswer(KeyOf("agents", p, h)) = AgentsKnown
  <1>1. /\ KeyOf("series", p, h) = <<"series", p, h>> /\ KeyOf("models", p, h) = <<"models", p, h>>
        /\ KeyOf("tools", p, h) = <<"tools", p, h>> /\ KeyOf("trends", p, h) = <<"trends", p, Week>>
        /\ KeyOf("health", p, h) = <<"health", p, Week>> /\ KeyOf("agents", p, h) = <<"agents", p, Week>>
    BY DEF KeyOf, ByWindow
  <1> QED BY <1>1 DEF HomeAnswer

\* Only finitely many spans have been recorded, of finitely many sessions.
LEMMA SomeCalls ==
    ASSUME NEW S \in SUBSET HomeCalls
    PROVE  /\ IsFiniteSet(S) /\ Cardinality(S) \in Nat
           /\ IsFiniteSet(SessionsIn(S)) /\ Cardinality(SessionsIn(S)) \in Nat
           /\ IsFiniteSet({c.age : c \in S})
  <1>1. IsFiniteSet(S) /\ Cardinality(S) \in Nat
    BY ReportAssumption, FS_Subset, FS_CardinalityType
  <1>2. PICK A : A = {c.age : c \in S}
    OBVIOUS
  <1>3. PICK f : f = [c \in S |-> c.age]
    OBVIOUS
  <1>4. f \in Surjection(S, A)
    BY <1>2, <1>3 DEF Surjection
  <1>5. PICK B : B = {c.session : c \in S}
    OBVIOUS
  <1>6. PICK g : g = [c \in S |-> c.session]
    OBVIOUS
  <1>7. g \in Surjection(S, B)
    BY <1>5, <1>6 DEF Surjection
  <1>8. IsFiniteSet(A) /\ IsFiniteSet(B)
    BY <1>1, <1>4, <1>7, FS_Surjection
  <1>9. SessionsIn(S) \in SUBSET B
    BY <1>5 DEF SessionsIn
  <1>10. IsFiniteSet(SessionsIn(S))
    BY <1>8, <1>9, FS_Subset
  <1> QED BY <1>1, <1>2, <1>8, <1>10, FS_CardinalityType

\* No session is missing from the sum over the intervals.
LEMMA SessionsCovered ==
    ASSUME NEW S \in SUBSET HomeCalls
    PROVE  SummedOver(S) >= Cardinality(SessionsIn(S))
  <1>1. PICK R, K : R = SessionsIn(S) /\ K = {c.age : c \in S}
    OBVIOUS
  <1>2. IsFiniteSet(R) /\ IsFiniteSet(K)
    BY <1>1, SomeCalls
  <1>3. PICK cover : cover = [a \in K |-> SessionsIn({c \in S : c.age = a})]
    OBVIOUS
  <1>4. ASSUME NEW a \in K
        PROVE  IsFiniteSet(cover[a]) /\ Cardinality(cover[a]) \in Nat
    <2>1. PICK T : T = {c \in S : c.age = a}
      OBVIOUS
    <2>2. T \in SUBSET HomeCalls
      BY <2>1
    <2>3. cover[a] = SessionsIn(T)
      BY <1>3, <2>1
    <2> QED BY <2>2, <2>3, SomeCalls
  <1>5. \A r \in R : \E a \in K : r \in cover[a]
    <2>1. ASSUME NEW r \in R
          PROVE  \E a \in K : r \in cover[a]
      <3>1. PICK c \in S : r = c.session /\ c.session # NoSession
        BY <1>1 DEF SessionsIn
      <3>2. c.age \in K
        BY <1>1
      <3>3. r \in SessionsIn({d \in S : d.age = c.age})
        BY <3>1 DEF SessionsIn
      <3> QED BY <1>3, <3>2, <3>3
    <2> QED BY <2>1
  <1>6. PICK g : g = [a \in K |-> Cardinality(cover[a])]
    OBVIOUS
  <1>7. Cardinality(R) <= SumFunction(g)
    BY <1>2, <1>4, <1>5, <1>6, CoverCounts
  <1>8. g = [a \in {c.age : c \in S} |-> Cardinality(SessionsIn({c \in S : c.age = a}))]
    BY <1>1, <1>3, <1>6
  <1>9. SummedOver(S) = SumFunction(g)
    BY <1>8 DEF SummedOver
  <1>10. g \in [K -> Nat]
    BY <1>4, <1>6
  <1>11. SumFunction(g) \in Nat /\ Cardinality(R) \in Nat
    <2>1. g = [a \in K |-> g[a]] /\ K \in SUBSET K
      BY <1>10
    <2>2. SumFunction(g) = SumFunctionOnSet(g, K)
      BY <2>1, SumOfAll
    <2> QED BY <1>1, <1>2, <1>10, <2>1, <2>2, SumOfPart, SomeCalls
  <1> QED BY <1>1, <1>7, <1>9, <1>11

\* The rows of the groups of some spans: each has the number of its spans and of
\* those that failed, and they add up.
RowsTell(G, row) ==
    \A g \in G : row[g].calls = Cardinality(g) /\ row[g].errors = Cardinality(FailuresIn(g))
\* A table with a row for each group counts every call and every failure once.
RowsAddUp(Q, G, E, row) ==
    /\ IsFiniteSet(E)
    /\ \E key, part :
          Grouping(Q, E, key, part) /\ NoneEmpty(part, E) /\ \A g \in G : part[row[g]] = g
    /\ SumFunction([e \in E |-> e.calls]) = Cardinality(Q)
    /\ SumFunction([e \in E |-> e.errors]) = Cardinality(FailuresIn(Q))

\* The tables of the overview are such tables.
LEMMA GroupsAddUp ==
    ASSUME NEW Q \in SUBSET HomeCalls, NEW G, NEW name, Grouped(G, Q, name),
           NEW E, NEW row, OneEach(G, E, row), RowsTell(G, row), NEW label, Labelled(G, name, row, label)
    PROVE  RowsAddUp(Q, G, E, row)
  <1>1. PICK key, part : Grouping(Q, E, key, part) /\ NoneEmpty(part, E) /\ \A g \in G : part[row[g]] = g
    BY RowsOfGroups
  <1>2. IsFiniteSet(Q)
    BY SomeCalls
  <1>3. IsFiniteSet(E)
    <2>1. key \in Surjection(Q, E)
      BY <1>1 DEF Surjection, Grouping, NoneEmpty
    <2> QED BY <1>2, <2>1, FS_Surjection
  <1>4. \A e \in E : e.calls = Cardinality(part[e]) /\ e.errors = Cardinality(FailuresIn(part[e]))
    BY <1>1 DEF RowsTell, OneEach
  <1>5. SumFunction([e \in E |-> e.calls]) = Cardinality(Q)
    <2>1. PICK g : g = [e \in E |-> Cardinality(part[e])]
      OBVIOUS
    <2>2. SumFunction(g) = Cardinality(Q)
      BY <1>1, <1>2, <1>3, <2>1, CountByGroups
    <2>3. g = [e \in E |-> e.calls]
      BY <1>4, <2>1
    <2> QED BY <2>2, <2>3
  <1>6. SumFunction([e \in E |-> e.errors]) = Cardinality(FailuresIn(Q))
    <2>1. PICK F : F = FailuresIn(Q)
      OBVIOUS
    <2>2. IsFiniteSet(F) /\ F \in SUBSET Q
      BY <1>2, <2>1, FS_Subset DEF FailuresIn
    <2>3. PICK k, q : k = [c \in F |-> key[c]] /\ q = [e \in E |-> FailuresIn(part[e])]
      OBVIOUS
    <2>4. Grouping(F, E, k, q)
      <3>1. k \in [F -> E]
        BY <1>1, <2>2, <2>3 DEF Grouping
      <3>2. ASSUME NEW e \in E, NEW c \in HomeCalls
            PROVE  c \in q[e] <=> c \in F /\ key[c] = e
        <4>1. part[e] \in SUBSET Q /\ \A r \in Q : r \in part[e] <=> key[r] = e
          BY <1>1 DEF Grouping
        <4> QED BY <2>1, <2>3, <4>1 DEF FailuresIn
      <3>3. q \in [E -> SUBSET F]
        <4>1. ASSUME NEW e \in E
              PROVE  q[e] \in SUBSET F
          <5>1. part[e] \in SUBSET Q
            BY <1>1 DEF Grouping
          <5> QED BY <2>1, <2>3, <5>1 DEF FailuresIn
        <4> QED BY <2>3, <4>1
      <3> QED BY <2>2, <2>3, <3>1, <3>2, <3>3 DEF Grouping
    <2>5. PICK g : g = [e \in E |-> Cardinality(q[e])]
      OBVIOUS
    <2>6. SumFunction(g) = Cardinality(F)
      BY <1>3, <2>2, <2>4, <2>5, CountByGroups
    <2>7. g = [e \in E |-> e.errors]
      BY <1>4, <2>3, <2>5
    <2> QED BY <2>1, <2>6, <2>7
  <1> QED BY <1>1, <1>3, <1>5, <1>6 DEF RowsAddUp

\* The calls of models, and what their cards say of them.
ModelCallsIn(S) == {c \in S : c.model # NoModel}

\* The table of models has every call of a model once.
LEMMA ModelsAddUp ==
    ASSUME HomeInv, Displays("models"), NEW Q, Q = ModelCallsIn(CallsOf(place, window))
    PROVE  /\ ModelCards.tokens = TokensOf(Q)
           /\ SumFunction([m \in ModelRows |-> m.calls]) = Cardinality(Q)
  <1>1. PICK G, E : G = ModelGroups(CallsOf(place, window)) /\ E = ModelRows
    OBVIOUS
  <1>2. Data(Held("models")) = G
    BY <1>1, HomeShows, HomeAnswers DEF Displays, HomeKinds
  <1>3. Q \in SUBSET HomeCalls /\ IsFiniteSet(Q)
    BY SomeCalls DEF CallsOf, ModelCallsIn
  <1>4. PICK name : name = [c \in Q |-> c.model]
    OBVIOUS
  <1>5. Grouped(G, Q, name)
    <2>1. G = {{d \in Q : d.model = c.model} : c \in Q}
      BY <1>1 DEF ModelGroups, GroupsBy, ModelCallsIn
    <2>2. \A c \in Q : {d \in Q : d.model = c.model} = {d \in Q : name[d] = name[c]}
      BY <1>4
    <2>3. PICK H : H = {{d \in Q : name[d] = name[c]} : c \in Q}
      OBVIOUS
    <2>4. G = H
      BY <2>1, <2>2, <2>3
    <2> QED BY <2>3, <2>4 DEF Grouped
  <1>6. PICK row : row = [g \in G |-> [model |-> (CHOOSE c \in g : TRUE).model, calls |-> Cardinality(g),
                                       tokens |-> TokensOf(g), errors |-> Cardinality(FailuresIn(g))]]
    OBVIOUS
  <1>7. E = {row[g] : g \in G}
    BY <1>1, <1>2, <1>6 DEF ModelRows
  <1>8. OneEach(G, E, row)
    BY <1>6, <1>7 DEF OneEach
  <1>9. \A g \in G : /\ row[g].model = (CHOOSE c \in g : TRUE).model /\ row[g].tokens = TokensOf(g)
                     /\ row[g].calls = Cardinality(g) /\ row[g].errors = Cardinality(FailuresIn(g))
    BY <1>6
  <1>10. RowsTell(G, row)
    BY <1>9 DEF RowsTell
  <1>11. PICK label : label = [e \in E |-> e.model]
    OBVIOUS
  <1>12. Labelled(G, name, row, label)
    <2>1. ASSUME NEW g \in G, NEW c \in g
          PROVE  label[row[g]] = name[c]
      <3>1. PICK d : d = (CHOOSE x \in g : TRUE) /\ d \in g
        OBVIOUS
      <3>2. name[c] = name[d] /\ d \in Q
        BY <1>5, <3>1 DEF Grouped
      <3>3. row[g] \in E
        BY <1>7
      <3> QED BY <1>4, <1>9, <1>11, <3>1, <3>2, <3>3
    <2> QED BY <2>1 DEF Labelled
  <1>13. RowsAddUp(Q, G, E, row)
    BY <1>3, <1>5, <1>8, <1>10, <1>12, GroupsAddUp
  <1>14. PICK key, part : Grouping(Q, E, key, part) /\ NoneEmpty(part, E) /\ \A g \in G : part[row[g]] = g
    BY <1>13 DEF RowsAddUp
  <1>15. IsFiniteSet(E) /\ SumFunction([e \in E |-> e.calls]) = Cardinality(Q)
    BY <1>13 DEF RowsAddUp
  <1>16. PICK w : w = [c \in Q |-> c.tokens]
    OBVIOUS
  <1>17. w \in [Q -> Nat]
    BY <1>3, <1>16, ReportAssumption
  <1>18. PICK v : v = [e \in E |-> e.tokens]
    OBVIOUS
  <1>19. ASSUME NEW e \in E
         PROVE  v[e] = SumFunctionOnSet(w, part[e])
    <2>1. PICK g \in G : row[g] = e
      BY <1>7
    <2>2. part[e] = g /\ g \in SUBSET Q
      BY <1>14, <2>1 DEF Grouping
    <2>3. PICK f : f = [x \in g |-> w[x]]
      OBVIOUS
    <2>4. SumFunction(f) = SumFunctionOnSet(w, g)
      BY <1>3, <1>17, <2>2, <2>3, SumOfSome
    <2>5. f = [x \in g |-> x.tokens]
      BY <1>16, <2>2, <2>3
    <2>6. v[e] = SumFunction(f)
      BY <1>9, <1>18, <2>1, <2>5 DEF TokensOf
    <2> QED BY <2>2, <2>4, <2>6
  <1>20. Counts(v, E, w, part)
    BY <1>18, <1>19 DEF Counts
  <1>21. SumFunction(v) = SumFunction(w)
    BY <1>3, <1>14, <1>15, <1>17, <1>20, EntriesAddUp
  <1>22. ModelCards.tokens = SumFunction(v)
    BY <1>1, <1>18 DEF ModelCards
  <1>23. TokensOf(Q) = SumFunction(w)
    BY <1>16 DEF TokensOf
  <1> QED BY <1>1, <1>15, <1>21, <1>22, <1>23

\* The table of tools has every call of a tool once, less those of servers that are agents.
LEMMA ToolRowsAddUp ==
    ASSUME HomeInv, Displays("tools"),
           NEW A, A = ToolCallsIn(CallsOf(place, window)),
           NEW T, T = {c \in A : c.server \notin AgentsKnown}
    PROVE  /\ ToolCards.calls >= Cardinality(T)
           /\ Loaded(Held("agents")) => /\ ToolCards.calls = Cardinality(T)
                                        /\ ToolCards.errors = Cardinality(FailuresIn(T))
  <1>1. PICK Q : Q = {c \in A : Loaded(Held("agents")) => c.server \notin AgentsKnown}
    OBVIOUS
  <1>2. PICK G, E : G = RealTools /\ E = ToolRows
    OBVIOUS
  <1>3. /\ Data(Held("tools")) = ToolGroups(CallsOf(place, window))
        /\ Loaded(Held("agents")) => Data(Held("agents")) = AgentsKnown
    BY HomeShows, HomeAnswers DEF Displays, HomeKinds
  <1>4. A \in SUBSET HomeCalls /\ Q \in SUBSET HomeCalls /\ T \in SUBSET Q /\ IsFiniteSet(Q)
    <2>1. A \in SUBSET HomeCalls
      BY DEF CallsOf, ToolCallsIn
    <2>2. Q \in SUBSET HomeCalls /\ T \in SUBSET Q
      BY <1>1, <2>1
    <2> QED BY <2>1, <2>2, SomeCalls
  <1>5. PICK name : name = [c \in Q |-> c.server]
    OBVIOUS
  <1>6. Grouped(G, Q, name)
    <2>1. PICK B : B = {{d \in A : d.server = c.server} : c \in A}
      OBVIOUS
    <2>2. G = {g \in B : Loaded(Held("agents")) => \A c \in g : c.server \notin AgentsKnown}
      BY <1>2, <1>3, <2>1 DEF RealTools, ToolGroups, GroupsBy
    <2>3. \A c \in Q : {d \in Q : name[d] = name[c]} = {d \in A : d.server = c.server}
      BY <1>1, <1>5
    <2>4. ASSUME NEW c \in Q
          PROVE  {d \in Q : name[d] = name[c]} \in G
      <3>1. PICK g : g = {d \in A : d.server = c.server}
        OBVIOUS
      <3>2. g \in B /\ (Loaded(Held("agents")) => \A d \in g : d.server \notin AgentsKnown)
        BY <1>1, <2>1, <3>1
      <3> QED BY <2>2, <2>3, <3>1, <3>2
    <2>5. ASSUME NEW g \in G
          PROVE  \E c \in Q : g = {d \in Q : name[d] = name[c]}
      <3>1. PICK c \in A : g = {d \in A : d.server = c.server}
        BY <2>1, <2>2
      <3>2. c \in g
        BY <3>1
      <3>3. c \in Q
        BY <1>1, <2>2, <3>2
      <3> QED BY <2>3, <3>1, <3>3
    <2>6. PICK H : H = {{d \in Q : name[d] = name[c]} : c \in Q}
      OBVIOUS
    <2>7. \A g : g \in G <=> g \in H
      BY <2>4, <2>5, <2>6
    <2> QED BY <2>6, <2>7 DEF Grouped
  <1>7. PICK row : row = [g \in G |-> [server |-> (CHOOSE c \in g : TRUE).server, calls |-> Cardinality(g),
                                       errors |-> Cardinality(FailuresIn(g))]]
    OBVIOUS
  <1>8. E = {row[g] : g \in G}
    BY <1>2, <1>7 DEF ToolRows
  <1>9. OneEach(G, E, row)
    BY <1>7, <1>8 DEF OneEach
  <1>10. \A g \in G : /\ row[g].server = (CHOOSE c \in g : TRUE).server
                     /\ row[g].calls = Cardinality(g) /\ row[g].errors = Cardinality(FailuresIn(g))
    BY <1>7
  <1>11. RowsTell(G, row)
    BY <1>10 DEF RowsTell
  <1>12. PICK label : label = [e \in E |-> e.server]
    OBVIOUS
  <1>13. Labelled(G, name, row, label)
    <2>1. ASSUME NEW g \in G, NEW c \in g
          PROVE  label[row[g]] = name[c]
      <3>1. PICK d : d = (CHOOSE x \in g : TRUE) /\ d \in g
        OBVIOUS
      <3>2. name[c] = name[d] /\ d \in Q
        BY <1>6, <3>1 DEF Grouped
      <3>3. row[g] \in E
        BY <1>8
      <3> QED BY <1>5, <1>10, <1>12, <3>1, <3>2, <3>3
    <2> QED BY <2>1 DEF Labelled
  <1>14. RowsAddUp(Q, G, E, row)
    BY <1>4, <1>6, <1>9, <1>11, <1>13, GroupsAddUp
  <1>15. /\ SumFunction([e \in E |-> e.calls]) = Cardinality(Q)
         /\ SumFunction([e \in E |-> e.errors]) = Cardinality(FailuresIn(Q))
    BY <1>14 DEF RowsAddUp
  <1>16. ToolCards.calls = Cardinality(Q) /\ ToolCards.errors = Cardinality(FailuresIn(Q))
    BY <1>2, <1>15 DEF ToolCards
  <1>17. Cardinality(T) <= Cardinality(Q) /\ Cardinality(Q) \in Nat /\ Cardinality(T) \in Nat
    BY <1>4, FS_Subset, SomeCalls
  <1>18. Loaded(Held("agents")) => Q = T
    BY <1>1
  <1> QED BY <1>16, <1>17, <1>18

\* The card of the servers counts each of them in one of its four numbers.
LEMMA HealthAddsUp ==
    ASSUME HomeInv, Displays("health")
    PROVE  /\ HealthCard.up + HealthCard.degraded + HealthCard.down + HealthCard.stale
                = Cardinality(ServersOf(place))
           /\ HealthCard.allOk => \A v \in ServersOf(place) : v.status \notin {"down", "degraded"}
  <1>1. PICK S : S = ServersOf(place)
    OBVIOUS
  <1>2. Data(Held("health")) = S
    BY <1>1, HomeShows, HomeAnswers DEF Displays, HomeKinds
  <1>3. S \in SUBSET HomeServers /\ IsFiniteSet(S)
    <2>1. S \in SUBSET HomeServers
      BY <1>1 DEF ServersOf
    <2> QED BY <2>1, ReportAssumption, FS_Subset
  <1>4. PICK u, g, d, r : /\ u = OfStatus({"up"}) /\ g = OfStatus({"degraded"}) /\ d = OfStatus({"down"})
                          /\ r = OfStatus({"stale", "unknown"})
    OBVIOUS
  <1>5. /\ u \in SUBSET S /\ g \in SUBSET S /\ d \in SUBSET S /\ r \in SUBSET S
        /\ u \cap g = {} /\ (u \cup g) \cap d = {} /\ ((u \cup g) \cup d) \cap r = {}
        /\ ((u \cup g) \cup d) \cup r = S
    BY <1>2, <1>3, <1>4, ReportAssumption DEF OfStatus
  <1>6. IsFiniteSet(u) /\ IsFiniteSet(g) /\ IsFiniteSet(d) /\ IsFiniteSet(r)
    BY <1>3, <1>5, FS_Subset
  <1>7. ASSUME NEW X, NEW Y, IsFiniteSet(X), IsFiniteSet(Y), X \cap Y = {}
        PROVE  /\ IsFiniteSet(X \cup Y) /\ Cardinality(X \cup Y) = Cardinality(X) + Cardinality(Y)
               /\ Cardinality(X) \in Nat /\ Cardinality(Y) \in Nat
    <2>1. /\ IsFiniteSet(X \cup Y)
          /\ Cardinality(X \cup Y) = Cardinality(X) + Cardinality(Y) - Cardinality(X \cap Y)
      BY <1>7, FS_Union
    <2>2. Cardinality(X \cap Y) = 0
      BY <1>7, FS_EmptySet
    <2>3. Cardinality(X) \in Nat /\ Cardinality(Y) \in Nat
      BY <1>7, FS_CardinalityType
    <2> QED BY <2>1, <2>2, <2>3
  <1>8. PICK x, y, z : x = u \cup g /\ y = x \cup d /\ z = y \cup r
    OBVIOUS
  <1>9. /\ IsFiniteSet(x) /\ Cardinality(x) = Cardinality(u) + Cardinality(g)
        /\ Cardinality(u) \in Nat /\ Cardinality(g) \in Nat
    BY <1>5, <1>6, <1>7, <1>8
  <1>10. IsFiniteSet(y) /\ Cardinality(y) = Cardinality(x) + Cardinality(d) /\ Cardinality(d) \in Nat
    BY <1>5, <1>6, <1>7, <1>8, <1>9
  <1>11. Cardinality(z) = Cardinality(y) + Cardinality(r)
    BY <1>5, <1>6, <1>7, <1>8, <1>10
  <1>12. z = S
    BY <1>5, <1>8
  <1>13. /\ HealthCard.up = Cardinality(u) /\ HealthCard.degraded = Cardinality(g)
         /\ HealthCard.down = Cardinality(d) /\ HealthCard.stale = Cardinality(r)
    BY <1>4 DEF HealthCard
  <1>14. HealthCard.allOk => \A v \in S : v.status \notin {"down", "degraded"}
    BY <1>2 DEF HealthCard, Issues, OfStatus
  <1> QED BY <1>1, <1>9, <1>10, <1>11, <1>12, <1>13, <1>14

\* So everything on the overview is of the project and the window that are chosen.
LEMMA HomeTells ==
    ASSUME HomeInv
    PROVE  HomeIsOfTheView
  <1>1. PICK seen : seen = {c \in CallsOf(place, window) : c.session # NoSession}
    OBVIOUS
  <1>2. ASSUME Displays("series")
        PROVE  /\ CallsCard.calls = Cardinality(ToolCallsIn(seen))
               /\ CallsCard.errors = Cardinality(FailuresIn(ToolCallsIn(seen)))
               /\ window <= Week => SessionsCard >= Cardinality(SessionsIn(seen))
    <2>1. Data(Held("series")) = seen
      BY <1>1, <1>2, HomeShows, HomeAnswers DEF Displays, HomeKinds
    <2>2. seen \in SUBSET HomeCalls
      BY <1>1 DEF CallsOf
    <2>3. ASSUME Displays("trends"), window <= Week
          PROVE  SessionsCard >= Cardinality(SessionsIn(seen))
      <3>1. PICK week : week = {c \in CallsOf(place, Week) : c.session # NoSession}
        OBVIOUS
      <3>2. Data(Held("trends")) = week
        BY <2>3, <3>1, HomeShows, HomeAnswers DEF Displays, HomeKinds
      <3>3. seen \subseteq week /\ week \in SUBSET HomeCalls
        <4>1. \A c \in HomeCalls : c.age <= window => c.age <= Week
          BY <2>3, ReportAssumption DEF HomeInv
        <4> QED BY <1>1, <3>1, <4>1 DEF CallsOf
      <3>4. PICK X, Y : X = SessionsIn(seen) /\ Y = SessionsIn(week)
        OBVIOUS
      <3>5. X \in SUBSET Y /\ IsFiniteSet(Y) /\ Cardinality(Y) \in Nat /\ Cardinality(X) \in Nat
        <4>1. X \in SUBSET Y
          BY <3>3, <3>4 DEF SessionsIn
        <4> QED BY <2>2, <3>3, <3>4, <4>1, SomeCalls
      <3>6. Cardinality(X) <= Cardinality(Y)
        BY <3>5, FS_Subset
      <3>7. SessionsCard = Cardinality(Y)
        BY <2>3, <3>2, <3>4 DEF SessionsCard
      <3> QED BY <3>4, <3>5, <3>6, <3>7
    <2>4. ASSUME ~ Displays("trends")
          PROVE  SessionsCard >= Cardinality(SessionsIn(seen))
      <3>1. SessionsCard = SummedOver(seen)
        BY <2>1, <2>4 DEF SessionsCard
      <3> QED BY <2>2, <3>1, SessionsCovered
    <2>5. CallsCard.calls = Cardinality(ToolCallsIn(seen))
      BY <2>1 DEF CallsCard
    <2>6. CallsCard.errors = Cardinality(FailuresIn(ToolCallsIn(seen)))
      BY <2>1 DEF CallsCard
    <2> QED BY <2>3, <2>4, <2>5, <2>6
  <1> QED BY <1>1, <1>2, ModelsAddUp, ToolRowsAddUp, HealthAddsUp DEF HomeIsOfTheView, ModelCallsIn

\* A page that is not open holds nothing of the overview.
HomeHolds == IF page = "overview" THEN HomeInv ELSE ~ ready

\* Both invariants hold at first, ...
LEMMA ReportsBegin ==
    ASSUME Init
    PROVE  ScanInv /\ HomeHolds
  <1>1. ScanInv
    <2>1. visit = 0 /\ scanClicks = 0 /\ scanning = FALSE /\ scans = {} /\ results = {}
      BY DEF Init, ScansRest, ScanInit
    <2> QED BY <2>1 DEF ScanInv
  <1>2. HomeHolds
    BY HomeStarts DEF Init, HomeRests, HomeHolds
  <1> QED BY <1>1, <1>2

\* ... and after every step of the composition.
LEMMA ReportsStep ==
    ASSUME ScanInv, HomeHolds, [Next]_vars
    PROVE  ScanInv' /\ HomeHolds'
  <1>1. UNCHANGED scanVars \/ ScanNext
    BY DEF Next, vars
  <1>2. (UNCHANGED homeVars \/ (page = "overview" /\ HomeNext)) /\ page' = page
    BY DEF Next, vars
  <1>3. ScanInv'
    <2>1. CASE UNCHANGED scanVars
      BY <2>1 DEF scanVars, ScanInv, Waits
    <2> QED BY <1>1, <2>1, ScanSteps
  <1>4. HomeHolds'
    <2>1. CASE UNCHANGED homeVars
      BY <1>2, <2>1 DEF homeVars, HomeHolds, HomeInv, TrueTo, HomeAnswer
    <2>2. CASE page = "overview" /\ HomeNext
      BY <1>2, <2>2, HomeSteps DEF HomeHolds
    <2> QED BY <1>2, <2>1, <2>2
  <1> QED BY <1>3, <1>4

\* Whatever was looked at before and in whatever order answers come, the overview and the
\* security page report of the project and the window they name, count each span, server
\* and finding once, and wait for one scan at a time; but for the scan of a project that is left meanwhile.
THEOREM ReportsStayTrue == Spec => []ReportsAreTrue
  <1>1. Init => ScanInv /\ HomeHolds
    BY ReportsBegin
  <1>2. (ScanInv /\ HomeHolds) /\ [Next]_vars => (ScanInv /\ HomeHolds)'
    BY ReportsStep
  <1>3. ScanInv /\ HomeHolds => ReportsAreTrue
    <2> SUFFICES ASSUME ScanInv, HomeHolds PROVE ReportsAreTrue
      OBVIOUS
    <2>1. HomeIsOfTheView
      <3>1. CASE page = "overview"
        BY <3>1, HomeTells DEF HomeHolds
      <3>2. CASE page # "overview"
        BY <3>2 DEF HomeHolds, HomeIsOfTheView, Displays
      <3> QED BY <3>1, <3>2
    <2> QED BY <2>1, ScansTell, FindingsTell DEF ReportsAreTrue
  <1> QED BY <1>1, <1>2, <1>3, PTL DEF Spec

-----------------------------------------------------------------------------
(* The settings page: the tables. *)

IsRequest(q) == "answer" \in DOMAIN q
\* Unless a change has been made whose answer has not yet arrived, a table at rest shows
\* its rows, and an answer on its way says what they are.
TableAgrees ==
    /\ Quiet(table) => \A d \in table.data : d = rows
    /\ IsAnswered(table) => table.fetch.data = rows
AllTold == \A q \in requests : q.answer # "ok"

TableInv ==
    /\ IsCell(table)
    /\ \A q \in requests : IsRequest(q)
    /\ ~ outside /\ AllTold => TableAgrees

\* A request starts without an answer, and gets one.
LEMMA NewRequest ==
    ASSUME NEW op, NEW r, NEW n
    PROVE  IsRequest(Request(op, r, n)) /\ Request(op, r, n).answer = "none"
BY DEF IsRequest, Request

LEMMA AnsweredRequest ==
    ASSUME NEW q, IsRequest(q), NEW answer
    PROVE  IsRequest([q EXCEPT !.answer = answer]) /\ [q EXCEPT !.answer = answer].answer = answer
BY DEF IsRequest

\* A step of the dialogs, which may send a request.
LEMMA DialogsKeep ==
    ASSUME TableInv, UNCHANGED <<rows, table, outside>>,
           \/ requests' = requests
           \/ \E op, r, n : requests' = requests \cup {Request(op, r, n)}
    PROVE  TableInv'
<1>1. /\ \A q \in requests' : IsRequest(q)
      /\ AllTold' => AllTold
  <2>1. CASE requests' = requests
    BY <2>1 DEF TableInv, AllTold
  <2>2. CASE \E op, r, n : requests' = requests \cup {Request(op, r, n)}
    <3>1. PICK op, r, n : requests' = requests \cup {Request(op, r, n)}
      BY <2>2
    <3> QED BY <3>1, NewRequest DEF TableInv, AllTold
  <2> QED BY <2>1, <2>2
<1> QED BY <1>1 DEF TableInv, TableAgrees

\* The API changes the rows, and an answer is then on its way; or it refuses.
LEMMA ServeKeepsTable ==
    ASSUME TableInv, NEW q \in requests, Serve(q)
    PROVE  TableInv'
<1>0. IsRequest(q) /\ q.answer = "none" /\ table' = table /\ outside' = outside
  BY DEF TableInv, Serve
<1>1. CASE Accepts(q.op, q.row)
  <2> DEFINE new == [q EXCEPT !.answer = "ok"]
  <2>1. IsRequest(new) /\ new.answer = "ok"
    BY <1>0, AnsweredRequest
  <2>2. requests' = (requests \ {q}) \cup {new}
    BY <1>1 DEF Serve
  <2> HIDE DEF new
  <2>3. ~ AllTold' /\ \A p \in requests' : IsRequest(p)
    BY <2>1, <2>2 DEF AllTold, TableInv
  <2> QED BY <1>0, <2>3 DEF TableInv
<1>2. CASE ~ Accepts(q.op, q.row)
  <2> DEFINE new == [q EXCEPT !.answer = "refused"]
  <2>1. IsRequest(new) /\ new.answer = "refused"
    BY <1>0, AnsweredRequest
  <2>2. requests' = (requests \ {q}) \cup {new} /\ rows' = rows
    BY <1>2 DEF Serve
  <2> HIDE DEF new
  <2>3. (AllTold' => AllTold) /\ \A p \in requests' : IsRequest(p)
    BY <1>0, <2>1, <2>2 DEF AllTold, TableInv
  <2> QED BY <1>0, <2>2, <2>3 DEF TableInv, TableAgrees
<1> QED BY <1>1, <1>2

\* The answer to a change has the rows asked for again; an answer to another request
\* leaves that one on its way.
LEMMA AnswersKeepTable ==
    ASSUME TableInv, NEW q \in requests, Succeeds(q) \/ Declined(q) \/ Fails(q)
    PROVE  TableInv'
<1>1. requests' = requests \ {q} /\ \A p \in requests' : IsRequest(p)
  BY DEF Succeeds, Declined, Fails, AfterAnswer, TableInv
<1>2. CASE Succeeds(q)
  <2>1. IsCell(table') /\ table'.fetch = Sent
    BY <1>2, CellSteps DEF Succeeds, TableInv
  <2>2. TableAgrees'
    BY <2>1, FetchStages DEF TableAgrees, Quiet, IsAnswered
  <2> QED BY <1>1, <2>1, <2>2 DEF TableInv
<1>3. CASE Declined(q)
  <2>1. AllTold' => AllTold
    BY <1>1, <1>3 DEF Declined, AllTold
  <2> QED BY <1>1, <1>3, <2>1 DEF TableInv, TableAgrees, Declined
<1>4. CASE Fails(q)
  <2>1. outside' = TRUE /\ table' = table
    BY <1>4 DEF Fails
  <2> QED BY <1>1, <2>1 DEF TableInv
<1> QED BY <1>2, <1>3, <1>4

\* A fetch reads the rows, and brings what it read.
LEMMA FetchKeepsTable ==
    ASSUME TableInv, Refresh \/ TableRead \/ TableArrives \/ TableFails
    PROVE  TableInv'
<1>1. requests' = requests /\ rows' = rows /\ AllTold' = AllTold
  BY DEF Refresh, TableRead, TableArrives, TableFails, AllTold
<1>2. CASE Refresh
  <2>1. IsCell(table') /\ table'.fetch = Sent /\ outside' = outside
    BY <1>2, CellSteps DEF Refresh, TableInv
  <2>2. TableAgrees'
    BY <2>1, FetchStages DEF TableAgrees, Quiet, IsAnswered
  <2> QED BY <1>1, <2>1, <2>2 DEF TableInv
<1>3. CASE TableRead
  <2>1. IsCell(table') /\ table'.fetch = Answered(rows) /\ outside' = outside
    BY <1>3, CellSteps DEF TableRead, TableInv
  <2>2. TableAgrees'
    BY <1>1, <2>1, FetchStages DEF TableAgrees, Quiet, IsAnswered
  <2> QED BY <1>1, <2>1, <2>2 DEF TableInv
<1>4. CASE TableArrives
  <2>1. /\ IsCell(table') /\ table'.fetch = Idle /\ table'.data = {table.fetch.data}
        /\ outside' = outside /\ IsAnswered(table)
    BY <1>4, CellSteps DEF TableArrives, TableInv
  <2>2. TableAgrees => TableAgrees'
    BY <1>1, <2>1, FetchStages DEF TableAgrees, Quiet, IsAnswered
  <2> QED BY <1>1, <2>1, <2>2 DEF TableInv
<1>5. CASE TableFails
  <2>1. IsCell(table') /\ outside' = TRUE
    BY <1>5, CellSteps DEF TableFails, TableInv
  <2> QED BY <1>1, <2>1 DEF TableInv
<1> QED BY <1>2, <1>3, <1>4, <1>5

\* Every step of a section that manages a table keeps what the table says true.
LEMMA TablesKeep ==
    ASSUME TableInv, TablesNext
    PROVE  TableInv'
<1>1. ASSUME NEW op, NEW r, OpenDialog(op, r)
      PROVE  TableInv'
  BY <1>1, DialogsKeep DEF OpenDialog
<1>2. ASSUME NEW op, NEW r, OthersChange(op, r)
      PROVE  TableInv'
  <2>1. outside' = TRUE /\ table' = table /\ requests' = requests
    BY <1>2 DEF OthersChange
  <2> QED BY <2>1 DEF TableInv
<1>3. ASSUME NEW d, Cancel(d) \/ Submit(d)
      PROVE  TableInv'
  BY <1>3, DialogsKeep DEF Cancel, Submit
<1>4. ASSUME NEW r, ClickUser(r) \/ ClickSlo(r)
      PROVE  TableInv'
  <2>1. PICK op, n : Click(op, n)
    BY <1>4 DEF ClickUser, ClickSlo
  <2> QED BY <2>1, DialogsKeep DEF Click
<1> QED
  BY <1>1, <1>2, <1>3, <1>4, ServeKeepsTable, AnswersKeepTable, FetchKeepsTable DEF TablesNext
-----------------------------------------------------------------------------
(* The settings page: the forms. *)

IsSave(q) == {"form", "body", "stage", "existing"} \subseteq DOMAIN q
SaveStages == {"sent", "read", "answered", "refetching"}

\* What is held of the record has the fields the form needs of it, and they are true,
\* but of a provider whose save has changed its key, which is never sent again.
Covers(d) ==
    /\ DOMAIN d \subseteq RecordFields
    /\ IF OfSettings THEN "redact_payloads" \in DOMAIN d ELSE AlertTypes \subseteq DOMAIN d
Agrees(d, but) == \A f \in DOMAIN d \ but : d[f] = record[f]
HoldsTrue(but) == \A d \in held.data : Agrees(d, but)
ComesTrue(but) == IsAnswered(held) => Agrees(held.fetch.data, but)
ViewTrue ==
    \/ HoldsTrue({})
    \/ ~ Quiet(held) /\ HoldsTrue(Providers)

RecordTypes ==
    /\ form \in Forms
    /\ DOMAIN record = RecordFields /\ record = [f \in RecordFields |-> record[f]]
    /\ DOMAIN wanted = RecordFields /\ wanted = [f \in RecordFields |-> wanted[f]]
    /\ IsCell(held)
    /\ \A d \in held.data : Covers(d)
    /\ IsAnswered(held) => Covers(held.fetch.data)
    /\ \A q \in saves : /\ IsSave(q) /\ q.form \in Forms /\ q.stage \in SaveStages
                        /\ q.form \in {"instance", "providers"} <=> OfSettings

\* How a save stands: to be merged into the record, which then is what the user wants;
\* or merged.
Unmerged(q) ==
    /\ Merge(q.body, record) = wanted
    /\ q.stage = "read" => q.existing = record
    /\ q.form = "providers" => wanted["redact_payloads"] = record["redact_payloads"]
    /\ ViewTrue /\ ComesTrue({})
Merged(q) ==
    /\ record = wanted
    /\ q.stage = "answered" /\ q.form = "providers" => HoldsTrue(Providers) /\ ComesTrue(Providers)
    /\ q.stage = "refetching" =>
          Awaits(q) /\ (Quiet(held) => HoldsTrue({})) /\ ComesTrue({})
SaveStands(q) ==
    /\ saves = {q}
    /\ q.form = "instance" => q.body["redact_payloads"] = wanted["redact_payloads"]
    /\ IF q.stage \in {"sent", "read"} THEN Unmerged(q) ELSE Merged(q)
AllSaved == record = wanted /\ ViewTrue /\ ComesTrue({})

Undisturbed == ~ disturbed /\ ~ crossed
RecordInv ==
    IF section = "records"
    THEN Undisturbed =>
            /\ RecordTypes
            /\ saves = {} => AllSaved
            /\ \A q \in saves : SaveStands(q)
    ELSE held.data = {} /\ record = wanted

\* What happens to the page's copy of a record that does not change.
FetchStep ==
    /\ record' = record /\ OfSettings' = OfSettings /\ IsCell(held')
    /\ \/ held' = held
       \/ Quiet(held) /\ held'.data = held.data /\ held'.fetch = Sent
       \/ held'.data = held.data /\ held'.fetch = Answered(record)
       \/ IsAnswered(held) /\ held'.data = {held.fetch.data} /\ held'.fetch = Idle

\* A fetch of a record that does not change keeps what is held of it as true as it was,
\* and what it brings is true.
LEMMA FetchKeeps ==
    ASSUME RecordTypes, FetchStep
    PROVE  /\ \A d \in held'.data : Covers(d)'
           /\ IsAnswered(held)' => Covers(held.fetch.data)'
           /\ ViewTrue /\ ComesTrue({}) => (ViewTrue /\ ComesTrue({}))'
           /\ HoldsTrue(Providers) /\ ComesTrue(Providers)
                => (HoldsTrue(Providers) /\ ComesTrue(Providers))'
           /\ (Quiet(held) => HoldsTrue({})) /\ ComesTrue({})
                => ((Quiet(held) => HoldsTrue({})) /\ ComesTrue({}))'
<1>1. /\ \A d, but : Agrees(d, but)' <=> Agrees(d, but)
      /\ \A d : Covers(d)' <=> Covers(d)
  BY DEF FetchStep, Agrees, Covers, RecordFields
<1>2. \A but : Agrees(record, but)
  BY DEF Agrees
<1>3. Covers(record)
  BY DEF Covers, RecordTypes, RecordFields
<1>4. \A d : Agrees(d, {}) => Agrees(d, Providers)
  BY DEF Agrees
<1>5. CASE held' = held
  BY <1>1, <1>5 DEF RecordTypes, HoldsTrue, ComesTrue, ViewTrue, Quiet, IsAnswered
<1>6. CASE Quiet(held) /\ held'.data = held.data /\ held'.fetch = Sent
  <2>1. ~ IsAnswered(held)' /\ ~ Quiet(held)'
    BY <1>6, FetchStages DEF IsAnswered, Quiet
  <2> QED BY <1>1, <1>4, <1>6, <2>1 DEF RecordTypes, HoldsTrue, ComesTrue, ViewTrue
<1>7. CASE held'.data = held.data /\ held'.fetch = Answered(record)
  <2>1. held'.fetch.data = record /\ ~ Quiet(held)'
    BY <1>7, FetchStages DEF Quiet
  <2>2. Covers(held.fetch.data)' /\ \A but : Agrees(held.fetch.data, but)'
    BY <1>1, <1>2, <1>3, <2>1
  <2>3. \A but : HoldsTrue(but) => HoldsTrue(but)'
    BY <1>1, <1>7 DEF HoldsTrue
  <2>4. ViewTrue => ViewTrue'
    BY <1>4, <2>1, <2>3 DEF ViewTrue, HoldsTrue
  <2>5. \A but : ComesTrue(but)'
    BY <2>2 DEF ComesTrue
  <2>6. \A d \in held'.data : Covers(d)'
    BY <1>1, <1>7 DEF RecordTypes
  <2> QED BY <2>1, <2>2, <2>3, <2>4, <2>5, <2>6
<1>8. CASE IsAnswered(held) /\ held'.data = {held.fetch.data} /\ held'.fetch = Idle
  <2>1. ~ IsAnswered(held)'
    BY <1>8, FetchStages DEF IsAnswered
  <2>2. \A but : ComesTrue(but)'
    BY <2>1 DEF ComesTrue
  <2>3. \A but : ComesTrue(but) => HoldsTrue(but)'
    BY <1>1, <1>8 DEF HoldsTrue, ComesTrue
  <2>4. \A d \in held'.data : Covers(d)'
    BY <1>1, <1>8 DEF RecordTypes
  <2> QED BY <2>1, <2>2, <2>3, <2>4 DEF ViewTrue
<1> QED BY <1>5, <1>6, <1>7, <1>8 DEF FetchStep

\* The page's copy changes, and the saves do not, but for the form they came from.
SameSave(q, p) == q.form = p.form /\ q.body = p.body /\ q.stage = p.stage /\ q.existing = p.existing

\* ... and so the form stays as it should.
LEMMA ViewKeepsRecord ==
    ASSUME RecordInv, section = "records", FetchStep, form' \in Forms,
           UNCHANGED <<section, wanted, disturbed, crossed>>,
           \A q \in saves' : IsSave(q) /\ \E p \in saves : SameSave(q, p),
           saves' = {} => saves = {}, \A p : saves = {p} => \A q \in saves' : saves' = {q}
    PROVE  RecordInv'
<1> SUFFICES ASSUME Undisturbed'
             PROVE  /\ RecordTypes'
                    /\ saves' = {} => AllSaved'
                    /\ \A q \in saves' : SaveStands(q)'
  BY DEF RecordInv
<1>1. /\ RecordTypes /\ (saves = {} => AllSaved)
      /\ \A q \in saves : SaveStands(q)
  BY DEF RecordInv, Undisturbed
<1>2. /\ record' = record /\ wanted' = wanted
      /\ OfSettings' = OfSettings /\ RecordFields' = RecordFields
  BY DEF FetchStep, RecordFields
<1>3. RecordTypes'
  <2>1. /\ DOMAIN record' = RecordFields' /\ record' = [f \in RecordFields' |-> record'[f]]
        /\ DOMAIN wanted' = RecordFields' /\ wanted' = [f \in RecordFields' |-> wanted'[f]]
    BY <1>1, <1>2 DEF RecordTypes
  <2>2. \A q \in saves' : /\ IsSave(q) /\ q.form \in Forms /\ q.stage \in SaveStages
                          /\ q.form \in {"instance", "providers"} <=> OfSettings'
    BY <1>1, <1>2 DEF RecordTypes, SameSave
  <2>3. /\ IsCell(held') /\ \A d \in held'.data : Covers(d)'
        /\ IsAnswered(held)' => Covers(held.fetch.data)'
    BY <1>1, FetchKeeps DEF FetchStep
  <2> QED BY <2>1, <2>2, <2>3 DEF RecordTypes
<1>4. saves' = {} => AllSaved'
  BY <1>1, <1>2, FetchKeeps DEF AllSaved
<1>5. ASSUME NEW q \in saves'
      PROVE  SaveStands(q)'
  <2>1. PICK p \in saves : SameSave(q, p)
    OBVIOUS
  <2>2. SaveStands(p)
    BY <1>1
  <2>3. saves' = {q}
    BY <2>2 DEF SaveStands
  <2>4. Merge(q.body, record)' = Merge(p.body, record)
    BY <1>2, <2>1 DEF Merge, SameSave
  <2>5. Unmerged(p) => Unmerged(q)'
    BY <1>1, <1>2, <2>1, <2>4, FetchKeeps DEF Unmerged, SameSave
  <2>6. Merged(p) => Merged(q)'
    BY <1>1, <1>2, <2>1, FetchKeeps DEF Merged, SameSave, Awaits
  <2> QED BY <1>2, <2>1, <2>2, <2>3, <2>5, <2>6 DEF SaveStands, SameSave
<1> QED BY <1>3, <1>4, <1>5

\* The polls, their readings and their answers.
LEMMA ViewSteps ==
    ASSUME RecordInv, section = "records", UNCHANGED section,
           ViewRefresh \/ ViewRead \/ ViewArrives \/ ViewFails
    PROVE  RecordInv'
<1> SUFFICES ASSUME Undisturbed' PROVE RecordInv'
  BY DEF RecordInv
<1>0. ~ ViewFails
  BY DEF ViewFails, Undisturbed
<1>1. RecordTypes
  BY DEF RecordInv, Undisturbed, ViewRefresh, ViewRead, ViewArrives, ViewFails
<1>2. FetchStep
  <2>1. IsCell(held) /\ record' = record /\ OfSettings' = OfSettings
    BY <1>1 DEF RecordTypes, ViewRefresh, ViewRead, ViewArrives, ViewFails, OfSettings
  <2> QED BY <1>0, <2>1, CellSteps DEF FetchStep, ViewRefresh, ViewRead, ViewArrives
<1>3. \A q \in saves' : IsSave(q) /\ \E p \in saves : SameSave(q, p)
  BY <1>0, <1>1 DEF RecordTypes, SameSave, ViewRefresh, ViewRead, ViewArrives
<1> QED
  BY <1>0, <1>1, <1>2, <1>3, ViewKeepsRecord DEF RecordTypes, ViewRefresh, ViewRead, ViewArrives

\* The other form of the record is mounted; its saves go on without their form.
LEMMA MountKeeps ==
    ASSUME RecordInv, section = "records", UNCHANGED section, NEW f \in Forms, Mount(f)
    PROVE  RecordInv'
<1> SUFFICES ASSUME Undisturbed' PROVE RecordInv'
  BY DEF RecordInv
<1>1. RecordTypes
  BY DEF RecordInv, Undisturbed, Mount
<1>2. FetchStep
  <2>1. IsCell(held) /\ record' = record /\ OfSettings' = OfSettings
    BY <1>1 DEF RecordTypes, Mount, OfSettings
  <2>2. \/ held' = held
        \/ Quiet(held) /\ held' = Asking(held)
    BY DEF Mount, Joining, Quiet
  <2> QED BY <2>1, <2>2, CellSteps DEF FetchStep
<1>3. ASSUME NEW q \in saves
      PROVE  IsSave([q EXCEPT !.here = FALSE]) /\ SameSave([q EXCEPT !.here = FALSE], q)
  <2>1. IsSave(q)
    BY <1>1 DEF RecordTypes
  <2> QED BY <2>1 DEF IsSave, SameSave
<1>4. saves' = {[q EXCEPT !.here = FALSE] : q \in saves}
  BY DEF Mount
<1>5. \A q \in saves' : IsSave(q) /\ \E p \in saves : SameSave(q, p)
  BY <1>3, <1>4
<1> QED BY <1>1, <1>2, <1>4, <1>5, ViewKeepsRecord DEF Mount

\* A save goes on to its next stage.
LEMMA TurnedSave ==
    ASSUME NEW q, IsSave(q), NEW to
    PROVE  /\ IsSave([q EXCEPT !.stage = to]) /\ [q EXCEPT !.stage = to].stage = to
           /\ [q EXCEPT !.stage = to].form = q.form /\ [q EXCEPT !.stage = to].body = q.body
BY DEF IsSave

\* The one save under way becomes another record.
LEMMA OneSave ==
    ASSUME RecordInv, section = "records", UNCHANGED <<section, form>>, Undisturbed, Undisturbed',
           NEW q \in saves, NEW p, saves' = (saves \ {q}) \cup {p},
           IsSave(p), p.form = q.form, p.stage \in SaveStages,
           DOMAIN record' = RecordFields, record' = [f \in RecordFields |-> record'[f]],
           wanted' = wanted,
           IsCell(held'), held'.data = held.data,
           held'.fetch = held.fetch \/ held'.fetch = Sent,
           SaveStands(p)'
    PROVE  RecordInv'
<1>1. RecordTypes /\ SaveStands(q)
  BY DEF RecordInv
<1>2. saves' = {p}
  BY <1>1 DEF SaveStands
<1>3. OfSettings' = OfSettings /\ RecordFields' = RecordFields /\ \A d : Covers(d)' <=> Covers(d)
  BY DEF OfSettings, RecordFields, Covers
<1>4. RecordTypes'
  <2>1. /\ DOMAIN record' = RecordFields' /\ record' = [f \in RecordFields' |-> record'[f]]
        /\ DOMAIN wanted' = RecordFields' /\ wanted' = [f \in RecordFields' |-> wanted'[f]]
    BY <1>1, <1>3 DEF RecordTypes
  <2>2. \A s \in saves' : /\ IsSave(s) /\ s.form \in Forms /\ s.stage \in SaveStages
                          /\ s.form \in {"instance", "providers"} <=> OfSettings'
    BY <1>1, <1>2, <1>3 DEF RecordTypes
  <2>3. \A d \in held'.data : Covers(d)'
    BY <1>1, <1>3 DEF RecordTypes
  <2>4. IsAnswered(held)' => Covers(held.fetch.data)'
    BY <1>1, <1>3, FetchStages DEF RecordTypes, IsAnswered
  <2> QED BY <1>1, <2>1, <2>2, <2>3, <2>4 DEF RecordTypes
<1> QED BY <1>2, <1>4 DEF RecordInv

\* The API reads the record that a save is to be merged into.
LEMMA ReadKeeps ==
    ASSUME RecordInv, section = "records", UNCHANGED section, NEW q \in saves, ReadExisting(q)
    PROVE  RecordInv'
<1> SUFFICES ASSUME Undisturbed' PROVE RecordInv'
  BY DEF RecordInv
<1>0. Undisturbed
  BY DEF Undisturbed, ReadExisting
<1>1. RecordTypes /\ SaveStands(q) /\ IsSave(q)
  BY <1>0 DEF RecordInv, RecordTypes
<1>2. PICK p : p = [q EXCEPT !.stage = "read", !.existing = record]
  OBVIOUS
<1>3. /\ IsSave(p) /\ p.form = q.form /\ p.body = q.body
      /\ p.stage = "read" /\ p.existing = record
      /\ saves' = (saves \ {q}) \cup {p}
  BY <1>1, <1>2 DEF IsSave, ReadExisting
<1>4. saves' = {p} /\ q.stage = "sent"
  BY <1>1, <1>3 DEF SaveStands, ReadExisting
<1>5. /\ held' = held /\ record' = record /\ wanted' = wanted /\ UNCHANGED form
  BY DEF ReadExisting
<1>6. Unmerged(q)
  BY <1>1, <1>4 DEF SaveStands
<1>7. Unmerged(p)'
  <2>1. Merge(p.body, record)' = Merge(q.body, record)
    BY <1>3, <1>5 DEF Merge
  <2>2. (ViewTrue /\ ComesTrue({}))' <=> ViewTrue /\ ComesTrue({})
    BY <1>5 DEF ViewTrue, ComesTrue, HoldsTrue, Agrees
  <2> QED BY <1>3, <1>5, <1>6, <2>1, <2>2 DEF Unmerged
<1>8. SaveStands(p)'
  BY <1>1, <1>3, <1>4, <1>5, <1>7 DEF SaveStands
<1> QED BY <1>0, <1>1, <1>3, <1>5, <1>8, OneSave DEF RecordTypes, SaveStages

\* The merged record is what the user wants, and what is held of it is true but for the
\* keys of the providers.
LEMMA WriteKeeps ==
    ASSUME RecordInv, section = "records", UNCHANGED section, NEW q \in saves, WriteMerged(q)
    PROVE  RecordInv'
<1> SUFFICES ASSUME Undisturbed' PROVE RecordInv'
  BY DEF RecordInv
<1>0. Undisturbed
  BY DEF Undisturbed, WriteMerged
<1>1. RecordTypes /\ SaveStands(q) /\ IsSave(q)
  BY <1>0 DEF RecordInv, RecordTypes
<1> DEFINE p == [q EXCEPT !.stage = "answered"]
<1>2. IsSave(p) /\ p.form = q.form /\ p.body = q.body /\ p.stage = "answered"
  BY <1>1, TurnedSave
<1>3. saves' = (saves \ {q}) \cup {p}
  BY DEF WriteMerged, Turn
<1> HIDE DEF p
<1>4. saves' = {p} /\ q.stage = "read"
  BY <1>1, <1>3 DEF SaveStands, WriteMerged
<1>5. /\ held' = held /\ wanted' = wanted /\ UNCHANGED form
  BY DEF WriteMerged
<1>6. Unmerged(q)
  BY <1>1, <1>4 DEF SaveStands
<1>7. record' = wanted
  BY <1>4, <1>6 DEF Unmerged, WriteMerged
<1>8. Merged(p)'
  <2>1. ASSUME q.form = "providers"
        PROVE  (HoldsTrue(Providers) /\ ComesTrue(Providers))'
    <3>1. record'["redact_payloads"] = record["redact_payloads"]
      BY <1>6, <1>7, <2>1 DEF Unmerged
    <3>2. OfSettings
      BY <1>1, <2>1 DEF RecordTypes
    <3>3. ASSUME NEW d, Covers(d), Agrees(d, Providers)
          PROVE  Agrees(d, Providers)'
      <4>1. \A f \in DOMAIN d \ Providers : f = "redact_payloads"
        BY <3>2, <3>3 DEF Covers, RecordFields
      <4> QED BY <3>1, <3>3, <4>1 DEF Agrees
    <3>4. \A d : Agrees(d, {}) => Agrees(d, Providers)
      BY DEF Agrees
    <3>5. HoldsTrue(Providers)'
      BY <1>1, <1>5, <1>6, <3>3, <3>4 DEF Unmerged, ViewTrue, HoldsTrue, RecordTypes
    <3>6. ComesTrue(Providers)'
      BY <1>1, <1>5, <1>6, <3>3, <3>4 DEF Unmerged, ComesTrue, RecordTypes
    <3> QED BY <3>5, <3>6
  <2> QED BY <1>2, <1>5, <1>7, <2>1 DEF Merged
<1>9. SaveStands(p)'
  BY <1>1, <1>2, <1>4, <1>5, <1>8 DEF SaveStands
<1>10. DOMAIN record' = RecordFields /\ record' = [f \in RecordFields |-> record'[f]]
  BY <1>1, <1>7 DEF RecordTypes
<1> QED BY <1>0, <1>1, <1>2, <1>3, <1>5, <1>9, <1>10, OneSave DEF RecordTypes, SaveStages

\* No save is left.
LEMMA LastSave ==
    ASSUME RecordInv, section = "records", UNCHANGED <<section, form, record, wanted>>,
           Undisturbed, saves' = {}, record = wanted,
           IsCell(held'), \A d \in held'.data : Covers(d),
           held'.fetch \in {Idle, Sent} \/ held'.fetch = held.fetch,
           (ViewTrue /\ ComesTrue({}))'
    PROVE  RecordInv'
<1>1. RecordTypes
  BY DEF RecordInv
<1>2. OfSettings' = OfSettings /\ RecordFields' = RecordFields /\ \A d : Covers(d)' <=> Covers(d)
  BY DEF OfSettings, RecordFields, Covers
<1>3. IsAnswered(held)' => Covers(held.fetch.data)'
  BY <1>1, <1>2, FetchStages DEF RecordTypes, IsAnswered
<1>4. RecordTypes'
  BY <1>1, <1>2, <1>3 DEF RecordTypes
<1>5. AllSaved'
  BY DEF AllSaved
<1> QED BY <1>4, <1>5 DEF RecordInv

\* The answer of a save puts something true in the place of what is held, or has the
\* record asked for again.
LEMMA AnswerKeeps ==
    ASSUME RecordInv, section = "records", UNCHANGED section, NEW q \in saves, SaveAnswered(q)
    PROVE  RecordInv'
<1> SUFFICES ASSUME Undisturbed' PROVE RecordInv'
  BY DEF RecordInv
<1>0. Undisturbed /\ UNCHANGED <<form, record, wanted>>
  BY DEF Undisturbed, SaveAnswered
<1>1. RecordTypes /\ SaveStands(q) /\ IsSave(q) /\ q.form \in Forms /\ IsCell(held)
  BY <1>0 DEF RecordInv, RecordTypes
<1>2. q.stage = "answered" /\ saves = {q}
  BY <1>1 DEF SaveAnswered, SaveStands
<1>3. Merged(q) /\ record = wanted
  BY <1>1, <1>2 DEF SaveStands, Merged
<1>4. CASE q.form = "instance"
  <2> DEFINE d0 == [f \in {"redact_payloads"} |-> q.body[f]]
  <2>1. held' = [data |-> {d0}, fetch |-> Idle]
    BY <1>4 DEF SaveAnswered, Reply
  <2>2. IsCell(held') /\ held'.data = {d0} /\ held'.fetch = Idle
    BY <2>1 DEF IsCell
  <2>3. saves' = {}
    BY <1>2, <1>4 DEF SaveAnswered, Ended, Awaits
  <2>4. DOMAIN d0 = {"redact_payloads"} /\ d0["redact_payloads"] = record["redact_payloads"]
    BY <1>1, <1>3, <1>4 DEF SaveStands
  <2>5. Covers(d0)
    BY <1>1, <1>4, <2>4 DEF Covers, RecordTypes, RecordFields
  <2>6. Agrees(d0, {})'
    BY <1>0, <2>4 DEF Agrees
  <2> HIDE DEF d0
  <2>7. (ViewTrue /\ ComesTrue({}))'
    BY <2>2, <2>6, FetchStages DEF ViewTrue, ComesTrue, HoldsTrue, IsAnswered
  <2> QED BY <1>0, <1>3, <2>2, <2>3, <2>5, <2>7, LastSave
<1>5. CASE q.form = "providers"
  <2>1. IsCell(held') /\ held'.data = held.data /\ held'.fetch = Sent
    BY <1>1, <1>5, CellSteps DEF SaveAnswered, Reply
  <2>2. saves' = {}
    BY <1>2, <1>5 DEF SaveAnswered, Ended, Awaits
  <2>3. (ViewTrue /\ ComesTrue({}))'
    <3>1. HoldsTrue(Providers)
      BY <1>2, <1>3, <1>5 DEF Merged
    <3>2. HoldsTrue(Providers)'
      BY <1>0, <2>1, <3>1 DEF HoldsTrue, Agrees
    <3> QED BY <2>1, <3>2, FetchStages DEF ViewTrue, ComesTrue, IsAnswered, Quiet
  <2> QED BY <1>0, <1>1, <1>3, <2>1, <2>2, <2>3, LastSave DEF RecordTypes
<1>6. CASE Awaits(q)
  <2>1. IsCell(held') /\ held'.data = held.data /\ held'.fetch = Sent
    BY <1>1, <1>6, CellSteps DEF SaveAnswered, Reply, Awaits
  <2> DEFINE p == [q EXCEPT !.stage = "refetching"]
  <2>2. IsSave(p) /\ p.form = q.form /\ p.stage = "refetching"
    BY <1>1, TurnedSave
  <2>3. saves' = (saves \ {q}) \cup {p}
    BY <1>6 DEF SaveAnswered, Ended, Turn
  <2> HIDE DEF p
  <2>4. Merged(p)'
    BY <1>0, <1>3, <1>6, <2>1, <2>2, FetchStages
       DEF Merged, Awaits, Quiet, ComesTrue, IsAnswered
  <2>5. SaveStands(p)'
    BY <1>2, <1>6, <2>2, <2>3, <2>4 DEF SaveStands, Awaits
  <2> QED BY <1>0, <1>1, <2>1, <2>2, <2>3, <2>5, OneSave DEF RecordTypes, SaveStages
<1> QED BY <1>1, <1>4, <1>5, <1>6 DEF Forms, Awaits

\* A save of the alerts ends when the record has been fetched again.
LEMMA RefetchKeeps ==
    ASSUME RecordInv, section = "records", UNCHANGED section, NEW q \in saves, Refetched(q)
    PROVE  RecordInv'
<1> SUFFICES ASSUME Undisturbed' PROVE RecordInv'
  BY DEF RecordInv
<1>0. Undisturbed /\ UNCHANGED <<form, record, wanted, held>>
  BY DEF Undisturbed, Refetched
<1>1. RecordTypes /\ SaveStands(q)
  BY <1>0 DEF RecordInv
<1>2. q.stage = "refetching" /\ saves' = {} /\ Quiet(held)
  BY <1>1 DEF Refetched, SaveStands
<1>3. record = wanted /\ HoldsTrue({}) /\ ComesTrue({})
  BY <1>1, <1>2 DEF SaveStands, Merged
<1>4. (ViewTrue /\ ComesTrue({}))'
  BY <1>0, <1>3 DEF ViewTrue, HoldsTrue, ComesTrue, Agrees
<1> QED BY <1>0, <1>1, <1>2, <1>3, <1>4, LastSave DEF RecordTypes

\* A click on a field sends a change of it, which is to be merged into the record: what
\* it is, and what goes with it, is true of the record.
LEMMA BodyMerges ==
    ASSUME RecordTypes, HoldsTrue(Providers), Loaded(held), record = wanted,
           NEW e \in Edits,
           wanted' = IF e[2] = Masked THEN wanted ELSE [wanted EXCEPT ![e[1]] = e[2]]
    PROVE  /\ Merge(Body(e[1], e[2]), record) = wanted'
           /\ form = "instance" =>
                 Body(e[1], e[2])["redact_payloads"] = wanted'["redact_payloads"]
           /\ form = "providers" => wanted'["redact_payloads"] = record["redact_payloads"]
           /\ DOMAIN wanted' = RecordFields /\ wanted' = [f \in RecordFields |-> wanted'[f]]
<1>1. Data(held) \in held.data
  BY DEF Loaded, Data
<1>2. Covers(Data(held)) /\ Agrees(Data(held), Providers)
  BY <1>1 DEF RecordTypes, HoldsTrue
<1>3. ASSUME NEW f, f \in IF OfSettings THEN {"redact_payloads"} ELSE AlertTypes
      PROVE  Shown(f) = record[f]
  BY <1>2, <1>3 DEF Shown, Covers, Agrees, Providers, AlertTypes
<1>4. /\ DOMAIN record = RecordFields /\ DOMAIN wanted = RecordFields
      /\ record = [f \in RecordFields |-> record[f]]
      /\ form \in Forms
  BY DEF RecordTypes
<1>5. /\ DOMAIN wanted' = RecordFields /\ wanted' = [f \in RecordFields |-> wanted'[f]]
      /\ \A f \in RecordFields : wanted'[f] = IF f = e[1] /\ e[2] # Masked THEN e[2] ELSE record[f]
  BY <1>4, wanted = [f \in RecordFields |-> wanted[f]] DEF RecordTypes
<1>6. ASSUME NEW b, \A f \in RecordFields :
                       (IF f \in DOMAIN b /\ b[f] # Masked THEN b[f] ELSE record[f]) = wanted'[f]
      PROVE  Merge(b, record) = wanted'
  BY <1>4, <1>5, <1>6 DEF Merge
<1>7. \A x : Flip(x) # Masked
  BY DEF Flip, Masked
<1>8. CASE form = "instance"
  <2>1. /\ e[1] = "redact_payloads" /\ e[2] # Masked /\ OfSettings
    BY <1>7, <1>8 DEF Edits, InstanceSection, Switches, OfSettings
  <2>2. Body(e[1], e[2]) = [g \in {e[1]} |-> e[2]]
    BY <1>8 DEF Body
  <2>3. e[1] \in RecordFields
    BY <2>1 DEF RecordFields
  <2>4. Merge(Body(e[1], e[2]), record) = wanted'
    BY <1>5, <1>6, <2>1, <2>2
  <2> QED BY <1>5, <1>8, <2>1, <2>2, <2>3, <2>4
<1>9. CASE form = "providers"
  <2>1. e[1] \in Providers /\ OfSettings
    BY <1>9 DEF Edits, AIProvidersSection, OfSettings
  <2>2. Body(e[1], e[2]) = [g \in {e[1], "redact_payloads"} |-> IF g = e[1] THEN e[2] ELSE Shown(g)]
    BY <1>9 DEF Body, saveProvider
  <2>3. Shown("redact_payloads") = record["redact_payloads"]
    BY <1>3, <2>1
  <2>4. "redact_payloads" \in RecordFields /\ e[1] # "redact_payloads"
    BY <2>1 DEF RecordFields, Providers
  <2>5. Merge(Body(e[1], e[2]), record) = wanted'
    BY <1>5, <1>6, <2>2, <2>3
  <2> QED BY <1>5, <1>9, <2>4, <2>5
<1>10. CASE form = "notifications"
  <2>1. e[1] \in RecordFields
    BY <1>10 DEF Edits, NotificationsSection, Switches, RecordFields, OfSettings
  <2>2. Body(e[1], e[2]) = [g \in {e[1]} |-> e[2]]
    BY <1>10 DEF Body
  <2>3. Merge(Body(e[1], e[2]), record) = wanted'
    BY <1>5, <1>6, <2>2
  <2> QED BY <1>5, <1>10, <2>3
<1>11. CASE form = "rules"
  <2>1. e[1] \in AlertTypes /\ e[2] # Masked /\ ~ OfSettings
    BY <1>7, <1>11 DEF Edits, AlertRules, Switches, OfSettings
  <2>2. Body(e[1], e[2]) = [g \in AlertTypes |-> IF g = e[1] THEN e[2] ELSE Shown(g)]
    BY <1>11 DEF Body, toggleType
  <2>3. \A g \in AlertTypes : Shown(g) = record[g]
    BY <1>3, <2>1
  <2>4. Merge(Body(e[1], e[2]), record) = wanted'
    BY <1>5, <1>6, <2>1, <2>2, <2>3
  <2> QED BY <1>5, <1>11, <2>4
<1> QED BY <1>4, <1>8, <1>9, <1>10, <1>11 DEF Forms

\* The save of a form that has loaded the record, while no other is under way.
LEMMA SaveKeeps ==
    ASSUME RecordInv, section = "records", UNCHANGED section, NEW e \in Edits, Save(e[1], e[2])
    PROVE  RecordInv'
<1> SUFFICES ASSUME Undisturbed' PROVE RecordInv'
  BY DEF RecordInv
<1>0. Undisturbed /\ saves = {} /\ Loaded(held)
  BY DEF Undisturbed, Save
<1>1. RecordTypes /\ AllSaved
  BY <1>0 DEF RecordInv
<1>2. UNCHANGED <<form, record, held>> /\ RecordFields' = RecordFields /\ OfSettings' = OfSettings
  BY DEF Save, RecordFields, OfSettings
<1>3. PICK q : /\ saves' = {q} /\ IsSave(q) /\ q.form = form /\ q.stage = "sent"
               /\ q.body = Body(e[1], e[2])
  <2>1. PICK q : q = [id |-> tries, form |-> form, here |-> TRUE, body |-> Body(e[1], e[2]),
                      stage |-> "sent", existing |-> <<>>]
    OBVIOUS
  <2>2. saves' = {q}
    BY <1>0, <2>1 DEF Save
  <2>3. IsSave(q) /\ q.form = form /\ q.stage = "sent" /\ q.body = Body(e[1], e[2])
    BY <2>1 DEF IsSave
  <2> QED BY <2>2, <2>3
<1>4. wanted' = IF e[2] = Masked THEN wanted ELSE [wanted EXCEPT ![e[1]] = e[2]]
  BY DEF Save
<1>5. HoldsTrue(Providers) /\ ViewTrue /\ ComesTrue({}) /\ record = wanted
  BY <1>1 DEF AllSaved, ViewTrue, HoldsTrue, Agrees
<1>6. /\ Merge(q.body, record) = wanted'
      /\ form = "instance" => q.body["redact_payloads"] = wanted'["redact_payloads"]
      /\ form = "providers" => wanted'["redact_payloads"] = record["redact_payloads"]
      /\ DOMAIN wanted' = RecordFields /\ wanted' = [f \in RecordFields |-> wanted'[f]]
  BY <1>0, <1>1, <1>3, <1>4, <1>5, BodyMerges
<1>7. RecordTypes'
  <2>1. \A d : Covers(d)' <=> Covers(d)
    BY <1>2 DEF Covers
  <2>2. q.form \in {"instance", "providers"} <=> OfSettings
    BY <1>3 DEF OfSettings
  <2>3. \A s \in saves' : /\ IsSave(s) /\ s.form \in Forms /\ s.stage \in SaveStages
                          /\ s.form \in {"instance", "providers"} <=> OfSettings'
    BY <1>1, <1>2, <1>3, <2>2 DEF RecordTypes, SaveStages
  <2> QED BY <1>1, <1>2, <1>6, <2>1, <2>3 DEF RecordTypes
<1>8. Unmerged(q)'
  <2>1. Merge(q.body, record)' = Merge(q.body, record)
    BY <1>2 DEF Merge
  <2>2. (ViewTrue /\ ComesTrue({}))'
    BY <1>2, <1>5 DEF ViewTrue, ComesTrue, HoldsTrue, Agrees
  <2> QED BY <1>2, <1>3, <1>6, <2>1, <2>2 DEF Unmerged
<1>9. SaveStands(q)'
  BY <1>3, <1>6, <1>8 DEF SaveStands
<1> QED BY <1>3, <1>7, <1>9 DEF RecordInv

\* Every step of a form; once somebody else has saved, or saves overlap, there is nothing
\* to keep.
LEMMA RecordsKeep ==
    ASSUME RecordInv, section = "records", UNCHANGED section, RecordsNext
    PROVE  RecordInv'
<1>1. ASSUME NEW q, SaveFails(q)
      PROVE  RecordInv'
  BY <1>1 DEF SaveFails, RecordInv, Undisturbed
<1>2. ASSUME NEW f, OtherSaves(f)
      PROVE  RecordInv'
  BY <1>2 DEF OtherSaves, RecordInv, Undisturbed
<1> QED
  BY <1>1, <1>2, SaveKeeps, ReadKeeps, WriteKeeps, AnswerKeeps, RefetchKeeps, MountKeeps, ViewSteps
     DEF RecordsNext

\* A form that is not mounted, or that does nothing.
LEMMA RecordsRest ==
    ASSUME RecordInv, UNCHANGED <<section, recordVars>>
    PROVE  RecordInv'
<1>1. /\ RecordTypes' <=> RecordTypes
      /\ AllSaved' <=> AllSaved
      /\ \A q : SaveStands(q)' <=> SaveStands(q)
  BY DEF recordVars, RecordTypes, AllSaved, SaveStands, Unmerged, Merged, Merge, Awaits,
         ViewTrue, ComesTrue, HoldsTrue, Agrees, Covers, RecordFields, OfSettings
<1> QED BY <1>1 DEF RecordInv, recordVars, Undisturbed

-----------------------------------------------------------------------------
(* The settings page: the members of a project. *)

IsLoad(l) == {"stage", "rows"} \subseteq DOMAIN l
IsChange(c) ==
    /\ {"op", "user", "role", "answer"} \subseteq DOMAIN c
    /\ c.op \in {"add", "remove"} /\ c.answer \in {"none", "ok", "404"}
Pending(u) == \E c \in changes : c.user = u /\ c.answer = "ok"
ListsRight(u) == {x \in Listed : x[1] = u} = {x \in RowsOf(members) : x[1] = u}
LoadStands(l) ==
    /\ IsLoad(l) /\ loads = {l} /\ list = {}
    /\ l.stage = "answered" => l.rows = RowsOf(members)
ChangeStands(c) ==
    /\ IsChange(c) /\ list # {}
    /\ \A d \in changes : d.user = c.user => d = c
    /\ c.op = "add" => c.user \notin Names
    /\ c.answer = "ok" =>
          IF c.op = "add" THEN c.user \in DOMAIN members /\ members[c.user] = c.role
          ELSE c.user \notin DOMAIN members
RowStands ==
    /\ list = {} \/ list = {Listed}
    /\ selectedUserId # Nobody => list # {} /\ selectedUserId \notin Names
    /\ \A l \in loads : LoadStands(l)
    /\ \A c \in changes : ChangeStands(c)
    /\ list # {} => \A u \in Names \cup DOMAIN members : Pending(u) \/ ListsRight(u)
MemberInv ==
    IF section = "members" THEN ~ byOthers /\ ~ raced => RowStands ELSE list = {}

SettingsInv == TableInv /\ RecordInv /\ MemberInv

\* What the row shows rests on the members, the list and the changes alone.
LEMMA SameRow ==
    ASSUME RowStands, UNCHANGED <<members, list, changes>>,
           selectedUserId' # Nobody => list # {} /\ selectedUserId' \notin Names,
           \A l \in loads' : LoadStands(l)'
    PROVE  RowStands'
<1>1. Names' = Names /\ Listed' = Listed /\ RowsOf(members)' = RowsOf(members)
  BY DEF Names, Listed, RowsOf
<1>2. \A c \in changes' : ChangeStands(c)'
  BY <1>1 DEF RowStands, ChangeStands
<1>3. \A v : (Pending(v) => Pending(v)') /\ (ListsRight(v) => ListsRight(v)')
  BY <1>1 DEF Pending, ListsRight
<1> QED BY <1>1, <1>2, <1>3 DEF RowStands

\* The row asks for the members, which are read, or not.
LEMMA LoadKeeps ==
    ASSUME RowStands, HandleExpand \/ (\E l \in loads : LoadRead(l) \/ LoadFails(l)), ~ raced'
    PROVE  RowStands'
<1>1. UNCHANGED <<members, list, changes, selectedUserId>>
  BY DEF HandleExpand, LoadRead, LoadFails
<1>2. \A l \in loads' : LoadStands(l)'
  <2>1. CASE HandleExpand
    <3>1. CASE loads' = loads
      BY <1>1, <3>1 DEF RowStands, LoadStands, RowsOf
    <3>2. CASE loads' # loads
      <4>1. PICK l : l = [id |-> memberActs, stage |-> "sent", rows |-> {}]
        OBVIOUS
      <4>2. loads' = {l} /\ list = {}
        BY <2>1, <3>2, <4>1 DEF HandleExpand
      <4>3. IsLoad(l) /\ l.stage = "sent"
        BY <4>1 DEF IsLoad
      <4> QED BY <1>1, <4>2, <4>3 DEF LoadStands
    <3> QED BY <3>1, <3>2
  <2>2. ASSUME NEW l \in loads, LoadRead(l)
        PROVE  \A m \in loads' : LoadStands(m)'
    <3>1. LoadStands(l)
      BY DEF RowStands
    <3>2. PICK m : m = [l EXCEPT !.stage = "answered", !.rows = RowsOf(members)]
      OBVIOUS
    <3>3. loads' = {m} /\ list = {}
      BY <2>2, <3>1, <3>2 DEF LoadRead, LoadStands
    <3>4. IsLoad(m) /\ m.rows = RowsOf(members)
      BY <3>1, <3>2 DEF LoadStands, IsLoad
    <3> QED BY <1>1, <3>3, <3>4 DEF LoadStands, RowsOf
  <2>3. ASSUME NEW l \in loads, LoadFails(l)
        PROVE  loads' = {}
    BY <2>3 DEF LoadFails, RowStands, LoadStands
  <2> QED BY <2>1, <2>2, <2>3
<1> QED BY <1>1, <1>2, SameRow DEF RowStands

\* The members as they are, before any change of the row's own.
LEMMA ArrivalKeeps ==
    ASSUME RowStands, NEW l \in loads, LoadArrives(l)
    PROVE  RowStands'
<1>1. LoadStands(l) /\ l.stage = "answered"
  BY DEF RowStands, LoadArrives
<1>2. /\ list = {} /\ loads' = {} /\ list' = {RowsOf(members)}
      /\ UNCHANGED <<members, changes, selectedUserId>>
  BY <1>1 DEF LoadStands, LoadArrives
<1>3. changes = {} /\ selectedUserId = Nobody
  BY <1>2 DEF RowStands, ChangeStands
<1>4. list' = {Listed'} /\ Listed' = RowsOf(members)'
  BY <1>2 DEF Listed, RowsOf
<1>5. list' # {}
  BY <1>2
<1>6. \A u : ListsRight(u)'
  BY <1>4 DEF ListsRight
<1> QED BY <1>2, <1>3, <1>4, <1>5, <1>6 DEF RowStands

\* A user who is not a member yet is selected.
LEMMA SelectKeeps ==
    ASSUME RowStands, NEW u, Select(u)
    PROVE  RowStands'
<1>1. /\ UNCHANGED <<members, list, changes, loads>>
      /\ selectedUserId' \notin Names /\ list # {}
  BY DEF Select, Visible
<1>2. \A l \in loads' : LoadStands(l)'
  BY <1>1 DEF RowStands, LoadStands, RowsOf
<1> QED BY <1>1, <1>2, SameRow

\* A change is of a user whom no other change is about.
LEMMA ChangeKeeps ==
    ASSUME RowStands, NEW op, NEW u, NEW role, Change(op, u, role), ~ raced',
           op \in {"add", "remove"}, op = "add" => u \notin Names, list # {},
           UNCHANGED <<members, list, loads, selectedUserId>>
    PROVE  RowStands'
<1>1. PICK c : c = [id |-> memberActs, op |-> op, user |-> u, role |-> role, answer |-> "none"]
  OBVIOUS
<1>2. changes' = changes \cup {c}
  BY <1>1 DEF Change
<1>3. IsChange(c) /\ c.op = op /\ c.user = u /\ c.answer = "none"
  BY <1>1 DEF IsChange
<1>4. \A d \in changes : d.user # u
  BY DEF Change
<1>5. Names' = Names /\ Listed' = Listed /\ RowsOf(members)' = RowsOf(members)
  BY DEF Names, Listed, RowsOf
<1>6. \A d \in changes' : ChangeStands(d)'
  BY <1>2, <1>3, <1>4, <1>5 DEF RowStands, ChangeStands
<1>7. \A v : Pending(v) => Pending(v)'
  BY <1>2 DEF Pending
<1>8. \A v : ListsRight(v) => ListsRight(v)'
  BY <1>5 DEF ListsRight
<1>9. \A l \in loads' : LoadStands(l)'
  BY <1>5 DEF RowStands, LoadStands
<1> QED BY <1>5, <1>6, <1>7, <1>8, <1>9 DEF RowStands

\* The API changes a member, whose rows an answer is then on its way to tell.
LEMMA ServeKeepsRow ==
    ASSUME RowStands, NEW c \in changes, ServeChange(c)
    PROVE  RowStands'
<1>1. ChangeStands(c) /\ c.answer = "none" /\ list # {}
  BY DEF RowStands, ChangeStands, ServeChange
<1> DEFINE found == c.op = "add" \/ c.user \in DOMAIN members
<1>2. PICK d : d = [c EXCEPT !.answer = IF found THEN "ok" ELSE "404"]
  OBVIOUS
<1>3. changes' = (changes \ {c}) \cup {d}
  BY <1>2 DEF ServeChange
<1>4. /\ IsChange(d) /\ d.op = c.op /\ d.user = c.user /\ d.role = c.role
      /\ d.answer = IF found THEN "ok" ELSE "404"
  BY <1>1, <1>2 DEF ChangeStands, IsChange
<1>5. UNCHANGED <<list, loads, selectedUserId>> /\ Names' = Names /\ Listed' = Listed
  BY DEF ServeChange, Names, Listed
<1>6. loads' = {}
  BY <1>1, <1>5 DEF RowStands, LoadStands
<1>7. /\ \A v : v # c.user => (v \in DOMAIN members' <=> v \in DOMAIN members)
      /\ \A v \in DOMAIN members : v # c.user => members'[v] = members[v]
      /\ IF c.op = "add" THEN c.user \in DOMAIN members' /\ members'[c.user] = c.role
         ELSE c.user \notin DOMAIN members'
  BY DEF ServeChange, With, Without
<1>8. \A e \in changes' : ChangeStands(e)'
  <2>1. ChangeStands(d)'
    BY <1>1, <1>3, <1>4, <1>5, <1>7 DEF ChangeStands
  <2>2. ASSUME NEW e \in changes, e # c
        PROVE  ChangeStands(e)'
    <3>1. ChangeStands(e) /\ e.user # c.user
      BY <1>1, <2>2 DEF RowStands, ChangeStands
    <3> QED BY <1>3, <1>4, <1>5, <1>7, <3>1 DEF ChangeStands
  <2> QED BY <1>3, <2>1, <2>2
<1>9. ASSUME NEW v \in (Names \cup DOMAIN members)'
      PROVE  Pending(v)' \/ ListsRight(v)'
  <2>1. CASE v # c.user
    <3>1. Pending(v) \/ ListsRight(v)
      BY <1>1, <1>5, <1>7, <2>1 DEF RowStands
    <3>2. Pending(v) => Pending(v)'
      BY <1>3, <2>1 DEF Pending
    <3>3. {x \in RowsOf(members)' : x[1] = v} = {x \in RowsOf(members) : x[1] = v}
      BY <1>7, <2>1 DEF RowsOf
    <3> QED BY <1>5, <3>1, <3>2, <3>3 DEF ListsRight
  <2>2. CASE v = c.user /\ found
    BY <1>3, <1>4, <2>2 DEF Pending
  <2>3. CASE v = c.user /\ ~ found
    <3>1. v \in Names
      BY <1>5, <1>7, <2>3, <1>1 DEF ChangeStands, IsChange
    <3>2. ~ Pending(v)
      BY <1>1, <2>3 DEF Pending, ChangeStands
    <3>3. ListsRight(v)
      BY <1>1, <3>1, <3>2 DEF RowStands
    <3>4. {x \in RowsOf(members)' : x[1] = v} = {x \in RowsOf(members) : x[1] = v}
      BY <1>1, <1>7, <2>3 DEF RowsOf, ChangeStands, IsChange
    <3> QED BY <1>5, <3>3, <3>4 DEF ListsRight
  <2> QED BY <2>1, <2>2, <2>3
<1> QED BY <1>1, <1>5, <1>6, <1>8, <1>9 DEF RowStands

\* The answer tells the row what became of that member, and the list then says so.
LEMMA SuccessKeepsRow ==
    ASSUME RowStands, NEW c \in changes, ChangeSucceeds(c)
    PROVE  RowStands'
<1>1. ChangeStands(c) /\ c.answer = "ok" /\ c.op \in {"add", "remove"}
  BY DEF RowStands, ChangeStands, IsChange, ChangeSucceeds
<1>2. /\ changes' = changes \ {c} /\ list' = {After(c)} /\ members' = members /\ loads' = loads
      /\ Listed' = After(c) /\ RowsOf(members)' = RowsOf(members)
  BY DEF ChangeSucceeds, ChangeEnds, Listed, RowsOf
<1>3. loads' = {} /\ list' # {} /\ list' = {Listed'}
  BY <1>1, <1>2 DEF RowStands, ChangeStands, LoadStands
<1>4. \A v : v # c.user => {x \in Listed' : x[1] = v} = {x \in Listed : x[1] = v}
  BY <1>2 DEF After
<1>5. \A v : v # c.user => (v \in Names' <=> v \in Names)
  BY <1>4 DEF Names
<1>6. selectedUserId' # Nobody => selectedUserId' \notin Names'
  <2>1. CASE c.op = "add"
    BY <2>1 DEF ChangeSucceeds
  <2>2. CASE c.op = "remove"
    <3>1. c.user \notin Names'
      BY <1>2, <2>2 DEF After, Names
    <3> QED BY <1>5, <2>2, <3>1 DEF ChangeSucceeds, RowStands
  <2> QED BY <1>1, <2>1, <2>2
<1>7. ASSUME NEW e \in changes'
      PROVE  ChangeStands(e)'
  <2>1. ChangeStands(e) /\ e.user # c.user
    BY <1>1, <1>2 DEF RowStands, ChangeStands
  <2> QED BY <1>2, <1>3, <1>5, <2>1 DEF ChangeStands
<1>8. ASSUME NEW v \in (Names \cup DOMAIN members)'
      PROVE  Pending(v)' \/ ListsRight(v)'
  <2>1. CASE v # c.user
    <3>1. Pending(v) \/ ListsRight(v)
      BY <1>1, <1>2, <1>5, <2>1 DEF RowStands, ChangeStands
    <3>2. Pending(v) => Pending(v)'
      BY <1>2, <2>1 DEF Pending
    <3> QED BY <1>2, <1>4, <2>1, <3>1, <3>2 DEF ListsRight
  <2>2. CASE v = c.user /\ c.op = "add"
    <3>1. {x \in RowsOf(members)' : x[1] = v} = {<<v, c.role>>}
      BY <1>1, <1>2, <2>2 DEF RowsOf, ChangeStands
    <3>2. {x \in Listed : x[1] = v} = {}
      BY <1>1, <2>2 DEF ChangeStands, Names
    <3>3. {x \in Listed' : x[1] = v} = {<<v, c.role>>}
      BY <1>2, <2>2, <3>2 DEF After
    <3> QED BY <3>1, <3>3 DEF ListsRight
  <2>3. CASE v = c.user /\ c.op = "remove"
    <3>1. {x \in RowsOf(members)' : x[1] = v} = {}
      BY <1>1, <1>2, <2>3 DEF RowsOf, ChangeStands
    <3>2. {x \in Listed' : x[1] = v} = {}
      BY <1>2, <2>3 DEF After
    <3> QED BY <3>1, <3>2 DEF ListsRight
  <2> QED BY <1>1, <2>1, <2>2, <2>3
<1> QED BY <1>3, <1>6, <1>7, <1>8 DEF RowStands

\* A removal that found nobody.
LEMMA FailureKeepsRow ==
    ASSUME RowStands, NEW c \in changes, ChangeFails(c), ~ byOthers'
    PROVE  RowStands'
<1>1. ChangeStands(c) /\ c.answer = "404" /\ list # {}
  BY DEF RowStands, ChangeStands, ChangeFails
<1>2. changes' = changes \ {c} /\ UNCHANGED <<members, list, loads, selectedUserId>>
  BY DEF ChangeFails, ChangeEnds
<1>3. Names' = Names /\ Listed' = Listed /\ RowsOf(members)' = RowsOf(members)
  BY <1>2 DEF Names, Listed, RowsOf
<1>4. \A e \in changes' : ChangeStands(e)'
  BY <1>2, <1>3 DEF RowStands, ChangeStands
<1>5. \A v : Pending(v) => Pending(v)'
  BY <1>1, <1>2 DEF Pending
<1>6. \A v : ListsRight(v) => ListsRight(v)'
  BY <1>3 DEF ListsRight
<1>7. \A l \in loads' : LoadStands(l)'
  BY <1>2, <1>3 DEF RowStands, LoadStands
<1> QED BY <1>1, <1>2, <1>3, <1>4, <1>5, <1>6, <1>7 DEF RowStands

\* Every step of the row.
LEMMA MembersKeep ==
    ASSUME MemberInv, section = "members", UNCHANGED section, MembersNext
    PROVE  MemberInv'
<1> SUFFICES ASSUME ~ byOthers', ~ raced'
             PROVE  RowStands'
  BY DEF MemberInv
<1>1. RowStands
  <2>1. ~ byOthers /\ ~ raced
    <3>1. ASSUME HandleExpand PROVE ~ byOthers /\ ~ raced
      <4>1. CASE expanded' /\ list = {}
        BY <3>1, <4>1 DEF HandleExpand
      <4>2. CASE ~ (expanded' /\ list = {})
        BY <3>1, <4>2 DEF HandleExpand
      <4> QED BY <4>1, <4>2
    <3>2. ASSUME NEW l, LoadRead(l) \/ LoadArrives(l) \/ LoadFails(l) PROVE ~ byOthers /\ ~ raced
      BY <3>2 DEF LoadRead, LoadArrives, LoadFails
    <3>3. ASSUME NEW u, Select(u) \/ OthersChangeMember(u) PROVE ~ byOthers /\ ~ raced
      BY <3>3 DEF Select, OthersChangeMember
    <3>4. ASSUME NEW op, NEW u, NEW role, Change(op, u, role), UNCHANGED byOthers
          PROVE  ~ byOthers /\ ~ raced
      BY <3>4 DEF Change
    <3>5. ASSUME NEW c, ServeChange(c) \/ ChangeSucceeds(c) \/ ChangeFails(c)
          PROVE  ~ byOthers /\ ~ raced
      BY <3>5 DEF ServeChange, ChangeSucceeds, ChangeFails
    <3>6. \A u : HandleRemoveMember(u) => Change("remove", u, "member") /\ UNCHANGED byOthers
      BY DEF HandleRemoveMember
    <3>7. \A role : HandleAddMember(role)
                        => Change("add", selectedUserId, role) /\ UNCHANGED byOthers
      BY DEF HandleAddMember
    <3> QED BY <3>1, <3>2, <3>3, <3>4, <3>5, <3>6, <3>7 DEF MembersNext
  <2> QED BY <2>1 DEF MemberInv
<1>2. ASSUME NEW u, HandleRemoveMember(u)
      PROVE  RowStands'
  BY <1>1, <1>2, ChangeKeeps DEF HandleRemoveMember, Visible
<1>3. ASSUME NEW role, HandleAddMember(role)
      PROVE  RowStands'
  <2>1. selectedUserId \notin Names /\ list # {}
    BY <1>1, <1>3 DEF RowStands, HandleAddMember
  <2> QED BY <1>1, <1>3, <2>1, ChangeKeeps DEF HandleAddMember
<1>4. \A u : ~ OthersChangeMember(u)
  BY DEF OthersChangeMember
<1> QED
  BY <1>1, <1>2, <1>3, <1>4, LoadKeeps, ArrivalKeeps, SelectKeeps, ServeKeepsRow, SuccessKeepsRow,
     FailureKeepsRow DEF MembersNext

-----------------------------------------------------------------------------
(* The settings page: all of its sections. *)

\* The page opens with one section mounted.
LEMMA SettingsStart ==
    ASSUME SettingsInit
    PROVE  SettingsInv
<1>1. CASE section \in Tables /\ TablesInit /\ RecordsUnmounted /\ MembersUnmounted
  <2>1. section \notin {"records", "members"}
    BY <1>1 DEF Tables, OpsOf
  <2>2. TableInv
    BY <1>1, FetchStages DEF TablesInit, TableInv, TableAgrees, IsCell, Fresh, Quiet, IsAnswered
  <2> QED BY <1>1, <2>1, <2>2
          DEF SettingsInv, RecordInv, MemberInv, RecordsUnmounted, MembersUnmounted, Closed
<1>2. CASE /\ section = "records" /\ form \in Forms
           /\ TablesUnmounted /\ RecordsInit /\ MembersUnmounted
  <2>1. TableInv
    BY <1>2, FetchStages
       DEF TablesUnmounted, TableInv, TableAgrees, IsCell, Closed, Quiet, IsAnswered
  <2>2. RecordTypes
    BY <1>2, FetchStages DEF RecordTypes, RecordsInit, StartRecords, Fresh, IsCell, IsAnswered
  <2>3. AllSaved
    BY <1>2, FetchStages
       DEF RecordsInit, AllSaved, ViewTrue, ComesTrue, HoldsTrue, Fresh, IsAnswered
  <2> QED BY <1>2, <2>1, <2>2, <2>3
          DEF SettingsInv, RecordInv, RecordsInit, MemberInv, MembersUnmounted
<1>3. CASE section = "members" /\ TablesUnmounted /\ RecordsUnmounted /\ MembersInit
  <2>1. TableInv
    BY <1>3, FetchStages
       DEF TablesUnmounted, TableInv, TableAgrees, IsCell, Closed, Quiet, IsAnswered
  <2>2. RowStands
    BY <1>3 DEF MembersInit, RowStands
  <2> QED BY <1>3, <2>1, <2>2 DEF SettingsInv, RecordInv, MemberInv, RecordsUnmounted, Closed
<1> QED BY <1>1, <1>2, <1>3 DEF SettingsInit

\* A part of the page that does nothing stays as it is.
LEMMA TablesRest ==
    ASSUME TableInv, UNCHANGED tableVars
    PROVE  TableInv'
BY DEF TableInv, TableAgrees, AllTold, tableVars, Quiet, IsAnswered

LEMMA MembersRest ==
    ASSUME MemberInv, UNCHANGED <<section, memberVars>>
    PROVE  MemberInv'
<1>1. RowStands => RowStands'
  <2>1. \A l \in loads : LoadStands(l) => LoadStands(l)'
    BY DEF LoadStands, memberVars, RowsOf
  <2> QED BY <2>1, SameRow DEF RowStands, memberVars, Names, Listed
<1> QED BY <1>1 DEF MemberInv, memberVars

\* Every step is one of the section that is mounted.
LEMMA SettingsSteps ==
    ASSUME SettingsInv, [SettingsNext]_settingsVars
    PROVE  SettingsInv'
<1>1. CASE SettingsNext
  <2>1. TableInv'
    BY <1>1, TablesKeep, TablesRest DEF SettingsInv, SettingsNext
  <2>2. RecordInv'
    BY <1>1, RecordsKeep, RecordsRest DEF SettingsInv, SettingsNext
  <2>3. MemberInv'
    BY <1>1, MembersKeep, MembersRest DEF SettingsInv, SettingsNext
  <2> QED BY <2>1, <2>2, <2>3 DEF SettingsInv
<1>2. CASE UNCHANGED settingsVars
  BY <1>2, TablesRest, RecordsRest, MembersRest DEF SettingsInv, settingsVars
<1> QED BY <1>1, <1>2

\* What is shown is what is stored.
LEMMA SettingsTell ==
    ASSUME SettingsInv
    PROVE  ShownIsStored
<1>1. TableIsTrue
  BY DEF SettingsInv, TableInv, TableIsTrue, TableAgrees, AllTold
<1>2. SavesKept
  BY DEF SettingsInv, RecordInv, SavesKept, Settled, Undisturbed, AllSaved
<1>3. ViewIsTrue
  BY DEF SettingsInv, RecordInv, ViewIsTrue, Settled, Undisturbed, AllSaved, ViewTrue, HoldsTrue,
         Agrees
<1>4. MembersTrue
  <2> SUFFICES ASSUME changes = {}, ~ byOthers, ~ raced, NEW l \in list
               PROVE  l = RowsOf(members)
    BY DEF MembersTrue
  <2>1. RowStands
    BY DEF SettingsInv, MemberInv
  <2>2. l = Listed
    BY <2>1 DEF RowStands
  <2>3. \A u \in Names \cup DOMAIN members : ListsRight(u)
    BY <2>1 DEF RowStands, Pending
  <2>4. \A x \in Listed : x[1] \in Names
    BY DEF Names
  <2>5. \A x \in RowsOf(members) : x[1] \in DOMAIN members
    BY DEF RowsOf
  <2> QED BY <2>2, <2>3, <2>4, <2>5 DEF ListsRight
<1> QED BY <1>1, <1>2, <1>3, <1>4 DEF ShownIsStored

\* Whichever section of the settings page is open, and however the user's requests, their
\* answers and the polls overlap: a table at rest shows the rows of the API, a form at rest
\* the record it edits, which says in every field what the user last saved there, and the
\* row of a project its members with their roles.
THEOREM SettingsAreStored == SettingsSpec => []ShownIsStored
<1>1. SettingsInit => SettingsInv
  BY SettingsStart
<1>2. SettingsInv /\ [SettingsNext]_settingsVars => SettingsInv'
  BY SettingsSteps
<1>3. SettingsInv => ShownIsStored
  BY SettingsTell
<1> QED BY <1>1, <1>2, <1>3, PTL DEF SettingsSpec
================================================================================
