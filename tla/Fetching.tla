----------------------------- MODULE Fetching ---------------------------------
(***************************************************************************)
(* What a page of the dashboard holds of one address of the API: the last  *)
(* answer, and the request that is under way.  The pages fetch with the    *)
(* SWR library: a poll, a remount and mutate() ask again, and only the     *)
(* answer to the latest request is kept; an answer that fails changes      *)
(* nothing that is shown.  The answer says what the server held when it    *)
(* read the request, which may be long ago when it arrives.                *)
(*                                                                         *)
(* data is a set: empty before the first answer, then of one element.      *)
(***************************************************************************)

Idle        == [stage |-> "idle"]
Sent        == [stage |-> "sent"]
Answered(d) == [stage |-> "answered", data |-> d]

Fresh     == [data |-> {}, fetch |-> Sent]      \* a page asks when it opens
Closed    == [data |-> {}, fetch |-> Idle]      \* an address no page has asked for
Asking(c) == [c EXCEPT !.fetch = Sent]          \* drops an older request
Joining(c) == IF c.fetch = Idle THEN Asking(c) ELSE c   \* shares the one under way
Reading(c, d) == [c EXCEPT !.fetch = Answered(d)]
Arrived(c) == [data |-> {c.fetch.data}, fetch |-> Idle]
Lost(c)    == [c EXCEPT !.fetch = Idle]

Quiet(c)      == c.fetch = Idle
IsSent(c)     == c.fetch = Sent
IsAnswered(c) == c.fetch.stage = "answered"
Loaded(c)     == c.data # {}
Data(c)       == CHOOSE d \in c.data : TRUE     \* of a loaded one
=============================================================================
