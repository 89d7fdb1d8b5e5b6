----------------------------- MODULE MCCallGuard ------------------------------
(***************************************************************************)
(* The instances of CallGuard that TLC checks: a session with two          *)
(* concurrent tasks beside a sequential one, in tables with room for one   *)
(* session; and a single sequential session with a long memory.            *)
(***************************************************************************)
EXTENDS CallGuard, TLC

CONSTANTS t1, t2, t3, s1, s2

\* Two calls of one tool, and for the sequential session one of another tool.
CallX == [tool |-> "search", args |-> 1]
CallY == [tool |-> "search", args |-> 2]
CallZ == [tool |-> "fetch", args |-> 1]

MCTwoCalls == {CallX, CallY}
MCThreeCalls == {CallX, CallY, CallZ}

MCSessionOf == (t1 :> s1) @@ (t2 :> s1) @@ (t3 :> s2)
MCSequentialSessionOf == (t1 :> s1)

\* The two tasks of the first session are interchangeable.
MCSymmetry == Permutations({t1, t2})
=============================================================================
