----------------------------- MODULE MCLivePage -------------------------------
(* The live page for TLC: a session of a project and one of none, and a queue
   of one event. *)
EXTENDS LivePage

MCSessions == {"s1", "s2"}
MCScopeOf  == [s1 |-> "p", s2 |-> Unscoped]
MCProjects == {"p", Everything}
=============================================================================
