---------------------------- MODULE MCSchemaDrift -----------------------------
(* Schema drift for TLC: two checkers, each without a project or in one, and a
   server whose tool requires its parameter at first. *)
EXTENDS SchemaDrift

MCFirstTools == [t \in Tools |-> [type |-> [p \in Params |-> "int"], required |-> Params]]
=============================================================================
