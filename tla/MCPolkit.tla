------------------------------ MODULE MCPolkit ------------------------------
(***************************************************************************)
(* An instance of Polkit for TLC: an agent, and one of a later generation  *)
(* with another path.                                                      *)
(***************************************************************************)
EXTENDS Polkit

MCGeneration == [a \in Agents |-> IF a = "new" THEN 2 ELSE 1]
MCPath == [a \in Agents |-> IF a = "new" THEN "/other" ELSE "/default"]

=============================================================================
