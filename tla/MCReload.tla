------------------------------ MODULE MCReload ------------------------------
(***************************************************************************)
(* Instances of Reload for TLC: a root file that may import one other.     *)
(***************************************************************************)
EXTENDS Reload

\* "a" and "b" stand alone, "imports" needs the other file.
MCImports == [c \in Contents |-> IF c = "imports" THEN Files ELSE {}]

MCHolds == [f \in Files |-> IF f = Root THEN Contents ELSE Contents \cap {"a", "odd", "bad", "empty"}]
=============================================================================
