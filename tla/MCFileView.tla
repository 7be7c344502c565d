----------------------------- MODULE MCFileView -----------------------------
(* An instance of FileView: texts other than the empty one are alike.        *)
EXTENDS FileView, TLC

CONSTANTS x, y, file, other

OneAtATime == {Cares} \cup {Cares \ {what} : what \in Cares}
SettersOnly == {Cares \ {"texts"}}

Symmetry == Permutations({x, y}) \cup Permutations({file, other})
=============================================================================
