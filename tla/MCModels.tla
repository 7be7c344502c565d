------------------------------ MODULE MCModels ------------------------------
(* An instance of Models: one of the keys has values with different data.    *)
EXTENDS Models, TLC

CONSTANTS a, b, c

MCValues == [key : {a}, data : {1, 2}] \cup [key : {b, c}, data : {1}]
Symmetry == Permutations({b, c})
=============================================================================
