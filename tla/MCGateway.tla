---- MODULE MCGateway ----
(* Instances of Gateway for TLC. *)
EXTENDS Gateway, TLC

RequestSymmetry == Permutations(Request)
KeySymmetry     == Permutations(Key)
Symmetry        == RequestSymmetry \cup KeySymmetry
====
