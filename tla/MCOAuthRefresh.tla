---- MODULE MCOAuthRefresh ----
(* Instances of OAuthRefresh for TLC. *)
EXTENDS OAuthRefresh, TLC

(* Requests differ in nothing but their name. *)
ForcedSymmetry == Permutations(Forced)
====
