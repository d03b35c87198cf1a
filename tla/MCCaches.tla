------------------------------ MODULE MCCaches ------------------------------
(* Instances of Caches for TLC. *)
EXTENDS Caches
=============================================================================
