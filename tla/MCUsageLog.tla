---- MODULE MCUsageLog ----
(* Instances of UsageLog for TLC. *)
EXTENDS UsageLog
====
