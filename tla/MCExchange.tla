----------------------------- MODULE MCExchange -----------------------------
(* The instance is in the cfg: every protocol and every endpoint. *)
EXTENDS Exchange
=============================================================================
