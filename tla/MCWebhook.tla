---- MODULE MCWebhook ----
(* Instances of Webhook for TLC. *)
EXTENDS Webhook
====
