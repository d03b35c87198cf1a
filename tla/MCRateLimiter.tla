---- MODULE MCRateLimiter ----
(* Instances of RateLimiter for TLC. *)
EXTENDS RateLimiter

(* A limited subject whose configuration the administrator also widens,    *)
(* restricts to concurrency only, and lifts entirely.                      *)
MixedConfig == { [rpm |-> 2, max |-> 1], [rpm |-> 0, max |-> 2],
                 [rpm |-> 0, max |-> 0] }

(* One configuration, never changed. *)
SteadyConfig == { [rpm |-> 0, max |-> 1] }
====
