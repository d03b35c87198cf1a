--------------------------- MODULE RequestPromise ---------------------------
(***************************************************************************)
(* What the gateway promises the rate limiter about every request it       *)
(* serves: a request admitted with a concurrency slot holds it for as long *)
(* as it is being served, and gives it back exactly once, after its answer *)
(* (the last byte of a stream included) has been sent.                     *)
(***************************************************************************)
CONSTANT Request

VARIABLES stage,  (* "out" of the gateway, being "served", or "answered"    *)
          held    (* the requests that hold a concurrency slot              *)

vars == <<stage, held>>

TypeOK == stage \in [Request -> {"out", "served", "answered"}]
          /\ held \subseteq Request

Init == stage = [r \in Request |-> "out"] /\ held = {}

(* A request that the limiter did not count (no limiter, or a failed       *)
(* check) is served without a slot.                                        *)
Accept(r) ==
    /\ stage[r] = "out" /\ r \notin held
    /\ stage' = [stage EXCEPT ![r] = "served"]
    /\ held' \in {held, held \cup {r}}

Answer(r) ==
    /\ stage[r] = "served"
    /\ stage' = [stage EXCEPT ![r] = "answered"]
    /\ UNCHANGED held

GiveBack(r) ==
    /\ stage[r] = "answered" /\ r \in held
    /\ held' = held \ {r}
    /\ UNCHANGED stage

Leave(r) ==
    /\ stage[r] = "answered" /\ r \notin held
    /\ stage' = [stage EXCEPT ![r] = "out"]
    /\ UNCHANGED held

Next == \E r \in Request : Accept(r) \/ Answer(r) \/ GiveBack(r) \/ Leave(r)

Spec == Init /\ [][Next]_vars
=============================================================================
