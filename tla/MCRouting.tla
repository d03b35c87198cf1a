----------------------------- MODULE MCRouting -----------------------------
EXTENDS Routing

CONSTANTS k1, k2, k3, k4, p1, p2, p3, m1, m2, m3

MCOwner == (k1 :> p1) @@ (k2 :> p1) @@ (k3 :> p2) @@ (k4 :> p2)

MCPlace == (k1 :> 1) @@ (k2 :> 2) @@ (k3 :> 3) @@ (k4 :> 4)

Row(n, m, p, price) ==
    [id |-> n, model |-> m, provider |-> p, price |-> price, status |-> "active"]

(* The fallback is free; of the model asked for, one mapping has no price. *)
MCInitMappings == <<Row(1, m1, p1, None), Row(2, m1, p2, 1), Row(3, m2, p2, 0)>>

MCInitFallbacks == {[model |-> m1, to |-> m2, priority |-> 0]}
=============================================================================
