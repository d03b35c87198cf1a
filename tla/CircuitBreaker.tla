--------------------------- MODULE CircuitBreaker ---------------------------
(***************************************************************************)
(* What the key health tracker promises, as a circuit breaker per key: a   *)
(* key rests after Threshold errors without a success between them, until  *)
(* Rest units of time have passed since its last error or a request on it  *)
(* succeeds; after that, and before its next success, an error may put it  *)
(* to rest at once.  A permanent error stops a key for ever.               *)
(***************************************************************************)
EXTENDS Naturals

CONSTANTS Key,        (* the provider keys                                  *)
          Threshold,  (* healthErrorThreshold, above 0                      *)
          Rest        (* healthBlacklistDuration, above 0                   *)

VARIABLES status,  (* "closed": in use; "resting"; "dead"                   *)
          streak,  (* the errors since the last success, up to Threshold    *)
          cool     (* the time since the last error, up to Rest             *)

vars == <<status, streak, cool>>

Init == /\ status = [k \in Key |-> "closed"]
        /\ streak = [k \in Key |-> 0]
        /\ cool = [k \in Key |-> Rest]

Next1(n, bound) == IF n < bound THEN n + 1 ELSE bound

(* The error that completes a row of Threshold puts the key to rest; one   *)
(* of a longer row may, when the key had rested before.                    *)
AfterError(k, permanent) ==
    IF permanent \/ status[k] = "dead" THEN {"dead"}
    ELSE IF status[k] = "resting" \/ streak[k] + 1 = Threshold THEN {"resting"}
    ELSE IF streak[k] < Threshold THEN {"closed"} ELSE {"closed", "resting"}

Fail(k, permanent) ==
    /\ \E s \in AfterError(k, permanent) : status' = [status EXCEPT ![k] = s]
    /\ streak' = [streak EXCEPT ![k] = Next1(@, Threshold)]
    /\ cool' = [cool EXCEPT ![k] = 0]

Succeed(k) ==
    /\ status' = [status EXCEPT ![k] = IF @ = "dead" THEN "dead" ELSE "closed"]
    /\ streak' = [streak EXCEPT ![k] = 0]
    /\ UNCHANGED cool

Tick ==
    /\ cool' = [k \in Key |-> Next1(cool[k], Rest)]
    /\ status' = [k \in Key |-> IF status[k] = "resting" /\ cool[k] + 1 >= Rest
                                THEN "closed" ELSE status[k]]
    /\ UNCHANGED streak

Next == \/ \E k \in Key : Succeed(k) \/ \E permanent \in BOOLEAN : Fail(k, permanent)
        \/ Tick

Spec == Init /\ [][Next]_vars
=============================================================================
