----------------------------- MODULE RateLimiter -----------------------------
(***************************************************************************)
(* The Redis-backed rate limiter of one subject, as the gateway drives it: *)
(* Handler.checkRateLimit asks ratelimitsvc.Service.Check, which resolves  *)
(* the subject's configuration and calls Limiter.Check; the handler (or    *)
(* the stream it commits) later calls Release.                             *)
(*                                                                         *)
(* One action is one round trip to Redis, because Redis serialises the     *)
(* commands (and MULTI blocks) of all gateway processes and nothing else   *)
(* makes Check or Release atomic.  Time is abstracted: an entry may leave  *)
(* the one-minute window, and a key whose TTL is armed may expire, at any  *)
(* moment.  Faults (a Redis error, a lost reply, a killed gateway) are     *)
(* limited by MaxFaults.                                                   *)
(***************************************************************************)
EXTENDS Integers, FiniteSets

CONSTANTS Request,    (* the requests of the subject that can be in flight  *)
          Config,     (* the configurations [rpm, max] a request may        *)
                      (* resolve: the administrator changes them, and every *)
                      (* gateway process caches them (module ConfigCache)   *)
          RPMLimit,   (* an upper bound of the rpm of every configuration   *)
          LongRequests, (* whether requests, or an unbroken sequence of     *)
                      (* them, may last as long as the TTL of the counter   *)
          MaxFaults   (* bound: how many faults may happen                  *)

ASSUME LimiterAssumption ==
    /\ IsFiniteSet(Request) /\ Request # {}
    /\ RPMLimit \in Nat
    /\ Config \subseteq [rpm : 0..RPMLimit, max : Nat] /\ Config # {}
    /\ LongRequests \in BOOLEAN
    /\ MaxFaults \in Nat

VARIABLES
    pc,         (* where each request is                                    *)
    cfg,        (* the configuration each request resolved                  *)
    slot,       (* what the release closure of a running request gives back *)
    window,     (* number of entries in the sorted set ratelimit:rpm:<id>   *)
    count,      (* value of ratelimit:concurrent:<id>, 0 if it is missing   *)
    expiry,     (* whether that key is "missing", lives "forever", or has   *)
                (* a TTL "set"                                              *)
    faults,     (* number of faults so far                                  *)
    leaked,     (* INCRs whose DECR will never be sent                      *)
    unset       (* number of EXPIREs of the key that were lost              *)

counter == <<count, expiry>>
history == <<faults, leaked, unset>>
vars    == <<pc, cfg, slot, window, counter, history>>

(* The next command of a request: "count" is ZREMRANGEBYSCORE+ZCARD, "add" *)
(* is ZADD+EXPIRE, "undo" the DECR after a refused INCR, "del" the DEL of  *)
(* Release.  A "running" request was admitted and has not released.        *)
Phase == {"idle", "count", "add", "incr", "expire", "undo", "running", "del"}

(* "nil" is the nil closure of a failed check (fail open), "unpaid" a      *)
(* closure that DECRs although no INCR was made (an unlimited              *)
(* concurrency), "held" one that DECRs the INCR the request made.          *)
Slot == {"nil", "unpaid", "held"}

TypeOK ==
    /\ pc \in [Request -> Phase]
    /\ cfg \in [Request -> Config]
    /\ slot \in [Request -> Slot]
    /\ window \in Nat
    /\ count \in Int
    /\ expiry \in {"missing", "forever", "set"}
    /\ expiry = "missing" => count = 0
    /\ faults \in 0..MaxFaults /\ leaked \in Nat /\ unset \in Nat

AnyConfig == CHOOSE c \in Config : TRUE

Init ==
    /\ pc = [r \in Request |-> "idle"]
    /\ cfg = [r \in Request |-> AnyConfig]
    /\ slot = [r \in Request |-> "nil"]
    /\ window = 0
    /\ count = 0 /\ expiry = "missing"
    /\ faults = 0 /\ leaked = 0 /\ unset = 0

----------------------------------------------------------------------------

Goto(r, p) == pc' = [pc EXCEPT ![r] = p]

(* The configuration is a local variable of Check: no value is kept. *)
Forget(r) == cfg' = [cfg EXCEPT ![r] = AnyConfig]

(* The request is admitted, and its release closure gives back s. *)
Admit(r, s) ==
    Goto(r, "running") /\ slot' = [slot EXCEPT ![r] = s] /\ Forget(r)

(* The request leaves the limiter. *)
Leave(r) == Goto(r, "idle") /\ slot' = [slot EXCEPT ![r] = "nil"] /\ Forget(r)

(* The request goes on within Check, with the configuration c. *)
Continue(r, p, c) ==
    Goto(r, p) /\ cfg' = [cfg EXCEPT ![r] = c] /\ UNCHANGED slot

(* INCR and DECR create a missing key, without a TTL, and keep a TTL that  *)
(* is there.                                                               *)
AddToKey(d) ==
    /\ count' = count + d
    /\ expiry' = IF expiry = "set" THEN "set" ELSE "forever"

DeleteKey == count' = 0 /\ expiry' = "missing"

----------------------------------------------------------------------------
(* Mutants: wrong variants of actions below, each of which some property   *)
(* must catch.  They are no part of the specification.                     *)

(* The window is full only beyond its limit. *)
CountWindowOffByOne(r) ==
    /\ pc[r] = "count"
    /\ \/ window > cfg[r].rpm /\ Leave(r)
       \/ window <= cfg[r].rpm /\ Continue(r, "add", cfg[r])
    /\ UNCHANGED <<window, counter, history>>

(* One slot too few is given. *)
IncrOffByOne(r) ==
    /\ pc[r] = "incr"
    /\ AddToKey(1)
    /\ \/ count' = 1 /\ Continue(r, "expire", cfg[r])
       \/ count' # 1 /\ count' >= cfg[r].max /\ Continue(r, "undo", cfg[r])
       \/ count' # 1 /\ count' < cfg[r].max /\ Admit(r, "held")
    /\ UNCHANGED <<window, history>>

(* The TTL is never set. *)
ExpireForgotten(r) ==
    /\ pc[r] = "expire"
    /\ Admit(r, "held")
    /\ UNCHANGED <<window, counter, history>>

(* A refused request keeps its INCR. *)
UndoForgotten(r) ==
    /\ pc[r] = "undo"
    /\ Leave(r)
    /\ UNCHANGED <<window, counter, history>>

----------------------------------------------------------------------------

(* Service.Check: the configuration is resolved; without any limit the     *)
(* limiter is not called, but the handler still builds a release closure.  *)
Arrive(r) ==
    /\ pc[r] = "idle"
    /\ \E c \in Config :
        \/ c.rpm = 0 /\ c.max = 0 /\ Admit(r, "unpaid")
        \/ c.rpm > 0 /\ Continue(r, "count", c)
        \/ c.rpm = 0 /\ c.max > 0 /\ Continue(r, "incr", c)
    /\ UNCHANGED <<window, counter, history>>

(* checkRPM, first MULTI: count the entries of the last minute, and refuse *)
(* when the limit is reached.                                              *)
CountWindow(r) ==
    /\ pc[r] = "count"
    /\ \/ window >= cfg[r].rpm /\ Leave(r)
       \/ window < cfg[r].rpm /\ Continue(r, "add", cfg[r])
    /\ UNCHANGED <<window, counter, history>>

(* checkRPM, second MULTI: record this request. *)
AddToWindow(r) ==
    /\ pc[r] = "add"
    /\ window' = window + 1
    /\ \/ cfg[r].max > 0 /\ Continue(r, "incr", cfg[r])
       \/ cfg[r].max = 0 /\ Admit(r, "unpaid")
    /\ UNCHANGED <<counter, history>>

(* acquireConcurrency: INCR, and its reply decides. *)
Incr(r) ==
    /\ pc[r] = "incr"
    /\ AddToKey(1)
    /\ \/ count' = 1 /\ Continue(r, "expire", cfg[r])
       \/ count' # 1 /\ count' > cfg[r].max /\ Continue(r, "undo", cfg[r])
       \/ count' # 1 /\ count' <= cfg[r].max /\ Admit(r, "held")
    /\ UNCHANGED <<window, history>>

(* EXPIRE does nothing to a key that was deleted meanwhile. *)
Expire(r) ==
    /\ pc[r] = "expire"
    /\ expiry' = IF expiry = "missing" THEN "missing" ELSE "set"
    /\ Admit(r, "held")
    /\ UNCHANGED <<window, count, history>>

(* The refused request gives its INCR back and is answered 429. *)
Undo(r) ==
    /\ pc[r] = "undo"
    /\ AddToKey(-1)
    /\ Leave(r)
    /\ UNCHANGED <<window, history>>

(* The handler returns, or its stream ends: Release sends DECR, and DEL if *)
(* the reply is not positive.                                              *)
Release(r) ==
    /\ pc[r] = "running" /\ slot[r] # "nil"
    /\ AddToKey(-1)
    /\ \/ count' > 0 /\ Leave(r)
       \/ count' <= 0 /\ Goto(r, "del") /\ slot' = [slot EXCEPT ![r] = "nil"] /\ Forget(r)
    /\ UNCHANGED <<window, history>>

Delete(r) ==
    /\ pc[r] = "del"
    /\ DeleteKey
    /\ Leave(r)
    /\ UNCHANGED <<window, history>>

(* A request admitted by a failed check has nothing to release. *)
Finish(r) ==
    /\ pc[r] = "running" /\ slot[r] = "nil"
    /\ Leave(r)
    /\ UNCHANGED <<window, counter, history>>

----------------------------------------------------------------------------
(* The requests whose INCR is in the counter, or was when it was deleted,  *)
(* and that still have to DECR it.                                         *)
Outstanding == {r \in Request : \/ pc[r] \in {"expire", "undo"}
                                \/ pc[r] = "running" /\ slot[r] = "held"}

(* Time *)

SlideWindow ==
    /\ window > 0
    /\ window' = window - 1
    /\ UNCHANGED <<pc, cfg, slot, counter, history>>

ExpireKey ==
    /\ LongRequests \/ Outstanding = {}
    /\ expiry = "set"
    /\ DeleteKey
    /\ UNCHANGED <<pc, cfg, slot, window, history>>

----------------------------------------------------------------------------
(* Faults *)

Fault(leaks, lost) ==
    /\ faults < MaxFaults
    /\ faults' = faults + 1
    /\ leaked' = leaked + leaks
    /\ unset' = unset + lost

(* A command of Check fails without effect: Check returns an error and the *)
(* handler lets the request pass.                                          *)
CheckFails(r) ==
    /\ pc[r] \in {"count", "add", "incr"}
    /\ Fault(0, 0)
    /\ Admit(r, "nil")
    /\ UNCHANGED <<window, counter>>

(* As CheckFails, but Redis executed the command and the reply was lost. *)
ReplyLost(r) ==
    /\ \/ /\ pc[r] = "add"
          /\ window' = window + 1
          /\ Fault(0, 0)
          /\ UNCHANGED counter
       \/ /\ pc[r] = "incr"
          /\ AddToKey(1)
          /\ Fault(1, IF count' = 1 THEN 1 ELSE 0)
          /\ UNCHANGED window
    /\ Admit(r, "nil")

(* The error of EXPIRE is ignored: the request goes on without the TTL. *)
ExpireFails(r) ==
    /\ pc[r] = "expire"
    /\ Fault(0, 1)
    /\ Admit(r, "held")
    /\ UNCHANGED <<window, counter>>

(* The gateway is killed, or the DECR or DEL that ends the request fails   *)
(* (their errors are ignored): the request is gone and its INCR stays.     *)
Vanish(r) ==
    /\ pc[r] # "idle"
    /\ Fault(IF r \in Outstanding THEN 1 ELSE 0,
             IF pc[r] = "expire" THEN 1 ELSE 0)
    /\ Leave(r)
    /\ UNCHANGED <<window, counter>>

----------------------------------------------------------------------------

Step(r) ==
    \/ CountWindow(r) \/ AddToWindow(r) \/ Incr(r) \/ Expire(r) \/ Undo(r)
    \/ Release(r) \/ Delete(r) \/ Finish(r)

Next ==
    \/ \E r \in Request :
        \/ Arrive(r) \/ Step(r)
        \/ CheckFails(r) \/ ReplyLost(r) \/ ExpireFails(r) \/ Vanish(r)
    \/ SlideWindow \/ ExpireKey

Spec == Init /\ [][Next]_vars

(* A request that arrived runs to its end (every upstream call has a       *)
(* timeout), and Redis expires keys.  Nothing obliges a client to send a   *)
(* request, a window entry to be observed gone, or a fault to happen.      *)
Fairness == WF_vars(ExpireKey) /\ \A r \in Request : WF_vars(Step(r))

FairSpec == Spec /\ Fairness

----------------------------------------------------------------------------
(* Properties *)

Adders == {r \in Request : pc[r] = "add"}

(* checkRPM counts and records in two transactions, so requests counted    *)
(* together are all recorded.  The overshoot is bounded: the requests      *)
(* recorded in the window, plus those that passed the check and are about  *)
(* to be recorded, exceed the largest rpm by less than the number of       *)
(* concurrent requests.                                                    *)
RPMOvershootBounded ==
    window + Cardinality(Adders) <= RPMLimit + Cardinality(Request) - 1

(* The counter never counts more slots than requests owe a DECR for, plus  *)
(* those lost to faults: refused, failed and released requests take their  *)
(* slot back, whatever DELs and expiries intervene.                        *)
NoPhantomSlot == count <= Cardinality(Outstanding) + leaked

(* acquireConcurrency refuses a request only if at least max slots are     *)
(* taken, or were lost to faults: drift of the counter never locks a       *)
(* subject out, it can only let more in.                                   *)
RefusedOnlyWhenFull ==
    [][\A r \in Request :
          pc[r] = "incr" /\ pc'[r] = "undo"
              => cfg[r].max <= Cardinality(Outstanding) + leaked]_vars

(* "Set TTL on first increment as a safety net": a counter that holds a    *)
(* slot has an expiry, or the request that must set it is about to,        *)
(* unless a fault hit exactly that EXPIRE.                                 *)
SlotsExpire ==
    count >= 1 =>
        \/ expiry = "set"
        \/ unset > 0
        \/ \E r \in Request : pc[r] = "expire"

(* A slot leaked by a fault does not block an otherwise idle subject for   *)
(* ever: again and again the counter is free or some request really owes a *)
(* slot (unless an EXPIRE was lost).                                       *)
LeaksHeal == []<>(unset > 0 \/ Outstanding # {} \/ count <= 0)

Holders == {r \in Request : pc[r] = "running" /\ slot[r] = "held"}

(* "Limiter enforces real-time rate limits (RPM + concurrency)": no more   *)
(* requests hold a slot than the largest configured max.                   *)
ConcurrencyEnforced ==
    \E c \in Config : Cardinality(Holders) <= c.max
=============================================================================
