------------------------- MODULE RateLimiterProofs -------------------------
(***************************************************************************)
(* Proofs about RateLimiter, for every set of requests, configurations and *)
(* number of faults.                                                       *)
(***************************************************************************)
EXTENDS RateLimiter, FiniteSetTheorems, TLAPS

LEMMA AnyConfigType == AnyConfig \in Config
  BY LimiterAssumption DEF AnyConfig

LEMMA ConfigType == \A c \in Config : c.rpm \in 0..RPMLimit /\ c.max \in Nat
  BY LimiterAssumption

LEMMA BoundTypes == RPMLimit \in Nat /\ MaxFaults \in Nat
  BY LimiterAssumption

(* The sets of requests the counting arguments are about are finite, and   *)
(* so have a cardinality.                                                  *)
LEMMA SubsetsFinite ==
  ASSUME NEW S \in SUBSET Request
  PROVE  /\ IsFiniteSet(S)
         /\ Cardinality(S) \in Nat
         /\ Cardinality(S) <= Cardinality(Request)
         /\ Cardinality(Request) \in Nat
  BY LimiterAssumption, FS_Subset, FS_CardinalityType

(* Adding r to a set of requests adds at most one, and removing it removes *)
(* exactly one if it was there.                                            *)
LEMMA AddOne ==
  ASSUME NEW S \in SUBSET Request, NEW r \in Request
  PROVE  /\ r \notin S => Cardinality(S \cup {r}) = Cardinality(S) + 1
         /\ r \in S => Cardinality(S \ {r}) = Cardinality(S) - 1
  BY SubsetsFinite, FS_AddElement, FS_RemoveElement

----------------------------------------------------------------------------

(* Every variable keeps its type, and the record of a missing key its      *)
(* value.                                                                  *)
THEOREM TypeCorrect == Spec => []TypeOK
<1>1. Init => TypeOK
  BY AnyConfigType, BoundTypes DEF Init, TypeOK, Phase, Slot
<1>2. TypeOK /\ [Next]_vars => TypeOK'
  <2> SUFFICES ASSUME TypeOK, [Next]_vars PROVE TypeOK'
    OBVIOUS
  <2> USE AnyConfigType, BoundTypes
      DEF TypeOK, Phase, Slot, counter, history
  <2>1. ASSUME NEW r \in Request, Arrive(r) PROVE TypeOK'
    BY <2>1 DEF Arrive, Admit, Continue, Goto, Forget
  <2>2. ASSUME NEW r \in Request, Step(r) PROVE TypeOK'
    <3>1. CASE CountWindow(r)
      BY <3>1 DEF CountWindow, Leave, Continue, Goto, Forget
    <3>2. CASE AddToWindow(r)
      BY <3>2 DEF AddToWindow, Admit, Continue, Goto, Forget
    <3>3. CASE Incr(r)
      BY <3>3 DEF Incr, Admit, Continue, Goto, Forget, AddToKey
    <3>4. CASE Expire(r)
      BY <3>4 DEF Expire, Admit, Goto, Forget
    <3>5. CASE Undo(r)
      BY <3>5 DEF Undo, Leave, Goto, Forget, AddToKey
    <3>6. CASE Release(r)
      BY <3>6 DEF Release, Leave, Goto, Forget, AddToKey
    <3>7. CASE Delete(r)
      BY <3>7 DEF Delete, Leave, Goto, Forget, DeleteKey
    <3>8. CASE Finish(r)
      BY <3>8 DEF Finish, Leave, Goto, Forget
    <3> QED
      BY <2>2, <3>1, <3>2, <3>3, <3>4, <3>5, <3>6, <3>7, <3>8 DEF Step
  <2>3. ASSUME NEW r \in Request, CheckFails(r) PROVE TypeOK'
    BY <2>3 DEF CheckFails, Admit, Goto, Forget, Fault
  <2>4. ASSUME NEW r \in Request, ReplyLost(r) PROVE TypeOK'
    BY <2>4 DEF ReplyLost, Admit, Goto, Forget, Fault, AddToKey
  <2>5. ASSUME NEW r \in Request, ExpireFails(r) PROVE TypeOK'
    BY <2>5 DEF ExpireFails, Admit, Goto, Forget, Fault
  <2>6. ASSUME NEW r \in Request, Vanish(r) PROVE TypeOK'
    BY <2>6 DEF Vanish, Leave, Goto, Forget, Fault
  <2>7. CASE SlideWindow
    BY <2>7 DEF SlideWindow
  <2>8. CASE ExpireKey
    BY <2>8 DEF ExpireKey, DeleteKey
  <2>9. CASE UNCHANGED vars
    BY <2>9 DEF vars
  <2> QED
    BY <2>1, <2>2, <2>3, <2>4, <2>5, <2>6, <2>7, <2>8, <2>9 DEF Next
<1> QED
  BY <1>1, <1>2, PTL DEF Spec

----------------------------------------------------------------------------

(* How a step of r alone changes the set of requests that owe a DECR: r    *)
(* may enter or leave it.                                                  *)
Change(r) == (IF r \in Outstanding' THEN 1 ELSE 0)
             - (IF r \in Outstanding THEN 1 ELSE 0)

OnlyMoves(r) ==
    \A q \in Request \ {r} : pc'[q] = pc[q] /\ slot'[q] = slot[q]

LEMMA OutstandingChange ==
  ASSUME NEW r \in Request, OnlyMoves(r)
  PROVE  Cardinality(Outstanding') = Cardinality(Outstanding) + Change(r)
<1>1. Outstanding \in SUBSET Request /\ Outstanding' \in SUBSET Request
  BY DEF Outstanding
<1>2. Outstanding' \ {r} = Outstanding \ {r}
  BY DEF Outstanding, OnlyMoves
<1>3. CASE r \in Outstanding <=> r \in Outstanding'
  <2>1. Outstanding' = Outstanding
    BY <1>2, <1>3
  <2>2. Change(r) = 0
    BY <1>3 DEF Change
  <2> QED
    BY <2>1, <2>2, <1>1, SubsetsFinite
<1>4. CASE r \notin Outstanding /\ r \in Outstanding'
  <2>1. Outstanding' = Outstanding \cup {r}
    BY <1>2, <1>4
  <2>2. Change(r) = 1
    BY <1>4 DEF Change
  <2> QED
    BY <2>1, <2>2, <1>1, <1>4, AddOne
<1>5. CASE r \in Outstanding /\ r \notin Outstanding'
  <2>1. Outstanding' = Outstanding \ {r}
    BY <1>2, <1>5
  <2>2. Change(r) = -1
    BY <1>5 DEF Change
  <2> QED
    BY <2>1, <2>2, <1>1, <1>5, AddOne, SubsetsFinite
<1> QED
  BY <1>3, <1>4, <1>5

(* NoPhantomSlot is inductive on top of the types: each action changes     *)
(* both sides by the same amount, or lowers the counter.                   *)
LEMMA PhantomStep == TypeOK /\ NoPhantomSlot /\ [Next]_vars => NoPhantomSlot'
<1> SUFFICES ASSUME TypeOK, NoPhantomSlot, [Next]_vars PROVE NoPhantomSlot'
  OBVIOUS
<1>0. /\ Cardinality(Outstanding) \in Nat
      /\ Cardinality(Outstanding') \in Nat
  BY SubsetsFinite DEF Outstanding
<1> USE DEF TypeOK
<1>1. ASSUME NEW r \in Request, OnlyMoves(r),
             leaked' \in Nat,
             \/ count' \in Int /\ count' <= count + Change(r) + leaked' - leaked
             \/ count' = 0
      PROVE  NoPhantomSlot'
  <2>1. Change(r) \in Int
    BY DEF Change
  <2> QED
    BY <1>0, <1>1, <2>1, OutstandingChange DEF NoPhantomSlot
<1>2. ASSUME NEW r \in Request, Arrive(r) PROVE NoPhantomSlot'
  BY <1>1, <1>2 DEF Arrive, Admit, Continue, Goto, Forget, Outstanding, Change,
     OnlyMoves, counter, history
<1>3. ASSUME NEW r \in Request, CountWindow(r) PROVE NoPhantomSlot'
  BY <1>1, <1>3 DEF CountWindow, Leave, Continue, Goto, Outstanding, Change,
     OnlyMoves, counter, history
<1>4. ASSUME NEW r \in Request, AddToWindow(r) PROVE NoPhantomSlot'
  BY <1>1, <1>4 DEF AddToWindow, Admit, Continue, Goto, Outstanding, Change,
     OnlyMoves, counter, history
<1>5. ASSUME NEW r \in Request, Incr(r) PROVE NoPhantomSlot'
  BY <1>1, <1>5 DEF Incr, AddToKey, Admit, Continue, Goto, Outstanding, Change,
     OnlyMoves, history
<1>6. ASSUME NEW r \in Request, Expire(r) PROVE NoPhantomSlot'
  BY <1>1, <1>6 DEF Expire, Admit, Goto, Outstanding, Change, OnlyMoves, history
<1>7. ASSUME NEW r \in Request, Undo(r) PROVE NoPhantomSlot'
  BY <1>1, <1>7 DEF Undo, AddToKey, Leave, Goto, Outstanding, Change, OnlyMoves,
     history
<1>8. ASSUME NEW r \in Request, Release(r) PROVE NoPhantomSlot'
  BY <1>1, <1>8 DEF Release, AddToKey, Leave, Goto, Outstanding, Change,
     OnlyMoves, history
<1>9. ASSUME NEW r \in Request, Delete(r) PROVE NoPhantomSlot'
  BY <1>1, <1>9 DEF Delete, DeleteKey, Leave, Goto, OnlyMoves, history
<1>10. ASSUME NEW r \in Request, Finish(r) PROVE NoPhantomSlot'
  BY <1>1, <1>10 DEF Finish, Leave, Goto, Outstanding, Change, OnlyMoves,
     counter, history
<1>11. ASSUME NEW r \in Request, CheckFails(r) PROVE NoPhantomSlot'
  BY <1>1, <1>11 DEF CheckFails, Fault, Admit, Goto, Outstanding, Change,
     OnlyMoves, counter
<1>12. ASSUME NEW r \in Request, ReplyLost(r) PROVE NoPhantomSlot'
  BY <1>1, <1>12 DEF ReplyLost, Fault, AddToKey, Admit, Goto, Outstanding,
     Change, OnlyMoves, counter
<1>13. ASSUME NEW r \in Request, ExpireFails(r) PROVE NoPhantomSlot'
  BY <1>1, <1>13 DEF ExpireFails, Fault, Admit, Goto, Outstanding, Change,
     OnlyMoves, counter
<1>14. ASSUME NEW r \in Request, Vanish(r) PROVE NoPhantomSlot'
  BY <1>1, <1>14 DEF Vanish, Fault, Leave, Goto, Outstanding, Change,
     OnlyMoves, counter
<1>15. CASE ExpireKey
  BY <1>0, <1>15 DEF ExpireKey, DeleteKey, history, NoPhantomSlot
<1>16. CASE SlideWindow \/ UNCHANGED vars
  <2>1. UNCHANGED <<pc, slot, count, leaked>>
    BY <1>16 DEF SlideWindow, vars, counter, history
  <2> QED
    BY <2>1 DEF NoPhantomSlot, Outstanding
<1> QED
  BY <1>2, <1>3, <1>4, <1>5, <1>6, <1>7, <1>8, <1>9, <1>10, <1>11, <1>12,
     <1>13, <1>14, <1>15, <1>16 DEF Next, Step

(* The concurrency counter counts no slot that nobody owes. *)
THEOREM PhantomFree == Spec => []NoPhantomSlot
<1>1. Init => NoPhantomSlot
  BY SubsetsFinite DEF Init, NoPhantomSlot, Outstanding
<1> QED
  BY <1>1, PhantomStep, TypeCorrect, PTL DEF Spec

(* A request is refused for concurrency only when max slots are really     *)
(* owed or lost.                                                           *)
THEOREM RefusalsJustified == Spec => RefusedOnlyWhenFull
<1>1. ASSUME TypeOK, NoPhantomSlot, Next, NEW r \in Request,
             pc[r] = "incr", pc'[r] = "undo"
      PROVE  cfg[r].max <= Cardinality(Outstanding) + leaked
  <2>0. Cardinality(Outstanding) \in Nat /\ cfg[r].max \in Nat
    BY <1>1, SubsetsFinite, ConfigType DEF Outstanding, TypeOK
  <2>1. PICK q \in Request : Incr(q) /\ q = r
    BY <1>1 DEF Next, Step, Arrive, CountWindow, AddToWindow, Incr, Expire,
       Undo, Release, Delete, Finish, CheckFails, ReplyLost, ExpireFails,
       Vanish, SlideWindow, ExpireKey, Admit, Leave, Continue, Goto, TypeOK
  <2>2. count + 1 > cfg[r].max
    BY <1>1, <2>1 DEF Incr, AddToKey, Admit, Continue, Goto, TypeOK
  <2> QED
    BY <1>1, <2>0, <2>2 DEF NoPhantomSlot, TypeOK
<1>2. TypeOK /\ NoPhantomSlot /\ [Next]_vars
        => [\A r \in Request : pc[r] = "incr" /\ pc'[r] = "undo"
              => cfg[r].max <= Cardinality(Outstanding) + leaked]_vars
  BY <1>1
<1> QED
  BY <1>2, PhantomFree, TypeCorrect, PTL DEF Spec, RefusedOnlyWhenFull

----------------------------------------------------------------------------

(* The sum of the recorded requests and those about to be recorded grows   *)
(* only when a request passes the check, and then the window is below rpm  *)
(* and at most every request is about to be recorded.                      *)
LEMMA OvershootStep ==
  TypeOK /\ RPMOvershootBounded /\ [Next]_vars => RPMOvershootBounded'
<1> SUFFICES ASSUME TypeOK, RPMOvershootBounded, [Next]_vars
             PROVE  RPMOvershootBounded'
  OBVIOUS
<1>0. /\ Cardinality(Adders) \in Nat /\ Cardinality(Adders') \in Nat
      /\ Cardinality(Adders') <= Cardinality(Request)
      /\ Cardinality(Request) \in Nat
      /\ window \in Nat /\ RPMLimit \in Nat
  BY SubsetsFinite, BoundTypes DEF Adders, TypeOK
<1>1. ASSUME window' \in Nat, window' <= window, Adders' \subseteq Adders
      PROVE  RPMOvershootBounded'
  <2>1. Cardinality(Adders') <= Cardinality(Adders)
    BY <1>1, SubsetsFinite, FS_Subset DEF Adders
  <2> QED
    BY <1>0, <1>1, <2>1 DEF RPMOvershootBounded
<1>2. ASSUME NEW r \in Request, pc[r] = "add", window' = window + 1,
             NEW p \in Phase \ {"add"}, pc' = [pc EXCEPT ![r] = p]
      PROVE  RPMOvershootBounded'
  <2>1. r \in Adders /\ Adders' = Adders \ {r}
    BY <1>2 DEF Adders, TypeOK
  <2>2. Cardinality(Adders') = Cardinality(Adders) - 1
    BY <2>1, AddOne DEF Adders
  <2> QED
    BY <1>0, <1>2, <2>2 DEF RPMOvershootBounded
<1>3. ASSUME NEW r \in Request, CountWindow(r) PROVE RPMOvershootBounded'
  <2>1. CASE Leave(r)
    BY <1>1, <1>3, <2>1 DEF CountWindow, Leave, Goto, Adders, TypeOK
  <2>2. CASE window < cfg[r].rpm /\ window' = window
    <3>1. cfg[r].rpm \in 0..RPMLimit
      BY ConfigType DEF TypeOK
    <3>2. window + 1 <= RPMLimit
      BY <1>0, <2>2, <3>1
    <3> QED
      BY <1>0, <2>2, <3>2 DEF RPMOvershootBounded
  <2> QED
    BY <1>3, <2>1, <2>2 DEF CountWindow
<1>4. ASSUME NEW r \in Request, AddToWindow(r) PROVE RPMOvershootBounded'
  BY <1>2, <1>4 DEF AddToWindow, Admit, Continue, Goto, Phase
<1>5. ASSUME NEW r \in Request, ReplyLost(r) PROVE RPMOvershootBounded'
  <2>1. CASE pc[r] = "add"
    BY <1>2, <1>5, <2>1 DEF ReplyLost, Admit, Goto, Phase
  <2>2. CASE pc[r] = "incr"
    BY <1>0, <1>1, <1>5, <2>2 DEF ReplyLost, Admit, Goto, TypeOK, Adders
  <2> QED
    BY <1>5, <2>1, <2>2 DEF ReplyLost
<1>6. ASSUME NEW r \in Request,
             \/ Arrive(r) \/ Incr(r) \/ Expire(r) \/ Undo(r) \/ Release(r)
             \/ Delete(r) \/ Finish(r)
             \/ CheckFails(r) \/ ExpireFails(r) \/ Vanish(r)
      PROVE  RPMOvershootBounded'
  <2>1. window' = window
    BY <1>6 DEF Arrive, Incr, Expire, Undo, Release, Delete, Finish,
       CheckFails, ExpireFails, Vanish
  <2>2. \E p \in Phase \ {"add"} : pc' = [pc EXCEPT ![r] = p]
    BY <1>6 DEF Arrive, Incr, Expire, Undo, Release, Delete, Finish,
       CheckFails, ExpireFails, Vanish, Admit, Leave, Continue, Goto, Phase
  <2>3. Adders' \subseteq Adders
    BY <2>2 DEF Adders, TypeOK
  <2> QED
    BY <1>0, <1>1, <2>1, <2>3
<1>7. CASE SlideWindow \/ ExpireKey \/ UNCHANGED vars
  BY <1>0, <1>1, <1>7 DEF SlideWindow, ExpireKey, vars, Adders
<1> QED
  BY <1>3, <1>4, <1>5, <1>6, <1>7 DEF Next, Step

(* At most |Request| - 1 requests beyond the largest rpm enter one window. *)
THEOREM OvershootBounded == Spec => []RPMOvershootBounded
<1>1. Init => RPMOvershootBounded
  <2>1. ASSUME Init PROVE Adders = {}
    BY <2>1 DEF Init, Adders
  <2>2. Cardinality(Request) \in Nat /\ Cardinality(Request) # 0
    BY SubsetsFinite, FS_EmptySet, LimiterAssumption
  <2> QED
    BY <2>1, <2>2, FS_EmptySet, BoundTypes DEF Init, RPMOvershootBounded
<1> QED
  BY <1>1, OvershootStep, TypeCorrect, PTL DEF Spec

----------------------------------------------------------------------------

(* A positive counter came from an INCR that returned 1, whose request     *)
(* sets the TTL before it does anything else.                              *)
LEMMA SlotsExpireStep == TypeOK /\ SlotsExpire /\ [Next]_vars => SlotsExpire'
<1> SUFFICES ASSUME TypeOK, SlotsExpire, [Next]_vars PROVE SlotsExpire'
  OBVIOUS
<1> USE DEF TypeOK, SlotsExpire
<1>1. ASSUME NEW r \in Request,
             \A q \in Request : pc[q] = "expire" => pc'[q] = "expire",
             count' \in Int, count' <= count, unset' = unset,
             expiry = "set" => expiry' = "set"
      PROVE  SlotsExpire'
  BY <1>1
<1>2. ASSUME NEW r \in Request,
             \/ Arrive(r) \/ CountWindow(r) \/ AddToWindow(r) \/ Finish(r)
             \/ Undo(r) \/ Release(r) \/ CheckFails(r)
      PROVE  SlotsExpire'
  <2>1. /\ pc[r] # "expire"
        /\ \E p \in Phase : pc' = [pc EXCEPT ![r] = p]
        /\ unset' = unset
    BY <1>2 DEF Arrive, CountWindow, AddToWindow, Finish, Undo, Release,
       CheckFails, Fault, Admit, Leave, Continue, Goto, history, Phase
  <2>2. /\ count' \in Int /\ count' <= count
        /\ expiry = "set" => expiry' = "set"
    BY <1>2 DEF Arrive, CountWindow, AddToWindow, Finish, Undo, Release,
       CheckFails, AddToKey, counter
  <2> QED
    BY <1>1, <2>1, <2>2
<1>3. ASSUME NEW r \in Request, Incr(r) PROVE SlotsExpire'
  <2>1. CASE count' = 1
    BY <1>3, <2>1 DEF Incr, Continue, Goto, Admit, AddToKey
  <2>2. CASE count' # 1
    BY <1>3, <2>2 DEF Incr, Continue, Goto, Admit, AddToKey, history
  <2> QED
    BY <2>1, <2>2
<1>4. ASSUME NEW r \in Request, Expire(r) PROVE SlotsExpire'
  BY <1>4 DEF Expire, Admit, Goto, history
<1>5. ASSUME NEW r \in Request, ReplyLost(r) PROVE SlotsExpire'
  BY <1>5 DEF ReplyLost, Fault, Admit, Goto, AddToKey, counter
<1>6. ASSUME NEW r \in Request, ExpireFails(r) \/ Vanish(r) PROVE SlotsExpire'
  BY <1>6 DEF ExpireFails, Vanish, Fault, Admit, Leave, Goto, counter
<1>7. CASE ExpireKey \/ \E r \in Request : Delete(r)
  BY <1>7 DEF ExpireKey, Delete, DeleteKey
<1>8. CASE SlideWindow \/ UNCHANGED vars
  BY <1>8 DEF SlideWindow, vars, counter, history
<1> QED
  BY <1>2, <1>3, <1>4, <1>5, <1>6, <1>7, <1>8 DEF Next, Step

(* A counter that holds a slot has a TTL, is about to get one, or lost it  *)
(* to a fault.                                                             *)
THEOREM SafetyNet == Spec => []SlotsExpire
<1>1. Init => SlotsExpire
  BY DEF Init, SlotsExpire
<1> QED
  BY <1>1, SlotsExpireStep, TypeCorrect, PTL DEF Spec
=============================================================================
