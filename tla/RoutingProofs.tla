--------------------------- MODULE RoutingProofs ---------------------------
(***************************************************************************)
(* Router.ResolveAll, for any catalog, any number of keys and of reports,  *)
(* any thresholds and whatever administrators and other requests do        *)
(* meanwhile: the key health tracker is a circuit breaker, the key picked  *)
(* is justified by the records, the routes are those of the catalog, and   *)
(* they are sorted as the strategy says.                                   *)
(***************************************************************************)
EXTENDS Routing, FoldLemmas, FiniteSetTheorems

(* A record of the tracker, and what its count of errors has to do with    *)
(* the errors since the last success: the counts agree until the breaker   *)
(* has opened once; then the record may have forgotten some.               *)
IsRecord(h) ==
    /\ h = [errors |-> h.errors, rested |-> h.rested, dead |-> h.dead, history |-> h.history]
    /\ h.errors \in Nat /\ h.rested \in 0..Rest /\ h.dead \in BOOLEAN

Fit(h, n) == n \in 0..Threshold /\ (h.errors = n \/ n = Threshold)

TrackerInv ==
    /\ health = [k \in Key |-> health[k]] /\ streak = [k \in Key |-> streak[k]]
    /\ \A k \in Key : IsRecord(health[k]) /\ Fit(health[k], streak[k])

(* What no report and no passage of time may change about a key.           *)
Alike(g, h, n) == IsRecord(g) /\ Fit(g, n) /\ g.rested = h.rested /\ KeyStatus(g) = KeyStatus(h)

(* Every step leaves the tracker alone or has one of its effects.          *)
LeavesHealth == health' = health /\ streak' = streak
LooksAt(k)   == /\ health' = [health EXCEPT ![k] = AfterIsHealthy(health[k])]
                /\ streak' = streak
Prunes(k)    == /\ health' = [health EXCEPT ![k].history = PruneHistory(@)]
                /\ streak' = streak

LEMMA Effects ==
    ASSUME [Next]_vars
    PROVE \/ LeavesHealth \/ (\E k : LooksAt(k)) \/ (\E k : Prunes(k))
          \/ Tick
          \/ (\E k \in Key, latency \in Latency : ReportSuccess(k, latency))
          \/ (\E k \in Key, permanent \in BOOLEAN : ReportError(k, permanent))
<1>1. CASE UNCHANGED vars
  BY <1>1 DEF vars, LeavesHealth
<1>2. CASE Tracker
  <2>1. ASSUME NEW k \in Key, Consult(k) PROVE LooksAt(k)
    BY <2>1 DEF Consult, LooksAt
  <2> QED BY <1>2, <2>1 DEF Tracker
<1>3. CASE Administration
  <2>1. ASSUME Edit PROVE LeavesHealth
    BY <2>1 DEF Edit, LeavesHealth
  <2>2. Edit
    BY <1>3 DEF Administration, CreateProvider, UpdateProvider, DeleteProvider, CreateModel,
                UpdateModel, DeleteModel, CreateMapping, UpdateMapping, DeleteMapping,
                CreateFallback, DeleteFallback, CreateKey, UpdateKey, DeleteKey
  <2> QED BY <2>1, <2>2
<1>4. CASE Resolve
  <2>1. ASSUME NEW m \in Model, Start(m) PROVE LeavesHealth
    BY <2>1 DEF Start, World, LeavesHealth
  <2>2. CASE ListMappings
    BY <2>2 DEF ListMappings, World, LeavesHealth
  <2>3. CASE FindProvider
    BY <2>3 DEF FindProvider, World, LeavesHealth
  <2>4. CASE ListKeys
    BY <2>4 DEF ListKeys, World, LeavesHealth
  <2>5. CASE PickHealthy
    <3>1. LooksAt(NextKey)
      BY <2>5 DEF PickHealthy, World, LooksAt
    <3> QED BY <3>1
  <2>6. CASE PickPenalty
    <3>1. Prunes(NextKey)
      BY <2>6 DEF PickPenalty, Pruned, World, Prunes
    <3> QED BY <3>1
  <2>7. CASE DecryptToken
    BY <2>7 DEF DecryptToken, World, LeavesHealth
  <2>8. CASE ListFallbacks
    BY <2>8 DEF ListFallbacks, World, LeavesHealth
  <2>9. CASE ApplyStrategy
    BY <2>9 DEF ApplyStrategy, World, LeavesHealth
  <2>10. CASE ReadLeft
    <3>1. Prunes(routes[j].key)
      BY <2>10 DEF ReadLeft, Pruned, World, Prunes
    <3> QED BY <3>1
  <2>11. CASE CompareRight
    <3>1. Prunes(routes[j - 1].key)
      BY <2>11 DEF CompareRight, Pruned, World, Prunes
    <3> QED BY <3>1
  <2> QED BY <1>4, <2>1, <2>2, <2>3, <2>4, <2>5, <2>6, <2>7, <2>8, <2>9, <2>10, <2>11
          DEF Resolve
<1> QED BY <1>1, <1>2, <1>3, <1>4 DEF Next

----------------------------------------------------------------------------
(* The operations on one record.                                           *)

LEMMA LookedAt ==
    ASSUME NEW h, NEW n, IsRecord(h), Fit(h, n)
    PROVE Alike(AfterIsHealthy(h), h, n)
<1> DEFINE g == AfterIsHealthy(h)
<1>1. CASE ~h.dead /\ h.errors >= Threshold /\ h.rested >= Rest
  <2>1. g = [h EXCEPT !.errors = 0]
    BY <1>1 DEF AfterIsHealthy
  <2>2. g = [errors |-> 0, rested |-> h.rested, dead |-> h.dead, history |-> h.history]
    BY <2>1 DEF IsRecord
  <2>3. n = Threshold
    BY <1>1, RoutingAssumption DEF Fit, IsRecord
  <2> QED BY <1>1, <2>2, <2>3, RoutingAssumption DEF Alike, IsRecord, Fit, KeyStatus, Sick
<1>2. CASE ~(~h.dead /\ h.errors >= Threshold /\ h.rested >= Rest)
  BY <1>2 DEF AfterIsHealthy, Alike
<1> QED BY <1>1, <1>2

LEMMA PrunedRecord ==
    ASSUME NEW h, NEW n, NEW s, IsRecord(h), Fit(h, n)
    PROVE Alike([h EXCEPT !.history = s], h, n)
<1>1. [h EXCEPT !.history = s] =
          [errors |-> h.errors, rested |-> h.rested, dead |-> h.dead, history |-> s]
  BY DEF IsRecord
<1> QED BY <1>1 DEF Alike, IsRecord, Fit, KeyStatus, Sick

LEMMA AfterSuccessRecord ==
    ASSUME NEW h, NEW latency, IsRecord(h)
    PROVE LET g == AfterSuccess(h, latency)
          IN  /\ IsRecord(g) /\ Fit(g, 0) /\ g.rested = h.rested
              /\ KeyStatus(g) = IF KeyStatus(h) = "dead" THEN "dead" ELSE "closed"
<1> DEFINE s == Recorded(h, TRUE, latency)
           g == AfterSuccess(h, latency)
<1>1. g = [errors |-> 0, rested |-> h.rested, dead |-> h.dead, history |-> s]
  <2> HIDE DEF s
  <2>1. g = [h EXCEPT !.errors = 0, !.history = s]
    BY DEF AfterSuccess, s
  <2> QED BY <2>1 DEF IsRecord
<1>2. IsRecord(g) /\ Fit(g, 0) /\ g.rested = h.rested
  BY <1>1, RoutingAssumption DEF IsRecord, Fit
<1>3. KeyStatus(g) = IF KeyStatus(h) = "dead" THEN "dead" ELSE "closed"
  BY <1>1, RoutingAssumption DEF KeyStatus, Sick, IsRecord
<1> QED BY <1>2, <1>3

LEMMA OlderRecord ==
    ASSUME NEW h, NEW n, IsRecord(h), Fit(h, n)
    PROVE LET g == Older(h)
          IN  /\ IsRecord(g) /\ Fit(g, n)
              /\ g.rested = IF h.rested < Rest THEN h.rested + 1 ELSE Rest
              /\ KeyStatus(g) = IF KeyStatus(h) = "resting" /\ h.rested + 1 >= Rest
                                THEN "closed" ELSE KeyStatus(h)
<1> DEFINE s == Aged(h.history)
           r == IF h.rested < Rest THEN h.rested + 1 ELSE h.rested
           g == Older(h)
<1>1. g = [errors |-> h.errors, rested |-> r, dead |-> h.dead, history |-> s]
  <2> HIDE DEF s, r
  <2>1. g = [h EXCEPT !.rested = r, !.history = s]
    BY DEF Older, s, r
  <2> QED BY <2>1 DEF IsRecord
<1>2. IsRecord(g) /\ Fit(g, n) /\ g.rested = IF h.rested < Rest THEN h.rested + 1 ELSE Rest
  <2> HIDE DEF s
  <2> QED BY <1>1, RoutingAssumption DEF IsRecord, Fit
<1>3. KeyStatus(g) = IF KeyStatus(h) = "resting" /\ h.rested + 1 >= Rest
                     THEN "closed" ELSE KeyStatus(h)
  <2> HIDE DEF s
  <2> QED BY <1>1, RoutingAssumption DEF KeyStatus, Sick, IsRecord
<1> QED BY <1>2, <1>3

LEMMA AfterErrorRecord ==
    ASSUME NEW h, NEW n, NEW permanent \in BOOLEAN, IsRecord(h), Fit(h, n)
    PROVE LET g == AfterError(h, permanent)
              m == IF n < Threshold THEN n + 1 ELSE n
          IN  /\ IsRecord(g) /\ Fit(g, m) /\ g.rested = 0
              /\ h.dead \/ permanent => KeyStatus(g) = "dead"
              /\ ~h.dead /\ ~permanent =>
                    /\ KeyStatus(h) = "resting" \/ n + 1 = Threshold => KeyStatus(g) = "resting"
                    /\ n + 1 < Threshold => KeyStatus(g) = "closed"
                    /\ KeyStatus(g) \in {"closed", "resting"}
<1> DEFINE s == Recorded(h, FALSE, 0)
           g == AfterError(h, permanent)
           m == IF n < Threshold THEN n + 1 ELSE n
<1>1. g = [errors |-> h.errors + 1, rested |-> 0, dead |-> h.dead \/ permanent, history |-> s]
  BY DEF AfterError
<1> HIDE DEF s, g
<1>2. /\ g.errors = h.errors + 1 /\ g.rested = 0 /\ g.dead = (h.dead \/ permanent)
      /\ g = [errors |-> g.errors, rested |-> g.rested, dead |-> g.dead, history |-> g.history]
  BY <1>1
<1>3. g.dead \in BOOLEAN
  BY <1>2 DEF IsRecord
<1>4. IsRecord(g)
  <2>1. g.errors \in Nat /\ g.rested \in 0..Rest
    BY <1>2, RoutingAssumption DEF IsRecord
  <2> QED BY <1>2, <1>3, <2>1, Zenon DEF IsRecord
<1>5. Fit(g, m)
  BY <1>2, RoutingAssumption DEF IsRecord, Fit
<1>6. h.dead \/ permanent => KeyStatus(g) = "dead"
  BY <1>2, Zenon DEF KeyStatus
<1>7. ASSUME ~h.dead, ~permanent
      PROVE /\ KeyStatus(h) = "resting" \/ n + 1 = Threshold => KeyStatus(g) = "resting"
            /\ n + 1 < Threshold => KeyStatus(g) = "closed"
            /\ KeyStatus(g) \in {"closed", "resting"}
  <2>1. ~g.dead
    BY <1>2, <1>7, Zenon
  <2> QED BY <2>1, <1>2, <1>7, RoutingAssumption DEF KeyStatus, Sick, IsRecord, Fit
<1> QED BY <1>2, <1>4, <1>5, <1>6, <1>7, Zenon DEF g

----------------------------------------------------------------------------
(* The refinement.                                                         *)

LEMMA InitInv == Init => TrackerInv
<1> SUFFICES ASSUME Init PROVE TrackerInv
  OBVIOUS
<1>1. \A k \in Key : IsRecord(NewHealth) /\ Fit(NewHealth, 0)
  BY RoutingAssumption DEF IsRecord, Fit, NewHealth
<1> QED BY <1>1 DEF Init, TrackerInv

(* The records after a step whose effect on every key is a lemma above.    *)
LEMMA CalmStep ==
    ASSUME TrackerInv, [Next]_vars, LeavesHealth \/ (\E k : LooksAt(k)) \/ (\E k : Prunes(k))
    PROVE /\ TrackerInv'
          /\ \A k \in Key : Alike(health'[k], health[k], streak[k])
          /\ streak' = streak
<1>1. CASE LeavesHealth
  BY <1>1 DEF LeavesHealth, TrackerInv, Alike
<1>2. ASSUME NEW x, LooksAt(x)
      PROVE /\ health' = [k \in Key |-> health'[k]] /\ streak' = streak
            /\ \A k \in Key : Alike(health'[k], health[k], streak[k])
  <2>1. health' = [k \in Key |-> IF k = x THEN AfterIsHealthy(health[k]) ELSE health[k]]
    BY <1>2 DEF LooksAt, TrackerInv
  <2>2. ASSUME NEW k \in Key PROVE Alike(health'[k], health[k], streak[k])
    <3>1. Alike(AfterIsHealthy(health[k]), health[k], streak[k])
      BY LookedAt DEF TrackerInv
    <3>2. Alike(health[k], health[k], streak[k])
      BY DEF TrackerInv, Alike
    <3> QED BY <2>1, <3>1, <3>2
  <2> QED BY <2>1, <2>2, <1>2 DEF LooksAt
<1>3. ASSUME NEW x, Prunes(x)
      PROVE /\ health' = [k \in Key |-> health'[k]] /\ streak' = streak
            /\ \A k \in Key : Alike(health'[k], health[k], streak[k])
  <2> DEFINE s == PruneHistory(health[x].history)
  <2> HIDE DEF s
  <2>1. health' = [k \in Key |-> IF k = x THEN [health[k] EXCEPT !.history = s] ELSE health[k]]
    BY <1>3 DEF Prunes, TrackerInv, s
  <2>2. ASSUME NEW k \in Key PROVE Alike(health'[k], health[k], streak[k])
    <3>1. Alike([health[k] EXCEPT !.history = s], health[k], streak[k])
      BY PrunedRecord DEF TrackerInv
    <3>2. Alike(health[k], health[k], streak[k])
      BY DEF TrackerInv, Alike
    <3> QED BY <2>1, <3>1, <3>2
  <2> QED BY <2>1, <2>2, <1>3 DEF Prunes
<1>4. /\ health' = [k \in Key |-> health'[k]] /\ streak' = streak
      /\ \A k \in Key : Alike(health'[k], health[k], streak[k])
  BY <1>1, <1>2, <1>3 DEF LeavesHealth, TrackerInv, Alike
<1> QED BY <1>4 DEF TrackerInv, Alike

(* The invariant that ties the tracker's count to the errors in a row is   *)
(* kept (keyhealth.go:76-130).                                             *)
LEMMA NextInv == TrackerInv /\ [Next]_vars => TrackerInv'
<1> SUFFICES ASSUME TrackerInv, [Next]_vars PROVE TrackerInv'
  OBVIOUS
<1>1. CASE LeavesHealth \/ (\E k : LooksAt(k)) \/ (\E k : Prunes(k))
  BY <1>1, CalmStep
<1>2. CASE Tick
  <2>1. health' = [k \in Key |-> Older(health[k])] /\ streak' = streak
    BY <1>2 DEF Tick
  <2>2. \A k \in Key : IsRecord(Older(health[k])) /\ Fit(Older(health[k]), streak[k])
    BY OlderRecord DEF TrackerInv
  <2> QED BY <2>1, <2>2 DEF TrackerInv
<1>3. ASSUME NEW x \in Key, NEW latency \in Latency, ReportSuccess(x, latency) PROVE TrackerInv'
  <2>1. /\ health' = [k \in Key |-> IF k = x THEN AfterSuccess(health[k], latency) ELSE health[k]]
        /\ streak' = [k \in Key |-> IF k = x THEN 0 ELSE streak[k]]
    BY <1>3 DEF ReportSuccess, TrackerInv
  <2>2. IsRecord(AfterSuccess(health[x], latency)) /\ Fit(AfterSuccess(health[x], latency), 0)
    BY AfterSuccessRecord DEF TrackerInv
  <2> QED BY <2>1, <2>2 DEF TrackerInv
<1>4. ASSUME NEW x \in Key, NEW permanent \in BOOLEAN, ReportError(x, permanent)
      PROVE TrackerInv'
  <2> DEFINE m == IF streak[x] < Threshold THEN streak[x] + 1 ELSE streak[x]
  <2> HIDE DEF m
  <2>1. /\ health' = [k \in Key |-> IF k = x THEN AfterError(health[k], permanent) ELSE health[k]]
        /\ streak' = [k \in Key |-> IF k = x THEN m ELSE streak[k]]
    BY <1>4 DEF ReportError, TrackerInv, m
  <2>2. IsRecord(AfterError(health[x], permanent)) /\ Fit(AfterError(health[x], permanent), m)
    BY AfterErrorRecord DEF TrackerInv, m
  <2> QED BY <2>1, <2>2 DEF TrackerInv
<1> QED BY <1>1, <1>2, <1>3, <1>4, Effects

LEMMA InitBreaker == Init => Breaker!Init
<1>1. Init => \A k \in Key : KeyStatus(health[k]) = "closed" /\ health[k].rested = Rest
  BY RoutingAssumption DEF Init, NewHealth, KeyStatus, Sick
<1> QED BY <1>1 DEF Init, Breaker!Init

Statuses == [k \in Key |-> KeyStatus(health[k])]
Cools    == [k \in Key |-> health[k].rested]

LEMMA CalmBreaker ==
    ASSUME TrackerInv, [Next]_vars, LeavesHealth \/ (\E k : LooksAt(k)) \/ (\E k : Prunes(k))
    PROVE UNCHANGED Breaker!vars
<1>1. streak' = streak /\ \A k \in Key : Alike(health'[k], health[k], streak[k])
  BY CalmStep
<1>2. Statuses' = Statuses /\ Cools' = Cools
  BY <1>1 DEF Alike, Statuses, Cools
<1> QED BY <1>1, <1>2 DEF Breaker!vars, Statuses, Cools

LEMMA TickBreaker == ASSUME TrackerInv, Tick PROVE Breaker!Tick
<1>1. health' = [k \in Key |-> Older(health[k])] /\ streak' = streak
  BY DEF Tick
<1>2. ASSUME NEW k \in Key
      PROVE /\ health'[k].rested = Breaker!Next1(health[k].rested, Rest)
            /\ KeyStatus(health'[k]) =
                   IF KeyStatus(health[k]) = "resting" /\ health[k].rested + 1 >= Rest
                   THEN "closed" ELSE KeyStatus(health[k])
  BY <1>1, OlderRecord DEF TrackerInv, Breaker!Next1
<1> QED BY <1>1, <1>2 DEF Breaker!Tick

LEMMA SuccessBreaker ==
    ASSUME TrackerInv, NEW x \in Key, NEW latency \in Latency, ReportSuccess(x, latency)
    PROVE Breaker!Succeed(x)
<1>1. /\ health' = [k \in Key |-> IF k = x THEN AfterSuccess(health[k], latency) ELSE health[k]]
      /\ streak' = [streak EXCEPT ![x] = 0]
  BY DEF ReportSuccess, TrackerInv
<1>2. /\ health'[x].rested = health[x].rested
      /\ KeyStatus(health'[x]) = IF KeyStatus(health[x]) = "dead" THEN "dead" ELSE "closed"
  BY <1>1, AfterSuccessRecord DEF TrackerInv
<1>3. \A k \in Key : k # x => health'[k] = health[k]
  BY <1>1
<1>4. Cools' = Cools
  BY <1>2, <1>3 DEF Cools
<1>5. Statuses' = [Statuses EXCEPT ![x] = IF @ = "dead" THEN "dead" ELSE "closed"]
  BY <1>2, <1>3 DEF Statuses
<1> QED BY <1>1, <1>4, <1>5 DEF Breaker!Succeed, Statuses, Cools

LEMMA ErrorBreaker ==
    ASSUME TrackerInv, NEW x \in Key, NEW permanent \in BOOLEAN, ReportError(x, permanent)
    PROVE Breaker!Fail(x, permanent)
<1> DEFINE g == AfterError(health[x], permanent)
           n == streak[x]
<1>1. /\ health' = [k \in Key |-> IF k = x THEN AfterError(health[k], permanent) ELSE health[k]]
      /\ streak' = [streak EXCEPT ![x] = IF @ < Threshold THEN @ + 1 ELSE @]
  BY DEF ReportError, TrackerInv
<1>2. /\ g.rested = 0
      /\ health[x].dead \/ permanent => KeyStatus(g) = "dead"
      /\ ~health[x].dead /\ ~permanent =>
            /\ KeyStatus(health[x]) = "resting" \/ n + 1 = Threshold => KeyStatus(g) = "resting"
            /\ n + 1 < Threshold => KeyStatus(g) = "closed"
            /\ KeyStatus(g) \in {"closed", "resting"}
  BY AfterErrorRecord DEF TrackerInv
<1>3. n \in 0..Threshold
  BY DEF TrackerInv, Fit
<1>4. health'[x] = g /\ \A k \in Key : k # x => health'[k] = health[k]
  BY <1>1
<1>5. Cools' = [Cools EXCEPT ![x] = 0]
  BY <1>2, <1>4 DEF Cools
<1>6. Statuses' = [Statuses EXCEPT ![x] = KeyStatus(g)]
  BY <1>4 DEF Statuses
<1>7. streak' = [streak EXCEPT ![x] = Breaker!Next1(@, Threshold)]
  <2>1. n = Threshold \/ n < Threshold
    BY <1>3, RoutingAssumption
  <2> QED BY <1>1, <2>1, RoutingAssumption DEF Breaker!Next1
<1>8. Statuses[x] = KeyStatus(health[x])
  BY DEF Statuses
<1>9. KeyStatus(g) \in Breaker!AfterError(x, permanent)
  <2> HIDE DEF g
  <2>1. health[x].dead <=> KeyStatus(health[x]) = "dead"
    BY Zenon DEF KeyStatus
  <2>2. KeyStatus(health[x]) \in {"dead", "closed", "resting"}
    BY Zenon DEF KeyStatus
  <2>3. n + 1 = Threshold \/ n + 1 < Threshold \/ n >= Threshold
    BY <1>3, RoutingAssumption
  <2>4. n + 1 < Threshold => n < Threshold
    BY <1>3, RoutingAssumption
  <2> QED BY <1>2, <1>3, <2>1, <2>2, <2>3, <2>4, RoutingAssumption DEF Breaker!AfterError
<1> QED BY <1>5, <1>6, <1>7, <1>9 DEF Breaker!Fail, Statuses, Cools

LEMMA StepBreaker == TrackerInv /\ [Next]_vars => [Breaker!Next]_(Breaker!vars)
<1> SUFFICES ASSUME TrackerInv, [Next]_vars PROVE Breaker!Next \/ UNCHANGED Breaker!vars
  BY DEF Breaker!vars
<1>1. CASE LeavesHealth \/ (\E k : LooksAt(k)) \/ (\E k : Prunes(k))
  BY <1>1, CalmBreaker
<1>2. CASE Tick
  BY <1>2, TickBreaker DEF Breaker!Next
<1>3. ASSUME NEW x \in Key, NEW latency \in Latency, ReportSuccess(x, latency) PROVE Breaker!Next
  BY <1>3, SuccessBreaker DEF Breaker!Next
<1>4. ASSUME NEW x \in Key, NEW permanent \in BOOLEAN, ReportError(x, permanent)
      PROVE Breaker!Next
  BY <1>4, ErrorBreaker DEF Breaker!Next
<1> QED BY <1>1, <1>2, <1>3, <1>4, Effects

(* Whatever the interleaving of reports, reads and time, each key's record *)
(* behaves as a circuit breaker: it opens at the Threshold-th error in a   *)
(* row, never before, closes by rest or success, and a permanent error is  *)
(* never taken back (keyhealth.go:76-130).                                 *)
THEOREM TrackerIsBreaker == Spec => ImplementsBreaker
<1>1. Init => TrackerInv /\ Breaker!Init
  BY InitInv, InitBreaker
<1>2. TrackerInv /\ [Next]_vars => TrackerInv'
  BY NextInv
<1>3. TrackerInv /\ [Next]_vars => [Breaker!Next]_(Breaker!vars)
  BY StepBreaker
<1> QED BY <1>1, <1>2, <1>3, PTL DEF Spec, ImplementsBreaker, Breaker!Spec

----------------------------------------------------------------------------
(* What the model is built from.                                           *)

(* The mapping and the key in work are among those that are left.          *)
LEMMA MappingInTodo ==
  ASSUME todo \subseteq RowType, todo # {}
  PROVE  Mapping \in todo
<1> DEFINE ids == {row.id : row \in todo}
<1>1. ids \subseteq Nat /\ ids # {}
  BY DEF RowType
<1> HIDE DEF ids
<1>2. PICK n \in ids : \A m \in ids : n <= m
  BY <1>1, LeastNatural
<1>3. \E row \in todo : \A other \in todo : row.id <= other.id
  BY <1>2 DEF ids
<1> QED
  BY <1>3 DEF Mapping

LEMMA NextKeyInCands ==
  ASSUME cands \subseteq Key, cands # {}
  PROVE  NextKey \in cands
<1> DEFINE places == {Place[k] : k \in cands}
<1>1. places \subseteq Nat /\ places # {}
  BY RoutingAssumption
<1> HIDE DEF places
<1>2. PICK n \in places : \A m \in places : n <= m
  BY <1>1, LeastNatural
<1>3. \E k \in cands : \A l \in cands : Place[k] <= Place[l]
  BY <1>2 DEF places
<1> QED
  BY <1>3 DEF NextKey

----------------------------------------------------------------------------
(* Types.                                                                  *)

HealthTyped(h) == h \in HealthType /\ IsFiniteSet(h.history)

LEMMA PruneFinite ==
  ASSUME NEW s, IsFiniteSet(s)
  PROVE  IsFiniteSet(PruneHistory(s)) /\ PruneHistory(s) \subseteq s
<1>1. PruneHistory(s) \in SUBSET s
  BY DEF PruneHistory
<1> QED
  BY <1>1, FS_Subset

LEMMA HealthFields ==
  ASSUME NEW h, h \in HealthType
  PROVE  /\ h = [errors |-> h.errors, rested |-> h.rested, dead |-> h.dead, history |-> h.history]
         /\ h.errors \in Nat /\ h.rested \in 0..Rest /\ h.dead \in BOOLEAN
         /\ h.history \subseteq Outcome
  BY DEF HealthType

LEMMA PrunedTyped ==
  ASSUME NEW h, HealthTyped(h)
  PROVE  HealthTyped([h EXCEPT !.history = PruneHistory(h.history)])
<1> DEFINE s == PruneHistory(h.history)
<1>1. IsFiniteSet(s) /\ s \subseteq Outcome
  BY PruneFinite DEF HealthTyped, HealthType
<1> HIDE DEF s
<1>2. [h EXCEPT !.history = s] =
          [errors |-> h.errors, rested |-> h.rested, dead |-> h.dead, history |-> s]
  BY HealthFields DEF HealthTyped
<1> QED
  BY <1>1, <1>2, HealthFields DEF HealthTyped, HealthType, s

LEMMA LookedTyped ==
  ASSUME NEW h, HealthTyped(h)
  PROVE  HealthTyped(AfterIsHealthy(h))
<1>1. [h EXCEPT !.errors = 0] =
          [errors |-> 0, rested |-> h.rested, dead |-> h.dead, history |-> h.history]
  BY HealthFields DEF HealthTyped
<1>2. HealthTyped([h EXCEPT !.errors = 0])
  BY <1>1, HealthFields DEF HealthTyped, HealthType
<1> QED
  BY <1>2 DEF AfterIsHealthy

LEMMA RecordedTyped ==
  ASSUME NEW h, HealthTyped(h), NEW ok \in BOOLEAN, NEW latency \in Latency \cup {0},
         reports \in Nat
  PROVE  Recorded(h, ok, latency) \subseteq Outcome /\ IsFiniteSet(Recorded(h, ok, latency))
<1> DEFINE o == [no |-> reports, age |-> 0, ok |-> ok, latency |-> latency]
           s == h.history \cup {o}
<1>1. o \in Outcome
  BY RoutingAssumption DEF Outcome
<1>2. h.history \subseteq Outcome /\ IsFiniteSet(h.history)
  BY DEF HealthTyped, HealthType
<1>3. Recorded(h, ok, latency) = PruneHistory(s)
  BY DEF Recorded
<1> HIDE DEF o
<1>4. IsFiniteSet(s)
  BY <1>2, FS_AddElement
<1>5. s \subseteq Outcome
  BY <1>1, <1>2
<1> HIDE DEF s
<1> QED
  BY <1>3, <1>4, <1>5, PruneFinite

LEMMA AfterSuccessTyped ==
  ASSUME NEW h, HealthTyped(h), NEW latency \in Latency, reports \in Nat
  PROVE  HealthTyped(AfterSuccess(h, latency))
<1> DEFINE s == Recorded(h, TRUE, latency)
<1>1. s \subseteq Outcome /\ IsFiniteSet(s)
  BY RecordedTyped
<1>2. AfterSuccess(h, latency) = [h EXCEPT !.errors = 0, !.history = s]
  BY DEF AfterSuccess
<1> HIDE DEF s
<1>3. AfterSuccess(h, latency) =
          [errors |-> 0, rested |-> h.rested, dead |-> h.dead, history |-> s]
  <2>1. h = [errors |-> h.errors, rested |-> h.rested, dead |-> h.dead, history |-> h.history]
    BY HealthFields DEF HealthTyped
  <2> QED
    BY <1>2, <2>1
<1> QED
  BY <1>1, <1>2, <1>3, HealthFields DEF HealthTyped, HealthType

LEMMA AfterErrorTyped ==
  ASSUME NEW h, HealthTyped(h), NEW permanent \in BOOLEAN, reports \in Nat
  PROVE  HealthTyped(AfterError(h, permanent))
<1> DEFINE s == Recorded(h, FALSE, 0)
           d == h.dead \/ permanent
<1>1. s \subseteq Outcome /\ IsFiniteSet(s)
  BY RecordedTyped
<1>2. AfterError(h, permanent) =
          [errors |-> h.errors + 1, rested |-> 0, dead |-> d, history |-> s]
  BY DEF AfterError
<1>3. d \in BOOLEAN
  OBVIOUS
<1> HIDE DEF s, d
<1>4. h.errors + 1 \in Nat /\ 0 \in 0..Rest
  BY HealthFields, RoutingAssumption DEF HealthTyped
<1> QED
  BY <1>1, <1>2, <1>3, <1>4 DEF HealthTyped, HealthType

LEMMA AgedTyped ==
  ASSUME NEW s, s \subseteq Outcome, IsFiniteSet(s)
  PROVE  Aged(s) \subseteq Outcome /\ IsFiniteSet(Aged(s))
<1> DEFINE age(o) == IF o.age < Window THEN o.age + 1 ELSE o.age
           aging(o) == [o EXCEPT !.age = age(o)]
           f == [o \in s |-> aging(o)]
<1>1. Aged(s) = {aging(o) : o \in s}
  BY DEF Aged
<1>2. ASSUME NEW o \in s PROVE aging(o) \in Outcome
  <2>1. age(o) \in 0..Window
    BY RoutingAssumption DEF Outcome
  <2> HIDE DEF age
  <2>2. [o EXCEPT !.age = age(o)] =
            [no |-> o.no, age |-> age(o), ok |-> o.ok, latency |-> o.latency]
    BY DEF Outcome
  <2> QED
    BY <2>1, <2>2 DEF Outcome
<1> HIDE DEF aging
<1>3. f \in Surjection(s, Aged(s))
  BY <1>1 DEF Surjection
<1>4. IsFiniteSet(Aged(s))
  BY <1>3, FS_Surjection DEF ExistsSurjection
<1> QED
  BY <1>1, <1>2, <1>4

LEMMA OlderTyped ==
  ASSUME NEW h, HealthTyped(h)
  PROVE  HealthTyped(Older(h))
<1> DEFINE s == Aged(h.history)
           r == IF h.rested < Rest THEN h.rested + 1 ELSE h.rested
<1>1. s \subseteq Outcome /\ IsFiniteSet(s)
  BY AgedTyped, HealthFields DEF HealthTyped
<1>2. r \in 0..Rest
  BY HealthFields, RoutingAssumption DEF HealthTyped
<1>3. Older(h) = [h EXCEPT !.rested = r, !.history = s]
  BY DEF Older
<1> HIDE DEF s, r
<1>4. Older(h) =
          [errors |-> h.errors, rested |-> r, dead |-> h.dead, history |-> s]
  <2>1. h = [errors |-> h.errors, rested |-> h.rested, dead |-> h.dead, history |-> h.history]
    BY HealthFields DEF HealthTyped
  <2> QED
    BY <1>3, <2>1
<1> QED
  BY <1>1, <1>2, <1>3, <1>4, HealthFields DEF HealthTyped, HealthType

(* The records of all keys, after each of the effects.                     *)
LEMMA RecordsTyped ==
  ASSUME TypeOK, [Next]_vars
  PROVE  health' \in [Key -> HealthType] /\ \A k \in Key : IsFiniteSet(health'[k].history)
<1>1. health \in [Key -> HealthType] /\ \A k \in Key : HealthTyped(health[k])
  BY DEF TypeOK, HealthTyped
<1> SUFFICES health' = [k \in Key |-> health'[k]] /\ \A k \in Key : HealthTyped(health'[k])
  BY DEF HealthTyped
<1>2. CASE LeavesHealth
  BY <1>1, <1>2 DEF LeavesHealth
<1>3. ASSUME NEW x, LooksAt(x)
      PROVE health' = [k \in Key |-> health'[k]] /\ \A k \in Key : HealthTyped(health'[k])
  <2>1. health' = [k \in Key |-> IF k = x THEN AfterIsHealthy(health[k]) ELSE health[k]]
    BY <1>1, <1>3 DEF LooksAt
  <2>2. ASSUME NEW k \in Key PROVE HealthTyped(health'[k])
    BY <1>1, <2>1, LookedTyped
  <2> QED
    BY <2>1, <2>2
<1>4. ASSUME NEW x, Prunes(x)
      PROVE health' = [k \in Key |-> health'[k]] /\ \A k \in Key : HealthTyped(health'[k])
  <2>1. health' = [k \in Key |->
            IF k = x THEN [health[k] EXCEPT !.history = PruneHistory(health[k].history)]
            ELSE health[k]]
    BY <1>1, <1>4 DEF Prunes
  <2>2. ASSUME NEW k \in Key PROVE HealthTyped(health'[k])
    BY <1>1, <2>1, PrunedTyped
  <2> QED
    BY <2>1, <2>2
<1>5. CASE Tick
  <2>1. health' = [k \in Key |-> Older(health[k])]
    BY <1>5 DEF Tick
  <2>2. ASSUME NEW k \in Key PROVE HealthTyped(health'[k])
    BY <1>1, <2>1, OlderTyped
  <2> QED
    BY <2>1, <2>2
<1>6. ASSUME NEW x \in Key, NEW latency \in Latency, ReportSuccess(x, latency)
      PROVE health' = [k \in Key |-> health'[k]] /\ \A k \in Key : HealthTyped(health'[k])
  <2>1. health' = [k \in Key |-> IF k = x THEN AfterSuccess(health[k], latency) ELSE health[k]]
    BY <1>1, <1>6 DEF ReportSuccess
  <2>2. reports \in Nat
    BY DEF TypeOK
  <2>3. ASSUME NEW k \in Key PROVE HealthTyped(health'[k])
    BY <1>1, <2>1, <2>2, AfterSuccessTyped
  <2> QED
    BY <2>1, <2>3
<1>7. ASSUME NEW x \in Key, NEW permanent \in BOOLEAN, ReportError(x, permanent)
      PROVE health' = [k \in Key |-> health'[k]] /\ \A k \in Key : HealthTyped(health'[k])
  <2>1. health' = [k \in Key |-> IF k = x THEN AfterError(health[k], permanent) ELSE health[k]]
    BY <1>1, <1>7 DEF ReportError
  <2>2. reports \in Nat
    BY DEF TypeOK
  <2>3. ASSUME NEW k \in Key PROVE HealthTyped(health'[k])
    BY <1>1, <2>1, <2>2, AfterErrorTyped
  <2> QED
    BY <2>1, <2>3
<1> QED
  BY <1>2, <1>3, <1>4, <1>5, <1>6, <1>7, Effects

CatalogTyped ==
    /\ providers \in [Provider -> Status] /\ models \in [Model -> Status]
    /\ keys \in [Key -> Status]
    /\ mappings \in Seq(RowType) /\ \A n \in DOMAIN mappings : mappings[n].id = n
    /\ fallbacks \subseteq FallbackType /\ IsFiniteSet(fallbacks)

FallbacksDistinct ==
    \A f, g \in fallbacks :
        f.model # f.to /\ (f.model = g.model /\ f.to = g.to => f = g)

(* An edit keeps a mapping's model and provider and may add mappings.      *)
RowsKept ==
    /\ mappings' \in Seq(RowType) /\ \A n \in DOMAIN mappings' : mappings'[n].id = n
    /\ DOMAIN mappings \subseteq DOMAIN mappings'
    /\ \A n \in DOMAIN mappings : /\ mappings'[n].model = mappings[n].model
                                  /\ mappings'[n].provider = mappings[n].provider

LEMMA RowFields ==
  ASSUME NEW row \in RowType
  PROVE  /\ row = [id |-> row.id, model |-> row.model, provider |-> row.provider,
                   price |-> row.price, status |-> row.status]
         /\ row.id \in Nat /\ row.model \in Model /\ row.provider \in Provider
         /\ row.price \in Price \cup {None} /\ row.status \in Status
  BY DEF RowType

LEMMA StatusChanged ==
  ASSUME NEW row \in RowType, NEW status \in Status
  PROVE  /\ [row EXCEPT !.status = status] \in RowType
         /\ [row EXCEPT !.status = status].id = row.id
         /\ [row EXCEPT !.status = status].model = row.model
         /\ [row EXCEPT !.status = status].provider = row.provider
<1>1. [row EXCEPT !.status = status] =
          [id |-> row.id, model |-> row.model, provider |-> row.provider,
           price |-> row.price, status |-> status]
  BY RowFields
<1> QED
  BY <1>1, RowFields DEF RowType

LEMMA SameRows ==
  ASSUME CatalogTyped, NEW ms, ms = [n \in DOMAIN mappings |-> ms[n]],
         \A n \in DOMAIN mappings :
            /\ ms[n] \in RowType /\ ms[n].id = n
            /\ ms[n].model = mappings[n].model /\ ms[n].provider = mappings[n].provider,
         mappings' = ms
  PROVE  RowsKept
<1>1. mappings \in Seq(RowType)
  BY DEF CatalogTyped
<1>2. PICK len \in Nat : DOMAIN mappings = 1..len
  BY <1>1
<1>3. ms \in [1..len -> RowType]
  BY <1>2
<1>4. ms \in Seq(RowType) /\ DOMAIN ms = DOMAIN mappings
  BY <1>2, <1>3
<1> QED
  BY <1>4 DEF RowsKept

LEMMA CascadeKeeps ==
  ASSUME CatalogTyped, NEW gone, mappings' = Cascade(gone)
  PROVE  RowsKept
<1> DEFINE ms == Cascade(gone)
<1>1. ASSUME NEW n \in DOMAIN mappings
      PROVE  /\ ms[n] \in RowType /\ ms[n].id = n
             /\ ms[n].model = mappings[n].model /\ ms[n].provider = mappings[n].provider
  <2>1. mappings[n] \in RowType /\ mappings[n].id = n
    BY DEF CatalogTyped
  <2>2. ms[n] = IF n \in gone THEN [mappings[n] EXCEPT !.status = "deleted"] ELSE mappings[n]
    BY DEF Cascade
  <2>3. "deleted" \in Status
    BY DEF Status
  <2> HIDE DEF ms
  <2> QED
    BY <2>1, <2>2, <2>3, StatusChanged
<1>2. ms = [n \in DOMAIN mappings |-> ms[n]]
  BY DEF Cascade
<1> HIDE DEF ms
<1> QED
  BY <1>1, <1>2, SameRows DEF ms

LEMMA StatusKeeps ==
  ASSUME CatalogTyped, NEW n \in DOMAIN mappings, NEW row \in RowType,
         row.id = n, row.model = mappings[n].model, row.provider = mappings[n].provider,
         mappings' = [mappings EXCEPT ![n] = row]
  PROVE  RowsKept
<1> DEFINE ms == [mappings EXCEPT ![n] = row]
<1>0. mappings = [k \in DOMAIN mappings |-> mappings[k]]
  BY DEF CatalogTyped
<1>1. ASSUME NEW k \in DOMAIN mappings
      PROVE  /\ ms[k] \in RowType /\ ms[k].id = k
             /\ ms[k].model = mappings[k].model /\ ms[k].provider = mappings[k].provider
  <2>1. mappings[k] \in RowType /\ mappings[k].id = k
    BY DEF CatalogTyped
  <2>2. ms[k] = IF k = n THEN row ELSE mappings[k]
    BY <1>0
  <2> HIDE DEF ms
  <2> QED
    BY <2>1, <2>2
<1>2. ms = [k \in DOMAIN mappings |-> ms[k]]
  BY <1>0
<1> HIDE DEF ms
<1> QED
  BY <1>1, <1>2, SameRows DEF ms

LEMMA AppendKeeps ==
  ASSUME CatalogTyped, NEW row \in RowType, row.id = Len(mappings) + 1,
         mappings' = Append(mappings, row)
  PROVE  RowsKept
<1>1. mappings \in Seq(RowType) /\ \A n \in DOMAIN mappings : mappings[n].id = n
  BY DEF CatalogTyped
<1>2. /\ mappings' \in Seq(RowType)
      /\ DOMAIN mappings' = DOMAIN mappings \cup {Len(mappings) + 1}
      /\ \A n \in DOMAIN mappings : mappings'[n] = mappings[n]
      /\ mappings'[Len(mappings) + 1] = row
  BY <1>1
<1> QED
  BY <1>1, <1>2 DEF RowsKept

LEMMA UnchangedKeeps == ASSUME CatalogTyped, mappings' = mappings PROVE RowsKept
  BY DEF CatalogTyped, RowsKept

(* What an administrator's step does to the catalog.                       *)
LEMMA AdministrationDoes ==
  ASSUME CatalogTyped, FallbacksDistinct, Administration
  PROVE  /\ Edit /\ RowsKept /\ FallbacksDistinct'
         /\ providers' \in [Provider -> Status] /\ models' \in [Model -> Status]
         /\ keys' \in [Key -> Status]
         /\ fallbacks' \subseteq FallbackType /\ IsFiniteSet(fallbacks')
<1> DEFINE Sound ==
      /\ Edit /\ RowsKept /\ FallbacksDistinct'
      /\ providers' \in [Provider -> Status] /\ models' \in [Model -> Status]
      /\ keys' \in [Key -> Status]
      /\ fallbacks' \subseteq FallbackType /\ IsFiniteSet(fallbacks')
<1>0. /\ providers \in [Provider -> Status] /\ models \in [Model -> Status]
      /\ keys \in [Key -> Status] /\ fallbacks \subseteq FallbackType /\ IsFiniteSet(fallbacks)
      /\ {"active", "inactive", "deleted"} \subseteq Status
      /\ (fallbacks' = fallbacks => FallbacksDistinct')
  BY DEF CatalogTyped, Status, FallbacksDistinct
<1>a. ASSUME NEW F \in SUBSET fallbacks, fallbacks' = F
      PROVE fallbacks' \subseteq FallbackType /\ IsFiniteSet(fallbacks') /\ FallbacksDistinct'
  <2>1. IsFiniteSet(F)
    BY <1>0, FS_Subset
  <2> QED
    BY <1>0, <1>a, <2>1 DEF FallbacksDistinct
<1> SUFFICES Sound
  OBVIOUS
<1>1. ASSUME NEW p \in Provider, CreateProvider(p) PROVE Sound
  BY <1>0, <1>1, UnchangedKeeps DEF CreateProvider
<1>2. ASSUME NEW p \in Provider, NEW s \in {"active", "inactive"}, UpdateProvider(p, s) PROVE Sound
  BY <1>0, <1>2, UnchangedKeeps DEF UpdateProvider
<1>3. ASSUME NEW p \in Provider, DeleteProvider(p) PROVE Sound
  <2>1. RowsKept
    BY <1>3, CascadeKeeps DEF DeleteProvider
  <2> QED
    BY <1>0, <1>3, <2>1 DEF DeleteProvider
<1>4. ASSUME NEW m \in Model, CreateModel(m) PROVE Sound
  BY <1>0, <1>4, UnchangedKeeps DEF CreateModel
<1>5. ASSUME NEW m \in Model, NEW s \in {"active", "inactive"}, UpdateModel(m, s) PROVE Sound
  BY <1>0, <1>5, UnchangedKeeps DEF UpdateModel
<1>6. ASSUME NEW m \in Model, DeleteModel(m) PROVE Sound
  <2>1. RowsKept
    BY <1>6, CascadeKeeps DEF DeleteModel
  <2>2. fallbacks' \subseteq FallbackType /\ IsFiniteSet(fallbacks') /\ FallbacksDistinct'
    <3>1. fallbacks' \in SUBSET fallbacks
      BY <1>6 DEF DeleteModel
    <3> QED
      BY <1>a, <3>1
  <2> QED
    BY <1>0, <1>6, <2>1, <2>2 DEF DeleteModel
<1>7. ASSUME NEW m \in Model, NEW p \in Provider, NEW price \in Price \cup {None},
             CreateMapping(m, p, price)
      PROVE Sound
  <2> DEFINE row == [id |-> Len(mappings) + 1, model |-> m, provider |-> p,
                     price |-> price, status |-> "active"]
  <2>1. row \in RowType
    <3>1. Len(mappings) + 1 \in Nat
      BY DEF CatalogTyped
    <3> QED
      BY <1>0, <3>1 DEF RowType
  <2>2. mappings' = Append(mappings, row) /\ row.id = Len(mappings) + 1
    BY <1>7 DEF CreateMapping
  <2> HIDE DEF row
  <2>3. RowsKept
    BY <2>1, <2>2, AppendKeeps
  <2> QED
    BY <1>0, <1>7, <2>3 DEF CreateMapping
<1>8. ASSUME NEW n \in DOMAIN mappings, NEW price \in Price \cup {mappings[n].price},
             NEW s \in {"active", "inactive"}, UpdateMapping(n, price, s)
      PROVE Sound
  <2> DEFINE old == mappings[n]
             row == [id |-> old.id, model |-> old.model, provider |-> old.provider,
                     price |-> price, status |-> s]
  <2>1. old \in RowType /\ old.id = n
    BY DEF CatalogTyped
  <2>2. row \in RowType
    <3>1. /\ old.id \in Nat /\ old.model \in Model /\ old.provider \in Provider
          /\ price \in Price \cup {None} /\ s \in Status
      BY <1>0, <2>1, RowFields
    <3> HIDE DEF old
    <3> QED
      BY <3>1 DEF RowType
  <2>3. ASSUME NEW r, r = [old EXCEPT !.price = price, !.status = s] PROVE r = row
    <3> HIDE DEF old
    <3>1. old = [id |-> old.id, model |-> old.model, provider |-> old.provider,
                 price |-> old.price, status |-> old.status]
      BY <2>1, RowFields
    <3> QED
      BY <3>1, <2>3
  <2>4. mappings' = [mappings EXCEPT ![n] = row]
    <3>1. PICK r : /\ r = [old EXCEPT !.price = price, !.status = s]
                   /\ mappings' = [mappings EXCEPT ![n] = r]
      BY <1>8 DEF UpdateMapping
    <3> QED
      BY <3>1, <2>3
  <2>5. row.id = n /\ row.model = mappings[n].model /\ row.provider = mappings[n].provider
    BY <2>1
  <2> HIDE DEF row
  <2>6. RowsKept
    BY <2>2, <2>4, <2>5, StatusKeeps
  <2> QED
    BY <1>0, <1>8, <2>6 DEF UpdateMapping
<1>9. ASSUME NEW n \in DOMAIN mappings, DeleteMapping(n) PROVE Sound
  <2> DEFINE row == [mappings[n] EXCEPT !.status = "deleted"]
  <2>1. mappings[n] \in RowType /\ mappings[n].id = n
    BY DEF CatalogTyped
  <2>2. /\ row \in RowType /\ row.id = n /\ row.model = mappings[n].model
        /\ row.provider = mappings[n].provider
    BY <1>0, <2>1, StatusChanged
  <2>3. mappings' = [mappings EXCEPT ![n] = row]
    BY <1>9 DEF DeleteMapping
  <2> HIDE DEF row
  <2>4. RowsKept
    BY <2>2, <2>3, StatusKeeps
  <2> QED
    BY <1>0, <1>9, <2>4 DEF DeleteMapping
<1>10. ASSUME NEW m \in Model, NEW to \in Model, NEW priority \in {0, 1},
              CreateFallback(m, to, priority)
       PROVE Sound
  <2> DEFINE f == [model |-> m, to |-> to, priority |-> priority]
  <2>1. fallbacks' = fallbacks \cup {f} /\ f \in FallbackType
    BY <1>10 DEF CreateFallback, FallbackType
  <2>2. m # to /\ \A g \in fallbacks : g.model # m \/ g.to # to
    BY <1>10 DEF CreateFallback
  <2>3. f.model = m /\ f.to = to
    OBVIOUS
  <2> HIDE DEF f
  <2>4. IsFiniteSet(fallbacks')
    BY <1>0, <2>1, FS_AddElement
  <2>5. FallbacksDistinct'
    BY <2>1, <2>2, <2>3 DEF FallbacksDistinct
  <2>6. RowsKept
    BY <1>10, UnchangedKeeps DEF CreateFallback
  <2> QED
    BY <1>0, <1>10, <2>1, <2>4, <2>5, <2>6 DEF CreateFallback
<1>11. ASSUME NEW f \in fallbacks, DeleteFallback(f) PROVE Sound
  <2>1. fallbacks' \in SUBSET fallbacks
    BY <1>11 DEF DeleteFallback
  <2>2. RowsKept
    BY <1>11, UnchangedKeeps DEF DeleteFallback
  <2> QED
    BY <1>0, <1>11, <1>a, <2>1, <2>2 DEF DeleteFallback
<1>12. ASSUME NEW k \in Key, CreateKey(k) PROVE Sound
  BY <1>0, <1>12, UnchangedKeeps DEF CreateKey
<1>13. ASSUME NEW k \in Key, NEW s \in {"active", "inactive"}, UpdateKey(k, s) PROVE Sound
  BY <1>0, <1>13, UnchangedKeeps DEF UpdateKey
<1>14. ASSUME NEW k \in Key, DeleteKey(k) PROVE Sound
  BY <1>0, <1>14, UnchangedKeeps DEF DeleteKey
<1> QED
  BY <1>1, <1>2, <1>3, <1>4, <1>5, <1>6, <1>7, <1>8, <1>9, <1>10, <1>11, <1>12, <1>13, <1>14
     DEF Administration

(* The states in which a key is being picked, the keys looked at so far,   *)
(* and the states in which a mapping is in work.                           *)
Picking  == pc \in {"healthy", "penalty", "decrypt"}
Examined == listed \ cands
Working  == pc \in {"provider", "keys", "healthy", "penalty", "decrypt"}

Item == [model : Model, fallback : BOOLEAN]

CallTyped ==
    /\ pc \in Step /\ (pc # "idle" => model \in Model) /\ strategy \in Strategy
    /\ queue \in Seq(Item) /\ (pc = "mappings" \/ Working => queue # <<>>)
    /\ todo \subseteq RowType /\ (Working => todo # {})
    /\ cands \subseteq Key /\ (pc \in {"healthy", "penalty"} => cands # {})
    /\ best \in Candidate \cup {None} /\ (pc = "decrypt" => best # None)
    /\ routes \in Seq(RouteType) /\ found \in Seq(RouteType)
    /\ pc \in {"left", "right"} => i \in 2..Len(routes) /\ j \in 2..i

FlagsTyped == healthy \in BOOLEAN /\ quiet \in BOOLEAN /\ broken \in BOOLEAN

CountersTyped ==
    streak \in [Key -> 0..Threshold] /\ {reports, ticks, writes, faults} \subseteq Nat

LEMMA TypeParts ==
  TypeOK <=> /\ health \in [Key -> HealthType] /\ \A k \in Key : IsFiniteSet(health[k].history)
             /\ CatalogTyped /\ CallTyped /\ FlagsTyped /\ CountersTyped
  BY DEF TypeOK, CatalogTyped, CallTyped, FlagsTyped, CountersTyped, Working, Item

(* Whoever moves, the others stand still.                                  *)
LEMMA Moves ==
  ASSUME [Next]_vars
  PROVE  \/ UNCHANGED vars
         \/ Tracker /\ CallUnchanged /\ UNCHANGED <<catalog, span>>
         \/ Administration /\ Edit
         \/ Resolve /\ UNCHANGED World
<1>1. ASSUME Tracker PROVE CallUnchanged /\ UNCHANGED <<catalog, span>>
  BY <1>1 DEF Tracker, ReportSuccess, ReportError, Consult, Tick, catalog, span
<1>2. ASSUME Administration PROVE Edit
  BY <1>2 DEF Administration, CreateProvider, UpdateProvider, DeleteProvider, CreateModel,
              UpdateModel, DeleteModel, CreateMapping, UpdateMapping, DeleteMapping,
              CreateFallback, DeleteFallback, CreateKey, UpdateKey, DeleteKey
<1>3. ASSUME Resolve PROVE UNCHANGED World
  BY <1>3 DEF Resolve, Start, ListMappings, FindProvider, ListKeys, PickHealthy, PickPenalty,
              DecryptToken, ListFallbacks, ApplyStrategy, ReadLeft, CompareRight
<1> QED
  BY <1>1, <1>2, <1>3 DEF Next

LEMMA SeqHead ==
  ASSUME NEW S, NEW s \in Seq(S), s # <<>>
  PROVE  /\ Head(s) = s[1] /\ s[1] \in S /\ Len(s) \in Nat /\ Len(s) >= 1
         /\ Tail(s) \in Seq(S) /\ Len(Tail(s)) = Len(s) - 1
         /\ \A n \in 1..Len(Tail(s)) : Tail(s)[n] = s[n + 1]
         /\ (Tail(s) = <<>> <=> Len(s) = 1)
<1>1. /\ Head(s) = s[1] /\ s[1] \in S /\ Len(s) \in Nat /\ Len(s) >= 1
      /\ Tail(s) \in Seq(S) /\ Len(Tail(s)) = Len(s) - 1
  OBVIOUS
<1>2. \A n \in 1..Len(Tail(s)) : Tail(s)[n] = s[n + 1]
  OBVIOUS
<1>3. Tail(s) = <<>> <=> Len(Tail(s)) = 0
  BY <1>1
<1> QED
  BY <1>1, <1>2, <1>3

LEMMA NextMappingTyped ==
  ASSUME CallTyped, Working, NextMapping
  PROVE  /\ Mapping \in todo /\ todo' = todo \ {Mapping} /\ queue' \in Seq(Item)
         /\ pc' \in {"provider", "fallbacks", "order", "mappings"}
         /\ pc' = "provider" => todo' # {} /\ queue' = queue /\ queue # <<>>
         /\ pc' = "mappings" => queue' # <<>>
<1>1. queue # <<>> /\ queue \in Seq(Item) /\ todo # {} /\ todo \subseteq RowType
  BY DEF CallTyped
<1>2. Mapping \in todo
  BY <1>1, MappingInTodo
<1>3. Tail(queue) \in Seq(Item)
  BY <1>1
<1> QED
  BY <1>1, <1>2, <1>3 DEF NextMapping, AfterModel

LEMMA UptimeType ==
  ASSUME NEW h, HealthTyped(h)
  PROVE  /\ Uptime(h)[1] \in Nat /\ Uptime(h)[2] \in Nat /\ Uptime(h)[2] > 0
         /\ Uptime(h) = <<Uptime(h)[1], Uptime(h)[2]>>
<1> DEFINE recent == PruneHistory(h.history)
           ok == {o \in recent : o.ok}
<1>1. IsFiniteSet(recent)
  BY PruneFinite DEF HealthTyped
<1>2. IsFiniteSet(ok)
  BY <1>1, FS_Subset
<1>3. Uptime(h) = IF recent = {} THEN <<1, 1>> ELSE <<Cardinality(ok), Cardinality(recent)>>
  BY DEF Uptime
<1> HIDE DEF recent, ok
<1>4. Cardinality(ok) \in Nat /\ Cardinality(recent) \in Nat
  BY <1>1, <1>2, FS_CardinalityType
<1>5. recent # {} => Cardinality(recent) > 0
  BY <1>1, <1>4, FS_EmptySet
<1> QED
  BY <1>3, <1>4, <1>5

(* A penalty is infinite or a fraction. *)
Fraction(p) ==
    /\ p.inf \in BOOLEAN
    /\ p.up[1] \in Nat /\ p.up[2] \in Nat /\ p.up[2] > 0

LEMMA PenaltyType ==
  ASSUME NEW h, HealthTyped(h)
  PROVE  /\ Fraction(UptimePenalty(h))
         /\ UptimePenalty(h) \in [inf : BOOLEAN, up : Nat \X Nat]
         /\ UptimePenalty(h).inf <=> h.dead
         /\ ~h.dead => UptimePenalty(h).up =
               IF 20 * Uptime(h)[1] >= 19 * Uptime(h)[2] THEN <<1, 1>> ELSE Uptime(h)
<1> DEFINE up == IF 20 * Uptime(h)[1] >= 19 * Uptime(h)[2] THEN <<1, 1>> ELSE Uptime(h)
<1>1. UptimePenalty(h) = IF h.dead THEN [inf |-> TRUE, up |-> <<0, 1>>]
                         ELSE [inf |-> FALSE, up |-> up]
  BY DEF UptimePenalty
<1>2. up[1] \in Nat /\ up[2] \in Nat /\ up[2] > 0 /\ up \in Nat \X Nat
  BY UptimeType
<1> HIDE DEF up
<1>3. CASE h.dead
  BY <1>1, <1>3 DEF Fraction
<1>4. CASE ~h.dead
  <2> DEFINE p == [inf |-> FALSE, up |-> up]
  <2>1. UptimePenalty(h) = p
    BY <1>1, <1>4
  <2>2. p.inf = FALSE /\ p.up = up /\ p \in [inf : BOOLEAN, up : Nat \X Nat]
    BY <1>2
  <2> HIDE DEF p
  <2>3. Fraction(p)
    BY <1>2, <2>2 DEF Fraction
  <2> QED
    BY <1>4, <2>1, <2>2, <2>3, Zenon DEF up
<1> QED
  BY <1>3, <1>4 DEF up

LEMMA RouteAdded ==
  ASSUME CallTyped, Working, best.key \in Key
  PROVE  LET r == [mapping |-> Mapping.id, model |-> Mapping.model,
                   provider |-> Mapping.provider, key |-> best.key,
                   price |-> Mapping.price, fallback |-> Current.fallback]
         IN  r \in RouteType
<1>1. Mapping \in RowType
  BY MappingInTodo DEF CallTyped
<1>2. Current \in Item
  BY SeqHead DEF CallTyped, Current
<1>3. Current.fallback \in BOOLEAN
  BY <1>2 DEF Item
<1> DEFINE f == Current.fallback
<1>4. f \in BOOLEAN
  BY <1>3
<1> HIDE DEF f
<1> QED
  BY <1>1, <1>4, RowFields DEF RouteType, f

LEMMA RearrangedRoutes ==
  ASSUME NEW S, NEW s \in Seq(S), NEW p \in [DOMAIN s -> DOMAIN s]
  PROVE  [n \in DOMAIN s |-> s[p[n]]] \in Seq(S)
<1>1. PICK len \in Nat : s \in [1..len -> S]
  OBVIOUS
<1>2. [n \in DOMAIN s |-> s[p[n]]] \in [1..len -> S]
  BY <1>1
<1> QED
  BY <1>2

LEMMA CallTypedStep ==
  ASSUME TypeOK, [Next]_vars
  PROVE  CallTyped'
<1>0. CallTyped
  BY TypeParts
<1>1. CASE CallUnchanged
  BY <1>0, <1>1 DEF CallUnchanged, CallTyped, Working, args, picking, sorting
<1>2. ASSUME NEW m \in Model, Start(m) PROVE CallTyped'
  <2>1. queue' \in Seq(Item) /\ queue' # <<>>
    BY <1>2 DEF Start, Item
  <2> QED
    BY <1>0, <1>2, <2>1 DEF Start, CallTyped, Working, Step, picking, sorting
<1>3. CASE ListMappings
  <2>1. /\ queue \in Seq(Item) /\ queue # <<>> /\ pc = "mappings" /\ Tail(queue) \in Seq(Item)
    BY <1>0, <1>3 DEF CallTyped, ListMappings
  <2>2. ActiveMappings(Current.model) \subseteq RowType
    BY TypeParts DEF CatalogTyped, ActiveMappings, ToSet
  <2>3. queue' \in Seq(Item) /\ todo' \subseteq RowType
    BY <1>0, <1>3, <2>1, <2>2 DEF ListMappings, CallTyped
  <2>4. /\ pc' \in {"fallbacks", "order", "mappings", "provider", "failed"}
        /\ pc' \in {"mappings", "provider"} => queue' # <<>>
        /\ pc' = "provider" => todo' # {}
    BY <1>3, <2>1 DEF ListMappings, AfterModel
  <2> QED
    BY <1>0, <1>3, <2>1, <2>3, <2>4
       DEF ListMappings, CallTyped, Working, Step, picking, sorting, args
<1>4. ASSUME NextMapping, Working, UNCHANGED <<args, routes, sorting, found>>,
             cands' \subseteq Key, best' \in Candidate \cup {None}
      PROVE  CallTyped'
  <2>1. /\ todo' \subseteq todo /\ queue' \in Seq(Item)
        /\ pc' \in {"provider", "fallbacks", "order", "mappings"}
        /\ pc' = "provider" => todo' # {} /\ queue' # <<>>
        /\ pc' = "mappings" => queue' # <<>>
    BY <1>0, <1>4, NextMappingTyped
  <2> QED
    BY <1>0, <1>4, <2>1 DEF CallTyped, Working, Step, sorting, args
<1>5. CASE FindProvider
  <2>1. CASE NextMapping
    BY <1>0, <1>4, <1>5, <2>1 DEF FindProvider, CallTyped, Working, picking
  <2>2. CASE pc' = "keys" /\ UNCHANGED <<todo, queue>>
    BY <1>0, <1>5, <2>2 DEF FindProvider, CallTyped, Working, Step, picking, sorting, args
  <2> QED
    BY <1>5, <2>1, <2>2 DEF FindProvider
<1>6. CASE ListKeys
  <2>0. cands' \subseteq Key
    BY <1>0, <1>6 DEF ListKeys, ActiveKeys, CallTyped
  <2>1. CASE NextMapping
    BY <1>0, <1>4, <1>6, <2>0, <2>1 DEF ListKeys, CallTyped, Working
  <2>2. CASE pc' = "healthy" /\ UNCHANGED <<todo, queue>> /\ cands' # {}
    BY <1>0, <1>6, <2>0, <2>2 DEF ListKeys, CallTyped, Working, Step, sorting, args
  <2> QED
    BY <1>6, <2>1, <2>2 DEF ListKeys
<1>7. CASE PickHealthy
  BY <1>0, <1>7 DEF PickHealthy, CallTyped, Working, Step, sorting, args
<1>8. CASE PickPenalty
  <2>1. NextKey \in cands /\ NextKey \in Key /\ pc = "penalty" /\ cands \subseteq Key
    BY <1>0, <1>8, NextKeyInCands DEF PickPenalty, CallTyped
  <2>2. HealthTyped(health[NextKey])
    BY <2>1, TypeParts DEF HealthTyped
  <2> DEFINE penalty == UptimePenalty(health[NextKey])
             new == [key |-> NextKey, penalty |-> penalty, healthy |-> healthy]
  <2>3. penalty \in [inf : BOOLEAN, up : Nat \X Nat]
    BY <2>2, PenaltyType
  <2>4. best' \in {new, best} /\ (best = None => best' = new)
    BY <1>8 DEF PickPenalty, Better
  <2> HIDE DEF penalty
  <2>5. new \in Candidate
    BY <2>1, <2>3, TypeParts DEF Candidate, FlagsTyped
  <2>6. best' \in Candidate
    BY <1>0, <2>4, <2>5 DEF CallTyped
  <2>7. best' # None
    BY <2>6, RoutingAssumption
  <2>8. cands' \subseteq Key /\ pc' \in {"healthy", "decrypt"} /\ (pc' = "healthy" => cands' # {})
    BY <1>8, <2>1 DEF PickPenalty
  <2> QED
    BY <1>0, <1>8, <2>1, <2>6, <2>7, <2>8
       DEF PickPenalty, CallTyped, Working, Step, sorting, args
<1>9. CASE DecryptToken
  <2>1. pc = "decrypt" /\ best \in Candidate /\ best.key \in Key
    BY <1>0, <1>9 DEF DecryptToken, CallTyped, Candidate
  <2> DEFINE r == [mapping |-> Mapping.id, model |-> Mapping.model,
                   provider |-> Mapping.provider, key |-> best.key,
                   price |-> Mapping.price, fallback |-> Current.fallback]
  <2>2. r \in RouteType
    BY <1>0, <2>1, RouteAdded DEF Working
  <2>3. routes' \in {routes, Append(routes, r)}
    BY <1>9 DEF DecryptToken
  <2> HIDE DEF r
  <2>4. routes' \in Seq(RouteType)
    <3>1. routes \in Seq(RouteType)
      BY <1>0 DEF CallTyped
    <3>2. Append(routes, r) \in Seq(RouteType)
      BY <2>2, <3>1
    <3> QED
      BY <2>3, <3>1, <3>2
  <2>5. /\ todo' \subseteq todo /\ queue' \in Seq(Item)
        /\ pc' \in {"provider", "fallbacks", "order", "mappings"}
        /\ pc' = "provider" => todo' # {} /\ queue' # <<>>
        /\ pc' = "mappings" => queue' # <<>>
    BY <1>0, <1>9, <2>1, NextMappingTyped DEF DecryptToken, Working
  <2> QED
    BY <1>0, <1>9, <2>4, <2>5 DEF DecryptToken, CallTyped, Working, Step, sorting, args
<1>10. CASE ListFallbacks
  <2>1. queue' \in Seq(Item)
    <3>1. ASSUME NEW s \in FallbacksOf(model),
                 queue' = [n \in DOMAIN s |-> [model |-> s[n].to, fallback |-> TRUE]]
          PROVE  queue' \in Seq(Item)
      <4> DEFINE rows == {f \in fallbacks : f.model = model}
      <4>1. fallbacks \subseteq FallbackType /\ IsFiniteSet(rows)
        BY TypeParts, FS_Subset DEF CatalogTyped
      <4>2. Cardinality(rows) \in Nat
        BY <4>1, FS_CardinalityType
      <4>3. s \in [1..Cardinality(rows) -> rows]
        BY <3>1 DEF FallbacksOf, Bijection, Injection
      <4>4. rows \subseteq FallbackType
        BY <4>1
      <4> HIDE DEF rows
      <4>5. \A n \in 1..Cardinality(rows) : [model |-> s[n].to, fallback |-> TRUE] \in Item
        BY <4>3, <4>4 DEF FallbackType, Item
      <4>6. queue' \in [1..Cardinality(rows) -> Item]
        BY <3>1, <4>3, <4>5
      <4> QED
        BY <4>2, <4>6
    <3>2. <<>> \in Seq(Item)
      OBVIOUS
    <3> QED
      BY <1>10, <3>1, <3>2 DEF ListFallbacks
  <2> QED
    BY <1>0, <1>10, <2>1 DEF ListFallbacks, CallTyped, Working, Step, picking, sorting, args
<1>11. CASE ApplyStrategy
  <2>1. routes \in Seq(RouteType) /\ pc = "order"
    BY <1>0, <1>11 DEF CallTyped, ApplyStrategy
  <2>2. CASE pc' = "left" /\ i' = 2 /\ j' = 2 /\ UNCHANGED routes /\ Len(routes) > 1
    <3>1. i' \in 2..Len(routes') /\ j' \in 2..i'
      BY <2>1, <2>2
    <3> QED
      BY <1>0, <1>11, <2>1, <2>2, <3>1 DEF ApplyStrategy, CallTyped, Working, Step, picking
  <2>3. ASSUME NEW p \in Orders(strategy'), pc' = "done",
               routes' = [n \in DOMAIN routes |-> routes[p[n]]]
        PROVE  CallTyped'
    <3>1. p \in [DOMAIN routes -> DOMAIN routes]
      BY DEF Orders, Bijection, Injection
    <3>2. routes' \in Seq(RouteType)
      BY <2>1, <2>3, <3>1, RearrangedRoutes
    <3> QED
      BY <1>0, <1>11, <2>1, <2>3, <3>2 DEF ApplyStrategy, CallTyped, Working, Step, picking
  <2> QED
    BY <1>11, <2>2, <2>3 DEF ApplyStrategy
<1>12. CASE ReadLeft
  BY <1>0, <1>12 DEF ReadLeft, CallTyped, Working, Step, picking, args
<1>13. CASE CompareRight
  <2>1. /\ pc = "right" /\ routes \in Seq(RouteType) /\ Len(routes) \in Nat
        /\ i \in 2..Len(routes) /\ j \in 2..i
    BY <1>0, <1>13 DEF CallTyped, CompareRight
  <2>2. routes' \in {routes, [routes EXCEPT ![j] = routes[j - 1], ![j - 1] = routes[j]]}
    BY <1>13 DEF CompareRight
  <2>3. j \in DOMAIN routes /\ j - 1 \in DOMAIN routes
    BY <2>1
  <2>4. routes' \in Seq(RouteType) /\ Len(routes') = Len(routes)
    BY <2>1, <2>2, <2>3
  <2>5. \/ j' = j - 1 /\ i' = i /\ j > 2 /\ pc' = "left"
        \/ i' = i + 1 /\ j' = i + 1 /\ pc' = IF i < Len(routes) THEN "left" ELSE "done"
    BY <1>13 DEF CompareRight
  <2>6. pc' \in {"left", "done"} /\ (pc' = "left" => i' \in 2..Len(routes') /\ j' \in 2..i')
    BY <2>1, <2>4, <2>5
  <2> QED
    BY <1>0, <1>13, <2>1, <2>4, <2>6 DEF CompareRight, CallTyped, Working, Step, picking, args
<1>14. CASE UNCHANGED vars
  BY <1>1, <1>14 DEF vars, CallUnchanged
<1>15. CASE Resolve
  BY <1>2, <1>3, <1>5, <1>6, <1>7, <1>8, <1>9, <1>10, <1>11, <1>12, <1>13, <1>15 DEF Resolve
<1> QED
  BY <1>1, <1>14, <1>15, Moves DEF Edit

LEMMA FlagsTypedStep ==
  ASSUME TypeOK, [Next]_vars
  PROVE  FlagsTyped'
<1>0. FlagsTyped
  BY TypeParts
<1>1. CASE UNCHANGED vars
  BY <1>0, <1>1 DEF vars, FlagsTyped, picking, watch
<1>2. CASE Tracker
  BY <1>0, <1>2 DEF Tracker, ReportSuccess, ReportError, Consult, Tick, NoteHealth,
                    CallUnchanged, FlagsTyped, picking, watch
<1>3. CASE Edit
  BY <1>0, <1>3 DEF Edit, CallUnchanged, FlagsTyped, picking, watch
<1>4. CASE Resolve
  <2> USE <1>0 DEF FlagsTyped, picking, watch, Works, Fails, Unwatch
  <2>1. ASSUME NEW m \in Model, Start(m) PROVE FlagsTyped'
    BY <2>1 DEF Start
  <2>2. CASE ListMappings
    BY <2>2 DEF ListMappings
  <2>3. CASE FindProvider
    BY <2>3 DEF FindProvider
  <2>4. CASE ListKeys
    BY <2>4 DEF ListKeys
  <2>5. CASE PickHealthy
    <3>1. ASSUME NEW h PROVE IsHealthy(h) \in BOOLEAN
      BY Zenon DEF IsHealthy
    <3> QED
      BY <2>5, <3>1 DEF PickHealthy
  <2>6. CASE PickPenalty
    BY <2>6 DEF PickPenalty
  <2>7. CASE DecryptToken
    BY <2>7 DEF DecryptToken
  <2>8. CASE ListFallbacks
    BY <2>8 DEF ListFallbacks
  <2>9. CASE ApplyStrategy
    BY <2>9 DEF ApplyStrategy
  <2>10. CASE ReadLeft
    BY <2>10 DEF ReadLeft
  <2>11. CASE CompareRight
    BY <2>11 DEF CompareRight
  <2> QED
    BY <1>4, <2>1, <2>2, <2>3, <2>4, <2>5, <2>6, <2>7, <2>8, <2>9, <2>10, <2>11 DEF Resolve
<1> QED
  BY <1>1, <1>2, <1>3, <1>4, Moves

LEMMA CountersTypedStep ==
  ASSUME TypeOK, [Next]_vars
  PROVE  CountersTyped'
<1>0. CountersTyped
  BY TypeParts
<1>1. CASE UNCHANGED vars
  BY <1>0, <1>1 DEF vars, CountersTyped
<1>2. CASE Tracker
  <2>1. ASSUME NEW k \in Key
        PROVE  /\ [streak EXCEPT ![k] = 0] \in [Key -> 0..Threshold]
               /\ [streak EXCEPT ![k] = IF @ < Threshold THEN @ + 1 ELSE @]
                      \in [Key -> 0..Threshold]
    BY <1>0, RoutingAssumption DEF CountersTyped
  <2>2. streak' \in [Key -> 0..Threshold]
    BY <1>0, <1>2, <2>1
       DEF Tracker, ReportSuccess, ReportError, Consult, Tick, CountersTyped
  <2>3. {reports', ticks', writes', faults'} \subseteq Nat
    BY <1>0, <1>2 DEF Tracker, ReportSuccess, ReportError, Consult, Tick, CountersTyped
  <2> QED
    BY <2>2, <2>3 DEF CountersTyped
<1>3. CASE Edit
  BY <1>0, <1>3 DEF Edit, CallUnchanged, CountersTyped
<1>4. CASE Resolve /\ UNCHANGED World
  <2>1. faults' \in {faults, faults + 1}
    BY <1>4 DEF Resolve, Start, ListMappings, FindProvider, ListKeys, PickHealthy, PickPenalty,
                DecryptToken, ListFallbacks, ApplyStrategy, ReadLeft, CompareRight,
                Works, Fails
  <2> QED
    BY <1>0, <1>4, <2>1 DEF World, CountersTyped
<1> QED
  BY <1>1, <1>2, <1>3, <1>4, Moves

LEMMA CatalogTypedStep ==
  ASSUME TypeOK, FallbacksDistinct, [Next]_vars
  PROVE  CatalogTyped' /\ FallbacksDistinct'
<1>0. CatalogTyped
  BY TypeParts
<1>1. CASE UNCHANGED catalog
  BY <1>0, <1>1 DEF catalog, CatalogTyped, FallbacksDistinct
<1>2. CASE Administration
  BY <1>0, <1>2, AdministrationDoes DEF CatalogTyped, RowsKept
<1> QED
  BY <1>1, <1>2, Moves DEF vars, World

(* Every variable keeps its type, and no two fallbacks are of the same two *)
(* models.                                                                 *)
THEOREM TypeCorrect == Spec => [](TypeOK /\ FallbacksDistinct)
<1>1. Init => TypeOK /\ FallbacksDistinct
  <2> SUFFICES ASSUME Init PROVE TypeOK /\ FallbacksDistinct
    OBVIOUS
  <2>1. CatalogTyped /\ FallbacksDistinct
    BY RoutingAssumption DEF Init, CatalogTyped, FallbacksDistinct, Status
  <2>2. CallTyped
    BY DEF Init, CallTyped, Working, Step, Strategy
  <2>3. FlagsTyped /\ CountersTyped
    <3>1. FlagsTyped
      BY DEF Init, FlagsTyped
    <3>2. 0 \in 0..Threshold
      BY RoutingAssumption
    <3>3. CountersTyped
      BY <3>2 DEF Init, CountersTyped
    <3> QED
      BY <3>1, <3>3
  <2>4. health \in [Key -> HealthType] /\ \A k \in Key : IsFiniteSet(health[k].history)
    <3>1. NewHealth \in HealthType /\ IsFiniteSet(NewHealth.history)
      BY RoutingAssumption, FS_EmptySet DEF NewHealth, HealthType
    <3> QED
      BY <3>1 DEF Init
  <2> QED
    BY <2>1, <2>2, <2>3, <2>4, TypeParts
<1>2. TypeOK /\ FallbacksDistinct /\ [Next]_vars => (TypeOK /\ FallbacksDistinct)'
  <2> SUFFICES ASSUME TypeOK, FallbacksDistinct, [Next]_vars
               PROVE  TypeOK' /\ FallbacksDistinct'
    OBVIOUS
  <2>1. /\ CatalogTyped' /\ FallbacksDistinct' /\ CallTyped' /\ FlagsTyped' /\ CountersTyped'
        /\ health' \in [Key -> HealthType] /\ \A k \in Key : IsFiniteSet(health'[k].history)
    BY CatalogTypedStep, CallTypedStep, FlagsTypedStep, CountersTypedStep, RecordsTyped
  <2> QED
    BY <2>1 DEF TypeOK, CatalogTyped, CallTyped, FlagsTyped, CountersTyped, Working, Item
<1> QED
  BY <1>1, <1>2, PTL DEF Spec

----------------------------------------------------------------------------
(* Which key is picked.                                                    *)

LEMMA Scaled ==
  ASSUME NEW x \in Nat, NEW y \in Nat, NEW d \in Nat, d > 0
  PROVE  x > y <=> x * d > y * d
<1>1. ASSUME x > y PROVE x * d > y * d
  <2>1. PICK e \in Nat : x = y + e /\ e > 0
    <3>1. x - y \in Nat /\ x = y + (x - y) /\ x - y > 0
      BY <1>1
    <3> QED
      BY <3>1
  <2>2. x * d = y * d + e * d
    BY <2>1
  <2>3. e * d > 0 /\ e * d \in Nat /\ y * d \in Nat
    BY <2>1
  <2> QED
    BY <2>2, <2>3
<1>2. ASSUME ~(x > y) PROVE ~(x * d > y * d)
  <2>1. PICK e \in Nat : y = x + e
    <3>1. y - x \in Nat /\ y = x + (y - x)
      BY <1>2
    <3> QED
      BY <3>1
  <2>2. y * d = x * d + e * d
    BY <2>1
  <2>3. e * d \in Nat /\ x * d \in Nat
    BY <2>1
  <2> QED
    BY <2>2, <2>3
<1> QED
  BY <1>1, <1>2

(* a/b > c/d > e/f *)
LEMMA FractionsOrdered ==
  ASSUME NEW a \in Nat, NEW b \in Nat, NEW c \in Nat, NEW d \in Nat, NEW e \in Nat,
         NEW f \in Nat, b > 0, d > 0, f > 0, a * d > c * b, c * f > e * d
  PROVE  a * f > e * b
<1>1. (a * d) * f > (c * b) * f
  <2>1. a * d \in Nat /\ c * b \in Nat
    OBVIOUS
  <2> QED
    BY <2>1, Scaled
<1>2. (c * f) * b > (e * d) * b
  <2>1. c * f \in Nat /\ e * d \in Nat
    OBVIOUS
  <2> QED
    BY <2>1, Scaled
<1>3. (a * f) * d = (a * d) * f /\ (e * b) * d = (e * d) * b /\ (c * b) * f = (c * f) * b
  OBVIOUS
<1>4. a * f \in Nat /\ e * b \in Nat
  OBVIOUS
<1>5. (a * f) * d > (e * b) * d
  <2>1. (a * d) * f \in Nat /\ (c * b) * f \in Nat /\ (e * d) * b \in Nat
    OBVIOUS
  <2> QED
    BY <1>1, <1>2, <1>3, <2>1
<1> QED
  BY <1>4, <1>5, Scaled

LEMMA PenaltiesOrdered ==
  ASSUME NEW p, NEW q, NEW r, Fraction(p), Fraction(q), Fraction(r),
         LessPenalty(p, q), LessPenalty(q, r)
  PROVE  LessPenalty(p, r)
<1>1. ~p.inf /\ ~q.inf /\ p.up[1] * q.up[2] > q.up[1] * p.up[2]
  BY DEF LessPenalty
<1>2. CASE r.inf
  BY <1>1, <1>2 DEF LessPenalty
<1>3. CASE ~r.inf
  <2>1. q.up[1] * r.up[2] > r.up[1] * q.up[2]
    BY <1>3 DEF LessPenalty
  <2>2. p.up[1] * r.up[2] > r.up[1] * p.up[2]
    BY <1>1, <2>1, FractionsOrdered DEF Fraction
  <2> QED
    BY <1>1, <2>2 DEF LessPenalty
<1> QED
  BY <1>2, <1>3

LEMMA PenaltyIrreflexive == ASSUME NEW p, Fraction(p) PROVE ~LessPenalty(p, p)
<1>1. p.up[1] * p.up[2] \in Nat
  BY DEF Fraction
<1> QED
  BY <1>1 DEF LessPenalty

(* Reading a record changes nothing that a pick reads.                     *)
Standing(g, h) == (Sick(g) <=> Sick(h)) /\ UptimePenalty(g) = UptimePenalty(h)

LEMMA LookedStanding ==
  ASSUME NEW h, HealthTyped(h)
  PROVE  Standing(AfterIsHealthy(h), h)
<1>1. CASE ~h.dead /\ h.errors >= Threshold /\ h.rested >= Rest
  <2> DEFINE g == AfterIsHealthy(h)
  <2>1. g = [h EXCEPT !.errors = 0]
    BY <1>1 DEF AfterIsHealthy
  <2>2. g.dead = h.dead /\ g.history = h.history /\ g.errors = 0 /\ g.rested = h.rested
    BY <2>1, HealthFields DEF HealthTyped
  <2> HIDE DEF g
  <2>3. Uptime(g) = Uptime(h)
    BY <2>2 DEF Uptime
  <2>4. UptimePenalty(g) = UptimePenalty(h)
    BY <2>2, <2>3 DEF UptimePenalty
  <2>5. ~Sick(g) /\ ~Sick(h)
    BY <1>1, <2>2, HealthFields, RoutingAssumption DEF Sick, HealthTyped
  <2> QED
    BY <2>4, <2>5 DEF Standing, g
<1>2. CASE ~(~h.dead /\ h.errors >= Threshold /\ h.rested >= Rest)
  BY <1>2 DEF AfterIsHealthy, Standing
<1> QED
  BY <1>1, <1>2

LEMMA PrunedStanding ==
  ASSUME NEW h, HealthTyped(h)
  PROVE  Standing([h EXCEPT !.history = PruneHistory(h.history)], h)
<1> DEFINE s == PruneHistory(h.history)
           g == [h EXCEPT !.history = s]
<1>1. PruneHistory(s) = s
  BY DEF PruneHistory
<1> HIDE DEF s
<1>2. g.dead = h.dead /\ g.history = s /\ g.errors = h.errors /\ g.rested = h.rested
  BY HealthFields DEF HealthTyped
<1> HIDE DEF g
<1>3. Uptime(g) = Uptime(h)
  BY <1>1, <1>2 DEF Uptime, s
<1>4. UptimePenalty(g) = UptimePenalty(h)
  BY <1>2, <1>3 DEF UptimePenalty
<1>5. Sick(g) <=> Sick(h)
  BY <1>2 DEF Sick
<1> QED
  BY <1>4, <1>5 DEF Standing, g, s

LEMMA StandingKept ==
  ASSUME TypeOK, LeavesHealth \/ (\E k : LooksAt(k)) \/ (\E k : Prunes(k)), NEW k \in Key
  PROVE  Standing(health'[k], health[k])
<1>0. health \in [Key -> HealthType] /\ HealthTyped(health[k])
  BY TypeParts DEF HealthTyped
<1>1. CASE LeavesHealth
  BY <1>1 DEF LeavesHealth, Standing
<1>2. ASSUME NEW x, LooksAt(x) PROVE Standing(health'[k], health[k])
  <2>1. health'[k] \in {health[k], AfterIsHealthy(health[k])}
    BY <1>0, <1>2 DEF LooksAt
  <2> QED
    BY <1>0, <2>1, LookedStanding DEF Standing
<1>3. ASSUME NEW x, Prunes(x) PROVE Standing(health'[k], health[k])
  <2>1. health'[k] \in {health[k], [health[k] EXCEPT !.history = PruneHistory(health[k].history)]}
    BY <1>0, <1>3 DEF Prunes
  <2> QED
    BY <1>0, <2>1, PrunedStanding DEF Standing
<1> QED
  BY <1>1, <1>2, <1>3

LEMMA HealthyMeans ==
  ASSUME NEW h, HealthTyped(h)
  PROVE  IsHealthy(h) <=> ~Sick(h)
  BY HealthFields, RoutingAssumption DEF IsHealthy, Sick, HealthTyped

(* The best key so far: what IsHealthy said of it, and of those it was     *)
(* preferred to, was so at some moment of the pick; while nothing is       *)
(* reported it is still so, and none of the others is better.              *)
BestSound ==
    /\ best.key \in Examined
    /\ best.healthy => best.key \notin sickAll
    /\ ~best.healthy => Examined \subseteq sickEver
    /\ quiet =>
          /\ best.healthy <=> ~Sick(health[best.key])
          /\ best.penalty = UptimePenalty(health[best.key])
          /\ \A k \in Examined : ~Sick(health[k]) =>
                best.healthy /\ ~LessPenalty(UptimePenalty(health[k]), best.penalty)

(* What IsHealthy said of the key in work. *)
HeardSound ==
    pc = "penalty" =>
        /\ healthy => NextKey \notin sickAll
        /\ ~healthy => NextKey \in sickEver
        /\ quiet => (healthy <=> ~Sick(health[NextKey]))

SickSound ==
    pc \in {"healthy", "penalty"} =>
        \A k \in Key : /\ k \in sickAll => Sick(health[k])
                       /\ Sick(health[k]) => k \in sickEver

PickInv ==
    /\ SickSound /\ HeardSound
    /\ ~Picking => best = None
    /\ pc = "decrypt" => cands = {}
    /\ Picking =>
          /\ cands \subseteq listed /\ listed \subseteq Key
          /\ Examined # {} => best # None
          /\ best # None => BestSound

LEMMA NextKeySame == ASSUME cands' = cands PROVE NextKey' = NextKey
  BY DEF NextKey

LEMMA NextKeyTyped ==
  ASSUME TypeOK, pc \in {"healthy", "penalty"}
  PROVE  NextKey \in cands /\ NextKey \in Key /\ HealthTyped(health[NextKey])
<1>1. cands \subseteq Key /\ cands # {}
  BY TypeParts DEF CallTyped
<1>2. NextKey \in Key
  BY <1>1, NextKeyInCands
<1> QED
  BY <1>1, <1>2, NextKeyInCands, TypeParts DEF HealthTyped

(* Steps that change neither the pick nor what it can tell of a key.       *)
LEMMA BestStands ==
  ASSUME PickInv, Picking, best # None, UNCHANGED <<cands, best, watch>>,
         \A k \in Key : Standing(health'[k], health[k])
  PROVE  BestSound'
<1>1. BestSound /\ listed \subseteq Key
  BY DEF PickInv
<1>2. best.key \in Key /\ Examined \subseteq Key /\ Examined' = Examined
  BY <1>1 DEF BestSound, Examined, watch
<1> QED
  BY <1>1, <1>2 DEF BestSound, Standing, watch

LEMMA CalmPick ==
  ASSUME TypeOK, PickInv, UNCHANGED <<pc, picking, watch>>,
         \A k \in Key : Standing(health'[k], health[k])
  PROVE  PickInv'
<1>1. SickSound'
  BY DEF PickInv, SickSound, Standing, watch
<1>2. HeardSound'
  <2> SUFFICES ASSUME pc = "penalty"
               PROVE /\ healthy => NextKey \notin sickAll
                     /\ ~healthy => NextKey \in sickEver
                     /\ quiet => (healthy <=> ~Sick(health'[NextKey]))
    BY NextKeySame DEF HeardSound, picking, watch
  <2>1. NextKey \in Key
    BY NextKeyTyped
  <2> QED
    BY <2>1 DEF PickInv, HeardSound, Standing
<1>3. Picking /\ best # None => BestSound'
  BY BestStands DEF picking
<1> QED
  BY <1>1, <1>2, <1>3 DEF PickInv, Picking, Examined, picking, watch

LEMMA OutsidePick ==
  ASSUME pc' \notin {"healthy", "penalty", "decrypt"}, best' = None
  PROVE  PickInv'
  BY DEF PickInv, SickSound, HeardSound, Picking

(* A report, or time: what was noted of the keys is noted for good.        *)
LEMMA NotedPick ==
  ASSUME PickInv, CallUnchanged, NoteHealth
  PROVE  PickInv'
<1>1. UNCHANGED <<pc, cands, best, healthy, listed>>
  BY DEF CallUnchanged, picking, NoteHealth
<1>2. /\ sickAll' \subseteq sickAll /\ sickEver \subseteq sickEver'
      /\ Picking => quiet' = FALSE
  BY DEF NoteHealth, Picking
<1>3. SickSound'
  BY <1>1 DEF NoteHealth, SickSound
<1>4. HeardSound'
  BY <1>1, <1>2, NextKeySame DEF PickInv, HeardSound, Picking
<1>5. Picking /\ best # None => BestSound'
  BY <1>1, <1>2 DEF PickInv, BestSound, Examined
<1> QED
  BY <1>1, <1>3, <1>4, <1>5 DEF PickInv, Picking, Examined

LEMMA PickStarts ==
  ASSUME TypeOK, PickInv, ListKeys
  PROVE  PickInv'
<1>1. pc = "keys" /\ best = None /\ best' = None
  BY DEF ListKeys, PickInv, Picking
<1>2. CASE NextMapping
  <2>1. pc' \in {"provider", "fallbacks", "order", "mappings"}
    BY <1>1, <1>2, NextMappingTyped, TypeParts DEF Working
  <2> QED
    BY <1>1, <2>1, OutsidePick
<1>3. CASE /\ pc' = "healthy" /\ cands' = ActiveKeys(Mapping.provider) /\ listed' = cands'
           /\ sickAll' = {k \in Key : Sick(health[k])} /\ sickEver' = sickAll'
           /\ UNCHANGED health
  <2>1. cands' \subseteq Key /\ Examined' = {}
    BY <1>3 DEF ActiveKeys, Examined
  <2>2. SickSound'
    BY <1>3 DEF SickSound
  <2> QED
    BY <1>1, <1>3, <2>1, <2>2 DEF PickInv, HeardSound, Picking
<1> QED
  BY <1>2, <1>3 DEF ListKeys

LEMMA KeyHeard ==
  ASSUME TypeOK, PickInv, PickHealthy, \A k \in Key : Standing(health'[k], health[k])
  PROVE  PickInv'
<1>1. pc = "healthy" /\ pc' = "penalty" /\ UNCHANGED <<cands, best, watch>>
  BY DEF PickHealthy
<1>2. NextKey \in Key /\ HealthTyped(health[NextKey]) /\ NextKey' = NextKey
  BY <1>1, NextKeyTyped, NextKeySame
<1>3. healthy' <=> ~Sick(health[NextKey])
  BY <1>2, HealthyMeans DEF PickHealthy
<1>4. SickSound'
  BY <1>1 DEF PickInv, SickSound, Standing, watch
<1>5. HeardSound'
  <2>1. Sick(health'[NextKey]) <=> Sick(health[NextKey])
    BY <1>2 DEF Standing
  <2>2. /\ NextKey \in sickAll => Sick(health[NextKey])
        /\ Sick(health[NextKey]) => NextKey \in sickEver
    BY <1>1, <1>2 DEF PickInv, SickSound
  <2> QED
    BY <1>1, <1>2, <1>3, <2>1, <2>2 DEF HeardSound, watch
<1>6. best # None => BestSound'
  BY <1>1, BestStands DEF Picking
<1> QED
  BY <1>1, <1>4, <1>5, <1>6 DEF PickInv, Picking, Examined, watch

(* The key in work is the best so far, or it is not.                       *)
LEMMA KeyWeighed ==
  ASSUME TypeOK, PickInv, PickPenalty, \A k \in Key : Standing(health'[k], health[k])
  PROVE  PickInv'
<1> DEFINE k == NextKey
           penalty(l) == UptimePenalty(health[l])
<1>0. pc = "penalty" /\ pc' \in {"healthy", "decrypt"} /\ UNCHANGED watch
  BY DEF PickPenalty
<1>1. k \in cands /\ k \in Key
  BY <1>0, NextKeyTyped
<1>2. /\ cands \subseteq listed /\ listed \subseteq Key /\ (Examined # {} => best # None)
      /\ best # None => BestSound
  BY <1>0 DEF PickInv, Picking
<1>3. /\ healthy => k \notin sickAll
      /\ ~healthy => k \in sickEver
      /\ quiet => (healthy <=> ~Sick(health[k]))
  BY <1>0 DEF PickInv, HeardSound
<1>4. /\ cands' = cands \ {k} /\ Examined' = Examined \cup {k} /\ Examined \subseteq Key
      /\ pc' = IF cands' = {} THEN "decrypt" ELSE "healthy"
  BY <1>1, <1>2 DEF PickPenalty, Examined, watch
<1>5. ASSUME NEW l \in Key PROVE /\ Fraction(penalty(l))
                                 /\ UptimePenalty(health'[l]) = penalty(l)
                                 /\ Sick(health'[l]) <=> Sick(health[l])
  <2>1. HealthTyped(health[l])
    BY TypeParts DEF HealthTyped
  <2> QED
    BY <2>1, PenaltyType DEF Standing
<1>6. healthy \in BOOLEAN /\ best \in Candidate \cup {None} /\ None \notin Candidate
  BY TypeParts, RoutingAssumption DEF FlagsTyped, CallTyped
<1>7. best' = IF Better(healthy, penalty(k))
              THEN [key |-> k, penalty |-> penalty(k), healthy |-> healthy] ELSE best
  BY DEF PickPenalty
<1> HIDE DEF k, penalty
<1>8. ASSUME Better(healthy, penalty(k)) PROVE best' # None /\ BestSound'
  <2>1. best'.key = k /\ best'.penalty = penalty(k) /\ best'.healthy = healthy
    BY <1>7, <1>8
  <2>2. best' # None
    <3>1. penalty(k) \in [inf : BOOLEAN, up : Nat \X Nat]
      <4>1. HealthTyped(health[k])
        BY <1>1, TypeParts DEF HealthTyped
      <4> QED
        BY <4>1, PenaltyType DEF penalty
    <3>2. best' \in Candidate
      BY <1>1, <1>6, <1>7, <1>8, <3>1 DEF Candidate
    <3> QED
      BY <1>6, <3>2
  <2>3. ASSUME best # None, ~healthy PROVE ~best.healthy
    BY <1>8, <2>3, <1>6 DEF Better, Candidate
  <2>4. ~healthy => Examined' \subseteq sickEver
    BY <1>2, <1>3, <1>4, <2>3 DEF BestSound
  <2>5. ASSUME quiet, NEW l \in Examined', ~Sick(health[l])
        PROVE  healthy /\ ~LessPenalty(penalty(l), penalty(k))
    <3>1. CASE l = k
      BY <1>1, <1>3, <1>5, <2>5, <3>1, PenaltyIrreflexive
    <3>2. CASE l \in Examined
      <4>1. best # None /\ best.healthy /\ ~LessPenalty(penalty(l), best.penalty)
        BY <1>2, <2>5, <3>2 DEF BestSound, penalty
      <4>2. healthy /\ LessPenalty(penalty(k), best.penalty)
        BY <1>8, <4>1, <1>6 DEF Better, Candidate
      <4>3. Fraction(best.penalty)
        <5>1. best.key \in Key /\ best.penalty = penalty(best.key)
          BY <1>2, <1>4, <2>5, <4>1 DEF BestSound, penalty
        <5> QED
          BY <1>5, <5>1
      <4> QED
        BY <1>1, <1>4, <1>5, <3>2, <4>1, <4>2, <4>3, PenaltiesOrdered
    <3> QED
      BY <1>4, <2>5, <3>1, <3>2
  <2>6. BestSound'
    <3>1. ASSUME NEW l \in Examined' PROVE /\ UptimePenalty(health'[l]) = penalty(l)
                                           /\ Sick(health'[l]) <=> Sick(health[l])
      BY <1>1, <1>4, <1>5
    <3>2. k \in Examined'
      BY <1>4
    <3> QED
      BY <1>0, <1>3, <2>1, <2>4, <2>5, <3>1, <3>2 DEF BestSound, watch
  <2> QED
    BY <2>2, <2>6
<1>9. ASSUME ~Better(healthy, penalty(k)) PROVE best' # None /\ BestSound'
  <2>1. best' = best /\ best # None
    BY <1>7, <1>9 DEF Better
  <2>2. BestSound
    BY <1>2, <2>1
  <2>3. healthy => best.healthy
    BY <1>9, <2>1 DEF Better
  <2>4. healthy => ~LessPenalty(penalty(k), best.penalty)
    BY <1>9, <1>6, <2>1, <2>3 DEF Better, Candidate
  <2>5. best.key \in Key
    BY <1>4, <2>2 DEF BestSound
  <2>6. BestSound'
    <3>1. ASSUME NEW l \in Examined' PROVE /\ UptimePenalty(health'[l]) = penalty(l)
                                           /\ Sick(health'[l]) <=> Sick(health[l])
      BY <1>1, <1>4, <1>5
    <3>2. best.key \in Examined'
      BY <1>4, <2>2 DEF BestSound
    <3>3. ~best.healthy => Examined' \subseteq sickEver
      BY <1>3, <1>4, <2>2, <2>3 DEF BestSound
    <3>4. ASSUME quiet, NEW l \in Examined', ~Sick(health[l])
          PROVE  best.healthy /\ ~LessPenalty(penalty(l), best.penalty)
      <4>1. CASE l = k
        BY <1>3, <2>3, <2>4, <3>4, <4>1
      <4>2. CASE l \in Examined
        BY <2>2, <3>4, <4>2 DEF BestSound, penalty
      <4> QED
        BY <1>4, <3>4, <4>1, <4>2
    <3>5. best.healthy => best.key \notin sickAll
      BY <2>2 DEF BestSound
    <3>6. quiet => /\ best.healthy <=> ~Sick(health[best.key])
                   /\ best.penalty = penalty(best.key)
      BY <2>2 DEF BestSound, penalty
    <3> QED
      BY <1>0, <2>1, <3>1, <3>2, <3>3, <3>4, <3>5, <3>6 DEF BestSound, watch
  <2> QED
    BY <2>1, <2>6
<1>10. SickSound'
  BY <1>0, <1>5 DEF PickInv, SickSound, watch
<1>11. best' # None /\ BestSound'
  BY <1>8, <1>9
<1> QED
  BY <1>0, <1>2, <1>4, <1>10, <1>11 DEF PickInv, HeardSound, Picking, Examined, watch

LEMMA PickInvStep ==
  ASSUME TypeOK, PickInv, [Next]_vars
  PROVE  PickInv'
<1> DEFINE Stands == \A k \in Key : Standing(health'[k], health[k])
<1>0. LeavesHealth \/ (\E k : LooksAt(k)) \/ (\E k : Prunes(k)) => Stands
  BY StandingKept
<1> HIDE DEF Stands
<1>1. CASE UNCHANGED vars
  <2>1. Stands
    BY <1>0, <1>1 DEF vars, LeavesHealth
  <2> QED
    BY <1>1, <2>1, CalmPick DEF vars, Stands
<1>2. CASE Tracker
  <2>1. ASSUME NEW k, Consult(k) PROVE PickInv'
    <3>1. LooksAt(k) /\ UNCHANGED <<pc, picking, watch>>
      BY <2>1 DEF Consult, LooksAt, CallUnchanged
    <3> QED
      BY <1>0, <3>1, CalmPick DEF Stands
  <2>2. CASE CallUnchanged /\ NoteHealth
    BY <2>2, NotedPick
  <2> QED
    BY <1>2, <2>1, <2>2 DEF Tracker, ReportSuccess, ReportError, Tick
<1>3. CASE Edit
  <2>1. LeavesHealth /\ UNCHANGED <<pc, picking, watch>>
    BY <1>3 DEF Edit, CallUnchanged, LeavesHealth
  <2> QED
    BY <1>0, <2>1, CalmPick DEF Stands
<1>4. CASE Resolve /\ UNCHANGED World
  <2>0. UNCHANGED streak
    BY <1>4 DEF World
  <2>1. ASSUME NEW m \in Model, Start(m) PROVE PickInv'
    <3>1. pc' \notin {"healthy", "penalty", "decrypt"} /\ best' = None
      BY <2>1 DEF Start, PickInv, Picking, picking
    <3> QED
      BY <3>1, OutsidePick
  <2>2. CASE ListMappings
    <3>1. pc' \notin {"healthy", "penalty", "decrypt"} /\ best' = None
      BY <2>2 DEF ListMappings, AfterModel, PickInv, Picking, picking
    <3> QED
      BY <3>1, OutsidePick
  <2>3. CASE FindProvider
    <3>1. pc' \notin {"healthy", "penalty", "decrypt"} /\ best' = None
      BY <2>3 DEF FindProvider, NextMapping, AfterModel, PickInv, Picking, picking
    <3> QED
      BY <3>1, OutsidePick
  <2>4. CASE ListKeys
    BY <2>4, PickStarts
  <2>5. CASE PickHealthy
    <3>1. LooksAt(NextKey)
      BY <2>0, <2>5 DEF PickHealthy, LooksAt
    <3>2. Stands
      BY <1>0, <3>1
    <3> QED
      BY <2>5, <3>2, KeyHeard DEF Stands
  <2>6. CASE PickPenalty
    <3>1. Prunes(NextKey)
      BY <2>0, <2>6 DEF PickPenalty, Pruned, Prunes
    <3>2. Stands
      BY <1>0, <3>1
    <3> QED
      BY <2>6, <3>2, KeyWeighed DEF Stands
  <2>7. CASE DecryptToken
    <3>1. pc' \notin {"healthy", "penalty", "decrypt"} /\ best' = None
      BY <2>7 DEF DecryptToken, NextMapping, AfterModel
    <3> QED
      BY <3>1, OutsidePick
  <2>8. CASE ListFallbacks
    <3>1. pc' \notin {"healthy", "penalty", "decrypt"} /\ best' = None
      BY <2>8 DEF ListFallbacks, PickInv, Picking, picking
    <3> QED
      BY <3>1, OutsidePick
  <2>9. CASE ApplyStrategy
    <3>1. pc' \notin {"healthy", "penalty", "decrypt"} /\ best' = None
      BY <2>9 DEF ApplyStrategy, PickInv, Picking, picking
    <3> QED
      BY <3>1, OutsidePick
  <2>10. CASE ReadLeft
    <3>1. pc' \notin {"healthy", "penalty", "decrypt"} /\ best' = None
      BY <2>10 DEF ReadLeft, PickInv, Picking, picking
    <3> QED
      BY <3>1, OutsidePick
  <2>11. CASE CompareRight
    <3>1. pc' \notin {"healthy", "penalty", "decrypt"} /\ best' = None
      BY <2>11 DEF CompareRight, PickInv, Picking, picking
    <3> QED
      BY <3>1, OutsidePick
  <2> QED
    BY <1>4, <2>1, <2>2, <2>3, <2>4, <2>5, <2>6, <2>7, <2>8, <2>9, <2>10, <2>11 DEF Resolve
<1> QED
  BY <1>1, <1>2, <1>3, <1>4, Moves

LEMMA PickedWell ==
  ASSUME TypeOK, PickInv
  PROVE  BestKeyJustified
<1> SUFFICES ASSUME pc = "decrypt"
             PROVE  /\ best.key \in listed
                    /\ best.key \in sickAll => listed \subseteq sickEver
                    /\ quiet => \A k \in listed : ~BetterKey(k, best.key)
  BY DEF BestKeyJustified
<1>1. BestSound /\ Examined = listed /\ listed \subseteq Key
  BY TypeParts DEF PickInv, Picking, Examined, CallTyped
<1>2. best.key \in listed /\ (best.key \in sickAll => listed \subseteq sickEver)
  BY <1>1 DEF BestSound
<1>3. ASSUME quiet, NEW k \in listed, BetterKey(k, best.key) PROVE FALSE
  <2> DEFINE l == best.key
  <2>1. ~Sick(health[k])
    BY <1>3 DEF BetterKey
  <2>2. /\ best.healthy /\ ~Sick(health[l])
        /\ ~LessPenalty(UptimePenalty(health[k]), UptimePenalty(health[l]))
    BY <1>1, <1>3, <2>1 DEF BestSound
  <2>3. Quality(k)[1] * Quality(l)[2] > Quality(l)[1] * Quality(k)[2]
    BY <1>3, <2>2 DEF BetterKey
  <2>4. ASSUME NEW x \in Key, ~Sick(health[x])
        PROVE  UptimePenalty(health[x]).up = Quality(x) /\ ~UptimePenalty(health[x]).inf
    <3>1. HealthTyped(health[x]) /\ ~health[x].dead
      BY <2>4, TypeParts DEF HealthTyped, Sick
    <3> QED
      BY <3>1, PenaltyType DEF Quality
  <2>5. k \in Key /\ l \in Key
    BY <1>1, <1>2
  <2> QED
    BY <2>1, <2>2, <2>3, <2>4, <2>5 DEF LessPenalty
<1> QED
  BY <1>2, <1>3

(* No key that was out of use all through a pick is picked while another   *)
(* was in use, and one that was better in a quiet pick is never passed     *)
(* over, for any number of keys and whatever other requests report.        *)
THEOREM BestKeys == Spec => []BestKeyJustified
<1>1. Init => PickInv
  BY DEF Init, PickInv, SickSound, HeardSound, Picking
<1>2. TypeOK /\ PickInv /\ [Next]_vars => PickInv'
  BY PickInvStep
<1>3. TypeOK /\ PickInv => BestKeyJustified
  BY PickedWell
<1> QED
  BY <1>1, <1>2, <1>3, TypeCorrect, PTL DEF Spec

----------------------------------------------------------------------------
(* Which routes are found.                                                 *)

(* What the call has seen of the catalog, and what it has not missed.      *)
SpanSound == pc # "idle" => InForce \subseteq ever /\ always \subseteq InForce

(* The queue holds the model asked for, or some of its fallbacks, once.    *)
QueueSound ==
    /\ pc = "mappings" \/ Working =>
          \/ Len(queue) = 1 /\ queue[1].model = model /\ ~queue[1].fallback
          \/ \A n \in DOMAIN queue :
                /\ queue[n].fallback /\ queue[n].model # model
                /\ <<"fallback", <<model, queue[n].model>>>> \in ever
    /\ \A a, b \in DOMAIN queue : queue[a].model = queue[b].model => a = b

(* The rows in hand are of the model in work, each once.                   *)
TodoSound ==
    Working => \A row \in todo :
        /\ row.id \in DOMAIN mappings
        /\ mappings[row.id].model = row.model /\ mappings[row.id].provider = row.provider
        /\ row.model = Current.model
        /\ <<"mapping", row.id>> \in ever
        /\ \A other \in todo : other.id = row.id => other = row

KeysSound ==
    /\ pc = "keys" \/ Picking => <<"provider", Mapping.provider>> \in ever
    /\ Picking => \A k \in listed :
          /\ k \in Key /\ Owner[k] = Mapping.provider /\ <<"key", k>> \in ever
          /\ keys[k] = "deleted" => k \in lost

RoutesSound ==
    /\ pc = "idle" => routes = <<>>
    /\ \A r \in ToSet(routes) :
        /\ RouteRests(r)
        /\ r.mapping \in DOMAIN mappings /\ mappings[r.mapping].model = r.model
        /\ mappings[r.mapping].provider = r.provider

(* Whether a mapping may still get a route: it is in hand, or its model is *)
(* in the queue, or the fallbacks are still to be listed.                  *)
Before == pc = "fallbacks" \/ ((pc = "mappings" \/ Working) /\ ~Current.fallback)

Remaining(n) ==
    \/ Before /\ mappings[n].model # model
    \/ pc = "mappings" /\ \E a \in DOMAIN queue : queue[a].model = mappings[n].model
    \/ Working /\ \/ \E a \in DOMAIN queue \ {1} : queue[a].model = mappings[n].model
                  \/ \E row \in todo : row.id = n

Routed(n) == \E r \in ToSet(routes) : r.mapping = n

(* No mapping is missed, and none comes twice.                             *)
Covered ==
    pc \notin {"idle", "failed"} /\ ~broken =>
        \A n \in DOMAIN mappings : MustBeRouted(mappings[n]) => Routed(n) \/ Remaining(n)

Once ==
    /\ \A n \in DOMAIN mappings : Routed(n) => ~Remaining(n)
    /\ \A a, b \in DOMAIN routes : routes[a].mapping = routes[b].mapping => a = b

RoutesInv ==
    /\ SpanSound /\ QueueSound /\ TodoSound /\ KeysSound
    /\ RoutesSound /\ Covered /\ Once

LEMMA InForceMeans ==
  ASSUME TypeOK
  PROVE  /\ \A p \in Provider : <<"provider", p>> \in InForce <=> providers[p] = "active"
         /\ \A k \in Key : <<"key", k>> \in InForce <=> keys[k] = "active"
         /\ \A n : <<"mapping", n>> \in InForce <=>
                       n \in DOMAIN mappings /\ mappings[n].status = "active"
         /\ \A m, to : <<"fallback", <<m, to>>>> \in InForce <=>
                       \E f \in fallbacks : f.model = m /\ f.to = to
<1>1. \A n \in DOMAIN mappings : mappings[n].id = n
  BY TypeParts DEF CatalogTyped
<1>2. ASSUME NEW n
      PROVE <<"mapping", n>> \in InForce <=>
                n \in DOMAIN mappings /\ mappings[n].status = "active"
  BY <1>1 DEF InForce, ToSet
<1> QED
  BY <1>2 DEF InForce

LEMMA QueueFacts ==
  ASSUME TypeOK, QueueSound, pc = "mappings" \/ Working
  PROVE  /\ Len(queue) \in Nat /\ Len(queue) >= 1 /\ DOMAIN queue = 1..Len(queue)
         /\ Current = queue[1] /\ Current \in Item
         /\ ~Current.fallback => Len(queue) = 1 /\ Current.model = model
         /\ Current.fallback =>
               \A n \in DOMAIN queue :
                  /\ queue[n].fallback /\ queue[n].model # model
                  /\ <<"fallback", <<model, queue[n].model>>>> \in ever
         /\ DOMAIN Tail(queue) = 1..(Len(queue) - 1)
         /\ \A n \in DOMAIN Tail(queue) : Tail(queue)[n] = queue[n + 1]
         /\ Tail(queue) = <<>> <=> Len(queue) = 1
<1>1. queue \in Seq(Item) /\ queue # <<>>
  BY TypeParts DEF CallTyped
<1>2. /\ Current = queue[1] /\ Current \in Item /\ Len(queue) \in Nat /\ Len(queue) >= 1
      /\ Tail(queue) \in Seq(Item) /\ Len(Tail(queue)) = Len(queue) - 1
      /\ \A n \in 1..Len(Tail(queue)) : Tail(queue)[n] = queue[n + 1]
      /\ (Tail(queue) = <<>> <=> Len(queue) = 1)
  BY <1>1, SeqHead DEF Current
<1>3. /\ DOMAIN queue = 1..Len(queue) /\ 1 \in DOMAIN queue
      /\ DOMAIN Tail(queue) = 1..(Len(queue) - 1)
  BY <1>1, <1>2
<1> QED
  BY <1>2, <1>3 DEF QueueSound

(* The models that are left when the first one is done.                    *)
LEMMA ModelDone ==
  ASSUME TypeOK, QueueSound, pc = "mappings" \/ Working, UNCHANGED <<model, mappings, ever>>,
         queue' = Tail(queue), pc' = AfterModel(Tail(queue))
  PROVE  /\ QueueSound' /\ ~Working' /\ ~Picking' /\ pc' \notin {"idle", "keys", "failed"}
         /\ \A n : Remaining(n)' <=>
                \/ Before /\ mappings[n].model # model
                \/ \E a \in DOMAIN queue \ {1} : queue[a].model = mappings[n].model
<1>0. /\ Len(queue) \in Nat /\ Len(queue) >= 1 /\ DOMAIN queue = 1..Len(queue)
      /\ DOMAIN Tail(queue) = 1..(Len(queue) - 1)
      /\ \A n \in DOMAIN Tail(queue) : Tail(queue)[n] = queue[n + 1]
      /\ Tail(queue) = <<>> <=> Len(queue) = 1
  BY QueueFacts
<1>1. \A a \in DOMAIN queue' : a + 1 \in DOMAIN queue /\ queue'[a] = queue[a + 1]
  BY <1>0
<1>2. \A a, b \in DOMAIN queue' : queue'[a].model = queue'[b].model => a = b
  <2> TAKE a, b \in DOMAIN queue'
  <2>1. queue'[a].model = queue'[b].model => a + 1 = b + 1
    BY <1>1 DEF QueueSound
  <2> QED
    BY <1>0, <2>1
<1>3. CASE ~Current.fallback
  <2>1. pc' = "fallbacks" /\ Len(queue) = 1 /\ Before
    BY <1>3, QueueFacts DEF AfterModel, Before
  <2>2. DOMAIN queue \ {1} = {}
    BY <1>0, <2>1
  <2> QED
    BY <1>2, <2>1, <2>2 DEF QueueSound, Working, Picking, Remaining, Before
<1>4. CASE Current.fallback /\ Len(queue) = 1
  <2>1. pc' = "order" /\ ~Before
    BY <1>0, <1>4 DEF AfterModel, Before, Working
  <2>2. DOMAIN queue \ {1} = {}
    BY <1>0, <1>4
  <2> QED
    BY <1>2, <2>1, <2>2 DEF QueueSound, Working, Picking, Remaining, Before
<1>5. CASE Current.fallback /\ Len(queue) > 1
  <2>1. pc' = "mappings" /\ ~Before
    BY <1>0, <1>5 DEF AfterModel, Before, Working
  <2>2. 1 \in DOMAIN queue' /\ queue' # <<>>
    BY <1>0, <1>5
  <2>3. \A n \in DOMAIN queue' : /\ queue'[n].fallback /\ queue'[n].model # model
                                 /\ <<"fallback", <<model, queue'[n].model>>>> \in ever
    <3>1. \A n \in DOMAIN queue :
             /\ queue[n].fallback /\ queue[n].model # model
             /\ <<"fallback", <<model, queue[n].model>>>> \in ever
      BY <1>5, QueueFacts
    <3> QED
      BY <1>1, <3>1
  <2>4. Current' = queue'[1]
    <3>1. queue \in Seq(Item) /\ queue # <<>>
      BY TypeParts DEF CallTyped
    <3>2. queue' \in Seq(Item)
      BY <3>1, SeqHead
    <3> QED
      BY <2>2, <3>2, SeqHead DEF Current
  <2>5. ~Before'
    BY <2>1, <2>2, <2>3, <2>4 DEF Before
  <2>6. ASSUME NEW m
        PROVE (\E a \in DOMAIN queue' : queue'[a].model = m) <=>
                  \E a \in DOMAIN queue \ {1} : queue[a].model = m
    <3>1. ASSUME NEW a \in DOMAIN queue', queue'[a].model = m
          PROVE  a + 1 \in DOMAIN queue \ {1} /\ queue[a + 1].model = m
      BY <1>0, <1>1, <3>1
    <3>2. ASSUME NEW a \in DOMAIN queue \ {1}, queue[a].model = m
          PROVE  a - 1 \in DOMAIN queue' /\ queue'[a - 1].model = m
      <4>1. a - 1 \in DOMAIN queue' /\ (a - 1) + 1 = a
        BY <1>0
      <4> QED
        BY <1>1, <3>2, <4>1
    <3> QED
      BY <3>1, <3>2
  <2>7. QueueSound'
    BY <1>2, <2>3 DEF QueueSound
  <2> QED
    BY <2>1, <2>5, <2>6, <2>7 DEF Working, Picking, Remaining
<1> QED
  BY <1>0, <1>3, <1>4, <1>5, QueueFacts DEF Item

(* A mapping that is done with is the only one that no longer remains.     *)
LEMMA MappingDone ==
  ASSUME TypeOK, QueueSound, TodoSound, Working, NextMapping,
         UNCHANGED <<model, mappings, ever>>
  PROVE  /\ QueueSound' /\ TodoSound' /\ ~Picking' /\ pc' \notin {"idle", "keys", "failed"}
         /\ \A n \in DOMAIN mappings : Remaining(n)' <=> Remaining(n) /\ n # Mapping.id
<1>1. Mapping \in todo /\ todo' = todo \ {Mapping}
  BY NextMappingTyped, TypeParts
<1>2. /\ Mapping.id \in DOMAIN mappings /\ mappings[Mapping.id].model = Current.model
      /\ \A row \in todo : row.id = Mapping.id => row = Mapping
  BY <1>1 DEF TodoSound
<1>3. ~(Before /\ Current.model # model)
  BY QueueFacts DEF Before, Working
<1>4. \A a \in DOMAIN queue \ {1} : queue[a].model # Current.model
  BY QueueFacts DEF QueueSound
<1>5. ASSUME NEW n \in DOMAIN mappings
      PROVE  Remaining(n) /\ n # Mapping.id <=>
                \/ Before /\ mappings[n].model # model
                \/ \E a \in DOMAIN queue \ {1} : queue[a].model = mappings[n].model
                \/ \E row \in todo' : row.id = n
  <2>1. (\E row \in todo' : row.id = n) <=> n # Mapping.id /\ \E row \in todo : row.id = n
    BY <1>1, <1>2
  <2>2. Remaining(n) <=>
                \/ Before /\ mappings[n].model # model
                \/ \E a \in DOMAIN queue \ {1} : queue[a].model = mappings[n].model
                \/ \E row \in todo : row.id = n
    BY DEF Remaining, Working
  <2> QED
    BY <1>2, <1>3, <1>4, <2>1, <2>2
<1>6. CASE todo' = {}
  <2>1. queue' = Tail(queue) /\ pc' = AfterModel(Tail(queue))
    BY <1>6 DEF NextMapping
  <2> QED
    BY <1>5, <1>6, <2>1, ModelDone DEF TodoSound
<1>7. CASE todo' # {}
  <2>1. queue' = queue /\ pc' = "provider"
    BY <1>7 DEF NextMapping
  <2>2. Current' = Current /\ Working' /\ Before' = Before
    BY <2>1 DEF Current, Working, Before
  <2>3. \A n : Remaining(n)' <=>
                \/ Before /\ mappings[n].model # model
                \/ \E a \in DOMAIN queue \ {1} : queue[a].model = mappings[n].model
                \/ \E row \in todo' : row.id = n
    BY <2>1, <2>2 DEF Remaining
  <2>4. QueueSound' /\ TodoSound'
    BY <1>1, <2>1, <2>2 DEF QueueSound, TodoSound
  <2> QED
    BY <1>5, <2>1, <2>3, <2>4 DEF Picking
<1> QED
  BY <1>6, <1>7

LEMMA SpanKept ==
  ASSUME SpanSound, pc # "idle", UNCHANGED <<catalog, span>>
  PROVE  SpanSound'
<1>1. InForce' = InForce
  BY DEF InForce, catalog
<1> QED
  BY <1>1 DEF SpanSound, span

LEMMA SameRoutes ==
  ASSUME RoutesSound, UNCHANGED <<catalog, span, model, routes>>, pc' # "idle"
  PROVE  RoutesSound'
<1>1. \A r : RouteRests(r)' <=> RouteRests(r)
  BY DEF RouteRests, span
<1> QED
  BY <1>1 DEF RoutesSound, catalog

LEMMA MustSame ==
  ASSUME UNCHANGED <<catalog, span, model>>
  PROVE  \A n : MustBeRouted(mappings[n])' <=> MustBeRouted(mappings[n])
BY DEF MustBeRouted, catalog, span

LEMMA MustMeans ==
  ASSUME TypeOK, SpanSound, pc # "idle", NEW n \in DOMAIN mappings, MustBeRouted(mappings[n])
  PROVE  /\ mappings[n] \in RowType /\ mappings[n].status = "active"
         /\ providers[mappings[n].provider] = "active"
         /\ \E k \in Key : Owner[k] = mappings[n].provider /\ keys[k] = "active"
         /\ \A k \in lost : Owner[k] # mappings[n].provider
         /\ \/ mappings[n].model = model
            \/ \E f \in fallbacks : f.model = model /\ f.to = mappings[n].model
<1>1. always \subseteq InForce /\ mappings[n] \in RowType /\ mappings[n].id = n
  BY TypeParts DEF SpanSound, CatalogTyped
<1>2. mappings[n].provider \in Provider
  BY <1>1, RowFields
<1>3. <<"mapping", n>> \in InForce /\ <<"provider", mappings[n].provider>> \in InForce
  BY <1>1 DEF MustBeRouted
<1>4. \E k \in Key : Owner[k] = mappings[n].provider /\ <<"key", k>> \in InForce
  BY <1>1 DEF MustBeRouted
<1>5. mappings[n].model = model \/ <<"fallback", <<model, mappings[n].model>>>> \in InForce
  BY <1>1 DEF MustBeRouted
<1>6. \A k \in lost : Owner[k] # mappings[n].provider
  BY DEF MustBeRouted
<1> QED
  BY <1>1, <1>2, <1>3, <1>4, <1>5, <1>6, InForceMeans

(* Steps within one stage of the call.                                     *)
LEMMA CalmRoutes ==
  ASSUME RoutesInv, UNCHANGED <<catalog, span, model, queue, todo, routes, listed, broken>>,
         \/ pc' = pc
         \/ pc \in {"healthy", "penalty"} /\ pc' \in {"healthy", "penalty", "decrypt"}
  PROVE  RoutesInv'
<1>0. /\ Working' = Working /\ Picking' = Picking /\ Before' = Before
      /\ \A n : Remaining(n)' <=> Remaining(n)
      /\ \A n : Routed(n)' <=> Routed(n)
      /\ Mapping' = Mapping /\ Current' = Current /\ InForce' = InForce
      /\ \A r : RouteRests(r)' <=> RouteRests(r)
  <2>1. Working' = Working /\ Picking' = Picking
    BY DEF Working, Picking
  <2>2. Current' = Current /\ Mapping' = Mapping
    BY DEF Current, Mapping
  <2>3. Before' = Before
    BY <2>1, <2>2 DEF Before
  <2>4. \A n : Remaining(n)' <=> Remaining(n)
    BY <2>1, <2>3 DEF Remaining, catalog
  <2>5. InForce' = InForce
    BY DEF InForce, catalog
  <2> QED
    BY <2>1, <2>2, <2>3, <2>4, <2>5 DEF Routed, RouteRests, span
<1>1. SpanSound' /\ QueueSound'
  BY <1>0 DEF RoutesInv, SpanSound, QueueSound, span
<1>2. TodoSound'
  BY <1>0 DEF RoutesInv, TodoSound, span, catalog
<1>3. KeysSound'
  BY <1>0 DEF RoutesInv, KeysSound, span, catalog
<1>4. RoutesSound' /\ Once'
  BY <1>0 DEF RoutesInv, RoutesSound, Once, catalog
<1>5. Covered'
  BY <1>0, MustSame DEF RoutesInv, Covered, catalog
<1> QED
  BY <1>1, <1>2, <1>3, <1>4, <1>5 DEF RoutesInv

(* Routes that change places are the same routes.                          *)
LEMMA SameElements ==
  ASSUME TypeOK, NEW p \in Bijection(DOMAIN routes, DOMAIN routes),
         routes' = [n \in DOMAIN routes |-> routes[p[n]]]
  PROVE  Len(routes') = Len(routes) /\ ToSet(routes') = ToSet(routes)
<1>1. /\ \A n \in DOMAIN routes : p[n] \in DOMAIN routes
      /\ \A m \in DOMAIN routes : \E n \in DOMAIN routes : p[n] = m
      /\ p \in [DOMAIN routes -> DOMAIN routes]
  BY DEF Bijection, Injection, Surjection, IsInjective
<1>2. DOMAIN routes' = DOMAIN routes /\ \A n \in DOMAIN routes : routes'[n] = routes[p[n]]
  OBVIOUS
<1>3. ToSet(routes') \subseteq ToSet(routes)
  BY <1>1, <1>2 DEF ToSet
<1>4. ASSUME NEW r \in ToSet(routes) PROVE r \in ToSet(routes')
  <2>1. PICK m \in DOMAIN routes : r = routes[m]
    BY DEF ToSet
  <2>2. PICK n \in DOMAIN routes : p[n] = m
    BY <1>1
  <2> QED
    BY <1>2, <2>1, <2>2 DEF ToSet
<1>5. routes \in Seq(RouteType)
  BY TypeParts DEF CallTyped
<1>6. routes' \in Seq(RouteType)
  BY <1>1, <1>5, RearrangedRoutes
<1>7. Len(routes') = Len(routes)
  BY <1>2, <1>5, <1>6, LenProperties
<1> QED
  BY <1>3, <1>4, <1>7

(* Sorting.                                                                *)
LEMMA SortedRoutes ==
  ASSUME TypeOK, RoutesInv, pc \in {"order", "left", "right"},
         pc' \in {"left", "right", "done"}, UNCHANGED <<catalog, span, model, queue, broken>>,
         NEW p \in Bijection(DOMAIN routes, DOMAIN routes),
         routes' = [n \in DOMAIN routes |-> routes[p[n]]]
  PROVE  RoutesInv'
<1>0. /\ ~Working /\ ~Working' /\ ~Picking' /\ ~Before /\ ~Before'
      /\ \A n : ~Remaining(n) /\ ~Remaining(n)'
  BY DEF Working, Picking, Before, Remaining
<1>1. /\ \A n \in DOMAIN routes : p[n] \in DOMAIN routes
      /\ \A m \in DOMAIN routes : \E n \in DOMAIN routes : p[n] = m
      /\ \A m, n \in DOMAIN routes : p[m] = p[n] => m = n
  BY DEF Bijection, Injection, Surjection, IsInjective
<1>2. DOMAIN routes' = DOMAIN routes /\ \A n \in DOMAIN routes : routes'[n] = routes[p[n]]
  OBVIOUS
<1>3. ToSet(routes') = ToSet(routes)
  BY SameElements
<1>4. \A n : Routed(n)' <=> Routed(n)
  BY <1>3 DEF Routed
<1>5. \A a, b \in DOMAIN routes' : routes'[a].mapping = routes'[b].mapping => a = b
  <2>1. \A a, b \in DOMAIN routes : routes[a].mapping = routes[b].mapping => a = b
    BY DEF RoutesInv, Once
  <2> SUFFICES ASSUME NEW a \in DOMAIN routes, NEW b \in DOMAIN routes,
                      routes[p[a]].mapping = routes[p[b]].mapping
               PROVE  a = b
    BY <1>2
  <2>2. p[a] \in DOMAIN routes /\ p[b] \in DOMAIN routes
    BY <1>1
  <2>3. p[a] = p[b]
    BY <2>1, <2>2
  <2> QED
    BY <1>1, <2>3
<1>6. SpanSound'
  BY SpanKept DEF RoutesInv
<1>7. QueueSound' /\ TodoSound' /\ KeysSound'
  BY <1>0 DEF RoutesInv, QueueSound, TodoSound, KeysSound
<1>8. RoutesSound'
  <2>1. \A r : RouteRests(r)' <=> RouteRests(r)
    BY DEF RouteRests, span
  <2> QED
    BY <1>3, <2>1 DEF RoutesInv, RoutesSound, catalog
<1>9. Covered' /\ Once'
  BY <1>0, <1>4, <1>5, MustSame DEF RoutesInv, Covered, Once, catalog
<1> QED
  BY <1>6, <1>7, <1>8, <1>9 DEF RoutesInv

LEMMA UnsortedRoutes ==
  ASSUME RoutesInv, pc \in {"order", "left", "right"}, pc' \in {"left", "right", "done"},
         UNCHANGED <<catalog, span, model, queue, broken, routes>>, TypeOK
  PROVE  RoutesInv'
<1> DEFINE p == [n \in DOMAIN routes |-> n]
<1>1. p \in Bijection(DOMAIN routes, DOMAIN routes)
  BY DEF Bijection, Injection, Surjection, IsInjective
<1>2. routes' = [n \in DOMAIN routes |-> routes[p[n]]]
  BY DEF TypeOK
<1> HIDE DEF p
<1> QED
  BY <1>1, <1>2, SortedRoutes

(* A mapping that gets no route.                                           *)
LEMMA MappingSkipped ==
  ASSUME TypeOK, RoutesInv, Working, NextMapping, UNCHANGED <<catalog, span, model, routes>>,
         ~broken' => ~broken /\ ~MustBeRouted(mappings[Mapping.id])
  PROVE  RoutesInv'
<1>1. /\ QueueSound' /\ TodoSound' /\ ~Picking' /\ pc' \notin {"idle", "keys", "failed"}
      /\ \A n \in DOMAIN mappings : Remaining(n)' <=> Remaining(n) /\ n # Mapping.id
  BY MappingDone DEF RoutesInv, catalog, span
<1>2. SpanSound' /\ RoutesSound' /\ KeysSound'
  BY <1>1, SpanKept, SameRoutes DEF RoutesInv, KeysSound, Working
<1>3. \A n : Routed(n)' <=> Routed(n)
  BY DEF Routed
<1>4. Covered'
  BY <1>1, <1>3, MustSame DEF RoutesInv, Covered, Working, catalog
<1>5. Once'
  BY <1>1, <1>3 DEF RoutesInv, Once, catalog
<1> QED
  BY <1>1, <1>2, <1>4, <1>5 DEF RoutesInv

(* What is known of the mapping in work.                                   *)
LEMMA MappingFacts ==
  ASSUME TypeOK, RoutesInv, Working
  PROVE  /\ Mapping \in todo /\ Mapping \in RowType /\ Mapping.id \in DOMAIN mappings
         /\ mappings[Mapping.id].model = Mapping.model /\ Mapping.model = Current.model
         /\ mappings[Mapping.id].provider = Mapping.provider
         /\ <<"mapping", Mapping.id>> \in ever /\ Mapping.provider \in Provider
         /\ Remaining(Mapping.id)
<1>1. Mapping \in todo /\ Mapping \in RowType
  BY MappingInTodo, TypeParts DEF CallTyped
<1> QED
  BY <1>1, RowFields DEF RoutesInv, TodoSound, Remaining

LEMMA ProviderFound == ASSUME TypeOK, RoutesInv, FindProvider PROVE RoutesInv'
<1>0. /\ pc = "provider" /\ Working /\ UNCHANGED <<catalog, span, model, routes>>
      /\ pc \notin {"idle", "failed"} /\ SpanSound
  BY DEF FindProvider, World, args, Working, RoutesInv
<1>1. CASE NextMapping /\ (~broken' => providers[Mapping.provider] # "active" /\ ~broken)
  <2>1. providers[Mapping.provider] # "active" => ~MustBeRouted(mappings[Mapping.id])
    BY <1>0, MustMeans, MappingFacts
  <2> QED
    BY <1>0, <1>1, <2>1, MappingSkipped
<1>2. CASE providers[Mapping.provider] = "active" /\ pc' = "keys"
           /\ UNCHANGED <<todo, queue, broken>>
  <2>1. Working' /\ ~Picking' /\ Current' = Current /\ Mapping' = Mapping /\ Before' = Before
    <3>1. Working' /\ ~Picking' /\ Current' = Current /\ Mapping' = Mapping
      BY <1>2 DEF Working, Picking, Current, Mapping
    <3> QED
      BY <1>0, <1>2, <3>1 DEF Before
  <2>2. \A n : (Remaining(n)' <=> Remaining(n)) /\ (Routed(n)' <=> Routed(n))
    BY <1>0, <1>2, <2>1 DEF Remaining, Routed, catalog
  <2>3. QueueSound' /\ TodoSound'
    BY <1>0, <1>2, <2>1 DEF RoutesInv, QueueSound, TodoSound, catalog, span
  <2>4. <<"provider", Mapping.provider>> \in ever
    BY <1>0, <1>2, MappingFacts, InForceMeans DEF SpanSound
  <2>5. KeysSound'
    BY <1>0, <1>2, <2>1, <2>4 DEF KeysSound, span
  <2>6. SpanSound' /\ RoutesSound'
    BY <1>0, <1>2, SpanKept, SameRoutes DEF RoutesInv
  <2>7. Covered' /\ Once'
    BY <1>0, <1>2, <2>2, MustSame DEF RoutesInv, Covered, Once, catalog
  <2> QED
    BY <2>3, <2>5, <2>6, <2>7 DEF RoutesInv
<1>3. CASE ~(Fails /\ NextMapping)
  <2>1. UNCHANGED broken
    BY <1>3 DEF FindProvider, Works
  <2>2. CASE providers[Mapping.provider] = "active"
    <3>1. pc' = "keys" /\ UNCHANGED <<todo, queue>>
      BY <2>2, <1>3 DEF FindProvider
    <3> QED
      BY <1>2, <2>1, <2>2, <3>1
  <2>3. CASE providers[Mapping.provider] # "active"
    <3>1. NextMapping
      BY <2>3 DEF FindProvider
    <3> QED
      BY <1>1, <2>1, <2>3, <3>1
  <2> QED
    BY <2>2, <2>3
<1>4. CASE Fails /\ NextMapping
  BY <1>1, <1>4 DEF Fails
<1> QED
  BY <1>3, <1>4

LEMMA KeysListed == ASSUME TypeOK, RoutesInv, ListKeys PROVE RoutesInv'
<1>0. /\ pc = "keys" /\ Working /\ UNCHANGED <<catalog, span, model, routes>>
      /\ pc \notin {"idle", "failed"} /\ SpanSound
  BY DEF ListKeys, World, args, Working, RoutesInv
<1>1. CASE NextMapping /\ (~broken' => ActiveKeys(Mapping.provider) = {} /\ ~broken)
  <2>1. ActiveKeys(Mapping.provider) = {} => ~MustBeRouted(mappings[Mapping.id])
    BY <1>0, MustMeans, MappingFacts DEF ActiveKeys
  <2> QED
    BY <1>0, <1>1, <2>1, MappingSkipped
<1>2. CASE /\ listed' = ActiveKeys(Mapping.provider) /\ pc' = "healthy"
           /\ UNCHANGED <<todo, queue, broken>>
  <2>1. Working' /\ Picking' /\ Current' = Current /\ Mapping' = Mapping /\ Before' = Before
    <3>1. Working' /\ Picking' /\ Current' = Current /\ Mapping' = Mapping
      BY <1>2 DEF Working, Picking, Current, Mapping
    <3> QED
      BY <1>0, <1>2, <3>1 DEF Before
  <2>2. \A n : (Remaining(n)' <=> Remaining(n)) /\ (Routed(n)' <=> Routed(n))
    BY <1>0, <1>2, <2>1 DEF Remaining, Routed, catalog
  <2>3. QueueSound' /\ TodoSound'
    BY <1>0, <1>2, <2>1 DEF RoutesInv, QueueSound, TodoSound, catalog, span
  <2>4. <<"provider", Mapping.provider>> \in ever
    BY <1>0 DEF RoutesInv, KeysSound
  <2>5. \A k \in listed' : /\ k \in Key /\ Owner[k] = Mapping.provider
                           /\ <<"key", k>> \in ever /\ keys[k] # "deleted"
    BY <1>0, <1>2, InForceMeans DEF ActiveKeys, SpanSound
  <2>6. KeysSound'
    BY <1>0, <2>1, <2>4, <2>5 DEF KeysSound, span, catalog
  <2>7. SpanSound' /\ RoutesSound'
    BY <1>0, <1>2, SpanKept, SameRoutes DEF RoutesInv
  <2>8. Covered' /\ Once'
    BY <1>0, <1>2, <2>2, MustSame DEF RoutesInv, Covered, Once, catalog
  <2> QED
    BY <2>3, <2>6, <2>7, <2>8 DEF RoutesInv
<1>3. CASE ~(Fails /\ NextMapping)
  <2>1. UNCHANGED broken /\ cands' = ActiveKeys(Mapping.provider)
    BY <1>3 DEF ListKeys, Works
  <2>2. CASE cands' = {}
    <3>1. NextMapping
      BY <2>2, <1>3 DEF ListKeys
    <3> QED
      BY <1>1, <2>1, <2>2, <3>1
  <2>3. CASE cands' # {}
    <3>1. pc' = "healthy" /\ UNCHANGED <<todo, queue>> /\ listed' = cands'
      BY <2>3, <1>3 DEF ListKeys
    <3> QED
      BY <1>2, <2>1, <3>1
  <2> QED
    BY <2>2, <2>3
<1>4. CASE Fails /\ NextMapping
  BY <1>1, <1>4 DEF Fails
<1> QED
  BY <1>3, <1>4

LEMMA TokenDecrypted == ASSUME TypeOK, PickInv, RoutesInv, DecryptToken PROVE RoutesInv'
<1>0. /\ pc = "decrypt" /\ Working /\ Picking /\ NextMapping /\ UNCHANGED <<catalog, span, model>>
      /\ pc \notin {"idle", "failed"}
  BY DEF DecryptToken, World, args, Working, Picking
<1>1. best.key \in listed
  BY <1>0, PickedWell DEF BestKeyJustified
<1>2. /\ best.key \in Key /\ Owner[best.key] = Mapping.provider /\ <<"key", best.key>> \in ever
      /\ keys[best.key] = "deleted" => best.key \in lost
      /\ <<"provider", Mapping.provider>> \in ever
  BY <1>0, <1>1 DEF RoutesInv, KeysSound
<1>3. CASE routes' = routes /\ (~broken' => ~broken /\ keys[best.key] = "deleted")
  <2>1. keys[best.key] = "deleted" => ~MustBeRouted(mappings[Mapping.id])
    BY <1>0, <1>2, MustMeans, MappingFacts DEF RoutesInv
  <2> QED
    BY <1>0, <1>3, <2>1, MappingSkipped
<1> DEFINE r == [mapping |-> Mapping.id, model |-> Mapping.model,
                 provider |-> Mapping.provider, key |-> best.key,
                 price |-> Mapping.price, fallback |-> Current.fallback]
<1>4. CASE routes' = Append(routes, r) /\ UNCHANGED broken
  <2>1. /\ r.mapping = Mapping.id /\ r.model = Mapping.model /\ r.provider = Mapping.provider
        /\ r.key = best.key /\ r.fallback = Current.fallback
    OBVIOUS
  <2> HIDE DEF r
  <2>2. RouteRests(r)
    <3>1. /\ <<"mapping", Mapping.id>> \in ever /\ Mapping.model = Current.model
      BY <1>0, MappingFacts
    <3>2. /\ Current.fallback => <<"fallback", <<model, Current.model>>>> \in ever
          /\ ~Current.fallback => Current.model = model
      <4>1. 1 \in DOMAIN queue /\ Current = queue[1]
        BY <1>0, QueueFacts DEF RoutesInv
      <4> QED
        BY <1>0, <4>1, QueueFacts DEF RoutesInv
    <3> QED
      BY <1>2, <2>1, <3>1, <3>2 DEF RouteRests
  <2>3. /\ Len(routes) \in Nat /\ DOMAIN routes = 1..Len(routes)
        /\ DOMAIN routes' = 1..(Len(routes) + 1)
        /\ \A n \in 1..Len(routes) : routes'[n] = routes[n]
        /\ routes'[Len(routes) + 1] = r
    BY <1>4 DEF TypeOK
  <2>4. ToSet(routes') = ToSet(routes) \cup {r}
    <3>1. ASSUME NEW x \in ToSet(routes') PROVE x \in ToSet(routes) \cup {r}
      <4>1. PICK n \in DOMAIN routes' : x = routes'[n]
        BY DEF ToSet
      <4>2. n = Len(routes) + 1 \/ n \in 1..Len(routes)
        BY <2>3
      <4> QED
        BY <2>3, <4>1, <4>2 DEF ToSet
    <3>2. ASSUME NEW x \in ToSet(routes) PROVE x \in ToSet(routes')
      <4>1. PICK n \in DOMAIN routes : x = routes[n]
        BY DEF ToSet
      <4>2. n \in DOMAIN routes' /\ routes'[n] = x
        BY <2>3, <4>1
      <4> QED
        BY <4>2 DEF ToSet
    <3>3. r \in ToSet(routes')
      <4>1. Len(routes) + 1 \in DOMAIN routes'
        BY <2>3
      <4> QED
        BY <2>3, <4>1 DEF ToSet
    <3> QED
      BY <3>1, <3>2, <3>3
  <2>5. /\ QueueSound' /\ TodoSound' /\ ~Picking' /\ pc' \notin {"idle", "keys", "failed"}
        /\ \A n \in DOMAIN mappings : Remaining(n)' <=> Remaining(n) /\ n # Mapping.id
    BY <1>0, MappingDone DEF RoutesInv, catalog, span
  <2>6. \A n : Routed(n)' <=> Routed(n) \/ n = Mapping.id
    BY <2>1, <2>4 DEF Routed
  <2>7. SpanSound' /\ KeysSound'
    BY <1>0, <2>5, SpanKept DEF RoutesInv, KeysSound
  <2>8. RoutesSound'
    <3>1. /\ Mapping.id \in DOMAIN mappings /\ mappings[Mapping.id].model = Mapping.model
          /\ mappings[Mapping.id].provider = Mapping.provider
      BY <1>0, MappingFacts
    <3>2. \A x : RouteRests(x)' <=> RouteRests(x)
      BY <1>0 DEF RouteRests, span
    <3>3. \A x \in ToSet(routes) :
            /\ RouteRests(x) /\ x.mapping \in DOMAIN mappings
            /\ mappings[x.mapping].model = x.model /\ mappings[x.mapping].provider = x.provider
      BY DEF RoutesInv, RoutesSound
    <3>4. \A x \in ToSet(routes') :
            /\ RouteRests(x) /\ x.mapping \in DOMAIN mappings
            /\ mappings[x.mapping].model = x.model /\ mappings[x.mapping].provider = x.provider
      BY <2>1, <2>2, <2>4, <3>1, <3>3
    <3> QED
      BY <1>0, <2>5, <3>2, <3>4 DEF RoutesSound, catalog
  <2>9. Covered'
    BY <1>0, <1>4, <2>5, <2>6, MustSame DEF RoutesInv, Covered, catalog
  <2>10. ~Routed(Mapping.id)
    BY <1>0, MappingFacts DEF RoutesInv, Once
  <2>11. \A a, b \in DOMAIN routes' : routes'[a].mapping = routes'[b].mapping => a = b
    <3>1. \A n \in 1..Len(routes) : routes'[n].mapping # Mapping.id
      BY <2>3, <2>10 DEF Routed, ToSet
    <3>2. routes'[Len(routes) + 1].mapping = Mapping.id
      BY <2>1, <2>3
    <3>3. \A a, b \in 1..Len(routes) : routes'[a].mapping = routes'[b].mapping => a = b
      BY <2>3 DEF RoutesInv, Once
    <3>4. \A n \in DOMAIN routes' : n = Len(routes) + 1 \/ n \in 1..Len(routes)
      BY <2>3
    <3> QED
      BY <3>1, <3>2, <3>3, <3>4
  <2>12. Once'
    BY <1>0, <2>5, <2>6, <2>11 DEF RoutesInv, Once, catalog
  <2> QED
    BY <2>5, <2>7, <2>8, <2>9, <2>12 DEF RoutesInv
<1>5. \/ routes' = routes /\ (~broken' => ~broken /\ keys[best.key] = "deleted")
      \/ routes' = Append(routes, r) /\ UNCHANGED broken
  <2> HIDE DEF r
  <2>1. ASSUME Fails, UNCHANGED routes PROVE routes' = routes /\ broken'
    BY <2>1 DEF Fails
  <2>2. CASE ~(Fails /\ UNCHANGED routes)
    <3>1. UNCHANGED broken /\ routes' = IF keys[best.key] = "deleted" THEN routes ELSE Append(routes, r)
      BY <2>2 DEF DecryptToken, Works, r
    <3> QED
      BY <3>1
  <2> QED
    BY <2>1, <2>2
<1> QED
  BY <1>3, <1>4, <1>5

LEMMA MappingsListed == ASSUME TypeOK, RoutesInv, ListMappings PROVE RoutesInv'
<1>0. /\ pc = "mappings" /\ UNCHANGED <<catalog, span, model, routes>>
      /\ ~Working /\ ~Picking /\ SpanSound /\ QueueSound
  BY DEF ListMappings, World, args, Working, Picking, RoutesInv
<1>1. /\ 1 \in DOMAIN queue /\ Current = queue[1]
      /\ ~Current.fallback => Current.model = model
  BY <1>0, QueueFacts
<1>2. \A n : Routed(n)' <=> Routed(n)
  BY <1>0 DEF Routed
<1>3. \A n : Remaining(n) <=>
                \/ Before /\ mappings[n].model # model
                \/ \E a \in DOMAIN queue : queue[a].model = mappings[n].model
  BY <1>0 DEF Remaining
<1>4. \A n \in DOMAIN mappings : mappings[n] \in RowType /\ mappings[n].id = n
  BY TypeParts DEF CatalogTyped
<1>5. \A row : row \in ActiveMappings(Current.model) <=>
           \E n \in DOMAIN mappings : /\ row = mappings[n] /\ row.model = Current.model
                                      /\ row.status = "active"
  BY DEF ActiveMappings, ToSet
<1>6. SpanSound'
  BY <1>0, SpanKept
<1>7. CASE /\ queue' = Tail(queue) /\ pc' = AfterModel(Tail(queue))
           /\ (~broken' => ~broken /\ ActiveMappings(Current.model) = {})
  <2>1. /\ QueueSound' /\ ~Working' /\ ~Picking' /\ pc' \notin {"idle", "keys", "failed"}
        /\ \A n : Remaining(n)' <=>
                \/ Before /\ mappings[n].model # model
                \/ \E a \in DOMAIN queue \ {1} : queue[a].model = mappings[n].model
    BY <1>0, <1>7, ModelDone DEF catalog, span
  <2>2. \A n : Remaining(n)' => Remaining(n)
    BY <1>3, <2>1
  <2>3. ASSUME ~broken', NEW n \in DOMAIN mappings, MustBeRouted(mappings[n])
        PROVE  mappings[n].model # Current.model
    BY <1>0, <1>5, <1>7, <2>3, MustMeans
  <2>4. ASSUME ~broken', NEW n \in DOMAIN mappings, MustBeRouted(mappings[n]), Remaining(n)
        PROVE  Remaining(n)'
    BY <1>1, <1>3, <2>1, <2>3, <2>4
  <2>5. Covered'
    BY <1>0, <1>2, <1>7, <2>4, MustSame DEF RoutesInv, Covered, catalog
  <2>6. Once'
    BY <1>0, <1>2, <2>2 DEF RoutesInv, Once, catalog
  <2> QED
    BY <1>0, <1>6, <2>1, <2>5, <2>6, SameRoutes DEF RoutesInv, TodoSound, KeysSound
<1>8. CASE queue' = queue /\ pc' = "failed"
  <2>1. ~Working' /\ ~Picking' /\ \A n : ~Remaining(n)'
    BY <1>8 DEF Working, Picking, Remaining, Before
  <2> QED
    BY <1>0, <1>6, <1>8, <2>1, SameRoutes
       DEF RoutesInv, QueueSound, TodoSound, KeysSound, Covered, Once
<1>9. CASE /\ queue' = queue /\ pc' = "provider" /\ UNCHANGED broken
           /\ todo' = ActiveMappings(Current.model)
  <2>1. /\ Working' /\ ~Picking' /\ Current' = Current
    BY <1>9 DEF Working, Picking, Current
  <2>2. Before' = Before
    BY <1>0, <1>9, <2>1 DEF Before
  <2>3. QueueSound'
    BY <1>0, <1>9 DEF QueueSound, span
  <2>4. TodoSound'
    <3>1. ASSUME NEW row \in todo'
          PROVE  /\ row.id \in DOMAIN mappings /\ mappings[row.id] = row
                 /\ row.model = Current.model /\ row.status = "active"
      BY <1>4, <1>5, <1>9
    <3>2. \A row \in todo' : <<"mapping", row.id>> \in ever
      BY <1>0, <3>1, InForceMeans DEF SpanSound
    <3> QED
      BY <1>0, <2>1, <3>1, <3>2 DEF TodoSound, catalog, span
  <2>5. \A n : Remaining(n)' <=>
                \/ Before /\ mappings[n].model # model
                \/ \E a \in DOMAIN queue \ {1} : queue[a].model = mappings[n].model
                \/ \E row \in todo' : row.id = n
    BY <1>0, <1>9, <2>1, <2>2 DEF Remaining, catalog
  <2>6. ASSUME NEW n \in DOMAIN mappings, Remaining(n)' PROVE Remaining(n)
    <3>1. ASSUME NEW row \in todo', row.id = n PROVE mappings[n].model = queue[1].model
      BY <1>1, <1>4, <1>5, <1>9, <3>1
    <3> QED
      BY <1>1, <1>3, <2>5, <2>6, <3>1
  <2>7. ASSUME NEW n \in DOMAIN mappings, MustBeRouted(mappings[n]), Remaining(n)
        PROVE  Remaining(n)'
    <3>1. CASE mappings[n].model = Current.model
      <4>1. mappings[n] \in todo' /\ mappings[n].id = n
        BY <1>0, <1>4, <1>5, <1>9, <2>7, <3>1, MustMeans
      <4> QED
        BY <2>5, <4>1
    <3>2. CASE mappings[n].model # Current.model
      BY <1>1, <1>3, <2>5, <2>7, <3>2
    <3> QED
      BY <3>1, <3>2
  <2>8. Covered'
    BY <1>0, <1>2, <1>9, <2>7, MustSame DEF RoutesInv, Covered, catalog
  <2>9. Once'
    BY <1>0, <1>2, <2>6 DEF RoutesInv, Once, catalog
  <2> QED
    BY <1>0, <1>6, <1>9, <2>1, <2>3, <2>4, <2>8, <2>9, SameRoutes DEF RoutesInv, KeysSound
<1>10. CASE Works /\ todo' = ActiveMappings(Current.model)
            /\ IF todo' = {} THEN queue' = Tail(queue) /\ pc' = AfterModel(Tail(queue))
               ELSE UNCHANGED queue /\ pc' = "provider"
  BY <1>7, <1>9, <1>10 DEF Works
<1>11. CASE Fails /\ IF Current.fallback THEN queue' = Tail(queue) /\ pc' = AfterModel(Tail(queue))
                     ELSE UNCHANGED queue /\ pc' = "failed"
  BY <1>7, <1>8, <1>11 DEF Fails
<1> QED
  BY <1>10, <1>11 DEF ListMappings

LEMMA FallbacksListed ==
  ASSUME TypeOK, FallbacksDistinct, RoutesInv, ListFallbacks
  PROVE  RoutesInv'
<1>0. /\ pc = "fallbacks" /\ UNCHANGED <<catalog, span, model, routes>>
      /\ ~Working /\ ~Picking /\ SpanSound /\ Before
      /\ pc' = IF queue' = <<>> THEN "order" ELSE "mappings"
  BY DEF ListFallbacks, World, args, Working, Picking, Before, RoutesInv
<1>1. ~Working' /\ ~Picking' /\ pc' \notin {"idle", "failed", "keys"}
  BY <1>0 DEF Working, Picking
<1>2. SpanSound' /\ RoutesSound' /\ TodoSound' /\ KeysSound'
  BY <1>0, <1>1, SpanKept, SameRoutes DEF RoutesInv, TodoSound, KeysSound
<1>3. \A n : Routed(n)' <=> Routed(n)
  BY <1>0 DEF Routed
<1>4. \A n : Remaining(n) <=> mappings[n].model # model
  BY <1>0 DEF Remaining
<1>5. CASE queue' = <<>> /\ broken'
  <2>1. QueueSound' /\ \A n : ~Remaining(n)'
    BY <1>0, <1>1, <1>5 DEF QueueSound, Remaining, Before
  <2> QED
    BY <1>0, <1>2, <1>3, <1>5, <2>1 DEF RoutesInv, Covered, Once, catalog
<1>6. ASSUME UNCHANGED broken, NEW s \in FallbacksOf(model),
             queue' = [n \in DOMAIN s |-> [model |-> s[n].to, fallback |-> TRUE]]
      PROVE  RoutesInv'
  <2> DEFINE rows == {f \in fallbacks : f.model = model}
  <2>1. IsFiniteSet(rows) /\ Cardinality(rows) \in Nat
    <3>1. IsFiniteSet(fallbacks) /\ rows \subseteq fallbacks
      BY TypeParts DEF CatalogTyped
    <3> QED
      BY <3>1, FS_Subset, FS_CardinalityType
  <2>2. /\ s \in [1..Cardinality(rows) -> rows]
        /\ \A f \in rows : \E n \in DOMAIN s : s[n] = f
        /\ \A a, b \in DOMAIN s : s[a] = s[b] => a = b
    BY <1>6 DEF FallbacksOf, Bijection, Injection, Surjection, IsInjective
  <2>3. \A f \in rows : f \in fallbacks /\ f.model = model
    OBVIOUS
  <2>4. \A f \in fallbacks : f.model = model => f \in rows
    OBVIOUS
  <2> HIDE DEF rows
  <2>5. /\ DOMAIN queue' = DOMAIN s
        /\ \A n \in DOMAIN s : queue'[n].model = s[n].to /\ queue'[n].fallback
    BY <1>6
  <2>6. \A n \in DOMAIN s : /\ s[n] \in fallbacks /\ s[n].model = model
                            /\ s[n].to # model
                            /\ <<"fallback", <<model, s[n].to>>>> \in ever
    <3>1. \A n \in DOMAIN s : s[n] \in fallbacks /\ s[n].model = model
      BY <2>2, <2>3
    <3> QED
      BY <1>0, <3>1, InForceMeans DEF SpanSound, FallbacksDistinct
  <2>7. \A a, b \in DOMAIN queue' : queue'[a].model = queue'[b].model => a = b
    <3>1. \A f, g \in fallbacks : f.model = g.model /\ f.to = g.to => f = g
      BY DEF FallbacksDistinct
    <3>2. \A a, b \in DOMAIN s : s[a].to = s[b].to => s[a] = s[b]
      BY <2>6, <3>1
    <3> QED
      BY <2>2, <2>5, <3>2
  <2>8. QueueSound'
    BY <1>0, <2>5, <2>6, <2>7 DEF QueueSound, span
  <2>9. \A n : Remaining(n)' <=> \E a \in DOMAIN s : s[a].to = mappings[n].model
    <3>1. CASE queue' = <<>>
      <4>1. DOMAIN s = {}
        BY <2>5, <3>1
      <4> QED
        BY <1>0, <1>1, <3>1, <4>1 DEF Remaining, Before
    <3>2. CASE queue' # <<>>
      <4>1. 1 \in DOMAIN queue' /\ Current' = queue'[1]
        <5>1. queue' \in Seq(Item)
          BY CallTypedStep, <1>0 DEF CallTyped, Next, Resolve
        <5> QED
          BY <3>2, <5>1, SeqHead DEF Current
      <4>2. ~Before'
        BY <1>0, <2>5, <3>2, <4>1 DEF Before
      <4> QED
        BY <1>0, <1>1, <2>5, <3>2, <4>2 DEF Remaining, catalog
    <3> QED
      BY <3>1, <3>2
  <2>10. ASSUME NEW n \in DOMAIN mappings, MustBeRouted(mappings[n]), Remaining(n)
         PROVE  Remaining(n)'
    <3>1. PICK f \in fallbacks : f.model = model /\ f.to = mappings[n].model
      BY <1>0, <1>4, <2>10, MustMeans
    <3> QED
      BY <2>2, <2>4, <2>9, <3>1
  <2>11. Covered'
    BY <1>0, <1>3, <1>6, <2>10, MustSame DEF RoutesInv, Covered, catalog
  <2>12. Once'
    BY <1>0, <1>3, <1>4, <2>6, <2>9 DEF RoutesInv, Once, catalog
  <2> QED
    BY <1>2, <2>8, <2>11, <2>12 DEF RoutesInv
<1> QED
  BY <1>5, <1>6 DEF ListFallbacks, Works, Fails

LEMMA CallStarted ==
  ASSUME TypeOK, RoutesInv, NEW m \in Model, Start(m)
  PROVE  RoutesInv'
<1>0. /\ pc = "idle" /\ pc' \in {"mappings", "failed"} /\ routes = <<>> /\ routes' = <<>>
      /\ model' = m /\ queue' = <<[model |-> m, fallback |-> FALSE]>>
      /\ always' = InForce /\ ever' = InForce /\ InForce' = InForce
      /\ DOMAIN mappings' = DOMAIN mappings
  BY DEF Start, World, catalog, InForce, RoutesInv, RoutesSound
<1>1. /\ Len(queue') = 1 /\ DOMAIN queue' = {1} /\ queue'[1].model = m
      /\ ~queue'[1].fallback /\ Current' = queue'[1]
  BY <1>0 DEF Current
<1>2. ~Working' /\ ~Picking' /\ pc' # "keys"
  BY <1>0 DEF Working, Picking
<1>3. SpanSound' /\ QueueSound' /\ TodoSound' /\ KeysSound'
  BY <1>0, <1>1, <1>2 DEF SpanSound, QueueSound, TodoSound, KeysSound
<1>4. ToSet(routes') = {} /\ DOMAIN routes' = {}
  BY <1>0 DEF ToSet
<1>5. RoutesSound' /\ Once'
  BY <1>0, <1>4 DEF RoutesSound, Once, Routed
<1>6. pc' = "mappings" => \A n : Remaining(n)'
  BY <1>0, <1>1 DEF Remaining, Before
<1>7. Covered'
  BY <1>0, <1>6 DEF Covered
<1> QED
  BY <1>3, <1>5, <1>7 DEF RoutesInv

(* An edit takes nothing from what the call has found out, and asks no     *)
(* more of it.                                                             *)
LEMMA CatalogEdited ==
  ASSUME TypeOK, FallbacksDistinct, RoutesInv, Administration, Next
  PROVE  RoutesInv'
<1>0. /\ Edit /\ RowsKept /\ pc \notin {"done", "failed"}
      /\ UNCHANGED <<pc, model, queue, todo, routes, broken, listed>>
  BY AdministrationDoes, TypeParts DEF Edit, CallUnchanged, args, watch, Next
<1>1. /\ Working' = Working /\ Picking' = Picking /\ Current' = Current /\ Mapping' = Mapping
      /\ Before' = Before /\ \A n : Routed(n)' <=> Routed(n)
  <2>1. /\ Working' = Working /\ Picking' = Picking /\ Current' = Current /\ Mapping' = Mapping
    BY <1>0 DEF Working, Picking, Current, Mapping
  <2> QED
    BY <1>0, <2>1 DEF Before, Routed
<1>2. \A n \in DOMAIN mappings : /\ n \in DOMAIN mappings'
                                 /\ mappings'[n].model = mappings[n].model
                                 /\ mappings'[n].provider = mappings[n].provider
  BY <1>0 DEF RowsKept
<1>3. \A n \in DOMAIN mappings : Remaining(n)' <=> Remaining(n)
  BY <1>0, <1>1, <1>2 DEF Remaining
<1>4. CASE pc = "idle"
  <2>1. routes' = <<>> /\ ToSet(routes') = {} /\ DOMAIN routes' = {}
    BY <1>0, <1>4 DEF RoutesInv, RoutesSound, ToSet
  <2>2. ~Working /\ ~Picking
    BY <1>4 DEF Working, Picking
  <2>3. QueueSound'
    BY <1>0, <1>1, <1>4, <2>2 DEF RoutesInv, QueueSound
  <2> QED
    BY <1>0, <1>1, <1>4, <2>1, <2>2, <2>3
       DEF RoutesInv, SpanSound, TodoSound, KeysSound, RoutesSound, Covered, Once, Routed
<1>5. CASE pc # "idle"
  <2>1. /\ always' = always \cap InForce' /\ ever' = ever \cup InForce'
        /\ lost' = lost \cup {k \in Key : keys'[k] = "deleted"}
    BY <1>0, <1>5 DEF Edit, NoteEdit, Idle
  <2>2. always' \subseteq always /\ ever \subseteq ever' /\ lost \subseteq lost'
    BY <2>1
  <2>3. SpanSound'
    BY <2>1 DEF SpanSound
  <2>4. QueueSound'
    BY <1>0, <1>1, <2>2 DEF RoutesInv, QueueSound
  <2>5. TodoSound'
    BY <1>0, <1>1, <1>2, <2>2 DEF RoutesInv, TodoSound
  <2>6. KeysSound'
    BY <1>0, <1>1, <2>1, <2>2 DEF RoutesInv, KeysSound
  <2>7. RoutesSound'
    <3>1. \A r : RouteRests(r) => RouteRests(r)'
      BY <1>0, <2>2 DEF RouteRests
    <3> QED
      BY <1>0, <1>2, <1>5, <3>1 DEF RoutesInv, RoutesSound
  <2>8. ASSUME NEW n \in DOMAIN mappings', MustBeRouted(mappings[n])'
        PROVE  n \in DOMAIN mappings /\ MustBeRouted(mappings[n])
    <3>1. mappings'[n].id = n
      BY <1>0 DEF RowsKept
    <3>2. <<"mapping", n>> \in always
      BY <2>2, <2>8, <3>1 DEF MustBeRouted
    <3>3. n \in DOMAIN mappings
      BY <1>5, <3>2, InForceMeans DEF RoutesInv, SpanSound
    <3>4. /\ mappings[n].id = n /\ mappings'[n].model = mappings[n].model
          /\ mappings'[n].provider = mappings[n].provider
      BY <1>2, <3>3, TypeParts DEF CatalogTyped
    <3> QED
      BY <1>0, <2>2, <2>8, <3>1, <3>3, <3>4 DEF MustBeRouted
  <2>9. Covered'
    BY <1>0, <1>1, <1>3, <2>8 DEF RoutesInv, Covered
  <2>10. Once'
    <3>1. \A n : Routed(n) => n \in DOMAIN mappings
      BY DEF RoutesInv, RoutesSound, Routed
    <3> QED
      BY <1>0, <1>1, <1>3, <3>1 DEF RoutesInv, Once
  <2> QED
    BY <2>3, <2>4, <2>5, <2>6, <2>7, <2>9, <2>10 DEF RoutesInv
<1> QED
  BY <1>4, <1>5

LEMMA Swapped ==
  ASSUME TypeOK, pc = "right",
         routes' = [routes EXCEPT ![j] = routes[j - 1], ![j - 1] = routes[j]]
  PROVE  \E p \in Bijection(DOMAIN routes, DOMAIN routes) :
             routes' = [n \in DOMAIN routes |-> routes[p[n]]]
<1>1. /\ Len(routes) \in Nat /\ DOMAIN routes = 1..Len(routes) /\ i \in 2..Len(routes)
      /\ j \in 2..i /\ routes \in [1..Len(routes) -> RouteType]
  BY DEF TypeOK
<1>2. j \in DOMAIN routes /\ j - 1 \in DOMAIN routes /\ j # j - 1
  BY <1>1
<1> DEFINE p == [n \in DOMAIN routes |-> IF n = j THEN j - 1 ELSE IF n = j - 1 THEN j ELSE n]
<1>3. /\ p \in [DOMAIN routes -> DOMAIN routes] /\ \A n \in DOMAIN routes : p[p[n]] = n
  BY <1>2
<1>4. routes' = [n \in DOMAIN routes |-> routes[p[n]]]
  BY <1>1, <1>2
<1> HIDE DEF p
<1>5. p \in Bijection(DOMAIN routes, DOMAIN routes)
  <2>1. \A a, b \in DOMAIN routes : p[a] = p[b] => a = b
    BY <1>3
  <2>2. \A m \in DOMAIN routes : \E n \in DOMAIN routes : p[n] = m
    BY <1>3
  <2> QED
    BY <1>3, <2>1, <2>2 DEF Bijection, Injection, Surjection, IsInjective
<1> QED
  BY <1>4, <1>5

LEMMA RoutesInvStep ==
  ASSUME TypeOK, FallbacksDistinct, PickInv, RoutesInv, [Next]_vars
  PROVE  RoutesInv'
<1>1. CASE UNCHANGED vars
  BY <1>1, CalmRoutes DEF vars, args, watch
<1>2. CASE Tracker /\ CallUnchanged /\ UNCHANGED <<catalog, span>>
  <2>1. UNCHANGED listed
    BY <1>2 DEF Tracker, ReportSuccess, ReportError, Consult, Tick, NoteHealth, watch
  <2> QED
    BY <1>2, <2>1, CalmRoutes DEF CallUnchanged, args
<1>3. CASE Administration /\ Next
  BY <1>3, CatalogEdited
<1>4. CASE Resolve /\ UNCHANGED World
  <2>0. UNCHANGED catalog
    BY <1>4 DEF World
  <2>1. ASSUME NEW m \in Model, Start(m) PROVE RoutesInv'
    BY <2>1, CallStarted
  <2>2. CASE ListMappings
    BY <2>2, MappingsListed
  <2>3. CASE FindProvider
    BY <2>3, ProviderFound
  <2>4. CASE ListKeys
    BY <2>4, KeysListed
  <2>5. CASE PickHealthy
    BY <2>0, <2>5, CalmRoutes DEF PickHealthy, args, watch
  <2>6. CASE PickPenalty
    BY <2>0, <2>6, CalmRoutes DEF PickPenalty, args, watch
  <2>7. CASE DecryptToken
    BY <2>7, TokenDecrypted
  <2>8. CASE ListFallbacks
    BY <2>8, FallbacksListed
  <2>9. CASE ApplyStrategy
    <3>1. /\ pc = "order" /\ pc' \in {"left", "done"}
          /\ UNCHANGED <<catalog, span, model, queue, broken>>
      BY <2>0, <2>9 DEF ApplyStrategy
    <3>2. \/ UNCHANGED routes
          \/ \E p \in Bijection(DOMAIN routes, DOMAIN routes) :
                 routes' = [n \in DOMAIN routes |-> routes[p[n]]]
      BY <2>9 DEF ApplyStrategy, Orders
    <3> QED
      BY <3>1, <3>2, SortedRoutes, UnsortedRoutes
  <2>10. CASE ReadLeft
    BY <2>0, <2>10, UnsortedRoutes DEF ReadLeft, args
  <2>11. CASE CompareRight
    <3>1. /\ pc = "right" /\ pc' \in {"left", "done"}
          /\ UNCHANGED <<catalog, span, model, queue, broken>>
      BY <2>0, <2>11 DEF CompareRight, args
    <3>2. \/ UNCHANGED routes
          \/ \E p \in Bijection(DOMAIN routes, DOMAIN routes) :
                 routes' = [n \in DOMAIN routes |-> routes[p[n]]]
      BY <2>11, <3>1, Swapped DEF CompareRight
    <3> QED
      BY <3>1, <3>2, SortedRoutes, UnsortedRoutes
  <2> QED
    BY <1>4, <2>1, <2>2, <2>3, <2>4, <2>5, <2>6, <2>7, <2>8, <2>9, <2>10, <2>11 DEF Resolve
<1>5. CASE Next
  BY <1>1, <1>2, <1>3, <1>4, <1>5, Moves
<1> QED
  BY <1>1, <1>5

(* At the start there are neither routes nor a pick.                       *)
LEMMA InitRoutes ==
  ASSUME Init
  PROVE  PickInv /\ RoutesInv
<1>1. PickInv
  BY DEF Init, PickInv, SickSound, HeardSound, Picking
<1>2. RoutesInv
  <2>1. ToSet(routes) = {} /\ DOMAIN routes = {} /\ DOMAIN queue = {}
    BY DEF Init, ToSet
  <2>2. ~Working /\ ~Picking /\ pc = "idle" /\ routes = <<>>
    BY DEF Init, Working, Picking
  <2> QED
    BY <2>1, <2>2 DEF RoutesInv, SpanSound, QueueSound, TodoSound, KeysSound, RoutesSound,
                      Covered, Once, Routed
<1> QED
  BY <1>1, <1>2

(* A call that no query failed for gives a route to every mapping that was *)
(* in use all the while, gives none that rests on what never was, and none *)
(* twice, for any catalog and however administrators change it meanwhile.  *)
THEOREM RoutesOfCatalog == Spec => []RoutesJustified
<1>1. Init => PickInv /\ RoutesInv
  BY InitRoutes
<1>2. TypeOK /\ FallbacksDistinct /\ PickInv /\ RoutesInv /\ [Next]_vars => PickInv' /\ RoutesInv'
  BY PickInvStep, RoutesInvStep
<1>3. TypeOK /\ RoutesInv => RoutesJustified
  <2> SUFFICES ASSUME TypeOK, RoutesInv, pc = "done"
               PROVE  /\ \A r \in ToSet(routes) : RouteRests(r)
                      /\ ~broken => \A row \in ToSet(mappings) :
                            MustBeRouted(row) => \E r \in ToSet(routes) : r.mapping = row.id
                      /\ \A a, b \in DOMAIN routes : routes[a].mapping = routes[b].mapping => a = b
    BY DEF RoutesJustified
  <2>1. \A n : ~Remaining(n)
    BY DEF Remaining, Before, Working
  <2>2. ASSUME ~broken, NEW row \in ToSet(mappings), MustBeRouted(row)
        PROVE  \E r \in ToSet(routes) : r.mapping = row.id
    <3>1. PICK n \in DOMAIN mappings : row = mappings[n]
      BY DEF ToSet
    <3>2. row.id = n
      BY <3>1, TypeParts DEF CatalogTyped
    <3>3. Routed(n)
      BY <2>1, <2>2, <3>1 DEF RoutesInv, Covered
    <3> QED
      BY <3>2, <3>3 DEF Routed
  <2> QED
    BY <2>2 DEF RoutesInv, RoutesSound, Once
<1> QED
  BY <1>1, <1>2, <1>3, TypeCorrect, PTL DEF Spec

----------------------------------------------------------------------------
(* How the routes are sorted.                                              *)

(* A sum over a finite set of outcomes is a number.                        *)
SumOfLatencies(S) == MapThenSumSet(LAMBDA o : o.latency, S)

(* The recursion that the sum of the library is defined by.                *)
LEMMA SumUnfolds ==
  ASSUME NEW S
  PROVE  SumOfLatencies(S) =
           (CHOOSE it : it = [s \in SUBSET S |-> IF s = {} THEN 0
              ELSE (CHOOSE o \in s : TRUE).latency + it[s \ {CHOOSE o \in s : TRUE}]])[S]
  BY DEF SumOfLatencies, MapThenSumSet, MapThenFoldSet

LEMMA SumIsNumber ==
  ASSUME NEW S, IsFiniteSet(S), \A o \in S : o.latency \in Nat
  PROVE  SumOfLatencies(S) \in Nat
<1> DEFINE Some(s) == CHOOSE o \in s : TRUE
           unfold(it) == [s \in SUBSET S |-> IF s = {} THEN 0
                          ELSE Some(s).latency + it[s \ {Some(s)}]]
           c == CHOOSE it : it = unfold(it)
           N == Cardinality(S)
           Small(n) == {s \in SUBSET S : Cardinality(s) <= n}
           Sums(h, n) ==
             /\ h \in [Small(n) -> Nat]
             /\ \A s \in Small(n) :
                  h[s] = IF s = {} THEN 0 ELSE Some(s).latency + h[s \ {Some(s)}]
           good == {n \in 0..N : \E h : Sums(h, n)}
<1>1. SumOfLatencies(S) = c[S]
  BY SumUnfolds
<1>2. N \in Nat
  BY FS_CardinalityType
<1>3. \A s \in SUBSET S : /\ IsFiniteSet(s) /\ Cardinality(s) \in 0..N
                          /\ Cardinality(s) = 0 => s = {}
  BY <1>2, FS_Subset, FS_CardinalityType, FS_EmptySet
<1>4. ASSUME NEW s \in SUBSET S, s # {}
      PROVE  /\ Some(s) \in S /\ Some(s).latency \in Nat /\ s \ {Some(s)} \in SUBSET S
             /\ Cardinality(s) \in Nat /\ Cardinality(s \ {Some(s)}) = Cardinality(s) - 1
  <2>1. Some(s) \in s
    BY <1>4
  <2>2. IsFiniteSet(s) /\ Cardinality(s) \in Nat
    BY <1>3, FS_CardinalityType
  <2>3. Cardinality(s \ {Some(s)}) = Cardinality(s) - 1
    BY <2>1, <2>2, FS_RemoveElement
  <2>4. Some(s) \in S /\ Some(s).latency \in Nat /\ s \ {Some(s)} \in SUBSET S
    <3> HIDE DEF Some
    <3> QED
      BY <2>1
  <2> QED
    BY <2>2, <2>3, <2>4
<1> HIDE DEF N, c
<1>5. 0 \in good
  <2> DEFINE h == [s \in Small(0) |-> 0]
  <2>1. \A s \in Small(0) : s = {}
    BY <1>2, <1>3
  <2>2. Sums(h, 0)
    BY <2>1
  <2> HIDE DEF Sums, h
  <2> QED
    BY <1>2, <2>2
<1>6. ASSUME NEW n \in 1..N, n - 1 \in good PROVE n \in good
  <2>1. PICK h : Sums(h, n - 1)
    BY <1>6
  <2> DEFINE g == [s \in Small(n) |-> IF s = {} THEN 0
                                      ELSE Some(s).latency + h[s \ {Some(s)}]]
  <2>2. ASSUME NEW s \in Small(n), s # {}
        PROVE  s \ {Some(s)} \in Small(n - 1) /\ s \ {Some(s)} \in Small(n)
    BY <1>2, <1>4, <2>2
  <2>3. g \in [Small(n) -> Nat]
    <3>1. ASSUME NEW s \in Small(n), s # {} PROVE Some(s).latency + h[s \ {Some(s)}] \in Nat
      <4>1. h[s \ {Some(s)}] \in Nat
        BY <2>1, <2>2, <3>1
      <4> QED
        BY <1>4, <3>1, <4>1
    <3> HIDE DEF Some, Small
    <3> QED
      BY <3>1
  <2>4. ASSUME NEW s \in Small(n - 1) PROVE s \in Small(n) /\ g[s] = h[s]
    <3>1. s \in Small(n)
      BY <1>2, <1>3, <2>4
    <3>2. h[s] = IF s = {} THEN 0 ELSE Some(s).latency + h[s \ {Some(s)}]
      BY <2>1
    <3> QED
      BY <3>1, <3>2
  <2>5. ASSUME NEW s \in Small(n)
        PROVE  g[s] = IF s = {} THEN 0 ELSE Some(s).latency + g[s \ {Some(s)}]
    <3>1. CASE s = {}
      BY <3>1
    <3>2. CASE s # {}
      <4>1. g[s \ {Some(s)}] = h[s \ {Some(s)}]
        BY <2>2, <2>4, <3>2
      <4> HIDE DEF Some
      <4> QED
        BY <3>2, <4>1
    <3> QED
      BY <3>1, <3>2
  <2> HIDE DEF g
  <2>6. Sums(g, n)
    BY <2>3, <2>5
  <2> HIDE DEF Sums
  <2> QED
    BY <2>6
<1> HIDE DEF good
<1>7. N \in good
  BY <1>2, <1>5, <1>6, UpTo
<1>8. PICK g : Sums(g, N)
  BY <1>7 DEF good
<1>9. Small(N) = SUBSET S
  BY <1>2, <1>3
<1>10. g = unfold(g)
  <2>1. g \in [SUBSET S -> Nat]
    BY <1>8, <1>9
  <2>2. \A s \in SUBSET S : g[s] = IF s = {} THEN 0 ELSE Some(s).latency + g[s \ {Some(s)}]
    BY <1>8, <1>9
  <2> HIDE DEF Some
  <2> QED
    BY <2>1, <2>2
<1>11. c = unfold(c)
  <2> HIDE DEF unfold
  <2> QED
    BY <1>10 DEF c
<1> DEFINE numbers == {n \in 0..N : \A s \in SUBSET S : Cardinality(s) <= n => c[s] \in Nat}
<1>12. ASSUME NEW s \in SUBSET S
       PROVE  c[s] = IF s = {} THEN 0 ELSE Some(s).latency + c[s \ {Some(s)}]
  <2> HIDE DEF Some
  <2> QED
    BY <1>11
<1> HIDE DEF Some, unfold
<1>13. 0 \in numbers
  <2>1. ASSUME NEW s \in SUBSET S, Cardinality(s) <= 0 PROVE c[s] \in Nat
    <3>1. s = {}
      BY <1>2, <1>3, <2>1
    <3>2. c[s] = 0
      BY <1>12, <3>1
    <3> QED
      BY <3>2
  <2> QED
    BY <1>2, <2>1
<1>14. ASSUME NEW n \in 1..N, n - 1 \in numbers PROVE n \in numbers
  <2>1. ASSUME NEW s \in SUBSET S, Cardinality(s) <= n PROVE c[s] \in Nat
    <3>0. c[s] = IF s = {} THEN 0 ELSE Some(s).latency + c[s \ {Some(s)}]
      BY <1>12
    <3>1. CASE s = {}
      BY <3>0, <3>1
    <3>2. CASE s # {}
      <4>1. s \ {Some(s)} \in SUBSET S /\ Cardinality(s \ {Some(s)}) <= n - 1
        BY <1>2, <1>4, <2>1, <3>2
      <4>2. c[s \ {Some(s)}] \in Nat
        BY <1>14, <4>1
      <4>3. Some(s).latency \in Nat
        BY <1>4, <3>2
      <4>4. c[s] = Some(s).latency + c[s \ {Some(s)}]
        BY <3>0, <3>2
      <4> QED
        BY <4>2, <4>3, <4>4
    <3> QED
      BY <3>1, <3>2
  <2> QED
    BY <2>1
<1> HIDE DEF numbers
<1>15. N \in numbers
  BY <1>2, <1>13, <1>14, UpTo
<1>16. S \in SUBSET S /\ Cardinality(S) <= N
  BY <1>2 DEF N
<1> QED
  BY <1>1, <1>15, <1>16 DEF numbers

(* So is an average latency, and pruning the history does not change it.   *)
LEMMA AverageIs ==
  ASSUME NEW h, HealthTyped(h)
  PROVE  /\ AverageLatency(h) \in Nat
         /\ AverageLatency([h EXCEPT !.history = PruneHistory(h.history)]) = AverageLatency(h)
<1> DEFINE measured == {o \in PruneHistory(h.history) : o.ok /\ o.latency > 0}
           g == [h EXCEPT !.history = PruneHistory(h.history)]
<1>1. /\ IsFiniteSet(PruneHistory(h.history)) /\ PruneHistory(h.history) \subseteq Outcome
  BY PruneFinite DEF HealthTyped, HealthType
<1>2. measured \in SUBSET PruneHistory(h.history)
  OBVIOUS
<1>3. IsFiniteSet(measured)
  BY <1>1, <1>2, FS_Subset
<1>4. \A o \in measured : o.latency \in Nat
  <2>1. ASSUME NEW o \in Outcome PROVE o.latency \in Nat
    <3>1. o.latency \in Latency \cup {0}
      BY DEF Outcome
    <3>2. \A x \in Latency : x \in Nat
      BY RoutingAssumption
    <3> QED
      BY <3>1, <3>2
  <2> QED
    BY <1>1, <1>2, <2>1
<1> HIDE DEF measured
<1>5. measured # {} => Cardinality(measured) \in Nat /\ Cardinality(measured) > 0
  BY <1>3, FS_CardinalityType, FS_EmptySet
<1>6. SumOfLatencies(measured) \in Nat
  BY <1>3, <1>4, SumIsNumber
<1>7. AverageLatency(h) = IF measured = {} THEN 0
                          ELSE SumOfLatencies(measured) \div Cardinality(measured)
  BY DEF AverageLatency, SumOfLatencies, measured
<1>8. PruneHistory(g.history) = PruneHistory(h.history)
  <2>1. g.history = PruneHistory(h.history)
    BY HealthFields DEF HealthTyped
  <2> QED
    BY <2>1 DEF PruneHistory
<1> HIDE DEF g
<1>9. AverageLatency(g) = AverageLatency(h)
  BY <1>8 DEF AverageLatency
<1>10. \A m, n \in Nat : n > 0 => m \div n \in Nat
  OBVIOUS
<1> QED
  BY <1>5, <1>6, <1>7, <1>9, <1>10 DEF g

(* Forgetting the errors of a key leaves its latencies.                    *)
LEMMA LookedAverage ==
  ASSUME NEW h, HealthTyped(h)
  PROVE  AverageLatency(AfterIsHealthy(h)) = AverageLatency(h)
<1> DEFINE g == AfterIsHealthy(h)
<1>1. g.history = h.history
  BY HealthFields DEF AfterIsHealthy, HealthTyped
<1> HIDE DEF g
<1>2. AverageLatency(g) = AverageLatency(h)
  BY <1>1 DEF AverageLatency
<1> QED
  BY <1>2 DEF g

(* Nobody who only looks at a record changes its average.                  *)
LEMMA AverageKept ==
  ASSUME TypeOK, LeavesHealth \/ (\E k : LooksAt(k)) \/ (\E k : Prunes(k)), NEW k \in Key
  PROVE  AverageLatency(health'[k]) = AverageLatency(health[k])
<1>0. health \in [Key -> HealthType] /\ HealthTyped(health[k])
  BY TypeParts DEF HealthTyped
<1>1. CASE LeavesHealth
  BY <1>1 DEF LeavesHealth
<1>2. ASSUME NEW x, LooksAt(x) PROVE AverageLatency(health'[k]) = AverageLatency(health[k])
  <2>1. health'[k] \in {health[k], AfterIsHealthy(health[k])}
    BY <1>0, <1>2 DEF LooksAt
  <2> QED
    BY <1>0, <2>1, LookedAverage
<1>3. ASSUME NEW x, Prunes(x) PROVE AverageLatency(health'[k]) = AverageLatency(health[k])
  <2>1. health'[k] \in {health[k], [health[k] EXCEPT !.history = PruneHistory(health[k].history)]}
    BY <1>0, <1>3 DEF Prunes
  <2> QED
    BY <1>0, <2>1, AverageIs
<1> QED
  BY <1>1, <1>2, <1>3

(* The orders that the routes are put into, by latency and by price.       *)
LatencyOf(r) == AverageLatency(health[r.key])

Ahead(r, s) ==
    \/ LessLatency(LatencyOf(r), LatencyOf(s))
    \/ ~LessLatency(LatencyOf(s), LatencyOf(r)) /\ PlaceFound(r) < PlaceFound(s)

Cheaper(r, s) ==
    \/ Less(r.price, s.price)
    \/ ~Less(s.price, r.price) /\ PlaceFound(r) < PlaceFound(s)

Sorting == pc \in {"left", "right"}

(* The routes are those found, each once.                                  *)
Permuted ==
    Sorting \/ pc = "done" =>
        /\ Len(routes) = Len(found) /\ ToSet(routes) = ToSet(found)
        /\ \A a, b \in DOMAIN found : found[a] = found[b] => a = b

(* The first i routes are those found first; but for the one in place j,   *)
(* which is on its way to the left, they are in order, and it belongs      *)
(* before those it has passed.                                             *)
SortedSoFar ==
    Sorting =>
        /\ strategy = "lowest-latency"
        /\ \A n \in DOMAIN routes : n > i => routes[n] = found[n]
        /\ routes[j] = found[i]
        /\ quiet =>
              /\ \A a, b \in 1..i : a < b /\ b # j => Ahead(routes[a], routes[b])
              /\ pc = "right" => left = LatencyOf(routes[j])

SortedAtLast ==
    pc = "done" =>
        \A a, b \in DOMAIN routes : a < b =>
            /\ strategy = "cheapest" => Cheaper(routes[a], routes[b])
            /\ strategy = "lowest-latency" /\ quiet => Ahead(routes[a], routes[b])

OrderInv == Permuted /\ SortedSoFar /\ SortedAtLast

(* A route that was found has its place, and its latency.                  *)
LEMMA PlaceIs ==
  ASSUME TypeOK, NEW r \in ToSet(found)
  PROVE  /\ PlaceFound(r) \in DOMAIN found /\ found[PlaceFound(r)] = r /\ PlaceFound(r) \in Nat
         /\ r \in RouteType /\ r.key \in Key /\ LatencyOf(r) \in Nat
<1>1. PICK n \in DOMAIN found : found[n] = r
  BY DEF ToSet
<1>2. found \in Seq(RouteType)
  BY TypeParts DEF CallTyped
<1>3. PlaceFound(r) \in DOMAIN found /\ found[PlaceFound(r)] = r
  BY <1>1 DEF PlaceFound
<1>4. PlaceFound(r) \in Nat /\ r \in RouteType
  BY <1>2, <1>3, LenProperties
<1>5. r.key \in Key
  BY <1>4 DEF RouteType
<1>6. HealthTyped(health[r.key])
  BY <1>5, TypeParts DEF HealthTyped
<1>7. LatencyOf(r) \in Nat
  BY <1>6, AverageIs DEF LatencyOf
<1> QED
  BY <1>3, <1>4, <1>5, <1>7

(* The order by latency is one: what is ahead of a route is ahead of those *)
(* that the route is ahead of.                                             *)
LEMMA AheadOrders ==
  ASSUME TypeOK, NEW r \in ToSet(found), NEW s \in ToSet(found), NEW t \in ToSet(found)
  PROVE  Ahead(r, s) /\ Ahead(s, t) => Ahead(r, t)
<1> DEFINE a == LatencyOf(r)
           b == LatencyOf(s)
           c == LatencyOf(t)
           x == PlaceFound(r)
           y == PlaceFound(s)
           z == PlaceFound(t)
<1>1. a \in Nat /\ b \in Nat /\ c \in Nat /\ x \in Nat /\ y \in Nat /\ z \in Nat
  BY PlaceIs
<1>2. /\ Ahead(r, s) <=> LessLatency(a, b) \/ (~LessLatency(b, a) /\ x < y)
      /\ Ahead(s, t) <=> LessLatency(b, c) \/ (~LessLatency(c, b) /\ y < z)
      /\ Ahead(r, t) <=> LessLatency(a, c) \/ (~LessLatency(c, a) /\ x < z)
  BY DEF Ahead
<1> HIDE DEF a, b, c, x, y, z
<1> QED
  BY <1>1, <1>2 DEF LessLatency

(* Steps that leave the routes and what they are sorted by.                *)
LEMMA SameAhead ==
  ASSUME TypeOK, found' = found,
         \A k \in Key : AverageLatency(health'[k]) = AverageLatency(health[k]),
         NEW r \in ToSet(found), NEW s \in ToSet(found)
  PROVE  LatencyOf(r)' = LatencyOf(r) /\ (Ahead(r, s)' <=> Ahead(r, s))
<1>1. r.key \in Key /\ s.key \in Key
  BY PlaceIs
<1>2. LatencyOf(r)' = LatencyOf(r) /\ LatencyOf(s)' = LatencyOf(s)
  BY <1>1 DEF LatencyOf
<1>3. PlaceFound(r)' = PlaceFound(r) /\ PlaceFound(s)' = PlaceFound(s)
  BY DEF PlaceFound
<1> QED
  BY <1>2, <1>3 DEF Ahead

(* Steps of the others keep the order, or they are reports and time, which *)
(* the promise excepts.                                                    *)
LEMMA CalmOrder ==
  ASSUME TypeOK, OrderInv, UNCHANGED <<pc, strategy, routes, found, i, j, left>>,
         (Sorting \/ pc = "done") /\ quiet' =>
             quiet /\ \A k \in Key : AverageLatency(health'[k]) = AverageLatency(health[k])
  PROVE  OrderInv'
<1>1. Permuted'
  BY DEF OrderInv, Permuted, Sorting
<1>2. \A a \in DOMAIN routes : Sorting \/ pc = "done" => routes[a] \in ToSet(found)
  BY DEF OrderInv, Permuted, ToSet
<1>3. SortedSoFar'
  <2> SUFFICES ASSUME Sorting
               PROVE  /\ strategy = "lowest-latency"
                      /\ \A n \in DOMAIN routes : n > i => routes[n] = found[n]
                      /\ routes[j] = found[i]
                      /\ quiet' =>
                            /\ \A a, b \in 1..i : a < b /\ b # j => Ahead(routes[a], routes[b])'
                            /\ pc = "right" => left = LatencyOf(routes[j])'
    BY DEF SortedSoFar, Sorting
  <2>1. i \in 2..Len(routes) /\ j \in 2..i /\ DOMAIN routes = 1..Len(routes) /\ Len(routes) \in Nat
    BY TypeParts, LenProperties DEF CallTyped, Sorting
  <2>2. ASSUME quiet', NEW a \in 1..i, NEW b \in 1..i, a < b, b # j
        PROVE  Ahead(routes[a], routes[b])'
    <3>1. a \in DOMAIN routes /\ b \in DOMAIN routes
      BY <2>1
    <3>2. Ahead(routes[a], routes[b])
      BY <2>2 DEF OrderInv, SortedSoFar
    <3> QED
      BY <1>2, <2>2, <3>1, <3>2, SameAhead
  <2>3. ASSUME quiet', pc = "right" PROVE left = LatencyOf(routes[j])'
    <3>1. j \in DOMAIN routes /\ left = LatencyOf(routes[j])
      BY <2>1, <2>3 DEF OrderInv, SortedSoFar
    <3> QED
      BY <1>2, <2>3, <3>1, SameAhead
  <2> QED
    BY <2>2, <2>3 DEF OrderInv, SortedSoFar
<1>4. SortedAtLast'
  <2> SUFFICES ASSUME pc = "done", NEW a \in DOMAIN routes, NEW b \in DOMAIN routes, a < b
               PROVE  /\ strategy = "cheapest" => Cheaper(routes[a], routes[b])'
                      /\ strategy = "lowest-latency" /\ quiet' => Ahead(routes[a], routes[b])'
    BY DEF SortedAtLast
  <2>1. Cheaper(routes[a], routes[b])' <=> Cheaper(routes[a], routes[b])
    BY DEF Cheaper, PlaceFound
  <2>2. ASSUME quiet' PROVE Ahead(routes[a], routes[b])' <=> Ahead(routes[a], routes[b])
    BY <1>2, <2>2, SameAhead
  <2> QED
    BY <2>1, <2>2 DEF OrderInv, SortedAtLast
<1> QED
  BY <1>1, <1>3, <1>4 DEF OrderInv

(* Before the sort nothing is promised.                                    *)
LEMMA NotSorting ==
  ASSUME pc' \notin {"left", "right", "done"}
  PROVE  OrderInv'
  BY DEF OrderInv, Permuted, SortedSoFar, SortedAtLast, Sorting

(* The strategy is chosen: the routes are sorted at once, or the insertion *)
(* sort starts.                                                            *)
LEMMA StrategyApplied ==
  ASSUME TypeOK, RoutesInv, ApplyStrategy
  PROVE  OrderInv'
<1>0. /\ routes \in Seq(RouteType) /\ DOMAIN routes = 1..Len(routes) /\ Len(routes) \in Nat
      /\ found' = routes
  BY TypeParts, LenProperties DEF CallTyped, ApplyStrategy
<1>1. \A a, b \in DOMAIN found' : found'[a] = found'[b] => a = b
  BY <1>0 DEF RoutesInv, Once
<1>2. CASE /\ strategy' = "lowest-latency" /\ Len(routes) > 1
           /\ pc' = "left" /\ i' = 2 /\ j' = 2 /\ UNCHANGED <<routes, left>>
  <2>1. Permuted'
    BY <1>0, <1>1, <1>2 DEF Permuted
  <2>2. \A a, b \in 1..2 : a < b => b = 2
    OBVIOUS
  <2>3. SortedSoFar'
    BY <1>0, <1>2, <2>2 DEF SortedSoFar
  <2> QED
    BY <1>2, <2>1, <2>3 DEF OrderInv, SortedAtLast
<1>3. ASSUME strategy' # "lowest-latency" \/ Len(routes) <= 1, pc' = "done",
             NEW p \in Orders(strategy'), routes' = [n \in DOMAIN routes |-> routes[p[n]]]
      PROVE  OrderInv'
  <2>1. p \in Bijection(DOMAIN routes, DOMAIN routes) /\ (strategy' = "cheapest" => ByCost(p))
    BY <1>3 DEF Orders
  <2>2. \A n \in DOMAIN routes : p[n] \in DOMAIN routes
    BY <2>1 DEF Bijection, Injection
  <2>3. DOMAIN p = DOMAIN routes /\ DOMAIN routes' = DOMAIN routes
    BY <1>3, <2>1 DEF Bijection, Injection
  <2>4. Len(routes') = Len(routes) /\ ToSet(routes') = ToSet(routes)
    BY <1>3, <2>1, SameElements
  <2>5. Permuted'
    BY <1>0, <1>1, <2>4 DEF Permuted
  <2>6. ASSUME NEW n \in DOMAIN routes PROVE PlaceFound(routes[n])' = p[n]
    <3>1. routes'[n] = found'[p[n]] /\ p[n] \in DOMAIN found'
      BY <1>0, <1>3, <2>2
    <3> QED
      BY <1>1, <3>1 DEF PlaceFound
  <2>7. ASSUME NEW a \in DOMAIN routes, NEW b \in DOMAIN routes, a < b
        PROVE  /\ strategy' = "cheapest" => Cheaper(routes[a], routes[b])'
               /\ strategy' # "lowest-latency"
    <3>1. strategy' # "lowest-latency"
      BY <1>0, <1>3, <2>7
    <3>2. ASSUME strategy' = "cheapest" PROVE Cheaper(routes[a], routes[b])'
      <4>1. \/ Less(routes[p[a]].price, routes[p[b]].price)
            \/ ~Less(routes[p[b]].price, routes[p[a]].price) /\ p[a] < p[b]
        BY <2>1, <2>3, <2>7, <3>2 DEF ByCost
      <4>2. routes'[a] = routes[p[a]] /\ routes'[b] = routes[p[b]]
        BY <1>3
      <4> QED
        BY <2>6, <4>1, <4>2 DEF Cheaper
    <3> QED
      BY <3>1, <3>2
  <2>8. SortedAtLast'
    BY <2>3, <2>7 DEF SortedAtLast
  <2> QED
    BY <1>3, <2>5, <2>8 DEF OrderInv, SortedSoFar, Sorting
<1> QED
  BY <1>2, <1>3 DEF ApplyStrategy

(* The latency of the route on its way is read.                            *)
LEMMA LeftRead ==
  ASSUME TypeOK, OrderInv, ReadLeft,
         \A k \in Key : AverageLatency(health'[k]) = AverageLatency(health[k])
  PROVE  OrderInv'
<1>1. /\ pc = "left" /\ pc' = "right" /\ UNCHANGED <<strategy, routes, found, i, j, quiet>>
      /\ left' = LatencyOf(routes[j])
  BY DEF ReadLeft, args, watch, LatencyOf
<1>2. \A a \in DOMAIN routes : routes[a] \in ToSet(found)
  BY <1>1 DEF OrderInv, Permuted, Sorting, ToSet
<1>3. i \in 2..Len(routes) /\ j \in 2..i /\ DOMAIN routes = 1..Len(routes) /\ Len(routes) \in Nat
  BY <1>1, TypeParts, LenProperties DEF CallTyped
<1>4. Permuted'
  BY <1>1 DEF OrderInv, Permuted, Sorting
<1>5. SortedSoFar'
  <2> SUFFICES /\ strategy = "lowest-latency"
               /\ \A n \in DOMAIN routes : n > i => routes[n] = found[n]
               /\ routes[j] = found[i]
               /\ quiet => /\ \A a, b \in 1..i : a < b /\ b # j => Ahead(routes[a], routes[b])'
                           /\ left' = LatencyOf(routes[j])'
    BY <1>1 DEF SortedSoFar
  <2>1. ASSUME quiet, NEW a \in 1..i, NEW b \in 1..i, a < b, b # j
        PROVE  Ahead(routes[a], routes[b])'
    <3>1. a \in DOMAIN routes /\ b \in DOMAIN routes
      BY <1>3
    <3>2. Ahead(routes[a], routes[b])
      BY <1>1, <2>1 DEF OrderInv, SortedSoFar, Sorting
    <3> QED
      BY <1>1, <1>2, <3>1, <3>2, SameAhead
  <2>2. left' = LatencyOf(routes[j])'
    <3>1. j \in DOMAIN routes
      BY <1>3
    <3> QED
      BY <1>1, <1>2, <3>1, SameAhead
  <2> QED
    BY <1>1, <2>1, <2>2 DEF OrderInv, SortedSoFar, Sorting
<1> QED
  BY <1>1, <1>4, <1>5 DEF OrderInv, SortedAtLast

(* In place j is the last of the first i routes that were found.           *)
LEMMA LastFound ==
  ASSUME TypeOK, RoutesInv, OrderInv, Sorting, NEW n \in 1..i, n # j
  PROVE  /\ routes[n] \in ToSet(found) /\ routes[j] \in ToSet(found)
         /\ PlaceFound(routes[n]) < PlaceFound(routes[j])
<1>1. i \in 2..Len(routes) /\ j \in 2..i /\ DOMAIN routes = 1..Len(routes) /\ Len(routes) \in Nat
  BY TypeParts, LenProperties DEF CallTyped, Sorting
<1>2. n \in DOMAIN routes /\ j \in DOMAIN routes
  BY <1>1
<1>3. /\ ToSet(routes) = ToSet(found) /\ Len(found) = Len(routes)
      /\ \A a, b \in DOMAIN found : found[a] = found[b] => a = b
  BY DEF OrderInv, Permuted
<1>4. routes[n] \in ToSet(found) /\ routes[j] \in ToSet(found)
  BY <1>2, <1>3 DEF ToSet
<1>5. found \in Seq(RouteType)
  BY TypeParts DEF CallTyped
<1>6. DOMAIN found = 1..Len(routes)
  BY <1>3, <1>5, LenProperties
<1> DEFINE m == PlaceFound(routes[n])
<1>7. m \in DOMAIN found /\ found[m] = routes[n]
  BY <1>4, PlaceIs
<1>8. PlaceFound(routes[j]) = i
  <2>1. i \in DOMAIN found /\ found[i] = routes[j]
    BY <1>1, <1>6 DEF OrderInv, SortedSoFar
  <2>2. PlaceFound(routes[j]) \in DOMAIN found /\ found[PlaceFound(routes[j])] = routes[j]
    BY <1>4, PlaceIs
  <2> QED
    BY <1>3, <2>1, <2>2
<1>9. \A a, b \in DOMAIN routes : routes[a] = routes[b] => a = b
  BY DEF RoutesInv, Once
<1>10. routes[n] # routes[j]
  BY <1>2, <1>9
<1> HIDE DEF m
<1>11. m # i
  BY <1>1, <1>6, <1>7, <1>10 DEF OrderInv, SortedSoFar
<1>12. ~(m > i)
  <2> SUFFICES ASSUME m > i PROVE FALSE
    OBVIOUS
  <2>1. m \in DOMAIN routes /\ routes[m] = found[m]
    BY <1>1, <1>6, <1>7 DEF OrderInv, SortedSoFar
  <2>2. m = n
    BY <1>2, <1>7, <1>9, <2>1
  <2> QED
    BY <1>1, <2>2
<1>13. m < i
  BY <1>1, <1>6, <1>7, <1>11, <1>12
<1> QED
  BY <1>4, <1>8, <1>13 DEF m

(* A route has found its place: the next one is taken up, or none is left. *)
LEMMA PlaceTaken ==
  ASSUME TypeOK, OrderInv, Sorting, Permuted', found' = found, strategy' = strategy,
         DOMAIN routes' = DOMAIN routes,
         \A n \in DOMAIN routes : n > i => routes'[n] = routes[n],
         quiet' => \A a, b \in 1..i : a < b => Ahead(routes[a], routes[b])',
         i' = i + 1, j' = i + 1, pc' = IF i < Len(routes) THEN "left" ELSE "done"
  PROVE  OrderInv'
<1>1. i \in 2..Len(routes) /\ DOMAIN routes = 1..Len(routes) /\ Len(routes) \in Nat
  BY TypeParts, LenProperties DEF CallTyped, Sorting
<1>2. strategy' = "lowest-latency" /\ \A n \in DOMAIN routes : n > i => routes'[n] = found[n]
  BY DEF OrderInv, SortedSoFar
<1>3. CASE i < Len(routes)
  <2>1. i + 1 \in DOMAIN routes /\ pc' = "left"
    BY <1>1, <1>3
  <2>2. \A a, b \in 1..(i + 1) : a < b /\ b # i + 1 => a \in 1..i /\ b \in 1..i
    BY <1>1
  <2>3. \A n \in DOMAIN routes : n > i + 1 => routes'[n] = found[n]
    BY <1>1, <1>2
  <2>4. routes'[i + 1] = found[i + 1]
    BY <1>1, <1>2, <2>1
  <2>5. quiet' => \A a, b \in 1..(i + 1) : a < b /\ b # i + 1 => Ahead(routes[a], routes[b])'
    BY <2>2
  <2>6. SortedSoFar'
    BY <1>2, <2>1, <2>3, <2>4, <2>5 DEF SortedSoFar
  <2> QED
    BY <2>1, <2>6 DEF OrderInv, SortedAtLast
<1>4. CASE ~(i < Len(routes))
  <2>0. pc' = "done"
    BY <1>4
  <2>1. i = Len(routes)
    <3>1. i \in Nat /\ i <= Len(routes) /\ Len(routes) \in Nat
      BY <1>1
    <3>2. \A m, n \in Nat : m <= n /\ ~(m < n) => m = n
      OBVIOUS
    <3> QED
      BY <1>4, <3>1, <3>2
  <2>2. SortedAtLast'
    BY <1>1, <1>2, <2>0, <2>1 DEF SortedAtLast
  <2> QED
    BY <2>0, <2>2 DEF OrderInv, SortedSoFar, Sorting
<1> QED
  BY <1>3, <1>4

(* The comparison says how the two routes are ordered, and they change     *)
(* places or stay.                                                         *)
LEMMA Compared ==
  ASSUME TypeOK, RoutesInv, OrderInv, CompareRight,
         \A k \in Key : AverageLatency(health'[k]) = AverageLatency(health[k])
  PROVE  OrderInv'
<1> DEFINE less == LessLatency(left, AverageLatency(health[routes[j - 1].key]))
<1>1. /\ pc = "right" /\ UNCHANGED <<strategy, found, quiet>>
      /\ routes' = IF less THEN [routes EXCEPT ![j] = routes[j - 1], ![j - 1] = routes[j]]
                   ELSE routes
      /\ IF less /\ j > 2 THEN j' = j - 1 /\ i' = i /\ pc' = "left"
         ELSE /\ i' = i + 1 /\ j' = i + 1
              /\ pc' = IF i < Len(routes) THEN "left" ELSE "done"
  BY DEF CompareRight, args, watch
<1>2. /\ i \in 2..Len(routes) /\ j \in 2..i /\ DOMAIN routes = 1..Len(routes)
      /\ Len(routes) \in Nat /\ Sorting
  BY <1>1, TypeParts, LenProperties DEF CallTyped, Sorting
<1>3. \A a \in 1..i : a \in DOMAIN routes
  BY <1>2
<1>4. j \in 1..i /\ j - 1 \in 1..i /\ j - 1 # j /\ j - 1 < j
  BY <1>2
<1>5. \A a \in DOMAIN routes : routes[a] \in ToSet(found)
  BY <1>2 DEF OrderInv, Permuted, ToSet
<1>6. less => Ahead(routes[j], routes[j - 1]) \/ ~quiet
  BY <1>1, <1>2 DEF OrderInv, SortedSoFar, Ahead, LatencyOf
<1>7. ~less => Ahead(routes[j - 1], routes[j]) \/ ~quiet
  <2>1. PlaceFound(routes[j - 1]) < PlaceFound(routes[j])
    BY <1>2, <1>4, LastFound
  <2> QED
    BY <1>1, <1>2, <2>1 DEF OrderInv, SortedSoFar, Ahead, LatencyOf
<1>8. \A a, b \in 1..i : quiet /\ a < b /\ b # j => Ahead(routes[a], routes[b])
  BY <1>2 DEF OrderInv, SortedSoFar
<1> HIDE DEF less
<1>9. CASE less
  <2>1. PICK p \in Bijection(DOMAIN routes, DOMAIN routes) :
             routes' = [n \in DOMAIN routes |-> routes[p[n]]]
    BY <1>1, <1>9, Swapped
  <2>2. /\ DOMAIN routes' = DOMAIN routes
        /\ Len(routes') = Len(routes) /\ ToSet(routes') = ToSet(routes)
    BY <2>1, SameElements
  <2>3. Permuted'
    BY <1>1, <1>2, <2>2 DEF OrderInv, Permuted
  <2>4. /\ routes'[j] = routes[j - 1] /\ routes'[j - 1] = routes[j]
        /\ \A n \in DOMAIN routes : n # j /\ n # j - 1 => routes'[n] = routes[n]
    BY <1>1, <1>3, <1>4, <1>9
  <2>5. \A n \in DOMAIN routes : n > i => routes'[n] = routes[n]
    BY <1>2, <2>4
  <2>6. ASSUME quiet, NEW a \in 1..i, NEW b \in 1..i, a < b, b # j - 1
        PROVE  Ahead(routes'[a], routes'[b])
    <3>0. a \in Nat /\ b \in Nat /\ i \in Nat /\ j \in Nat
      BY <1>2
    <3>1. CASE a = j - 1 /\ b = j
      BY <1>6, <1>9, <2>4, <2>6, <3>1
    <3>2. CASE a = j - 1 /\ b # j
      <4>1. b > j
        BY <2>6, <3>0, <3>2
      <4>2. Ahead(routes[j], routes[b])
        BY <1>4, <1>8, <2>6, <4>1, <3>2
      <4> QED
        BY <1>3, <2>4, <2>6, <3>2, <4>2
    <3>3. CASE a = j
      <4>1. b > j - 1 /\ b # j
        BY <2>6, <3>0, <3>3
      <4>2. Ahead(routes[j - 1], routes[b])
        BY <1>4, <1>8, <2>6, <4>1, <3>0
      <4> QED
        BY <1>3, <2>4, <2>6, <3>3, <4>1, <4>2
    <3>4. CASE a # j - 1 /\ a # j /\ b = j
      <4>1. a < j - 1
        BY <2>6, <3>0, <3>4
      <4>2. Ahead(routes[a], routes[j - 1])
        BY <1>4, <1>8, <2>6, <4>1
      <4> QED
        BY <1>3, <2>4, <3>4, <4>2
    <3>5. CASE a # j - 1 /\ a # j /\ b # j
      <4>1. Ahead(routes[a], routes[b])
        BY <1>8, <2>6, <3>5
      <4> QED
        BY <1>3, <2>4, <2>6, <3>5, <4>1
    <3> QED
      BY <3>1, <3>2, <3>3, <3>4, <3>5
  <2>7. \A a \in 1..i : routes'[a] \in ToSet(found)
    BY <1>2, <1>3, <1>4, <1>5, <2>4
  <2>8. ASSUME quiet, NEW a \in 1..i, NEW b \in 1..i, a < b, b # j - 1
        PROVE  Ahead(routes[a], routes[b])'
    <3>1. routes'[a] \in ToSet(found) /\ routes'[b] \in ToSet(found)
      BY <2>7
    <3>2. \A k \in Key : AverageLatency(health'[k]) = AverageLatency(health[k])
      OBVIOUS
    <3>3. Ahead(routes'[a], routes'[b])
      BY <2>6, <2>8
    <3>4. /\ PlaceFound(routes[a])' = PlaceFound(routes'[a])
          /\ PlaceFound(routes[b])' = PlaceFound(routes'[b])
      BY <1>1 DEF PlaceFound
    <3>5. routes'[a].key \in Key /\ routes'[b].key \in Key
      BY <3>1, PlaceIs
    <3>6. /\ LatencyOf(routes[a])' = LatencyOf(routes'[a])
          /\ LatencyOf(routes[b])' = LatencyOf(routes'[b])
      BY <3>2, <3>5 DEF LatencyOf
    <3> QED
      BY <3>3, <3>4, <3>6 DEF Ahead
  <2>9. CASE j > 2
    <3>1. j' = j - 1 /\ i' = i /\ pc' = "left"
      BY <1>1, <1>9, <2>9
    <3>2. routes'[j - 1] = found[i]
      BY <1>2, <2>4 DEF OrderInv, SortedSoFar
    <3>3. strategy' = "lowest-latency" /\ \A n \in DOMAIN routes : n > i => routes'[n] = found[n]
      BY <1>1, <1>2, <2>5 DEF OrderInv, SortedSoFar
    <3>4. SortedSoFar'
      BY <1>1, <2>2, <2>8, <3>1, <3>2, <3>3 DEF SortedSoFar
    <3> QED
      BY <2>3, <3>1, <3>4 DEF OrderInv, SortedAtLast
  <2>10. CASE ~(j > 2)
    <3>1. i' = i + 1 /\ j' = i + 1 /\ pc' = IF i < Len(routes) THEN "left" ELSE "done"
      BY <1>1, <1>9, <2>10
    <3>2. j - 1 = 1
      BY <1>2, <2>10
    <3>3. \A a, b \in 1..i : a < b => b # j - 1
      BY <1>2, <3>2
    <3>4. quiet' => \A a, b \in 1..i : a < b => Ahead(routes[a], routes[b])'
      BY <1>1, <2>8, <3>3
    <3> QED
      BY <1>1, <1>2, <2>2, <2>3, <2>5, <3>1, <3>4, PlaceTaken
  <2> QED
    BY <2>9, <2>10
<1>10. CASE ~less
  <2>1. /\ routes' = routes /\ i' = i + 1 /\ j' = i + 1
        /\ pc' = IF i < Len(routes) THEN "left" ELSE "done"
    BY <1>1, <1>10
  <2>2. Permuted'
    BY <1>1, <1>2, <2>1 DEF OrderInv, Permuted
  <2>3. ASSUME quiet, NEW a \in 1..i, NEW b \in 1..i, a < b
        PROVE  Ahead(routes[a], routes[b])
    <3>0. a \in Nat /\ b \in Nat /\ i \in Nat /\ j \in Nat
      BY <1>2
    <3>1. CASE b # j
      BY <1>8, <2>3, <3>1
    <3>2. CASE b = j /\ a = j - 1
      BY <1>7, <1>10, <2>3, <3>2
    <3>3. CASE b = j /\ a # j - 1
      <4>1. a < j - 1
        BY <2>3, <3>0, <3>3
      <4>2. Ahead(routes[a], routes[j - 1]) /\ Ahead(routes[j - 1], routes[j])
        BY <1>4, <1>7, <1>8, <1>10, <2>3, <4>1
      <4>3. /\ routes[a] \in ToSet(found) /\ routes[j - 1] \in ToSet(found)
            /\ routes[j] \in ToSet(found)
        BY <1>3, <1>4, <1>5
      <4> QED
        BY <3>3, <4>2, <4>3, AheadOrders
    <3> QED
      BY <3>1, <3>2, <3>3
  <2>4. \A a, b \in 1..i : quiet /\ a < b => Ahead(routes[a], routes[b])'
    <3> SUFFICES ASSUME NEW a \in 1..i, NEW b \in 1..i, quiet, a < b
                 PROVE  Ahead(routes[a], routes[b])'
      OBVIOUS
    <3>1. Ahead(routes[a], routes[b]) /\ routes[a] \in ToSet(found) /\ routes[b] \in ToSet(found)
      BY <1>3, <1>5, <2>3
    <3>2. /\ PlaceFound(routes[a])' = PlaceFound(routes[a])
          /\ PlaceFound(routes[b])' = PlaceFound(routes[b])
      BY <1>1, <2>1 DEF PlaceFound
    <3>3. routes[a].key \in Key /\ routes[b].key \in Key
      BY <3>1, PlaceIs
    <3>4. /\ LatencyOf(routes[a])' = LatencyOf(routes[a])
          /\ LatencyOf(routes[b])' = LatencyOf(routes[b])
      BY <2>1, <3>3 DEF LatencyOf
    <3> QED
      BY <3>1, <3>2, <3>4 DEF Ahead
  <2> QED
    BY <1>1, <1>2, <2>1, <2>2, <2>4, PlaceTaken
<1> QED
  BY <1>9, <1>10

(* Every step keeps the invariant of the sort.                             *)
LEMMA OrderInvStep ==
  ASSUME TypeOK, RoutesInv, OrderInv, [Next]_vars
  PROVE  OrderInv'
<1>1. CASE UNCHANGED vars
  BY <1>1, CalmOrder DEF vars, args, sorting, watch
<1>2. CASE Next /\ Tracker /\ CallUnchanged /\ UNCHANGED <<catalog, span>>
  <2>1. UNCHANGED <<pc, strategy, routes, found, i, j, left>> /\ pc # "done"
    BY <1>2 DEF CallUnchanged, args, sorting, Next
  <2>2. ASSUME NEW k \in Key, Consult(k) PROVE OrderInv'
    <3>1. LooksAt(k) /\ quiet' = quiet
      BY <2>2 DEF Consult, LooksAt, watch
    <3>2. \A l \in Key : AverageLatency(health'[l]) = AverageLatency(health[l])
      BY <3>1, AverageKept
    <3> QED
      BY <2>1, <3>1, <3>2, CalmOrder
  <2>3. ASSUME NoteHealth PROVE OrderInv'
    <3>1. Sorting => ~quiet'
      BY <2>3 DEF NoteHealth, Sorting
    <3> QED
      BY <2>1, <3>1, CalmOrder
  <2> QED
    BY <1>2, <2>2, <2>3 DEF Tracker, ReportSuccess, ReportError, Tick
<1>3. CASE Administration /\ Edit
  <2>1. UNCHANGED <<pc, strategy, routes, found, i, j, left, quiet, health>>
    BY <1>3 DEF Edit, CallUnchanged, args, sorting, watch
  <2> QED
    BY <2>1, CalmOrder
<1>4. CASE Resolve /\ UNCHANGED World
  <2>1. ASSUME NEW m \in Model, Start(m) PROVE OrderInv'
    BY <2>1, NotSorting DEF Start
  <2>2. ASSUME NextMapping \/ pc' = "keys" \/ pc' = "healthy" \/ pc' = "penalty" \/ pc' = "decrypt"
        PROVE OrderInv'
    BY <2>2, NotSorting DEF NextMapping, AfterModel
  <2>3. CASE ListMappings
    BY <2>3, NotSorting DEF ListMappings, AfterModel
  <2>4. CASE FindProvider \/ ListKeys
    BY <2>2, <2>4 DEF FindProvider, ListKeys
  <2>5. CASE PickHealthy \/ PickPenalty \/ DecryptToken
    BY <2>2, <2>5 DEF PickHealthy, PickPenalty, DecryptToken
  <2>6. CASE ListFallbacks
    BY <2>6, NotSorting DEF ListFallbacks
  <2>7. CASE ApplyStrategy
    BY <2>7, StrategyApplied
  <2>8. CASE ReadLeft \/ CompareRight
    <3>1. \E k : Prunes(k)
      BY <1>4, <2>8 DEF ReadLeft, CompareRight, Pruned, Prunes, World
    <3>2. \A k \in Key : AverageLatency(health'[k]) = AverageLatency(health[k])
      BY <3>1, AverageKept
    <3> QED
      BY <2>8, <3>2, LeftRead, Compared
  <2> QED
    BY <1>4, <2>1, <2>3, <2>4, <2>5, <2>6, <2>7, <2>8 DEF Resolve
<1> QED
  BY <1>1, <1>2, <1>3, <1>4, Moves

(* What the two orders say of prices and latencies, known or not.          *)
LEMMA PricesInOrder ==
  ASSUME TypeOK, NEW r \in ToSet(routes), NEW s \in ToSet(routes), Cheaper(r, s)
  PROVE  \/ s.price = None /\ r.price # None
         \/ s.price = None /\ PlaceFound(r) < PlaceFound(s)
         \/ /\ r.price # None /\ s.price # None
            /\ \/ r.price < s.price
               \/ r.price = s.price /\ PlaceFound(r) < PlaceFound(s)
<1>1. routes \in Seq(RouteType)
  BY TypeParts DEF CallTyped
<1>2. r \in RouteType /\ s \in RouteType
  BY <1>1, LenProperties DEF ToSet
<1> DEFINE p == r.price
           q == s.price
<1>3. p \in Price \cup {None} /\ q \in Price \cup {None}
  BY <1>2 DEF RouteType
<1>4. \A x \in Price : x \in Nat
  BY RoutingAssumption
<1>5. p # None /\ q # None => p \in Nat /\ q \in Nat
  BY <1>3, <1>4
<1>6. \/ p # None /\ (q = None \/ p < q)
      \/ ~(q # None /\ (p = None \/ q < p)) /\ PlaceFound(r) < PlaceFound(s)
  BY DEF Cheaper, Less
<1> HIDE DEF p, q
<1>7. \/ q = None /\ p # None
      \/ q = None /\ PlaceFound(r) < PlaceFound(s)
      \/ /\ p # None /\ q # None
         /\ \/ p < q
            \/ p = q /\ PlaceFound(r) < PlaceFound(s)
  BY <1>5, <1>6
<1> QED
  BY <1>7 DEF p, q

LEMMA LatenciesInOrder ==
  ASSUME TypeOK, NEW r \in ToSet(found), NEW s \in ToSet(found), Ahead(r, s)
  PROVE  \/ MeasuredOf(s) = None /\ MeasuredOf(r) # None
         \/ MeasuredOf(s) = None /\ PlaceFound(r) < PlaceFound(s)
         \/ /\ MeasuredOf(r) # None /\ MeasuredOf(s) # None
            /\ \/ MeasuredOf(r) < MeasuredOf(s)
               \/ MeasuredOf(r) = MeasuredOf(s) /\ PlaceFound(r) < PlaceFound(s)
<1> DEFINE p == LatencyOf(r)
           q == LatencyOf(s)
<1>1. p \in Nat /\ q \in Nat
  BY PlaceIs
<1>2. None \notin Nat
  BY RoutingAssumption
<1>3. /\ MeasuredOf(r) = IF p = 0 THEN None ELSE p
      /\ MeasuredOf(s) = IF q = 0 THEN None ELSE q
  BY DEF MeasuredOf, LatencyOf
<1>4. \/ p # 0 /\ (q = 0 \/ p < q)
      \/ ~(q # 0 /\ (p = 0 \/ q < p)) /\ PlaceFound(r) < PlaceFound(s)
  BY DEF Ahead, LessLatency
<1> HIDE DEF p, q
<1>5. (p # 0 => MeasuredOf(r) = p /\ p # None) /\ (p = 0 => MeasuredOf(r) = None)
  BY <1>1, <1>2, <1>3
<1>6. (q # 0 => MeasuredOf(s) = q /\ q # None) /\ (q = 0 => MeasuredOf(s) = None)
  BY <1>1, <1>2, <1>3
<1>7. \/ q = 0 /\ p # 0
      \/ q = 0 /\ PlaceFound(r) < PlaceFound(s)
      \/ /\ p # 0 /\ q # 0
         /\ p < q \/ (p = q /\ PlaceFound(r) < PlaceFound(s))
  BY <1>1, <1>4
<1> QED
  BY <1>5, <1>6, <1>7

(* Whatever is reported and read while the routes are sorted, and however  *)
(* many there are, sorting loses none and invents none; by cost they come  *)
(* in the order of price, and by latency in the order of latency unless an *)
(* outcome was reported or time passed meanwhile.                          *)
THEOREM OrderKeeping == Spec => []OrderKept
<1>1. Init => PickInv /\ RoutesInv /\ OrderInv
  <2> SUFFICES ASSUME Init PROVE OrderInv /\ PickInv /\ RoutesInv
    OBVIOUS
  <2>1. OrderInv
    BY DEF Init, OrderInv, Permuted, SortedSoFar, SortedAtLast, Sorting
  <2> QED
    BY <2>1, InitRoutes
<1>2. /\ TypeOK /\ FallbacksDistinct /\ PickInv /\ RoutesInv /\ OrderInv /\ [Next]_vars
      => PickInv' /\ RoutesInv' /\ OrderInv'
  BY PickInvStep, RoutesInvStep, OrderInvStep
<1>3. TypeOK /\ OrderInv => OrderKept
  <2> SUFFICES ASSUME TypeOK, OrderInv, pc = "done"
               PROVE  /\ ToSet(routes) = ToSet(found) /\ Len(routes) = Len(found)
                      /\ strategy = "cheapest" => InOrder(PriceOf)
                      /\ strategy = "lowest-latency" /\ quiet => InOrder(MeasuredOf)
    BY DEF OrderKept
  <2>1. ToSet(routes) = ToSet(found) /\ Len(routes) = Len(found)
    BY DEF OrderInv, Permuted
  <2>2. \A a \in DOMAIN routes : routes[a] \in ToSet(routes) /\ routes[a] \in ToSet(found)
    BY <2>1 DEF ToSet
  <2>3. ASSUME strategy = "cheapest" PROVE InOrder(PriceOf)
    <3>1. \A a, b \in DOMAIN routes : a < b => Cheaper(routes[a], routes[b])
      BY <2>3 DEF OrderInv, SortedAtLast
    <3> QED
      BY <2>2, <3>1, PricesInOrder DEF InOrder, PriceOf, Unknown
  <2>4. ASSUME strategy = "lowest-latency", quiet PROVE InOrder(MeasuredOf)
    <3>1. \A a, b \in DOMAIN routes : a < b => Ahead(routes[a], routes[b])
      BY <2>4 DEF OrderInv, SortedAtLast
    <3> QED
      BY <2>2, <3>1, LatenciesInOrder DEF InOrder, Unknown
  <2> QED
    BY <2>1, <2>3, <2>4
<1> QED
  BY <1>1, <1>2, <1>3, TypeCorrect, PTL DEF Spec
=============================================================================
