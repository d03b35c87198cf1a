---------------------------- MODULE CachesProofs ----------------------------
(***************************************************************************)
(* Proofs about the three caches of module Caches: that of configurations  *)
(* (ConfigCache, from here on), for every set of subjects, lookups and     *)
(* updates and every TTL; that of tokens, for every set of secrets, tokens *)
(* and validations and every margin and lifetime the assumption allows;    *)
(* and that of responses, for every set of requests and invalidations and  *)
(* every TTL.                                                              *)
(***************************************************************************)
EXTENDS Caches, TLAPS


LEMMA Constants ==
  /\ AnySubject \in Subject /\ Subject \subseteq Key /\ Default \in Key
  /\ Default \notin Subject
  /\ TTL \in Nat /\ TTL # 0 /\ MaxWrites \in Nat /\ MaxFaults \in Nat
  /\ None \in Config /\ Nothing \in Finding
  BY CacheAssumption
     DEF AnySubject, Key, Config, None, Nothing, Fresh, Finding, Origin

(* What the operations on the map do, entry by entry. *)
LEMMA WithoutDoes ==
  ASSUME NEW k, cache' = Without(k)
  PROVE  /\ DOMAIN cache' = DOMAIN cache \ {k}
         /\ \A x \in DOMAIN cache' : cache'[x] = cache[x]
  BY DEF Without

LEMMA StoreDoes ==
  ASSUME NEW k, NEW f, Store(k, f)
  PROVE  /\ DOMAIN cache' = DOMAIN cache \cup {k}
         /\ cache'[k] = [cfg |-> f.cfg, age |-> f.age, origin |-> f.origin, left |-> TTL]
         /\ \A x \in DOMAIN cache \ {k} : cache'[x] = cache[x]
<1> DEFINE e == [cfg |-> f.cfg, age |-> f.age, origin |-> f.origin, left |-> TTL]
<1>1. cache' = With(k, e)
  BY DEF Store
<1> HIDE DEF e
<1>2. /\ DOMAIN cache' = DOMAIN cache \cup {k}
      /\ \A x \in DOMAIN cache' : cache'[x] = IF x = k THEN e ELSE cache[x]
  BY <1>1 DEF With
<1> QED
  BY <1>2 DEF e

LEMMA TickDoes ==
  ASSUME Tick
  PROVE  /\ DOMAIN cache' = DOMAIN cache
         /\ \A k \in DOMAIN cache :
               cache'[k] = IF cache[k].left = 0 THEN cache[k]
                           ELSE [cfg |-> cache[k].cfg, age |-> cache[k].age + 1,
                                 origin |-> cache[k].origin, left |-> cache[k].left - 1]
  BY DEF Tick

LEMMA ElsewhereDoes ==
  ASSUME UpdateElsewhere
  PROVE  /\ DOMAIN cache' = DOMAIN cache
         /\ \A k \in DOMAIN cache :
               cache'[k] = [cfg |-> cache[k].cfg, age |-> cache[k].age,
                            origin |-> "mixed", left |-> cache[k].left]
  BY DEF UpdateElsewhere

----------------------------------------------------------------------------

(* The type of the map. *)
CacheOK == DOMAIN cache \subseteq Key /\ \A k \in DOMAIN cache : cache[k] \in Entry

LEMMA WithoutType ==
  ASSUME NEW k, CacheOK, cache' = Without(k)
  PROVE  CacheOK'
  BY WithoutDoes DEF CacheOK, Key, Entry, Config

LEMMA StoreType ==
  ASSUME NEW k \in Key, NEW f \in Finding, CacheOK, Store(k, f)
  PROVE  CacheOK'
<1> DEFINE e == [cfg |-> f.cfg, age |-> f.age, origin |-> f.origin, left |-> TTL]
<1>1. e \in Entry
  BY Constants DEF Finding, Entry
<1>2. /\ DOMAIN cache' = DOMAIN cache \cup {k}
      /\ cache'[k] = e
      /\ \A x \in DOMAIN cache \ {k} : cache'[x] = cache[x]
  BY StoreDoes
<1> HIDE DEF e
<1>3. ASSUME NEW x \in DOMAIN cache' PROVE cache'[x] \in Entry
  BY <1>1, <1>2 DEF CacheOK
<1>4. DOMAIN cache' \subseteq Key
  BY <1>2 DEF CacheOK
<1> QED
  BY <1>3, <1>4 DEF CacheOK, Entry, Config, Key, Origin

LEMMA TickType ==
  ASSUME CacheOK, Tick
  PROVE  CacheOK'
<1>1. ASSUME NEW k \in DOMAIN cache PROVE cache'[k] \in Entry
  <2>1. cache[k] \in Entry
    BY DEF CacheOK
  <2> QED
    BY <2>1, TickDoes, Constants DEF Entry
<1> QED
  BY <1>1, TickDoes DEF CacheOK, Key, Entry, Config, Origin

LEMMA ElsewhereType ==
  ASSUME CacheOK, UpdateElsewhere
  PROVE  CacheOK'
<1>1. ASSUME NEW k \in DOMAIN cache PROVE cache'[k] \in Entry
  <2>1. cache[k] \in Entry
    BY DEF CacheOK
  <2> QED
    BY <2>1, ElsewhereDoes DEF Entry, Origin
<1> QED
  BY <1>1, ElsewhereDoes DEF CacheOK, Key, Entry, Config, Origin

LEMMA ResultType ==
  ASSUME TypeOK, NEW r \in Request
  PROVE  Result(r) \in Finding
<1>1. found[r] \in Finding
  BY DEF TypeOK
<1> QED
  BY <1>1 DEF Result, Finding, Origin

(* Every variable keeps its type. *)
THEOREM TypeCorrect == Spec => []TypeOK
<1>1. Init => TypeOK
  BY Constants DEF Init, TypeOK
<1>2. TypeOK /\ [Next]_vars => TypeOK'
  <2> SUFFICES ASSUME TypeOK, [Next]_vars PROVE TypeOK'
    OBVIOUS
  <2>0. CacheOK /\ (CacheOK' => DOMAIN cache' \subseteq Key
                    /\ \A k \in DOMAIN cache' : cache'[k] \in Entry)
    BY DEF TypeOK, CacheOK, Key, Entry, Config, Origin
  <2> USE Constants
  <2>1. ASSUME NEW r \in Request, Load(r) PROVE TypeOK'
    BY <2>1 DEF Load, TypeOK, Goto, updates
  <2>2. ASSUME NEW r \in Request, Evict(r) PROVE TypeOK'
    <3>1. CacheOK'
      BY <2>0, <2>2, WithoutType DEF Evict
    <3> QED
      BY <2>0, <2>2, <3>1 DEF Evict, TypeOK, Goto, updates
  <2>3. ASSUME NEW r \in Request, Query(r) PROVE TypeOK'
    <3>1. \A c \in Config : Fresh(c) \in Finding
      BY DEF Fresh, Finding, Origin
    <3>2. of[r] \in Key /\ db[of[r]] \in Config
      BY DEF TypeOK
    <3> QED
      BY <2>3, <3>1, <3>2 DEF Query, Fails, Finds, TypeOK, Goto, updates
  <2>4. ASSUME NEW r \in Request, LoadDefault(r) PROVE TypeOK'
    <3>1. Live(Default) => [cfg |-> cache[Default].cfg, age |-> cache[Default].age,
                            origin |-> cache[Default].origin] \in Finding
      BY <2>0 DEF Live, CacheOK, Entry, Finding
    <3> QED
      BY <2>4, <3>1 DEF LoadDefault, Finds, TypeOK, Goto, updates
  <2>5. ASSUME NEW r \in Request, QueryDefault(r) PROVE TypeOK'
    <3>1. \A c \in Config : Fresh(c) \in Finding
      BY DEF Fresh, Finding, Origin
    <3>2. db[Default] \in Config
      BY DEF TypeOK
    <3> QED
      BY <2>5, <3>1, <3>2 DEF QueryDefault, Fails, Finds, TypeOK, Goto, updates
  <2>6. ASSUME NEW r \in Request, StoreDefault(r) PROVE TypeOK'
    <3>1. CacheOK'
      BY <2>0, <2>6, StoreType, ResultType DEF StoreDefault
    <3> QED
      BY <2>0, <2>6, <3>1 DEF StoreDefault, TypeOK, Goto, updates
  <2>7. ASSUME NEW r \in Request, StoreOwn(r) PROVE TypeOK'
    <3>0. of[r] \in Key
      BY DEF TypeOK
    <3>1. CacheOK'
      BY <2>0, <2>7, <3>0, StoreType, ResultType DEF StoreOwn
    <3> QED
      BY <2>0, <2>7, <3>1 DEF StoreOwn, Return, Finds, TypeOK, Goto, updates
  <2>8. ASSUME NEW k \in Key, Write(k)
        PROVE  /\ db' \in [Key -> Config] /\ writes' \in 0..MaxWrites
               /\ mixed' \subseteq Request
    BY <2>8 DEF Write, TypeOK, Config, Busy, None
  <2>9. ASSUME NEW a \in Admin, UpdateRow(a) PROVE TypeOK'
    BY <2>8, <2>9 DEF UpdateRow, TypeOK
  <2>10. ASSUME NEW a \in Admin, DeleteKey(a) PROVE TypeOK'
    <3>1. CacheOK'
      BY <2>0, <2>10, WithoutType DEF DeleteKey
    <3> QED
      BY <2>0, <2>10, <3>1 DEF DeleteKey, TypeOK, lookups
  <2>11. ASSUME NEW a \in Admin, RangeDelete(a) PROVE TypeOK'
    <3>1. CASE \E k \in sweep[a] \cup DOMAIN cache :
                 /\ cache' = Without(k)
                 /\ sweep' = [sweep EXCEPT ![a] = @ \ {k}]
                 /\ UNCHANGED todo
      <4>1. CacheOK'
        BY <2>0, <3>1, WithoutType
      <4> QED
        BY <2>0, <2>11, <3>1, <4>1 DEF RangeDelete, TypeOK, lookups
    <3>2. CASE UNCHANGED <<cache, sweep>> /\ todo' = [todo EXCEPT ![a] = "nothing"]
      BY <2>11, <3>2 DEF RangeDelete, TypeOK, lookups
    <3> QED
      BY <2>11, <3>1, <3>2 DEF RangeDelete
  <2>12. CASE UpdateElsewhere
    <3>1. CacheOK'
      BY <2>0, <2>12, ElsewhereType
    <3> QED
      BY <2>0, <2>8, <2>12, <3>1 DEF UpdateElsewhere, TypeOK, updates
  <2>13. CASE Tick
    <3>1. CacheOK'
      BY <2>0, <2>13, TickType
    <3>2. \A f \in Finding : [cfg |-> f.cfg, age |-> f.age + 1, origin |-> f.origin] \in Finding
      BY DEF Finding
    <3>3. found' \in [Request -> Finding]
      BY <2>13, <3>2 DEF Tick, TypeOK
    <3> QED
      BY <2>0, <2>13, <3>1, <3>3 DEF Tick, TypeOK, updates, Busy
  <2>14. CASE UNCHANGED vars
    BY <2>14 DEF vars, lookups, updates, TypeOK
  <2> QED
    BY <2>1, <2>2, <2>3, <2>4, <2>5, <2>6, <2>7, <2>9, <2>10, <2>11, <2>12,
       <2>13, <2>14 DEF Next, Step, Invalidate
<1> QED
  BY <1>1, <1>2, PTL DEF Spec

----------------------------------------------------------------------------

(* The lookups that no update overlapped, so far. *)
Undisturbed(r) == pc[r] # "idle" /\ r \notin mixed

(* What update a will delete from the map. *)
Doomed(a, k) == \/ todo[a] = "delete" /\ (about[a] = k \/ about[a] = Default)
                \/ todo[a] = "range" /\ k \in sweep[a]

(* CoherentUnlessMixed alone is not inductive: one must know that no       *)
(* update runs beside an undisturbed lookup, that what such a lookup found *)
(* is still current, and that a clean entry an update made stale is one    *)
(* that update is about to delete.                                         *)
Calm == \A r \in Request : Undisturbed(r) => ~Updating

Inherits ==
    \A r \in Request :
        Undisturbed(r) /\ pc[r] \in {"default", "evictDefault", "queryDefault", "storeDefault"}
            => db[of[r]] = None

FindsCurrent ==
    \A r \in Request :
        Undisturbed(r) /\ found[r].origin = "clean" =>
            /\ pc[r] = "storeDefault" => found[r].cfg = db[Default]
            /\ pc[r] = "store" => found[r].cfg = Effective(of[r])

StaleDoomed ==
    \A k \in DOMAIN cache :
        cache[k].origin = "clean" /\ cache[k].cfg # Effective(k)
            => \E a \in Admin : Doomed(a, k)

Coherence == Calm /\ Inherits /\ FindsCurrent /\ StaleDoomed

(* A step of lookup r alone, which leaves the map's other entries, the     *)
(* database and the updates as they are.                                   *)
Alone(r) == /\ UNCHANGED <<db, todo, about, sweep>>
            /\ mixed \subseteq mixed' \cup {r}
            /\ \A q \in Request \ {r} : /\ pc'[q] = pc[q] /\ of'[q] = of[q]
                                        /\ found'[q] = found[q]

LEMMA OthersKeep ==
  ASSUME NEW r \in Request, Alone(r), Calm, Inherits, FindsCurrent,
         Undisturbed(r)' => ~Updating,
         Undisturbed(r)' /\ pc'[r] \in {"default", "evictDefault", "queryDefault", "storeDefault"}
             => db[of'[r]] = None,
         Undisturbed(r)' /\ found'[r].origin = "clean" =>
             /\ pc'[r] = "storeDefault" => found'[r].cfg = db[Default]
             /\ pc'[r] = "store" => found'[r].cfg = Effective(of'[r])
  PROVE  Calm' /\ Inherits' /\ FindsCurrent'
<1>1. Updating' <=> Updating
  BY DEF Alone, Updating
<1>2. \A k : Effective(k)' = Effective(k)
  BY DEF Alone, Effective
<1>3. ASSUME NEW q \in Request, q # r, Undisturbed(q)'
      PROVE  Undisturbed(q)
  BY <1>3 DEF Alone, Undisturbed
<1>4. Calm'
  BY <1>1, <1>3 DEF Calm, Undisturbed
<1>5. Inherits'
  BY <1>3 DEF Inherits, Alone
<1>6. FindsCurrent'
  <2> SUFFICES ASSUME NEW q \in Request, Undisturbed(q)', found'[q].origin = "clean"
               PROVE  /\ pc'[q] = "storeDefault" => found'[q].cfg = db'[Default]
                      /\ pc'[q] = "store" => found'[q].cfg = Effective(of[q])'
    BY DEF FindsCurrent
  <2>1. Effective(of[q])' = Effective(of'[q])
    BY DEF Alone, Effective
  <2>2. CASE q = r
    BY <2>1, <2>2 DEF Alone
  <2>3. CASE q # r
    BY <2>1, <2>3, <1>3 DEF Alone, FindsCurrent
  <2> QED
    BY <2>2, <2>3
<1> QED
  BY <1>4, <1>5, <1>6

(* Deleting entries, or keeping them, keeps stale ones doomed.             *)
LEMMA FewerEntries ==
  ASSUME StaleDoomed, UNCHANGED <<db, todo, about, sweep>>,
         DOMAIN cache' \subseteq DOMAIN cache,
         \A k \in DOMAIN cache' : cache'[k].cfg = cache[k].cfg
                                  /\ cache'[k].origin = cache[k].origin
  PROVE  StaleDoomed'
<1>1. \A k : Effective(k)' = Effective(k)
  BY DEF Effective
<1>2. \A a, k : Doomed(a, k)' <=> Doomed(a, k)
  BY DEF Doomed
<1> QED
  BY <1>1, <1>2 DEF StaleDoomed

(* So does storing an entry that is mixed or current.                      *)
LEMMA GoodEntry ==
  ASSUME StaleDoomed, UNCHANGED <<db, todo, about, sweep>>,
         NEW k, NEW f, Store(k, f),
         f.origin = "clean" => f.cfg = Effective(k)
  PROVE  StaleDoomed'
<1>1. \A x : Effective(x)' = Effective(x)
  BY DEF Effective
<1>2. \A a, x : Doomed(a, x)' <=> Doomed(a, x)
  BY DEF Doomed
<1>3. /\ DOMAIN cache' = DOMAIN cache \cup {k}
      /\ cache'[k] = [cfg |-> f.cfg, age |-> f.age, origin |-> f.origin, left |-> TTL]
      /\ \A x \in DOMAIN cache \ {k} : cache'[x] = cache[x]
  BY StoreDoes
<1>4. cache'[k].cfg = f.cfg /\ cache'[k].origin = f.origin
  BY <1>3
<1> QED
  BY <1>1, <1>2, <1>3, <1>4 DEF StaleDoomed

(* An undisturbed lookup stores what it found, under the subject.          *)
LEMMA ResultCurrent ==
  ASSUME NEW r \in Request, FindsCurrent, Undisturbed(r), Result(r).origin = "clean"
  PROVE  /\ pc[r] = "storeDefault" => Result(r).cfg = db[Default]
         /\ pc[r] = "store" => Result(r).cfg = Effective(of[r])
  BY DEF FindsCurrent, Undisturbed, Result

LEMMA MixedResult ==
  ASSUME NEW r \in Request, Result(r).origin = "clean"
  PROVE  r \notin mixed
  BY DEF Result

(* A write disturbs every lookup, and leaves the configuration of others.  *)
LEMMA WriteDisturbs ==
  ASSUME TypeOK, NEW k \in Key, Write(k), pc' = pc
  PROVE  /\ \A r \in Request : ~Undisturbed(r)'
         /\ \A x \in Key : x # k /\ k # Default => Effective(x)' = Effective(x)
<1>1. \A r \in Request : ~Undisturbed(r)'
  BY DEF Write, Undisturbed, Busy
<1>2. \A x \in Key : x # k => db'[x] = db[x]
  BY DEF Write, TypeOK
<1> QED
  BY <1>1, <1>2, Constants DEF Effective

LEMMA CoherenceStep == TypeOK /\ Coherence /\ [Next]_vars => Coherence'
<1> SUFFICES ASSUME TypeOK, Coherence, [Next]_vars PROVE Coherence'
  OBVIOUS
<1>0. Calm /\ Inherits /\ FindsCurrent /\ StaleDoomed
  BY DEF Coherence
<1>a. Effective(Default) = db[Default]
  BY DEF Effective
<1>1. ASSUME NEW r \in Request, Load(r) PROVE Coherence'
  <2>1. Alone(r) /\ pc'[r] \in {"evict", "query"} /\ (r \notin mixed' => ~Updating)
    BY <1>1 DEF Load, Alone, Goto, updates, TypeOK
  <2>2. Calm' /\ Inherits' /\ FindsCurrent'
    BY <1>0, <2>1, OthersKeep DEF Undisturbed
  <2>3. StaleDoomed'
    BY <1>0, <1>1, FewerEntries DEF Load, updates
  <2> QED
    BY <2>2, <2>3 DEF Coherence
<1>2. ASSUME NEW r \in Request, Evict(r) PROVE Coherence'
  <2>1. /\ Alone(r) /\ UNCHANGED <<of, found, mixed>>
        /\ \/ pc[r] = "evict" /\ pc'[r] = "query"
           \/ pc[r] = "evictDefault" /\ pc'[r] = "queryDefault"
    BY <1>2 DEF Evict, Alone, Goto, updates, TypeOK
  <2>2. Calm' /\ Inherits' /\ FindsCurrent'
    BY <1>0, <2>1, OthersKeep DEF Undisturbed, Calm, Inherits
  <2>3. StaleDoomed'
    <3>1. PICK k : cache' = Without(k)
      BY <1>2 DEF Evict
    <3> QED
      BY <1>0, <1>2, <3>1, WithoutDoes, FewerEntries DEF Evict, updates
  <2> QED
    BY <2>2, <2>3 DEF Coherence
<1>3. ASSUME NEW r \in Request, Query(r) PROVE Coherence'
  <2>1. /\ Alone(r) /\ UNCHANGED <<of, cache>> /\ pc[r] = "query"
        /\ \/ /\ db[of[r]] # None /\ pc'[r] = "store" /\ found'[r] = Fresh(db[of[r]])
              /\ mixed' = mixed
           \/ db[of[r]] = None /\ pc'[r] = "default" /\ mixed' = mixed
           \/ pc'[r] = "default" /\ r \in mixed'
    BY <1>3 DEF Query, Fails, Finds, Alone, Goto, updates, TypeOK
  <2>2. Fresh(db[of[r]]).cfg = db[of[r]]
    BY DEF Fresh
  <2>3. Calm' /\ Inherits' /\ FindsCurrent'
    BY <1>0, <2>1, <2>2, OthersKeep DEF Undisturbed, Calm, Effective
  <2>4. StaleDoomed'
    BY <1>0, <2>1, FewerEntries DEF Alone
  <2> QED
    BY <2>3, <2>4 DEF Coherence
<1>4. ASSUME NEW r \in Request, LoadDefault(r) PROVE Coherence'
  <2>1. /\ Alone(r) /\ UNCHANGED <<of, cache, mixed>> /\ pc[r] = "default"
        /\ \/ /\ Live(Default) /\ pc'[r] = "store"
              /\ found'[r] = [cfg |-> cache[Default].cfg, age |-> cache[Default].age,
                              origin |-> cache[Default].origin]
           \/ pc'[r] \in {"evictDefault", "queryDefault"}
    BY <1>4 DEF LoadDefault, Finds, Alone, Goto, updates, TypeOK
  <2>2. ASSUME Undisturbed(r), Live(Default), cache[Default].origin = "clean"
        PROVE  cache[Default].cfg = Effective(of[r])
    <3>1. \A a \in Admin : ~Doomed(a, Default)
      BY <1>0, <2>2 DEF Calm, Updating, Doomed
    <3>2. cache[Default].cfg = Effective(Default)
      BY <1>0, <2>2, <3>1 DEF StaleDoomed, Live
    <3>3. db[of[r]] = None
      BY <1>0, <2>1, <2>2 DEF Inherits
    <3> QED
      BY <3>2, <3>3 DEF Effective
  <2>3. Calm' /\ Inherits' /\ FindsCurrent'
    BY <1>0, <2>1, <2>2, OthersKeep DEF Undisturbed, Calm, Inherits
  <2>4. StaleDoomed'
    BY <1>0, <2>1, FewerEntries DEF Alone
  <2> QED
    BY <2>3, <2>4 DEF Coherence
<1>5. ASSUME NEW r \in Request, QueryDefault(r) PROVE Coherence'
  <2>1. /\ Alone(r) /\ UNCHANGED <<of, cache>> /\ pc[r] = "queryDefault"
        /\ \/ /\ pc'[r] \in {"storeDefault", "store"} /\ found'[r] = Fresh(db[Default])
              /\ mixed' = mixed
           \/ pc'[r] = "store" /\ r \in mixed'
    BY <1>5 DEF QueryDefault, Fails, Finds, Alone, Goto, updates, TypeOK
  <2>2. Fresh(db[Default]).cfg = db[Default]
    BY DEF Fresh
  <2>3. Undisturbed(r) => db[of[r]] = None
    BY <1>0, <2>1 DEF Inherits
  <2>4. Calm' /\ Inherits' /\ FindsCurrent'
    BY <1>0, <2>1, <2>2, <2>3, OthersKeep DEF Undisturbed, Calm, Effective
  <2>5. StaleDoomed'
    BY <1>0, <2>1, FewerEntries DEF Alone
  <2> QED
    BY <2>4, <2>5 DEF Coherence
<1>6. ASSUME NEW r \in Request, StoreDefault(r) PROVE Coherence'
  <2>1. /\ Alone(r) /\ UNCHANGED <<of, found, mixed>>
        /\ pc[r] = "storeDefault" /\ pc'[r] = "store"
    BY <1>6 DEF StoreDefault, Alone, Goto, updates, TypeOK
  <2>2. Undisturbed(r) => db[of[r]] = None
    BY <1>0, <2>1 DEF Inherits
  <2>3. Calm' /\ Inherits' /\ FindsCurrent'
    BY <1>0, <2>1, <2>2, OthersKeep DEF Undisturbed, Calm, FindsCurrent, Effective
  <2>4. Result(r).origin = "clean" => Result(r).cfg = Effective(Default)
    BY <1>0, <1>a, <2>1, ResultCurrent, MixedResult DEF Undisturbed
  <2>5. StaleDoomed'
    BY <1>0, <1>6, <2>4, GoodEntry DEF StoreDefault, updates
  <2> QED
    BY <2>3, <2>5 DEF Coherence
<1>7. ASSUME NEW r \in Request, StoreOwn(r) PROVE Coherence'
  <2>1. Alone(r) /\ pc[r] = "store" /\ pc'[r] = "idle"
    BY <1>7 DEF StoreOwn, Return, Finds, Alone, Goto, updates, TypeOK
  <2>2. Calm' /\ Inherits' /\ FindsCurrent'
    BY <1>0, <2>1, OthersKeep DEF Undisturbed
  <2>3. Result(r).origin = "clean" => Result(r).cfg = Effective(of[r])
    BY <1>0, <2>1, ResultCurrent, MixedResult DEF Undisturbed
  <2>4. StaleDoomed'
    BY <1>0, <1>7, <2>3, GoodEntry DEF StoreOwn, updates
  <2> QED
    BY <2>2, <2>4 DEF Coherence
<1>8. ASSUME NEW a \in Admin, UpdateRow(a) PROVE Coherence'
  <2>1. PICK k \in Key : Write(k) /\ about' = [about EXCEPT ![a] = k]
    BY <1>8 DEF UpdateRow
  <2>2. /\ todo[a] = "nothing" /\ todo' = [todo EXCEPT ![a] = "delete"]
        /\ UNCHANGED <<cache, pc, of, found, sweep>>
    BY <1>8 DEF UpdateRow
  <2>3. Calm' /\ Inherits' /\ FindsCurrent'
    BY <2>1, <2>2, WriteDisturbs DEF Calm, Inherits, FindsCurrent
  <2>4. \A x : x = k \/ k = Default => Doomed(a, x)'
    BY <2>1, <2>2 DEF Doomed, TypeOK
  <2>5. \A b \in Admin : \A x : Doomed(b, x) => Doomed(b, x)'
    BY <2>1, <2>2 DEF Doomed, TypeOK
  <2>6. DOMAIN cache \subseteq Key
    BY DEF TypeOK
  <2>7. StaleDoomed'
    <3> SUFFICES ASSUME NEW x \in DOMAIN cache, cache[x].origin = "clean",
                        cache[x].cfg # Effective(x)'
                 PROVE  \E b \in Admin : Doomed(b, x)'
      BY <2>2 DEF StaleDoomed
    <3>1. CASE x = k \/ k = Default
      BY <3>1, <2>4
    <3>2. CASE x # k /\ k # Default
      <4>1. Effective(x)' = Effective(x)
        BY <2>1, <2>2, <2>6, <3>2, WriteDisturbs
      <4>2. PICK b \in Admin : Doomed(b, x)
        BY <1>0, <4>1 DEF StaleDoomed
      <4> QED
        BY <4>2, <2>5
    <3> QED
      BY <3>1, <3>2
  <2> QED
    BY <2>3, <2>7 DEF Coherence
<1>9. ASSUME NEW a \in Admin, DeleteKey(a) \/ RangeDelete(a)
     PROVE  Calm' /\ Inherits' /\ FindsCurrent'
  <2>1. UNCHANGED <<db, pc, of, found, mixed>> /\ todo[a] # "nothing"
    BY <1>9 DEF DeleteKey, RangeDelete, lookups
  <2>2. \A r \in Request : ~Undisturbed(r)
    BY <1>0, <2>1 DEF Calm, Updating
  <2>3. \A r \in Request : ~Undisturbed(r)'
    BY <2>1, <2>2 DEF Undisturbed
  <2> QED
    BY <2>3 DEF Calm, Inherits, FindsCurrent
<1>10. ASSUME NEW a \in Admin, DeleteKey(a) PROVE Coherence'
  <2>1. /\ todo[a] = "delete" /\ cache' = Without(about[a]) /\ UNCHANGED db
        /\ \A b \in Admin \ {a} : /\ todo'[b] = todo[b] /\ about'[b] = about[b]
                                  /\ sweep'[b] = sweep[b]
        /\ about[a] = Default => /\ todo'[a] = "range"
                                 /\ sweep'[a] = DOMAIN cache \ {Default}
    BY <1>10 DEF DeleteKey, TypeOK
  <2>2. /\ DOMAIN cache' = DOMAIN cache \ {about[a]}
        /\ \A x \in DOMAIN cache' : cache'[x] = cache[x]
    BY <2>1, WithoutDoes
  <2>3. \A x : Effective(x)' = Effective(x)
    BY <2>1 DEF Effective
  <2>4. StaleDoomed'
    <3> SUFFICES ASSUME NEW x \in DOMAIN cache', cache[x].origin = "clean",
                        cache[x].cfg # Effective(x)
                 PROVE  \E b \in Admin : Doomed(b, x)'
      BY <2>2, <2>3 DEF StaleDoomed
    <3>1. PICK b \in Admin : Doomed(b, x)
      BY <1>0, <2>2 DEF StaleDoomed
    <3>2. CASE about[a] = Default
      BY <2>1, <2>2, <3>2 DEF Doomed
    <3>3. CASE about[a] # Default
      <4>1. b # a
        BY <2>1, <2>2, <3>1, <3>3 DEF Doomed
      <4> QED
        BY <2>1, <3>1, <4>1 DEF Doomed
    <3> QED
      BY <3>2, <3>3
  <2> QED
    BY <1>9, <1>10, <2>4 DEF Coherence
<1>11. ASSUME NEW a \in Admin, RangeDelete(a) PROVE Coherence'
  <2>1. /\ todo[a] = "range" /\ UNCHANGED <<db, about>>
        /\ \A b \in Admin \ {a} : todo'[b] = todo[b] /\ sweep'[b] = sweep[b]
    BY <1>11 DEF RangeDelete, TypeOK
  <2>2. \A x : Effective(x)' = Effective(x)
    BY <2>1 DEF Effective
  <2>3. CASE \E k \in sweep[a] \cup DOMAIN cache :
               /\ cache' = Without(k)
               /\ sweep' = [sweep EXCEPT ![a] = @ \ {k}]
               /\ UNCHANGED todo
    <3>1. PICK k : /\ cache' = Without(k)
                   /\ sweep' = [sweep EXCEPT ![a] = @ \ {k}]
                   /\ UNCHANGED todo
      BY <2>3
    <3>2. /\ DOMAIN cache' = DOMAIN cache \ {k}
          /\ \A x \in DOMAIN cache' : cache'[x] = cache[x]
      BY <3>1, WithoutDoes
    <3>3. \A b \in Admin : \A x : Doomed(b, x) /\ x # k => Doomed(b, x)'
      BY <2>1, <3>1 DEF Doomed, TypeOK
    <3>4. StaleDoomed'
      BY <1>0, <2>2, <3>2, <3>3 DEF StaleDoomed
    <3> QED
      BY <1>9, <1>11, <3>4 DEF Coherence
  <2>4. CASE UNCHANGED <<cache, sweep>> /\ sweep[a] = {}
    <3>1. \A b \in Admin : \A x : Doomed(b, x) => Doomed(b, x)'
      BY <2>1, <2>4 DEF Doomed
    <3>2. StaleDoomed'
      BY <1>0, <2>2, <2>4, <3>1 DEF StaleDoomed
    <3> QED
      BY <1>9, <1>11, <3>2 DEF Coherence
  <2> QED
    BY <1>11, <2>3, <2>4 DEF RangeDelete
<1>12. CASE UpdateElsewhere
  <2>1. PICK k \in Key : Write(k)
    BY <1>12 DEF UpdateElsewhere
  <2>2. UNCHANGED <<pc, of, found>>
    BY <1>12 DEF UpdateElsewhere
  <2>3. Calm' /\ Inherits' /\ FindsCurrent'
    BY <2>1, <2>2, WriteDisturbs DEF Calm, Inherits, FindsCurrent
  <2>4. \A x \in DOMAIN cache' : cache'[x].origin = "mixed"
    BY <1>12, ElsewhereDoes
  <2> QED
    BY <2>3, <2>4 DEF Coherence, StaleDoomed
<1>13. CASE Tick
  <2>1. UNCHANGED <<db, pc, of, mixed, todo, about, sweep>>
    BY <1>13 DEF Tick, updates
  <2>2. \A r \in Request : /\ found'[r].cfg = found[r].cfg
                           /\ found'[r].origin = found[r].origin
    BY <1>13 DEF Tick
  <2>3. DOMAIN cache' = DOMAIN cache /\ \A k \in DOMAIN cache :
          cache'[k].cfg = cache[k].cfg /\ cache'[k].origin = cache[k].origin
    BY <1>13, TickDoes
  <2>4. StaleDoomed'
    BY <1>0, <2>1, <2>3, FewerEntries
  <2>5. \A x : Effective(x)' = Effective(x)
    BY <2>1 DEF Effective
  <2>6. Calm' /\ Inherits' /\ FindsCurrent'
    BY <1>0, <2>1, <2>2, <2>5 DEF Calm, Inherits, FindsCurrent, Undisturbed, Updating
  <2> QED
    BY <2>4, <2>6 DEF Coherence
<1>14. CASE UNCHANGED vars
  BY <1>0, <1>14 DEF vars, lookups, updates, Coherence, Calm, Inherits, FindsCurrent,
     StaleDoomed, Undisturbed, Updating, Effective, Doomed
<1> QED
  BY <1>1, <1>2, <1>3, <1>4, <1>5, <1>6, <1>7, <1>8, <1>10, <1>11, <1>12,
     <1>13, <1>14 DEF Next, Step, Invalidate

(* As long as no lookup overlaps an update, the cache says what the        *)
(* database says, for every subject, however many lookups, updates and     *)
(* expiries there are.                                                     *)
THEOREM Coherent == Spec => []CoherentUnlessMixed
<1>1. Init => Coherence
  BY DEF Init, Coherence, Calm, Inherits, FindsCurrent, StaleDoomed, Undisturbed
<1>2. Coherence => CoherentUnlessMixed
  BY DEF Coherence, StaleDoomed, CoherentUnlessMixed, Live, Updating, Doomed
<1> QED
  BY <1>1, <1>2, CoherenceStep, TypeCorrect, PTL DEF Spec

----------------------------------------------------------------------------

(* AgeBounded is not inductive: it rests on what a lookup may still store, *)
(* which is older by a tick if the lookup saw one, and on the default's    *)
(* entry, which is never a copy of another.                                *)
Seen(r) == IF r \in late THEN 1 ELSE 0

FindsYoung ==
    \A r \in Request :
        /\ pc[r] = "storeDefault" => found[r].age <= Seen(r)
        /\ pc[r] = "store" => found[r].age <= TTL + Seen(r)

EntriesYoung ==
    \A k \in DOMAIN cache :
        cache[k].age + cache[k].left <= IF k = Default THEN TTL + 1 ELSE 2 * TTL + 1

(* A step that lets no tick pass keeps what other lookups found young.     *)
LEMMA OthersYoung ==
  ASSUME NEW r \in Request, FindsYoung,
         \A q \in Request \ {r} : pc'[q] = pc[q] /\ found'[q] = found[q],
         late \subseteq late' \cup {r},
         pc'[r] = "storeDefault" => found'[r].age <= Seen(r)',
         pc'[r] = "store" => found'[r].age <= TTL + Seen(r)',
         TypeOK, TypeOK'
  PROVE  FindsYoung'
<1>1. ASSUME NEW q \in Request, q # r
      PROVE  Seen(q) <= Seen(q)' /\ Seen(q) \in Nat /\ Seen(q)' \in Nat
  BY <1>1 DEF Seen
<1>2. \A q \in Request : found[q].age \in Nat
  BY DEF TypeOK, Finding
<1>3. TTL \in Nat
  BY Constants
<1> SUFFICES ASSUME NEW q \in Request
             PROVE  /\ pc'[q] = "storeDefault" => found'[q].age <= Seen(q)'
                    /\ pc'[q] = "store" => found'[q].age <= TTL + Seen(q)'
  BY DEF FindsYoung
<1>4. CASE q = r
  BY <1>4
<1>5. CASE q # r
  BY <1>1, <1>2, <1>3, <1>5 DEF FindsYoung
<1> QED
  BY <1>4, <1>5

LEMMA YoungStore ==
  ASSUME EntriesYoung, NEW k, NEW f \in Finding, Store(k, f),
         f.age <= IF k = Default THEN 1 ELSE TTL + 1
  PROVE  EntriesYoung'
<1>1. /\ DOMAIN cache' = DOMAIN cache \cup {k}
      /\ cache'[k] = [cfg |-> f.cfg, age |-> f.age, origin |-> f.origin, left |-> TTL]
      /\ \A x \in DOMAIN cache \ {k} : cache'[x] = cache[x]
  BY StoreDoes
<1>2. cache'[k].age = f.age /\ cache'[k].left = TTL
  BY <1>1
<1>3. f.age \in Nat /\ TTL \in Nat
  BY Constants DEF Finding
<1>4. cache'[k].age + cache'[k].left <= IF k = Default THEN TTL + 1 ELSE 2 * TTL + 1
  BY <1>2, <1>3
<1> QED
  BY <1>1, <1>4 DEF EntriesYoung

LEMMA YoungStep ==
  TypeOK /\ TypeOK' /\ FindsYoung /\ EntriesYoung /\ [Next]_vars
      => FindsYoung' /\ EntriesYoung'
<1> SUFFICES ASSUME TypeOK, TypeOK', FindsYoung, EntriesYoung, [Next]_vars
             PROVE  FindsYoung' /\ EntriesYoung'
  OBVIOUS
<1>0. TTL \in Nat /\ TTL # 0 /\ \A r \in Request : found[r].age \in Nat /\ Seen(r) \in 0..1
  BY Constants DEF TypeOK, Finding, Seen
<1>1. ASSUME NEW r \in Request, Load(r) PROVE FindsYoung' /\ EntriesYoung'
  <2>1. /\ pc'[r] \in {"evict", "query"} /\ UNCHANGED <<late, cache>>
        /\ \A q \in Request \ {r} : pc'[q] = pc[q] /\ found'[q] = found[q]
    BY <1>1 DEF Load, Goto, TypeOK
  <2> QED
    BY <2>1, OthersYoung DEF EntriesYoung
<1>2. ASSUME NEW r \in Request, Evict(r) PROVE FindsYoung' /\ EntriesYoung'
  <2>1. /\ pc'[r] \in {"query", "queryDefault"} /\ UNCHANGED late
        /\ \A q \in Request \ {r} : pc'[q] = pc[q] /\ found'[q] = found[q]
    BY <1>2 DEF Evict, Goto, TypeOK
  <2>2. EntriesYoung'
    BY <1>2, WithoutDoes DEF Evict, EntriesYoung
  <2> QED
    BY <2>1, <2>2, OthersYoung
<1>3. ASSUME NEW r \in Request, Query(r) PROVE FindsYoung' /\ EntriesYoung'
  <2>1. /\ UNCHANGED <<late, cache>>
        /\ \A q \in Request \ {r} : pc'[q] = pc[q] /\ found'[q] = found[q]
        /\ \/ pc'[r] = "default"
           \/ pc'[r] = "store" /\ found'[r] = Fresh(db[of[r]])
    BY <1>3 DEF Query, Finds, Goto, TypeOK
  <2>2. Fresh(db[of[r]]).age = 0 /\ Seen(r)' = Seen(r)
    BY <2>1 DEF Fresh, Seen
  <2> QED
    BY <1>0, <2>1, <2>2, OthersYoung DEF EntriesYoung
<1>4. ASSUME NEW r \in Request, LoadDefault(r) PROVE FindsYoung' /\ EntriesYoung'
  <2>1. /\ UNCHANGED <<late, cache>>
        /\ \A q \in Request \ {r} : pc'[q] = pc[q] /\ found'[q] = found[q]
        /\ \/ pc'[r] \in {"evictDefault", "queryDefault"}
           \/ /\ pc'[r] = "store" /\ Live(Default)
              /\ found'[r] = [cfg |-> cache[Default].cfg, age |-> cache[Default].age,
                              origin |-> cache[Default].origin]
    BY <1>4 DEF LoadDefault, Finds, Goto, TypeOK
  <2>2. Live(Default) => cache[Default].age <= TTL
    <3>1. Live(Default) => /\ cache[Default] \in Entry /\ cache[Default].left > 0
                           /\ cache[Default].age + cache[Default].left <= TTL + 1
      BY DEF Live, TypeOK, EntriesYoung
    <3> QED
      BY <1>0, <3>1 DEF Entry
  <2>3. Seen(r)' = Seen(r)
    BY <2>1 DEF Seen
  <2>4. Live(Default) => cache[Default].age \in Nat
    BY DEF Live, TypeOK, Entry
  <2> QED
    BY <1>0, <2>1, <2>2, <2>3, <2>4, OthersYoung DEF EntriesYoung
<1>5. ASSUME NEW r \in Request, QueryDefault(r) PROVE FindsYoung' /\ EntriesYoung'
  <2>1. /\ UNCHANGED <<late, cache>>
        /\ \A q \in Request \ {r} : pc'[q] = pc[q] /\ found'[q] = found[q]
        /\ found'[r] = Fresh(db[Default]) \/ found'[r] = Nothing
    BY <1>5 DEF QueryDefault, Finds, Goto, TypeOK
  <2>2. found'[r].age = 0 /\ Seen(r)' = Seen(r)
    BY <2>1 DEF Fresh, Nothing, Seen
  <2> QED
    BY <1>0, <2>1, <2>2, OthersYoung DEF EntriesYoung
<1>6. ASSUME NEW r \in Request, StoreDefault(r) PROVE FindsYoung' /\ EntriesYoung'
  <2>1. /\ UNCHANGED <<late, found>> /\ pc[r] = "storeDefault" /\ pc'[r] = "store"
        /\ \A q \in Request \ {r} : pc'[q] = pc[q] /\ found'[q] = found[q]
    BY <1>6 DEF StoreDefault, Goto, TypeOK
  <2>2. found[r].age <= Seen(r) /\ Seen(r)' = Seen(r) /\ Result(r).age = found[r].age
    BY <2>1 DEF FindsYoung, Seen, Result
  <2>3. EntriesYoung'
    BY <1>0, <1>6, <2>2, YoungStore, ResultType DEF StoreDefault
  <2> QED
    BY <1>0, <2>1, <2>2, <2>3, OthersYoung
<1>7. ASSUME NEW r \in Request, StoreOwn(r) PROVE FindsYoung' /\ EntriesYoung'
  <2>1. /\ late \subseteq late' \cup {r} /\ pc[r] = "store" /\ pc'[r] = "idle"
        /\ \A q \in Request \ {r} : pc'[q] = pc[q] /\ found'[q] = found[q]
    BY <1>7 DEF StoreOwn, Return, Finds, Goto, TypeOK
  <2>2. found[r].age <= TTL + Seen(r) /\ Result(r).age = found[r].age
    BY <2>1 DEF FindsYoung, Result
  <2>3. of[r] # Default
    BY Constants DEF TypeOK
  <2>4. Result(r).age <= TTL + 1
    BY <1>0, <2>2
  <2>5. EntriesYoung'
    BY <1>7, <2>3, <2>4, YoungStore, ResultType DEF StoreOwn
  <2> QED
    BY <2>1, <2>5, OthersYoung
<1>8. ASSUME UNCHANGED <<pc, found, late>>, DOMAIN cache' \subseteq DOMAIN cache,
             \A k \in DOMAIN cache' : /\ cache'[k].age = cache[k].age
                                      /\ cache'[k].left = cache[k].left
      PROVE  FindsYoung' /\ EntriesYoung'
  BY <1>8 DEF FindsYoung, EntriesYoung, Seen
<1>9. ASSUME NEW a \in Admin, UpdateRow(a) PROVE FindsYoung' /\ EntriesYoung'
  BY <1>8, <1>9 DEF UpdateRow
<1>10. ASSUME NEW a \in Admin, DeleteKey(a) PROVE FindsYoung' /\ EntriesYoung'
  BY <1>8, <1>10, WithoutDoes DEF DeleteKey, lookups
<1>11. ASSUME NEW a \in Admin, RangeDelete(a) PROVE FindsYoung' /\ EntriesYoung'
  <2>1. UNCHANGED <<pc, found, late>> /\ (cache' = cache \/ \E k : cache' = Without(k))
    BY <1>11 DEF RangeDelete, lookups
  <2> QED
    BY <1>8, <2>1, WithoutDoes
<1>12. CASE UpdateElsewhere
  <2>1. UNCHANGED <<pc, found, late>>
    BY <1>12 DEF UpdateElsewhere
  <2> QED
    BY <1>8, <1>12, <2>1, ElsewhereDoes
<1>13. CASE Tick
  <2>1. FindsYoung'
    <3> SUFFICES ASSUME NEW r \in Request
                 PROVE  /\ pc'[r] = "storeDefault" => found'[r].age <= Seen(r)'
                        /\ pc'[r] = "store" => found'[r].age <= TTL + Seen(r)'
      BY DEF FindsYoung
    <3>1. pc'[r] = pc[r] /\ Seen(r) = 0 /\ (pc[r] # "idle" => Seen(r)' = 1)
      BY <1>13 DEF Tick, Seen, Busy
    <3>2. pc[r] \in {"storeDefault", "store"} => found'[r].age = found[r].age + 1
      BY <1>13 DEF Tick
    <3> QED
      BY <1>0, <3>1, <3>2 DEF FindsYoung
  <2>2. EntriesYoung'
    <3> SUFFICES ASSUME NEW k \in DOMAIN cache
                 PROVE  cache'[k].age + cache'[k].left
                          <= IF k = Default THEN TTL + 1 ELSE 2 * TTL + 1
      BY <1>13, TickDoes DEF EntriesYoung
    <3>1. cache[k] \in Entry
      BY DEF TypeOK
    <3>2. cache'[k].age + cache'[k].left = cache[k].age + cache[k].left
      <4>1. CASE cache[k].left = 0
        BY <1>13, <4>1, TickDoes
      <4>2. CASE cache[k].left # 0
        <5>1. /\ cache'[k].age = cache[k].age + 1
              /\ cache'[k].left = cache[k].left - 1
          BY <1>13, <4>2, TickDoes
        <5> QED
          BY <3>1, <5>1 DEF Entry
      <4> QED
        BY <4>1, <4>2
    <3> QED
      BY <3>2 DEF EntriesYoung
  <2> QED
    BY <2>1, <2>2
<1>14. CASE UNCHANGED vars
  BY <1>8, <1>14 DEF vars, lookups
<1> QED
  BY <1>1, <1>2, <1>3, <1>4, <1>5, <1>6, <1>7, <1>9, <1>10, <1>11, <1>12,
     <1>13, <1>14 DEF Next, Step, Invalidate

(* What is served was in the database at most twice the TTL ago, although  *)
(* the default's entry is copied with a fresh TTL and queries fail.        *)
THEOREM AgesBounded == Spec => []AgeBounded
<1>1. Init => FindsYoung /\ EntriesYoung
  BY DEF Init, FindsYoung, EntriesYoung
<1>2. TypeOK /\ EntriesYoung => AgeBounded
  <2> SUFFICES ASSUME TypeOK, EntriesYoung, NEW k \in Key, Live(k)
               PROVE  cache[k].age <= 2 * TTL
    BY DEF AgeBounded
  <2>1. cache[k] \in Entry /\ cache[k].left > 0
    BY DEF TypeOK, Live
  <2>2. cache[k].age + cache[k].left <= IF k = Default THEN TTL + 1 ELSE 2 * TTL + 1
    BY DEF EntriesYoung, Live
  <2> QED
    BY <2>1, <2>2, Constants DEF Entry
<1> QED
  BY <1>1, <1>2, YoungStep, TypeCorrect, PTL DEF Spec
----------------------------------------------------------------------------
(* Authentication: the inductive invariant of TokenCache *)

Standing(t) == issued[t].stands
LifeLeft(t) == issued[t].left

(* The tick that the validation of c has seen. *)
Aging(c) == IF c \in aged THEN 1 ELSE 0

(* What a validation holds in each of its phases. *)
Holds(c) ==
    /\ phase[c] \in {"idle", "accepted", "refused"} =>
          secret[c] = Nobody /\ token[c] = Nobody /\ c \notin aged
    /\ phase[c] = "exchange" => secret[c] \in Secret
    /\ phase[c] = "set" =>
          /\ secret[c] \in Secret /\ token[c] \in Token
          /\ issued[token[c]].by = secret[c]
          /\ span[c] \in Life /\ LifeLeft(token[c]) + Aging(c) >= span[c]
    /\ phase[c] = "introspect" => token[c] \in Token

(* A validation that began after the revocation fails: the exchange, or    *)
(* the introspection.                                                      *)
Refuses(c) ==
    c \in doomed =>
        /\ phase[c] \in {"exchange", "introspect", "refused"}
        /\ phase[c] = "exchange" => secret[c] \notin active
        /\ phase[c] = "introspect" => ~Standing(token[c])

(* One without an excuse holds a secret that is active or a token that     *)
(* stands and lasts.                                                       *)
Succeeds(c) ==
    c \notin excused =>
        /\ phase[c] # "refused"
        /\ phase[c] = "exchange" => secret[c] \in active
        /\ phase[c] \in {"set", "introspect"} => Standing(token[c])
        /\ phase[c] = "introspect" /\ secret[c] # Nobody =>
              LifeLeft(token[c]) + Aging(c) >= 2

HoldsCredentials == \A c \in Call : Holds(c)

(* No token of a revoked secret stands. *)
RevokedWithSecret ==
    \A s \in Secret \ active, t \in Token : issued[t].by = s => ~Standing(t)

(* An entry's token was issued for its secret, and outlives the entry by   *)
(* almost the margin.                                                      *)
EntriesSound ==
    \A s \in DOMAIN entries :
        LET t == entries[s].token
        IN /\ issued[t] = Tokens!Gone \/ issued[t].by = s
           /\ entries[s].left > 0 => LifeLeft(t) + 1 >= entries[s].left + Margin

TokenInv ==
    /\ HoldsCredentials /\ RevokedWithSecret /\ EntriesSound
    /\ \A c \in Call : Refuses(c) /\ Succeeds(c)

LEMMA TokenConstants ==
  /\ Nobody \notin Secret /\ Nobody \notin Token
  /\ Margin \in Nat /\ Margin >= 2
  /\ \A n \in Life : n \in Nat /\ n >= 2
  BY CachesAssumption

LEMMA GrantFields ==
  ASSUME NEW g \in Tokens!Grant \cup {Tokens!Gone}
  PROVE  /\ g.by \in Secret \cup {Nobody} /\ g.left \in Nat
         /\ g.by \in Secret \/ g.left > 0 \/ g.stands => g \in Tokens!Grant
         /\ g \in Tokens!Grant => g.by \in Secret /\ g.left > 0
         /\ g \notin Tokens!Grant => g = Tokens!Gone
         /\ Tokens!Gone.by = Nobody /\ Tokens!Gone.left = 0 /\ ~Tokens!Gone.stands
<1>1. Tokens!Gone.by = Nobody /\ Tokens!Gone.left = 0 /\ ~Tokens!Gone.stands
  BY DEF Tokens!Gone
<1>2. g \in Tokens!Grant => g.by \in Secret /\ g.left \in Nat /\ g.left > 0
  BY DEF Tokens!Grant
<1>3. g \notin Tokens!Grant => g = Tokens!Gone
  OBVIOUS
<1> QED
  BY <1>1, <1>2, <1>3, TokenConstants

(* Revocation and the passing of time, grant by grant. *)
LEMMA GrantRevoked ==
  ASSUME NEW g \in Tokens!Grant
  PROVE  /\ [g EXCEPT !.stands = FALSE] \in Tokens!Grant
         /\ [g EXCEPT !.stands = FALSE].by = g.by
         /\ [g EXCEPT !.stands = FALSE].left = g.left
         /\ ~[g EXCEPT !.stands = FALSE].stands
  BY DEF Tokens!Grant

LEMMA GrantAged ==
  ASSUME NEW g \in Tokens!Grant, g.left > 1
  PROVE  /\ [g EXCEPT !.left = @ - 1] \in Tokens!Grant
         /\ [g EXCEPT !.left = @ - 1].by = g.by
         /\ [g EXCEPT !.left = @ - 1].left = g.left - 1
         /\ [g EXCEPT !.left = @ - 1].stands = g.stands
  BY DEF Tokens!Grant

LEMMA RevokeSecretDoes ==
  ASSUME Tokens!TypeOK, NEW s \in Secret, Tokens!RevokeSecret(s)
  PROVE  /\ issued' \in [Token -> Tokens!Grant \cup {Tokens!Gone}]
         /\ \A t \in Token :
               /\ issued'[t].by = issued[t].by /\ issued'[t].left = issued[t].left
               /\ issued[t].by = s => ~issued'[t].stands
               /\ issued[t].by # s => issued'[t] = issued[t]
<1>1. ASSUME NEW t \in Token, issued[t].by = s
      PROVE  /\ issued'[t] = [issued[t] EXCEPT !.stands = FALSE]
             /\ issued[t] \in Tokens!Grant
  BY <1>1, GrantFields, TokenConstants DEF Tokens!RevokeSecret, Tokens!TypeOK
<1>2. \A t \in Token : issued[t].by # s => issued'[t] = issued[t]
  BY DEF Tokens!RevokeSecret
<1>3. \A t \in Token : issued[t].by = s =>
         /\ issued'[t] \in Tokens!Grant
         /\ issued'[t].by = issued[t].by /\ issued'[t].left = issued[t].left
         /\ ~issued'[t].stands
  BY <1>1, GrantRevoked
<1>4. \A t \in Token : issued'[t] \in Tokens!Grant \cup {Tokens!Gone}
  BY <1>2, <1>3 DEF Tokens!TypeOK
<1>5. issued' = [t \in Token |-> issued'[t]]
  BY DEF Tokens!RevokeSecret
<1> QED
  BY <1>2, <1>3, <1>4, <1>5

LEMMA RevokeTokenDoes ==
  ASSUME Tokens!TypeOK, NEW u \in Token, Tokens!RevokeToken(u)
  PROVE  /\ issued' \in [Token -> Tokens!Grant \cup {Tokens!Gone}]
         /\ ~issued'[u].stands /\ issued'[u].by = issued[u].by
         /\ issued'[u].left = issued[u].left
         /\ \A t \in Token \ {u} : issued'[t] = issued[t]
<1>1. issued[u] \in Tokens!Grant
  BY GrantFields DEF Tokens!RevokeToken, Tokens!TypeOK
<1>2. issued' = [issued EXCEPT ![u] = [issued[u] EXCEPT !.stands = FALSE]]
  BY DEF Tokens!RevokeToken
<1> QED
  BY <1>1, <1>2, GrantRevoked DEF Tokens!TypeOK

LEMMA TokensTickDoes ==
  ASSUME Tokens!TypeOK, Tokens!Tick
  PROVE  /\ issued' \in [Token -> Tokens!Grant \cup {Tokens!Gone}]
         /\ \A t \in Token : issued[t].left <= 1 => issued'[t] = Tokens!Gone
         /\ \A t \in Token : issued[t].left > 1 =>
               /\ issued'[t].by = issued[t].by /\ issued'[t].left = issued[t].left - 1
               /\ issued'[t].stands = issued[t].stands
         /\ DOMAIN entries' = DOMAIN entries
         /\ \A s \in DOMAIN entries :
               /\ entries'[s] \in Tokens!Cached
               /\ entries'[s].token = entries[s].token
               /\ entries'[s].left = IF entries[s].left > 0 THEN entries[s].left - 1 ELSE 0
<1>1. \A t \in Token : issued[t].left <= 1 => issued'[t] = Tokens!Gone
  BY DEF Tokens!Tick
<1>2. ASSUME NEW t \in Token, ~(issued[t].left <= 1)
      PROVE  /\ issued[t].left > 1 /\ issued[t] \in Tokens!Grant
             /\ issued'[t] = [issued[t] EXCEPT !.left = @ - 1]
  <2>1. issued[t] \in Tokens!Grant \cup {Tokens!Gone}
    BY DEF Tokens!TypeOK
  <2>2. issued[t].left > 1 /\ issued[t] \in Tokens!Grant
    BY <1>2, <2>1, GrantFields
  <2>3. issued'[t] = [issued[t] EXCEPT !.left = @ - 1]
    BY <1>2 DEF Tokens!Tick
  <2> QED
    BY <2>2, <2>3
<1>3. \A t \in Token : ~(issued[t].left <= 1) =>
         /\ issued'[t].by = issued[t].by /\ issued'[t].left = issued[t].left - 1
         /\ issued'[t].stands = issued[t].stands /\ issued'[t] \in Tokens!Grant
  BY <1>2, GrantAged
<1>4. issued' = [t \in Token |-> issued'[t]]
  BY DEF Tokens!Tick
<1>5. \A t \in Token : issued[t].left > 1 => ~(issued[t].left <= 1)
  BY GrantFields DEF Tokens!TypeOK
<1>6. DOMAIN entries' = DOMAIN entries
  BY DEF Tokens!Tick
<1>7. ASSUME NEW s \in DOMAIN entries
      PROVE  /\ entries'[s] \in Tokens!Cached
             /\ entries'[s].token = entries[s].token
             /\ entries'[s].left = IF entries[s].left > 0 THEN entries[s].left - 1 ELSE 0
  <2>1. entries[s] \in Tokens!Cached
    BY DEF Tokens!TypeOK
  <2>2. entries'[s] = IF entries[s].left > 0 THEN [entries[s] EXCEPT !.left = @ - 1] ELSE entries[s]
    BY DEF Tokens!Tick, Tokens!Live
  <2> QED
    BY <2>1, <2>2 DEF Tokens!Cached
<1> QED
  BY <1>1, <1>3, <1>4, <1>5, <1>6, <1>7

(* What Set does to the map. *)
LEMMA TokensSetDoes ==
  ASSUME Tokens!TypeOK, HoldsCredentials, NEW c \in Call, Tokens!Set(c)
  PROVE  /\ DOMAIN entries' \subseteq Secret
         /\ \A s \in DOMAIN entries' :
               \/ s \in DOMAIN entries /\ entries'[s] = entries[s]
               \/ /\ s = secret[c] /\ entries'[s] \in Tokens!Cached
                  /\ entries'[s].token = token[c]
                  /\ entries'[s].left = span[c] - Margin
<1>1. /\ secret[c] \in Secret /\ token[c] \in Token /\ span[c] \in Nat
  BY TokenConstants DEF Tokens!Set, HoldsCredentials, Holds
<1>2. CASE span[c] <= Margin
  BY <1>2 DEF Tokens!Set, Tokens!TypeOK
<1>3. CASE ~(span[c] <= Margin)
  <2> DEFINE e == [token |-> token[c], left |-> span[c] - Margin]
  <2>1. e \in Tokens!Cached /\ e.token = token[c] /\ e.left = span[c] - Margin
    BY <1>1, <1>3, TokenConstants DEF Tokens!Cached
  <2>2. entries' = [s \in DOMAIN entries \cup {secret[c]} |->
                       IF s = secret[c] THEN e ELSE entries[s]]
    BY <1>3 DEF Tokens!Set
  <2> HIDE DEF e
  <2> QED
    BY <1>1, <2>1, <2>2 DEF Tokens!TypeOK
<1> QED
  BY <1>2, <1>3

LEMMA TokensSweepDoes ==
  ASSUME Tokens!Sweep
  PROVE  /\ DOMAIN entries' \subseteq DOMAIN entries
         /\ \A s \in DOMAIN entries' : entries'[s] = entries[s]
  BY DEF Tokens!Sweep

(* Every variable of the token cache keeps its type. *)
LEMMA TokenTypeStep ==
  ASSUME Tokens!TypeOK, HoldsCredentials, Tokens!Next
  PROVE  Tokens!TypeOK'
<1> USE TokenConstants DEF Tokens!TypeOK, Tokens!Goto, Tokens!Phase, Tokens!validations, Tokens!Mark
<1>1. ASSUME NEW c \in Call, Tokens!BeginToken(c) PROVE Tokens!TypeOK'
  BY <1>1 DEF Tokens!BeginToken
<1>2. ASSUME NEW c \in Call, Tokens!BeginSecret(c) PROVE Tokens!TypeOK'
  BY <1>2 DEF Tokens!BeginSecret, Tokens!Live, Tokens!Cached
<1>3. ASSUME NEW c \in Call, Tokens!Exchange(c) PROVE Tokens!TypeOK'
  <2>1. secret[c] \in Secret
    BY <1>3 DEF Tokens!Exchange, HoldsCredentials, Holds
  <2>2. ASSUME NEW n \in Life
        PROVE  [by |-> secret[c], left |-> n, stands |-> TRUE] \in Tokens!Grant
    BY <2>1 DEF Tokens!Grant
  <2> QED
    BY <1>3, <2>2 DEF Tokens!Exchange, Tokens!Verdict
<1>4. ASSUME NEW c \in Call, Tokens!Set(c) PROVE Tokens!TypeOK'
  BY <1>4, TokensSetDoes DEF Tokens!Set
<1>5. ASSUME NEW c \in Call, Tokens!Introspect(c) PROVE Tokens!TypeOK'
  BY <1>5 DEF Tokens!Introspect, Tokens!Verdict
<1>6. ASSUME NEW c \in Call, Tokens!Leave(c) PROVE Tokens!TypeOK'
  BY <1>6 DEF Tokens!Leave
<1>7. ASSUME NEW s \in Secret, Tokens!RevokeSecret(s) PROVE Tokens!TypeOK'
  BY <1>7, RevokeSecretDoes DEF Tokens!RevokeSecret
<1>8. ASSUME NEW t \in Token, Tokens!RevokeToken(t) PROVE Tokens!TypeOK'
  BY <1>8, RevokeTokenDoes DEF Tokens!RevokeToken
<1>9. CASE Tokens!Sweep
  BY <1>9, TokensSweepDoes DEF Tokens!Sweep
<1>10. CASE Tokens!Tick
  <2>1. /\ issued' \in [Token -> Tokens!Grant \cup {Tokens!Gone}]
        /\ DOMAIN entries' \subseteq Secret
        /\ \A s \in DOMAIN entries' : entries'[s] \in Tokens!Cached
    BY <1>10, TokensTickDoes
  <2>2. /\ UNCHANGED <<active, phase, secret, token, span, doomed>>
        /\ aged' \subseteq Call /\ excused' \subseteq Call
    BY <1>10 DEF Tokens!Tick, Tokens!Validating
  <2> QED
    BY <2>1, <2>2
<1> QED
  BY <1>1, <1>2, <1>3, <1>4, <1>5, <1>6, <1>7, <1>8, <1>9, <1>10 DEF Tokens!Next

(* A token issued anew is one that no entry and no validation holds. *)
LEMMA ExchangeDoes ==
  ASSUME Tokens!TypeOK, HoldsCredentials, NEW c \in Call, Tokens!Exchange(c)
  PROVE  /\ phase[c] = "exchange" /\ secret[c] \in Secret
         /\ UNCHANGED <<active, entries, doomed>>
         /\ \A q \in Call \ {c} :
               /\ phase'[q] = phase[q] /\ secret'[q] = secret[q]
               /\ token'[q] = token[q] /\ span'[q] = span[q]
               /\ (q \in aged' <=> q \in aged) /\ (q \in excused' <=> q \in excused)
               /\ token[q] \in Token => issued'[token[q]] = issued[token[q]]
         /\ \A s \in DOMAIN entries : issued'[entries[s].token] = issued[entries[s].token]
         /\ \/ /\ phase'[c] = "set" /\ secret[c] \in active /\ secret'[c] = secret[c]
               /\ token'[c] \in Token /\ span'[c] \in Life
               /\ aged' = aged /\ excused' = excused
               /\ issued'[token'[c]].by = secret[c]
               /\ issued'[token'[c]].left = span'[c]
               /\ issued'[token'[c]].stands
               /\ \A t \in Token \ {token'[c]} : issued'[t] = issued[t]
            \/ /\ phase'[c] = "refused" /\ secret'[c] = Nobody /\ token'[c] = Nobody
               /\ c \notin aged' /\ issued' = issued /\ span' = span
               /\ \/ secret[c] \notin active /\ excused' = excused
                  \/ c \in excused'
<1>1. phase[c] = "exchange" /\ secret[c] \in Secret
  BY DEF Tokens!Exchange, HoldsCredentials, Holds
<1>2. CASE phase' = [phase EXCEPT ![c] = "set"]
  <2>1. PICK t \in Token, n \in Life :
          /\ Tokens!Free(t)
          /\ issued' = [issued EXCEPT ![t] =
                           [by |-> secret[c], left |-> n, stands |-> TRUE]]
          /\ token' = [token EXCEPT ![c] = t]
          /\ span' = [span EXCEPT ![c] = n]
    BY <1>1, <1>2 DEF Tokens!Exchange, Tokens!Verdict, Tokens!Goto, Tokens!TypeOK
  <2>2. /\ secret[c] \in active /\ secret' = secret /\ aged' = aged
        /\ excused' = excused /\ UNCHANGED <<active, entries, doomed>>
    BY <1>1, <1>2 DEF Tokens!Exchange, Tokens!Verdict, Tokens!Goto, Tokens!TypeOK
  <2>3. /\ issued'[t] = [by |-> secret[c], left |-> n, stands |-> TRUE]
        /\ \A u \in Token \ {t} : issued'[u] = issued[u]
    BY <2>1 DEF Tokens!TypeOK
  <2>4. /\ \A q \in Call : token[q] # t
        /\ \A s \in DOMAIN entries : entries[s].token # t /\ entries[s].token \in Token
    BY <2>1 DEF Tokens!Free, Tokens!TypeOK, Tokens!Cached
  <2>5. token'[c] = t /\ span'[c] = n
    BY <2>1 DEF Tokens!TypeOK
  <2>6. \A q \in Call \ {c} :
           /\ phase'[q] = phase[q] /\ token'[q] = token[q] /\ span'[q] = span[q]
    BY <1>2, <2>1 DEF Tokens!TypeOK
  <2> QED
    BY <1>1, <1>2, <2>2, <2>3, <2>4, <2>5, <2>6 DEF Tokens!TypeOK
<1>3. CASE Tokens!Verdict(c, "refused") /\ UNCHANGED <<issued, span>>
           /\ \/ secret[c] \notin active /\ excused' = excused
              \/ excused' = excused \cup {c}
  BY <1>1, <1>3 DEF Tokens!Exchange, Tokens!Verdict, Tokens!Goto, Tokens!TypeOK
<1> QED
  BY <1>2, <1>3 DEF Tokens!Exchange, Tokens!Goto

(* What a validation rests on when it begins, and after a tick. *)
LEMMA BeginTokenDoes ==
  ASSUME Tokens!TypeOK, NEW c \in Call, Tokens!BeginToken(c)
  PROVE  /\ phase[c] = "idle" /\ phase'[c] = "introspect"
         /\ UNCHANGED <<active, issued, entries, secret, span, aged>>
         /\ \E t \in Token :
               /\ token'[c] = t
               /\ c \in doomed' => c \in doomed \/ ~issued[t].stands
               /\ c \notin excused' => issued[t].stands
<1>1. PICK t \in Token :
        /\ issued[t] # Tokens!Gone /\ token' = [token EXCEPT ![c] = t]
        /\ doomed' = Tokens!Mark(doomed, c, Tokens!Revoked(t))
        /\ excused' = Tokens!Mark(excused, c, Tokens!Revoked(t))
  BY DEF Tokens!BeginToken
<1>2. token'[c] = t /\ phase[c] = "idle" /\ phase'[c] = "introspect"
      /\ UNCHANGED <<active, issued, entries, secret, span, aged>>
  BY <1>1 DEF Tokens!BeginToken, Tokens!Goto, Tokens!TypeOK
<1>3. /\ c \in doomed' => c \in doomed \/ ~issued[t].stands
      /\ c \notin excused' => issued[t].stands
  BY <1>1 DEF Tokens!Mark, Tokens!Revoked
<1> QED
  BY <1>2, <1>3

LEMMA BeginSecretDoes ==
  ASSUME Tokens!TypeOK, NEW c \in Call, Tokens!BeginSecret(c)
  PROVE  /\ phase[c] = "idle"
         /\ UNCHANGED <<active, issued, entries, span, aged>>
         /\ \E s \in Secret :
               /\ secret'[c] = s
               /\ c \in doomed' => c \in doomed \/ s \notin active
               /\ \/ /\ phase'[c] = "introspect"
                     /\ s \in DOMAIN entries /\ entries[s].left > 0
                     /\ token'[c] = entries[s].token /\ token'[c] \in Token
                     /\ c \notin excused' =>
                           issued[token'[c]].stands \/ issued[token'[c]] = Tokens!Gone
                  \/ /\ phase'[c] = "exchange" /\ token'[c] = token[c]
                     /\ c \notin excused' => s \in active
<1>1. PICK s \in Secret :
        /\ secret' = [secret EXCEPT ![c] = s]
        /\ doomed' = Tokens!Mark(doomed, c, s \notin active)
        /\ \/ /\ Tokens!Live(s)
              /\ token' = [token EXCEPT ![c] = entries[s].token]
              /\ excused' = Tokens!Mark(excused, c, Tokens!Revoked(entries[s].token))
              /\ Tokens!Goto(c, "introspect")
           \/ /\ excused' = Tokens!Mark(excused, c, s \notin active)
              /\ Tokens!Goto(c, "exchange")
              /\ UNCHANGED token
  BY DEF Tokens!BeginSecret
<1>2. /\ phase[c] = "idle" /\ secret'[c] = s
      /\ UNCHANGED <<active, issued, entries, span, aged>>
      /\ c \in doomed' => c \in doomed \/ s \notin active
  BY <1>1 DEF Tokens!BeginSecret, Tokens!TypeOK, Tokens!Mark
<1>3. CASE /\ Tokens!Live(s) /\ token' = [token EXCEPT ![c] = entries[s].token]
           /\ excused' = Tokens!Mark(excused, c, Tokens!Revoked(entries[s].token))
           /\ Tokens!Goto(c, "introspect")
  <2>1. s \in DOMAIN entries /\ entries[s].left > 0 /\ entries[s].token \in Token
    BY <1>3 DEF Tokens!Live, Tokens!TypeOK, Tokens!Cached
  <2>2. phase'[c] = "introspect" /\ token'[c] = entries[s].token
    BY <1>3 DEF Tokens!Goto, Tokens!TypeOK
  <2>3. c \notin excused' => issued[entries[s].token].stands
                              \/ issued[entries[s].token] = Tokens!Gone
    BY <1>3 DEF Tokens!Mark, Tokens!Revoked
  <2> QED
    BY <1>2, <2>1, <2>2, <2>3
<1>4. CASE /\ excused' = Tokens!Mark(excused, c, s \notin active)
           /\ Tokens!Goto(c, "exchange") /\ UNCHANGED token
  BY <1>2, <1>4 DEF Tokens!Mark, Tokens!Goto, Tokens!TypeOK
<1> QED
  BY <1>1, <1>3, <1>4

LEMMA TickOfCall ==
  ASSUME Tokens!TypeOK, NEW c \in Call, Tokens!Tick
  PROVE  /\ UNCHANGED <<active, phase, secret, token, span, doomed>>
         /\ c \notin aged
         /\ c \in aged' <=> phase[c] \in {"exchange", "set", "introspect"}
         /\ c \in excused => c \in excused'
         /\ token[c] \in Token /\ secret[c] = Nobody /\ issued[token[c]].left <= 1
               => c \in excused'
  BY TokenConstants DEF Tokens!Tick, Tokens!Validating

LEMMA TickOfToken ==
  ASSUME Tokens!TypeOK, NEW t \in Token, Tokens!Tick
  PROVE  \/ /\ issued[t].left <= 1 /\ issued[t].left \in Nat /\ ~issued'[t].stands
         \/ /\ issued[t].left > 1 /\ issued[t].left \in Nat
            /\ issued'[t].by = issued[t].by
            /\ issued'[t].left = issued[t].left - 1
            /\ issued'[t].stands = issued[t].stands
<1>1. issued[t] \in Tokens!Grant \cup {Tokens!Gone} /\ issued[t].left \in Nat
  BY GrantFields DEF Tokens!TypeOK
<1>2. ~Tokens!Gone.stands
  BY <1>1, GrantFields
<1> QED
  BY <1>1, <1>2, TokensTickDoes

Move(c) ==
    \/ Tokens!BeginToken(c) \/ Tokens!BeginSecret(c) \/ Tokens!Exchange(c)
    \/ Tokens!Set(c) \/ Tokens!Introspect(c) \/ Tokens!Leave(c)

(* A step of one validation changes nothing that another rests on. *)
LEMMA OtherCallsKept ==
  ASSUME Tokens!TypeOK, HoldsCredentials, NEW c \in Call, NEW q \in Call, q # c, Move(c)
  PROVE  /\ phase'[q] = phase[q] /\ secret'[q] = secret[q] /\ token'[q] = token[q]
         /\ span'[q] = span[q] /\ active' = active
         /\ (q \in aged' <=> q \in aged) /\ (q \in excused' <=> q \in excused)
         /\ (q \in doomed' <=> q \in doomed)
         /\ token[q] \in Token => issued'[token[q]] = issued[token[q]]
<1>1. CASE Tokens!Exchange(c)
  BY <1>1, ExchangeDoes
<1>2. CASE Tokens!BeginToken(c)
  BY <1>2 DEF Tokens!BeginToken, Tokens!Goto, Tokens!Mark, Tokens!Verdict, Tokens!TypeOK
<1>3. CASE Tokens!BeginSecret(c)
  BY <1>3 DEF Tokens!BeginSecret, Tokens!Goto, Tokens!Mark, Tokens!Verdict, Tokens!TypeOK
<1>4. CASE Tokens!Set(c)
  BY <1>4 DEF Tokens!Set, Tokens!Goto, Tokens!Mark, Tokens!Verdict, Tokens!TypeOK
<1>5. CASE Tokens!Introspect(c)
  BY <1>5 DEF Tokens!Introspect, Tokens!Goto, Tokens!Mark, Tokens!Verdict, Tokens!TypeOK
<1>6. CASE Tokens!Leave(c)
  BY <1>6 DEF Tokens!Leave, Tokens!Goto, Tokens!Mark, Tokens!Verdict, Tokens!TypeOK
<1> QED
  BY <1>1, <1>2, <1>3, <1>4, <1>5, <1>6 DEF Move

LEMMA HoldsStep ==
  ASSUME Tokens!TypeOK, Tokens!TypeOK', HoldsCredentials, 
         NEW q \in Call, Holds(q), Tokens!Next
  PROVE  Holds(q)'
<1> USE TokenConstants DEF LifeLeft, Aging
<1>0. Holds(q)
  BY DEF HoldsCredentials
<1>1. ASSUME NEW c \in Call, c # q, Move(c) PROVE Holds(q)'
  BY <1>0, <1>1, OtherCallsKept DEF Holds
<1>2. CASE Tokens!BeginToken(q)
  BY <1>0, <1>2, BeginTokenDoes DEF Holds
<1>3. CASE Tokens!BeginSecret(q)
  BY <1>0, <1>3, BeginSecretDoes DEF Holds
<1>4. CASE Tokens!Exchange(q)
  BY <1>0, <1>4, ExchangeDoes DEF Holds
<1>5. CASE Tokens!Set(q)
  BY <1>0, <1>5 DEF Tokens!Set, Tokens!Goto, Tokens!Mark, Tokens!TypeOK, Holds
<1>6. CASE Tokens!Introspect(q)
  BY <1>0, <1>6 DEF Tokens!Introspect, Tokens!Verdict, Tokens!Goto, Tokens!Mark, Tokens!TypeOK, Holds
<1>7. CASE Tokens!Leave(q)
  BY <1>0, <1>7 DEF Tokens!Leave, Tokens!Goto, Tokens!Mark, Tokens!TypeOK, Holds
<1>8. ASSUME NEW s \in Secret, Tokens!RevokeSecret(s) PROVE Holds(q)'
  BY <1>0, <1>8, RevokeSecretDoes DEF Tokens!RevokeSecret, Tokens!validations, Tokens!TypeOK, Holds
<1>9. ASSUME NEW t \in Token, Tokens!RevokeToken(t) PROVE Holds(q)'
  BY <1>0, <1>9, RevokeTokenDoes DEF Tokens!RevokeToken, Tokens!validations, Tokens!TypeOK, Holds
<1>10. CASE Tokens!Sweep
  BY <1>0, <1>10, TokensSweepDoes DEF Tokens!Sweep, Tokens!validations, Tokens!TypeOK, Holds
<1>11. CASE Tokens!Tick
  <2>1. /\ UNCHANGED <<active, phase, secret, token, span, doomed>>
        /\ Aging(q) = 0 /\ q \notin aged
        /\ phase[q] \in {"exchange", "set", "introspect"} => Aging(q)' = 1
        /\ phase[q] \in {"idle", "accepted", "refused"} => q \notin aged'
        /\ q \in excused => q \in excused'
        /\ token[q] \in Token /\ secret[q] = Nobody /\ issued[token[q]].left <= 1
              => q \in excused'
    BY <1>11, TickOfCall DEF Aging
  <2>2. ASSUME token[q] \in Token
        PROVE  \/ /\ issued[token[q]].left <= 1 /\ issued[token[q]].left \in Nat
                  /\ ~issued'[token[q]].stands
               \/ /\ issued[token[q]].left > 1 /\ issued[token[q]].left \in Nat
                  /\ issued'[token[q]].by = issued[token[q]].by
                  /\ issued'[token[q]].left = issued[token[q]].left - 1
                  /\ issued'[token[q]].stands = issued[token[q]].stands
    BY <1>11, <2>2, TickOfToken
  <2> QED
    BY <1>0, <2>1, <2>2 DEF Holds
<1> QED
  BY <1>1, <1>2, <1>3, <1>4, <1>5, <1>6, <1>7, <1>8, <1>9, <1>10, <1>11
     DEF Tokens!Next, Move

LEMMA FailsStep ==
  ASSUME Tokens!TypeOK, Tokens!TypeOK', HoldsCredentials, RevokedWithSecret, EntriesSound,
         NEW q \in Call, Refuses(q), Tokens!Next
  PROVE  Refuses(q)'
<1> USE TokenConstants DEF Refuses, Standing
<1>0. Holds(q)
  BY DEF HoldsCredentials
<1>1. ASSUME NEW c \in Call, c # q, Move(c) PROVE Refuses(q)'
  BY <1>0, <1>1, OtherCallsKept DEF Holds
<1>2. CASE Tokens!BeginToken(q)
  BY <1>0, <1>2, BeginTokenDoes DEF Holds
<1>3. CASE Tokens!BeginSecret(q)
  BY <1>0, <1>3, BeginSecretDoes, GrantFields DEF Holds, RevokedWithSecret, EntriesSound
<1>4. CASE Tokens!Exchange(q)
  BY <1>0, <1>4, ExchangeDoes DEF Holds
<1>5. CASE Tokens!Set(q)
  BY <1>0, <1>5 DEF Tokens!Set, Tokens!Goto, Tokens!Mark, Tokens!TypeOK, Holds
<1>6. CASE Tokens!Introspect(q)
  BY <1>0, <1>6 DEF Tokens!Introspect, Tokens!Verdict, Tokens!Goto, Tokens!Mark, Tokens!TypeOK, Holds
<1>7. CASE Tokens!Leave(q)
  BY <1>0, <1>7 DEF Tokens!Leave, Tokens!Goto, Tokens!Mark, Tokens!TypeOK, Holds
<1>8. ASSUME NEW s \in Secret, Tokens!RevokeSecret(s) PROVE Refuses(q)'
  BY <1>0, <1>8, RevokeSecretDoes DEF Tokens!RevokeSecret, Tokens!validations, Tokens!TypeOK, Holds
<1>9. ASSUME NEW t \in Token, Tokens!RevokeToken(t) PROVE Refuses(q)'
  BY <1>0, <1>9, RevokeTokenDoes DEF Tokens!RevokeToken, Tokens!validations, Tokens!TypeOK, Holds
<1>10. CASE Tokens!Sweep
  BY <1>0, <1>10, TokensSweepDoes DEF Tokens!Sweep, Tokens!validations, Tokens!TypeOK, Holds
<1>11. CASE Tokens!Tick
  <2>1. /\ UNCHANGED <<active, phase, secret, token, span, doomed>>
        /\ Aging(q) = 0 /\ q \notin aged
        /\ phase[q] \in {"exchange", "set", "introspect"} => Aging(q)' = 1
        /\ phase[q] \in {"idle", "accepted", "refused"} => q \notin aged'
        /\ q \in excused => q \in excused'
        /\ token[q] \in Token /\ secret[q] = Nobody /\ issued[token[q]].left <= 1
              => q \in excused'
    BY <1>11, TickOfCall DEF Aging
  <2>2. ASSUME token[q] \in Token
        PROVE  \/ /\ issued[token[q]].left <= 1 /\ issued[token[q]].left \in Nat
                  /\ ~issued'[token[q]].stands
               \/ /\ issued[token[q]].left > 1 /\ issued[token[q]].left \in Nat
                  /\ issued'[token[q]].by = issued[token[q]].by
                  /\ issued'[token[q]].left = issued[token[q]].left - 1
                  /\ issued'[token[q]].stands = issued[token[q]].stands
    BY <1>11, <2>2, TickOfToken
  <2> QED
    BY <1>0, <2>1, <2>2 DEF Holds
<1> QED
  BY <1>1, <1>2, <1>3, <1>4, <1>5, <1>6, <1>7, <1>8, <1>9, <1>10, <1>11
     DEF Tokens!Next, Move

(* The token of an entry that Get returns survives the next tick. *)
LEMMA LiveEntryLasts ==
  ASSUME Tokens!TypeOK, EntriesSound, NEW s \in DOMAIN entries, entries[s].left > 0
  PROVE  /\ entries[s].token \in Token /\ LifeLeft(entries[s].token) \in Nat
         /\ LifeLeft(entries[s].token) >= 2
         /\ issued[entries[s].token] # Tokens!Gone
<1>1. entries[s].token \in Token /\ entries[s].left \in Nat
  BY DEF Tokens!TypeOK, Tokens!Cached
<1>2. LifeLeft(entries[s].token) \in Nat
  BY <1>1, GrantFields DEF Tokens!TypeOK, LifeLeft
<1>3. LifeLeft(entries[s].token) >= 2
  BY <1>1, <1>2, TokenConstants DEF EntriesSound
<1>4. Tokens!Gone.left = 0
  BY DEF Tokens!Gone
<1> QED
  BY <1>1, <1>2, <1>3, <1>4 DEF LifeLeft

LEMMA SucceedsStep ==
  ASSUME Tokens!TypeOK, Tokens!TypeOK', HoldsCredentials, EntriesSound,
         NEW q \in Call, Succeeds(q), Tokens!Next
  PROVE  Succeeds(q)'
<1> USE TokenConstants, GrantFields DEF Succeeds, Standing, LifeLeft, Aging
<1>0. Holds(q)
  BY DEF HoldsCredentials
<1>1. ASSUME NEW c \in Call, c # q, Move(c) PROVE Succeeds(q)'
  BY <1>0, <1>1, OtherCallsKept DEF Holds
<1>2. CASE Tokens!BeginToken(q)
  BY <1>0, <1>2, BeginTokenDoes DEF Holds
<1>3. CASE Tokens!BeginSecret(q)
  BY <1>0, <1>3, BeginSecretDoes, LiveEntryLasts DEF Holds
<1>4. CASE Tokens!Exchange(q)
  BY <1>0, <1>4, ExchangeDoes DEF Holds
<1>5. CASE Tokens!Set(q)
  BY <1>0, <1>5 DEF Tokens!Set, Tokens!Goto, Tokens!Mark, Tokens!TypeOK, Holds
<1>6. CASE Tokens!Introspect(q)
  BY <1>0, <1>6 DEF Tokens!Introspect, Tokens!Verdict, Tokens!Goto, Tokens!Mark, Tokens!TypeOK, Holds
<1>7. CASE Tokens!Leave(q)
  BY <1>0, <1>7 DEF Tokens!Leave, Tokens!Goto, Tokens!Mark, Tokens!TypeOK, Holds
<1>8. ASSUME NEW s \in Secret, Tokens!RevokeSecret(s) PROVE Succeeds(q)'
  BY <1>0, <1>8, RevokeSecretDoes DEF Tokens!RevokeSecret, Tokens!validations, Tokens!TypeOK, Holds
<1>9. ASSUME NEW t \in Token, Tokens!RevokeToken(t) PROVE Succeeds(q)'
  BY <1>0, <1>9, RevokeTokenDoes DEF Tokens!RevokeToken, Tokens!validations, Tokens!TypeOK, Holds
<1>10. CASE Tokens!Sweep
  BY <1>0, <1>10, TokensSweepDoes DEF Tokens!Sweep, Tokens!validations, Tokens!TypeOK, Holds
<1>11. CASE Tokens!Tick
  <2>1. /\ UNCHANGED <<active, phase, secret, token, span, doomed>>
        /\ Aging(q) = 0 /\ q \notin aged
        /\ phase[q] \in {"exchange", "set", "introspect"} => Aging(q)' = 1
        /\ phase[q] \in {"idle", "accepted", "refused"} => q \notin aged'
        /\ q \in excused => q \in excused'
        /\ token[q] \in Token /\ secret[q] = Nobody /\ issued[token[q]].left <= 1
              => q \in excused'
    BY <1>11, TickOfCall DEF Aging
  <2>2. ASSUME token[q] \in Token
        PROVE  \/ /\ issued[token[q]].left <= 1 /\ issued[token[q]].left \in Nat
                  /\ ~issued'[token[q]].stands
               \/ /\ issued[token[q]].left > 1 /\ issued[token[q]].left \in Nat
                  /\ issued'[token[q]].by = issued[token[q]].by
                  /\ issued'[token[q]].left = issued[token[q]].left - 1
                  /\ issued'[token[q]].stands = issued[token[q]].stands
    BY <1>11, <2>2, TickOfToken
  <2> QED
    BY <1>0, <2>1, <2>2 DEF Holds
<1> QED
  BY <1>1, <1>2, <1>3, <1>4, <1>5, <1>6, <1>7, <1>8, <1>9, <1>10, <1>11
     DEF Tokens!Next, Move

LEMMA RevokedStep ==
  ASSUME Tokens!TypeOK, Tokens!TypeOK', HoldsCredentials, RevokedWithSecret, Tokens!Next
  PROVE  RevokedWithSecret'
<1> USE TokenConstants, GrantFields DEF Tokens!Goto, Tokens!validations, Tokens!Mark, RevokedWithSecret, Standing
<1>1. ASSUME NEW c \in Call, Tokens!BeginToken(c) PROVE RevokedWithSecret'
  BY <1>1 DEF Tokens!BeginToken
<1>2. ASSUME NEW c \in Call, Tokens!BeginSecret(c) PROVE RevokedWithSecret'
  BY <1>2 DEF Tokens!BeginSecret
<1>3. ASSUME NEW c \in Call, Tokens!Exchange(c) PROVE RevokedWithSecret'
  BY <1>3, ExchangeDoes
<1>4. ASSUME NEW c \in Call, Tokens!Set(c) PROVE RevokedWithSecret'
  BY <1>4, TokensSetDoes DEF Tokens!Set
<1>5. ASSUME NEW c \in Call, Tokens!Introspect(c) PROVE RevokedWithSecret'
  BY <1>5 DEF Tokens!Introspect, Tokens!Verdict
<1>6. ASSUME NEW c \in Call, Tokens!Leave(c) PROVE RevokedWithSecret'
  BY <1>6 DEF Tokens!Leave
<1>7. ASSUME NEW s \in Secret, Tokens!RevokeSecret(s) PROVE RevokedWithSecret'
  BY <1>7, RevokeSecretDoes DEF Tokens!RevokeSecret
<1>8. ASSUME NEW t \in Token, Tokens!RevokeToken(t) PROVE RevokedWithSecret'
  BY <1>8, RevokeTokenDoes DEF Tokens!RevokeToken
<1>9. CASE Tokens!Sweep
  BY <1>9, TokensSweepDoes DEF Tokens!Sweep
<1>10. CASE Tokens!Tick
  BY <1>10, TokensTickDoes DEF Tokens!Tick
<1> QED
  BY <1>1, <1>2, <1>3, <1>4, <1>5, <1>6, <1>7, <1>8, <1>9, <1>10 DEF Tokens!Next

LEMMA EntriesStep ==
  ASSUME Tokens!TypeOK, Tokens!TypeOK', HoldsCredentials, EntriesSound, Tokens!Next
  PROVE  EntriesSound'
<1> USE TokenConstants, GrantFields DEF Tokens!Goto, Tokens!validations, Tokens!Mark, EntriesSound, LifeLeft
<1>1. ASSUME NEW c \in Call, Tokens!BeginToken(c) PROVE EntriesSound'
  BY <1>1 DEF Tokens!BeginToken
<1>2. ASSUME NEW c \in Call, Tokens!BeginSecret(c) PROVE EntriesSound'
  BY <1>2 DEF Tokens!BeginSecret
<1>3. ASSUME NEW c \in Call, Tokens!Exchange(c) PROVE EntriesSound'
  BY <1>3, ExchangeDoes
<1>4. ASSUME NEW c \in Call, Tokens!Set(c) PROVE EntriesSound'
  <2>1. issued' = issued /\ Holds(c) /\ phase[c] = "set"
    BY <1>4 DEF Tokens!Set, HoldsCredentials
  <2>2. span[c] \in Nat /\ issued[token[c]].left \in Nat /\ issued[token[c]].left + 1 >= span[c]
    BY <2>1 DEF Holds, Aging, Tokens!TypeOK
  <2>3. issued[token[c]].by = secret[c]
    BY <2>1 DEF Holds
  <2> QED
    BY <1>4, <2>1, <2>2, <2>3, TokensSetDoes
<1>5. ASSUME NEW c \in Call, Tokens!Introspect(c) PROVE EntriesSound'
  BY <1>5 DEF Tokens!Introspect, Tokens!Verdict
<1>6. ASSUME NEW c \in Call, Tokens!Leave(c) PROVE EntriesSound'
  BY <1>6 DEF Tokens!Leave
<1>7. ASSUME NEW s \in Secret, Tokens!RevokeSecret(s) PROVE EntriesSound'
  <2>1. \A x \in DOMAIN entries : entries[x].token \in Token
    BY DEF Tokens!TypeOK, Tokens!Cached
  <2>2. entries' = entries
    BY <1>7 DEF Tokens!RevokeSecret
  <2>3. \A t \in Token : issued[t] = Tokens!Gone => issued'[t] = Tokens!Gone
    BY <1>7, RevokeSecretDoes
  <2> QED
    BY <1>7, <2>1, <2>2, <2>3, RevokeSecretDoes
<1>8. ASSUME NEW t \in Token, Tokens!RevokeToken(t) PROVE EntriesSound'
  BY <1>8, RevokeTokenDoes DEF Tokens!RevokeToken
<1>9. CASE Tokens!Sweep
  BY <1>9, TokensSweepDoes DEF Tokens!Sweep
<1>10. CASE Tokens!Tick
  <2>1. \A s \in DOMAIN entries : entries[s].token \in Token /\ entries[s].left \in Nat
    BY DEF Tokens!TypeOK, Tokens!Cached
  <2>2. \A t \in Token : issued[t] = Tokens!Gone => issued'[t] = Tokens!Gone
    BY <1>10, TokensTickDoes
  <2>3. \A t \in Token : issued[t].left \in Nat
    BY DEF Tokens!TypeOK
  <2> QED
    BY <1>10, <2>1, <2>2, <2>3, TokensTickDoes
<1> QED
  BY <1>1, <1>2, <1>3, <1>4, <1>5, <1>6, <1>7, <1>8, <1>9, <1>10 DEF Tokens!Next

LEMMA TokenInvStep ==
  Tokens!TypeOK /\ Tokens!TypeOK' /\ TokenInv /\ Tokens!Next => TokenInv'
BY HoldsStep, FailsStep, SucceedsStep, RevokedStep, EntriesStep
   DEF TokenInv, HoldsCredentials

LEMMA TokensUnchanged ==
  ASSUME UNCHANGED tokenVars
  PROVE  (Tokens!TypeOK => Tokens!TypeOK') /\ (TokenInv => TokenInv')
BY DEF tokenVars, Tokens!TypeOK, TokenInv, HoldsCredentials, Holds, Refuses, Succeeds,
   RevokedWithSecret, EntriesSound, Standing, LifeLeft, Aging

LEMMA TokensStep ==
  [CachesNext]_allVars => Tokens!Next \/ UNCHANGED tokenVars
BY DEF CachesNext, allVars

THEOREM AuthenticationInvariant == CachesSpec => [](Tokens!TypeOK /\ TokenInv)
<1>1. CachesInit => Tokens!TypeOK /\ TokenInv
  <2> SUFFICES ASSUME CachesInit PROVE Tokens!TypeOK /\ TokenInv
    OBVIOUS
  <2> USE TokenConstants DEF CachesInit, Tokens!Init
  <2>1. Tokens!TypeOK
    BY DEF Tokens!TypeOK, Tokens!Phase
  <2>2. HoldsCredentials
    BY DEF HoldsCredentials, Holds
  <2>3. RevokedWithSecret
    BY DEF RevokedWithSecret
  <2>4. EntriesSound
    BY DEF EntriesSound
  <2>5. \A c \in Call : Refuses(c) /\ Succeeds(c)
    BY DEF Refuses, Succeeds
  <2> QED
    BY <2>1, <2>2, <2>3, <2>4, <2>5 DEF TokenInv
<1>2. Tokens!TypeOK /\ TokenInv /\ [CachesNext]_allVars
        => Tokens!TypeOK' /\ TokenInv'
  BY TokensStep, TokensUnchanged, TokenTypeStep, TokenInvStep DEF TokenInv
<1> QED
  BY <1>1, <1>2, PTL DEF CachesSpec

(* A request that began after its secret or token was revoked is never     *)
(* accepted, and one with good credentials refused only with a cause, for  *)
(* any number of secrets, tokens and requests and whatever the cache holds. *)
THEOREM Authentication == CachesSpec => []AuthenticationJustified
<1>1. Tokens!TypeOK /\ TokenInv => AuthenticationJustified
  BY DEF TokenInv, Refuses, Succeeds, AuthenticationJustified,
     Tokens!AuthenticationJustified, Tokens!RevocationImmediate, Tokens!RefusedWithCause
<1> QED
  BY <1>1, AuthenticationInvariant, PTL

----------------------------------------------------------------------------
(* Cached answers: the inductive invariant of ResponseCache *)

(* A request's answer is its own, and not too old: one that waits to be    *)
(* stored has seen a tick at most.                                         *)
AnswerSound(r) ==
    /\ r \in slow => at[r] = "set"
    /\ at[r] = "set" =>
          /\ got[r].to = ask[r]
          /\ got[r].age <= IF r \in slow THEN 1 ELSE 0
    /\ at[r] = "hit" =>
          got[r].to = ask[r] /\ got[r].age <= CacheTTL /\ ~got[r].outlived

(* An entry is filed under the key of its request and ages as its TTL runs *)
(* out; the invalidations that found it are under way, and the last page   *)
(* of each holds it.                                                       *)
StoredSound(k) ==
    /\ k = Responses!GenerateKey(stored[k].to)
    /\ stored[k].age + stored[k].left <= CacheTTL + 1
    /\ ~stored[k].outlived
    /\ \A c \in stored[k].doomed :
          /\ clean[c] # "idle"
          /\ clean[c] = "del" /\ c \notin more => k \in page[c]

ResponseInv ==
    /\ \A r \in Asker : AnswerSound(r)
    /\ \A k \in DOMAIN stored : StoredSound(k)

LEMMA ResponseConstants ==
  /\ CacheTTL \in Nat /\ CacheTTL >= 1
  /\ Responses!AnyAsk \in Responses!Ask /\ Responses!Nothing \in Responses!Answer
<1>1. Responses!Ask # {}
  <2>1. PICK s \in Client, m \in Content : TRUE
    BY CachesAssumption
  <2>2. [subject |-> s, content |-> m] \in Responses!Ask
    BY DEF Responses!Ask
  <2> QED
    BY <2>2
<1>2. Responses!AnyAsk \in Responses!Ask
  BY <1>1 DEF Responses!AnyAsk
<1> QED
  BY <1>2, CachesAssumption DEF Responses!Nothing, Responses!Answer

(* Two requests with the same key are alike. *)
LEMMA KeyInjective ==
  ASSUME NEW a \in Responses!Ask, NEW b \in Responses!Ask,
         Responses!GenerateKey(a) = Responses!GenerateKey(b)
  PROVE  a = b
  BY DEF Responses!Ask, Responses!GenerateKey

LEMMA KeyType ==
  ASSUME NEW a \in Responses!Ask
  PROVE  Responses!GenerateKey(a) \in Responses!Key
  BY DEF Responses!Ask, Responses!GenerateKey, Responses!Key

LEMMA EntryFields ==
  ASSUME NEW e \in Responses!Entry
  PROVE  /\ e.to \in Responses!Ask /\ e.age \in Nat /\ e.left \in 1..CacheTTL
         /\ e.left \in Nat /\ e.outlived \in BOOLEAN /\ e.doomed \subseteq Cleaner
  BY ResponseConstants DEF Responses!Entry

LEMMA AnswerFields ==
  ASSUME NEW g \in Responses!Answer
  PROVE  g.to \in Responses!Ask /\ g.age \in Nat
  BY DEF Responses!Answer

(* What becomes of an entry that an invalidation finds, and that ages.     *)
LEMMA EntryFound ==
  ASSUME NEW e \in Responses!Entry, NEW c \in Cleaner,
         NEW f, f = [e EXCEPT !.doomed = @ \cup {c}]
  PROVE  /\ f \in Responses!Entry /\ f.to = e.to /\ f.age = e.age
         /\ f.left = e.left /\ f.outlived = e.outlived
         /\ f.doomed = e.doomed \cup {c}
  BY DEF Responses!Entry

LEMMA EntryAged ==
  ASSUME NEW e \in Responses!Entry, e.left > 1,
         NEW f, f = [e EXCEPT !.left = @ - 1, !.age = @ + 1]
  PROVE  /\ f \in Responses!Entry /\ f.to = e.to /\ f.age = e.age + 1
         /\ f.left = e.left - 1 /\ f.outlived = e.outlived
         /\ f.doomed = e.doomed
<1>1. e.left - 1 \in 1..CacheTTL /\ e.age + 1 \in Nat
  BY EntryFields, ResponseConstants
<1> QED
  BY <1>1 DEF Responses!Entry

(* One step of an entry that stays: as it was, found, released, or aged.   *)
Kept(k) ==
    /\ k \in DOMAIN stored
    /\ stored'[k] \in Responses!Entry /\ stored'[k].to = stored[k].to
    /\ stored'[k].age + stored'[k].left = stored[k].age + stored[k].left

LEMMA ReturnsDoes ==
  ASSUME Responses!TypeOK, NEW c \in Cleaner, NEW ks \in SUBSET DOMAIN stored,
         Responses!Returns(c, ks, TRUE) \/ Responses!Returns(c, ks, FALSE)
  PROVE  /\ DOMAIN stored' = ks
         /\ \A k \in ks :
               /\ Kept(k) /\ stored'[k].doomed = stored[k].doomed \ {c}
               /\ stored'[k].outlived => \/ stored[k].outlived
                                        \/ (c \in stored[k].doomed /\ ~Responses!Returns(c, ks, FALSE))
         /\ clean' = [clean EXCEPT ![c] = "idle"] /\ page' = [page EXCEPT ![c] = {}]
         /\ scope' = [scope EXCEPT ![c] = {}] /\ more' = more \ {c}
<1>1. ASSUME NEW k \in ks
      PROVE  /\ Kept(k) /\ stored'[k].doomed = stored[k].doomed \ {c}
             /\ stored'[k].outlived => \/ stored[k].outlived
                                        \/ (c \in stored[k].doomed /\ ~Responses!Returns(c, ks, FALSE))
  <2> DEFINE o == IF Responses!Returns(c, ks, FALSE) THEN stored[k].outlived
                  ELSE stored[k].outlived \/ c \in stored[k].doomed
  <2>1. stored[k] \in Responses!Entry /\ o \in BOOLEAN
    <3>1. stored[k] \in Responses!Entry /\ stored[k].outlived \in BOOLEAN
      BY EntryFields DEF Responses!TypeOK
    <3> QED
      BY <3>1
  <2>2. stored'[k] = [stored[k] EXCEPT !.doomed = @ \ {c}, !.outlived = o]
    <3>1. CASE Responses!Returns(c, ks, FALSE)
      BY <2>1, <3>1 DEF Responses!Returns
    <3>2. CASE ~Responses!Returns(c, ks, FALSE)
      BY <2>1, <3>2 DEF Responses!Returns
    <3> QED
      BY <3>1, <3>2
  <2> HIDE DEF o
  <2>3. /\ stored'[k] \in Responses!Entry /\ stored'[k].to = stored[k].to
        /\ stored'[k].age = stored[k].age /\ stored'[k].left = stored[k].left
        /\ stored'[k].doomed = stored[k].doomed \ {c}
        /\ stored'[k].outlived = o
    BY <2>1, <2>2 DEF Responses!Entry
  <2> QED
    <3>1. o => \/ stored[k].outlived
               \/ (c \in stored[k].doomed /\ ~Responses!Returns(c, ks, FALSE))
      BY DEF o
    <3> QED
      BY <2>3, <3>1 DEF Kept
<1> QED
  BY <1>1 DEF Responses!Returns

LEMMA InvalidateDoes ==
  ASSUME Responses!TypeOK, NEW c \in Cleaner, Responses!Invalidate(c)
  PROVE  /\ DOMAIN stored' = DOMAIN stored
         /\ \A k \in DOMAIN stored :
               /\ Kept(k) /\ stored'[k].outlived = stored[k].outlived
               /\ stored'[k].doomed \subseteq stored[k].doomed \cup {c}
         /\ clean' = [clean EXCEPT ![c] = "scan"]
         /\ scope' \in [Cleaner -> SUBSET Responses!Key]
         /\ UNCHANGED <<at, ask, got, slow, page, more>>
<1>1. PICK subjects \in {{s} : s \in Client} \cup {Client} :
        /\ scope' = [scope EXCEPT ![c] = subjects \X Content]
        /\ stored' = [k \in DOMAIN stored |->
                         IF k \in subjects \X Content
                         THEN [stored[k] EXCEPT !.doomed = @ \cup {c}] ELSE stored[k]]
  BY DEF Responses!Invalidate, Responses!Present
<1>2. subjects \X Content \subseteq Responses!Key
  BY DEF Responses!Key
<1>3. ASSUME NEW k \in DOMAIN stored
      PROVE  /\ Kept(k) /\ stored'[k].outlived = stored[k].outlived
             /\ stored'[k].doomed \subseteq stored[k].doomed \cup {c}
  <2>1. stored[k] \in Responses!Entry
    BY DEF Responses!TypeOK
  <2>2. \/ stored'[k] = stored[k]
        \/ stored'[k] = [stored[k] EXCEPT !.doomed = @ \cup {c}]
    BY <1>1
  <2>3. CASE stored'[k] = stored[k]
    BY <2>1, <2>3 DEF Kept
  <2>4. CASE stored'[k] = [stored[k] EXCEPT !.doomed = @ \cup {c}]
    <3>1. /\ stored'[k] \in Responses!Entry /\ stored'[k].to = stored[k].to
          /\ stored'[k].age = stored[k].age /\ stored'[k].left = stored[k].left
          /\ stored'[k].doomed = stored[k].doomed \cup {c}
          /\ stored'[k].outlived = stored[k].outlived
      BY <2>1, <2>4, EntryFound
    <3> QED
      BY <3>1 DEF Kept
  <2> QED
    BY <2>2, <2>3, <2>4
<1>4. scope' \in [Cleaner -> SUBSET Responses!Key]
  BY <1>1, <1>2 DEF Responses!TypeOK
<1> QED
  BY <1>1, <1>3, <1>4 DEF Responses!Invalidate, Responses!requests

LEMMA ResponsesTickDoes ==
  ASSUME Responses!TypeOK, Responses!Tick
  PROVE  /\ DOMAIN stored' \subseteq DOMAIN stored
         /\ \A k \in DOMAIN stored' :
               /\ Kept(k) /\ stored'[k].outlived = stored[k].outlived
               /\ stored'[k].doomed = stored[k].doomed
         /\ got' \in [Asker -> Responses!Answer]
         /\ slow = {} /\ slow' = {r \in Asker : at[r] = "set"}
         /\ \A r \in Asker :
               /\ at[r] # "set" => got'[r] = got[r]
               /\ at[r] = "set" => got'[r].to = got[r].to /\ got'[r].age = got[r].age + 1
         /\ UNCHANGED <<at, ask, clean, scope, page, more>>
<1>1. DOMAIN stored' = {x \in DOMAIN stored : stored[x].left > 1}
  BY DEF Responses!Tick, Responses!Present
<1>2. ASSUME NEW k \in DOMAIN stored'
      PROVE  /\ Kept(k) /\ stored'[k].outlived = stored[k].outlived
             /\ stored'[k].doomed = stored[k].doomed
  <2>1. k \in DOMAIN stored /\ stored[k] \in Responses!Entry /\ stored[k].left > 1
    BY <1>1 DEF Responses!TypeOK
  <2>2. stored'[k] = [stored[k] EXCEPT !.left = @ - 1, !.age = @ + 1]
    BY <1>1 DEF Responses!Tick, Responses!Present
  <2>3. (stored[k].age + 1) + (stored[k].left - 1) = stored[k].age + stored[k].left
    BY <2>1, EntryFields
  <2> QED
    BY <2>1, <2>2, <2>3, EntryAged DEF Kept
<1>3. ASSUME NEW r \in Asker
      PROVE  /\ got'[r] \in Responses!Answer
             /\ at[r] # "set" => got'[r] = got[r]
             /\ at[r] = "set" => got'[r].to = got[r].to /\ got'[r].age = got[r].age + 1
  <2>1. got[r] \in Responses!Answer
    BY DEF Responses!TypeOK
  <2>2. got'[r] = IF at[r] = "set" THEN [got[r] EXCEPT !.age = @ + 1] ELSE got[r]
    BY DEF Responses!Tick
  <2> QED
    BY <2>1, <2>2 DEF Responses!Answer
<1>4. got' = [r \in Asker |-> got'[r]]
  BY DEF Responses!Tick
<1> QED
  BY <1>1, <1>2, <1>3, <1>4 DEF Responses!Tick, Responses!cleaners

LEMMA ResponsesSetDoes ==
  ASSUME Responses!TypeOK, NEW r \in Asker, Responses!Set(r)
  PROVE  \A k \in DOMAIN stored' :
            \/ k \in DOMAIN stored /\ stored'[k] = stored[k]
            \/ /\ k = Responses!GenerateKey(ask[r]) /\ stored'[k] \in Responses!Entry
               /\ stored'[k].to = got[r].to /\ stored'[k].age = got[r].age
               /\ stored'[k].left = CacheTTL /\ stored'[k].doomed = {}
               /\ ~stored'[k].outlived
<1> DEFINE e == [to |-> got[r].to, age |-> got[r].age, outlived |-> FALSE,
                 left |-> CacheTTL, doomed |-> {}]
<1>1. got[r].to \in Responses!Ask /\ got[r].age \in Nat /\ CacheTTL \in 1..CacheTTL
  BY AnswerFields, ResponseConstants DEF Responses!TypeOK
<1>2. /\ e \in Responses!Entry /\ e.to = got[r].to /\ e.age = got[r].age
      /\ e.left = CacheTTL /\ e.doomed = {} /\ ~e.outlived
  BY <1>1 DEF Responses!Entry
<1>3. \/ stored' = stored
      \/ stored' = [k \in DOMAIN stored \cup {Responses!GenerateKey(ask[r])} |->
                       IF k # Responses!GenerateKey(ask[r]) THEN stored[k] ELSE e]
  BY DEF Responses!Set, Responses!Present
<1> HIDE DEF e
<1> QED
  BY <1>2, <1>3

(* Every variable of the response cache keeps its type. *)
LEMMA ResponseTypeStep ==
  ASSUME Responses!TypeOK, Responses!Next
  PROVE  Responses!TypeOK'
<1> USE ResponseConstants
        DEF Responses!TypeOK, Responses!Goto, Responses!Leaves,
            Responses!cleaners, Responses!requests
<1>1. ASSUME NEW r \in Asker, Responses!Get(r) PROVE Responses!TypeOK'
  <2>1. PICK a \in Responses!Ask :
          /\ ask' = [ask EXCEPT ![r] = a]
          /\ \/ /\ Responses!GenerateKey(a) \in DOMAIN stored
                /\ got' = [got EXCEPT ![r] =
                             [to |-> stored[Responses!GenerateKey(a)].to,
                              age |-> stored[Responses!GenerateKey(a)].age,
                              outlived |-> stored[Responses!GenerateKey(a)].outlived]]
                /\ at' = [at EXCEPT ![r] = "hit"]
             \/ at' = [at EXCEPT ![r] = "upstream"] /\ got' = got
    BY <1>1 DEF Responses!Get, Responses!Present
  <2>2. ASSUME NEW e \in Responses!Entry
        PROVE  [to |-> e.to, age |-> e.age, outlived |-> e.outlived] \in Responses!Answer
    BY DEF Responses!Entry, Responses!Answer
  <2>3. got' \in [Asker -> Responses!Answer]
    BY <2>1, <2>2
  <2>4. ask' \in [Asker -> Responses!Ask]
        /\ at' \in [Asker -> {"idle", "upstream", "set", "hit"}]
    BY <2>1
  <2> QED
    BY <1>1, <2>3, <2>4 DEF Responses!Get
<1>2. ASSUME NEW r \in Asker, Responses!Answered(r) PROVE Responses!TypeOK'
  <2>1. [to |-> ask[r], age |-> 0, outlived |-> FALSE] \in Responses!Answer
    BY DEF Responses!Answer
  <2> QED
    BY <1>2, <2>1 DEF Responses!Answered
<1>3. ASSUME NEW r \in Asker, Responses!GivesUp(r) PROVE Responses!TypeOK'
  BY <1>3 DEF Responses!GivesUp
<1>4. ASSUME NEW r \in Asker, Responses!Set(r) PROVE Responses!TypeOK'
  <2>1. /\ DOMAIN stored' \subseteq Responses!Key
        /\ \A k \in DOMAIN stored' : stored'[k] \in Responses!Entry
    BY <1>4, ResponsesSetDoes, KeyType
  <2> QED
    BY <1>4, <2>1 DEF Responses!Set
<1>5. ASSUME NEW r \in Asker, Responses!SendCached(r) PROVE Responses!TypeOK'
  BY <1>5 DEF Responses!SendCached
<1>6. ASSUME NEW c \in Cleaner, NEW ks \in SUBSET DOMAIN stored,
             Responses!Returns(c, ks, TRUE) \/ Responses!Returns(c, ks, FALSE),
             UNCHANGED Responses!requests
      PROVE  Responses!TypeOK'
  <2>1. /\ DOMAIN stored' = ks
        /\ \A k \in ks : stored'[k] \in Responses!Entry
    BY <1>6, ReturnsDoes DEF Kept
  <2>2. /\ clean' = [clean EXCEPT ![c] = "idle"] /\ page' = [page EXCEPT ![c] = {}]
        /\ scope' = [scope EXCEPT ![c] = {}] /\ more' = more \ {c}
    BY <1>6, ReturnsDoes
  <2>3. /\ clean' \in [Cleaner -> {"idle", "scan", "del"}] /\ more' \subseteq Cleaner
        /\ scope' \in [Cleaner -> SUBSET Responses!Key]
        /\ page' \in [Cleaner -> SUBSET Responses!Key]
    BY <2>2
  <2> QED
    BY <1>6, <2>1, <2>3
<1>7. ASSUME NEW c \in Cleaner, Responses!Invalidate(c) PROVE Responses!TypeOK'
  BY <1>7, InvalidateDoes DEF Kept
<1>8. ASSUME NEW c \in Cleaner, Responses!Scan(c) PROVE Responses!TypeOK'
  <2>1. CASE Responses!Returns(c, DOMAIN stored, FALSE)
    BY <1>6, <1>8, <2>1 DEF Responses!Scan
  <2>2. CASE ~Responses!Returns(c, DOMAIN stored, FALSE)
    <3>1. PICK ks \in SUBSET (scope[c] \cap DOMAIN stored) : page' = [page EXCEPT ![c] = ks]
      BY <1>8, <2>2 DEF Responses!Scan, Responses!Present
    <3>2. /\ more' \subseteq Cleaner /\ clean' = [clean EXCEPT ![c] = "del"]
          /\ UNCHANGED <<stored, scope, at, ask, got, slow>>
      BY <1>8, <2>2 DEF Responses!Scan, Responses!Present
    <3> QED
      BY <3>1, <3>2
  <2> QED
    BY <2>1, <2>2
<1>9. ASSUME NEW c \in Cleaner, Responses!Delete(c) PROVE Responses!TypeOK'
  <2>1. CASE \E ks \in SUBSET DOMAIN stored :
                Responses!Returns(c, ks, TRUE) \/ Responses!Returns(c, ks, FALSE)
    BY <1>6, <1>9, <2>1 DEF Responses!Delete
  <2>2. CASE /\ stored' = [k \in DOMAIN stored \ page[c] |-> stored[k]]
             /\ clean' = [clean EXCEPT ![c] = "scan"]
             /\ page' = [page EXCEPT ![c] = {}]
             /\ UNCHANGED <<scope, more>>
    BY <1>9, <2>2 DEF Responses!Delete
  <2> QED
    BY <1>9, <2>1, <2>2 DEF Responses!Delete, Responses!Present
<1>10. CASE Responses!Tick
  BY <1>10, ResponsesTickDoes DEF Kept
<1> QED
  BY <1>1, <1>2, <1>3, <1>4, <1>5, <1>7, <1>8, <1>9, <1>10 DEF Responses!Next

(* Invalidations leave the answers of the requests alone. *)
LEMMA AnswersStep ==
  ASSUME Responses!TypeOK, Responses!TypeOK', ResponseInv, Responses!Next,
         NEW q \in Asker
  PROVE  AnswerSound(q)'
<1> USE ResponseConstants
        DEF Responses!Goto, Responses!Leaves, Responses!cleaners, Responses!requests
<1>0. AnswerSound(q) /\ at[q] \in {"idle", "upstream", "set", "hit"}
  BY DEF ResponseInv, Responses!TypeOK
<1>1. ASSUME NEW r \in Asker, r # q,
             \/ Responses!Get(r) \/ Responses!Answered(r) \/ Responses!GivesUp(r)
             \/ Responses!Set(r) \/ Responses!SendCached(r)
      PROVE  AnswerSound(q)'
  <2>1. /\ at'[q] = at[q] /\ ask'[q] = ask[q] /\ got'[q] = got[q]
        /\ q \in slow' <=> q \in slow
    BY <1>1 DEF Responses!Get, Responses!Answered, Responses!GivesUp,
       Responses!Set, Responses!SendCached, Responses!TypeOK
  <2> QED
    BY <1>0, <2>1 DEF AnswerSound
<1>2. CASE Responses!Get(q)
  <2>1. PICK a \in Responses!Ask :
          /\ ask'[q] = a
          /\ \/ /\ Responses!GenerateKey(a) \in DOMAIN stored
                /\ got'[q] = [to |-> stored[Responses!GenerateKey(a)].to,
                              age |-> stored[Responses!GenerateKey(a)].age,
                              outlived |-> stored[Responses!GenerateKey(a)].outlived]
                /\ at'[q] = "hit"
             \/ at'[q] = "upstream"
    BY <1>2 DEF Responses!Get, Responses!Present, Responses!TypeOK
  <2>2. q \notin slow'
    BY <1>0, <1>2 DEF Responses!Get, AnswerSound
  <2>3. CASE at'[q] = "upstream"
    BY <2>2, <2>3 DEF AnswerSound
  <2>4. CASE at'[q] = "hit"
    <3> DEFINE k == Responses!GenerateKey(a)
    <3>1. k \in DOMAIN stored /\ stored[k] \in Responses!Entry
      BY <2>1, <2>4 DEF Responses!TypeOK
    <3>2. got'[q].to = stored[k].to /\ got'[q].age = stored[k].age
          /\ (got'[q].outlived => stored[k].outlived)
      BY <2>1, <2>4
    <3>3. StoredSound(k)
      BY <3>1 DEF ResponseInv
    <3>4. stored[k].to = a
      BY <3>1, <3>3, EntryFields, KeyInjective DEF StoredSound
    <3>5. stored[k].age <= CacheTTL
      BY <3>1, <3>3, EntryFields DEF StoredSound
    <3> QED
      BY <2>1, <2>2, <2>4, <3>2, <3>3, <3>4, <3>5 DEF AnswerSound, StoredSound
  <2> QED
    BY <2>1, <2>3, <2>4
<1>3. CASE Responses!Answered(q)
  BY <1>0, <1>3 DEF Responses!Answered, AnswerSound, Responses!TypeOK
<1>4. CASE Responses!GivesUp(q) \/ Responses!Set(q) \/ Responses!SendCached(q)
  BY <1>0, <1>4 DEF Responses!GivesUp, Responses!Set, Responses!SendCached,
     AnswerSound, Responses!TypeOK
<1>5. ASSUME NEW c \in Cleaner,
             Responses!Invalidate(c) \/ Responses!Scan(c) \/ Responses!Delete(c)
      PROVE  AnswerSound(q)'
  BY <1>0, <1>5 DEF Responses!Invalidate, Responses!Scan, Responses!Delete, AnswerSound
<1>6. CASE Responses!Tick
  <2>1. /\ at' = at /\ ask' = ask /\ slow = {}
        /\ q \in slow' <=> at[q] = "set"
        /\ at[q] # "set" => got'[q] = got[q]
        /\ at[q] = "set" => got'[q].to = got[q].to /\ got'[q].age = got[q].age + 1
    BY <1>6, ResponsesTickDoes
  <2>2. got[q].age \in Nat
    BY AnswerFields DEF Responses!TypeOK
  <2> QED
    BY <1>0, <2>1, <2>2 DEF AnswerSound
<1> QED
  BY <1>1, <1>2, <1>3, <1>4, <1>5, <1>6 DEF Responses!Next

(* What an invalidation does to an entry that stays, and where it leaves   *)
(* the others.                                                             *)
LEMMA CleanersStep ==
  ASSUME Responses!TypeOK, NEW c \in Cleaner,
         Responses!Invalidate(c) \/ Responses!Scan(c) \/ Responses!Delete(c)
  PROVE  \A d \in Cleaner \ {c} :
            /\ clean'[d] = clean[d] /\ page'[d] = page[d]
            /\ d \in more' <=> d \in more
BY DEF Responses!Invalidate, Responses!Scan, Responses!Delete, Responses!Returns,
       Responses!requests, Responses!TypeOK

(* An invalidation keeps the entries' promise: it says that it is complete *)
(* only when its last page held every entry it had found.                  *)
LEMMA StoredStep ==
  ASSUME Responses!TypeOK, Responses!TypeOK', ResponseInv, Responses!Next,
         NEW k \in DOMAIN stored'
  PROVE  StoredSound(k)'
<1> USE DEF Responses!Goto, Responses!Leaves, Responses!cleaners, Responses!requests,
            Responses!Present
<1>0. k \in DOMAIN stored => StoredSound(k)
  BY DEF ResponseInv
<1>1. ASSUME NEW r \in Asker,
             Responses!Get(r) \/ Responses!Answered(r) \/ Responses!GivesUp(r)
             \/ Responses!SendCached(r)
      PROVE  StoredSound(k)'
  <2>1. UNCHANGED <<stored, clean, more, page>>
    BY <1>1 DEF Responses!Get, Responses!Answered, Responses!GivesUp, Responses!SendCached
  <2> QED
    BY <1>0, <2>1 DEF StoredSound
<1>2. ASSUME NEW r \in Asker, Responses!Set(r) PROVE StoredSound(k)'
  <2>1. UNCHANGED <<clean, more, page>> /\ at[r] = "set"
    BY <1>2 DEF Responses!Set
  <2>2. CASE k \in DOMAIN stored /\ stored'[k] = stored[k]
    BY <1>0, <2>1, <2>2 DEF StoredSound
  <2>3. CASE /\ k = Responses!GenerateKey(ask[r])
             /\ stored'[k].to = got[r].to /\ stored'[k].age = got[r].age
             /\ stored'[k].left = CacheTTL /\ stored'[k].doomed = {}
             /\ ~stored'[k].outlived
    <3>1. got[r].to = ask[r] /\ got[r].age <= 1 /\ got[r].age \in Nat
      BY <2>1, AnswerFields DEF ResponseInv, AnswerSound, Responses!TypeOK
    <3>2. stored'[k].age + stored'[k].left <= CacheTTL + 1
      BY <2>3, <3>1, ResponseConstants
    <3> QED
      BY <2>3, <3>1, <3>2 DEF StoredSound
  <2> QED
    BY <1>2, <2>2, <2>3, ResponsesSetDoes
<1>3. ASSUME k \in DOMAIN stored, Kept(k), ~stored'[k].outlived,
             \A c \in stored'[k].doomed :
                /\ clean'[c] # "idle"
                /\ clean'[c] = "del" /\ c \notin more' => k \in page'[c]
      PROVE  StoredSound(k)'
  BY <1>0, <1>3 DEF StoredSound, Kept
<1>4. k \in DOMAIN stored => stored[k].doomed \subseteq Cleaner
  BY EntryFields DEF Responses!TypeOK
<1>5. ASSUME NEW c \in Cleaner, NEW ks \in SUBSET DOMAIN stored,
             \/ Responses!Returns(c, ks, FALSE)
             \/ /\ Responses!Returns(c, ks, TRUE)
                /\ \A x \in ks : c \notin stored[x].doomed
      PROVE  StoredSound(k)'
  <2>1. k \in ks /\ k \in DOMAIN stored
    <3>1. DOMAIN stored' = ks
      BY <1>5, ReturnsDoes
    <3> QED
      BY <3>1
  <2>2. /\ Kept(k) /\ stored'[k].doomed = stored[k].doomed \ {c}
        /\ stored'[k].outlived => \/ stored[k].outlived
                                  \/ (c \in stored[k].doomed /\ ~Responses!Returns(c, ks, FALSE))
        /\ clean' = [clean EXCEPT ![c] = "idle"] /\ page' = [page EXCEPT ![c] = {}]
        /\ more' = more \ {c}
    BY <1>5, <2>1, ReturnsDoes
  <2>3. ~stored'[k].outlived
    BY <1>0, <1>5, <2>1, <2>2 DEF StoredSound
  <2>4. ASSUME NEW d \in stored'[k].doomed
        PROVE  /\ clean'[d] # "idle"
               /\ clean'[d] = "del" /\ d \notin more' => k \in page'[d]
    <3>1. d \in stored[k].doomed /\ d # c /\ d \in Cleaner
      BY <1>4, <2>1, <2>2
    <3>2. clean'[d] = clean[d] /\ page'[d] = page[d] /\ (d \in more' <=> d \in more)
      BY <2>2, <3>1 DEF Responses!TypeOK
    <3> QED
      BY <1>0, <2>1, <3>1, <3>2 DEF StoredSound
  <2> QED
    BY <1>3, <2>1, <2>2, <2>3, <2>4
<1>6. ASSUME NEW c \in Cleaner, Responses!Invalidate(c) PROVE StoredSound(k)'
  <2>1. /\ k \in DOMAIN stored /\ Kept(k) /\ stored'[k].outlived = stored[k].outlived
        /\ stored'[k].doomed \subseteq stored[k].doomed \cup {c}
        /\ clean' = [clean EXCEPT ![c] = "scan"] /\ UNCHANGED <<page, more>>
    BY <1>6, InvalidateDoes
  <2>2. ASSUME NEW d \in stored'[k].doomed
        PROVE  /\ clean'[d] # "idle"
               /\ clean'[d] = "del" /\ d \notin more' => k \in page'[d]
    <3>1. CASE d = c
      BY <2>1, <3>1 DEF Responses!TypeOK
    <3>2. CASE d # c
      BY <1>0, <1>4, <2>1, <3>2 DEF StoredSound, Responses!TypeOK
    <3> QED
      BY <3>1, <3>2
  <2>3. ~stored'[k].outlived
    BY <1>0, <2>1 DEF StoredSound
  <2> QED
    BY <1>3, <2>1, <2>2, <2>3
<1>7. ASSUME NEW c \in Cleaner, Responses!Scan(c) PROVE StoredSound(k)'
  <2>1. CASE Responses!Returns(c, DOMAIN stored, FALSE)
    BY <1>5, <2>1
  <2>2. CASE ~Responses!Returns(c, DOMAIN stored, FALSE)
    <3>1. PICK ks \in SUBSET (scope[c] \cap DOMAIN stored) :
            /\ page' = [page EXCEPT ![c] = ks]
            /\ \/ more' = more \cup {c}
               \/ /\ \A x \in DOMAIN stored : c \in stored[x].doomed => x \in ks
                  /\ more' = more \ {c}
            /\ clean' = [clean EXCEPT ![c] = "del"]
            /\ UNCHANGED stored
      BY <1>7, <2>2 DEF Responses!Scan
    <3>2. ASSUME NEW d \in stored[k].doomed
          PROVE  /\ clean'[d] # "idle"
                 /\ clean'[d] = "del" /\ d \notin more' => k \in page'[d]
      <4>1. d \in Cleaner /\ k \in DOMAIN stored
        BY <1>4, <3>1
      <4>2. CASE d = c
        BY <3>1, <4>1, <4>2 DEF Responses!TypeOK
      <4>3. CASE d # c
        <5>1. clean'[d] = clean[d] /\ page'[d] = page[d] /\ (d \in more' <=> d \in more)
          BY <1>7, <4>1, <4>3, CleanersStep
        <5> QED
          BY <1>0, <4>1, <5>1 DEF StoredSound
      <4> QED
        BY <4>2, <4>3
    <3>3. stored' = stored /\ k \in DOMAIN stored
      BY <3>1
    <3> QED
      BY <1>0, <3>2, <3>3 DEF StoredSound
  <2> QED
    BY <2>1, <2>2
<1>8. ASSUME NEW c \in Cleaner, Responses!Delete(c) PROVE StoredSound(k)'
  <2>1. CASE Responses!Returns(c, DOMAIN stored, FALSE)
    BY <1>5, <2>1
  <2>2. CASE c \notin more /\ Responses!Returns(c, DOMAIN stored \ page[c], TRUE)
    <3>1. \A x \in DOMAIN stored \ page[c] : c \notin stored[x].doomed
      BY <1>8, <2>2 DEF Responses!Delete, ResponseInv, StoredSound
    <3> QED
      BY <1>5, <2>2, <3>1
  <2>3. CASE /\ c \in more
             /\ stored' = [x \in DOMAIN stored \ page[c] |-> stored[x]]
             /\ clean' = [clean EXCEPT ![c] = "scan"]
    <3>1. k \in DOMAIN stored /\ stored'[k] = stored[k]
      BY <2>3
    <3>2. ASSUME NEW d \in stored[k].doomed
          PROVE  /\ clean'[d] # "idle"
                 /\ clean'[d] = "del" /\ d \notin more' => k \in page'[d]
      <4>1. d \in Cleaner
        BY <1>4, <3>1
      <4>2. CASE d = c
        BY <2>3, <4>1, <4>2 DEF Responses!TypeOK
      <4>3. CASE d # c
        <5>1. clean'[d] = clean[d] /\ page'[d] = page[d] /\ (d \in more' <=> d \in more)
          BY <1>8, <4>1, <4>3, CleanersStep
        <5> QED
          BY <1>0, <3>1, <5>1 DEF StoredSound
      <4> QED
        BY <4>2, <4>3
    <3> QED
      BY <1>0, <3>1, <3>2 DEF StoredSound
  <2> QED
    BY <1>8, <2>1, <2>2, <2>3 DEF Responses!Delete
<1>9. CASE Responses!Tick
  <2>1. /\ k \in DOMAIN stored /\ Kept(k) /\ stored'[k].outlived = stored[k].outlived
        /\ stored'[k].doomed = stored[k].doomed
        /\ UNCHANGED <<clean, page, more>>
    BY <1>9, ResponsesTickDoes
  <2> QED
    BY <1>0, <1>3, <2>1 DEF StoredSound
<1> QED
  BY <1>1, <1>2, <1>6, <1>7, <1>8, <1>9 DEF Responses!Next

LEMMA ResponsesUnchanged ==
  ASSUME UNCHANGED responseVars
  PROVE  (Responses!TypeOK => Responses!TypeOK') /\ (ResponseInv => ResponseInv')
BY DEF responseVars, Responses!TypeOK, ResponseInv, AnswerSound, StoredSound

LEMMA ResponsesStep ==
  [CachesNext]_allVars => Responses!Next \/ UNCHANGED responseVars
BY DEF CachesNext, allVars

THEOREM AnswersInvariant == CachesSpec => [](Responses!TypeOK /\ ResponseInv)
<1>1. CachesInit => Responses!TypeOK /\ ResponseInv
  <2> SUFFICES ASSUME CachesInit PROVE Responses!TypeOK /\ ResponseInv
    OBVIOUS
  <2>1. Responses!TypeOK
    BY ResponseConstants DEF CachesInit, Responses!Init, Responses!TypeOK
  <2>2. ResponseInv
    BY DEF CachesInit, Responses!Init, ResponseInv, AnswerSound
  <2> QED
    BY <2>1, <2>2
<1>2. Responses!TypeOK /\ ResponseInv /\ [CachesNext]_allVars
        => Responses!TypeOK' /\ ResponseInv'
  <2>1. Responses!TypeOK /\ ResponseInv /\ Responses!Next
          => Responses!TypeOK' /\ ResponseInv'
    BY ResponseTypeStep, AnswersStep, StoredStep DEF ResponseInv
  <2> QED
    BY <2>1, ResponsesStep, ResponsesUnchanged
<1> QED
  BY <1>1, <1>2, PTL DEF CachesSpec

(* A cached answer was made for the same subject and content, at most the  *)
(* TTL ago, and no completed invalidation had found it, for any number of  *)
(* requests and invalidations and any pages that SCAN may return.          *)
THEOREM Answers == CachesSpec => []AnswersJustified
<1>1. Responses!TypeOK /\ ResponseInv => AnswersJustified
  BY DEF ResponseInv, AnswerSound, AnswersJustified, Responses!AnswersJustified
<1> QED
  BY <1>1, AnswersInvariant, PTL
=============================================================================
