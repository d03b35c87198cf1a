---------------------------- MODULE ConfigCache ----------------------------
(***************************************************************************)
(* The configuration cache of one gateway process, as ratelimitsvc and     *)
(* routingconfigsvc both implement it: a sync.Map from subjects to         *)
(* configurations with a TTL.  A lookup tries the subject and then the     *)
(* subject "default", in the cache and in the database, and stores what it *)
(* found; an update writes the database and then invalidates the cache.    *)
(*                                                                         *)
(* One action is one query or one operation on the map.  Time passes in    *)
(* ticks; a lookup takes less than two of them.                            *)
(***************************************************************************)
EXTENDS Naturals

CONSTANTS Subject,   (* the subjects of requests                            *)
          Default,   (* DefaultSubjectID                                    *)
          Request,   (* lookups in flight                                   *)
          Admin,     (* updates in flight                                   *)
          TTL,       (* configCacheTTL, in ticks                            *)
          MaxWrites, (* bound: writes of the database                       *)
          MaxFaults  (* bound: queries that fail                            *)

ASSUME CacheAssumption ==
    /\ Subject # {} /\ Default \notin Subject
    /\ TTL \in Nat \ {0}
    /\ MaxWrites \in Nat /\ MaxFaults \in Nat

VARIABLES
    db,     (* the configuration of each subject, by the write it stems     *)
            (* from; None if there is none                                  *)
    writes, (* how many writes there were                                   *)
    cache,  (* the map                                                      *)
    pc,     (* where each lookup is                                         *)
    of,     (* the subject it is about                                      *)
    found,  (* the configuration it will store                              *)
    late,   (* the lookups that already saw a tick                          *)
    mixed,  (* the lookups that overlapped an update, or whose query failed *)
    todo,   (* what each update still does                                  *)
    about,  (* the subject it is about                                      *)
    sweep,  (* the keys its Range still has to visit                        *)
    faults  (* how many queries failed                                      *)

lookups == <<pc, of, found, late, mixed>>
updates == <<todo, about, sweep>>
vars    == <<db, writes, cache, lookups, updates, faults>>

Key     == Subject \cup {Default}
None    == 0  (* no configuration, and the hard-coded one that stands in    *)
Config  == 0..MaxWrites

(* An entry: its configuration, the ticks it has left, the ticks since a   *)
(* query returned the configuration, and its origin: "mixed" if one of the *)
(* lookups it comes from was.                                              *)
Origin  == {"clean", "mixed"}
Finding == [cfg : Config, age : Nat, origin : Origin]
Entry   == [cfg : Config, age : Nat, origin : Origin, left : 0..TTL]
Fresh(c) == [cfg |-> c, age |-> 0, origin |-> "clean"]
Nothing == Fresh(None)

TypeOK ==
    /\ db \in [Key -> Config] /\ writes \in 0..MaxWrites
    /\ DOMAIN cache \subseteq Key /\ \A k \in DOMAIN cache : cache[k] \in Entry
    /\ pc \in [Request -> {"idle", "evict", "query", "default", "evictDefault",
                           "queryDefault", "storeDefault", "store"}]
    /\ of \in [Request -> Subject]
    /\ found \in [Request -> Finding]
    /\ late \subseteq Request /\ mixed \subseteq Request
    /\ todo \in [Admin -> {"nothing", "delete", "range"}]
    /\ about \in [Admin -> Key]
    /\ sweep \in [Admin -> SUBSET Key]
    /\ faults \in 0..MaxFaults

AnySubject == CHOOSE s \in Subject : TRUE

Init ==
    /\ db = [k \in Key |-> None] /\ writes = 0
    /\ cache = [k \in {} |-> Nothing]
    /\ pc = [r \in Request |-> "idle"]
    /\ of = [r \in Request |-> AnySubject]
    /\ found = [r \in Request |-> Nothing]
    /\ late = {} /\ mixed = {}
    /\ todo = [a \in Admin |-> "nothing"]
    /\ about = [a \in Admin |-> Default]
    /\ sweep = [a \in Admin |-> {}]
    /\ faults = 0

----------------------------------------------------------------------------

(* Mutant: nothing expires. *)
Present(k) == k \in DOMAIN cache

(* An entry that loadCached returns. *)
Live(k) == k \in DOMAIN cache /\ cache[k].left > 0

(* The configuration of k by the database. *)
Effective(k) == IF db[k] # None THEN db[k] ELSE db[Default]

Updating == \E a \in Admin : todo[a] # "nothing"

Without(k) == [x \in DOMAIN cache \ {k} |-> cache[x]]
With(k, e) == [x \in DOMAIN cache \cup {k} |-> IF x = k THEN e ELSE cache[x]]

Goto(r, p) == pc' = [pc EXCEPT ![r] = p]
Finds(r, f) == found' = [found EXCEPT ![r] = f]

(* A lookup is over, and forgets what it found. *)
Return(r) ==
    /\ Goto(r, "idle")
    /\ Finds(r, Nothing)
    /\ of' = [of EXCEPT ![r] = AnySubject]
    /\ late' = late \ {r}
    /\ mixed' = mixed \ {r}

(* storeCache. *)
Store(k, f) ==
    cache' = With(k, [cfg |-> f.cfg, age |-> f.age, origin |-> f.origin, left |-> TTL])

----------------------------------------------------------------------------
(* Lookups: resolveConfig *)

(* loadCached of the subject: a hit ends the lookup at once. *)
Load(r) ==
    /\ pc[r] = "idle"
    /\ \E s \in Subject :
        /\ ~Live(s)
        /\ Goto(r, IF s \in DOMAIN cache THEN "evict" ELSE "query")
        /\ of' = [of EXCEPT ![r] = s]
    /\ mixed' = IF Updating THEN mixed \cup {r} ELSE mixed
    /\ UNCHANGED <<db, writes, cache, found, late, updates, faults>>

(* loadCached deletes the key it found expired, whatever is there now. *)
Evict(r) ==
    /\ \/ /\ pc[r] = "evict"
          /\ cache' = Without(of[r]) /\ Goto(r, "query")
       \/ /\ pc[r] = "evictDefault"
          /\ cache' = Without(Default) /\ Goto(r, "queryDefault")
    /\ UNCHANGED <<db, writes, of, found, late, mixed, updates, faults>>

Fails(r) ==
    /\ faults < MaxFaults /\ faults' = faults + 1
    /\ mixed' = mixed \cup {r}

(* FindBySubject: any error is taken for a subject without configuration. *)
Query(r) ==
    /\ pc[r] = "query"
    /\ \/ /\ db[of[r]] # None
          /\ Finds(r, Fresh(db[of[r]])) /\ Goto(r, "store")
          /\ UNCHANGED <<mixed, faults>>
       \/ /\ db[of[r]] = None
          /\ Goto(r, "default")
          /\ UNCHANGED <<found, mixed, faults>>
       \/ Fails(r) /\ Goto(r, "default") /\ UNCHANGED found
    /\ UNCHANGED <<db, writes, cache, of, late, updates>>

(* Mutant: a hit prolongs the life of the default's entry. *)
LoadDefaultSliding(r) ==
    /\ pc[r] = "default"
    /\ \/ /\ Live(Default)
          /\ Finds(r, [cfg |-> cache[Default].cfg, age |-> cache[Default].age,
                       origin |-> cache[Default].origin])
          /\ Goto(r, "store")
          /\ cache' = [cache EXCEPT ![Default].left = TTL]
       \/ /\ ~Live(Default)
          /\ Goto(r, IF Default \in DOMAIN cache THEN "evictDefault" ELSE "queryDefault")
          /\ UNCHANGED <<found, cache>>
    /\ UNCHANGED <<db, writes, of, late, mixed, updates, faults>>

(* loadCached of the default. *)
LoadDefault(r) ==
    /\ pc[r] = "default"
    /\ \/ /\ Live(Default)
          /\ Finds(r, [cfg |-> cache[Default].cfg, age |-> cache[Default].age,
                       origin |-> cache[Default].origin])
          /\ Goto(r, "store")
       \/ /\ ~Live(Default)
          /\ Goto(r, IF Default \in DOMAIN cache THEN "evictDefault" ELSE "queryDefault")
          /\ UNCHANGED found
    /\ UNCHANGED <<db, writes, cache, of, late, mixed, updates, faults>>

(* FindBySubject of the default; without one, or if the query fails, the   *)
(* hard-coded configuration is stored for the subject.                     *)
QueryDefault(r) ==
    /\ pc[r] = "queryDefault"
    /\ \/ /\ Finds(r, Fresh(db[Default]))
          /\ Goto(r, IF db[Default] # None THEN "storeDefault" ELSE "store")
          /\ UNCHANGED <<mixed, faults>>
       \/ /\ Fails(r)
          /\ Finds(r, Nothing) /\ Goto(r, "store")
    /\ UNCHANGED <<db, writes, cache, of, late, updates>>

(* What the lookup found, and whether it was mixed by the time it is       *)
(* stored.                                                                 *)
Result(r) == [cfg |-> found[r].cfg, age |-> found[r].age,
              origin |-> IF r \in mixed THEN "mixed" ELSE found[r].origin]

StoreDefault(r) ==
    /\ pc[r] = "storeDefault"
    /\ Store(Default, Result(r))
    /\ Goto(r, "store")
    /\ UNCHANGED <<db, writes, of, found, late, mixed, updates, faults>>

StoreOwn(r) ==
    /\ pc[r] = "store"
    /\ Store(of[r], Result(r))
    /\ Return(r)
    /\ UNCHANGED <<db, writes, updates, faults>>

----------------------------------------------------------------------------
(* Updates: Create, Update and Delete *)

Busy == {r \in Request : pc[r] # "idle"}

(* The row of k is created, updated or deleted. *)
Write(k) ==
    /\ writes < MaxWrites /\ writes' = writes + 1
    /\ \E c \in {None, writes + 1} \ {db[k]} : db' = [db EXCEPT ![k] = c]
    /\ mixed' = mixed \cup Busy

UpdateRow(a) ==
    /\ todo[a] = "nothing"
    /\ \E k \in Key :
        /\ Write(k)
        /\ about' = [about EXCEPT ![a] = k]
    /\ todo' = [todo EXCEPT ![a] = "delete"]
    /\ UNCHANGED <<cache, pc, of, found, late, sweep, faults>>

(* Mutant: the subjects that inherited the default keep it. *)
DeleteOwnKey(a) ==
    /\ todo[a] = "delete"
    /\ cache' = Without(about[a])
    /\ todo' = [todo EXCEPT ![a] = "nothing"]
    /\ about' = [about EXCEPT ![a] = Default]
    /\ UNCHANGED <<db, writes, lookups, sweep, faults>>

(* invalidateCache: the key, and for the default every key.  Range visits  *)
(* the keys that were there, and those stored meanwhile perhaps.           *)
DeleteKey(a) ==
    /\ todo[a] = "delete"
    /\ cache' = Without(about[a])
    /\ IF about[a] = Default
       THEN /\ todo' = [todo EXCEPT ![a] = "range"]
            /\ sweep' = [sweep EXCEPT ![a] = DOMAIN cache \ {Default}]
            /\ UNCHANGED about
       ELSE /\ todo' = [todo EXCEPT ![a] = "nothing"]
            /\ about' = [about EXCEPT ![a] = Default]
            /\ UNCHANGED sweep
    /\ UNCHANGED <<db, writes, lookups, faults>>

RangeDelete(a) ==
    /\ todo[a] = "range"
    /\ \/ \E k \in sweep[a] \cup DOMAIN cache :
            /\ cache' = Without(k)
            /\ sweep' = [sweep EXCEPT ![a] = @ \ {k}]
            /\ UNCHANGED todo
       \/ /\ sweep[a] = {}
          /\ todo' = [todo EXCEPT ![a] = "nothing"]
          /\ UNCHANGED <<cache, sweep>>
    /\ UNCHANGED <<db, writes, lookups, about, faults>>

(* Another gateway process updates the row, or this one does and the reply *)
(* is lost: nothing is invalidated here.                                   *)
UpdateElsewhere ==
    /\ \E k \in Key : Write(k)
    /\ cache' = [k \in DOMAIN cache |->
                    [cfg |-> cache[k].cfg, age |-> cache[k].age,
                     origin |-> "mixed", left |-> cache[k].left]]
    /\ UNCHANGED <<pc, of, found, late, updates, faults>>

----------------------------------------------------------------------------

(* 30 seconds pass in TTL of these. *)
Tick ==
    /\ late = {}
    /\ late' = Busy
    /\ cache' = [k \in DOMAIN cache |->
                    IF cache[k].left = 0 THEN cache[k]
                    ELSE [cfg |-> cache[k].cfg, age |-> cache[k].age + 1,
                          origin |-> cache[k].origin, left |-> cache[k].left - 1]]
    /\ found' = [r \in Request |->
                    IF pc[r] \in {"storeDefault", "store"}
                    THEN [cfg |-> found[r].cfg, age |-> found[r].age + 1,
                          origin |-> found[r].origin]
                    ELSE found[r]]
    /\ UNCHANGED <<db, writes, pc, of, mixed, updates, faults>>

Step(r) == Evict(r) \/ Query(r) \/ LoadDefault(r) \/ QueryDefault(r)
           \/ StoreDefault(r) \/ StoreOwn(r)

Invalidate(a) == DeleteKey(a) \/ RangeDelete(a)

Next ==
    \/ \E r \in Request : Load(r) \/ Step(r)
    \/ \E a \in Admin : UpdateRow(a) \/ Invalidate(a)
    \/ UpdateElsewhere
    \/ Tick

Spec == Init /\ [][Next]_vars

(* Lookups and updates run to completion, and time passes. *)
Fairness ==
    /\ \A r \in Request : WF_vars(Step(r))
    /\ \A a \in Admin : WF_vars(Invalidate(a))
    /\ WF_vars(Tick)

FairSpec == Spec /\ Fairness

----------------------------------------------------------------------------
(* Properties *)

(* "Config lookups are cached in-memory with a short TTL": although the    *)
(* default's entry is copied to subjects with a fresh TTL, what is served  *)
(* was in the database at most twice the TTL ago, whatever fails.          *)
AgeBounded == \A k \in Key : Live(k) => cache[k].age <= 2 * TTL

(* "Also clear any subject entries that might have inherited this          *)
(* default": as long as lookups and updates do not overlap and no query    *)
(* fails, each entry is what the database says, own or inherited.          *)
CoherentUnlessMixed ==
    ~Updating => \A k \in Key : Live(k) /\ cache[k].origin = "clean" => cache[k].cfg = Effective(k)

(* Once configurations do not change any more, stale entries die out: no   *)
(* copy keeps another alive.                                               *)
Settles == <>[](\A k \in Key : Live(k) => cache[k].cfg = Effective(k))
=============================================================================
