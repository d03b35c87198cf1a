------------------------------ MODULE Routing ------------------------------
(***************************************************************************)
(* Router.ResolveAll: from the name of a model to the routes that are      *)
(* tried for it, by queries to the catalog and reads of the health of the  *)
(* keys, one after the other, while administrators edit the catalog and    *)
(* other requests report what became of the keys they used.                *)
(*                                                                         *)
(* One call is followed; the others appear by their reports and by their   *)
(* reads of a key's health, which may reset it.  Time passes in units.     *)
(***************************************************************************)
EXTENDS Naturals, Sequences, FiniteSets, SequencesExt

CONSTANTS Key, Provider, Model,
          Owner,       (* the provider of each key                          *)
          Place,       (* of each key by sort_order and created_at          *)
          Price,       (* output prices                                     *)
          Latency,     (* durations of requests; 0 is not recorded          *)
          None,        (* no price; no key picked yet                       *)
          Spare,       (* the ids of which no row was created yet           *)
          InitMappings,  (* the mappings and                                *)
          InitFallbacks, (* the fallbacks at the start                      *)
          Threshold,   (* healthErrorThreshold (3 in the code)              *)
          Rest,        (* healthBlacklistDuration (30 s)                    *)
          Window,      (* healthMetricsWindow (5 min)                       *)
          MaxReports,  (* bound: outcomes that are reported                 *)
          MaxTicks,    (* bound: units of time                              *)
          MaxWrites,   (* bound: edits of the catalog                       *)
          MaxFaults,   (* bound: queries that fail                          *)
          MaxEvents    (* bound: all of these together                      *)

Status == {"unborn", "active", "inactive", "deleted"}

RowType == [id : Nat, model : Model, provider : Provider, price : Price \cup {None},
            status : Status]

FallbackType == [model : Model, to : Model, priority : {0, 1}]

(* A key that was looked at: its penalty is the uptime it comes from.      *)
Candidate == [key : Key, penalty : [inf : BOOLEAN, up : Nat \X Nat], healthy : BOOLEAN]

ASSUME RoutingAssumption ==
    /\ Threshold \in Nat \ {0} /\ Rest \in Nat \ {0} /\ Window \in Nat \ {0}
    /\ Owner \in [Key -> Provider] /\ Place \in [Key -> Nat]
    /\ Price \subseteq Nat /\ Latency \subseteq Nat
    /\ None \notin Candidate /\ None \notin Nat
    /\ InitMappings \in Seq(RowType) /\ \A n \in DOMAIN InitMappings : InitMappings[n].id = n
    /\ InitFallbacks \subseteq FallbackType /\ IsFiniteSet(InitFallbacks)
    /\ \A f, g \in InitFallbacks :
          f.model # f.to /\ (f.model = g.model /\ f.to = g.to => f = g)

VARIABLES
    health,     (* KeyHealthTracker: the record of each key                 *)
    providers, models, keys, (* the status of each row                      *)
    mappings,   (* the rows of model_provider_mappings, by created_at       *)
    fallbacks,  (* the rows of model_fallbacks                              *)
    pc,         (* what the call does next                                  *)
    model, strategy, (* its arguments                                       *)
    queue,      (* the models to find routes for; the first is in work      *)
    todo,       (* the mappings of that model that are still to be tried    *)
    cands,      (* the keys that pickBestKey is still to look at            *)
    best,       (* the best one so far, or None                             *)
    healthy,    (* what IsHealthy said of the next key                      *)
    routes,     (* the routes found so far                                  *)
    i, j, left, (* the places the insertion sort compares, and a latency    *)
    streak,     (* errors of each key since its last success, to Threshold  *)
    sickAll,    (* keys that were not healthy at any time since the pick of *)
    sickEver,   (* a key began, and those that were not at some time        *)
    listed,     (* the keys that pick chooses from                          *)
    quiet,      (* no outcome was reported and no time passed since then,   *)
                (* or since the sort began                                  *)
    found,      (* the routes in the order they were found                  *)
    always,     (* what was active throughout the call                      *)
    ever,       (* what was active at some time during it                   *)
    lost,       (* keys that were deleted during it                         *)
    broken,     (* whether a query of the call failed                       *)
    reports, ticks, writes, faults

catalog == <<providers, models, keys, mappings, fallbacks>>
picking == <<cands, best, healthy>>
sorting == <<i, j, left>>
watch   == <<sickAll, sickEver, listed, quiet>>
span    == <<always, ever, lost>>
args    == <<model, strategy>>
vars == <<health, catalog, pc, args, queue, todo, picking, routes, sorting, streak, watch,
          found, span, broken, reports, ticks, writes, faults>>

Strategy == {"cheapest", "lowest-latency", "round-robin"}
Step == {"idle", "mappings", "provider", "keys", "healthy", "penalty", "decrypt",
             "fallbacks", "order", "left", "right", "done", "failed"}

----------------------------------------------------------------------------
(* KeyHealthTracker.  A key without a record reads as a new one does.  The *)
(* outcomes in a history are told apart by their number; their order is of *)
(* no consequence, since the history is only filtered and added up.        *)

NewHealth == [errors |-> 0, rested |-> Rest, dead |-> FALSE, history |-> {}]

Outcome == [no : Nat, age : 0..Window, ok : BOOLEAN, latency : Latency \cup {0}]

PruneHistory(history) == {o \in history : o.age < Window}

IsHealthy(h) == ~h.dead /\ (h.errors < Threshold \/ h.rested >= Rest)

(* IsHealthy forgets the errors of a key that has rested. *)
AfterIsHealthy(h) ==
    IF ~h.dead /\ h.errors >= Threshold /\ h.rested >= Rest THEN [h EXCEPT !.errors = 0] ELSE h

Recorded(h, ok, latency) ==
    PruneHistory(h.history \cup {[no |-> reports, age |-> 0, ok |-> ok, latency |-> latency]})

(* Mutant: a success does not end a row of errors. *)
AfterSuccessKeepingErrors(h, latency) == [h EXCEPT !.history = Recorded(h, TRUE, latency)]

AfterSuccess(h, latency) ==
    [h EXCEPT !.errors = 0, !.history = Recorded(h, TRUE, latency)]

AfterError(h, permanent) ==
    [errors |-> h.errors + 1, rested |-> 0, dead |-> h.dead \/ permanent,
     history |-> Recorded(h, FALSE, 0)]

(* The uptime as a fraction; no outcome in the window counts as 1.         *)
Uptime(h) ==
    LET recent == PruneHistory(h.history)
    IN  IF recent = {} THEN <<1, 1>>
        ELSE <<Cardinality({o \in recent : o.ok}), Cardinality(recent)>>

(* The penalty grows as the uptime falls below 0.95, and is infinite for a *)
(* key that is stopped for ever: it is kept as the uptime it comes from.   *)
UptimePenalty(h) ==
    LET up == Uptime(h)
    IN  IF h.dead THEN [inf |-> TRUE, up |-> <<0, 1>>]
        ELSE [inf |-> FALSE, up |-> IF 20 * up[1] >= 19 * up[2] THEN <<1, 1>> ELSE up]

LessPenalty(p, q) == ~p.inf /\ (q.inf \/ p.up[1] * q.up[2] > q.up[1] * p.up[2])

AverageLatency(h) ==
    LET measured == {o \in PruneHistory(h.history) : o.ok /\ o.latency > 0}
    IN  IF measured = {} THEN 0
        ELSE MapThenSumSet(LAMBDA o : o.latency, measured) \div Cardinality(measured)

Aged(history) == {[o EXCEPT !.age = IF @ < Window THEN @ + 1 ELSE @] : o \in history}

Older(h) == [h EXCEPT !.rested = IF @ < Rest THEN @ + 1 ELSE @, !.history = Aged(h.history)]

(* What a reader of the history leaves behind. *)
Pruned(k) == [health EXCEPT ![k].history = PruneHistory(@)]

----------------------------------------------------------------------------
(* The catalog's queries.                                                  *)

ActiveMappings(m) == {row \in ToSet(mappings) : row.model = m /\ row.status = "active"}

(* Mutant: keys that were put out of use are still listed. *)
ActiveKeysAny(p) == {k \in Key : Owner[k] = p /\ keys[k] # "deleted"}

ActiveKeys(p) == {k \in Key : Owner[k] = p /\ keys[k] = "active"}

(* Ordered by priority; rows of the same priority come in any order.  No   *)
(* operation disables a fallback.                                          *)
FallbacksOf(m) ==
    LET rows == {f \in fallbacks : f.model = m}
    IN  {s \in Bijection(1..Cardinality(rows), rows) :
            \A a, b \in DOMAIN s : a < b => s[a].priority <= s[b].priority}

----------------------------------------------------------------------------
(* What is observed beside the program, for the properties.                *)

(* A row that is there. *)
Exists(status) == status \in {"active", "inactive"}

Room == reports + ticks + writes + faults < MaxEvents

Idle == pc \in {"idle", "done", "failed"}

Sick(h) == h.dead \/ (h.errors >= Threshold /\ h.rested < Rest)

InForce == {<<"provider", p>> : p \in {q \in Provider : providers[q] = "active"}}
           \cup {<<"key", k>> : k \in {l \in Key : keys[l] = "active"}}
           \cup {<<"mapping", row.id>> :
                    row \in {r \in ToSet(mappings) : r.status = "active"}}
           \cup {<<"fallback", <<f.model, f.to>>>> : f \in fallbacks}

(* An edit of the catalog during the call. *)
NoteEdit ==
    IF Idle THEN UNCHANGED span
    ELSE /\ always' = always \cap InForce'
         /\ ever' = ever \cup InForce'
         /\ lost' = lost \cup {k \in Key : keys'[k] = "deleted"}

(* A change of the tracker; a pick of a key is watched until it ends.      *)
NoteHealth ==
    LET sick == {k \in Key : Sick(health'[k])}
        on   == pc \in {"healthy", "penalty"}
    IN  /\ sickAll' = IF on THEN sickAll \cap sick ELSE sickAll
        /\ sickEver' = IF on THEN sickEver \cup sick ELSE sickEver
        /\ quiet' = (quiet /\ pc \notin {"healthy", "penalty", "decrypt", "left", "right"})
        /\ UNCHANGED listed

Unwatch == sickAll' = {} /\ sickEver' = {} /\ listed' = {} /\ quiet' = TRUE

----------------------------------------------------------------------------
(* Other requests and time.                                                *)

CallUnchanged == UNCHANGED <<pc, args, queue, todo, picking, routes, sorting, found, broken>>

ReportSuccess(k, latency) ==
    /\ Room /\ reports < MaxReports /\ reports' = reports + 1 /\ Exists(keys[k])
    /\ health' = [health EXCEPT ![k] = AfterSuccess(health[k], latency)]
    /\ streak' = [streak EXCEPT ![k] = 0]
    /\ NoteHealth
    /\ CallUnchanged /\ UNCHANGED <<catalog, span, ticks, writes, faults>>

(* 401 and 403 are permanent. *)
ReportError(k, permanent) ==
    /\ Room /\ reports < MaxReports /\ reports' = reports + 1 /\ Exists(keys[k])
    /\ health' = [health EXCEPT ![k] = AfterError(health[k], permanent)]
    /\ streak' = [streak EXCEPT ![k] = IF @ < Threshold THEN @ + 1 ELSE @]
    /\ NoteHealth
    /\ CallUnchanged /\ UNCHANGED <<catalog, span, ticks, writes, faults>>

(* Another call looks at a key that has rested. *)
Consult(k) ==
    /\ AfterIsHealthy(health[k]) # health[k]
    /\ health' = [health EXCEPT ![k] = AfterIsHealthy(health[k])]
    /\ CallUnchanged
    /\ UNCHANGED <<catalog, streak, watch, span, reports, ticks, writes, faults>>

Tick ==
    /\ Room /\ ticks < MaxTicks /\ ticks' = ticks + 1
    /\ health' = [k \in Key |-> Older(health[k])]
    /\ NoteHealth
    /\ CallUnchanged /\ UNCHANGED <<catalog, streak, span, reports, writes, faults>>

----------------------------------------------------------------------------
(* Administrators.  An update to what is there already is left out.        *)

Edit == /\ writes' = writes + 1
        /\ NoteEdit
        /\ CallUnchanged /\ UNCHANGED <<health, streak, watch, reports, ticks, faults>>

(* ON DELETE CASCADE: the mappings of a deleted model or provider. *)
Cascade(gone) ==
    [n \in DOMAIN mappings |->
        IF n \in gone THEN [mappings[n] EXCEPT !.status = "deleted"] ELSE mappings[n]]

CreateProvider(p) ==
    /\ providers[p] = "unborn"
    /\ providers' = [providers EXCEPT ![p] = "active"]
    /\ UNCHANGED <<models, keys, mappings, fallbacks>> /\ Edit

UpdateProvider(p, status) ==
    /\ Exists(providers[p]) /\ status # providers[p]
    /\ providers' = [providers EXCEPT ![p] = status]
    /\ UNCHANGED <<models, keys, mappings, fallbacks>> /\ Edit

DeleteProvider(p) ==
    /\ Exists(providers[p])
    /\ providers' = [providers EXCEPT ![p] = "deleted"]
    /\ keys' = [k \in Key |-> IF Owner[k] = p /\ keys[k] # "unborn" THEN "deleted" ELSE keys[k]]
    /\ mappings' = Cascade({n \in DOMAIN mappings : mappings[n].provider = p})
    /\ UNCHANGED <<models, fallbacks>> /\ Edit

CreateModel(m) ==
    /\ models[m] = "unborn"
    /\ models' = [models EXCEPT ![m] = "active"]
    /\ UNCHANGED <<providers, keys, mappings, fallbacks>> /\ Edit

UpdateModel(m, status) ==
    /\ Exists(models[m]) /\ status # models[m]
    /\ models' = [models EXCEPT ![m] = status]
    /\ UNCHANGED <<providers, keys, mappings, fallbacks>> /\ Edit

DeleteModel(m) ==
    /\ Exists(models[m])
    /\ models' = [models EXCEPT ![m] = "deleted"]
    /\ mappings' = Cascade({n \in DOMAIN mappings : mappings[n].model = m})
    /\ fallbacks' = {f \in fallbacks : m \notin {f.model, f.to}}
    /\ UNCHANGED <<providers, keys>> /\ Edit

(* The foreign keys refuse a mapping of what is not there. *)
CreateMapping(m, p, price) ==
    /\ Exists(models[m]) /\ Exists(providers[p])
    /\ mappings' = Append(mappings, [id |-> Len(mappings) + 1, model |-> m, provider |-> p,
                                     price |-> price, status |-> "active"])
    /\ UNCHANGED <<providers, models, keys, fallbacks>> /\ Edit

(* COALESCE: a price may be changed, never removed. *)
UpdateMapping(n, price, status) ==
    /\ Exists(mappings[n].status)
    /\ mappings' = [mappings EXCEPT ![n].price = price, ![n].status = status]
    /\ UNCHANGED <<providers, models, keys, fallbacks>> /\ Edit

DeleteMapping(n) ==
    /\ Exists(mappings[n].status)
    /\ mappings' = [mappings EXCEPT ![n].status = "deleted"]
    /\ UNCHANGED <<providers, models, keys, fallbacks>> /\ Edit

(* Refused for a model's own fallback, for a second row of the same two    *)
(* models, and for what is not there.                                      *)
CreateFallback(m, to, priority) ==
    /\ m # to /\ Exists(models[m]) /\ Exists(models[to])
    /\ \A f \in fallbacks : f.model # m \/ f.to # to
    /\ fallbacks' = fallbacks \cup {[model |-> m, to |-> to, priority |-> priority]}
    /\ UNCHANGED <<providers, models, keys, mappings>> /\ Edit

DeleteFallback(f) ==
    /\ fallbacks' = fallbacks \ {f}
    /\ UNCHANGED <<providers, models, keys, mappings>> /\ Edit

CreateKey(k) ==
    /\ keys[k] = "unborn" /\ Exists(providers[Owner[k]])
    /\ keys' = [keys EXCEPT ![k] = "active"]
    /\ UNCHANGED <<providers, models, mappings, fallbacks>> /\ Edit

UpdateKey(k, status) ==
    /\ Exists(keys[k]) /\ status # keys[k]
    /\ keys' = [keys EXCEPT ![k] = status]
    /\ UNCHANGED <<providers, models, mappings, fallbacks>> /\ Edit

DeleteKey(k) ==
    /\ Exists(keys[k])
    /\ keys' = [keys EXCEPT ![k] = "deleted"]
    /\ UNCHANGED <<providers, models, mappings, fallbacks>> /\ Edit

----------------------------------------------------------------------------
(* ResolveAll.                                                             *)

Fails == Room /\ faults < MaxFaults /\ faults' = faults + 1 /\ broken' = TRUE
Works == UNCHANGED <<faults, broken>>

World == <<catalog, streak, reports, ticks, writes>>

(* FindModelByName. *)
Start(m) ==
    /\ pc = "idle"
    /\ model' = m
    /\ queue' = <<[model |-> m, fallback |-> FALSE]>>
    /\ always' = InForce /\ ever' = InForce /\ UNCHANGED lost
    /\ \/ Works /\ pc' = IF models[m] = "active" THEN "mappings" ELSE "failed"
       \/ Fails /\ pc' = "failed"
    /\ UNCHANGED <<World, health, strategy, todo, picking, routes, sorting, watch, found>>

Current == Head(queue)

(* What follows the mappings of the first model of the queue. *)
AfterModel(rest) ==
    IF ~Current.fallback THEN "fallbacks" ELSE IF rest = <<>> THEN "order" ELSE "mappings"

(* routesForModel lists the mappings; its failure is the call's failure    *)
(* for the model asked for, and skips a fallback.                          *)
ListMappings ==
    /\ pc = "mappings"
    /\ \/ /\ Works
          /\ todo' = ActiveMappings(Current.model)
          /\ IF todo' = {} THEN queue' = Tail(queue) /\ pc' = AfterModel(Tail(queue))
             ELSE UNCHANGED queue /\ pc' = "provider"
       \/ /\ Fails /\ UNCHANGED todo
          /\ IF Current.fallback THEN queue' = Tail(queue) /\ pc' = AfterModel(Tail(queue))
             ELSE UNCHANGED queue /\ pc' = "failed"
    /\ UNCHANGED <<World, health, args, picking, routes, sorting, watch, found, span>>

(* The mapping in work: they are ordered by created_at. *)
Mapping == CHOOSE row \in todo : \A other \in todo : row.id <= other.id

(* The next mapping, or what follows the last one. *)
NextMapping ==
    /\ todo' = todo \ {Mapping}
    /\ IF todo' = {} THEN queue' = Tail(queue) /\ pc' = AfterModel(Tail(queue))
       ELSE UNCHANGED queue /\ pc' = "provider"

FindProvider ==
    /\ pc = "provider"
    /\ \/ /\ Works
          /\ IF providers[Mapping.provider] = "active"
             THEN pc' = "keys" /\ UNCHANGED <<todo, queue>>
             ELSE NextMapping
       \/ Fails /\ NextMapping
    /\ UNCHANGED <<World, health, args, picking, routes, sorting, watch, found, span>>

ListKeys ==
    /\ pc = "keys"
    /\ \/ /\ Works
          /\ cands' = ActiveKeys(Mapping.provider)
          /\ IF cands' = {} THEN NextMapping /\ UNCHANGED watch
             ELSE /\ pc' = "healthy" /\ UNCHANGED <<todo, queue>>
                  /\ listed' = cands' /\ quiet' = TRUE
                  /\ sickAll' = {k \in Key : Sick(health[k])} /\ sickEver' = sickAll'
       \/ Fails /\ NextMapping /\ UNCHANGED <<cands, watch>>
    /\ UNCHANGED <<World, health, args, best, healthy, routes, sorting, found, span>>

(* The key in work. *)
NextKey == CHOOSE k \in cands : \A l \in cands : Place[k] <= Place[l]

(* pickBestKey asks twice about each key, each time under the key's lock.  *)
PickHealthy ==
    /\ pc = "healthy" /\ pc' = "penalty"
    /\ healthy' = IsHealthy(health[NextKey])
    /\ health' = [health EXCEPT ![NextKey] = AfterIsHealthy(@)]
    /\ UNCHANGED <<World, args, queue, todo, cands, best, routes, sorting, watch, found, span,
                   broken, faults>>

(* Mutant: the penalty alone decides. *)
BetterByPenalty(isHealthy, penalty) == best = None \/ LessPenalty(penalty, best.penalty)

Better(isHealthy, penalty) ==
    \/ best = None
    \/ isHealthy /\ ~best.healthy
    \/ isHealthy = best.healthy /\ LessPenalty(penalty, best.penalty)

PickPenalty ==
    /\ pc = "penalty"
    /\ LET penalty == UptimePenalty(health[NextKey])
       IN  best' = IF Better(healthy, penalty)
                   THEN [key |-> NextKey, penalty |-> penalty, healthy |-> healthy] ELSE best
    /\ health' = Pruned(NextKey)
    /\ cands' = cands \ {NextKey} /\ healthy' = FALSE
    /\ pc' = IF cands' = {} THEN "decrypt" ELSE "healthy"
    /\ UNCHANGED <<World, args, queue, todo, routes, sorting, watch, found, span,
                   broken, faults>>

(* DecryptToken reads the key once more; then the route is complete.       *)
DecryptToken ==
    /\ pc = "decrypt"
    /\ \/ /\ Works
          /\ routes' = IF keys[best.key] = "deleted" THEN routes
                       ELSE Append(routes,
                                [mapping |-> Mapping.id, model |-> Mapping.model,
                                 provider |-> Mapping.provider, key |-> best.key,
                                 price |-> Mapping.price, fallback |-> Current.fallback])
       \/ Fails /\ UNCHANGED routes
    /\ NextMapping /\ best' = None /\ Unwatch
    /\ UNCHANGED <<World, health, args, cands, healthy, sorting, found, span>>

(* The models that stand in, without those that stand in for them; a       *)
(* failed query leaves the call without them.                              *)
ListFallbacks ==
    /\ pc = "fallbacks"
    /\ \/ /\ Works
          /\ \E s \in FallbacksOf(model) :
                queue' = [n \in DOMAIN s |-> [model |-> s[n].to, fallback |-> TRUE]]
       \/ Fails /\ queue' = <<>>
    /\ pc' = IF queue' = <<>> THEN "order" ELSE "mappings"
    /\ UNCHANGED <<World, health, args, todo, picking, routes, sorting, watch, found, span>>

----------------------------------------------------------------------------
(* ApplyStrategy, which is the first to look at the strategy.              *)
(* A route without a price, or without a latency, comes last.              *)

Less(a, b) == a # None /\ (b = None \/ a < b)
LessLatency(a, b) == a # 0 /\ (b = 0 \/ a < b)

(* Mutant: routes of the same price come in any order. *)
ByCostOnly(p) ==
    \A a, b \in DOMAIN p : Less(routes[p[a]].price, routes[p[b]].price) => a < b

(* sort.SliceStable with constant prices: the route in place a is the one  *)
(* that was in place p[a].                                                 *)
ByCost(p) ==
    \A a, b \in DOMAIN p : a < b =>
        \/ Less(routes[p[a]].price, routes[p[b]].price)
        \/ ~Less(routes[p[b]].price, routes[p[a]].price) /\ p[a] < p[b]

Orders(s) == {p \in Bijection(DOMAIN routes, DOMAIN routes) : s = "cheapest" => ByCost(p)}

ApplyStrategy ==
    /\ pc = "order"
    /\ found' = routes
    /\ strategy' \in Strategy
    /\ \/ /\ strategy' = "lowest-latency" /\ Len(routes) > 1
          /\ pc' = "left" /\ i' = 2 /\ j' = 2 /\ UNCHANGED <<routes, left>>
       \/ /\ strategy' # "lowest-latency" \/ Len(routes) <= 1
          /\ pc' = "done" /\ UNCHANGED sorting
          /\ \E p \in Orders(strategy') : routes' = [n \in DOMAIN routes |-> routes[p[n]]]
    /\ UNCHANGED <<World, health, model, queue, todo, picking, watch, span, broken, faults>>

(* sort.SliceStable sorts fewer than 20 routes by insertion; latencies may *)
(* change meanwhile, and each comparison reads the tracker twice.          *)
ReadLeft ==
    /\ pc = "left" /\ pc' = "right"
    /\ left' = AverageLatency(health[routes[j].key])
    /\ health' = Pruned(routes[j].key)
    /\ UNCHANGED <<World, args, queue, todo, picking, routes, i, j, watch, found, span,
                   broken, faults>>

CompareRight ==
    /\ pc = "right"
    /\ LET key  == routes[j - 1].key
           less == LessLatency(left, AverageLatency(health[key]))
       IN  /\ health' = Pruned(key)
           /\ routes' = IF less THEN [routes EXCEPT ![j] = routes[j - 1], ![j - 1] = routes[j]]
                        ELSE routes
           /\ left' = 0
           /\ IF less /\ j > 2 THEN j' = j - 1 /\ UNCHANGED i /\ pc' = "left"
              ELSE /\ i' = i + 1 /\ j' = i + 1
                   /\ pc' = IF i < Len(routes) THEN "left" ELSE "done"
    /\ UNCHANGED <<World, args, queue, todo, picking, watch, found, span, broken, faults>>

----------------------------------------------------------------------------
Init ==
    /\ health = [k \in Key |-> NewHealth]
    /\ providers = [p \in Provider |-> IF p \in Spare THEN "unborn" ELSE "active"]
    /\ models = [m \in Model |-> IF m \in Spare THEN "unborn" ELSE "active"]
    /\ keys = [k \in Key |-> IF k \in Spare THEN "unborn" ELSE "active"]
    /\ mappings = InitMappings /\ fallbacks = InitFallbacks
    /\ pc = "idle" /\ model = None /\ strategy = "cheapest"
    /\ queue = <<>> /\ todo = {} /\ cands = {} /\ best = None /\ healthy = FALSE
    /\ routes = <<>> /\ found = <<>> /\ i = 0 /\ j = 0 /\ left = 0
    /\ streak = [k \in Key |-> 0]
    /\ sickAll = {} /\ sickEver = {} /\ listed = {} /\ quiet = TRUE
    /\ always = {} /\ ever = {} /\ lost = {} /\ broken = FALSE
    /\ reports = 0 /\ ticks = 0 /\ writes = 0 /\ faults = 0

Tracker == \/ \E k \in Key : \/ \E latency \in Latency : ReportSuccess(k, latency)
                             \/ \E permanent \in BOOLEAN : ReportError(k, permanent)
                             \/ Consult(k)
           \/ Tick

Administration ==
    /\ Room /\ writes < MaxWrites
    /\ \/ \E p \in Provider : \/ CreateProvider(p) \/ DeleteProvider(p)
                              \/ \E s \in {"active", "inactive"} : UpdateProvider(p, s)
       \/ \E m \in Model : \/ CreateModel(m) \/ DeleteModel(m)
                           \/ \E s \in {"active", "inactive"} : UpdateModel(m, s)
       \/ \E m \in Model, p \in Provider, price \in Price \cup {None} : CreateMapping(m, p, price)
       \/ \E n \in DOMAIN mappings :
              \/ DeleteMapping(n)
              \/ \E price \in Price \cup {mappings[n].price}, s \in {"active", "inactive"} :
                     UpdateMapping(n, price, s)
       \/ \E m \in Model, to \in Model, priority \in {0, 1} : CreateFallback(m, to, priority)
       \/ \E f \in fallbacks : DeleteFallback(f)
       \/ \E k \in Key : \/ CreateKey(k) \/ DeleteKey(k)
                         \/ \E s \in {"active", "inactive"} : UpdateKey(k, s)

Resolve == \/ \E m \in Model : Start(m)
           \/ ListMappings \/ FindProvider \/ ListKeys \/ PickHealthy \/ PickPenalty
           \/ DecryptToken \/ ListFallbacks \/ ApplyStrategy \/ ReadLeft \/ CompareRight

(* Bound: nothing is followed after the call has returned. *)
Next == pc \notin {"done", "failed"} /\ (Tracker \/ Administration \/ Resolve)

Spec == Init /\ [][Next]_vars

----------------------------------------------------------------------------
(* The types of the variables.                                             *)
RouteType == [mapping : Nat, model : Model, provider : Provider, key : Key,
              price : Price \cup {None}, fallback : BOOLEAN]

HealthType == [errors : Nat, rested : 0..Rest, dead : BOOLEAN, history : SUBSET Outcome]

TypeOK ==
    /\ health \in [Key -> HealthType] /\ \A k \in Key : IsFiniteSet(health[k].history)
    /\ providers \in [Provider -> Status] /\ models \in [Model -> Status]
    /\ keys \in [Key -> Status]
    /\ mappings \in Seq(RowType) /\ \A n \in DOMAIN mappings : mappings[n].id = n
    /\ fallbacks \subseteq FallbackType /\ IsFiniteSet(fallbacks)
    /\ pc \in Step /\ (pc # "idle" => model \in Model) /\ strategy \in Strategy
    /\ queue \in Seq([model : Model, fallback : BOOLEAN])
    /\ pc \in {"mappings", "provider", "keys", "healthy", "penalty", "decrypt"} => queue # <<>>
    /\ todo \subseteq RowType
    /\ pc \in {"provider", "keys", "healthy", "penalty", "decrypt"} => todo # {}
    /\ cands \subseteq Key /\ (pc \in {"healthy", "penalty"} => cands # {})
    /\ best \in Candidate \cup {None} /\ (pc = "decrypt" => best # None)
    /\ healthy \in BOOLEAN /\ quiet \in BOOLEAN /\ broken \in BOOLEAN
    /\ routes \in Seq(RouteType) /\ found \in Seq(RouteType)
    /\ pc \in {"left", "right"} => i \in 2..Len(routes) /\ j \in 2..i
    /\ streak \in [Key -> 0..Threshold]
    /\ {reports, ticks, writes, faults} \subseteq Nat

(* The tracker is a circuit breaker for each key (keyhealth.go:76-130),    *)
(* whatever order the reports of concurrent requests come in and whoever   *)
(* looks at a key that has rested.                                         *)
KeyStatus(h) == IF h.dead THEN "dead" ELSE IF Sick(h) THEN "resting" ELSE "closed"

Breaker == INSTANCE CircuitBreaker WITH status <- [k \in Key |-> KeyStatus(health[k])],
                                        cool <- [k \in Key |-> health[k].rested]

ImplementsBreaker == Breaker!Spec

(* A key that was out of use all through a pick is picked only when every  *)
(* other listed key was out of use at some moment of it; when nothing      *)
(* changed meanwhile, no listed key in use is better than the picked one   *)
(* (router.go:157-178: two reads for each key, none of them together).     *)
Quality(k) == IF 20 * Uptime(health[k])[1] >= 19 * Uptime(health[k])[2] THEN <<1, 1>>
              ELSE Uptime(health[k])

BetterKey(k, l) ==
    \/ Sick(health[l]) /\ ~Sick(health[k])
    \/ /\ ~Sick(health[k]) /\ Quality(k)[1] * Quality(l)[2] > Quality(l)[1] * Quality(k)[2]

BestKeyJustified ==
    /\ TypeOK
    /\ pc = "decrypt" =>
        /\ best.key \in listed
        /\ best.key \in sickAll => listed \subseteq sickEver
        /\ quiet => \A k \in listed : ~BetterKey(k, best.key)

(* The routes are those of the catalog: all that a route rests on was      *)
(* active at some moment of the call; a mapping that was active throughout *)
(* with its provider and a key, of the model or of an active fallback, has *)
(* a route, unless a query failed or a key of the provider was deleted     *)
(* during the call; no mapping has two (router.go:57-155).                 *)
RouteRests(r) ==
    /\ {<<"mapping", r.mapping>>, <<"provider", r.provider>>, <<"key", r.key>>} \subseteq ever
    /\ IF r.fallback THEN <<"fallback", <<model, r.model>>>> \in ever ELSE r.model = model
    /\ r.provider = Owner[r.key]

MustBeRouted(row) ==
    /\ {<<"mapping", row.id>>, <<"provider", row.provider>>} \subseteq always
    /\ row.model = model \/ <<"fallback", <<model, row.model>>>> \in always
    /\ \E k \in Key : Owner[k] = row.provider /\ <<"key", k>> \in always
    /\ \A k \in lost : Owner[k] # row.provider

RoutesJustified ==
    pc = "done" =>
        /\ \A r \in ToSet(routes) : RouteRests(r)
        /\ ~broken => \A row \in ToSet(mappings) :
                          MustBeRouted(row) => \E r \in ToSet(routes) : r.mapping = row.id
        /\ \A a, b \in DOMAIN routes : routes[a].mapping = routes[b].mapping => a = b

(* Sorting loses no route and invents none, although other requests change *)
(* the latencies that are compared (strategy.go:58-69); routes are in the  *)
(* order of price, those of one price in the order they were found, or,    *)
(* when no report came during the sort, in the order of latency.           *)
PlaceFound(r) == CHOOSE n \in DOMAIN found : found[n] = r

Unknown(x) == x = None

InOrder(value(_)) ==
    \A a, b \in DOMAIN routes : a < b =>
        \/ Unknown(value(routes[b])) /\ ~Unknown(value(routes[a]))
        \/ Unknown(value(routes[b])) /\ PlaceFound(routes[a]) < PlaceFound(routes[b])
        \/ /\ ~Unknown(value(routes[a])) /\ ~Unknown(value(routes[b]))
           /\ \/ value(routes[a]) < value(routes[b])
              \/ /\ value(routes[a]) = value(routes[b])
                 /\ PlaceFound(routes[a]) < PlaceFound(routes[b])

PriceOf(r) == r.price
MeasuredOf(r) == LET latency == AverageLatency(health[r.key])
                 IN  IF latency = 0 THEN None ELSE latency

OrderKept ==
    pc = "done" =>
        /\ ToSet(routes) = ToSet(found) /\ Len(routes) = Len(found)
        /\ strategy = "cheapest" => InOrder(PriceOf)
        /\ strategy = "lowest-latency" /\ quiet => InOrder(MeasuredOf)
=============================================================================
