--------------------------- MODULE ResponseCache ---------------------------
(***************************************************************************)
(* The cache of responses in Redis, with the requests of gatewayhttp that  *)
(* read and fill it and the administrators that invalidate it.  The three  *)
(* endpoints share one key space.                                          *)
(*                                                                         *)
(* One action is one command of Redis or one call of a provider.  Time     *)
(* passes in ticks: storing an answer takes less than two of them, the     *)
(* provider any number.                                                    *)
(***************************************************************************)
EXTENDS Naturals

CONSTANTS Subject,  (* the subjects of requests                             *)
          Content,  (* what the key hashes of a request: model, messages,   *)
                    (* and the settings cachePayload has a field for        *)
          Asker,    (* requests in flight                                   *)
          Cleaner,  (* invalidations in flight                              *)
          CacheTTL  (* CACHE_TTL_SECONDS, in ticks, above 0                 *)

VARIABLES
    stored,  (* the entries in Redis, by key                                *)
    at,      (* where each request is                                       *)
    ask,     (* what it asks                                                *)
    got,     (* the answer it got, from the cache or the provider           *)
    slow,    (* the requests that saw a tick since their provider answered  *)
    clean,   (* where each invalidation is                                  *)
    scope,   (* the keys its pattern matches                                *)
    page,    (* those the last SCAN returned                                *)
    more     (* the invalidations whose cursor is not back at 0             *)

requests == <<at, ask, got, slow>>
cleaners == <<clean, scope, page, more>>
vars     == <<stored, requests, cleaners>>

(* GenerateKey: requests that differ in the subject or in what is hashed   *)
(* differ in the key.                                                      *)
Ask == [subject : Subject, content : Content]
Key == Subject \X Content
GenerateKey(a) == <<a.subject, a.content>>

(* An answer: the request it was made for, and its age.  An entry has a    *)
(* TTL besides, the invalidations that are under way and found it there,   *)
(* and whether one of them has ended since.                                *)
Answer == [to : Ask, age : Nat, outlived : BOOLEAN]
Entry  == [to : Ask, age : Nat, outlived : BOOLEAN,
           left : 1..CacheTTL, doomed : SUBSET Cleaner]

AnyAsk  == CHOOSE a \in Ask : TRUE
Nothing == [to |-> AnyAsk, age |-> 0, outlived |-> FALSE]

TypeOK ==
    /\ DOMAIN stored \subseteq Key /\ \A k \in DOMAIN stored : stored[k] \in Entry
    /\ at \in [Asker -> {"idle", "upstream", "set", "hit"}]
    /\ ask \in [Asker -> Ask] /\ got \in [Asker -> Answer] /\ slow \subseteq Asker
    /\ clean \in [Cleaner -> {"idle", "scan", "del"}]
    /\ scope \in [Cleaner -> SUBSET Key] /\ page \in [Cleaner -> SUBSET Key]
    /\ more \subseteq Cleaner

Init ==
    /\ stored = [k \in {} |-> Nothing]
    /\ at = [r \in Asker |-> "idle"]
    /\ ask = [r \in Asker |-> AnyAsk]
    /\ got = [r \in Asker |-> Nothing]
    /\ slow = {}
    /\ clean = [c \in Cleaner |-> "idle"]
    /\ scope = [c \in Cleaner |-> {}]
    /\ page = [c \in Cleaner |-> {}]
    /\ more = {}

Present == DOMAIN stored

Goto(r, p) == at' = [at EXCEPT ![r] = p]

----------------------------------------------------------------------------
(* Requests that do not stream *)

(* Get: a hit ends the request without a route; an error, or an entry that *)
(* cannot be decoded, is a miss.                                           *)
Get(r) ==
    /\ at[r] = "idle"
    /\ \E a \in Ask :
        /\ ask' = [ask EXCEPT ![r] = a]
        /\ \/ /\ GenerateKey(a) \in Present
              /\ LET e == stored[GenerateKey(a)]
                 IN got' = [got EXCEPT ![r] = [to |-> e.to, age |-> e.age,
                                               outlived |-> e.outlived]]
              /\ Goto(r, "hit")
           \/ /\ Goto(r, "upstream")
              /\ UNCHANGED got
    /\ UNCHANGED <<stored, slow, cleaners>>

(* An attempt succeeds, at last or after a refreshed token.                *)
Answered(r) ==
    /\ at[r] = "upstream"
    /\ got' = [got EXCEPT ![r] = [to |-> ask[r], age |-> 0, outlived |-> FALSE]]
    /\ Goto(r, "set")
    /\ UNCHANGED <<stored, ask, slow, cleaners>>

Leaves(r) ==
    /\ Goto(r, "idle")
    /\ ask' = [ask EXCEPT ![r] = AnyAsk]
    /\ got' = [got EXCEPT ![r] = Nothing]
    /\ slow' = slow \ {r}

(* Every attempt fails, or there is no route. *)
GivesUp(r) ==
    /\ at[r] = "upstream"
    /\ Leaves(r)
    /\ UNCHANGED <<stored, cleaners>>

(* Set, whatever became of the entry meanwhile; its error is ignored, and  *)
(* the answer is sent.                                                     *)
Set(r) ==
    /\ at[r] = "set"
    /\ \/ stored' = [k \in Present \cup {GenerateKey(ask[r])} |->
                        IF k # GenerateKey(ask[r]) THEN stored[k]
                        ELSE [to |-> got[r].to, age |-> got[r].age, outlived |-> FALSE,
                              left |-> CacheTTL, doomed |-> {}]]
       \/ UNCHANGED stored
    /\ Leaves(r)
    /\ UNCHANGED cleaners

SendCached(r) ==
    /\ at[r] = "hit"
    /\ Leaves(r)
    /\ UNCHANGED <<stored, cleaners>>

----------------------------------------------------------------------------
(* InvalidateCache: deleteByPattern for a subject, or for all *)

Invalidate(c) ==
    /\ clean[c] = "idle"
    /\ \E subjects \in {{s} : s \in Subject} \cup {Subject} :
        LET ks == subjects \X Content
        IN /\ scope' = [scope EXCEPT ![c] = ks]
           /\ stored' = [k \in Present |->
                            IF k \in ks THEN [stored[k] EXCEPT !.doomed = @ \cup {c}]
                            ELSE stored[k]]
    /\ clean' = [clean EXCEPT ![c] = "scan"]
    /\ UNCHANGED <<requests, page, more>>

(* An invalidation returns, and these keys are left.  If it was complete,  *)
(* what it found and did not delete has outlived it.                       *)
Returns(c, keys, complete) ==
    /\ clean' = [clean EXCEPT ![c] = "idle"]
    /\ scope' = [scope EXCEPT ![c] = {}]
    /\ page' = [page EXCEPT ![c] = {}]
    /\ more' = more \ {c}
    /\ stored' = [k \in keys |->
                     [stored[k] EXCEPT !.doomed = @ \ {c},
                                       !.outlived = @ \/ (complete /\ c \in stored[k].doomed)]]

(* Mutant: the first page is taken for the last. *)
ScanOnce(c) ==
    /\ clean[c] = "scan"
    /\ \/ /\ \E keys \in SUBSET (scope[c] \cap Present) : page' = [page EXCEPT ![c] = keys]
          /\ clean' = [clean EXCEPT ![c] = "del"]
          /\ UNCHANGED <<stored, scope, more>>
       \/ Returns(c, Present, FALSE)
    /\ UNCHANGED requests

(* SCAN: a page of the matching keys.  When the cursor is back at 0, Redis *)
(* has returned every key that was there all the time, and perhaps some    *)
(* that came later.  An error ends the invalidation half done.             *)
Scan(c) ==
    /\ clean[c] = "scan"
    /\ \/ \E keys \in SUBSET (scope[c] \cap Present) :
            /\ page' = [page EXCEPT ![c] = keys]
            /\ \/ more' = more \cup {c}
               \/ /\ \A k \in Present : c \in stored[k].doomed => k \in keys
                  /\ more' = more \ {c}
            /\ clean' = [clean EXCEPT ![c] = "del"]
            /\ UNCHANGED <<stored, scope>>
       \/ Returns(c, Present, FALSE)
    /\ UNCHANGED requests

(* DEL of the page, whose keys may have been stored anew: the next page,   *)
(* or the end.                                                             *)
Delete(c) ==
    /\ clean[c] = "del"
    /\ \/ /\ c \in more
          /\ stored' = [k \in Present \ page[c] |-> stored[k]]
          /\ clean' = [clean EXCEPT ![c] = "scan"]
          /\ page' = [page EXCEPT ![c] = {}]
          /\ UNCHANGED <<scope, more>>
       \/ c \notin more /\ Returns(c, Present \ page[c], TRUE)
       \/ page[c] # {} /\ Returns(c, Present, FALSE)
    /\ UNCHANGED requests

----------------------------------------------------------------------------

(* Time passes; Redis drops the entries whose TTL is over. *)
Tick ==
    /\ slow = {}
    /\ slow' = {r \in Asker : at[r] = "set"}
    /\ stored' = [k \in {x \in Present : stored[x].left > 1} |->
                     [stored[k] EXCEPT !.left = @ - 1, !.age = @ + 1]]
    /\ got' = [r \in Asker |-> IF at[r] = "set" THEN [got[r] EXCEPT !.age = @ + 1] ELSE got[r]]
    /\ UNCHANGED <<at, ask, cleaners>>

Next ==
    \/ \E r \in Asker : Get(r) \/ Answered(r) \/ GivesUp(r) \/ Set(r) \/ SendCached(r)
    \/ \E c \in Cleaner : Invalidate(c) \/ Scan(c) \/ Delete(c)
    \/ Tick

Spec == Init /\ [][Next]_vars

----------------------------------------------------------------------------
(* Properties *)

(* A cached answer was made for the same subject and the same hashed       *)
(* content, at most the TTL ago.  No invalidation of its subject, or of    *)
(* all, that completed before Get ran had found it in Redis: an answer of  *)
(* before it is served after it only if its request was in flight and      *)
(* stored it meanwhile (cache.go:141-163).                                 *)
AnswersJustified ==
    /\ TypeOK
    /\ \A r \in Asker : at[r] = "hit" =>
        /\ got[r].to = ask[r]
        /\ got[r].age <= CacheTTL
        /\ ~got[r].outlived
=============================================================================
