------------------------------- MODULE Caches -------------------------------
(***************************************************************************)
(* The three caches a request passes on its way through one process: that  *)
(* of machine tokens (TokenCache), that of configurations (ConfigCache)    *)
(* and that of responses (ResponseCache).  They have no state in common,   *)
(* so a behaviour of one is independent of the others' and each is run by  *)
(* itself: the others stay as they were.                                   *)
(***************************************************************************)
EXTENDS ConfigCache

CONSTANTS Secret, Token, Call, Life, Margin, Nobody,  (* of TokenCache      *)
          Client, Content, Asker, Cleaner, CacheTTL   (* of ResponseCache   *)

(* A validation sees one tick at most, and a token that is sent must       *)
(* outlive it: tokenCacheMargin is two ticks at least (three, in the code) *)
(* and no token lives shorter.                                             *)
ASSUME CachesAssumption ==
    /\ Nobody \notin Secret /\ Nobody \notin Token
    /\ Margin \in Nat /\ Margin >= 2
    /\ Life \subseteq Nat /\ \A n \in Life : n >= 2
    /\ Client # {} /\ Content # {}
    /\ CacheTTL \in Nat \ {0}

VARIABLES
    part,                                                (* the one that runs *)
    active, issued, entries,                             (* of TokenCache     *)
    phase, secret, token, span, aged, doomed, excused,
    stored, at, ask, got, slow, clean, scope, page, more (* of ResponseCache  *)

Tokens    == INSTANCE TokenCache
Responses == INSTANCE ResponseCache WITH Subject <- Client

tokenVars    == <<active, issued, entries, phase, secret, token, span, aged, doomed, excused>>
responseVars == <<stored, at, ask, got, slow, clean, scope, page, more>>
allVars      == <<vars, part, tokenVars, responseVars>>

CachesInit ==
    /\ part \in {"tokens", "configurations", "responses"}
    /\ Init /\ Tokens!Init /\ Responses!Init

CachesNext ==
    /\ UNCHANGED part
    /\ \/ part = "tokens" /\ Tokens!Next /\ UNCHANGED <<vars, responseVars>>
       \/ part = "configurations" /\ Next /\ UNCHANGED <<tokenVars, responseVars>>
       \/ part = "responses" /\ Responses!Next /\ UNCHANGED <<vars, tokenVars>>

(* The fairness is that of the configurations, as in ConfigCache.          *)
CachesSpec == CachesInit /\ [][CachesNext]_allVars /\ Fairness

----------------------------------------------------------------------------
(* Properties, beside those of ConfigCache *)

(* Revocation takes effect at once although tokens are cached, and nobody  *)
(* with a good secret is refused because of the cache, but for a token     *)
(* that was revoked alone (auth.go:61-96, token_cache.go:43-66).           *)
AuthenticationJustified == Tokens!AuthenticationJustified

(* Cached responses go to the requests they were made for, in time, and an *)
(* invalidation leaves nothing it found (cache.go:81-163).                 *)
AnswersJustified == Responses!AnswersJustified
=============================================================================
