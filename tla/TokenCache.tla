----------------------------- MODULE TokenCache -----------------------------
(***************************************************************************)
(* The authentication middleware of server/auth.go with its cache of       *)
(* machine tokens: a service account's secret is exchanged for a token,    *)
(* the token is cached until shortly before its expiry, and every request  *)
(* has its token introspected by IAMKit, which may meanwhile revoke tokens *)
(* and secrets.                                                            *)
(*                                                                         *)
(* One action is one call of IAMKit or one operation on the map.  Time     *)
(* passes in ticks of ten seconds, twice iamCallTimeout: a validation      *)
(* makes two calls at most, and sees one tick at most.                     *)
(***************************************************************************)
EXTENDS Naturals

CONSTANTS Secret,   (* the secrets of the service accounts                  *)
          Token,    (* the tokens IAMKit can have issued at a time          *)
          Call,     (* validations in flight                                *)
          Life,     (* the lifetimes of tokens, in ticks                    *)
          Margin,   (* tokenCacheMargin, in ticks                           *)
          Nobody    (* no secret, no token                                  *)

VARIABLES
    active,  (* the secrets IAMKit accepts                                  *)
    issued,  (* what IAMKit knows of each token: for whom it was issued,    *)
             (* how long it still lives, and whether it is not revoked      *)
    entries, (* the map: the token of each secret, and the ticks it has left*)
    phase,   (* where each validation is                                    *)
    secret,  (* the secret it is about, Nobody if the caller sent a token   *)
    token,   (* the token it will have introspected                         *)
    span,    (* expires_in, until the token is cached                        *)
    aged,    (* the validations that saw a tick                             *)
    doomed,  (* those whose credential was revoked before they began        *)
    excused  (* those that may be refused: their credential was revoked or  *)
             (* expired, or IAMKit failed                                   *)

validations == <<phase, secret, token, span, aged, doomed, excused>>
vars == <<active, issued, entries, validations>>

Gone    == [by |-> Nobody, left |-> 0, stands |-> FALSE]
Phase   == {"idle", "exchange", "set", "introspect", "accepted", "refused"}

Cached  == [token : Token, left : Nat]
Grant   == [by : Secret, left : Nat \ {0}, stands : BOOLEAN]

TypeOK ==
    /\ active \subseteq Secret
    /\ issued \in [Token -> Grant \cup {Gone}]
    /\ DOMAIN entries \subseteq Secret /\ \A s \in DOMAIN entries : entries[s] \in Cached
    /\ phase \in [Call -> Phase]
    /\ secret \in [Call -> Secret \cup {Nobody}]
    /\ token \in [Call -> Token \cup {Nobody}]
    /\ span \in [Call -> Life \cup {0}]
    /\ aged \subseteq Call /\ doomed \subseteq Call /\ excused \subseteq Call

Init ==
    /\ active = Secret
    /\ issued = [t \in Token |-> Gone]
    /\ entries = [s \in {} |-> Gone]
    /\ phase = [c \in Call |-> "idle"]
    /\ secret = [c \in Call |-> Nobody]
    /\ token = [c \in Call |-> Nobody]
    /\ span = [c \in Call |-> 0]
    /\ aged = {} /\ doomed = {} /\ excused = {}

----------------------------------------------------------------------------

Goto(c, p) == phase' = [phase EXCEPT ![c] = p]

Revoked(t) == issued[t] # Gone /\ ~issued[t].stands

(* An entry that Get returns. *)
Live(s) == s \in DOMAIN entries /\ entries[s].left > 0

Free(t) ==
    /\ issued[t] = Gone
    /\ \A s \in DOMAIN entries : entries[s].token # t
    /\ \A c \in Call : token[c] # t

Mark(calls, c, condition) == IF condition THEN calls \cup {c} ELSE calls

----------------------------------------------------------------------------
(* Validations *)

(* The caller sends an access token of its own. *)
BeginToken(c) ==
    /\ phase[c] = "idle"
    /\ \E t \in Token :
        /\ issued[t] # Gone
        /\ token' = [token EXCEPT ![c] = t]
        /\ doomed' = Mark(doomed, c, Revoked(t))
        /\ excused' = Mark(excused, c, Revoked(t))
    /\ Goto(c, "introspect")
    /\ UNCHANGED <<active, issued, entries, secret, span, aged>>

(* The caller sends a secret: Get finds its token, or it is exchanged. *)
BeginSecret(c) ==
    /\ phase[c] = "idle"
    /\ \E s \in Secret :
        /\ secret' = [secret EXCEPT ![c] = s]
        /\ doomed' = Mark(doomed, c, s \notin active)
        /\ \/ /\ Live(s)
              /\ token' = [token EXCEPT ![c] = entries[s].token]
              /\ excused' = Mark(excused, c, Revoked(entries[s].token))
              /\ Goto(c, "introspect")
           \/ /\ ~Live(s)
              /\ excused' = Mark(excused, c, s \notin active)
              /\ Goto(c, "exchange")
              /\ UNCHANGED token
    /\ UNCHANGED <<active, issued, entries, span, aged>>

(* The verdict; the request then goes on to its handler, or ends. *)
Verdict(c, v) ==
    /\ Goto(c, v)
    /\ secret' = [secret EXCEPT ![c] = Nobody]
    /\ token' = [token EXCEPT ![c] = Nobody]
    /\ aged' = aged \ {c}

(* MachineToken: IAMKit issues a token, refuses the secret, or fails. *)
Exchange(c) ==
    /\ phase[c] = "exchange"
    /\ \/ /\ secret[c] \in active
          /\ \E t \in Token, n \in Life :
                /\ Free(t)
                /\ issued' = [issued EXCEPT ![t] =
                        [by |-> secret[c], left |-> n, stands |-> TRUE]]
                /\ token' = [token EXCEPT ![c] = t]
                /\ span' = [span EXCEPT ![c] = n]
          /\ Goto(c, "set")
          /\ UNCHANGED <<secret, aged, excused>>
       \/ /\ secret[c] \notin active
          /\ Verdict(c, "refused")
          /\ UNCHANGED <<issued, span, excused>>
       \/ /\ Verdict(c, "refused")
          /\ excused' = excused \cup {c}
          /\ UNCHANGED <<issued, span>>
    /\ UNCHANGED <<active, entries, doomed>>

(* Mutant: entries live as long as their tokens. *)
SetNoMargin(c) ==
    /\ phase[c] = "set"
    /\ entries' = [s \in DOMAIN entries \cup {secret[c]} |->
                     IF s = secret[c] THEN [token |-> token[c], left |-> span[c]]
                     ELSE entries[s]]
    /\ Goto(c, "introspect")
    /\ span' = [span EXCEPT ![c] = 0]
    /\ UNCHANGED <<active, issued, secret, token, aged, doomed, excused>>

(* Set: a token that does not outlive the margin is not cached, and what   *)
(* was cached before stays.                                                *)
Set(c) ==
    /\ phase[c] = "set"
    /\ entries' = IF span[c] <= Margin THEN entries
                  ELSE [s \in DOMAIN entries \cup {secret[c]} |->
                           IF s = secret[c] THEN [token |-> token[c], left |-> span[c] - Margin]
                           ELSE entries[s]]
    /\ Goto(c, "introspect")
    /\ span' = [span EXCEPT ![c] = 0]
    /\ UNCHANGED <<active, issued, secret, token, aged, doomed, excused>>

(* Introspect: any error refuses the request, and the cache keeps the      *)
(* token all the same.                                                     *)
Introspect(c) ==
    /\ phase[c] = "introspect"
    /\ \/ /\ issued[token[c]].stands
          /\ Verdict(c, "accepted")
          /\ UNCHANGED excused
       \/ /\ ~issued[token[c]].stands
          /\ Verdict(c, "refused")
          /\ UNCHANGED excused
       \/ /\ Verdict(c, "refused")
          /\ excused' = excused \cup {c}
    /\ UNCHANGED <<active, issued, entries, span, doomed>>

Leave(c) ==
    /\ phase[c] \in {"accepted", "refused"}
    /\ Goto(c, "idle")
    /\ doomed' = doomed \ {c}
    /\ excused' = excused \ {c}
    /\ UNCHANGED <<active, issued, entries, secret, token, span, aged>>

----------------------------------------------------------------------------
(* IAMKit's administrators, the sweeper and time *)

(* A secret is revoked with every token issued for it. *)
RevokeSecret(s) ==
    /\ s \in active
    /\ active' = active \ {s}
    /\ issued' = [t \in Token |-> IF issued[t].by = s THEN [issued[t] EXCEPT !.stands = FALSE]
                                  ELSE issued[t]]
    /\ excused' = excused \cup {c \in Call : secret[c] = s}
                          \cup {c \in Call : token[c] # Nobody /\ issued[token[c]].by = s}
    /\ UNCHANGED <<entries, phase, secret, token, span, aged, doomed>>

RevokeToken(t) ==
    /\ issued[t].stands
    /\ issued' = [issued EXCEPT ![t].stands = FALSE]
    /\ excused' = excused \cup {c \in Call : token[c] = t}
    /\ UNCHANGED <<active, entries, phase, secret, token, span, aged, doomed>>

(* sweeper: the expired entries are dropped. *)
Sweep ==
    /\ \E s \in DOMAIN entries : ~Live(s)
    /\ entries' = [s \in {x \in DOMAIN entries : Live(x)} |-> entries[s]]
    /\ UNCHANGED <<active, issued, validations>>

Validating == {c \in Call : phase[c] \in {"exchange", "set", "introspect"}}

(* Ten seconds pass. *)
Tick ==
    /\ aged = {}
    /\ aged' = Validating
    /\ issued' = [t \in Token |-> IF issued[t].left <= 1 THEN Gone
                                  ELSE [issued[t] EXCEPT !.left = @ - 1]]
    /\ entries' = [s \in DOMAIN entries |->
                      IF Live(s) THEN [entries[s] EXCEPT !.left = @ - 1] ELSE entries[s]]
    /\ excused' = excused \cup {c \in Call : /\ token[c] # Nobody /\ secret[c] = Nobody
                                             /\ issued[token[c]].left <= 1}
    /\ UNCHANGED <<active, phase, secret, token, span, doomed>>

Next ==
    \/ \E c \in Call : BeginToken(c) \/ BeginSecret(c) \/ Exchange(c) \/ Set(c)
                       \/ Introspect(c) \/ Leave(c)
    \/ \E s \in Secret : RevokeSecret(s)
    \/ \E t \in Token : RevokeToken(t)
    \/ Sweep
    \/ Tick

Spec == Init /\ [][Next]_vars

----------------------------------------------------------------------------
(* Properties *)

(* "The exchanged JWT is still introspected on every request, so           *)
(* revocation applies immediately" (auth.go:54-57): no request that began  *)
(* after its secret or token was revoked is accepted, cached token or not. *)
RevocationImmediate == \A c \in Call : phase[c] = "accepted" => c \notin doomed

(* "We refresh slightly before the real expiry" (auth.go:20-22): a request *)
(* with a good secret is refused only if IAMKit failed or someone revoked  *)
(* the secret or its token meanwhile; it is never sent with a token that   *)
(* expires on the way.  A revoked token stays cached until its entry       *)
(* expires, and is such an excuse for as long.                             *)
RefusedWithCause == \A c \in Call : phase[c] = "refused" => c \in excused

AuthenticationJustified == TypeOK /\ RevocationImmediate /\ RefusedWithCause
=============================================================================
