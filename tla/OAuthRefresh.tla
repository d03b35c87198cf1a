---------------------------- MODULE OAuthRefresh ----------------------------
(***************************************************************************)
(* The tokens of one OAuth provider key.  Requests that got a 401 call     *)
(* ForceRefresh, and the worker refreshes keys near expiry; both go        *)
(* through doRefresh, under a lock of the process.  The administrator      *)
(* updates the same row.  Every writer reads the row, changes its copy and *)
(* writes the whole row back.                                              *)
(*                                                                         *)
(* One action is one query, or one call of the provider's token endpoint.  *)
(* The provider rotates: a refresh returns a new access and refresh token  *)
(* and revokes the refresh token it was given, so that a pair of tokens is *)
(* known by its version, and only the last issued one can be refreshed.    *)
(***************************************************************************)
EXTENDS Naturals

CONSTANTS Forced,      (* calls of ForceRefresh in flight                   *)
          MaxVersion,  (* bound: versions the provider issues               *)
          MaxFailures  (* bound: lost replies, failed writes and kills      *)

ASSUME OAuthAssumption ==
    MaxVersion \in Nat /\ MaxFailures \in Nat /\ "free" \notin Forced

VARIABLES
    db,       (* the row: whether it exists, its tokens and its status      *)
    issued,   (* the last version the provider issued                       *)
    expiring, (* the versions within refreshBuffer of their expiry          *)
    lock,     (* who holds the lock of the key                              *)
    pc,       (* where each caller of doRefresh is                          *)
    seen,     (* the tokens it last read                                    *)
    copy,     (* its copy of the row                                        *)
    patch,    (* what the administrator is changing                         *)
    base,     (* the tokens the administrator's update read                 *)
    draft,    (* the administrator's copy of the row                        *)
    logins,   (* whether the administrator ever replaced the tokens         *)
    lost,     (* whether new tokens never reached the row, or a copy was    *)
              (* written over tokens its writer had not seen                *)
    faults    (* how many faults there were                                 *)

refresher   == <<lock, pc, seen, copy>>
admin       == <<patch, base, draft>>
history     == <<logins, lost, faults>>
refreshVars == <<db, issued, expiring, refresher, admin, history>>

Version == 0..MaxVersion
Worker  == "worker"
Caller  == Forced \cup {Worker}
Row     == [live : BOOLEAN, tokens : Version, status : {"active", "inactive"}]
FirstRow == [live |-> TRUE, tokens |-> 0, status |-> "active"]

(* "lock": about to take the lock; "reread": holding it; "refresh": about  *)
(* to call the provider; "persist": holding new tokens in its copy.        *)
Typed ==
    /\ db \in Row
    /\ issued \in Version
    /\ expiring \subseteq Version
    /\ lock \in Caller \cup {"free"}
    /\ pc \in [Caller -> {"idle", "lock", "reread", "refresh", "persist"}]
    /\ seen \in [Caller -> Version]
    /\ copy \in [Caller -> Row]
    /\ patch \in {"none", "name", "status", "tokens"}
    /\ base \in Version /\ draft \in Row
    /\ faults \in 0..MaxFailures

Flags == logins \in BOOLEAN /\ lost \in BOOLEAN

LockHeld ==
    \A c \in Caller : pc[c] \in {"reread", "refresh", "persist"} <=> lock = c

RefreshTypeOK == Typed /\ Flags /\ LockHeld

RefreshInit ==
    /\ db = FirstRow
    /\ issued = 0 /\ expiring = {}
    /\ lock = "free"
    /\ pc = [c \in Caller |-> "idle"]
    /\ seen = [c \in Caller |-> 0]
    /\ copy = [c \in Caller |-> FirstRow]
    /\ patch = "none" /\ base = 0 /\ draft = FirstRow
    /\ logins = FALSE /\ lost = FALSE /\ faults = 0

----------------------------------------------------------------------------

Continue(c, p) == pc' = [pc EXCEPT ![c] = p]
Fault      == faults < MaxFailures /\ faults' = faults + 1

(* doRefresh returns: the lock is released, and nothing is remembered. *)
Return(c) ==
    /\ Continue(c, "idle")
    /\ lock' = "free"
    /\ seen' = [seen EXCEPT ![c] = 0]
    /\ copy' = [copy EXCEPT ![c] = FirstRow]

(* repo.Update: the copy r, made when the tokens were b, replaces the row, *)
(* if it is still there.                                                   *)
Overwrite(r, b) ==
    /\ db' = IF db.live THEN r ELSE db
    /\ lost' = (lost \/ db.tokens # b)

(* ForceRefresh reads the key, whatever its status; refreshExpiring the    *)
(* active ones that expire soon.                                           *)
Start(c) ==
    /\ pc[c] = "idle" /\ db.live
    /\ c = Worker => db.status = "active" /\ db.tokens \in expiring
    /\ seen' = [seen EXCEPT ![c] = db.tokens]
    /\ Continue(c, "lock")
    /\ UNCHANGED <<db, issued, expiring, lock, copy, admin, history>>

Lock(c) ==
    /\ pc[c] = "lock" /\ lock = "free"
    /\ lock' = c
    /\ Continue(c, "reread")
    /\ UNCHANGED <<db, issued, expiring, seen, copy, admin, history>>

(* Mutant: the refresh token read before the lock was taken is kept. *)
RereadKeepsToken(c) ==
    /\ pc[c] = "reread" /\ db.live
    /\ copy' = [copy EXCEPT ![c] = [db EXCEPT !.tokens = seen[c]]]
    /\ seen' = [seen EXCEPT ![c] = db.tokens]
    /\ Continue(c, "refresh")
    /\ UNCHANGED <<db, issued, expiring, lock, admin, history>>

(* Another caller may have refreshed meanwhile; the key may be gone, or    *)
(* the query fail.                                                         *)
Reread(c) ==
    /\ pc[c] = "reread"
    /\ \/ /\ ~db.live \/ (db.tokens # seen[c] /\ db.tokens \notin expiring)
          /\ Return(c)
          /\ UNCHANGED history
       \/ Return(c) /\ Fault /\ UNCHANGED <<logins, lost>>
       \/ /\ db.live /\ (db.tokens = seen[c] \/ db.tokens \in expiring)
          /\ copy' = [copy EXCEPT ![c] = db]
          /\ seen' = [seen EXCEPT ![c] = db.tokens]
          /\ Continue(c, "refresh")
          /\ UNCHANGED <<lock, history>>
    /\ UNCHANGED <<db, issued, expiring, admin>>

(* The token endpoint: new tokens, or an error; or the reply is lost. *)
CallProvider(c) ==
    /\ pc[c] = "refresh"
    /\ \/ /\ copy[c].tokens = issued /\ issued < MaxVersion
          /\ issued' = issued + 1
          /\ \/ /\ copy' = [copy EXCEPT ![c].tokens = issued + 1]
                /\ Continue(c, "persist")
                /\ UNCHANGED <<lock, seen, history>>
             \/ Return(c) /\ Fault /\ lost' = TRUE /\ UNCHANGED logins
       \/ Return(c) /\ UNCHANGED <<issued, history>>
    /\ UNCHANGED <<db, expiring, admin>>

(* Mutant: the row is written without the new ciphertext. *)
PersistStale(c) ==
    /\ pc[c] = "persist"
    /\ Overwrite([copy[c] EXCEPT !.tokens = seen[c]], seen[c])
    /\ Return(c)
    /\ UNCHANGED <<issued, expiring, admin, logins, faults>>

(* persistOAuthData writes the row read under the lock, with new tokens. *)
PersistTokens(c) ==
    /\ pc[c] = "persist"
    /\ \/ Overwrite(copy[c], seen[c]) /\ UNCHANGED faults
       \/ Fault /\ lost' = TRUE /\ UNCHANGED db
    /\ Return(c)
    /\ UNCHANGED <<issued, expiring, admin, logins>>

(* The process is killed and started again. *)
Restart ==
    /\ Fault
    /\ lock' = "free"
    /\ pc' = [c \in Caller |-> "idle"]
    /\ seen' = [c \in Caller |-> 0]
    /\ copy' = [c \in Caller |-> FirstRow]
    /\ patch' = "none" /\ base' = 0 /\ draft' = FirstRow
    /\ lost' = (lost \/ patch = "tokens" \/ \E c \in Caller : pc[c] = "persist")
    /\ UNCHANGED <<db, issued, expiring, logins>>

(* Time passes: every token nears its expiry. *)
Expire ==
    /\ issued \notin expiring
    /\ expiring' = 0..issued
    /\ UNCHANGED <<db, issued, refresher, admin, history>>

----------------------------------------------------------------------------
(* The administrator *)

(* Service.Update reads the row and patches its copy: another field, the   *)
(* status, or tokens the account just got by logging in again.             *)
BeginUpdate ==
    /\ patch = "none" /\ db.live
    /\ base' = db.tokens
    /\ \/ patch' = "name" /\ draft' = db /\ UNCHANGED issued
       \/ /\ patch' = "status" /\ UNCHANGED issued
          /\ \E s \in {"active", "inactive"} : draft' = [db EXCEPT !.status = s]
       \/ /\ issued < MaxVersion /\ issued' = issued + 1
          /\ patch' = "tokens" /\ draft' = [db EXCEPT !.tokens = issued + 1]
    /\ UNCHANGED <<db, expiring, refresher, history>>

(* ... and writes the whole row, unless the query fails. *)
EndUpdate ==
    /\ patch # "none"
    /\ \/ /\ Overwrite(draft, base)
          /\ logins' = (logins \/ patch = "tokens")
          /\ UNCHANGED faults
       \/ /\ Fault
          /\ lost' = (lost \/ patch = "tokens")
          /\ UNCHANGED <<db, logins>>
    /\ patch' = "none" /\ base' = 0 /\ draft' = FirstRow
    /\ UNCHANGED <<issued, expiring, refresher>>

Delete ==
    /\ db.live
    /\ db' = [db EXCEPT !.live = FALSE]
    /\ UNCHANGED <<issued, expiring, refresher, admin, history>>

----------------------------------------------------------------------------

Step(c) == Reread(c) \/ CallProvider(c) \/ PersistTokens(c)

RefreshNext ==
    \/ \E c \in Caller : Start(c) \/ Lock(c) \/ Step(c)
    \/ Restart \/ Expire
    \/ BeginUpdate \/ EndUpdate \/ Delete

RefreshSpec == RefreshInit /\ [][RefreshNext]_refreshVars

----------------------------------------------------------------------------
(* Properties *)

(* The row holds the tokens the provider last issued, or somebody is about *)
(* to write them: two refreshes, or a refresh and an update, that do not   *)
(* overwrite each other never lose tokens.                                 *)
TokensCurrent ==
    db.live /\ ~lost =>
        \/ db.tokens = issued
        \/ patch = "tokens"
        \/ \E c \in Caller : pc[c] = "persist"

(* "Double-check: re-read from DB in case another goroutine already        *)
(* refreshed": a refresh token that was already used is not presented      *)
(* again, unless tokens were lost, or the administrator replaces them.     *)
NoTokenReuse ==
    RefreshTypeOK /\ \A c \in Caller :
        pc[c] = "refresh" /\ ~lost /\ ~logins /\ patch # "tokens"
            => copy[c].tokens = issued
=============================================================================
