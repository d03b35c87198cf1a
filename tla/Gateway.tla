------------------------------ MODULE Gateway ------------------------------
(***************************************************************************)
(* The life of a request in the gateway handlers: admission by the rate    *)
(* limiter, routing to provider keys by their health, upstream attempts    *)
(* with failover and OAuth refresh, the answer (a body or a relayed        *)
(* stream), the health and usage reports of every attempt, and the release *)
(* of the concurrency slot by the handler or by the stream it committed.   *)
(*                                                                         *)
(* The handlers of all requests run concurrently and share the             *)
(* KeyHealthTracker, whose methods are atomic (a mutex per key); the       *)
(* actions below are the pieces of the handlers between those calls and    *)
(* the upstream calls.  Statuses are abstracted to the class the handlers  *)
(* branch on.  Of a key's health only the blacklisting is kept: it decides *)
(* what is announced, whereas the routes are any sequence of keys, so that *)
(* the run of errors the tracker also counts has no influence here.        *)
(***************************************************************************)
EXTENDS Naturals, Sequences, FiniteSets

CONSTANTS Request,    (* requests in flight (a slot is reused)              *)
          Endpoint,   (* the endpoints that are called, see AllEndpoints    *)
          Key,        (* provider keys                                      *)
          MaxRoutes   (* bound: the longest list of routes                  *)

(* "chat" and "chatStream" are POST /v1/chat/completions, "compat" the     *)
(* synchronous /v1/messages and /v1/responses, "messagesStream" and        *)
(* "responsesStream" their streams, "passthrough" the modality endpoints.  *)
AllEndpoints == {"chat", "chatStream", "compat", "messagesStream",
                 "responsesStream", "passthrough"}
CompatStream == {"messagesStream", "responsesStream"}
Sync         == {"chat", "compat", "passthrough"}
Stream       == {"chatStream"} \cup CompatStream

ASSUME GatewayAssumption ==
    /\ Endpoint \subseteq AllEndpoints
    /\ Endpoint # {}
    /\ MaxRoutes \in Nat \ {0}

VARIABLES
    pc,       (* what each request does, see Phase                          *)
    ep,       (* its endpoint                                               *)
    todo,     (* its routes from the current one on, as their keys          *)
    verdict,  (* the class of its last failed attempt                       *)
    answer,   (* what its client was sent                                   *)
    gone,     (* whether its client closed the connection                   *)
    owners,   (* who will call the slot's release closure: the "handler"'s  *)
              (* defer, or the "stream" writer's                            *)
    returned, (* whether its handler has returned                           *)
    logged,   (* its last usage record, "none" if there is none             *)
    black,    (* the permanently blacklisted keys                           *)
    rejected, (* the keys a provider answered 401 or 403                    *)
    announced, (* the keys for which key.blacklisted was fired              *)
    silent    (* history: keys blacklisted by a passthrough request         *)

keys  == <<black, rejected, announced, silent>>
slots == <<owners, returned>>
vars  == <<pc, ep, todo, verdict, answer, gone, slots, logged, keys>>

(* "admitted": past the limiter; "next": about to try the first of todo;   *)
(* "call": waiting for the upstream (of a stream: its first chunk);        *)
(* "refresh" and "recall": refreshing the OAuth token, and the second call *)
(* with the new one; "relay": the upstream's chunks reach the client;      *)
(* "blame" and "notify": reporting a failure to the tracker, and firing    *)
(* its webhook; "end": everything is sent.                                 *)
Phase == {"idle", "admitted", "next", "call", "refresh", "recall", "relay",
          "blame", "notify", "end"}

(* A request in one of these uses the first of its routes. *)
Routed == {"next", "call", "refresh", "recall", "relay", "blame", "notify"}

(* "auth": 401 or 403; "retry": 408, 429, 500, 502, 503, 504; "fatal": any *)
(* other status, or the 0 of a request that could not be built or was      *)
(* cancelled.                                                              *)
Verdict == {"auth", "retry", "fatal"}

(* "some": a stream began; "cut": it ended with an error event.            *)
Answer == {"nothing", "some", "ok", "error", "cut"}

Current(r) == Head(todo[r])

Routes == UNION {[1..n -> Key] : n \in 1..MaxRoutes}

TypeOK ==
    /\ pc \in [Request -> Phase]
    /\ ep \in [Request -> Endpoint]
    /\ todo \in [Request -> Seq(Key)]
    /\ verdict \in [Request -> Verdict \cup {"none"}]
    /\ answer \in [Request -> Answer]
    /\ gone \subseteq Request
    /\ owners \in [Request -> SUBSET {"handler", "stream"}]
    /\ returned \subseteq Request
    /\ logged \in [Request -> {"none", "ok", "error"}]
    /\ black \subseteq Key /\ rejected \subseteq Key /\ announced \subseteq Key
    /\ silent \subseteq Key
    /\ \A r \in Request : pc[r] \in Routed => todo[r] # <<>>

(* The value kept for a request that is not there. *)
AnyEndpoint == CHOOSE e \in Endpoint : TRUE

Init ==
    /\ pc = [r \in Request |-> "idle"]
    /\ ep = [r \in Request |-> AnyEndpoint]
    /\ todo = [r \in Request |-> <<>>]
    /\ verdict = [r \in Request |-> "none"]
    /\ answer = [r \in Request |-> "nothing"]
    /\ gone = {}
    /\ owners = [r \in Request |-> {}]
    /\ returned = {}
    /\ logged = [r \in Request |-> "none"]
    /\ black = {} /\ rejected = {} /\ announced = {} /\ silent = {}

----------------------------------------------------------------------------

Goto(r, p) == pc' = [pc EXCEPT ![r] = p]

(* The client has been sent everything: a, with the usage record l. *)
Finish(r, a, l) ==
    /\ Goto(r, "end")
    /\ answer' = [answer EXCEPT ![r] = a]
    /\ logged' = [logged EXCEPT ![r] = l]

(* A failed attempt of class v. *)
Fail(r, v) ==
    /\ verdict' = [verdict EXCEPT ![r] = v]
    /\ rejected' = IF v = "auth" THEN rejected \cup {Current(r)} ELSE rejected

(* After a failure that was reported: on to the routes s, or an end.       *)
FailOver(r, s) ==
    /\ Goto(r, "next")
    /\ todo' = [todo EXCEPT ![r] = s]
    /\ verdict' = [verdict EXCEPT ![r] = "none"]
    /\ UNCHANGED <<answer, logged>>

GiveUp(r, a) == Finish(r, a, "error") /\ UNCHANGED <<todo, verdict>>

(* What ends a broken stream: finishAnthropicStream sends the events of a  *)
(* clean end, the others an error event.                                   *)
Broken(r) == IF ep[r] = "messagesStream" THEN "ok" ELSE "cut"

----------------------------------------------------------------------------
(* Mutants: wrong variants of actions below, each of which some property   *)
(* must catch.  They are no part of the specification.                     *)

(* The second call with a refreshed token succeeds and is not logged. *)
RecallNotLogged(r) ==
    /\ pc[r] \in {"call", "recall"} /\ ep[r] \in Sync
    /\ Finish(r, "ok", IF ep[r] = "passthrough" THEN "none"
                       ELSE IF pc[r] = "call" THEN "ok" ELSE logged[r])
    /\ UNCHANGED <<ep, todo, verdict, gone, slots, keys>>

(* The chat stream takes the release over and its handler keeps it. *)
CommitTwoOwners(r) ==
    /\ pc[r] = "call" /\ ep[r] \in Stream
    /\ Goto(r, "relay")
    /\ answer' = [answer EXCEPT ![r] = "some"]
    /\ owners' = IF ep[r] = "chatStream" /\ owners[r] # {}
                 THEN [owners EXCEPT ![r] = @ \cup {"stream"}] ELSE owners
    /\ UNCHANGED <<ep, todo, verdict, gone, returned, logged, keys>>

(* Any status no other route can cure blacklists the key. *)
BlameFatal(r) ==
    /\ pc[r] = "blame"
    /\ black' = IF verdict[r] \in {"auth", "fatal"} THEN black \cup {Current(r)} ELSE black
    /\ IF ep[r] = "passthrough"
       THEN Finish(r, "error", "none") /\ silent' = silent \cup (black' \cap {Current(r)})
       ELSE Goto(r, "notify") /\ UNCHANGED <<answer, logged, silent>>
    /\ UNCHANGED <<ep, todo, verdict, gone, slots, rejected, announced>>

(* A broken stream fails over. *)
NotifyThenResume(r) ==
    /\ pc[r] = "notify"
    /\ announced' = announced \cup ({Current(r)} \cap black)
    /\ \/ verdict[r] # "fatal" /\ Len(todo[r]) > 1 /\ FailOver(r, Tail(todo[r]))
       \/ /\ verdict[r] = "fatal" \/ Len(todo[r]) = 1
          /\ GiveUp(r, IF answer[r] = "some" THEN Broken(r) ELSE "error")
    /\ UNCHANGED <<ep, gone, slots, black, rejected, silent>>

(* An authentication error is final. *)
NotifyThenQuit(r) ==
    /\ pc[r] = "notify"
    /\ announced' = announced \cup ({Current(r)} \cap black)
    /\ \/ answer[r] = "some" /\ GiveUp(r, Broken(r))
       \/ /\ answer[r] # "some" /\ verdict[r] = "retry" /\ Len(todo[r]) > 1
          /\ FailOver(r, Tail(todo[r]))
       \/ /\ answer[r] # "some" /\ (verdict[r] # "retry" \/ Len(todo[r]) = 1)
          /\ GiveUp(r, "error")
    /\ UNCHANGED <<ep, gone, slots, black, rejected, silent>>

(* The webhook is fired only if another route is tried. *)
NotifyOnFailover(r) ==
    /\ pc[r] = "notify"
    /\ \/ answer[r] = "some" /\ GiveUp(r, Broken(r)) /\ UNCHANGED announced
       \/ /\ answer[r] # "some" /\ verdict[r] # "fatal" /\ Len(todo[r]) > 1
          /\ FailOver(r, Tail(todo[r]))
          /\ announced' = announced \cup ({Current(r)} \cap black)
       \/ /\ answer[r] # "some" /\ (verdict[r] = "fatal" \/ Len(todo[r]) = 1)
          /\ GiveUp(r, "error") /\ UNCHANGED announced
    /\ UNCHANGED <<ep, gone, slots, black, rejected, silent>>

(* The same route is tried again. *)
NotifySameRoute(r) ==
    /\ pc[r] = "notify"
    /\ announced' = announced \cup ({Current(r)} \cap black)
    /\ \/ answer[r] = "some" /\ GiveUp(r, Broken(r))
       \/ answer[r] # "some" /\ verdict[r] # "fatal" /\ FailOver(r, todo[r])
       \/ answer[r] # "some" /\ verdict[r] = "fatal" /\ GiveUp(r, "error")
    /\ UNCHANGED <<ep, gone, slots, black, rejected, silent>>

----------------------------------------------------------------------------

(* checkRateLimit lets the request pass, with a release closure or (no     *)
(* limiter, or a failed check) without.  A refused request changes nothing *)
(* here and is left to module RateLimiter.                                 *)
Accept(r) ==
    /\ pc[r] = "idle"
    /\ Goto(r, "admitted")
    /\ \E e \in Endpoint : ep' = [ep EXCEPT ![r] = e]
    /\ \E o \in {{"handler"}, {}} : owners' = [owners EXCEPT ![r] = o]
    /\ UNCHANGED <<todo, verdict, answer, gone, returned, logged, keys>>

(* A response cache hit; or an invalid or blocked request, or one without  *)
(* a route.                                                                *)
AnswerLocally(r) ==
    /\ pc[r] = "admitted"
    /\ \/ ep[r] \in {"chat", "compat"} /\ Finish(r, "ok", "none")
       \/ Finish(r, "error", "none")
    /\ UNCHANGED <<ep, todo, verdict, gone, slots, keys>>

(* Router.ResolveAll: some keys, in the order the strategy gives (two      *)
(* mappings may share a key); passthrough endpoints use the first only.    *)
Route(r) ==
    /\ pc[r] = "admitted"
    /\ \E s \in Routes :
        /\ ep[r] = "passthrough" => Len(s) = 1
        /\ todo' = [todo EXCEPT ![r] = s]
    /\ Goto(r, "next")
    /\ UNCHANGED <<ep, verdict, answer, gone, slots, logged, keys>>

(* The loop over the routes, after its back-off: only the synchronous chat *)
(* handler watches its client.                                             *)
Attempt(r) ==
    /\ pc[r] = "next"
    /\ \/ r \in gone /\ Finish(r, "error", logged[r])
       \/ r \notin gone /\ Goto(r, "call") /\ UNCHANGED <<answer, logged>>
    /\ UNCHANGED <<ep, todo, verdict, gone, slots, keys>>

(* Upstream.Call succeeds, the first time or with a refreshed token; the   *)
(* success is reported to the tracker, which never lifts a blacklisting.   *)
CallSucceeds(r) ==
    /\ pc[r] \in {"call", "recall"} /\ ep[r] \in Sync
    /\ Finish(r, "ok", IF ep[r] = "passthrough" THEN "none" ELSE "ok")
    /\ UNCHANGED <<ep, todo, verdict, gone, slots, keys>>

(* Upstream.Call fails.  The attempt is logged; an authentication error    *)
(* asks for a new token first, and the chat handler does not blame the key *)
(* for a call its client abandoned.                                        *)
CallFails(r) ==
    /\ pc[r] = "call" /\ ep[r] \in Sync
    /\ \E v \in Verdict :
        /\ Fail(r, v)
        /\ IF v = "fatal" /\ r \in gone
           THEN Finish(r, "error", "error")
           ELSE /\ Goto(r, IF v = "auth" /\ ep[r] # "passthrough"
                           THEN "refresh" ELSE "blame")
                /\ logged' = [logged EXCEPT ![r] =
                                 IF ep[r] = "passthrough" THEN "none" ELSE "error"]
                /\ UNCHANGED answer
    /\ UNCHANGED <<ep, todo, gone, slots, black, announced, silent>>

(* ForceRefresh: a new token for an OAuth key, or none. *)
Refresh(r) ==
    /\ pc[r] = "refresh"
    /\ Goto(r, "recall") \/ Goto(r, "blame")
    /\ UNCHANGED <<ep, todo, verdict, answer, gone, slots, logged, keys>>

(* The second call fails: the key is blamed for the status of the first.   *)
RecallFails(r) ==
    /\ pc[r] = "recall"
    /\ Goto(r, "blame")
    /\ logged' = [logged EXCEPT ![r] = "error"]
    /\ UNCHANGED <<ep, todo, verdict, answer, gone, slots, keys>>

(* The first chunk reaches the client.  The chat stream takes the release  *)
(* over from its handler.                                                  *)
Commit(r) ==
    /\ pc[r] = "call" /\ ep[r] \in Stream
    /\ Goto(r, "relay")
    /\ answer' = [answer EXCEPT ![r] = "some"]
    /\ owners' = IF ep[r] = "chatStream" /\ owners[r] # {}
                 THEN [owners EXCEPT ![r] = {"stream"}] ELSE owners
    /\ UNCHANGED <<ep, todo, verdict, gone, returned, logged, keys>>

(* The upstream ends the stream; a translated stream may end without any   *)
(* chunk, a chat stream has at least its terminator.                       *)
StreamSucceeds(r) ==
    /\ \/ pc[r] = "relay"
       \/ pc[r] = "call" /\ ep[r] \in CompatStream
    /\ Finish(r, "ok", "ok")
    /\ UNCHANGED <<ep, todo, verdict, gone, slots, keys>>

(* A streaming attempt fails before its first chunk.  The chat handler     *)
(* logs it, and gives up without blaming the key if it is fatal; the       *)
(* translated ones blame the key and log only their last attempt.          *)
OpenFails(r) ==
    /\ pc[r] = "call" /\ ep[r] \in Stream
    /\ \E v \in Verdict :
        /\ Fail(r, v)
        /\ IF ep[r] = "chatStream" /\ v = "fatal"
           THEN Finish(r, "error", "error")
           ELSE /\ Goto(r, "blame")
                /\ logged' = IF ep[r] = "chatStream"
                             THEN [logged EXCEPT ![r] = "error"] ELSE logged
                /\ UNCHANGED answer
    /\ UNCHANGED <<ep, todo, gone, slots, black, announced, silent>>

(* A committed stream breaks: it is blamed on the key (502, or the 200 the *)
(* stream began with) and cannot fail over.                                *)
StreamBreaks(r) ==
    /\ pc[r] = "relay"
    /\ Fail(r, "retry")
    /\ Goto(r, "blame")
    /\ UNCHANGED <<ep, todo, answer, gone, slots, logged, black, announced, silent>>

(* ReportError.  Passthrough endpoints fire no webhook and do not retry.   *)
Blame(r) ==
    /\ pc[r] = "blame"
    /\ black' = IF verdict[r] = "auth" THEN black \cup {Current(r)} ELSE black
    /\ IF ep[r] = "passthrough"
       THEN Finish(r, "error", "none") /\ silent' = silent \cup (black' \cap {Current(r)})
       ELSE Goto(r, "notify") /\ UNCHANGED <<answer, logged, silent>>
    /\ UNCHANGED <<ep, todo, verdict, gone, slots, rejected, announced>>

(* fireKeyHealthWebhook reads the tracker again, then the handler tries    *)
(* the next route or gives up.                                             *)
Notify(r) ==
    /\ pc[r] = "notify"
    /\ announced' = announced \cup ({Current(r)} \cap black)
    /\ \/ answer[r] = "some" /\ GiveUp(r, Broken(r))
       \/ /\ answer[r] # "some" /\ verdict[r] # "fatal" /\ Len(todo[r]) > 1
          /\ FailOver(r, Tail(todo[r]))
       \/ /\ answer[r] # "some" /\ (verdict[r] = "fatal" \/ Len(todo[r]) = 1)
          /\ GiveUp(r, "error")
    /\ UNCHANGED <<ep, gone, slots, black, rejected, silent>>

(* The handler returns and runs its deferred release: when everything is   *)
(* sent, or once a stream is left to the writer fasthttp runs, which is at *)
(* the first chunk for the chat stream and before the first attempt for    *)
(* the translated ones.                                                    *)
HandlerReturns(r) ==
    /\ r \notin returned
    /\ \/ pc[r] = "end"
       \/ ep[r] = "chatStream" /\ answer[r] = "some"
       \/ ep[r] \in CompatStream /\ todo[r] # <<>>
    /\ returned' = returned \cup {r}
    /\ owners' = [owners EXCEPT ![r] = @ \ {"handler"}]
    /\ UNCHANGED <<pc, ep, todo, verdict, answer, gone, logged, keys>>

(* The writer of a committed chat stream runs its deferred release. *)
WriterReturns(r) ==
    /\ pc[r] = "end" /\ "stream" \in owners[r]
    /\ owners' = [owners EXCEPT ![r] = @ \ {"stream"}]
    /\ UNCHANGED <<pc, ep, todo, verdict, answer, gone, returned,
                   logged, keys>>

(* Nothing is left of the request. *)
Depart(r) ==
    /\ pc[r] = "end" /\ r \in returned /\ owners[r] = {}
    /\ Goto(r, "idle")
    /\ todo' = [todo EXCEPT ![r] = <<>>]
    /\ verdict' = [verdict EXCEPT ![r] = "none"]
    /\ answer' = [answer EXCEPT ![r] = "nothing"]
    /\ logged' = [logged EXCEPT ![r] = "none"]
    /\ gone' = gone \ {r}
    /\ returned' = returned \ {r}
    /\ ep' = [ep EXCEPT ![r] = AnyEndpoint]
    /\ UNCHANGED <<owners, keys>>

(* The client of a synchronous chat request closes the connection. *)
ClientLeaves(r) ==
    /\ pc[r] \notin {"idle", "admitted", "end"} /\ ep[r] = "chat" /\ r \notin gone
    /\ gone' = gone \cup {r}
    /\ UNCHANGED <<pc, ep, todo, verdict, answer, slots, logged, keys>>

(* The steps of the handler and of the stream writer of r. *)
Step(r) ==
    \/ AnswerLocally(r) \/ Route(r) \/ Attempt(r)
    \/ CallSucceeds(r) \/ CallFails(r) \/ Refresh(r) \/ RecallFails(r)
    \/ Commit(r) \/ StreamSucceeds(r) \/ OpenFails(r) \/ StreamBreaks(r)
    \/ Blame(r) \/ Notify(r)
    \/ WriterReturns(r) \/ Depart(r)

Next ==
    \E r \in Request : Accept(r) \/ Step(r) \/ HandlerReturns(r) \/ ClientLeaves(r)

Spec == Init /\ [][Next]_vars

(* Handlers and writers run to completion: every upstream call ends (the   *)
(* HTTP client waits ResponseHeaderTimeout for headers and 5 minutes in    *)
(* all), the back-offs are bounded, and a write to a client returns        *)
(* because the client reads or its connection breaks (the server sets no   *)
(* write timeout: that much is assumed of clients).                        *)
Fairness == \A r \in Request : WF_vars(Step(r)) /\ WF_vars(HandlerReturns(r))

FairSpec == Spec /\ Fairness

----------------------------------------------------------------------------
(* Properties *)

(* Who will release the slot; with two owners it would be released twice,  *)
(* and a slot that is released twice counts as given back too early.       *)
OneOwner(r) == \E o \in {"handler", "stream"} : owners[r] = {o}

Promise == INSTANCE RequestPromise WITH
    stage <- [r \in Request |-> IF pc[r] = "idle" THEN "out"
                               ELSE IF pc[r] = "end" THEN "answered" ELSE "served"],
    held  <- {r \in Request : OneOwner(r) /\ ep[r] \notin CompatStream}

(* "A committed stream outlives this handler; it takes release over": the  *)
(* slot is held while the request is served, streams included, and given   *)
(* back after (RequestPromise).  The slot of a translated stream is left   *)
(* out: it is given back too early, see SlotCoversStream.                  *)
KeepsPromise == Promise!Spec

(* Once a byte of a stream was sent, no other route is tried: the client   *)
(* never gets the pieces of two completions.                               *)
NoFailoverAfterCommit ==
    [][\A r \in Request : answer[r] = "some" => todo'[r] = todo[r]]_vars

(* A client is answered with an error only after every route failed, after *)
(* an error no other route can cure, or after it left.                     *)
GivesUpLast ==
    \A r \in Request :
        pc[r] = "end" /\ answer[r] = "error" /\ todo[r] # <<>>
            => Len(todo[r]) = 1 \/ verdict[r] = "fatal" \/ r \in gone

(* "without it a truncated stream looks like a clean end": what the client *)
(* of a routed request sees as a success was logged as one, and what it    *)
(* sees as a failure was not.  Not so for the messages stream, which ends  *)
(* a broken stream with the events of a clean end and logs the error; and  *)
(* the passthrough endpoints log nothing.                                  *)
OutcomeLogged ==
    \A r \in Request :
        pc[r] = "end" /\ todo[r] # <<>> /\ ep[r] \notin {"messagesStream", "passthrough"}
            => (answer[r] = "ok" <=> logged[r] = "ok")

(* Only a provider's own 401 or 403 blacklists a key, whatever other       *)
(* routes the request tried before and whatever becomes of the refresh.    *)
BlacklistJustified ==
    black \subseteq rejected

(* A key is not blacklisted silently: key.blacklisted was fired for it, or *)
(* the request that reported it is about to; only a passthrough request    *)
(* tells nobody (handler.go:699-710).                                      *)
BlacklistAnnounced ==
    black \subseteq announced \cup silent \cup
        {Current(r) : r \in {q \in Request : pc[q] = "notify"}}

(* The slot of a request is given back only when it was fully answered, on *)
(* every endpoint.                                                         *)
SlotCoversStream ==
    [][\A r \in Request :
          owners[r] # {} /\ owners'[r] = {} => pc[r] = "end"]_vars

(* Every request that was let in is answered and leaves. *)
EveryRequestLeaves ==
    \A r \in Request : pc[r] = "admitted" ~> pc[r] = "idle"
=============================================================================
