------------------------------ MODULE UsageLog ------------------------------
(***************************************************************************)
(* The asynchronous usage log and the end of the process.  Handlers put    *)
(* one log per finished request into a buffered channel without waiting;   *)
(* one goroutine takes them out and writes them to the database; another   *)
(* purges old rows.  On a signal, main shuts the HTTP server down, which   *)
(* waits for open connections, and then releases everything in the order   *)
(* of Container.Cleanup.                                                   *)
(*                                                                         *)
(* A stream is written by a goroutine of its own.  When its client leaves, *)
(* the connection closes at once and that goroutine, which is waiting for  *)
(* the provider, outlives it: Shutdown no longer knows of it.              *)
(***************************************************************************)
EXTENDS Naturals, Sequences, FiniteSets, SequencesExt

CONSTANTS Request,    (* requests, each with one usage log                  *)
          BufferSize, (* capacity of the channel logsCh                     *)
          MaxFaults   (* bound: queries that fail while the database is up  *)

ASSUME UsageAssumption ==
    /\ BufferSize \in Nat \ {0} /\ MaxFaults \in Nat
    /\ "idle" \notin Request /\ "gone" \notin Request

VARIABLES
    main,       (* what the main goroutine is about to do                   *)
    req,        (* where each request is                                    *)
    queue,      (* the content of logsCh                                    *)
    closed,     (* whether logsCh is closed                                 *)
    worker,     (* the log processLogs is writing, or "idle" or "gone"      *)
    purger,     (* where the purge goroutine is                             *)
    purgeStop,  (* whether the purge channel is closed                      *)
    accepted,   (* the logs the channel took, in order                      *)
    attempted,  (* the logs processLogs is done with, in order              *)
    stored,     (* the logs in the database                                 *)
    failed,     (* the logs whose query failed while the database was up    *)
    abandoned,  (* the requests whose client left a stream                  *)
    panicked    (* the requests that sent on the closed channel             *)

channel == <<queue, closed, accepted>>
writer  == <<worker, attempted, stored, failed>>
purge   == <<purger, purgeStop>>
clients == <<req, abandoned>>
vars    == <<main, channel, writer, purge, clients, panicked>>

Stage == {"serve", "shutdown", "closePurge", "clearPurge", "closeLogs",
          "stopWorkers", "closeDB", "closeRedis", "exited"}

(* "idle" -> "open" -> ("orphan" ->) "done" *)
TypeOK ==
    /\ main \in Stage
    /\ req \in [Request -> {"idle", "open", "orphan", "done"}]
    /\ queue \in Seq(Request) /\ Len(queue) <= BufferSize
    /\ accepted \in Seq(Request) /\ attempted \in Seq(Request)
    /\ closed \in BOOLEAN /\ panicked \subseteq Request
    /\ worker \in Request \cup {"idle", "gone"}
    /\ purger \in {"waiting", "purging", "deaf", "gone"}
    /\ purgeStop \in {"open", "closed", "nil"}
    /\ stored \subseteq Request /\ failed \subseteq Request
    /\ abandoned \subseteq Request

Init ==
    /\ main = "serve"
    /\ req = [r \in Request |-> "idle"]
    /\ queue = <<>> /\ closed = FALSE /\ accepted = <<>>
    /\ worker = "idle" /\ attempted = <<>> /\ stored = {} /\ failed = {}
    /\ purger = "waiting" /\ purgeStop = "open"
    /\ abandoned = {} /\ panicked = {}

Running == main # "exited"
DBOpen  == main \notin {"closeRedis", "exited"}

----------------------------------------------------------------------------
(* Requests *)

Arrive(r) ==
    /\ main = "serve" /\ req[r] = "idle"
    /\ req' = [req EXCEPT ![r] = "open"]
    /\ UNCHANGED <<main, channel, writer, purge, abandoned, panicked>>

(* The client of a stream leaves before the stream has ended. *)
ClientLeaves(r) ==
    /\ Running /\ req[r] = "open"
    /\ req' = [req EXCEPT ![r] = "orphan"]
    /\ abandoned' = abandoned \cup {r}
    /\ UNCHANGED <<main, channel, writer, purge, panicked>>

(* Mutant: a full channel makes room by dropping its oldest log. *)
LogDropsOldest(r) ==
    /\ Running /\ req[r] \in {"open", "orphan"} /\ ~closed
    /\ req' = [req EXCEPT ![r] = "done"]
    /\ queue' = Append(IF Len(queue) = BufferSize THEN Tail(queue) ELSE queue, r)
    /\ accepted' = Append(accepted, r)
    /\ UNCHANGED <<main, closed, panicked, writer, purge, abandoned>>

(* LogRequest, at the end of a request: a send that does not wait, and     *)
(* panics if the channel is closed.                                        *)
LogRequest(r) ==
    /\ Running /\ req[r] \in {"open", "orphan"}
    /\ req' = [req EXCEPT ![r] = "done"]
    /\ \/ /\ closed
          /\ panicked' = panicked \cup {r} /\ main' = "exited"
          /\ UNCHANGED channel
       \/ /\ ~closed /\ Len(queue) < BufferSize
          /\ queue' = Append(queue, r)
          /\ accepted' = Append(accepted, r)
          /\ UNCHANGED <<main, closed, panicked>>
       \/ /\ ~closed /\ Len(queue) = BufferSize
          /\ UNCHANGED <<main, channel, panicked>>
    /\ UNCHANGED <<writer, purge, abandoned>>

----------------------------------------------------------------------------
(* processLogs *)

Take ==
    /\ Running /\ worker = "idle"
    /\ \/ /\ queue # <<>>
          /\ worker' = Head(queue) /\ queue' = Tail(queue)
       \/ /\ queue = <<>> /\ closed
          /\ worker' = "gone" /\ UNCHANGED queue
    /\ UNCHANGED <<main, closed, accepted, attempted, stored, failed, purge,
                   clients, panicked>>

(* repo.Create: an error is written to the server's log and forgotten. *)
Persist ==
    /\ Running /\ worker \in Request
    /\ \/ DBOpen /\ stored' = stored \cup {worker} /\ UNCHANGED failed
       \/ /\ DBOpen /\ Cardinality(failed) < MaxFaults
          /\ failed' = failed \cup {worker} /\ UNCHANGED stored
       \/ ~DBOpen /\ UNCHANGED <<stored, failed>>
    /\ attempted' = Append(attempted, worker)
    /\ worker' = "idle"
    /\ UNCHANGED <<main, channel, purge, clients, panicked>>

----------------------------------------------------------------------------
(* The purge goroutine waits for its ticker or for the channel it found in *)
(* the field when it began to wait; on a nil channel it is deaf for ever.  *)
(* It reads the field without a lock, and may or may not see it cleared.   *)

Tick ==
    /\ Running /\ purger \in {"waiting", "deaf"}
    /\ purger' = "purging"
    /\ UNCHANGED <<main, channel, writer, purgeStop, clients, panicked>>

RunPurge ==
    /\ Running /\ purger = "purging"
    /\ \/ purger' = "waiting"
       \/ purger' = "deaf" /\ purgeStop = "nil"
    /\ UNCHANGED <<main, channel, writer, purgeStop, clients, panicked>>

PurgeStopped ==
    /\ Running /\ purger = "waiting" /\ purgeStop # "open"
    /\ purger' = "gone"
    /\ UNCHANGED <<main, channel, writer, purgeStop, clients, panicked>>

----------------------------------------------------------------------------
(* main, and Container.Cleanup *)

Goto(from, to) == main = from /\ main' = to

Signal ==
    /\ Goto("serve", "shutdown")
    /\ UNCHANGED <<channel, writer, purge, clients, panicked>>

(* app.Shutdown returns when no connection is open. *)
Shutdown ==
    /\ Goto("shutdown", "closePurge")
    /\ \A r \in Request : req[r] # "open"
    /\ UNCHANGED <<channel, writer, purge, clients, panicked>>

(* Mutant: StopPurgeWorker clears the field and waits for the goroutine. *)
StopPurgeWaits ==
    /\ \/ Goto("closePurge", "clearPurge") /\ purgeStop' = "nil"
       \/ /\ Goto("clearPurge", "closeLogs") /\ purger = "gone"
          /\ UNCHANGED purgeStop
    /\ UNCHANGED <<channel, writer, purger, clients, panicked>>

(* StopPurgeWorker closes its channel, and then clears the field. *)
StopPurgeWorker ==
    /\ \/ Goto("closePurge", "clearPurge") /\ purgeStop' = "closed"
       \/ Goto("clearPurge", "closeLogs") /\ purgeStop' = "nil"
    /\ UNCHANGED <<channel, writer, purger, clients, panicked>>

(* Mutant: the channel stays open. *)
CloseForgotten ==
    /\ Goto("closeLogs", "stopWorkers")
    /\ UNCHANGED <<channel, writer, purge, clients, panicked>>

(* Usage.Close closes the channel, and returns. *)
Close ==
    /\ Goto("closeLogs", "stopWorkers")
    /\ closed' = TRUE
    /\ UNCHANGED <<queue, accepted, writer, purge, clients, panicked>>

(* Webhook.Stop and RefreshService.Stop wait for their workers; then the   *)
(* database and Redis are closed, and the process ends.                    *)
Release ==
    /\ \/ Goto("stopWorkers", "closeDB")
       \/ Goto("closeDB", "closeRedis")
       \/ Goto("closeRedis", "exited")
    /\ UNCHANGED <<channel, writer, purge, clients, panicked>>

Cleanup == StopPurgeWorker \/ Close \/ Release

(* The process is killed, or cannot listen and calls log.Fatalf. *)
Kill ==
    /\ Running /\ main' = "exited"
    /\ UNCHANGED <<channel, writer, purge, clients, panicked>>

----------------------------------------------------------------------------

Next ==
    \/ \E r \in Request : Arrive(r) \/ ClientLeaves(r) \/ LogRequest(r)
    \/ Take \/ Persist
    \/ Tick \/ RunPurge \/ PurgeStopped
    \/ Signal \/ Shutdown \/ Cleanup \/ Kill

Spec == Init /\ [][Next]_vars

(* A log is written within 5 seconds, a request ends when its provider     *)
(* answers or its connection breaks, and main runs whenever it can.  No    *)
(* signal need ever come.                                                  *)
Fairness ==
    /\ \A r \in Request : WF_vars(LogRequest(r))
    /\ WF_vars(Take) /\ WF_vars(Persist)
    /\ WF_vars(Shutdown) /\ WF_vars(Cleanup)

FairSpec == Spec /\ Fairness

----------------------------------------------------------------------------
(* Properties *)

InHand == IF worker \in Request THEN <<worker>> ELSE <<>>

(* The channel neither loses, duplicates nor reorders what it accepted:    *)
(* each log is written once, in order, or is still on its way.             *)
NothingVanishes == TypeOK /\ accepted = attempted \o InHand \o queue

(* However the process ends, it takes with it at most what was in the      *)
(* channel and in the worker's hand: nothing is accepted once the database *)
(* can no longer take it.  Shutdown waits for the requests it knows of, so *)
(* that only a stream whose client left can log after Close and bring the  *)
(* process down.  "Close drains remaining logs" (service.go:46) it does    *)
(* not: it closes the channel and returns, and the database is next.       *)
LossBounded ==
    /\ panicked \subseteq abandoned
    /\ ~Running => Cardinality(ToSet(accepted) \ (stored \cup failed)) <= BufferSize + 1

(* A signal ends the process, whatever the workers are doing. *)
ShutdownCompletes == main = "shutdown" ~> main = "exited"
=============================================================================
