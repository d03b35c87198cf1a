------------------------------ MODULE Webhook ------------------------------
(***************************************************************************)
(* Webhook deliveries: Fire runs a goroutine per event, which looks the    *)
(* subscribed webhooks up, saves a delivery row for each and makes the     *)
(* first attempt itself; the worker polls the rows whose retry time has    *)
(* come and attempts them again.  Both write the whole outcome back        *)
(* unconditionally, from the copy of the row they hold.                    *)
(*                                                                         *)
(* One action is one query or one POST.  The contexts matter: the 5        *)
(* seconds of fire cover the rows of all its webhooks, the 30 seconds of   *)
(* processPending its whole batch, and the 10 seconds of deliver cover     *)
(* both the POST and the write of its outcome.                             *)
(***************************************************************************)
EXTENDS Naturals, Sequences

CONSTANTS Event,       (* calls of Fire                                     *)
          Hook,        (* webhook configurations                            *)
          MaxRetries,  (* maxRetries: attempts of a delivery                *)
          MaxBatchSize,(* maxBatchSize: rows the worker takes at once       *)
          MaxFaults    (* bound: slow receivers, database errors and kills  *)

ASSUME WebhookAssumption ==
    /\ MaxRetries \in Nat \ {0}
    /\ MaxBatchSize \in Nat \ {0}
    /\ MaxFaults \in Nat
    /\ Event # {} /\ Hook # {} /\ "worker" \notin Event

VARIABLES
    config,   (* the status of each webhook                                 *)
    row,      (* the delivery rows in the database                          *)
    older,    (* the pairs of rows the first of which was created before    *)
    pc,       (* where each goroutine is                                    *)
    targets,  (* the webhooks each event still has to be sent to            *)
    batch,    (* the copies of rows the worker still has to attempt         *)
    job,      (* the copy each goroutine is delivering                      *)
    outcome,  (* the outcome of its POST                                    *)
    expired,  (* the goroutines whose outer context is over                 *)
    posts,    (* how often each delivery was POSTed                         *)
    accepted, (* the deliveries a receiver answered 2xx                     *)
    faults    (* how many faults there were                                 *)

vars == <<config, row, older, pc, targets, batch, job, outcome, expired,
          posts, accepted, faults>>

Delivery == Event \X Hook
Worker   == "worker"
Actor    == Event \cup {Worker}

(* A row: its status ("none": there is no such row), its attempts, and     *)
(* whether next_retry_at is null or past.                                  *)
Row    == [status : {"none", "pending", "success", "failed"},
           attempts : 0..MaxRetries, due : BOOLEAN]
NoRow  == [status |-> "none", attempts |-> 0, due |-> FALSE]

Copy   == [of : Delivery, attempts : 0..MaxRetries]
NoCopy == [of |-> CHOOSE d \in Delivery : TRUE, attempts |-> 0]

(* Of a goroutine of fire: "off", "save" the rows left, "post" and         *)
(* "record" a delivery, "done".  Of the worker: "off" until the ticker     *)
(* fires, "next" row of the batch, "post" and "record".                    *)
Typed ==
    /\ config \in [Hook -> {"enabled", "disabled", "deleted"}]
    /\ row \in [Delivery -> Row]
    /\ older \subseteq Delivery \X Delivery
    /\ pc \in [Actor -> {"off", "save", "next", "post", "record", "done"}]
    /\ targets \in [Event -> SUBSET Hook]
    /\ batch \in Seq(Copy)
    /\ job \in [Actor -> Copy]
    /\ outcome \in [Actor -> {"none", "ok", "refused", "timeout"}]
    /\ expired \subseteq Actor
    /\ posts \in [Delivery -> Nat]
    /\ accepted \subseteq Delivery
    /\ faults \in 0..MaxFaults

TypeOK ==
    /\ Typed
    /\ \A d \in Delivery : row[d].status = "pending" => row[d].attempts < MaxRetries

Init ==
    /\ config = [h \in Hook |-> "enabled"]
    /\ row = [d \in Delivery |-> NoRow]
    /\ older = {}
    /\ pc = [a \in Actor |-> "off"]
    /\ targets = [e \in Event |-> {}]
    /\ batch = <<>>
    /\ job = [a \in Actor |-> NoCopy]
    /\ outcome = [a \in Actor |-> "none"]
    /\ expired = {}
    /\ posts = [d \in Delivery |-> 0]
    /\ accepted = {}
    /\ faults = 0

----------------------------------------------------------------------------

Goto(a, p) == pc' = [pc EXCEPT ![a] = p]
Fault      == faults < MaxFaults /\ faults' = faults + 1

(* The outer context of a may be over by now. *)
MayExpire(a) == expired' \in {expired, expired \cup {a}}

----------------------------------------------------------------------------
(* Mutants: wrong variants of definitions below, each of which some        *)
(* property must catch.  They are no part of the specification.            *)

(* The attempt is not counted. *)
PostUncounted(a) ==
    /\ pc[a] = "post"
    /\ Goto(a, "record")
    /\ posts' = [posts EXCEPT ![job[a].of] = @ + 1]
    /\ \/ /\ outcome' = [outcome EXCEPT ![a] = "ok"]
          /\ accepted' = accepted \cup {job[a].of}
       \/ /\ outcome' = [outcome EXCEPT ![a] = "refused"]
          /\ UNCHANGED accepted
    /\ UNCHANGED <<config, row, older, targets, batch, job, expired, faults>>

(* Any answer of the receiver is a success. *)
RecordedLenient(o, n) ==
    [status |-> "success", attempts |-> n, due |-> n = 0]

(* The last attempt is not made. *)
RecordedEarly(o, n) ==
    [status   |-> IF o = "ok" THEN "success"
                  ELSE IF n + 1 >= MaxRetries THEN "failed" ELSE "pending",
     attempts |-> n, due |-> n = 0]

(* A row that was never attempted (its next_retry_at is null) is not due. *)
DueIfAttempted(d) == row[d].status = "pending" /\ row[d].due /\ row[d].attempts > 0

----------------------------------------------------------------------------

(* fire: FindEnabledByEvent. *)
FindEnabled(e) ==
    /\ pc[e] = "off"
    /\ Goto(e, "save")
    /\ targets' = [targets EXCEPT ![e] = {h \in Hook : config[h] = "enabled"}]
    /\ UNCHANGED <<config, row, older, batch, job, outcome, expired, posts,
                   accepted, faults>>

(* SaveDelivery inserts the row, due at once, and the first attempt        *)
(* follows.  It fails if the context is over, if the webhook was deleted   *)
(* (a foreign key), or with the database: that webhook misses the event.   *)
SaveDelivery(e) ==
    /\ pc[e] = "save"
    /\ \E h \in targets[e] :
        /\ targets' = [targets EXCEPT ![e] = @ \ {h}]
        /\ \/ /\ e \notin expired /\ config[h] # "deleted"
              /\ row' = [row EXCEPT ![<<e, h>>] =
                            [status |-> "pending", attempts |-> 0, due |-> TRUE]]
              /\ older' = older \cup {<<d, <<e, h>>>> : d \in {x \in Delivery : row[x].status # "none"}}
              /\ job' = [job EXCEPT ![e] = [of |-> <<e, h>>, attempts |-> 0]]
              /\ Goto(e, "post")
              /\ UNCHANGED faults
           \/ /\ e \in expired \/ config[h] = "deleted"
              /\ UNCHANGED <<row, older, job, pc, faults>>
           \/ /\ Fault
              /\ UNCHANGED <<row, older, job, pc>>
    /\ UNCHANGED <<config, batch, outcome, expired, posts, accepted>>

FireEnds(e) ==
    /\ pc[e] = "save" /\ targets[e] = {}
    /\ Goto(e, "done")
    /\ UNCHANGED <<config, row, older, targets, batch, job, outcome, expired,
                   posts, accepted, faults>>

(* deliver: the POST.  A receiver that takes the whole 10 seconds may have *)
(* accepted it, and the 5 seconds of fire are over then.                   *)
Post(a) ==
    /\ pc[a] = "post"
    /\ Goto(a, "record")
    /\ job' = [job EXCEPT ![a].attempts = @ + 1]
    /\ posts' = [posts EXCEPT ![job[a].of] = @ + 1]
    /\ \/ /\ outcome' = [outcome EXCEPT ![a] = "ok"]
          /\ accepted' = accepted \cup {job[a].of}
          /\ MayExpire(a)
          /\ UNCHANGED faults
       \/ /\ outcome' = [outcome EXCEPT ![a] = "refused"]
          /\ MayExpire(a)
          /\ UNCHANGED <<accepted, faults>>
       \/ /\ outcome' = [outcome EXCEPT ![a] = "timeout"]
          /\ accepted' \in {accepted, accepted \cup {job[a].of}}
          /\ IF a = Worker THEN MayExpire(a) ELSE expired' = expired \cup {a}
          /\ Fault
    /\ UNCHANGED <<config, row, older, targets, batch>>

(* What deliver and markFailed make of a row after n attempts.  It is due  *)
(* after 30 seconds for each of them: at once if there was none.           *)
Recorded(o, n) ==
    [status   |-> IF o = "ok" THEN "success"
                  ELSE IF n >= MaxRetries THEN "failed" ELSE "pending",
     attempts |-> n, due |-> n = 0]

(* UpdateDelivery, which is not reached in time after a timeout, and       *)
(* matches no row if the webhook was deleted.                              *)
Record(a) ==
    /\ pc[a] = "record"
    /\ Goto(a, IF a = Worker THEN "next" ELSE "save")
    /\ LET d == job[a].of IN
        \/ /\ outcome[a] # "timeout" /\ row[d].status # "none"
           /\ row' = [row EXCEPT ![d] = Recorded(outcome[a], job[a].attempts)]
           /\ UNCHANGED faults
        \/ /\ outcome[a] = "timeout" \/ row[d].status = "none"
           /\ UNCHANGED <<row, faults>>
        \/ /\ Fault /\ UNCHANGED row
    /\ job' = [job EXCEPT ![a] = NoCopy]
    /\ outcome' = [outcome EXCEPT ![a] = "none"]
    /\ UNCHANGED <<config, older, targets, batch, expired, posts, accepted>>

(* The retry time comes: 30 seconds or more after the attempt was          *)
(* recorded, by when any other attempt of the delivery (10 seconds at      *)
(* most) is over too.                                                      *)
RetryTimeComes(d) ==
    /\ row[d].status = "pending" /\ ~row[d].due
    /\ \A a \in Actor : pc[a] \in {"post", "record"} => job[a].of # d
    /\ row' = [row EXCEPT ![d].due = TRUE]
    /\ UNCHANGED <<config, older, pc, targets, batch, job, outcome, expired,
                   posts, accepted, faults>>

(* FindPendingDeliveries: at most n of the due rows, the oldest first.     *)
Due(d)     == row[d].status = "pending" /\ row[d].due
DueRows    == {d \in Delivery : Due(d)}
CopyOf(d)  == [of |-> d, attempts |-> row[d].attempts]
Pending(n) ==
    {ds \in UNION {[1..k -> DueRows] : k \in 1..n} :
        /\ \A i, j \in DOMAIN ds : ds[i] = ds[j] => i = j
        /\ \A i \in DOMAIN ds, d \in DueRows :
              <<d, ds[i]>> \in older => \E j \in 1..(i - 1) : ds[j] = d
        /\ DOMAIN ds = 1..n \/ \A d \in DueRows : \E i \in DOMAIN ds : ds[i] = d}

Poll ==
    /\ pc[Worker] = "off"
    /\ Goto(Worker, "next")
    /\ \E ds \in Pending(MaxBatchSize) : batch' = [i \in DOMAIN ds |-> CopyOf(ds[i])]
    /\ expired' = expired \ {Worker}
    /\ UNCHANGED <<config, row, older, targets, job, outcome, posts, accepted, faults>>

(* The next row of the batch: its webhook is looked up, enabled or not.    *)
(* If that fails, markFailed writes the row back without an attempt,       *)
(* unless the context is over or the webhook (and so the row) is gone.     *)
NextJob ==
    /\ pc[Worker] = "next" /\ batch # <<>>
    /\ batch' = Tail(batch)
    /\ LET c == Head(batch) IN
        \/ /\ Worker \notin expired /\ config[c.of[2]] # "deleted"
           /\ job' = [job EXCEPT ![Worker] = c]
           /\ Goto(Worker, "post")
           /\ UNCHANGED <<row, faults>>
        \/ /\ Worker \in expired \/ config[c.of[2]] = "deleted"
           /\ UNCHANGED <<row, job, pc, faults>>
        \/ /\ Worker \notin expired /\ row[c.of].status # "none"
           /\ row' = [row EXCEPT ![c.of] = Recorded("refused", c.attempts)]
           /\ Fault
           /\ UNCHANGED <<job, pc>>
    /\ UNCHANGED <<config, older, targets, outcome, expired, posts, accepted>>

BatchEnds ==
    /\ pc[Worker] = "next" /\ batch = <<>>
    /\ Goto(Worker, "off")
    /\ UNCHANGED <<config, row, older, targets, batch, job, outcome, expired,
                   posts, accepted, faults>>

(* The administrator. *)
Toggle(h) ==
    /\ config[h] # "deleted"
    /\ config' = [config EXCEPT ![h] = IF @ = "enabled" THEN "disabled" ELSE "enabled"]
    /\ UNCHANGED <<row, older, pc, targets, batch, job, outcome, expired, posts,
                   accepted, faults>>

(* The rows of the webhook are deleted with it (ON DELETE CASCADE). *)
Delete(h) ==
    /\ config[h] # "deleted"
    /\ config' = [config EXCEPT ![h] = "deleted"]
    /\ row' = [d \in Delivery |-> IF d[2] = h THEN NoRow ELSE row[d]]
    /\ older' = {p \in older : p[1][2] # h /\ p[2][2] # h}
    /\ UNCHANGED <<pc, targets, batch, job, outcome, expired, posts, accepted, faults>>

(* The process is killed, or stops without waiting for the goroutines of   *)
(* Fire, and is started again.                                             *)
Restart ==
    /\ Fault
    /\ pc' = [a \in Actor |-> IF a = Worker THEN "off"
                              ELSE IF pc[a] = "off" THEN "off" ELSE "done"]
    /\ targets' = [e \in Event |-> {}]
    /\ batch' = <<>>
    /\ job' = [a \in Actor |-> NoCopy]
    /\ outcome' = [a \in Actor |-> "none"]
    /\ expired' = {}
    /\ UNCHANGED <<config, row, older, posts, accepted>>

----------------------------------------------------------------------------

Deliver(a) == Post(a) \/ Record(a)
WorkerStep == Poll \/ NextJob \/ BatchEnds \/ Deliver(Worker)

Next ==
    \/ \E e \in Event : FindEnabled(e) \/ SaveDelivery(e) \/ FireEnds(e) \/ Deliver(e)
    \/ WorkerStep
    \/ \E d \in Delivery : RetryTimeComes(d)
    \/ \E h \in Hook : Toggle(h) \/ Delete(h)
    \/ Restart

Spec == Init /\ [][Next]_vars

(* The ticker of the worker fires again and again, every POST ends within  *)
(* its timeout, and time passes.                                           *)
Fairness ==
    /\ WF_vars(WorkerStep)
    /\ \A e \in Event : WF_vars(SaveDelivery(e) \/ FireEnds(e) \/ Deliver(e))
    /\ \A d \in Delivery : WF_vars(RetryTimeComes(d))

FairSpec == Spec /\ Fairness

----------------------------------------------------------------------------
(* Properties *)

(* A delivery is reported as a success only if its receiver accepted it,   *)
(* whichever of the two goroutines wrote the row last.                     *)
SuccessTruthful ==
    \A d \in Delivery : row[d].status = "success" => d \in accepted

(* A delivery is given up only after maxRetries real POSTs: attempts are   *)
(* never counted that were not made, even from stale copies of the row.    *)
GivesUpHonestly ==
    \A d \in Delivery :
        /\ row[d].attempts <= posts[d]
        /\ row[d].status = "failed" => posts[d] >= MaxRetries

(* A receiver is not flooded: the worker and the goroutine of Fire may     *)
(* both make the first attempt, and a fault may lose the record of an      *)
(* attempt; no other attempt exceeds maxRetries.                           *)
PostsBounded ==
    TypeOK /\ \A d \in Delivery : posts[d] <= MaxRetries + 1 + faults

(* A saved delivery does not stay pending for ever, whatever restarts and  *)
(* overwritten rows intervene, unless receivers are slow for ever.         *)
EventuallySettled ==
    \A d \in Delivery : row[d].status = "pending" ~> row[d].status # "pending"

(* "Fire enqueues delivery of event to every enabled webhook subscribed to *)
(* it": one that stayed enabled has a row when the goroutine has ended.    *)
EnqueuedForAll ==
    [][\A e \in Event, h \in Hook :
          pc[e] = "save" /\ h \in targets[e] /\ h \notin targets'[e]
          /\ config[h] = "enabled" => row'[<<e, h>>].status # "none"]_vars
=============================================================================
