--------------------------- MODULE WebhookProofs ---------------------------
(***************************************************************************)
(* Proofs about Webhook: what a delivery row says happened, and how often  *)
(* a receiver is called, for any number of events, webhooks, retries and   *)
(* faults and any size of the worker's batch.                              *)
(***************************************************************************)
EXTENDS Webhook, TLAPS

(* A delivery whose goroutine has not come to it, one that this goroutine  *)
(* is attempting, and one that the worker is attempting.                   *)
Fresh(d)   == pc[d[1]] = "off" \/ d[2] \in targets[d[1]]
Firing(d)  == pc[d[1]] \in {"post", "record"} /\ job[d[1]].of = d
Working(d) == pc[Worker] \in {"post", "record"} /\ job[Worker].of = d

(* The POSTs of a delivery that no count of attempts need show: the first  *)
(* one, which the worker may repeat, and those a fault left unrecorded.    *)
First(d) == IF Fresh(d) \/ (Firing(d) /\ pc[d[1]] = "post") THEN 0 ELSE 1
Spare(d) == First(d) + faults

(* The one the worker is about to record. *)
Unrecorded(d) ==
    IF Working(d) /\ pc[Worker] = "record" /\ outcome[Worker] # "timeout" THEN 1 ELSE 0

FreshSound(d) ==
    Fresh(d) => /\ posts[d] = 0 /\ row[d].status = "none" /\ ~Working(d)
                /\ \A i \in DOMAIN batch : batch[i].of # d

(* While its own goroutine attempts a delivery, the row says at most one   *)
(* attempt, and is due only if it says none.                               *)
RowSound(d) ==
    /\ row[d].attempts <= posts[d]
    /\ row[d].status = "success" => d \in accepted
    /\ row[d].status = "failed" => row[d].attempts >= MaxRetries
    /\ row[d].status = "pending" => row[d].attempts < MaxRetries
    /\ row[d].status # "none" =>
          posts[d] <= Spare(d) + row[d].attempts + Unrecorded(d)
    /\ Firing(d) /\ row[d].status # "none" =>
          row[d].attempts <= 1 /\ (row[d].due => row[d].attempts = 0)

(* A copy of n attempts that is to be attempted. *)
CopySound(d, n) ==
    /\ n <= posts[d] /\ n < MaxRetries
    /\ posts[d] <= Spare(d) + n
    /\ Firing(d) => n = 0

BatchSound(d) ==
    \A i \in DOMAIN batch : batch[i].of = d =>
        CopySound(d, batch[i].attempts) /\ ~Working(d)

WorkSound(d) ==
    /\ Working(d) /\ pc[Worker] = "post" => CopySound(d, job[Worker].attempts)
    /\ Working(d) /\ pc[Worker] = "record" =>
          /\ 1 <= job[Worker].attempts /\ job[Worker].attempts <= posts[d]
          /\ posts[d] <= Spare(d) + job[Worker].attempts
          /\ Firing(d) => job[Worker].attempts = 1
          /\ outcome[Worker] = "ok" => d \in accepted

FireSound(d) ==
    Firing(d) =>
        /\ d[2] \notin targets[d[1]]
        /\ pc[d[1]] = "post" => job[d[1]].attempts = 0
        /\ pc[d[1]] = "record" =>
              /\ job[d[1]].attempts = 1 /\ 1 <= posts[d]
              /\ outcome[d[1]] = "ok" => d \in accepted

Ceiling(d) == posts[d] <= Spare(d) + MaxRetries

(* The goroutine of an event attempts deliveries of that event only.       *)
OwnJobs ==
    \A e \in Event : pc[e] \in {"post", "record"} => job[e].of[1] = e

(* No row is in a batch twice. *)
BatchDistinct ==
    \A i, j \in DOMAIN batch : batch[i].of = batch[j].of => i = j

Sound(d) ==
    /\ FreshSound(d) /\ RowSound(d) /\ BatchSound(d) /\ WorkSound(d)
    /\ FireSound(d) /\ Ceiling(d)

IInv == OwnJobs /\ BatchDistinct /\ \A d \in Delivery : Sound(d)

Inv == Typed /\ IInv

----------------------------------------------------------------------------
(* The data *)

LEMMA Constants ==
  /\ MaxRetries \in Nat /\ MaxRetries >= 1 /\ MaxBatchSize \in Nat /\ MaxBatchSize >= 1
  /\ Worker \in Actor /\ Worker \notin Event /\ Event \subseteq Actor
  /\ NoCopy \in Copy
<1>1. Delivery # {}
  <2>1. PICK e \in Event, h \in Hook : TRUE
    BY WebhookAssumption
  <2>2. <<e, h>> \in Delivery
    BY DEF Delivery
  <2> QED
    BY <2>2
<1>2. MaxRetries \in Nat /\ MaxRetries >= 1 /\ MaxBatchSize \in Nat /\ MaxBatchSize >= 1
  BY WebhookAssumption
<1>3. 0 \in 0..MaxRetries
  BY <1>2
<1>4. NoCopy \in Copy
  BY <1>1, <1>3 DEF NoCopy, Copy
<1> QED
  BY <1>2, <1>4, WebhookAssumption DEF Worker, Actor

LEMMA DeliveryParts ==
  ASSUME NEW d \in Delivery
  PROVE  d[1] \in Event /\ d[2] \in Hook /\ d = <<d[1], d[2]>> /\ d[1] \in Actor /\ d[1] # Worker
BY Constants DEF Delivery

LEMMA DeliveryOf ==
  ASSUME NEW e \in Event, NEW h \in Hook
  PROVE  <<e, h>> \in Delivery /\ <<e, h>>[1] = e /\ <<e, h>>[2] = h
BY DEF Delivery

LEMMA RowFields ==
  ASSUME NEW r \in Row
  PROVE  /\ r.status \in {"none", "pending", "success", "failed"}
         /\ r.attempts \in Nat /\ r.attempts <= MaxRetries
  BY Constants DEF Row

LEMMA NewRow ==
  ASSUME NEW s \in {"none", "pending", "success", "failed"}, NEW n \in 0..MaxRetries,
         NEW b \in BOOLEAN
  PROVE  LET r == [status |-> s, attempts |-> n, due |-> b]
         IN  r \in Row /\ r.status = s /\ r.attempts = n /\ (r.due <=> b)
  BY DEF Row

LEMMA CopyFields ==
  ASSUME NEW c \in Copy
  PROVE  /\ c.of \in Delivery /\ c.attempts \in Nat /\ c.attempts <= MaxRetries
         /\ c.attempts \in 0..MaxRetries
  BY Constants DEF Copy

LEMMA RecordedDoes ==
  ASSUME NEW o, NEW n \in 0..MaxRetries
  PROVE  /\ Recorded(o, n) \in Row
         /\ Recorded(o, n).attempts = n
         /\ Recorded(o, n).due => n = 0
         /\ Recorded(o, n).status = IF o = "ok" THEN "success"
                                    ELSE IF n >= MaxRetries THEN "failed" ELSE "pending"
<1> DEFINE s == IF o = "ok" THEN "success"
                ELSE IF n >= MaxRetries THEN "failed" ELSE "pending"
           b == n = 0
<1>1. s \in {"none", "pending", "success", "failed"} /\ b \in BOOLEAN
  OBVIOUS
<1>2. Recorded(o, n) = [status |-> s, attempts |-> n, due |-> b]
  BY DEF Recorded
<1> HIDE DEF s, b
<1>3. /\ Recorded(o, n) \in Row /\ Recorded(o, n).status = s
      /\ Recorded(o, n).attempts = n /\ (Recorded(o, n).due <=> b)
  BY <1>1, <1>2, NewRow
<1> QED
  BY <1>3 DEF s, b

LEMMA NoRowDoes == NoRow \in Row /\ NoRow.status = "none" /\ NoRow.attempts = 0
<1>1. 0 \in 0..MaxRetries
  BY Constants
<1> QED
  BY <1>1, NewRow DEF NoRow

LEMMA TypedFields ==
  ASSUME Typed
  PROVE  /\ \A a \in Actor : job[a] \in Copy /\ job[a].of \in Delivery
                             /\ job[a].attempts \in Nat
         /\ \A d \in Delivery : row[d] \in Row /\ row[d].attempts \in Nat
                                /\ row[d].attempts <= MaxRetries /\ posts[d] \in Nat
         /\ \A i \in DOMAIN batch : batch[i] \in Copy /\ batch[i].of \in Delivery
                                    /\ batch[i].attempts \in Nat
         /\ faults \in Nat
<1>1. \A i \in DOMAIN batch : batch[i] \in Copy
  BY DEF Typed
<1>2. \A a \in Actor : job[a] \in Copy
  BY DEF Typed
<1>3. \A d \in Delivery : row[d] \in Row /\ posts[d] \in Nat
  BY DEF Typed
<1>4. faults \in Nat
  BY WebhookAssumption DEF Typed
<1> QED
  BY <1>1, <1>2, <1>3, <1>4, CopyFields, RowFields

LEMMA SpareType ==
  ASSUME Typed, NEW d \in Delivery
  PROVE  First(d) \in {0, 1} /\ Spare(d) \in Nat /\ Spare(d) <= 1 + faults
BY TypedFields DEF First, Spare

----------------------------------------------------------------------------
(* What the actions do *)

LEMMA FindEnabledDoes ==
  ASSUME Typed, NEW e \in Event, FindEnabled(e)
  PROVE  /\ pc[e] = "off" /\ pc' = [pc EXCEPT ![e] = "save"]
         /\ targets' \in [Event -> SUBSET Hook]
         /\ \A x \in Event : x # e => targets'[x] = targets[x]
BY DEF FindEnabled, Goto, Typed

LEMMA SaveDeliveryDoes ==
  ASSUME Typed, NEW e \in Event, SaveDelivery(e)
  PROVE  /\ pc[e] = "save"
         /\ \E h \in targets[e] :
              /\ h \in Hook
              /\ targets' = [targets EXCEPT ![e] = @ \ {h}]
              /\ \/ /\ \E r \in Row :
                          /\ r.status = "pending" /\ r.attempts = 0
                          /\ row' = [row EXCEPT ![<<e, h>>] = r]
                    /\ \E c \in Copy :
                          /\ c.of = <<e, h>> /\ c.attempts = 0
                          /\ job' = [job EXCEPT ![e] = c]
                    /\ pc' = [pc EXCEPT ![e] = "post"]
                    /\ UNCHANGED faults
                 \/ /\ UNCHANGED <<row, job, pc>>
                    /\ faults' \in Nat /\ faults' >= faults
<1>1. PICK h \in targets[e] :
        /\ targets' = [targets EXCEPT ![e] = @ \ {h}]
        /\ \/ /\ row' = [row EXCEPT ![<<e, h>>] =
                            [status |-> "pending", attempts |-> 0, due |-> TRUE]]
              /\ job' = [job EXCEPT ![e] = [of |-> <<e, h>>, attempts |-> 0]]
              /\ pc' = [pc EXCEPT ![e] = "post"]
              /\ UNCHANGED faults
           \/ UNCHANGED <<row, job, pc, faults>>
           \/ faults' = faults + 1 /\ UNCHANGED <<row, job, pc>>
  BY DEF SaveDelivery, Goto, Fault
<1>2. h \in Hook /\ faults \in Nat
  BY TypedFields DEF Typed
<1>3. 0 \in 0..MaxRetries /\ TRUE \in BOOLEAN
  BY Constants
<1> DEFINE r == [status |-> "pending", attempts |-> 0, due |-> TRUE]
           c == [of |-> <<e, h>>, attempts |-> 0]
<1>4. r \in Row /\ r.status = "pending" /\ r.attempts = 0
  BY <1>3, NewRow
<1>5. c \in Copy /\ c.of = <<e, h>> /\ c.attempts = 0
  BY <1>2, <1>3, DeliveryOf DEF Copy
<1> HIDE DEF r, c
<1>6. \/ /\ row' = [row EXCEPT ![<<e, h>>] = r]
         /\ job' = [job EXCEPT ![e] = c]
         /\ pc' = [pc EXCEPT ![e] = "post"]
         /\ UNCHANGED faults
      \/ /\ UNCHANGED <<row, job, pc>>
         /\ faults' \in Nat /\ faults' >= faults
  BY <1>1, <1>2 DEF r, c
<1>7. pc[e] = "save"
  BY DEF SaveDelivery
<1> QED
  BY <1>1, <1>2, <1>4, <1>5, <1>6, <1>7

LEMMA PostDoes ==
  ASSUME Typed, NEW a \in Actor, Post(a)
  PROVE  /\ pc[a] = "post" /\ pc' = [pc EXCEPT ![a] = "record"]
         /\ \A b \in Actor : b # a => job'[b] = job[b] /\ outcome'[b] = outcome[b]
         /\ job'[a].of = job[a].of /\ job'[a].attempts = job[a].attempts + 1
         /\ job' = [job EXCEPT ![a] = job'[a]]
         /\ job[a].attempts < MaxRetries => job'[a] \in Copy
         /\ posts' = [posts EXCEPT ![job[a].of] = posts[job[a].of] + 1]
         /\ outcome' \in [Actor -> {"none", "ok", "refused", "timeout"}]
         /\ accepted \subseteq accepted' /\ accepted' \subseteq Delivery
         /\ outcome'[a] = "ok" => job[a].of \in accepted'
         /\ faults' \in 0..MaxFaults
         /\ faults' = IF outcome'[a] = "timeout" THEN faults + 1 ELSE faults
         /\ expired' \subseteq Actor
         /\ UNCHANGED <<config, row, older, targets, batch>>
<1>1. job[a] \in Copy /\ job[a].of \in Delivery /\ job[a].attempts \in Nat /\ faults \in Nat
  BY TypedFields
<1>2. job' = [job EXCEPT ![a] = [job[a] EXCEPT !.attempts = @ + 1]]
  BY DEF Post
<1>3. /\ job'[a] = [job[a] EXCEPT !.attempts = @ + 1]
      /\ \A b \in Actor : b # a => job'[b] = job[b]
      /\ job' = [job EXCEPT ![a] = job'[a]]
  BY <1>2 DEF Typed
<1>4. /\ job'[a].of = job[a].of /\ job'[a].attempts = job[a].attempts + 1
      /\ job[a].attempts < MaxRetries => job'[a] \in Copy
  BY <1>1, <1>3, Constants DEF Copy
<1>5. /\ outcome' \in [Actor -> {"none", "ok", "refused", "timeout"}]
      /\ \A b \in Actor : b # a => outcome'[b] = outcome[b]
      /\ accepted \subseteq accepted' /\ accepted' \subseteq Delivery
      /\ outcome'[a] = "ok" => job[a].of \in accepted'
  BY <1>1 DEF Post, Typed
<1>6. faults' = IF outcome'[a] = "timeout" THEN faults + 1 ELSE faults
  BY DEF Post, Typed, Fault
<1>7. faults' \in 0..MaxFaults
  BY <1>1, WebhookAssumption DEF Post, Typed, Fault
<1>8. expired' \subseteq Actor
  BY DEF Post, Typed, MayExpire
<1>9. /\ pc[a] = "post" /\ pc' = [pc EXCEPT ![a] = "record"]
      /\ posts' = [posts EXCEPT ![job[a].of] = posts[job[a].of] + 1]
      /\ UNCHANGED <<config, row, older, targets, batch>>
  BY DEF Post, Goto
<1> QED
  BY <1>3, <1>4, <1>5, <1>6, <1>7, <1>8, <1>9

LEMMA RecordDoes ==
  ASSUME Typed, NEW a \in Actor, Record(a)
  PROVE  /\ pc[a] = "record"
         /\ pc' = [pc EXCEPT ![a] = IF a = Worker THEN "next" ELSE "save"]
         /\ job' = [job EXCEPT ![a] = NoCopy]
         /\ outcome' = [outcome EXCEPT ![a] = "none"]
         /\ faults' \in 0..MaxFaults
         /\ \/ /\ row[job[a].of].status # "none"
               /\ row' = [row EXCEPT ![job[a].of] = Recorded(outcome[a], job[a].attempts)]
               /\ faults' = faults
            \/ /\ outcome[a] = "timeout" \/ row[job[a].of].status = "none"
               /\ UNCHANGED <<row, faults>>
            \/ faults' = faults + 1 /\ UNCHANGED row
         /\ UNCHANGED <<config, older, targets, batch, expired, posts, accepted>>
<1>1. faults' \in 0..MaxFaults
  BY WebhookAssumption, TypedFields DEF Record, Fault, Typed
<1> QED
  BY <1>1 DEF Record, Goto, Fault

LEMMA PollDoes ==
  ASSUME Typed, Poll
  PROVE  /\ pc[Worker] = "off" /\ pc' = [pc EXCEPT ![Worker] = "next"]
         /\ batch' \in Seq(Copy)
         /\ \A i, j \in DOMAIN batch' : batch'[i].of = batch'[j].of => i = j
         /\ \A i \in DOMAIN batch' :
               LET d == batch'[i].of
               IN  /\ d \in Delivery /\ row[d].status = "pending" /\ row[d].due
                   /\ batch'[i].attempts = row[d].attempts
         /\ expired' \subseteq Actor
         /\ UNCHANGED <<config, row, older, targets, job, outcome, posts, accepted, faults>>
<1>1. PICK ds \in Pending(MaxBatchSize) : batch' = [i \in DOMAIN ds |-> CopyOf(ds[i])]
  BY DEF Poll
<1>2. PICK k \in 1..MaxBatchSize : ds \in [1..k -> DueRows]
  BY <1>1 DEF Pending
<1>3. \A i, j \in 1..k : ds[i] = ds[j] => i = j
  BY <1>1, <1>2 DEF Pending
<1>4. batch' = [i \in 1..k |-> CopyOf(ds[i])]
  BY <1>1, <1>2
<1>5. \A i \in 1..k : /\ ds[i] \in Delivery /\ row[ds[i]].status = "pending" /\ row[ds[i]].due
                      /\ row[ds[i]].attempts \in 0..MaxRetries
  <2>1. \A i \in 1..k : ds[i] \in Delivery /\ row[ds[i]].status = "pending" /\ row[ds[i]].due
    BY <1>2 DEF DueRows, Due
  <2> QED
    BY <2>1, TypedFields, Constants
<1>6. \A i \in 1..k : /\ CopyOf(ds[i]) \in Copy /\ CopyOf(ds[i]).of = ds[i]
                      /\ CopyOf(ds[i]).attempts = row[ds[i]].attempts
  BY <1>5 DEF CopyOf, Copy
<1>7. k \in Nat
  BY <1>2, Constants
<1>8. batch' \in Seq(Copy) /\ DOMAIN batch' = 1..k
  BY <1>4, <1>6, <1>7
<1> QED
  BY <1>3, <1>4, <1>5, <1>6, <1>8 DEF Poll, Goto, Typed

LEMMA TailDoes ==
  ASSUME Typed, batch # <<>>, NEW t, t = Tail(batch)
  PROVE  /\ t \in Seq(Copy) /\ Head(batch) = batch[1] /\ 1 \in DOMAIN batch
         /\ \A i \in DOMAIN t : i + 1 \in DOMAIN batch /\ t[i] = batch[i + 1] /\ i + 1 # 1
                                /\ i \in Nat
BY DEF Typed

LEMMA NextJobDoes ==
  ASSUME Typed, NextJob
  PROVE  /\ pc[Worker] = "next" /\ batch # <<>> /\ batch' = Tail(batch)
         /\ batch[1] \in Copy /\ Head(batch) = batch[1] /\ 1 \in DOMAIN batch
         /\ \/ /\ job' = [job EXCEPT ![Worker] = batch[1]]
               /\ pc' = [pc EXCEPT ![Worker] = "post"]
               /\ UNCHANGED <<row, faults>>
            \/ UNCHANGED <<row, job, pc, faults>>
            \/ /\ row[batch[1].of].status # "none"
               /\ row' = [row EXCEPT ![batch[1].of] = Recorded("refused", batch[1].attempts)]
               /\ faults' = faults + 1
               /\ UNCHANGED <<job, pc>>
         /\ faults' \in 0..MaxFaults
         /\ UNCHANGED <<config, older, targets, outcome, expired, posts, accepted>>
<1>1. batch # <<>> /\ batch' = Tail(batch)
  BY DEF NextJob
<1>2. Head(batch) = batch[1] /\ 1 \in DOMAIN batch /\ batch[1] \in Copy
  BY <1>1, TailDoes, TypedFields
<1>3. faults' \in 0..MaxFaults
  BY TypedFields, WebhookAssumption DEF NextJob, Fault, Typed
<1> QED
  BY <1>1, <1>2, <1>3 DEF NextJob, Goto, Fault

LEMMA RetryTimeComesDoes ==
  ASSUME Typed, NEW d \in Delivery, RetryTimeComes(d)
  PROVE  /\ \A x \in Delivery \ {d} : row'[x] = row[x]
         /\ row' \in [Delivery -> Row]
         /\ row'[d].status = row[d].status /\ row'[d].attempts = row[d].attempts
         /\ \A a \in Actor : pc[a] \in {"post", "record"} => job[a].of # d
         /\ UNCHANGED <<config, older, pc, targets, batch, job, outcome, expired,
                        posts, accepted, faults>>
<1>1. row' = [row EXCEPT ![d] = [row[d] EXCEPT !.due = TRUE]]
  BY DEF RetryTimeComes
<1>2. row[d] \in Row /\ TRUE \in BOOLEAN
  BY TypedFields
<1> DEFINE r == [row[d] EXCEPT !.due = TRUE]
<1>3. r \in Row /\ r.status = row[d].status /\ r.attempts = row[d].attempts
  BY <1>2 DEF Row
<1>4. row' = [row EXCEPT ![d] = r]
  BY <1>1
<1> HIDE DEF r
<1>5. /\ \A x \in Delivery \ {d} : row'[x] = row[x]
      /\ row' \in [Delivery -> Row] /\ row'[d] = r
  BY <1>3, <1>4 DEF Typed
<1>6. \A a \in Actor : pc[a] \in {"post", "record"} => job[a].of # d
  BY DEF RetryTimeComes
<1>7. UNCHANGED <<config, older, pc, targets, batch, job, outcome, expired,
                  posts, accepted, faults>>
  BY DEF RetryTimeComes
<1> QED
  BY <1>3, <1>5, <1>6, <1>7

LEMMA DeleteDoes ==
  ASSUME Typed, NEW h \in Hook, Delete(h)
  PROVE  /\ row' \in [Delivery -> Row]
         /\ \A d \in Delivery : row'[d] = row[d] \/ row'[d] = NoRow
         /\ config' \in [Hook -> {"enabled", "disabled", "deleted"}]
         /\ older' \subseteq Delivery \X Delivery
         /\ UNCHANGED <<pc, targets, batch, job, outcome, expired, posts, accepted, faults>>
<1>1. row' = [d \in Delivery |-> IF d[2] = h THEN NoRow ELSE row[d]]
  BY DEF Delete
<1>2. row' \in [Delivery -> Row]
  BY <1>1, NoRowDoes DEF Typed
<1>3. \A d \in Delivery : row'[d] = row[d] \/ row'[d] = NoRow
  BY <1>1
<1>4. /\ config' \in [Hook -> {"enabled", "disabled", "deleted"}]
      /\ older' \subseteq Delivery \X Delivery
  BY DEF Delete, Typed
<1>5. UNCHANGED <<pc, targets, batch, job, outcome, expired, posts, accepted, faults>>
  BY DEF Delete
<1> QED
  BY <1>2, <1>3, <1>4, <1>5

LEMMA RestartDoes ==
  ASSUME Typed, Restart
  PROVE  /\ pc'[Worker] = "off"
         /\ \A e \in Event : \/ pc[e] = "off" /\ pc'[e] = "off"
                             \/ pc[e] # "off" /\ pc'[e] = "done"
         /\ pc' \in [Actor -> {"off", "save", "next", "post", "record", "done"}]
         /\ targets' = [e \in Event |-> {}]
         /\ batch' = <<>> /\ job' = [a \in Actor |-> NoCopy]
         /\ outcome' = [a \in Actor |-> "none"] /\ expired' = {}
         /\ faults' = faults + 1 /\ faults' \in 0..MaxFaults
         /\ UNCHANGED <<config, row, older, posts, accepted>>
<1>1. faults' = faults + 1 /\ faults' \in 0..MaxFaults
  BY TypedFields, WebhookAssumption DEF Restart, Fault
<1>2. pc' = [a \in Actor |-> IF a = Worker THEN "off"
                             ELSE IF pc[a] = "off" THEN "off" ELSE "done"]
  BY DEF Restart
<1>3. /\ pc'[Worker] = "off"
      /\ \A e \in Event : \/ pc[e] = "off" /\ pc'[e] = "off"
                          \/ pc[e] # "off" /\ pc'[e] = "done"
      /\ pc' \in [Actor -> {"off", "save", "next", "post", "record", "done"}]
  BY <1>2, Constants
<1> QED
  BY <1>1, <1>3 DEF Restart

(* The steps of which no delivery takes note. *)
LEMMA QuietDoes ==
  ASSUME Typed, NEW x,
         \/ x \in Event /\ FireEnds(x)
         \/ x = Worker /\ BatchEnds
         \/ x = Worker /\ \E h \in Hook : Toggle(h)
  PROVE  /\ UNCHANGED <<row, older, targets, batch, job, outcome, expired, posts,
                        accepted, faults>>
         /\ config' \in [Hook -> {"enabled", "disabled", "deleted"}]
         /\ \/ UNCHANGED pc
            \/ /\ x \in Event /\ pc[x] = "save" /\ pc' = [pc EXCEPT ![x] = "done"]
            \/ /\ x = Worker /\ pc[x] = "next" /\ pc' = [pc EXCEPT ![x] = "off"]
BY DEF FireEnds, BatchEnds, Toggle, Goto, Typed

----------------------------------------------------------------------------
(* Every variable keeps its type: no attempt is made of a delivery that    *)
(* had all of them.                                                        *)

LEMMA AttemptsLeft ==
  ASSUME Typed, IInv, NEW a \in Actor, pc[a] = "post"
  PROVE  job[a].attempts < MaxRetries
<1>1. job[a].of \in Delivery
  BY TypedFields
<1>2. CASE a = Worker
  BY <1>1, <1>2 DEF IInv, Sound, WorkSound, Working, CopySound
<1>3. CASE a \in Event
  <2>1. Firing(job[a].of) /\ job[a].of[1] = a
    BY <1>3 DEF IInv, OwnJobs, Firing
  <2>2. job[a].attempts = 0
    BY <1>1, <2>1 DEF IInv, Sound, FireSound
  <2> QED
    BY <2>2, Constants
<1> QED
  BY <1>2, <1>3 DEF Actor

LEMMA TypedStep ==
  ASSUME Typed, IInv, Next
  PROVE  Typed'
<1>1. ASSUME NEW e \in Event, FindEnabled(e) PROVE Typed'
  BY <1>1, FindEnabledDoes, Constants DEF FindEnabled, Typed
<1>2. ASSUME NEW e \in Event, SaveDelivery(e) PROVE Typed'
  <2>1. PICK h \in targets[e] :
          /\ h \in Hook
          /\ targets' = [targets EXCEPT ![e] = @ \ {h}]
          /\ \/ /\ \E r \in Row :
                      /\ r.status = "pending" /\ r.attempts = 0
                      /\ row' = [row EXCEPT ![<<e, h>>] = r]
                /\ \E c \in Copy :
                      /\ c.of = <<e, h>> /\ c.attempts = 0
                      /\ job' = [job EXCEPT ![e] = c]
                /\ pc' = [pc EXCEPT ![e] = "post"]
                /\ UNCHANGED faults
             \/ /\ UNCHANGED <<row, job, pc>>
                /\ faults' \in Nat /\ faults' >= faults
    BY <1>2, SaveDeliveryDoes
  <2>2. /\ row' \in [Delivery -> Row] /\ targets' \in [Event -> SUBSET Hook]
        /\ job' \in [Actor -> Copy]
        /\ pc' \in [Actor -> {"off", "save", "next", "post", "record", "done"}]
    <3>1. targets' \in [Event -> SUBSET Hook]
      BY <2>1 DEF Typed
    <3>2. row' \in [Delivery -> Row]
      BY <2>1 DEF Typed
    <3>3. job' \in [Actor -> Copy]
      BY <2>1 DEF Typed
    <3>4. pc' \in [Actor -> {"off", "save", "next", "post", "record", "done"}]
      BY <2>1 DEF Typed
    <3> QED
      BY <3>1, <3>2, <3>3, <3>4
  <2>3. older' \subseteq Delivery \X Delivery
    <3>1. <<e, h>> \in Delivery
      BY <2>1, DeliveryOf
    <3>2. \/ older' = older
          \/ \E g \in targets[e] :
                older' = older \cup {<<d, <<e, g>>>> : d \in {x \in Delivery : row[x].status # "none"}}
      BY <1>2 DEF SaveDelivery
    <3>3. \A g \in targets[e] : <<e, g>> \in Delivery
      BY DeliveryOf DEF Typed
    <3> QED
      BY <3>2, <3>3 DEF Typed
  <2>4. faults' \in 0..MaxFaults
    BY <1>2, WebhookAssumption DEF SaveDelivery, Fault, Typed
  <2> QED
    BY <1>2, <2>2, <2>3, <2>4 DEF SaveDelivery, Typed
<1>3. ASSUME NEW a \in Actor, Post(a) PROVE Typed'
  <2>1. job'[a] \in Copy /\ job' = [job EXCEPT ![a] = job'[a]]
    BY <1>3, PostDoes, AttemptsLeft
  <2>2. job' \in [Actor -> Copy]
    BY <2>1 DEF Typed
  <2>3. /\ outcome' \in [Actor -> {"none", "ok", "refused", "timeout"}]
        /\ accepted' \subseteq Delivery /\ faults' \in 0..MaxFaults /\ expired' \subseteq Actor
        /\ UNCHANGED <<config, row, older, targets, batch>>
        /\ pc' = [pc EXCEPT ![a] = "record"]
    BY <1>3, PostDoes
  <2>4. posts' \in [Delivery -> Nat]
    <3>1. posts' = [posts EXCEPT ![job[a].of] = posts[job[a].of] + 1]
      BY <1>3, PostDoes
    <3>2. posts[job[a].of] + 1 \in Nat
      BY TypedFields
    <3> QED
      BY <3>1, <3>2 DEF Typed
  <2> QED
    BY <2>2, <2>3, <2>4 DEF Typed
<1>4. ASSUME NEW a \in Actor, Record(a) PROVE Typed'
  <2>1. /\ row' = row \/ row' = [row EXCEPT ![job[a].of] = Recorded(outcome[a], job[a].attempts)]
        /\ pc' = [pc EXCEPT ![a] = IF a = Worker THEN "next" ELSE "save"]
        /\ job' = [job EXCEPT ![a] = NoCopy]
        /\ outcome' = [outcome EXCEPT ![a] = "none"]
        /\ faults' \in 0..MaxFaults
        /\ UNCHANGED <<config, older, targets, batch, expired, posts, accepted>>
    BY <1>4, RecordDoes
  <2>2. Recorded(outcome[a], job[a].attempts) \in Row
    BY TypedFields, CopyFields, RecordedDoes
  <2>3. row' \in [Delivery -> Row]
    BY <2>1, <2>2 DEF Typed
  <2> QED
    BY <2>1, <2>3, Constants DEF Typed
<1>5. CASE Poll
  BY <1>5, PollDoes DEF Typed
<1>6. CASE NextJob
  <2>1. /\ batch' = Tail(batch) /\ batch # <<>> /\ batch[1] \in Copy
        /\ job' = job \/ job' = [job EXCEPT ![Worker] = batch[1]]
        /\ pc' = pc \/ pc' = [pc EXCEPT ![Worker] = "post"]
        /\ row' = row \/ row' = [row EXCEPT ![batch[1].of] = Recorded("refused", batch[1].attempts)]
        /\ faults' \in 0..MaxFaults
        /\ UNCHANGED <<config, older, targets, outcome, expired, posts, accepted>>
    BY <1>6, NextJobDoes
  <2>2. Recorded("refused", batch[1].attempts) \in Row
    BY <2>1, CopyFields, RecordedDoes
  <2>3. row' \in [Delivery -> Row]
    BY <2>1, <2>2 DEF Typed
  <2>4. batch' \in Seq(Copy)
    BY <2>1, TailDoes
  <2>5. job' \in [Actor -> Copy]
        /\ pc' \in [Actor -> {"off", "save", "next", "post", "record", "done"}]
    BY <2>1 DEF Typed
  <2> QED
    BY <2>1, <2>3, <2>4, <2>5 DEF Typed
<1>7. ASSUME NEW x, \/ x \in Event /\ FireEnds(x)
                    \/ x = Worker /\ BatchEnds
                    \/ x = Worker /\ \E h \in Hook : Toggle(h)
      PROVE  Typed'
  BY <1>7, QuietDoes DEF Typed
<1>8. ASSUME NEW d \in Delivery, RetryTimeComes(d) PROVE Typed'
  BY <1>8, RetryTimeComesDoes DEF Typed
<1>9. ASSUME NEW h \in Hook, Delete(h) PROVE Typed'
  BY <1>9, DeleteDoes DEF Typed
<1>10. CASE Restart
  <2>1. batch' \in Seq(Copy)
    BY <1>10, RestartDoes
  <2> QED
    BY <1>10, <2>1, RestartDoes, Constants DEF Typed
<1> QED
  BY <1>1, <1>2, <1>3, <1>4, <1>5, <1>6, <1>7, <1>8, <1>9, <1>10, Constants
     DEF Next, WorkerStep, Deliver

----------------------------------------------------------------------------
(* The inductive invariant *)

LEMMA SpareGrows ==
  ASSUME Typed, NEW d \in Delivery, faults' \in Nat, faults' >= faults,
         Fresh(d)' => Fresh(d),
         Firing(d)' => Firing(d) /\ pc'[d[1]] = pc[d[1]]
  PROVE  /\ First(d) \in {0, 1} /\ First(d)' \in {0, 1} /\ First(d)' >= First(d)
         /\ Spare(d) \in Nat /\ Spare(d)' \in Nat
         /\ Spare(d)' - First(d)' - faults' = Spare(d) - First(d) - faults
         /\ Spare(d)' >= Spare(d) + (faults' - faults)
<1>1. First(d) \in {0, 1} /\ First(d)' \in {0, 1} /\ First(d)' >= First(d)
  BY DEF First
<1> HIDE DEF First
<1>2. faults \in Nat
  BY TypedFields
<1> QED
  BY <1>1, <1>2 DEF Spare

(* A step that attempts and records nothing of a delivery: at most, some   *)
(* of its copies are dropped, a fault happens, or its row is deleted.      *)
LEMMA Calm ==
  ASSUME Typed, NEW d \in Delivery, Sound(d),
         row'[d] = row[d] \/ row'[d] = NoRow,
         posts'[d] = posts[d], accepted \subseteq accepted',
         \A i \in DOMAIN batch' : \E j \in DOMAIN batch : batch'[i] = batch[j],
         faults' \in Nat, faults' >= faults,
         Fresh(d)' => Fresh(d),
         Firing(d)' => /\ Firing(d) /\ pc'[d[1]] = pc[d[1]] /\ job'[d[1]] = job[d[1]]
                       /\ outcome'[d[1]] = outcome[d[1]] /\ d[2] \notin targets'[d[1]],
         Working(d)' => /\ Working(d) /\ pc'[Worker] = pc[Worker]
                        /\ job'[Worker] = job[Worker] /\ outcome'[Worker] = outcome[Worker],
         row[d].status # "none" => Unrecorded(d)' + faults' >= Unrecorded(d) + faults
  PROVE  Sound(d)'
<1>1. /\ First(d) \in {0, 1} /\ First(d)' \in {0, 1} /\ First(d)' >= First(d)
      /\ Spare(d) \in Nat /\ Spare(d)' \in Nat
      /\ Spare(d)' >= Spare(d) + (faults' - faults)
  BY SpareGrows
<1>2. /\ posts[d] \in Nat /\ faults \in Nat /\ row[d].attempts \in Nat
      /\ \A i \in DOMAIN batch : batch[i].attempts \in Nat
      /\ job[Worker].attempts \in Nat
      /\ MaxRetries \in Nat
  BY TypedFields, Constants
<1>3. Unrecorded(d) \in {0, 1} /\ Unrecorded(d)' \in {0, 1}
  BY DEF Unrecorded
<1>4. ASSUME NEW n \in Nat, CopySound(d, n) PROVE CopySound(d, n)'
  BY <1>1, <1>2, <1>4 DEF CopySound
<1>5. FreshSound(d)'
  BY NoRowDoes DEF Sound, FreshSound
<1>6. RowSound(d)'
  <2>1. CASE row'[d] = NoRow
    BY <1>2, <2>1, NoRowDoes DEF RowSound
  <2>2. CASE row'[d] = row[d]
    <3>1. row[d].status # "none" =>
             posts[d] <= Spare(d)' + row[d].attempts + Unrecorded(d)'
      BY <1>1, <1>2, <1>3 DEF Sound, RowSound
    <3> QED
      BY <2>2, <3>1 DEF Sound, RowSound
  <2> QED
    BY <2>1, <2>2
<1>7. BatchSound(d)'
  <2> SUFFICES ASSUME NEW i \in DOMAIN batch', batch'[i].of = d
               PROVE  (CopySound(d, batch[i].attempts) /\ ~Working(d))'
    BY DEF BatchSound
  <2>1. PICK j \in DOMAIN batch : batch'[i] = batch[j]
    OBVIOUS
  <2>2. CopySound(d, batch[j].attempts) /\ ~Working(d)
    BY <2>1 DEF Sound, BatchSound
  <2> QED
    BY <1>1, <1>2, <2>1, <2>2 DEF CopySound
<1>8. WorkSound(d)'
  <2>1. CASE ~Working(d)'
    BY <2>1 DEF WorkSound
  <2>2. CASE Working(d)' /\ pc[Worker] = "post"
    BY <1>1, <1>2, <2>2 DEF Sound, WorkSound, CopySound
  <2>3. CASE Working(d)' /\ pc[Worker] = "record"
    BY <1>1, <1>2, <2>3 DEF Sound, WorkSound
  <2> QED
    BY <2>1, <2>2, <2>3 DEF Working
<1>9. FireSound(d)'
  BY DEF Sound, FireSound
<1>10. Ceiling(d)'
  BY <1>1, <1>2 DEF Sound, Ceiling
<1> QED
  BY <1>5, <1>6, <1>7, <1>8, <1>9, <1>10 DEF Sound

LEMMA FindEnabledSound ==
  ASSUME Typed, NEW d \in Delivery, Sound(d), NEW e \in Event, FindEnabled(e)
  PROVE  Sound(d)'
<1>1. /\ pc[e] = "off" /\ pc' = [pc EXCEPT ![e] = "save"]
      /\ \A x \in Event : x # e => targets'[x] = targets[x]
  BY FindEnabledDoes
<1>2. UNCHANGED <<row, batch, job, outcome, posts, accepted, faults>>
  BY DEF FindEnabled
<1>3. d[1] \in Event /\ d[1] \in Actor /\ d[1] # Worker /\ Worker \in Actor /\ e # Worker
  BY DeliveryParts, Constants
<1>4. \A a \in Actor : a # e => pc'[a] = pc[a]
  BY <1>1 DEF Typed
<1>5. pc'[e] = "save"
  BY <1>1, Constants DEF Typed
<1>6. Fresh(d)' => Fresh(d)
  BY <1>1, <1>3, <1>4 DEF Fresh
<1>7. Firing(d)' => d[1] # e /\ Firing(d)
  BY <1>2, <1>3, <1>4, <1>5 DEF Firing
<1>8. (Working(d)' <=> Working(d)) /\ Unrecorded(d)' = Unrecorded(d)
  BY <1>2, <1>3, <1>4 DEF Working, Unrecorded
<1>9. Firing(d)' => d[2] \notin targets'[d[1]]
  BY <1>1, <1>3, <1>7 DEF Sound, FireSound
<1>10. faults \in Nat /\ Unrecorded(d) \in {0, 1}
  BY TypedFields DEF Unrecorded
<1> QED
  BY <1>2, <1>3, <1>4, <1>6, <1>7, <1>8, <1>9, <1>10, Calm

LEMMA QuietSound ==
  ASSUME Typed, NEW d \in Delivery, Sound(d), NEW x,
         \/ x \in Event /\ FireEnds(x)
         \/ x = Worker /\ BatchEnds
         \/ x = Worker /\ \E h \in Hook : Toggle(h)
  PROVE  Sound(d)'
<1>1. /\ UNCHANGED <<row, batch, targets, job, outcome, posts, accepted, faults>>
      /\ \/ UNCHANGED pc
         \/ /\ x \in Event /\ pc[x] = "save" /\ pc' = [pc EXCEPT ![x] = "done"]
         \/ /\ x = Worker /\ pc[x] = "next" /\ pc' = [pc EXCEPT ![x] = "off"]
  BY QuietDoes
<1>2. d[1] \in Event /\ d[1] \in Actor /\ d[1] # Worker /\ Worker \in Actor
  BY DeliveryParts, Constants
<1>3. \A a \in Actor : \/ pc'[a] = pc[a]
                       \/ a # Worker /\ pc[a] = "save" /\ pc'[a] = "done"
                       \/ a = Worker /\ pc[a] = "next" /\ pc'[a] = "off"
  BY <1>1, Constants DEF Typed
<1>4. Fresh(d)' => Fresh(d)
  BY <1>1, <1>2, <1>3 DEF Fresh
<1>5. Firing(d)' => Firing(d) /\ pc'[d[1]] = pc[d[1]]
  BY <1>1, <1>2, <1>3 DEF Firing
<1>6. (Working(d)' => Working(d) /\ pc'[Worker] = pc[Worker]) /\ Unrecorded(d)' = Unrecorded(d)
  BY <1>1, <1>2, <1>3 DEF Working, Unrecorded
<1>7. Firing(d)' => d[2] \notin targets'[d[1]]
  BY <1>1, <1>5 DEF Sound, FireSound
<1>8. faults \in Nat /\ Unrecorded(d) \in {0, 1}
  BY TypedFields DEF Unrecorded
<1> QED
  BY <1>1, <1>4, <1>5, <1>6, <1>7, <1>8, Calm

LEMMA DeleteSound ==
  ASSUME Typed, NEW d \in Delivery, Sound(d), NEW h \in Hook, Delete(h)
  PROVE  Sound(d)'
<1>1. row'[d] = row[d] \/ row'[d] = NoRow
  BY DeleteDoes
<1>2. UNCHANGED <<pc, targets, batch, job, outcome, posts, accepted, faults>>
  BY DeleteDoes
<1>3. /\ Fresh(d)' <=> Fresh(d)
      /\ Firing(d)' <=> Firing(d)
      /\ Working(d)' <=> Working(d)
      /\ Unrecorded(d)' = Unrecorded(d)
  BY <1>2 DEF Fresh, Firing, Working, Unrecorded
<1>4. Firing(d)' => d[2] \notin targets'[d[1]]
  BY <1>2, <1>3 DEF Sound, FireSound
<1>5. faults \in Nat /\ Unrecorded(d) \in {0, 1}
  BY TypedFields DEF Unrecorded
<1> QED
  BY <1>1, <1>2, <1>3, <1>4, <1>5, Calm

LEMMA RestartSound ==
  ASSUME Typed, NEW d \in Delivery, Sound(d), Restart
  PROVE  Sound(d)'
<1>1. d[1] \in Event /\ d[2] \in Hook
  BY DeliveryParts
<1>2. /\ pc'[Worker] = "off" /\ targets'[d[1]] = {} /\ DOMAIN batch' = {}
      /\ \/ pc[d[1]] = "off" /\ pc'[d[1]] = "off"
         \/ pc[d[1]] # "off" /\ pc'[d[1]] = "done"
      /\ faults' = faults + 1
      /\ UNCHANGED <<row, posts, accepted>>
  BY <1>1, RestartDoes
<1>3. (Fresh(d)' => Fresh(d)) /\ ~Firing(d)' /\ ~Working(d)'
  BY <1>2 DEF Fresh, Firing, Working
<1>4. faults \in Nat /\ Unrecorded(d) \in {0, 1} /\ Unrecorded(d)' \in {0, 1}
  BY TypedFields DEF Unrecorded
<1> QED
  BY <1>2, <1>3, <1>4, Calm

LEMMA RetryTimeComesSound ==
  ASSUME Typed, NEW d \in Delivery, Sound(d), NEW x \in Delivery, RetryTimeComes(x)
  PROVE  Sound(d)'
<1>1. /\ UNCHANGED <<pc, targets, batch, job, outcome, posts, accepted, faults>>
      /\ d # x => row'[d] = row[d]
      /\ d = x => /\ row'[d].status = row[d].status /\ row'[d].attempts = row[d].attempts
                  /\ \A a \in Actor : pc[a] \in {"post", "record"} => job[a].of # d
  BY RetryTimeComesDoes
<1>2. /\ Fresh(d)' <=> Fresh(d)
      /\ Firing(d)' <=> Firing(d)
      /\ Working(d)' <=> Working(d)
      /\ Unrecorded(d)' = Unrecorded(d)
  BY <1>1 DEF Fresh, Firing, Working, Unrecorded
<1>3. CASE d # x
  <2>1. Firing(d)' => d[2] \notin targets'[d[1]]
    BY <1>1, <1>2 DEF Sound, FireSound
  <2>2. faults \in Nat /\ Unrecorded(d) \in {0, 1}
    BY TypedFields DEF Unrecorded
  <2> QED
    BY <1>1, <1>2, <1>3, <2>1, <2>2, Calm
<1>4. CASE d = x
  <2>1. ~Firing(d) /\ ~Working(d)
    BY <1>1, <1>4, DeliveryParts, Constants DEF Firing, Working
  <2>2. First(d)' = First(d) /\ Spare(d)' = Spare(d)
    BY <1>1, <1>2 DEF First, Spare
  <2>3. FreshSound(d)' /\ FireSound(d)' /\ WorkSound(d)'
    BY <1>1, <1>2, <1>4, <2>1 DEF Sound, FreshSound, FireSound, WorkSound
  <2>4. RowSound(d)'
    BY <1>1, <1>2, <1>4, <2>1, <2>2 DEF Sound, RowSound
  <2>5. BatchSound(d)' /\ Ceiling(d)'
    BY <1>1, <1>2, <2>2 DEF Sound, BatchSound, CopySound, Ceiling
  <2> QED
    BY <2>3, <2>4, <2>5 DEF Sound
<1> QED
  BY <1>3, <1>4

LEMMA SaveDeliverySound ==
  ASSUME Typed, NEW d \in Delivery, Sound(d), NEW e \in Event, SaveDelivery(e)
  PROVE  Sound(d)'
<1>1. PICK h \in targets[e] :
        /\ h \in Hook
        /\ targets' = [targets EXCEPT ![e] = @ \ {h}]
        /\ \/ /\ \E r \in Row :
                    /\ r.status = "pending" /\ r.attempts = 0
                    /\ row' = [row EXCEPT ![<<e, h>>] = r]
              /\ \E c \in Copy :
                    /\ c.of = <<e, h>> /\ c.attempts = 0
                    /\ job' = [job EXCEPT ![e] = c]
              /\ pc' = [pc EXCEPT ![e] = "post"]
              /\ UNCHANGED faults
           \/ /\ UNCHANGED <<row, job, pc>>
              /\ faults' \in Nat /\ faults' >= faults
  BY SaveDeliveryDoes
<1>2. /\ pc[e] = "save"
      /\ UNCHANGED <<batch, outcome, posts, accepted>>
  BY DEF SaveDelivery
<1>3. d[1] \in Event /\ d[2] \in Hook /\ d = <<d[1], d[2]>> /\ d[1] \in Actor /\ d[1] # Worker
      /\ Worker \in Actor /\ e \in Actor /\ e # Worker
  BY DeliveryParts, Constants
<1>4. /\ <<e, h>> \in Delivery /\ <<e, h>>[1] = e /\ <<e, h>>[2] = h
  BY <1>1, DeliveryOf
<1>5. /\ \A x \in Event : targets'[x] \subseteq targets[x]
      /\ targets'[e] = targets[e] \ {h}
  BY <1>1 DEF Typed
<1>6. pc'[d[1]] = "off" => pc[d[1]] = "off"
  BY <1>1, <1>2, <1>3 DEF Typed
<1>7. Fresh(d)' => Fresh(d)
  BY <1>3, <1>5, <1>6 DEF Fresh
<1>8. pc'[Worker] = pc[Worker] /\ job'[Worker] = job[Worker]
  BY <1>1, <1>3 DEF Typed
<1>9. (Working(d)' <=> Working(d)) /\ Unrecorded(d)' = Unrecorded(d)
  BY <1>2, <1>8 DEF Working, Unrecorded
<1>10. faults \in Nat /\ Unrecorded(d) \in {0, 1}
  BY TypedFields DEF Unrecorded
<1>11. CASE UNCHANGED <<row, job, pc>> /\ faults' \in Nat /\ faults' >= faults
  <2>1. Firing(d)' <=> Firing(d)
    BY <1>11 DEF Firing
  <2>2. Firing(d)' => d[2] \notin targets'[d[1]]
    BY <1>3, <1>5, <2>1 DEF Sound, FireSound
  <2> QED
    BY <1>2, <1>7, <1>9, <1>10, <1>11, <2>1, <2>2, Calm
<1>12. ASSUME NEW r \in Row, r.status = "pending", r.attempts = 0,
              row' = [row EXCEPT ![<<e, h>>] = r],
              NEW c \in Copy, c.of = <<e, h>>, c.attempts = 0,
              job' = [job EXCEPT ![e] = c],
              pc' = [pc EXCEPT ![e] = "post"], UNCHANGED faults
       PROVE  Sound(d)'
  <2>1. pc'[e] = "post" /\ job'[e] = c
    BY <1>3, <1>12 DEF Typed
  <2>2. CASE d # <<e, h>>
    <3>1. row'[d] = row[d]
      BY <1>12, <2>2 DEF Typed
    <3>2. Firing(d)' => d[1] # e
      BY <1>12, <2>1, <2>2 DEF Firing
    <3>3. d[1] # e => pc'[d[1]] = pc[d[1]] /\ job'[d[1]] = job[d[1]]
      BY <1>3, <1>12 DEF Typed
    <3>4. Firing(d)' => Firing(d)
      BY <3>2, <3>3 DEF Firing
    <3>5. Firing(d)' => d[2] \notin targets'[d[1]]
      BY <1>3, <1>5, <3>4 DEF Sound, FireSound
    <3>6. Firing(d)' => /\ Firing(d) /\ pc'[d[1]] = pc[d[1]] /\ job'[d[1]] = job[d[1]]
                        /\ outcome'[d[1]] = outcome[d[1]]
                        /\ d[2] \notin targets'[d[1]]
      BY <1>2, <3>2, <3>3, <3>4, <3>5
    <3>7. Working(d)' => /\ Working(d) /\ pc'[Worker] = pc[Worker]
                         /\ job'[Worker] = job[Worker] /\ outcome'[Worker] = outcome[Worker]
      BY <1>2, <1>8, <1>9
    <3>8. faults' \in Nat /\ faults' >= faults
          /\ Unrecorded(d)' + faults' >= Unrecorded(d) + faults
      BY <1>9, <1>10, <1>12
    <3>9. /\ posts'[d] = posts[d] /\ accepted \subseteq accepted'
          /\ \A i \in DOMAIN batch' : \E j \in DOMAIN batch : batch'[i] = batch[j]
      BY <1>2
    <3> QED
      BY <1>7, <3>1, <3>6, <3>7, <3>8, <3>9, Calm
  <2>3. CASE d = <<e, h>>
    <3>1. d[1] = e /\ d[2] = h
      BY <1>4, <2>3
    <3>2. Fresh(d)
      BY <3>1 DEF Fresh
    <3>3. /\ posts[d] = 0 /\ ~Working(d)
          /\ \A i \in DOMAIN batch : batch[i].of # d
      BY <3>2 DEF Sound, FreshSound
    <3>4. ~Fresh(d)' /\ Firing(d)' /\ ~Working(d)' /\ posts'[d] = 0
      BY <1>2, <1>5, <1>9, <1>12, <2>1, <2>3, <3>1, <3>3 DEF Fresh, Firing
    <3>5. row'[d] = r
      BY <1>4, <1>12, <2>3 DEF Typed
    <3>6. Spare(d)' \in Nat
      BY <1>10, <1>12 DEF Spare, First
    <3>7. MaxRetries \in Nat /\ MaxRetries >= 1
      BY Constants
    <3>8. RowSound(d)'
      <4>1. Unrecorded(d)' \in {0, 1}
        BY DEF Unrecorded
      <4> QED
        BY <1>12, <3>4, <3>5, <3>6, <3>7, <4>1 DEF RowSound
    <3>9. FreshSound(d)' /\ BatchSound(d)' /\ WorkSound(d)'
      BY <1>2, <3>3, <3>4 DEF FreshSound, BatchSound, WorkSound
    <3>10. FireSound(d)'
      BY <1>5, <1>12, <2>1, <3>1 DEF FireSound
    <3>11. Ceiling(d)'
      BY <3>4, <3>6, <3>7 DEF Ceiling
    <3> QED
      BY <3>8, <3>9, <3>10, <3>11 DEF Sound
  <2> QED
    BY <2>2, <2>3
<1> QED
  BY <1>1, <1>11, <1>12

(* Facts about a POST that both goroutines use. *)
LEMMA PostOther ==
  ASSUME Typed, NEW d \in Delivery, Sound(d), NEW a \in Actor, Post(a), job[a].of # d
  PROVE  Sound(d)'
<1>1. /\ pc[a] = "post" /\ pc' = [pc EXCEPT ![a] = "record"]
      /\ \A b \in Actor : b # a => job'[b] = job[b] /\ outcome'[b] = outcome[b]
      /\ job'[a].of = job[a].of
      /\ posts' = [posts EXCEPT ![job[a].of] = posts[job[a].of] + 1]
      /\ accepted \subseteq accepted'
      /\ faults' = IF outcome'[a] = "timeout" THEN faults + 1 ELSE faults
      /\ UNCHANGED <<row, targets, batch>>
  BY PostDoes
<1>2. d[1] \in Event /\ d[1] \in Actor /\ d[1] # Worker /\ Worker \in Actor
  BY DeliveryParts, Constants
<1>3. \A b \in Actor : b # a => pc'[b] = pc[b]
  BY <1>1 DEF Typed
<1>4. pc'[a] = "record"
  BY <1>1 DEF Typed
<1>5. Fresh(d)' => Fresh(d)
  BY <1>1, <1>2, <1>3, <1>4 DEF Fresh
<1>6. Firing(d)' => d[1] # a /\ Firing(d)
  BY <1>1, <1>2, <1>3 DEF Firing
<1>7. Working(d)' => Worker # a /\ Working(d)
  BY <1>1, <1>2, <1>3 DEF Working
<1>8. Working(d) => Worker # a /\ Working(d)'
  BY <1>1, <1>2, <1>3 DEF Working
<1>9. Unrecorded(d)' = Unrecorded(d)
  BY <1>1, <1>2, <1>3, <1>7, <1>8 DEF Unrecorded
<1>10. Firing(d)' => d[2] \notin targets'[d[1]]
  BY <1>1, <1>6 DEF Sound, FireSound
<1>11. /\ faults \in Nat /\ Unrecorded(d) \in {0, 1}
       /\ faults' \in Nat /\ faults' >= faults
  BY <1>1, TypedFields DEF Unrecorded
<1>12. posts'[d] = posts[d]
  BY <1>1 DEF Typed
<1> QED
  BY <1>1, <1>2, <1>3, <1>5, <1>6, <1>7, <1>9, <1>10, <1>11, <1>12, Calm

LEMMA WorkerPostSound ==
  ASSUME Typed, NEW d \in Delivery, Sound(d), Post(Worker), job[Worker].of = d
  PROVE  Sound(d)'
<1>1. d[1] \in Event /\ d[1] \in Actor /\ d[1] # Worker /\ Worker \in Actor
  BY DeliveryParts, Constants
<1>2. /\ pc[Worker] = "post" /\ pc' = [pc EXCEPT ![Worker] = "record"]
      /\ \A b \in Actor : b # Worker => job'[b] = job[b] /\ outcome'[b] = outcome[b]
      /\ job'[Worker].of = job[Worker].of
      /\ job'[Worker].attempts = job[Worker].attempts + 1
      /\ posts' = [posts EXCEPT ![job[Worker].of] = posts[job[Worker].of] + 1]
      /\ accepted \subseteq accepted'
      /\ outcome'[Worker] = "ok" => job[Worker].of \in accepted'
      /\ faults' = IF outcome'[Worker] = "timeout" THEN faults + 1 ELSE faults
      /\ UNCHANGED <<row, targets, batch>>
  BY <1>1, PostDoes
<1>3. pc'[Worker] = "record" /\ pc'[d[1]] = pc[d[1]] /\ job'[d[1]] = job[d[1]]
      /\ outcome'[d[1]] = outcome[d[1]]
  BY <1>1, <1>2 DEF Typed
<1>4. posts'[d] = posts[d] + 1
  BY <1>2 DEF Typed
<1>5. Working(d) /\ Working(d)'
  BY <1>2, <1>3 DEF Working
<1>6. (Fresh(d)' <=> Fresh(d)) /\ (Firing(d)' <=> Firing(d)) /\ First(d)' = First(d)
  BY <1>2, <1>3 DEF Fresh, Firing, First
<1>7. ~Fresh(d)
  BY <1>5 DEF Sound, FreshSound
<1>8. CopySound(d, job[Worker].attempts)
  BY <1>2, <1>5 DEF Sound, WorkSound
<1>9. /\ posts[d] \in Nat /\ faults \in Nat /\ row[d].attempts \in Nat
      /\ job[Worker].attempts \in Nat /\ MaxRetries \in Nat /\ First(d) \in {0, 1}
  BY <1>1, TypedFields, Constants, SpareType
<1>10. /\ Unrecorded(d) = 0
       /\ Unrecorded(d)' = IF outcome'[Worker] = "timeout" THEN 0 ELSE 1
  BY <1>2, <1>3, <1>5 DEF Unrecorded
<1>11. /\ Spare(d) \in Nat /\ Spare(d)' \in Nat
       /\ Spare(d)' = IF outcome'[Worker] = "timeout" THEN Spare(d) + 1 ELSE Spare(d)
  BY <1>2, <1>6, <1>9 DEF Spare
<1>12. FreshSound(d)' /\ BatchSound(d)'
  BY <1>2, <1>5, <1>6, <1>7 DEF Sound, FreshSound, BatchSound
<1>13. RowSound(d)'
  <2>1. row[d].status # "none" =>
           posts[d] + 1 <= Spare(d)' + row[d].attempts + Unrecorded(d)'
    BY <1>9, <1>10, <1>11 DEF Sound, RowSound
  <2>2. row[d].attempts <= posts[d] + 1
    BY <1>9 DEF Sound, RowSound
  <2> QED
    BY <1>2, <1>4, <1>6, <2>1, <2>2 DEF Sound, RowSound
<1>14. WorkSound(d)'
  BY <1>2, <1>3, <1>4, <1>6, <1>8, <1>9, <1>11 DEF WorkSound, CopySound
<1>15. FireSound(d)'
  BY <1>2, <1>3, <1>4, <1>6, <1>9 DEF Sound, FireSound
<1>16. Ceiling(d)'
  BY <1>4, <1>8, <1>9, <1>11 DEF CopySound, Ceiling
<1> QED
  BY <1>12, <1>13, <1>14, <1>15, <1>16 DEF Sound

LEMMA FirePostSound ==
  ASSUME Typed, NEW d \in Delivery, Sound(d), Post(d[1]), job[d[1]].of = d
  PROVE  Sound(d)'
<1> DEFINE e == d[1]
<1>1. e \in Event /\ e \in Actor /\ e # Worker /\ Worker \in Actor
  BY DeliveryParts, Constants
<1>2. /\ pc[e] = "post" /\ pc' = [pc EXCEPT ![e] = "record"]
      /\ \A b \in Actor : b # e => job'[b] = job[b] /\ outcome'[b] = outcome[b]
      /\ job'[e].of = job[e].of /\ job'[e].attempts = job[e].attempts + 1
      /\ posts' = [posts EXCEPT ![job[e].of] = posts[job[e].of] + 1]
      /\ accepted \subseteq accepted'
      /\ outcome'[e] = "ok" => job[e].of \in accepted'
      /\ faults' = IF outcome'[e] = "timeout" THEN faults + 1 ELSE faults
      /\ UNCHANGED <<row, targets, batch>>
  BY <1>1, PostDoes
<1>3. pc'[e] = "record" /\ pc'[Worker] = pc[Worker] /\ job'[Worker] = job[Worker]
      /\ outcome'[Worker] = outcome[Worker]
  BY <1>1, <1>2 DEF Typed
<1>4. posts'[d] = posts[d] + 1
  BY <1>2 DEF Typed
<1>5. Firing(d) /\ Firing(d)'
  BY <1>2, <1>3 DEF Firing
<1>6. d[2] \notin targets[e] /\ job[e].attempts = 0
  BY <1>2, <1>5 DEF Sound, FireSound
<1>7. ~Fresh(d) /\ ~Fresh(d)'
  BY <1>2, <1>3, <1>6 DEF Fresh
<1>8. First(d) = 0 /\ First(d)' = 1
  BY <1>2, <1>3, <1>5, <1>7 DEF First
<1>9. (Working(d)' <=> Working(d)) /\ Unrecorded(d)' = Unrecorded(d)
  BY <1>3 DEF Working, Unrecorded
<1>10. /\ posts[d] \in Nat /\ faults \in Nat /\ row[d].attempts \in Nat
       /\ \A i \in DOMAIN batch : batch[i].attempts \in Nat
       /\ job[Worker].attempts \in Nat /\ MaxRetries \in Nat
       /\ Unrecorded(d) \in {0, 1}
  BY <1>1, TypedFields, Constants DEF Unrecorded
<1>11. Spare(d) \in Nat /\ Spare(d)' \in Nat /\ Spare(d)' >= Spare(d) + 1
  BY <1>2, <1>8, <1>10 DEF Spare
<1>12. FreshSound(d)'
  BY <1>7 DEF FreshSound
<1>13. RowSound(d)'
  <2>1. row[d].status # "none" =>
           posts[d] + 1 <= Spare(d)' + row[d].attempts + Unrecorded(d)'
    BY <1>9, <1>10, <1>11 DEF Sound, RowSound
  <2>2. row[d].attempts <= posts[d] + 1
    BY <1>10 DEF Sound, RowSound
  <2> QED
    BY <1>2, <1>4, <1>5, <2>1, <2>2 DEF Sound, RowSound
<1>14. BatchSound(d)'
  BY <1>2, <1>4, <1>5, <1>9, <1>10, <1>11 DEF Sound, BatchSound, CopySound
<1>15. WorkSound(d)'
  <2>1. Working(d) /\ pc[Worker] = "post" => CopySound(d, job[Worker].attempts)'
    BY <1>3, <1>4, <1>5, <1>10, <1>11 DEF Sound, WorkSound, CopySound
  <2>2. Working(d) /\ pc[Worker] = "record" =>
          /\ 1 <= job[Worker].attempts /\ job[Worker].attempts <= posts'[d]
          /\ posts'[d] <= Spare(d)' + job[Worker].attempts
          /\ job[Worker].attempts = 1
          /\ outcome[Worker] = "ok" => d \in accepted'
    BY <1>2, <1>4, <1>5, <1>10, <1>11 DEF Sound, WorkSound
  <2> QED
    BY <1>3, <1>9, <2>1, <2>2 DEF WorkSound
<1>16. FireSound(d)'
  BY <1>2, <1>3, <1>4, <1>6, <1>10 DEF FireSound
<1>17. Ceiling(d)'
  BY <1>4, <1>10, <1>11 DEF Sound, Ceiling
<1> QED
  BY <1>12, <1>13, <1>14, <1>15, <1>16, <1>17 DEF Sound

LEMMA RecordSound ==
  ASSUME Typed, NEW d \in Delivery, Sound(d), NEW a \in Actor, Record(a),
         a = Worker \/ d[1] = a \/ job[a].of # d
  PROVE  Sound(d)'
<1>1. d[1] \in Event /\ d[1] \in Actor /\ d[1] # Worker /\ Worker \in Actor
  BY DeliveryParts, Constants
<1>2. /\ pc[a] = "record"
      /\ pc' = [pc EXCEPT ![a] = IF a = Worker THEN "next" ELSE "save"]
      /\ job' = [job EXCEPT ![a] = NoCopy]
      /\ outcome' = [outcome EXCEPT ![a] = "none"]
      /\ \/ /\ row[job[a].of].status # "none"
            /\ row' = [row EXCEPT ![job[a].of] = Recorded(outcome[a], job[a].attempts)]
            /\ faults' = faults
         \/ /\ outcome[a] = "timeout" \/ row[job[a].of].status = "none"
            /\ UNCHANGED <<row, faults>>
         \/ faults' = faults + 1 /\ UNCHANGED row
      /\ UNCHANGED <<targets, batch, posts, accepted>>
  BY RecordDoes
<1>3. \A b \in Actor : b # a => /\ pc'[b] = pc[b] /\ job'[b] = job[b]
                                /\ outcome'[b] = outcome[b]
  BY <1>2 DEF Typed
<1>4. pc'[a] = IF a = Worker THEN "next" ELSE "save"
  BY <1>2 DEF Typed
<1>5. Fresh(d)' <=> Fresh(d)
  BY <1>1, <1>2, <1>3, <1>4 DEF Fresh
<1>6. Firing(d)' <=> Firing(d) /\ d[1] # a
  BY <1>1, <1>3, <1>4 DEF Firing
<1>7. Working(d)' <=> Working(d) /\ Worker # a
  BY <1>1, <1>3, <1>4 DEF Working
<1>8. /\ faults \in Nat /\ faults' \in Nat /\ faults' >= faults
      /\ Unrecorded(d) \in {0, 1} /\ Unrecorded(d)' \in {0, 1}
  BY <1>2, TypedFields DEF Unrecorded
<1>9. Worker # a \/ job[a].of # d => Unrecorded(d)' = Unrecorded(d)
  BY <1>1, <1>3, <1>7 DEF Unrecorded, Working
<1>10. Firing(d)' => /\ Firing(d) /\ pc'[d[1]] = pc[d[1]] /\ job'[d[1]] = job[d[1]]
                     /\ outcome'[d[1]] = outcome[d[1]] /\ d[2] \notin targets'[d[1]]
  BY <1>1, <1>2, <1>3, <1>6 DEF Sound, FireSound
<1>11. Working(d)' => /\ Working(d) /\ pc'[Worker] = pc[Worker]
                      /\ job'[Worker] = job[Worker] /\ outcome'[Worker] = outcome[Worker]
  BY <1>1, <1>3, <1>7
<1>12. /\ posts'[d] = posts[d] /\ accepted \subseteq accepted'
       /\ \A i \in DOMAIN batch' : \E j \in DOMAIN batch : batch'[i] = batch[j]
  BY <1>2
<1>13. CASE row'[d] = row[d]
            /\ (row[d].status # "none" =>
                  Unrecorded(d)' + faults' >= Unrecorded(d) + faults)
  BY <1>5, <1>8, <1>10, <1>11, <1>12, <1>13, Calm
<1>14. CASE job[a].of # d
  <2>1. row'[d] = row[d]
    BY <1>2, <1>14 DEF Typed
  <2>2. Unrecorded(d)' + faults' >= Unrecorded(d) + faults
    BY <1>8, <1>9, <1>14
  <2> QED
    BY <1>13, <2>1, <2>2
<1>15. CASE job[a].of = d /\ UNCHANGED row
             /\ (faults' = faults + 1 \/ outcome[a] = "timeout" \/ row[d].status = "none")
  <2>1. outcome[a] = "timeout" => Unrecorded(d) <= Unrecorded(d)'
    BY <1>8, <1>9 DEF Unrecorded
  <2>2. row[d].status # "none" => Unrecorded(d)' + faults' >= Unrecorded(d) + faults
    BY <1>8, <1>15, <2>1
  <2> QED
    BY <1>13, <1>15, <2>2
<1>16. CASE /\ job[a].of = d /\ row[d].status # "none" /\ faults' = faults
            /\ row' = [row EXCEPT ![d] = Recorded(outcome[a], job[a].attempts)]
  <2> DEFINE n == job[a].attempts
  <2>1. /\ posts[d] \in Nat /\ row[d].attempts \in Nat
        /\ n \in Nat /\ n \in 0..MaxRetries /\ MaxRetries \in Nat
    BY TypedFields, CopyFields, Constants
  <2>2. /\ row'[d].attempts = n
        /\ row'[d].due => n = 0
        /\ row'[d].status = IF outcome[a] = "ok" THEN "success"
                            ELSE IF n >= MaxRetries THEN "failed" ELSE "pending"
    <3>1. row'[d] = Recorded(outcome[a], n)
      BY <1>16 DEF Typed
    <3> HIDE DEF n
    <3> QED
      BY <2>1, <3>1, RecordedDoes
  <2>3. a = Worker \/ d[1] = a
    BY <1>16
  <2> HIDE DEF n
  <2>4. /\ 1 <= n /\ n <= posts[d]
        /\ posts[d] <= Spare(d) + n + Unrecorded(d)'
        /\ Firing(d)' => n = 1
        /\ outcome[a] = "ok" => d \in accepted
    <3>0. Spare(d) \in Nat
      BY SpareType
    <3>1. CASE a = Worker
      <4>1. Working(d) /\ pc[Worker] = "record"
        BY <1>2, <1>16, <3>1 DEF Working
      <4>2. /\ 1 <= n /\ n <= posts[d] /\ posts[d] <= Spare(d) + n
            /\ Firing(d) => n = 1
            /\ outcome[a] = "ok" => d \in accepted
        BY <3>1, <4>1 DEF Sound, WorkSound, n
      <4> QED
        BY <1>6, <1>8, <2>1, <3>0, <4>2
    <3>2. CASE d[1] = a
      <4>1. Firing(d)
        BY <1>2, <1>16, <3>2 DEF Firing
      <4>2. /\ n = 1 /\ 1 <= posts[d]
            /\ outcome[a] = "ok" => d \in accepted
        BY <1>2, <3>2, <4>1 DEF Sound, FireSound, n
      <4>3. /\ row[d].attempts <= 1
            /\ posts[d] <= Spare(d) + row[d].attempts + Unrecorded(d)
        BY <1>16, <4>1 DEF Sound, RowSound
      <4>4. Unrecorded(d)' = Unrecorded(d)
        BY <1>1, <1>9, <3>2
      <4> QED
        BY <1>8, <2>1, <3>0, <4>2, <4>3, <4>4
    <3> QED
      BY <2>3, <3>1, <3>2
  <2>5. Spare(d)' \in Nat /\ Spare(d)' >= Spare(d) /\ Spare(d) \in Nat
    BY <1>5, <1>8, <1>10, SpareGrows
  <2>6. RowSound(d)'
    <3>1. posts[d] <= Spare(d)' + n + Unrecorded(d)'
      BY <1>8, <2>1, <2>4, <2>5
    <3> QED
      BY <1>2, <2>1, <2>2, <2>4, <3>1 DEF RowSound
  <2>7. ~Fresh(d)
    BY <1>16 DEF Sound, FreshSound
  <2>8. FreshSound(d)' /\ FireSound(d)'
    BY <1>2, <1>5, <1>10, <2>7 DEF Sound, FreshSound, FireSound
  <2>9. BatchSound(d)'
    <3> SUFFICES ASSUME NEW i \in DOMAIN batch, batch[i].of = d
                 PROVE  CopySound(d, batch[i].attempts)' /\ ~Working(d)'
      BY <1>2 DEF BatchSound, CopySound
    <3>1. CopySound(d, batch[i].attempts) /\ ~Working(d) /\ batch[i].attempts \in Nat
      BY TypedFields DEF Sound, BatchSound
    <3> QED
      BY <1>2, <1>6, <1>7, <2>1, <2>5, <3>1 DEF CopySound
  <2>10. WorkSound(d)'
    <3>1. CASE ~Working(d)'
      BY <3>1 DEF WorkSound
    <3>2. CASE Working(d)'
      <4>1. /\ Working(d) /\ pc'[Worker] = pc[Worker] /\ job'[Worker] = job[Worker]
            /\ outcome'[Worker] = outcome[Worker] /\ job[Worker].attempts \in Nat
        BY <1>1, <1>11, <3>2, TypedFields
      <4>2. CASE pc[Worker] = "post"
        BY <1>2, <1>6, <2>1, <2>5, <4>1, <4>2 DEF Sound, WorkSound, CopySound
      <4>3. CASE pc[Worker] = "record"
        BY <1>2, <1>6, <2>1, <2>5, <4>1, <4>3 DEF Sound, WorkSound
      <4> QED
        BY <4>1, <4>2, <4>3 DEF Working
    <3> QED
      BY <3>1, <3>2
  <2>11. Ceiling(d)'
    BY <1>2, <2>1, <2>5 DEF Sound, Ceiling
  <2> QED
    BY <2>6, <2>8, <2>9, <2>10, <2>11 DEF Sound
<1> QED
  BY <1>2, <1>14, <1>15, <1>16

LEMMA PollSound ==
  ASSUME Typed, NEW d \in Delivery, Sound(d), Poll
  PROVE  Sound(d)'
<1>1. d[1] \in Event /\ d[1] \in Actor /\ d[1] # Worker /\ Worker \in Actor
  BY DeliveryParts, Constants
<1>2. /\ pc[Worker] = "off" /\ pc' = [pc EXCEPT ![Worker] = "next"]
      /\ UNCHANGED <<row, targets, job, outcome, posts, accepted, faults>>
  BY PollDoes
<1>3. pc'[Worker] = "next" /\ pc'[d[1]] = pc[d[1]]
  BY <1>1, <1>2 DEF Typed
<1>4. /\ (Fresh(d)' <=> Fresh(d)) /\ (Firing(d)' <=> Firing(d))
      /\ First(d)' = First(d) /\ Spare(d)' = Spare(d)
  BY <1>2, <1>3 DEF Fresh, Firing, First, Spare
<1>5. ~Working(d) /\ ~Working(d)' /\ Unrecorded(d) = 0 /\ Unrecorded(d)' = 0
  BY <1>2, <1>3 DEF Working, Unrecorded
<1>6. /\ posts[d] \in Nat /\ row[d].attempts \in Nat /\ MaxRetries \in Nat /\ Spare(d) \in Nat
  BY TypedFields, Constants, SpareType
<1>7. ASSUME NEW i \in DOMAIN batch', batch'[i].of = d
      PROVE  /\ row[d].status = "pending" /\ row[d].due
             /\ batch'[i].attempts = row[d].attempts
  BY <1>7, PollDoes
<1>8. FreshSound(d)'
  BY <1>2, <1>4, <1>5, <1>7 DEF Sound, FreshSound
<1>9. RowSound(d)' /\ FireSound(d)' /\ Ceiling(d)'
  BY <1>2, <1>3, <1>4, <1>5 DEF Sound, RowSound, FireSound, Ceiling
<1>10. WorkSound(d)'
  BY <1>5 DEF WorkSound
<1>11. row[d].status = "pending" /\ row[d].due =>
          /\ row[d].attempts <= posts[d] /\ row[d].attempts < MaxRetries
          /\ posts[d] <= Spare(d) + row[d].attempts
          /\ Firing(d) => row[d].attempts = 0
  BY <1>5, <1>6 DEF Sound, RowSound
<1>12. BatchSound(d)'
  BY <1>2, <1>4, <1>5, <1>7, <1>11 DEF BatchSound, CopySound
<1> QED
  BY <1>8, <1>9, <1>10, <1>12 DEF Sound

LEMMA NextJobSound ==
  ASSUME Typed, BatchDistinct, NEW d \in Delivery, Sound(d), NextJob
  PROVE  Sound(d)'
<1>1. d[1] \in Event /\ d[1] \in Actor /\ d[1] # Worker /\ Worker \in Actor
  BY DeliveryParts, Constants
<1>2. /\ pc[Worker] = "next" /\ batch # <<>> /\ batch' = Tail(batch)
      /\ batch[1] \in Copy /\ 1 \in DOMAIN batch
      /\ \/ /\ job' = [job EXCEPT ![Worker] = batch[1]]
            /\ pc' = [pc EXCEPT ![Worker] = "post"]
            /\ UNCHANGED <<row, faults>>
         \/ UNCHANGED <<row, job, pc, faults>>
         \/ /\ row[batch[1].of].status # "none"
            /\ row' = [row EXCEPT ![batch[1].of] = Recorded("refused", batch[1].attempts)]
            /\ faults' = faults + 1
            /\ UNCHANGED <<job, pc>>
      /\ UNCHANGED <<targets, outcome, posts, accepted>>
  BY NextJobDoes
<1>3. \A i \in DOMAIN batch' : /\ i + 1 \in DOMAIN batch /\ batch'[i] = batch[i + 1]
                               /\ i + 1 # 1
  BY <1>2, TailDoes
<1>4. batch[1].of = d => \A i \in DOMAIN batch' : batch'[i].of # d
  BY <1>2, <1>3 DEF BatchDistinct
<1>5. \A i \in DOMAIN batch' : \E j \in DOMAIN batch : batch'[i] = batch[j]
  BY <1>3
<1>6. pc'[d[1]] = pc[d[1]] /\ job'[d[1]] = job[d[1]]
  BY <1>1, <1>2 DEF Typed
<1>7. (Fresh(d)' <=> Fresh(d)) /\ (Firing(d)' <=> Firing(d)) /\ First(d)' = First(d)
  BY <1>2, <1>6 DEF Fresh, Firing, First
<1>8. ~Working(d) /\ Unrecorded(d) = 0
  BY <1>2 DEF Working, Unrecorded
<1>9. Unrecorded(d)' = 0
  BY <1>1, <1>2 DEF Unrecorded, Typed
<1>10. /\ faults \in Nat /\ faults' \in Nat /\ faults' >= faults
       /\ batch[1].attempts \in Nat /\ batch[1].attempts \in 0..MaxRetries
       /\ MaxRetries \in Nat /\ posts[d] \in Nat /\ row[d].attempts \in Nat
  BY <1>2, TypedFields, CopyFields, Constants
<1>11. Spare(d) \in Nat /\ Spare(d)' \in Nat /\ Spare(d)' >= Spare(d)
  BY <1>6, <1>7, <1>10, SpareGrows
<1>12. Firing(d)' => /\ Firing(d) /\ pc'[d[1]] = pc[d[1]] /\ job'[d[1]] = job[d[1]]
                     /\ outcome'[d[1]] = outcome[d[1]] /\ d[2] \notin targets'[d[1]]
  BY <1>2, <1>6, <1>7 DEF Sound, FireSound
<1>13. CASE row'[d] = row[d] /\ ~Working(d)'
  BY <1>2, <1>5, <1>7, <1>8, <1>9, <1>10, <1>12, <1>13, Calm
<1>14. CASE UNCHANGED <<row, job, pc>>
  <2>1. ~Working(d)'
    BY <1>2, <1>14 DEF Working
  <2> QED
    BY <1>13, <1>14, <2>1
<1>15. CASE batch[1].of # d
  <2>1. row'[d] = row[d]
    BY <1>2, <1>15 DEF Typed
  <2>2. ~Working(d)'
    BY <1>1, <1>2, <1>15 DEF Working, Typed
  <2> QED
    BY <1>13, <2>1, <2>2
<1>16. ASSUME batch[1].of = d
       PROVE  /\ CopySound(d, batch[1].attempts) /\ ~Fresh(d)
              /\ FreshSound(d)' /\ BatchSound(d)' /\ FireSound(d)' /\ Ceiling(d)'
  <2>1. CopySound(d, batch[1].attempts) /\ ~Fresh(d)
    BY <1>2, <1>16 DEF Sound, BatchSound, FreshSound
  <2>2. FreshSound(d)' /\ BatchSound(d)'
    BY <1>4, <1>7, <1>16, <2>1 DEF FreshSound, BatchSound
  <2>3. FireSound(d)'
    BY <1>2, <1>12 DEF Sound, FireSound
  <2>4. Ceiling(d)'
    BY <1>2, <1>10, <1>11 DEF Sound, Ceiling
  <2> QED
    BY <2>1, <2>2, <2>3, <2>4
<1>17. CASE /\ batch[1].of = d
            /\ job' = [job EXCEPT ![Worker] = batch[1]]
            /\ pc' = [pc EXCEPT ![Worker] = "post"]
            /\ UNCHANGED <<row, faults>>
  <2>1. pc'[Worker] = "post" /\ job'[Worker] = batch[1]
    BY <1>1, <1>17 DEF Typed
  <2>2. Spare(d)' = Spare(d)
    BY <1>7, <1>17 DEF Spare
  <2>3. CopySound(d, batch[1].attempts)
    BY <1>16, <1>17
  <2>4. WorkSound(d)'
    BY <1>2, <1>7, <2>1, <2>2, <2>3 DEF WorkSound, CopySound
  <2>5. RowSound(d)'
    BY <1>2, <1>7, <1>8, <1>9, <1>17, <2>2 DEF Sound, RowSound
  <2> QED
    BY <1>16, <1>17, <2>4, <2>5 DEF Sound
<1>18. CASE /\ batch[1].of = d
            /\ row' = [row EXCEPT ![d] = Recorded("refused", batch[1].attempts)]
            /\ UNCHANGED <<job, pc>>
  <2> DEFINE n == batch[1].attempts
  <2>1. row'[d] = Recorded("refused", n)
    BY <1>18 DEF Typed
  <2>2. CopySound(d, n) /\ n \in Nat /\ n \in 0..MaxRetries
    BY <1>10, <1>16, <1>18
  <2> HIDE DEF n
  <2>3. /\ row'[d].attempts = n
        /\ row'[d].due => n = 0
        /\ row'[d].status = IF "refused" = "ok" THEN "success"
                            ELSE IF n >= MaxRetries THEN "failed" ELSE "pending"
    BY <2>1, <2>2, RecordedDoes
  <2>4. row'[d].status = "pending"
    BY <1>10, <2>2, <2>3 DEF CopySound
  <2>5. posts[d] <= Spare(d)' + n + 0
    BY <1>10, <1>11, <2>2 DEF CopySound
  <2>6. RowSound(d)'
    BY <1>2, <1>7, <1>9, <1>10, <2>2, <2>3, <2>4, <2>5 DEF RowSound, CopySound
  <2>7. WorkSound(d)'
    BY <1>2, <1>18 DEF WorkSound, Working
  <2> QED
    BY <1>16, <1>18, <2>6, <2>7 DEF Sound
<1> QED
  BY <1>2, <1>14, <1>15, <1>17, <1>18

LEMMA OwnJobsStep ==
  ASSUME Typed, OwnJobs, Next
  PROVE  OwnJobs'
<1> SUFFICES ASSUME NEW e \in Event, pc'[e] \in {"post", "record"}
             PROVE  job'[e].of[1] = e
  BY DEF OwnJobs
<1>0. /\ e \in Actor /\ e # Worker /\ Worker \in Actor
      /\ pc[e] \in {"post", "record"} => job[e].of[1] = e
  BY Constants DEF OwnJobs
<1>1. ASSUME pc[e] = pc'[e], job'[e] = job[e] PROVE job'[e].of[1] = e
  BY <1>0, <1>1
<1>2. ASSUME NEW x \in Event, FindEnabled(x) PROVE job'[e].of[1] = e
  <2>1. pc' = [pc EXCEPT ![x] = "save"] /\ job' = job
    BY <1>2 DEF FindEnabled, Goto
  <2> QED
    BY <1>0, <1>1, <2>1 DEF Typed
<1>3. ASSUME NEW x \in Event, SaveDelivery(x) PROVE job'[e].of[1] = e
  <2>1. PICK h \in targets[x] :
          /\ h \in Hook
          /\ targets' = [targets EXCEPT ![x] = @ \ {h}]
          /\ \/ /\ \E r \in Row :
                      /\ r.status = "pending" /\ r.attempts = 0
                      /\ row' = [row EXCEPT ![<<x, h>>] = r]
                /\ \E c \in Copy :
                      /\ c.of = <<x, h>> /\ c.attempts = 0
                      /\ job' = [job EXCEPT ![x] = c]
                /\ pc' = [pc EXCEPT ![x] = "post"]
                /\ UNCHANGED faults
             \/ /\ UNCHANGED <<row, job, pc>>
                /\ faults' \in Nat /\ faults' >= faults
    BY <1>3, SaveDeliveryDoes
  <2>2. CASE UNCHANGED <<job, pc>>
    BY <1>1, <2>2
  <2>3. ASSUME NEW c \in Copy, c.of = <<x, h>>, job' = [job EXCEPT ![x] = c],
               pc' = [pc EXCEPT ![x] = "post"]
        PROVE  job'[e].of[1] = e
    <3>1. x \in Actor
      BY Constants
    <3>2. CASE e = x
      BY <1>0, <2>3, <3>2 DEF Typed
    <3>3. CASE e # x
      BY <1>0, <1>1, <2>3, <3>1, <3>3 DEF Typed
    <3> QED
      BY <3>2, <3>3
  <2> QED
    BY <2>1, <2>2, <2>3
<1>4. ASSUME NEW a \in Actor, Post(a) PROVE job'[e].of[1] = e
  <2>1. /\ pc[a] = "post" /\ pc' = [pc EXCEPT ![a] = "record"]
        /\ \A b \in Actor : b # a => job'[b] = job[b]
        /\ job'[a].of = job[a].of
    BY <1>4, PostDoes
  <2> QED
    BY <1>0, <1>1, <2>1 DEF Typed
<1>5. ASSUME NEW a \in Actor, Record(a) PROVE job'[e].of[1] = e
  <2>1. /\ pc' = [pc EXCEPT ![a] = IF a = Worker THEN "next" ELSE "save"]
        /\ job' = [job EXCEPT ![a] = NoCopy]
    BY <1>5, RecordDoes
  <2> QED
    BY <1>0, <1>1, <2>1 DEF Typed
<1>6. CASE Poll
  <2>1. pc' = [pc EXCEPT ![Worker] = "next"] /\ job' = job
    BY <1>6 DEF Poll, Goto
  <2> QED
    BY <1>0, <1>1, <2>1 DEF Typed
<1>7. CASE NextJob
  <2>1. /\ \/ pc' = pc
           \/ pc' = [pc EXCEPT ![Worker] = "post"]
        /\ \/ job' = job
           \/ job' = [job EXCEPT ![Worker] = batch[1]]
    BY <1>7, NextJobDoes
  <2> QED
    BY <1>0, <1>1, <2>1 DEF Typed
<1>8. ASSUME NEW x, \/ x \in Event /\ FireEnds(x)
                    \/ x = Worker /\ BatchEnds
                    \/ x = Worker /\ \E h \in Hook : Toggle(h)
      PROVE  job'[e].of[1] = e
  <2>1. /\ job' = job
        /\ \/ UNCHANGED pc
           \/ /\ x \in Event /\ pc[x] = "save" /\ pc' = [pc EXCEPT ![x] = "done"]
           \/ /\ x = Worker /\ pc[x] = "next" /\ pc' = [pc EXCEPT ![x] = "off"]
    BY <1>8, QuietDoes
  <2> QED
    BY <1>0, <1>1, <2>1 DEF Typed
<1>9. ASSUME NEW d \in Delivery, RetryTimeComes(d) PROVE job'[e].of[1] = e
  BY <1>1, <1>9 DEF RetryTimeComes
<1>10. ASSUME NEW h \in Hook, Delete(h) PROVE job'[e].of[1] = e
  BY <1>1, <1>10 DEF Delete
<1>11. CASE Restart
  BY <1>0, <1>11, RestartDoes
<1> QED
  BY <1>2, <1>3, <1>4, <1>5, <1>6, <1>7, <1>8, <1>9, <1>10, <1>11, Constants
     DEF Next, WorkerStep, Deliver

LEMMA BatchDistinctStep ==
  ASSUME Typed, BatchDistinct, Next
  PROVE  BatchDistinct'
<1>1. CASE UNCHANGED batch
  BY <1>1 DEF BatchDistinct
<1>2. CASE Poll
  BY <1>2, PollDoes DEF BatchDistinct
<1>3. CASE NextJob
  <2>1. batch # <<>> /\ batch' = Tail(batch)
    BY <1>3, NextJobDoes
  <2>2. \A i \in DOMAIN batch' : /\ i + 1 \in DOMAIN batch /\ batch'[i] = batch[i + 1]
                                 /\ i \in Nat
    BY <2>1, TailDoes
  <2> SUFFICES ASSUME NEW i \in DOMAIN batch', NEW j \in DOMAIN batch',
                      batch'[i].of = batch'[j].of
               PROVE  i = j
    BY DEF BatchDistinct
  <2>3. i + 1 = j + 1
    BY <2>2 DEF BatchDistinct
  <2> QED
    BY <2>2, <2>3
<1>4. CASE Restart
  BY <1>4, RestartDoes DEF BatchDistinct
<1> QED
  BY <1>1, <1>2, <1>3, <1>4
     DEF Next, WorkerStep, Deliver, FindEnabled, SaveDelivery, FireEnds, Post, Record,
         BatchEnds, RetryTimeComes, Toggle, Delete

LEMMA SoundStep ==
  ASSUME Typed, IInv, Next, NEW d \in Delivery
  PROVE  Sound(d)'
<1>1. Sound(d) /\ BatchDistinct /\ OwnJobs
  BY DEF IInv
<1>2. ASSUME NEW e \in Event, FindEnabled(e) PROVE Sound(d)'
  BY <1>1, <1>2, FindEnabledSound
<1>3. ASSUME NEW e \in Event, SaveDelivery(e) PROVE Sound(d)'
  BY <1>1, <1>3, SaveDeliverySound
<1>4. ASSUME NEW a \in Actor, pc[a] \in {"post", "record"}, job[a].of = d, a # Worker
      PROVE  d[1] = a
  BY <1>1, <1>4 DEF OwnJobs, Actor
<1>5. ASSUME NEW a \in Actor, Post(a) PROVE Sound(d)'
  <2>1. pc[a] = "post"
    BY <1>5 DEF Post
  <2>2. CASE job[a].of # d
    BY <1>1, <1>5, <2>2, PostOther
  <2>3. CASE job[a].of = d /\ a = Worker
    BY <1>1, <1>5, <2>3, WorkerPostSound
  <2>4. CASE job[a].of = d /\ a # Worker
    <3>1. d[1] = a
      BY <1>4, <2>1, <2>4
    <3> QED
      BY <1>1, <1>5, <2>4, <3>1, FirePostSound
  <2> QED
    BY <2>2, <2>3, <2>4
<1>6. ASSUME NEW a \in Actor, Record(a) PROVE Sound(d)'
  <2>1. pc[a] = "record"
    BY <1>6 DEF Record
  <2> QED
    BY <1>1, <1>4, <1>6, <2>1, RecordSound
<1>7. CASE Poll
  BY <1>1, <1>7, PollSound
<1>8. CASE NextJob
  BY <1>1, <1>8, NextJobSound
<1>9. ASSUME NEW x, \/ x \in Event /\ FireEnds(x)
                    \/ x = Worker /\ BatchEnds
                    \/ x = Worker /\ \E h \in Hook : Toggle(h)
      PROVE  Sound(d)'
  BY <1>1, <1>9, QuietSound
<1>10. ASSUME NEW x \in Delivery, RetryTimeComes(x) PROVE Sound(d)'
  BY <1>1, <1>10, RetryTimeComesSound
<1>11. ASSUME NEW h \in Hook, Delete(h) PROVE Sound(d)'
  BY <1>1, <1>11, DeleteSound
<1>12. CASE Restart
  BY <1>1, <1>12, RestartSound
<1> QED
  BY <1>2, <1>3, <1>5, <1>6, <1>7, <1>8, <1>9, <1>10, <1>11, <1>12, Constants
     DEF Next, WorkerStep, Deliver

----------------------------------------------------------------------------
(* The theorems *)

THEOREM Invariant == Spec => []Inv
<1>1. Init => Inv
  <2> SUFFICES ASSUME Init PROVE Inv
    OBVIOUS
  <2> USE Constants, NoRowDoes DEF Init
  <2>1. batch \in Seq(Copy) /\ DOMAIN batch = {}
    OBVIOUS
  <2>2. faults \in 0..MaxFaults
    BY WebhookAssumption
  <2>3. Typed
    BY <2>1, <2>2 DEF Typed
  <2>4. OwnJobs /\ BatchDistinct
    BY <2>1 DEF OwnJobs, BatchDistinct
  <2>5. ASSUME NEW d \in Delivery PROVE Sound(d)
    <3>1. d[1] \in Event /\ d[1] \in Actor
      BY DeliveryParts
    <3>2. /\ pc[d[1]] = "off" /\ pc[Worker] = "off" /\ posts[d] = 0
          /\ row[d].status = "none" /\ row[d].attempts = 0
      BY <3>1
    <3>3. ~Firing(d) /\ ~Working(d)
      BY <3>2 DEF Firing, Working
    <3>4. FreshSound(d) /\ BatchSound(d) /\ WorkSound(d) /\ FireSound(d)
      BY <2>1, <3>2, <3>3 DEF FreshSound, BatchSound, WorkSound, FireSound
    <3>5. RowSound(d)
      BY <3>2, <3>3 DEF RowSound
    <3>6. Ceiling(d)
      <4>1. Spare(d) \in Nat
        BY <2>3, SpareType
      <4> QED
        BY <3>2, <4>1 DEF Ceiling
    <3> QED
      BY <3>4, <3>5, <3>6 DEF Sound
  <2> QED
    BY <2>3, <2>4, <2>5 DEF Inv, IInv
<1>2. Inv /\ [Next]_vars => Inv'
  <2> SUFFICES ASSUME Inv, [Next]_vars PROVE Inv'
    OBVIOUS
  <2>1. CASE Next
    BY <2>1, TypedStep, OwnJobsStep, BatchDistinctStep, SoundStep DEF Inv, IInv
  <2>2. CASE UNCHANGED vars
    BY <2>2 DEF vars, Inv, Typed, IInv, OwnJobs, BatchDistinct, Sound, FreshSound, RowSound,
       BatchSound, WorkSound, FireSound, Ceiling, CopySound, Fresh, Firing, Working,
       First, Spare, Unrecorded
  <2> QED
    BY <2>1, <2>2
<1> QED
  BY <1>1, <1>2, PTL DEF Spec

LEMMA InvSound ==
  ASSUME Inv, NEW d \in Delivery
  PROVE  /\ Sound(d) /\ posts[d] \in Nat /\ faults \in Nat /\ row[d].attempts \in Nat
         /\ MaxRetries \in Nat
BY TypedFields, Constants DEF Inv, IInv

(* Every variable has its type, and a pending row attempts left, always.   *)
THEOREM TypeCorrect == Spec => []TypeOK
<1>1. Inv => TypeOK
  BY InvSound DEF TypeOK, Inv, Sound, RowSound
<1> QED
  BY <1>1, Invariant, PTL

(* A delivery is reported as a success only if a receiver accepted it, for *)
(* any number of events and webhooks and any interleaving of their         *)
(* goroutines with the worker.                                             *)
THEOREM SuccessesTrue == Spec => []SuccessTruthful
<1>1. Inv => SuccessTruthful
  BY InvSound DEF SuccessTruthful, Sound, RowSound
<1> QED
  BY <1>1, Invariant, PTL

(* A row never counts attempts that were not made, and says "failed" only  *)
(* after maxRetries of them, whatever the copies that were written back.   *)
THEOREM FailuresHonest == Spec => []GivesUpHonestly
<1>1. Inv => GivesUpHonestly
  <2> SUFFICES ASSUME Inv, NEW d \in Delivery
               PROVE  /\ row[d].attempts <= posts[d]
                      /\ row[d].status = "failed" => posts[d] >= MaxRetries
    BY DEF GivesUpHonestly
  <2> QED
    BY InvSound DEF Sound, RowSound
<1> QED
  BY <1>1, Invariant, PTL

(* A receiver gets no delivery more than maxRetries times, but once for    *)
(* the first attempt of the worker beside that of the event's goroutine    *)
(* and once for every fault, for any batch and any number of retries.      *)
THEOREM ReceiversSpared == Spec => []PostsBounded
<1>1. Inv => \A d \in Delivery : posts[d] <= MaxRetries + 1 + faults
  <2> SUFFICES ASSUME Inv, NEW d \in Delivery PROVE posts[d] <= MaxRetries + 1 + faults
    OBVIOUS
  <2>1. Spare(d) \in Nat /\ Spare(d) <= 1 + faults
    BY SpareType DEF Inv
  <2>2. posts[d] <= Spare(d) + MaxRetries
    BY InvSound DEF Sound, Ceiling
  <2> QED
    BY <2>1, <2>2, InvSound
<1> QED
  BY <1>1, Invariant, TypeCorrect, PTL DEF PostsBounded
=============================================================================
