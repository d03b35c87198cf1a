--------------------------- MODULE ServicesProofs ---------------------------
(***************************************************************************)
(* Proofs about what a request uses on its way: the log of its usage       *)
(* (UsageLog), the tokens of an OAuth key (OAuthRefresh) and the exchange  *)
(* with the provider (Exchange, with the stream of StreamEvents), for      *)
(* every set of requests, any size of the channel, any number of versions  *)
(* and of faults and any length of a conversation and of a stream.  Each   *)
(* theorem is about one of the three by itself.                            *)
(***************************************************************************)
EXTENDS UsageLog, OAuthRefresh, Exchange, FoldLemmas, SequenceTheorems,
        FiniteSetTheorems, TLAPS

----------------------------------------------------------------------------
(* The log of usage.                                                       *)

LEMMA Constants ==
  /\ BufferSize \in Nat /\ BufferSize > 0
  /\ "idle" \notin Request /\ "gone" \notin Request
  BY UsageAssumption

----------------------------------------------------------------------------

(* Every variable keeps its type; the channel never holds more logs than   *)
(* its buffer.                                                             *)
THEOREM TypeCorrect == Spec => []TypeOK
<1>1. Init => TypeOK
  <2> SUFFICES ASSUME Init PROVE TypeOK
    OBVIOUS
  <2>1. <<>> \in Seq(Request) /\ Len(<<>>) <= BufferSize
    BY Constants, EmptySeq
  <2> QED
    BY <2>1 DEF Init, TypeOK, Stage
<1>2. TypeOK /\ [Next]_vars => TypeOK'
  <2> SUFFICES ASSUME TypeOK, [Next]_vars PROVE TypeOK'
    OBVIOUS
  <2> USE DEF TypeOK, channel, writer, purge, clients, Stage, Goto
  <2>1. ASSUME NEW r \in Request, Arrive(r) PROVE TypeOK'
    BY <2>1 DEF Arrive
  <2>2. ASSUME NEW r \in Request, ClientLeaves(r) PROVE TypeOK'
    BY <2>2 DEF ClientLeaves
  <2>3. ASSUME NEW r \in Request, LogRequest(r) PROVE TypeOK'
    <3>1. /\ queue' \in Seq(Request) /\ Len(queue') <= BufferSize
          /\ accepted' \in Seq(Request)
      <4>1. CASE UNCHANGED <<queue, accepted>>
        BY <4>1
      <4>2. CASE /\ Len(queue) < BufferSize /\ queue' = Append(queue, r)
                 /\ accepted' = Append(accepted, r)
        BY <4>2, Constants, AppendProperties, LenProperties
      <4> QED
        BY <2>3, <4>1, <4>2 DEF LogRequest
    <3>2. main' \in Stage /\ closed' = closed /\ panicked' \subseteq Request
      BY <2>3 DEF LogRequest
    <3>3. req' \in [Request -> {"idle", "open", "orphan", "done"}]
      BY <2>3 DEF LogRequest
    <3> QED
      BY <2>3, <3>1, <3>2, <3>3 DEF LogRequest
  <2>4. CASE Take
    <3>1. /\ queue' \in Seq(Request) /\ Len(queue') <= BufferSize
          /\ worker' \in Request \cup {"gone"}
      BY <2>4, Constants, HeadTailProperties, LenProperties DEF Take
    <3> QED
      BY <2>4, <3>1 DEF Take
  <2>5. CASE Persist
    BY <2>5, AppendProperties DEF Persist
  <2>6. CASE Tick \/ RunPurge \/ PurgeStopped
    BY <2>6 DEF Tick, RunPurge, PurgeStopped
  <2>7. CASE Signal \/ Shutdown \/ Kill
    BY <2>7 DEF Signal, Shutdown, Kill
  <2>8. CASE Cleanup
    BY <2>8 DEF Cleanup, StopPurgeWorker, Close, Release
  <2>9. CASE UNCHANGED vars
    BY <2>9 DEF vars
  <2> QED
    BY <2>1, <2>2, <2>3, <2>4, <2>5, <2>6, <2>7, <2>8, <2>9 DEF Next
<1> QED
  BY <1>1, <1>2, PTL DEF Spec

----------------------------------------------------------------------------

LEMMA InHandType ==
  ASSUME TypeOK
  PROVE  /\ InHand \in Seq(Request) /\ Len(InHand) <= 1 /\ Len(InHand) \in Nat
         /\ attempted \o InHand \in Seq(Request)
         /\ attempted \o InHand \o queue \in Seq(Request)
<1>1. InHand \in Seq(Request) /\ Len(InHand) <= 1 /\ Len(InHand) \in Nat
  BY SingletonSeq, EmptySeq DEF InHand
<1> QED
  BY <1>1, ConcatProperties DEF TypeOK

LEMMA VanishStep ==
  ASSUME TypeOK, TypeOK', NothingVanishes, [Next]_vars
  PROVE  NothingVanishes'
<1>0. /\ accepted = attempted \o InHand \o queue
      /\ attempted \in Seq(Request) /\ queue \in Seq(Request)
      /\ InHand \in Seq(Request) /\ attempted \o InHand \in Seq(Request)
  BY InHandType DEF NothingVanishes, TypeOK
<1> SUFFICES accepted' = attempted' \o InHand' \o queue'
  BY DEF NothingVanishes
<1>1. ASSUME NEW r \in Request, LogRequest(r), UNCHANGED <<attempted, worker>>
      PROVE  accepted' = attempted' \o InHand' \o queue'
  <2>1. InHand' = InHand /\ attempted' = attempted
    BY <1>1 DEF InHand
  <2>2. CASE UNCHANGED <<queue, accepted>>
    BY <1>0, <2>1, <2>2
  <2>3. CASE queue' = Append(queue, r) /\ accepted' = Append(accepted, r)
    <3>1. accepted' = (attempted \o InHand \o queue) \o <<r>>
      BY <1>0, <2>3, InHandType, AppendIsConcat
    <3>2. queue' = queue \o <<r>>
      BY <1>0, <2>3, AppendIsConcat
    <3>3. accepted' = attempted \o InHand \o (queue \o <<r>>)
      BY <1>0, <3>1, SingletonSeq, ConcatAssociative
    <3> QED
      BY <2>1, <3>2, <3>3
  <2> QED
    BY <1>1, <2>2, <2>3 DEF LogRequest, channel
<1>2. CASE Take
  <2>1. CASE UNCHANGED queue /\ worker' = "gone"
    <3>1. InHand' = InHand /\ UNCHANGED <<accepted, attempted, queue>>
      BY <1>2, <2>1, Constants DEF Take, InHand
    <3> QED
      BY <1>0, <3>1
  <2>2. CASE queue # <<>> /\ worker' = Head(queue) /\ queue' = Tail(queue)
    <3>1. Head(queue) \in Request /\ Tail(queue) \in Seq(Request)
      BY <1>0, <2>2, HeadTailProperties
    <3>2. InHand = <<>> /\ InHand' = <<Head(queue)>>
      BY <1>2, <2>2, <3>1, Constants DEF Take, InHand
    <3>3. accepted = attempted \o queue
      BY <1>0, <3>2, ConcatEmptySeq
    <3>4. queue = <<Head(queue)>> \o Tail(queue)
      BY <1>0, <2>2, HeadThenTail
    <3>5. accepted = attempted \o <<Head(queue)>> \o Tail(queue)
      BY <1>0, <3>1, <3>3, <3>4, SingletonSeq, ConcatAssociative
    <3> QED
      BY <1>2, <2>2, <3>2, <3>5 DEF Take
  <2> QED
    BY <1>2, <2>1, <2>2 DEF Take
<1>3. CASE Persist
  <2>1. InHand = <<worker>> /\ InHand' = <<>> /\ worker \in Request
    BY <1>3, Constants DEF Persist, InHand
  <2>2. attempted' = attempted \o InHand
    BY <1>0, <1>3, <2>1, AppendIsConcat DEF Persist
  <2>3. accepted' = accepted /\ queue' = queue
    BY <1>3 DEF Persist, channel
  <2>4. attempted' \o <<>> = attempted'
    BY <1>0, <2>2, ConcatEmptySeq
  <2> QED
    BY <1>0, <2>1, <2>2, <2>3, <2>4
<1>4. CASE UNCHANGED <<accepted, attempted, worker, queue>>
  BY <1>0, <1>4 DEF InHand
<1>5. ASSUME NEW r \in Request, Arrive(r) \/ ClientLeaves(r) \/ LogRequest(r)
      PROVE  UNCHANGED <<attempted, worker>>
  BY <1>5 DEF Arrive, ClientLeaves, LogRequest, writer
<1>6. ASSUME \/ \E r \in Request : Arrive(r) \/ ClientLeaves(r)
             \/ Tick \/ RunPurge \/ PurgeStopped
             \/ Signal \/ Shutdown \/ Cleanup \/ Kill \/ UNCHANGED vars
      PROVE  UNCHANGED <<accepted, attempted, worker, queue>>
  BY <1>6 DEF Arrive, ClientLeaves, Tick, RunPurge, PurgeStopped, Signal,
     Shutdown, Cleanup, StopPurgeWorker, Close, Release, Kill, vars, channel, writer
<1> QED
  BY <1>1, <1>2, <1>3, <1>4, <1>5, <1>6 DEF Next

(* Whatever the handlers, the worker and main do, every log the channel    *)
(* took was written, is being written, or is still in the channel, once    *)
(* each and in order.                                                      *)
THEOREM LogsKept == Spec => []NothingVanishes
<1>1. TypeOK /\ Init => NothingVanishes
  <2> SUFFICES ASSUME TypeOK, Init PROVE NothingVanishes
    OBVIOUS
  <2>1. InHand = <<>>
    BY Constants DEF Init, InHand
  <2>2. <<>> \o <<>> \o <<>> = <<>>
    BY EmptySeq, ConcatEmptySeq
  <2> QED
    BY <2>1, <2>2 DEF Init, NothingVanishes
<1>2. TypeOK /\ TypeOK' /\ NothingVanishes /\ [Next]_vars => NothingVanishes'
  BY VanishStep
<1> QED
  BY <1>1, <1>2, TypeCorrect, PTL DEF Spec

----------------------------------------------------------------------------
(* The inductive invariant of the loss bound *)

(* What is accepted and neither in the database nor failed. *)
Missing == ToSet(accepted) \ (stored \cup failed)

(* While the database is open, what processLogs is done with was answered. *)
Answered == DBOpen => ToSet(attempted) \subseteq stored \cup failed

(* Close comes after Shutdown and before the database is closed, and only  *)
(* streams outlive Shutdown.                                               *)
Staged ==
    /\ closed => main \notin {"serve", "shutdown"}
    /\ main \in {"stopWorkers", "closeDB", "closeRedis"} => closed
    /\ main \notin {"serve", "shutdown", "exited"} =>
          \A r \in Request : req[r] # "open"
    /\ \A r \in Request : req[r] = "orphan" => r \in abandoned
    /\ panicked \subseteq abandoned

LossInv == Answered /\ Staged /\ Cardinality(Missing) <= BufferSize + 1

LEMMA StagedStep ==
  ASSUME TypeOK, TypeOK', Staged, [Next]_vars
  PROVE  Staged'
<1> USE DEF Staged, TypeOK, channel, writer, purge, clients, Goto, Stage
<1>1. ASSUME NEW r \in Request, Arrive(r) PROVE Staged'
  BY <1>1 DEF Arrive
<1>2. ASSUME NEW r \in Request, ClientLeaves(r) PROVE Staged'
  BY <1>2 DEF ClientLeaves
<1>3. ASSUME NEW r \in Request, LogRequest(r) PROVE Staged'
  BY <1>3 DEF LogRequest, Running
<1>4. CASE Take \/ Persist
  BY <1>4 DEF Take, Persist
<1>5. CASE Tick \/ RunPurge \/ PurgeStopped
  BY <1>5 DEF Tick, RunPurge, PurgeStopped
<1>6. CASE Signal \/ Shutdown \/ Kill
  BY <1>6 DEF Signal, Shutdown, Kill
<1>7. CASE Cleanup
  BY <1>7 DEF Cleanup, StopPurgeWorker, Close, Release
<1>8. CASE UNCHANGED vars
  BY <1>8 DEF vars
<1> QED
  BY <1>1, <1>2, <1>3, <1>4, <1>5, <1>6, <1>7, <1>8 DEF Next

LEMMA AnsweredStep ==
  ASSUME TypeOK, TypeOK', Answered, [Next]_vars
  PROVE  Answered'
<1>1. CASE Persist
  <2>1. worker \in Request /\ attempted' = Append(attempted, worker) /\ DBOpen' = DBOpen
    BY <1>1 DEF Persist, DBOpen
  <2>2. ToSet(attempted') = ToSet(attempted) \cup {worker}
    BY <2>1, ElementsOfAppend DEF TypeOK
  <2> QED
    BY <1>1, <2>1, <2>2 DEF Answered, Persist
<1>2. CASE UNCHANGED <<attempted, stored, failed>>
  <2>1. DBOpen' => DBOpen
    BY DEF Next, vars, DBOpen, Arrive, ClientLeaves, LogRequest, Take, Persist,
       Tick, RunPurge, PurgeStopped, Signal, Shutdown, Cleanup, StopPurgeWorker,
       Close, Release, Kill, Goto, Running
  <2> QED
    BY <1>2, <2>1 DEF Answered
<1>3. [Next]_vars => Persist \/ UNCHANGED <<attempted, stored, failed>>
  BY DEF Next, vars, Arrive, ClientLeaves, LogRequest, Take, writer,
     Tick, RunPurge, PurgeStopped, Signal, Shutdown, Cleanup, StopPurgeWorker,
     Close, Release, Kill
<1> QED
  BY <1>1, <1>2, <1>3

(* While the database is open, what is missing is in the worker's hand or  *)
(* in the channel.                                                         *)
LEMMA MissingInFlight ==
  ASSUME TypeOK, NothingVanishes, Answered, DBOpen
  PROVE  Cardinality(Missing) <= BufferSize + 1
<1>1. /\ attempted \in Seq(Request) /\ queue \in Seq(Request)
      /\ InHand \in Seq(Request) /\ Len(InHand) <= 1 /\ Len(InHand) \in Nat
      /\ Len(queue) \in Nat /\ Len(queue) <= BufferSize
  BY InHandType, LenProperties DEF TypeOK
<1> DEFINE flight == InHand \o queue
<1>2. accepted = attempted \o flight
  BY <1>1, ConcatAssociative DEF NothingVanishes
<1>3. /\ flight \in Seq(Request)
      /\ Len(flight) = Len(InHand) + Len(queue)
  BY <1>1, ConcatProperties
<1> HIDE DEF flight
<1>4. ToSet(accepted) = ToSet(attempted) \cup ToSet(flight)
  BY <1>1, <1>2, <1>3, ElementsConcat
<1>5. Missing \in SUBSET ToSet(flight)
  BY <1>4 DEF Missing, Answered
<1>6. /\ IsFiniteSet(ToSet(flight))
      /\ Cardinality(ToSet(flight)) \in Nat
      /\ Cardinality(ToSet(flight)) <= BufferSize + 1
  BY <1>1, <1>3, ElementsOfSeq, Constants
<1> QED
  BY <1>5, <1>6, FS_Subset, FS_CardinalityType, Constants

LEMMA LossStep ==
  ASSUME TypeOK, TypeOK', NothingVanishes', LossInv, [Next]_vars
  PROVE  LossInv'
<1>1. Answered' /\ Staged'
  BY AnsweredStep, StagedStep DEF LossInv
<1>2. CASE DBOpen'
  <2>1. (Cardinality(Missing) <= BufferSize + 1)'
    BY <1>1, <1>2, MissingInFlight, PTL
  <2> QED
    BY <1>1, <2>1 DEF LossInv
<1>3. CASE ~DBOpen'
  <2>1. UNCHANGED <<accepted, stored, failed>>
    BY <1>3 DEF LossInv, Staged, Next, vars, DBOpen, Arrive, ClientLeaves,
       LogRequest, Take, Persist, Tick, RunPurge, PurgeStopped, Signal, Shutdown,
       Cleanup, StopPurgeWorker, Close, Release, Kill, Goto, Running, channel,
       writer, TypeOK, Stage
  <2> QED
    BY <1>1, <2>1 DEF LossInv, Missing
<1> QED
  BY <1>2, <1>3

(* A process that ends, in any way, loses at most what fits in the channel *)
(* and in the worker's hand, and only a stream its client left can have    *)
(* panicked on the closed channel.                                         *)
THEOREM LossesBounded == Spec => []LossBounded
<1>1. TypeOK /\ NothingVanishes /\ Init => LossInv
  <2> SUFFICES ASSUME TypeOK, NothingVanishes, Init PROVE LossInv
    OBVIOUS
  <2>1. ToSet(attempted) = {}
    BY DEF Init, ToSet
  <2>2. Answered /\ DBOpen
    BY <2>1 DEF Init, Answered, DBOpen
  <2>3. Staged
    BY DEF Init, Staged
  <2> QED
    BY <2>2, <2>3, MissingInFlight DEF LossInv
<1>2. TypeOK /\ TypeOK' /\ NothingVanishes' /\ LossInv /\ [Next]_vars => LossInv'
  BY LossStep
<1>3. LossInv => LossBounded
  BY DEF LossInv, Staged, LossBounded, Missing
<1> QED
  BY <1>1, <1>2, <1>3, TypeCorrect, LogsKept, PTL DEF Spec

----------------------------------------------------------------------------
(* The tokens of an OAuth key.                                             *)

LEMMA RefreshConstants ==
  /\ MaxVersion \in Nat /\ MaxFailures \in Nat
  /\ "free" \notin Caller /\ Worker \in Caller
  /\ FirstRow \in Row /\ 0 \in Version /\ FirstRow.tokens = 0
<1>1. "free" \notin {"worker"}
  OBVIOUS
<1>2. FirstRow \in Row /\ 0 \in Version /\ FirstRow.tokens = 0
  BY OAuthAssumption DEF FirstRow, Row, Version
<1> QED
  BY <1>1, <1>2, OAuthAssumption DEF Caller, Worker

(* Patching one field of a row leaves the others. *)
LEMMA Patched ==
  ASSUME NEW r \in Row
  PROVE  /\ r.tokens \in Version /\ r.live \in BOOLEAN
         /\ r.status \in {"active", "inactive"}
         /\ \A v \in Version :
               /\ [r EXCEPT !.tokens = v] \in Row
               /\ [r EXCEPT !.tokens = v].tokens = v
               /\ [r EXCEPT !.tokens = v].live = r.live
         /\ \A s \in {"active", "inactive"} :
               /\ [r EXCEPT !.status = s] \in Row
               /\ [r EXCEPT !.status = s].tokens = r.tokens
               /\ [r EXCEPT !.status = s].live = r.live
         /\ \A b \in BOOLEAN :
               /\ [r EXCEPT !.live = b] \in Row
               /\ [r EXCEPT !.live = b].tokens = r.tokens
               /\ [r EXCEPT !.live = b].live = b
  BY DEF Row

(* The next version the provider issues is a version. *)
LEMMA NextVersion ==
  ASSUME issued \in Version
  PROVE  issued \in Nat /\ (issued < MaxVersion => issued + 1 \in Version)
         /\ 0..issued \subseteq Version
  BY OAuthAssumption DEF Version

(* Every variable keeps its type, and the lock is held by exactly the      *)
(* caller between Lock and Return: two calls of doRefresh never overlap.   *)
THEOREM RefreshTyped == RefreshSpec => []RefreshTypeOK
<1>1. RefreshInit => RefreshTypeOK
  <2> SUFFICES ASSUME RefreshInit PROVE RefreshTypeOK
    OBVIOUS
  <2>1. Typed
    BY RefreshConstants DEF RefreshInit, Typed
  <2>2. LockHeld
    BY RefreshConstants DEF RefreshInit, LockHeld
  <2>3. Flags
    BY DEF RefreshInit, Flags
  <2> QED
    BY <2>1, <2>2, <2>3 DEF RefreshTypeOK
<1>2. RefreshTypeOK /\ [RefreshNext]_refreshVars => RefreshTypeOK'
  <2> SUFFICES ASSUME RefreshTypeOK, [RefreshNext]_refreshVars PROVE Typed' /\ Flags' /\ LockHeld'
    BY DEF RefreshTypeOK
  <2> USE RefreshConstants DEF RefreshTypeOK, refresher, admin, history, Continue, Fault, Return
  <2>1. ASSUME NEW c \in Caller, Start(c) PROVE Typed' /\ Flags' /\ LockHeld'
    <3>1. Typed'
      BY <2>1, Patched DEF Start, Typed
    <3>2. LockHeld'
      BY <2>1 DEF Start, Typed, LockHeld
    <3>3. Flags'
      BY <2>1 DEF Start, Flags
    <3> QED
      BY <3>1, <3>2, <3>3
  <2>2. ASSUME NEW c \in Caller, Lock(c) PROVE Typed' /\ Flags' /\ LockHeld'
    <3>1. Typed'
      BY <2>2 DEF Lock, Typed
    <3>2. LockHeld'
      BY <2>2 DEF Lock, Typed, LockHeld
    <3>3. Flags'
      BY <2>2 DEF Lock, Flags
    <3> QED
      BY <3>1, <3>2, <3>3
  <2>3. ASSUME NEW c \in Caller, Reread(c) PROVE Typed' /\ Flags' /\ LockHeld'
    <3>1. Typed'
      BY <2>3 DEF Reread, Typed
    <3>2. LockHeld'
      BY <2>3 DEF Reread, Typed, LockHeld
    <3>3. Flags'
      BY <2>3 DEF Reread, Flags
    <3> QED
      BY <3>1, <3>2, <3>3
  <2>4. ASSUME NEW c \in Caller, CallProvider(c) PROVE Typed' /\ Flags' /\ LockHeld'
    <3>1. copy' \in [Caller -> Row]
      <4>1. CASE UNCHANGED copy
        BY <4>1 DEF Typed
      <4>2. CASE copy' = [copy EXCEPT ![c] = FirstRow]
        BY <4>2 DEF Typed
      <4>3. CASE /\ issued < MaxVersion
                 /\ copy' = [copy EXCEPT ![c].tokens = issued + 1]
        <5>1. copy[c] \in Row /\ issued + 1 \in Version
          BY <4>3, NextVersion DEF Typed
        <5>2. [copy[c] EXCEPT !.tokens = issued + 1] \in Row
          BY <5>1, Patched
        <5> QED
          BY <4>3, <5>2 DEF Typed
      <4> QED
        BY <2>4, <4>1, <4>2, <4>3 DEF CallProvider
    <3>2. Typed'
      BY <2>4, <3>1, NextVersion DEF CallProvider, Typed
    <3>3. LockHeld'
      BY <2>4 DEF CallProvider, Typed, LockHeld
    <3>4. Flags'
      BY <2>4 DEF CallProvider, Flags
    <3> QED
      BY <3>2, <3>3, <3>4
  <2>5. ASSUME NEW c \in Caller, PersistTokens(c) PROVE Typed' /\ Flags' /\ LockHeld'
    <3>1. Typed'
      BY <2>5 DEF PersistTokens, Overwrite, Typed
    <3>2. LockHeld'
      BY <2>5 DEF PersistTokens, Overwrite, Typed, LockHeld
    <3>3. Flags'
      BY <2>5 DEF PersistTokens, Overwrite, Flags
    <3> QED
      BY <3>1, <3>2, <3>3
  <2>6. CASE Restart
    <3>1. Typed'
      BY <2>6 DEF Restart, Typed
    <3>2. LockHeld'
      BY <2>6 DEF Restart, Typed, LockHeld
    <3>3. Flags'
      BY <2>6 DEF Restart, Flags
    <3> QED
      BY <3>1, <3>2, <3>3
  <2>7. CASE Expire
    <3>1. Typed'
      BY <2>7, NextVersion DEF Expire, Typed
    <3>2. LockHeld'
      BY <2>7 DEF Expire, Typed, LockHeld
    <3>3. Flags'
      BY <2>7 DEF Expire, Flags
    <3> QED
      BY <3>1, <3>2, <3>3
  <2>8. CASE BeginUpdate
    <3>1. draft' \in Row
      <4>1. CASE draft' = db
        BY <4>1 DEF Typed
      <4>2. ASSUME NEW s \in {"active", "inactive"},
                   draft' = [db EXCEPT !.status = s]
            PROVE  draft' \in Row
        BY <4>2, Patched DEF Typed
      <4>3. CASE issued < MaxVersion /\ draft' = [db EXCEPT !.tokens = issued + 1]
        BY <4>3, Patched, NextVersion DEF Typed
      <4> QED
        BY <2>8, <4>1, <4>2, <4>3 DEF BeginUpdate
    <3>2. Typed'
      <4>1. base' \in Version
        BY <2>8, Patched DEF BeginUpdate, Typed
      <4>2. issued' \in Version
        BY <2>8, NextVersion DEF BeginUpdate, Typed
      <4> QED
        BY <2>8, <3>1, <4>1, <4>2 DEF BeginUpdate, Typed
    <3>3. LockHeld'
      BY <2>8 DEF BeginUpdate, Typed, LockHeld
    <3>4. Flags'
      BY <2>8 DEF BeginUpdate, Flags
    <3> QED
      BY <3>2, <3>3, <3>4
  <2>9. CASE EndUpdate
    <3>1. Typed'
      BY <2>9 DEF EndUpdate, Overwrite, Typed
    <3>2. LockHeld'
      BY <2>9 DEF EndUpdate, Overwrite, Typed, LockHeld
    <3>3. Flags'
      BY <2>9 DEF EndUpdate, Overwrite, Flags
    <3> QED
      BY <3>1, <3>2, <3>3
  <2>10. CASE Delete
    <3>1. Typed'
      BY <2>10, Patched DEF Delete, Typed
    <3>2. LockHeld'
      BY <2>10 DEF Delete, Typed, LockHeld
    <3>3. Flags'
      BY <2>10 DEF Delete, Flags
    <3> QED
      BY <3>1, <3>2, <3>3
  <2>11. CASE UNCHANGED refreshVars
    BY <2>11 DEF refreshVars, Typed, Flags, LockHeld
  <2> QED
    BY <2>1, <2>2, <2>3, <2>4, <2>5, <2>6, <2>7, <2>8, <2>9, <2>10, <2>11
       DEF RefreshNext, Step
<1> QED
  BY <1>1, <1>2, PTL DEF RefreshSpec

----------------------------------------------------------------------------
(* The inductive invariant *)

(* Nobody holds tokens the provider has not issued. *)
OnlyIssued ==
    /\ db.tokens <= issued /\ base <= issued /\ draft.tokens <= issued
    /\ \A c \in Caller : seen[c] <= issued /\ copy[c].tokens <= issued

(* What the copies hold: the administrator's the tokens it read, or new    *)
(* ones that no one else has; a caller's the tokens it read, then newer    *)
(* ones.                                                                   *)
DraftSound ==
    /\ patch \in {"name", "status"} => draft.tokens = base
    /\ patch = "tokens" =>
          /\ draft.tokens = issued /\ db.tokens < issued
          /\ \A c \in Caller : copy[c].tokens < issued

CopiesSound ==
    \A c \in Caller :
        /\ pc[c] = "refresh" => seen[c] = copy[c].tokens
        /\ pc[c] = "persist" => seen[c] < copy[c].tokens

(* New tokens about to be written are the last ones, unless the            *)
(* administrator got newer ones: then writing them would be noticed.       *)
PersistSound ==
    \A c \in Caller :
        pc[c] = "persist" /\ db.live /\ ~lost =>
            \/ copy[c].tokens = issued
            \/ patch = "tokens"
            \/ seen[c] < db.tokens

RefreshInv ==
    OnlyIssued /\ DraftSound /\ CopiesSound /\ PersistSound
    /\ TokensCurrent /\ NoTokenReuse

LEMMA VersionNumbers ==
  ASSUME Typed
  PROVE  /\ issued \in Nat /\ db.tokens \in Nat /\ base \in Nat
         /\ draft.tokens \in Nat
         /\ \A c \in Caller : seen[c] \in Nat /\ copy[c].tokens \in Nat
<1>1. \A v \in Version : v \in Nat
  BY DEF Version
<1> QED
  BY <1>1, Patched DEF Typed

(* What the steps that change one field of a copy do to the tokens. *)
LEMMA CallProviderDoes ==
  ASSUME RefreshTypeOK, NEW c \in Caller, CallProvider(c)
  PROVE  /\ pc[c] = "refresh" /\ lock = c
         /\ \A q \in Caller \ {c} :
               /\ pc'[q] = pc[q] /\ seen'[q] = seen[q] /\ copy'[q] = copy[q]
               /\ pc[q] \notin {"reread", "refresh", "persist"}
         /\ UNCHANGED <<db, base, draft, patch, logins>>
         /\ \/ /\ copy[c].tokens = issued /\ issued' = issued + 1
               /\ pc'[c] = "persist" /\ seen'[c] = seen[c]
               /\ copy'[c].tokens = issued + 1
               /\ lost' = lost
            \/ /\ copy[c].tokens = issued /\ issued' = issued + 1
               /\ pc'[c] = "idle" /\ seen'[c] = 0 /\ copy'[c] = FirstRow
               /\ lost'
            \/ /\ issued' = issued /\ lost' = lost
               /\ pc'[c] = "idle" /\ seen'[c] = 0 /\ copy'[c] = FirstRow
<1>1. pc[c] = "refresh" /\ lock = c
  BY DEF CallProvider, RefreshTypeOK, LockHeld
<1>2. \A q \in Caller \ {c} : pc[q] \notin {"reread", "refresh", "persist"}
  BY <1>1 DEF RefreshTypeOK, LockHeld
<1>3. ASSUME issued < MaxVersion, copy' = [copy EXCEPT ![c].tokens = issued + 1]
      PROVE  copy'[c].tokens = issued + 1
  BY <1>3, NextVersion DEF RefreshTypeOK, Typed, Row
<1> QED
  BY <1>1, <1>2, <1>3
     DEF CallProvider, RefreshTypeOK, Typed, Continue, Return, Fault, history, admin

LEMMA BeginUpdateDoes ==
  ASSUME RefreshTypeOK, BeginUpdate
  PROVE  /\ patch = "none" /\ db.live /\ base' = db.tokens
         /\ UNCHANGED <<db, pc, seen, copy, logins, lost>>
         /\ \/ /\ patch' \in {"name", "status"} /\ issued' = issued
               /\ draft'.tokens = db.tokens
            \/ /\ patch' = "tokens" /\ issued' = issued + 1
               /\ draft'.tokens = issued + 1
<1>1. ASSUME NEW s \in {"active", "inactive"}, draft' = [db EXCEPT !.status = s]
      PROVE  draft'.tokens = db.tokens
  BY <1>1, Patched DEF RefreshTypeOK, Typed
<1>2. ASSUME issued < MaxVersion, draft' = [db EXCEPT !.tokens = issued + 1]
      PROVE  draft'.tokens = issued + 1
  BY <1>2, Patched, NextVersion DEF RefreshTypeOK, Typed
<1> QED
  BY <1>1, <1>2 DEF BeginUpdate, refresher, history

LEMMA PersistDoes ==
  ASSUME RefreshTypeOK, NEW c \in Caller, PersistTokens(c)
  PROVE  /\ pc[c] = "persist" /\ pc'[c] = "idle"
         /\ seen'[c] = 0 /\ copy'[c] = FirstRow
         /\ \A q \in Caller \ {c} :
               /\ pc'[q] = pc[q] /\ seen'[q] = seen[q] /\ copy'[q] = copy[q]
               /\ pc[q] \notin {"reread", "refresh", "persist"}
         /\ UNCHANGED <<issued, base, draft, patch, logins>>
         /\ lost => lost'
         /\ \/ lost' /\ db' = db
            \/ db' = (IF db.live THEN copy[c] ELSE db)
               /\ (~lost' => db.tokens = seen[c])
<1>1. lock = c
  BY DEF PersistTokens, RefreshTypeOK, LockHeld
<1> QED
  BY <1>1 DEF PersistTokens, RefreshTypeOK, Typed, LockHeld, Continue, Return, Overwrite, admin

LEMMA EndUpdateDoes ==
  ASSUME RefreshTypeOK, EndUpdate
  PROVE  /\ patch # "none" /\ patch' = "none" /\ base' = 0 /\ draft' = FirstRow
         /\ UNCHANGED <<issued, pc, seen, copy>>
         /\ lost => lost'
         /\ \/ db' = db /\ (patch = "tokens" => lost') /\ logins' = logins
            \/ /\ db' = (IF db.live THEN draft ELSE db)
               /\ ~lost' => db.tokens = base
               /\ patch = "tokens" => logins'
               /\ logins => logins'
  BY DEF EndUpdate, Overwrite, refresher

----------------------------------------------------------------------------

LEMMA OnlyIssuedStep ==
  ASSUME RefreshTypeOK, RefreshTypeOK', OnlyIssued, [RefreshNext]_refreshVars
  PROVE  OnlyIssued'
<1>0. Typed /\ Typed'
  BY DEF RefreshTypeOK
<1> USE VersionNumbers, RefreshConstants, <1>0 DEF OnlyIssued
<1>1. ASSUME NEW c \in Caller, Start(c) PROVE OnlyIssued'
  BY <1>1 DEF Start, admin, Typed
<1>2. ASSUME NEW c \in Caller, Lock(c) PROVE OnlyIssued'
  BY <1>2 DEF Lock, admin
<1>3. ASSUME NEW c \in Caller, Reread(c) PROVE OnlyIssued'
  BY <1>3 DEF Reread, Return, admin, Typed
<1>4. ASSUME NEW c \in Caller, CallProvider(c) PROVE OnlyIssued'
  BY <1>4, CallProviderDoes
<1>5. ASSUME NEW c \in Caller, PersistTokens(c) PROVE OnlyIssued'
  BY <1>5, PersistDoes
<1>6. CASE Restart
  BY <1>6 DEF Restart
<1>7. CASE Expire
  BY <1>7 DEF Expire, refresher, admin
<1>8. CASE BeginUpdate
  BY <1>8, BeginUpdateDoes
<1>9. CASE EndUpdate
  BY <1>9, EndUpdateDoes
<1>10. CASE Delete
  BY <1>10, Patched DEF Delete, refresher, admin, Typed
<1>11. CASE UNCHANGED refreshVars
  BY <1>11 DEF refreshVars, refresher, admin
<1> QED
  BY <1>1, <1>2, <1>3, <1>4, <1>5, <1>6, <1>7, <1>8, <1>9, <1>10, <1>11
     DEF RefreshNext, Step

LEMMA CopiesStep ==
  ASSUME RefreshTypeOK, RefreshTypeOK', OnlyIssued, DraftSound, CopiesSound, [RefreshNext]_refreshVars
  PROVE  DraftSound' /\ CopiesSound'
<1>0. Typed /\ Typed'
  BY DEF RefreshTypeOK
<1> USE VersionNumbers, RefreshConstants, <1>0 DEF OnlyIssued, DraftSound, CopiesSound
<1>1. ASSUME NEW c \in Caller, Start(c) PROVE DraftSound' /\ CopiesSound'
  BY <1>1 DEF Start, admin, Typed, Continue
<1>2. ASSUME NEW c \in Caller, Lock(c) PROVE DraftSound' /\ CopiesSound'
  BY <1>2 DEF Lock, admin, Typed, Continue
<1>3. ASSUME NEW c \in Caller, Reread(c) PROVE DraftSound' /\ CopiesSound'
  BY <1>3 DEF Reread, Return, admin, Typed, Continue
<1>4. ASSUME NEW c \in Caller, CallProvider(c) PROVE DraftSound' /\ CopiesSound'
  BY <1>4, CallProviderDoes
<1>5. ASSUME NEW c \in Caller, PersistTokens(c) PROVE DraftSound' /\ CopiesSound'
  BY <1>5, PersistDoes
<1>6. CASE Restart
  BY <1>6 DEF Restart
<1>7. CASE Expire
  BY <1>7 DEF Expire, refresher, admin
<1>8. CASE BeginUpdate
  BY <1>8, BeginUpdateDoes
<1>9. CASE EndUpdate
  BY <1>9, EndUpdateDoes
<1>10. CASE Delete
  BY <1>10, Patched DEF Delete, refresher, admin, Typed
<1>11. CASE UNCHANGED refreshVars
  BY <1>11 DEF refreshVars, refresher, admin
<1> QED
  BY <1>1, <1>2, <1>3, <1>4, <1>5, <1>6, <1>7, <1>8, <1>9, <1>10, <1>11
     DEF RefreshNext, Step
LEMMA PersistStep ==
  ASSUME RefreshTypeOK, RefreshTypeOK', OnlyIssued, DraftSound, CopiesSound, PersistSound, [RefreshNext]_refreshVars
  PROVE  PersistSound'
<1>0. Typed /\ Typed' /\ LockHeld /\ LockHeld'
  BY DEF RefreshTypeOK
<1> USE VersionNumbers, RefreshConstants, <1>0 DEF OnlyIssued, DraftSound, CopiesSound, PersistSound
<1>1. ASSUME NEW c \in Caller, Start(c) PROVE PersistSound'
  BY <1>1 DEF Start, admin, Typed, Continue, history
<1>2. ASSUME NEW c \in Caller, Lock(c) PROVE PersistSound'
  BY <1>2 DEF Lock, admin, Typed, Continue, history
<1>3. ASSUME NEW c \in Caller, Reread(c) PROVE PersistSound'
  BY <1>3 DEF Reread, Return, admin, Typed, Continue, history
<1>4. ASSUME NEW c \in Caller, CallProvider(c) PROVE PersistSound'
  BY <1>4, CallProviderDoes
<1>5. ASSUME NEW c \in Caller, PersistTokens(c) PROVE PersistSound'
  BY <1>5, PersistDoes
<1>6. CASE Restart
  BY <1>6 DEF Restart
<1>7. CASE Expire
  BY <1>7 DEF Expire, refresher, admin, history
<1>8. CASE BeginUpdate
  BY <1>8, BeginUpdateDoes
<1>9. CASE EndUpdate
  <2>1. patch \in {"name", "status", "tokens"}
    BY <1>9, EndUpdateDoes DEF Typed
  <2> QED
    BY <1>9, <2>1, EndUpdateDoes
<1>10. CASE Delete
  BY <1>10, Patched DEF Delete, refresher, admin, history, Typed
<1>11. CASE UNCHANGED refreshVars
  BY <1>11 DEF refreshVars, refresher, admin, history
<1> QED
  BY <1>1, <1>2, <1>3, <1>4, <1>5, <1>6, <1>7, <1>8, <1>9, <1>10, <1>11
     DEF RefreshNext, Step

LEMMA CurrentStep ==
  ASSUME RefreshTypeOK, RefreshTypeOK', OnlyIssued, DraftSound, CopiesSound, PersistSound, TokensCurrent, [RefreshNext]_refreshVars
  PROVE  TokensCurrent'
<1>0. Typed /\ Typed' /\ LockHeld /\ LockHeld'
  BY DEF RefreshTypeOK
<1> USE VersionNumbers, RefreshConstants, <1>0 DEF OnlyIssued, DraftSound, CopiesSound, PersistSound, TokensCurrent
<1>1. ASSUME NEW c \in Caller, Start(c) PROVE TokensCurrent'
  BY <1>1 DEF Start, admin, Typed, Continue, history
<1>2. ASSUME NEW c \in Caller, Lock(c) PROVE TokensCurrent'
  BY <1>2 DEF Lock, admin, Typed, Continue, history
<1>3. ASSUME NEW c \in Caller, Reread(c) PROVE TokensCurrent'
  BY <1>3 DEF Reread, Return, admin, Typed, Continue, history
<1>4. ASSUME NEW c \in Caller, CallProvider(c) PROVE TokensCurrent'
  BY <1>4, CallProviderDoes
<1>5. ASSUME NEW c \in Caller, PersistTokens(c) PROVE TokensCurrent'
  BY <1>5, PersistDoes
<1>6. CASE Restart
  BY <1>6 DEF Restart
<1>7. CASE Expire
  BY <1>7 DEF Expire, refresher, admin, history
<1>8. CASE BeginUpdate
  BY <1>8, BeginUpdateDoes
<1>9. CASE EndUpdate
  <2>1. patch \in {"name", "status", "tokens"}
    BY <1>9, EndUpdateDoes DEF Typed
  <2> QED
    BY <1>9, <2>1, EndUpdateDoes
<1>10. CASE Delete
  BY <1>10, Patched DEF Delete, refresher, admin, history, Typed
<1>11. CASE UNCHANGED refreshVars
  BY <1>11 DEF refreshVars, refresher, admin, history
<1> QED
  BY <1>1, <1>2, <1>3, <1>4, <1>5, <1>6, <1>7, <1>8, <1>9, <1>10, <1>11
     DEF RefreshNext, Step

LEMMA ReuseStep ==
  ASSUME RefreshTypeOK, RefreshTypeOK', OnlyIssued, DraftSound, CopiesSound, PersistSound, TokensCurrent, NoTokenReuse, [RefreshNext]_refreshVars
  PROVE  NoTokenReuse'
<1>0. Typed /\ Typed' /\ LockHeld /\ LockHeld'
  BY DEF RefreshTypeOK
<1> USE VersionNumbers, RefreshConstants, <1>0 DEF OnlyIssued, DraftSound, CopiesSound, PersistSound, TokensCurrent, NoTokenReuse
<1>1. ASSUME NEW c \in Caller, Start(c) PROVE NoTokenReuse'
  BY <1>1 DEF Start, admin, Typed, Continue, history
<1>2. ASSUME NEW c \in Caller, Lock(c) PROVE NoTokenReuse'
  BY <1>2 DEF Lock, admin, Typed, Continue, history
<1>3. ASSUME NEW c \in Caller, Reread(c) PROVE NoTokenReuse'
  <2>1. \A q \in Caller \ {c} : pc[q] \notin {"reread", "refresh", "persist"}
    BY <1>3 DEF Reread, LockHeld
  <2>2. CASE Return(c)
    BY <1>3, <2>1, <2>2 DEF Reread, Return, Typed, Continue
  <2>3. CASE db.live /\ copy' = [copy EXCEPT ![c] = db] /\ Continue(c, "refresh")
             /\ UNCHANGED history
    <3>1. ~lost /\ patch # "tokens" => db.tokens = issued
      BY <1>3, <2>1, <2>3 DEF Reread
    <3>2. \A q \in Caller \ {c} : pc'[q] = pc[q]
      BY <2>3 DEF Continue, Typed
    <3> QED
      BY <1>3, <2>1, <2>3, <3>1, <3>2 DEF Reread, Typed, Continue, history, admin
  <2> QED
    BY <1>3, <2>2, <2>3 DEF Reread
<1>4. ASSUME NEW c \in Caller, CallProvider(c) PROVE NoTokenReuse'
  BY <1>4, CallProviderDoes
<1>5. ASSUME NEW c \in Caller, PersistTokens(c) PROVE NoTokenReuse'
  BY <1>5, PersistDoes
<1>6. CASE Restart
  BY <1>6 DEF Restart
<1>7. CASE Expire
  BY <1>7 DEF Expire, refresher, admin, history
<1>8. CASE BeginUpdate
  BY <1>8, BeginUpdateDoes
<1>9. CASE EndUpdate
  BY <1>9, EndUpdateDoes
<1>10. CASE Delete
  BY <1>10, Patched DEF Delete, refresher, admin, history, Typed
<1>11. CASE UNCHANGED refreshVars
  BY <1>11 DEF refreshVars, refresher, admin, history
<1> QED
  BY <1>1, <1>2, <1>3, <1>4, <1>5, <1>6, <1>7, <1>8, <1>9, <1>10, <1>11
     DEF RefreshNext, Step

----------------------------------------------------------------------------

THEOREM RefreshInvariant == RefreshSpec => []RefreshInv
<1>1. RefreshTypeOK /\ RefreshInit => RefreshInv
  <2> SUFFICES ASSUME RefreshTypeOK, RefreshInit PROVE RefreshInv
    OBVIOUS
  <2>1. OnlyIssued /\ DraftSound /\ CopiesSound
    BY RefreshConstants DEF RefreshInit, OnlyIssued, DraftSound, CopiesSound
  <2>2. PersistSound /\ TokensCurrent
    BY RefreshConstants DEF RefreshInit, PersistSound, TokensCurrent
  <2>3. NoTokenReuse
    BY RefreshConstants DEF RefreshInit, NoTokenReuse
  <2> QED
    BY <2>1, <2>2, <2>3 DEF RefreshInv
<1>2. RefreshTypeOK /\ RefreshTypeOK' /\ RefreshInv /\ [RefreshNext]_refreshVars => RefreshInv'
  BY OnlyIssuedStep, CopiesStep, PersistStep, CurrentStep, ReuseStep DEF RefreshInv
<1> QED
  BY <1>1, <1>2, RefreshTyped, PTL DEF RefreshSpec

(* doRefresh and Update write whole rows, yet as long as no writer          *)
(* overwrites tokens it has not read, the row holds the tokens the         *)
(* provider last issued, or they are about to be written.                  *)
THEOREM TokensStayCurrent == RefreshSpec => []TokensCurrent
<1>1. RefreshInv => TokensCurrent
  BY DEF RefreshInv
<1> QED
  BY <1>1, RefreshInvariant, PTL

(* The second read of the row, under the lock, keeps a refresh token that  *)
(* was already used from being sent to the provider again.                 *)
THEOREM TokensUsedOnce == RefreshSpec => []NoTokenReuse
<1>1. RefreshInv => NoTokenReuse
  BY DEF RefreshInv
<1> QED
  BY <1>1, RefreshInvariant, PTL

----------------------------------------------------------------------------
(* The stream of events.                                                   *)

Piece == [kind : Kind, event : Nat]

(* What the accounting of tokens rests on.  In an open stream as in an     *)
(* ended one, the callback knows what the provider reported, except for    *)
(* what it has forgotten.                                                  *)
Known == usage = IF Forgotten THEN [in |-> 0, out |-> reported.out] ELSE reported

Accounts ==
    /\ protocol \in Protocol
    /\ sent \in Seq(Piece)
    /\ events \in Nat
    /\ reported \in Tokens
    /\ events = 0 => reported = NoTokens
    /\ Known

(* How an event and its chunk report tokens: not at all, all of them, or   *)
(* one of the two halves of Anthropic.                                     *)
Chunk(e)     == TransformStreamEvent(protocol, e)
Forwards(e, u) == Chunk(e).forward = TRUE /\ Chunk(e).chunk.usage = u
Withheld(e)   == Chunk(e).forward = FALSE
Silent(e)    == e.in = 0 /\ e.out = 0 /\ (Withheld(e) \/ Forwards(e, <<>>))
Reports(e)   == Forwards(e, Usage(e))
Full(e)      == /\ protocol # "anthropic"
                /\ e.in = 1 /\ e.out = Output /\ Reports(e)
InputHalf(e) == /\ protocol = "anthropic" /\ events = 0
                /\ e.in = 1 /\ e.out = 0 /\ Reports(e)
OutputHalf(e) == /\ protocol = "anthropic"
                 /\ e.in = 0 /\ e.out = Output /\ Reports(e)

(* The kinds of piece in an event are kinds. *)
LEMMA PartsAreKinds ==
    ASSUME NEW p \in Protocol
    PROVE  Parts(p) \subseteq Seq(Kind)
<1>1. After(LastKind) \subseteq Kind
  BY DEF After, Kind, ToolKind
<1>2. \A k \in Kind : <<k>> \in Seq(Kind)
  OBVIOUS
<1>3. /\ <<>> \in Seq(Kind) /\ <<"thinking", "text">> \in Seq(Kind)
      /\ <<"text", "call">> \in Seq(Kind) /\ <<"text", "fn">> \in Seq(Kind)
      /\ <<"fn", "fn">> \in Seq(Kind) /\ <<"text", "text">> \in Seq(Kind)
      /\ <<"fn", "text">> \in Seq(Kind) /\ <<"text">> \in Seq(Kind)
      /\ <<"fn">> \in Seq(Kind)
  BY DEF Kind, ToolKind
<1>4. CASE p = "openai"
  BY <1>1, <1>2, <1>3, <1>4 DEF Parts
<1>5. CASE p = "anthropic"
  BY <1>1, <1>2, <1>5 DEF Parts
<1>6. CASE p = "google"
  BY <1>3, <1>6 DEF Parts
<1>7. CASE p = "cohere"
  BY <1>1, <1>2, <1>7 DEF Parts
<1> QED
  BY <1>4, <1>5, <1>6, <1>7 DEF Protocol

(* What becomes of a chunk, and the usage of the chunks that are built. *)
LEMMA Fate ==
    /\ \A c : Forward(c).chunk = c /\ Forward(c).forward = TRUE
    /\ \A d : Drop(d).forward = FALSE
BY DEF Forward, Drop

(* What the translators do with each type of event. *)
LEMMA OfOpenAI ==
    ASSUME protocol = "openai", NEW e
    PROVE  IF e.type = "[DONE]" THEN Withheld(e) ELSE Forwards(e, Reported(e))
<1> DEFINE c == [reasoning |-> Field(e, "thinking"),
                 signature |-> Field(e, "signature"),
                 text |-> Field(e, "text"), calls |-> Calls(e),
                 finish |-> FinishReason(e.stop), usage |-> Reported(e)]
<1>1. Chunk(e) = IF e.type = "[DONE]" THEN Drop(TRUE) ELSE Forward(c)
  BY Zenon DEF Chunk, TransformStreamEvent, OpenAITransform
<1>2. c.usage = Reported(e)
  OBVIOUS
<1> HIDE DEF c
<1> QED
  BY <1>1, <1>2, Fate, Zenon DEF Forwards, Withheld

LEMMA OfAnthropic ==
    ASSUME protocol = "anthropic", NEW e
    PROVE  /\ e.type = "message_start" => Forwards(e, Usage(e))
           /\ e.type = "content_block_start" => Forwards(e, <<>>)
           /\ e.type = "content_block_delta" => Forwards(e, <<>>)
           /\ e.type = "message_delta" => Forwards(e, Usage(e))
           /\ e.type = "message_stop" => Withheld(e)
<1>1. Chunk(e) = AnthropicTransform(e)
  BY Zenon DEF Chunk, TransformStreamEvent
<1>2. ASSUME e.type = "message_start" PROVE Forwards(e, Usage(e))
  <2>1. Chunk(e) = Forward([Blank EXCEPT !.usage = Usage(e)])
    BY <1>1, <1>2, Zenon DEF AnthropicTransform
  <2>2. ([Blank EXCEPT !.usage = Usage(e)]).usage = Usage(e)
    BY DEF Blank
  <2> QED
    BY <2>1, <2>2, Fate, Zenon DEF Forwards
<1>3. ASSUME e.type = "content_block_start" PROVE Forwards(e, <<>>)
  <2>1. Chunk(e) = Forward([Blank EXCEPT !.calls = Calls(e)])
    BY <1>1, <1>3, Zenon DEF AnthropicTransform
  <2>2. ([Blank EXCEPT !.calls = Calls(e)]).usage = <<>>
    BY DEF Blank
  <2> QED
    BY <2>1, <2>2, Fate, Zenon DEF Forwards
<1>4. ASSUME e.type = "content_block_delta" PROVE Forwards(e, <<>>)
  <2>1. Chunk(e) = Forward([Blank EXCEPT !.reasoning = Field(e, "thinking"),
                                   !.signature = Field(e, "signature"),
                                   !.text = Field(e, "text"),
                                   !.calls = Calls(e)])
    BY <1>1, <1>4, Zenon DEF AnthropicTransform
  <2>2. ([Blank EXCEPT !.reasoning = Field(e, "thinking"),
                                   !.signature = Field(e, "signature"),
                                   !.text = Field(e, "text"),
                                   !.calls = Calls(e)]).usage = <<>>
    BY DEF Blank
  <2> QED
    BY <2>1, <2>2, Fate, Zenon DEF Forwards
<1>5. ASSUME e.type = "message_delta" PROVE Forwards(e, Usage(e))
  <2>1. Chunk(e) = Forward([Blank EXCEPT !.finish = FinishReason(e.stop),
                                   !.usage = Usage(e)])
    BY <1>1, <1>5, Zenon DEF AnthropicTransform
  <2>2. ([Blank EXCEPT !.finish = FinishReason(e.stop),
                                   !.usage = Usage(e)]).usage = Usage(e)
    BY DEF Blank
  <2> QED
    BY <2>1, <2>2, Fate, Zenon DEF Forwards
<1>6. ASSUME e.type = "message_stop" PROVE Withheld(e)
  BY <1>1, <1>6, Fate, Zenon DEF AnthropicTransform, Withheld
<1> QED
  BY <1>2, <1>3, <1>4, <1>5, <1>6

LEMMA OfGoogle ==
    ASSUME protocol = "google", NEW e
    PROVE  Forwards(e, Usage(e))
<1>1. Chunk(e) = GoogleTransform(e)
  BY Zenon DEF Chunk, TransformStreamEvent
<1>2. GoogleTransform(e).forward = TRUE
  BY DEF GoogleTransform
<1>3. GoogleTransform(e).chunk.usage = Usage(e)
  BY DEF GoogleTransform, Blank
<1> QED
  BY <1>1, <1>2, <1>3, Zenon DEF Forwards

LEMMA OfCohere ==
    ASSUME protocol = "cohere", NEW e
    PROVE  /\ e.type = "message-start" => Forwards(e, <<>>)
           /\ e.type = "content-delta" => Forwards(e, <<>>)
           /\ e.type \in {"tool-call-start", "tool-call-delta"} => Forwards(e, <<>>)
           /\ e.type = "message-end" => Forwards(e, Reported(e))
           /\ e.type = "chunk" => Withheld(e)
<1>1. Chunk(e) = CohereTransform(e)
  BY Zenon DEF Chunk, TransformStreamEvent
<1>2. ASSUME e.type = "message-start" PROVE Forwards(e, <<>>)
  <2>1. Chunk(e) = Forward(Blank)
    BY <1>1, <1>2, Zenon DEF CohereTransform
  <2>2. (Blank).usage = <<>>
    BY DEF Blank
  <2> QED
    BY <2>1, <2>2, Fate, Zenon DEF Forwards
<1>3. ASSUME e.type = "content-delta" PROVE Forwards(e, <<>>)
  <2>1. Chunk(e) = Forward([Blank EXCEPT !.text = Field(e, "text")])
    BY <1>1, <1>3, Zenon DEF CohereTransform
  <2>2. ([Blank EXCEPT !.text = Field(e, "text")]).usage = <<>>
    BY DEF Blank
  <2> QED
    BY <2>1, <2>2, Fate, Zenon DEF Forwards
<1>4. ASSUME e.type \in {"tool-call-start", "tool-call-delta"} PROVE Forwards(e, <<>>)
  <2>1. Chunk(e) = Forward([Blank EXCEPT !.calls = Calls(e)])
    BY <1>1, <1>4, Zenon DEF CohereTransform
  <2>2. ([Blank EXCEPT !.calls = Calls(e)]).usage = <<>>
    BY DEF Blank
  <2> QED
    BY <2>1, <2>2, Fate, Zenon DEF Forwards
<1>5. ASSUME e.type = "message-end" PROVE Forwards(e, Reported(e))
  <2>1. Chunk(e) = Forward([Blank EXCEPT !.finish = FinishReason(e.stop),
                                   !.usage = Reported(e)])
    BY <1>1, <1>5, Zenon DEF CohereTransform
  <2>2. ([Blank EXCEPT !.finish = FinishReason(e.stop),
                                   !.usage = Reported(e)]).usage = Reported(e)
    BY DEF Blank
  <2> QED
    BY <2>1, <2>2, Fate, Zenon DEF Forwards
<1>6. ASSUME e.type = "chunk" PROVE Withheld(e)
  BY <1>1, <1>6, Fate, Zenon DEF CohereTransform, Withheld
<1> QED
  BY <1>2, <1>3, <1>4, <1>5, <1>6

LEMMA OutputCounts ==
    ASSUME sent \in Seq(Piece)
    PROVE  Output \in Nat /\ Output # 0
BY DEF Output

(* Events that carry content. *)
LEMMA ContentReports ==
    ASSUME Accounts, NEW e \in Content
    PROVE  e.parts \in Seq(Kind) /\ (Silent(e) \/ Full(e))
<1>1. PICK q \in Parts(protocol) :
         e = Event(TypeOf(protocol, q), NextPiece, q, "none",
                   IF protocol = "google" THEN 1 ELSE 0,
                   IF protocol = "google" THEN Output ELSE 0)
  BY DEF Content
<1>2. /\ e.type = TypeOf(protocol, q) /\ e.parts = q
      /\ e.in = IF protocol = "google" THEN 1 ELSE 0
      /\ e.out = IF protocol = "google" THEN Output ELSE 0
  BY <1>1 DEF Event
<1>3. e.parts \in Seq(Kind)
  BY <1>2, PartsAreKinds DEF Accounts
<1>4. CASE protocol = "openai"
  <2>1. e.type = "chunk"
    BY <1>2, <1>4, Zenon DEF TypeOf
  <2>2. Forwards(e, Reported(e))
    BY <1>4, <2>1, OfOpenAI
  <2> QED
    BY <1>2, <1>3, <1>4, <2>2 DEF Silent, Reported
<1>5. CASE protocol = "anthropic"
  <2>1. e.type \in {"content_block_start", "content_block_delta"}
    BY <1>2, <1>5, Zenon DEF TypeOf
  <2>2. Forwards(e, <<>>)
    BY <1>5, <2>1, OfAnthropic
  <2> QED
    BY <1>2, <1>3, <1>5, <2>2 DEF Silent
<1>6. CASE protocol = "google"
  BY <1>2, <1>3, <1>6, OfGoogle DEF Full, Reports
<1>7. CASE protocol = "cohere"
  <2>1. e.type \in {"content-delta", "tool-call-start", "tool-call-delta", "chunk"}
    BY <1>2, <1>7, Zenon DEF TypeOf
  <2>2. Withheld(e) \/ Forwards(e, <<>>)
    BY <1>7, <2>1, OfCohere
  <2> QED
    BY <1>2, <1>3, <1>7, <2>2 DEF Silent
<1> QED
  BY <1>4, <1>5, <1>6, <1>7 DEF Accounts, Protocol

(* Events that say that the model stopped. *)
LEMMA StopReports ==
    ASSUME Accounts, NEW e \in Stops
    PROVE  e.parts \in Seq(Kind) /\ (Silent(e) \/ Full(e) \/ OutputHalf(e))
<1>6. Output \in Nat /\ Output # 0
  BY OutputCounts DEF Accounts
<1>1. CASE protocol = "openai"
  <2>1. e.type = "chunk" /\ e.parts = <<>> /\ e.in = 0 /\ e.out = 0
    <3>1. PICK r \in Reasons : e = Event("chunk", NextPiece, <<>>, r, 0, 0)
      BY <1>1 DEF Stops
    <3> QED
      BY <3>1 DEF Event
  <2>2. Forwards(e, Reported(e))
    BY <1>1, <2>1, OfOpenAI
  <2> QED
    BY <2>1, <2>2 DEF Silent, Reported
<1>2. CASE protocol = "anthropic"
  <2>1. e.type = "message_delta" /\ e.parts = <<>> /\ e.in = 0 /\ e.out = Output
    <3>1. PICK r \in Reasons : e = Event("message_delta", NextPiece, <<>>, r, 0, Output)
      BY <1>2 DEF Stops
    <3> QED
      BY <3>1 DEF Event
  <2>2. Forwards(e, Usage(e))
    BY <1>2, <2>1, OfAnthropic
  <2> QED
    BY <1>2, <2>1, <2>2 DEF OutputHalf, Reports
<1>3. CASE protocol = "google"
  <2>1. PICK r \in Reasons, q \in {<<>>} \cup Parts("google") :
           e = Event("chunk", NextPiece, q, r, 1, Output)
    BY <1>3 DEF Stops
  <2>2. e.parts = q /\ e.in = 1 /\ e.out = Output
    BY <2>1 DEF Event
  <2>3. e.parts \in Seq(Kind)
    <3>1. CASE q \in Parts("google")
      BY <2>2, <3>1, PartsAreKinds, Zenon DEF Protocol
    <3>2. CASE q = <<>>
      BY <2>2, <3>2
    <3> QED
      BY <3>1, <3>2
  <2> QED
    BY <1>3, <2>2, <2>3, OfGoogle DEF Full, Reports
<1>4. CASE protocol = "cohere"
  <2>1. e.type = "message-end" /\ e.parts = <<>> /\ e.in = 1 /\ e.out = Output
    <3>1. PICK r \in Reasons : e = Event("message-end", NextPiece, <<>>, r, 1, Output)
      BY <1>4 DEF Stops
    <3> QED
      BY <3>1 DEF Event
  <2>2. Forwards(e, Reported(e))
    BY <1>4, <2>1, OfCohere
  <2> QED
    BY <1>4, <2>1, <2>2, <1>6 DEF Full, Reports, Reported
<1> QED
  BY <1>1, <1>2, <1>3, <1>4 DEF Accounts, Protocol

(* Events around the content. *)
LEMMA FrameReports ==
    ASSUME Accounts, NEW e \in Frame
    PROVE  e.parts \in Seq(Kind) /\ (Silent(e) \/ Full(e) \/ InputHalf(e))
<1>1. CASE protocol = "openai"
  <2>1. \/ e = Event("chunk", NextPiece, <<>>, "none", 1, Output)
        \/ e = Event("[DONE]", NextPiece, <<>>, "none", 0, 0)
    BY <1>1, Zenon DEF Frame
  <2>2. \/ e.type = "chunk" /\ e.parts = <<>> /\ e.in = 1 /\ e.out = Output
        \/ e.type = "[DONE]" /\ e.parts = <<>> /\ e.in = 0 /\ e.out = 0
    BY <2>1 DEF Event
  <2> QED
    <3>1. CASE e.type = "chunk" /\ e.parts = <<>> /\ e.in = 1 /\ e.out = Output
      <4>1. Forwards(e, Usage(e))
        BY <1>1, <3>1, OfOpenAI DEF Reported
      <4> QED
        BY <1>1, <3>1, <4>1 DEF Full, Reports
    <3>2. CASE e.type = "[DONE]" /\ e.parts = <<>> /\ e.in = 0 /\ e.out = 0
      BY <1>1, <3>2, OfOpenAI DEF Silent
    <3> QED
      BY <2>2, <3>1, <3>2
<1>2. CASE protocol = "anthropic"
  <2>1. \/ events = 0 /\ e = Event("message_start", 1, <<>>, "none", 1, 0)
        \/ e = Event("message_stop", NextPiece, <<>>, "none", 0, 0)
    BY <1>2, Zenon DEF Frame
  <2>2. \/ /\ events = 0
           /\ e.type = "message_start" /\ e.parts = <<>> /\ e.in = 1 /\ e.out = 0
        \/ e.type = "message_stop" /\ e.parts = <<>> /\ e.in = 0 /\ e.out = 0
    BY <2>1 DEF Event
  <2> QED
    <3>1. CASE e.type = "message_start" /\ e.parts = <<>> /\ e.in = 1 /\ e.out = 0
      <4>1. Forwards(e, Usage(e)) /\ events = 0
        BY <1>2, <2>2, <3>1, OfAnthropic
      <4> QED
        BY <1>2, <3>1, <4>1 DEF InputHalf, Reports
    <3>2. CASE e.type = "message_stop" /\ e.parts = <<>> /\ e.in = 0 /\ e.out = 0
      BY <1>2, <3>2, OfAnthropic DEF Silent
    <3> QED
      BY <2>2, <3>1, <3>2
<1>3. CASE protocol = "google"
  BY <1>3, Zenon DEF Frame
<1>4. CASE protocol = "cohere"
  <2>1. e = Event("message-start", 1, <<>>, "none", 0, 0)
    BY <1>4, Zenon DEF Frame
  <2>2. e.type = "message-start" /\ e.parts = <<>> /\ e.in = 0 /\ e.out = 0
    BY <2>1 DEF Event
  <2> QED
    BY <1>4, <2>2, OfCohere DEF Silent
<1> QED
  BY <1>1, <1>2, <1>3, <1>4 DEF Accounts, Protocol

----------------------------------------------------------------------------
(* The accounting holds in every reachable state. *)

LEMMA AccountsInit == StreamInit => Accounts
<1> SUFFICES ASSUME StreamInit PROVE Accounts
  OBVIOUS
<1>1. protocol \in Protocol
  BY StreamAssumption DEF StreamInit
<1>2. sent \in Seq(Piece) /\ events \in Nat
  BY DEF StreamInit
<1>3. reported = NoTokens /\ usage = NoTokens /\ reported \in Tokens
  BY DEF StreamInit, NoTokens, Tokens
<1>4. Known
  BY <1>3 DEF Known, Forgotten, NoTokens
<1> QED
  BY <1>1, <1>2, <1>3, <1>4 DEF Accounts

(* What the callback makes of the tokens in a chunk. *)
LEMMA Counted ==
    ASSUME NEW e, Receive(e)
    PROVE  /\ Silent(e) => reported' = [in |-> reported.in, out |-> reported.out]
                          /\ usage' = usage
           /\ Reports(e) =>
                 /\ reported' = [in  |-> IF e.in = 0 THEN reported.in ELSE e.in,
                                 out |-> IF e.out = 0 THEN reported.out ELSE e.out]
                 /\ sink = "chat" => usage' = Observe(usage, [in |-> e.in, out |-> e.out])
                 /\ sink # "chat" => usage' = [in |-> e.in, out |-> e.out]
<1>1. reported' = [in  |-> IF e.in = 0 THEN reported.in ELSE e.in,
                   out |-> IF e.out = 0 THEN reported.out ELSE e.out]
  BY DEF Receive
<1>2. usage' = IF Relayed(Chunk(e)) THEN Accumulate(usage, Chunk(e).chunk.usage)
               ELSE usage
  BY Zenon DEF Receive, Chunk
<1>3. ASSUME Silent(e)
      PROVE  /\ reported' = [in |-> reported.in, out |-> reported.out]
             /\ usage' = usage
  <2>1. ASSUME Withheld(e) PROVE usage' = usage
    <3>1. ~Relayed(Chunk(e))
      BY <2>1, Zenon DEF Withheld, Relayed
    <3> QED
      BY <1>2, <3>1, Zenon
  <2>2. ASSUME Forwards(e, <<>>) PROVE usage' = usage
    <3>1. usage' = Accumulate(usage, <<>>)
      BY <1>2, <2>2, Zenon DEF Forwards, Relayed
    <3>2. Accumulate(usage, <<>>) = usage
      BY Zenon DEF Accumulate
    <3> QED
      BY <3>1, <3>2, Zenon
  <2>3. usage' = usage
    BY <1>3, <2>1, <2>2, Zenon DEF Silent
  <2>4. e.in = 0 /\ e.out = 0
    BY <1>3, Zenon DEF Silent
  <2> QED
    BY <1>1, <2>3, <2>4
<1>4. ASSUME Reports(e)
      PROVE  /\ sink = "chat" => usage' = Observe(usage, [in |-> e.in, out |-> e.out])
             /\ sink # "chat" => usage' = [in |-> e.in, out |-> e.out]
  <2>1. usage' = Accumulate(usage, Usage(e))
    BY <1>2, <1>4, Zenon DEF Reports, Forwards, Relayed
  <2>2. Usage(e) # <<>> /\ Usage(e)[1] = [in |-> e.in, out |-> e.out]
    BY DEF Usage
  <2> QED
    BY <2>1, <2>2, Zenon DEF Accumulate
<1> QED
  BY <1>1, <1>3, <1>4

LEMMA ReceiveKeepsAccounts ==
    ASSUME Accounts, NEW e \in Content \cup Stops \cup Frame, Receive(e)
    PROVE  Accounts'
<1>1. e.parts \in Seq(Kind)
  BY ContentReports, StopReports, FrameReports
<1>2. Silent(e) \/ Full(e) \/ InputHalf(e) \/ OutputHalf(e)
  BY ContentReports, StopReports, FrameReports
<1>3. events' = events + 1 /\ protocol' = protocol /\ sink' = sink
  BY DEF Receive
<1>4. events' \in Nat /\ events' # 0
  BY <1>3 DEF Accounts
<1>5. sent' \in Seq(Piece)
  <2>1. sent' = sent \o [i \in DOMAIN e.parts |->
                            [kind |-> e.parts[i], event |-> events']]
    BY DEF Receive
  <2>2. [i \in DOMAIN e.parts |-> [kind |-> e.parts[i], event |-> events']]
          \in Seq(Piece)
    <3>1. PICK n \in Nat : e.parts \in [1..n -> Kind]
      BY <1>1
    <3>2. DOMAIN e.parts = 1..n /\ \A i \in 1..n : e.parts[i] \in Kind
      BY <3>1
    <3>3. \A k \in Kind : [kind |-> k, event |-> events'] \in Piece
      BY <1>4 DEF Piece
    <3>4. [i \in 1..n |-> [kind |-> e.parts[i], event |-> events']] \in [1..n -> Piece]
      BY <3>2, <3>3
    <3> QED
      BY <3>2, <3>4
  <2> QED
    BY <2>1, <2>2 DEF Accounts
<1>6. Output \in Nat /\ Output # 0
  BY OutputCounts DEF Accounts
<1>7. PICK a, b \in Nat : reported = [in |-> a, out |-> b]
  BY DEF Accounts, Tokens
<1>8. reported' \in Tokens /\ Known'
  <2>1. CASE Silent(e)
    <3>1. reported' = reported /\ usage' = usage
      BY <1>7, <2>1, Counted
    <3> QED
      BY <1>3, <3>1 DEF Accounts, Known, Forgotten
  <2>2. CASE Full(e)
    <3>1. e.in = 1 /\ e.out = Output /\ Reports(e) /\ protocol # "anthropic"
      BY <2>2, Zenon DEF Full
    <3>2. reported' = [in |-> 1, out |-> Output]
      <4>1. reported' = [in  |-> IF e.in = 0 THEN reported.in ELSE e.in,
                         out |-> IF e.out = 0 THEN reported.out ELSE e.out]
        BY <3>1, Counted, Zenon
      <4>2. (IF e.in = 0 THEN reported.in ELSE e.in) = 1
        BY <3>1
      <4>3. (IF e.out = 0 THEN reported.out ELSE e.out) = Output
        BY <1>6, <3>1
      <4> QED
        BY <4>1, <4>2, <4>3, Zenon
    <3>3. Observe(usage, [in |-> 1, out |-> Output]) = [in |-> 1, out |-> Output]
      BY <1>6 DEF Observe
    <3>4. usage' = [in |-> 1, out |-> Output]
      <4>1. CASE sink = "chat"
        BY <3>1, <3>3, <4>1, Counted
      <4>2. CASE sink # "chat"
        BY <3>1, <4>2, Counted
      <4> QED
        BY <4>1, <4>2
    <3>5. ~Forgotten'
      BY <1>3, <3>1 DEF Forgotten
    <3>6. reported' \in Tokens
      BY <1>6, <3>2 DEF Tokens
    <3>7. Known'
      BY <3>2, <3>4, <3>5 DEF Known
    <3> QED
      BY <3>6, <3>7
  <2>3. CASE InputHalf(e)
    <3>1. a = 0 /\ b = 0 /\ usage = [in |-> 0, out |-> 0]
      BY <1>7, <2>3 DEF InputHalf, Accounts, NoTokens, Known, Forgotten
    <3>2. reported' = [in |-> 1, out |-> 0]
      BY <1>7, <2>3, <3>1, Counted DEF InputHalf
    <3>3. usage' = [in |-> 1, out |-> 0]
      BY <2>3, <3>1, Counted DEF InputHalf, Observe
    <3> QED
      BY <1>3, <3>2, <3>3 DEF Tokens, Known, Forgotten
  <2>4. CASE OutputHalf(e)
    <3>1. reported' = [in |-> a, out |-> Output]
      BY <1>6, <1>7, <2>4, Counted DEF OutputHalf
    <3>2. CASE sink = "chat"
      <4>1. usage = [in |-> a, out |-> b]
        BY <1>7, <3>2 DEF Accounts, Known, Forgotten
      <4>2. usage' = [in |-> a, out |-> Output]
        BY <1>6, <2>4, <3>2, <4>1, Counted DEF OutputHalf, Observe
      <4> QED
        BY <1>3, <1>6, <3>1, <3>2, <4>2 DEF Tokens, Known, Forgotten
    <3>3. CASE sink # "chat"
      <4>1. usage' = [in |-> 0, out |-> Output]
        BY <2>4, <3>3, Counted DEF OutputHalf
      <4>2. protocol' = "anthropic" /\ reported'.out # 0
        BY <1>3, <1>6, <2>4, <3>1 DEF OutputHalf
      <4> QED
        BY <1>3, <1>6, <3>1, <3>3, <4>1, <4>2 DEF Tokens, Known, Forgotten
    <3> QED
      BY <3>2, <3>3
  <2> QED
    BY <1>2, <2>1, <2>2, <2>3, <2>4
<1> QED
  BY <1>3, <1>4, <1>5, <1>8 DEF Accounts

(* The end of a stream logs what was counted. *)
LEMMA OthersKeepAccounts ==
    ASSUME Accounts, UpstreamCloses \/ UpstreamBreaks \/ UNCHANGED streamVars
    PROVE  Accounts'
<1>1. UNCHANGED <<protocol, sink, sent, events, reported, usage>>
  BY DEF UpstreamCloses, UpstreamBreaks, streamVars, provider
<1> QED
  BY <1>1 DEF Accounts, Known, Forgotten

THEOREM AccountsHold == StreamSpec => []Accounts
<1>1. StreamInit => Accounts
  BY AccountsInit
<1>2. Accounts /\ [StreamNext]_streamVars => Accounts'
  BY ReceiveKeepsAccounts, OthersKeepAccounts DEF StreamNext
<1> QED
  BY <1>1, <1>2, PTL DEF StreamSpec

(* Whatever the provider reports, in whatever events, is what the usage    *)
(* record of a stream says, for streams of any length; the input tokens    *)
(* that the Messages and Responses streams of an Anthropic provider forget *)
(* are all that is missing.                                                *)
THEOREM TokensKept == StreamSpec => []UsageComplete
<1>1. Accounts => UsageComplete
  <2> SUFFICES ASSUME Accounts PROVE UsageComplete
    OBVIOUS
  <2>1. PICK a, b \in Nat : reported = [in |-> a, out |-> b]
    BY DEF Accounts, Tokens
  <2>2. [reported EXCEPT !.in = 0] = [in |-> 0, out |-> reported.out]
    BY <2>1
  <2> QED
    BY <2>2 DEF Accounts, Known, UsageComplete
<1> QED
  BY <1>1, AccountsHold, PTL

----------------------------------------------------------------------------
(* The form of the stream.                                                *)

(* out is a stream of its protocol as far as it goes, and did not end. *)
MessagesChain(out) ==
    \A i \in 1..Len(out) : IF i = 1 THEN out[i].type = "message_start"
                           ELSE MessagesFollows(out[i - 1], out[i])
ResponsesChain(out) ==
    \A i \in 1..Len(out) : IF i = 1 THEN out[i].type = "created"
                           ELSE ResponsesFollows(out[i - 1], out[i])
Unended(out) == \A i \in 1..Len(out) : out[i].type \notin {"message_delta", "completed"}

(* The last event is the one that the flags of the callback stand for.     *)
BlockEvent == {"content_block_start", "content_block_delta"}
MessagesOpen(s) ==
    /\ s \in Writer /\ s.began = TRUE /\ s.out # <<>>
    /\ MessagesChain(s.out) /\ Unended(s.out)
    /\ LET l == s.out[Len(s.out)]
       IN  /\ s.open = "none" => \/ l.type = "message_start" /\ s.index = 0
                                 \/ l.type = "content_block_stop" /\ s.index = l.at + 1
           /\ s.open # "none" => l.type \in BlockEvent /\ l.at = s.index /\ l.of = s.open

ItemEvent == {"part.added", "delta"}
ResponsesOpen(s) ==
    /\ s \in Writer /\ s.began = TRUE /\ s.out # <<>>
    /\ ResponsesChain(s.out) /\ Unended(s.out)
    /\ LET l == s.out[Len(s.out)]
       IN  /\ s.message => /\ l.type \in ItemEvent /\ l.at = s.index /\ l.of = "text"
                           /\ s.reasoning # "open"
           /\ ~s.message =>
                 /\ s.reasoning = "none" => l.type = "created" /\ s.index = 0
                 /\ s.reasoning = "open" => /\ l.type \in ItemEvent /\ l.at = s.index
                                            /\ l.of = "reasoning"
                 /\ s.reasoning = "closed" => /\ l.type = "output_item.done"
                                              /\ s.index = l.at + 1

ChatOpen(s) == s \in Writer /\ \A i \in 1..Len(s.out) : s.out[i].type = "chunk"

(* Before the first chunk *)
Unbegun(s) == s = [out |-> <<>>, began |-> FALSE, index |-> 0, open |-> "none",
                   reasoning |-> "none", message |-> FALSE]

(* A stream of the endpoint as far as it goes, after the pieces of t.      *)
Late(t) == \E i, j \in DOMAIN t : i < j /\ t[i].kind = "text" /\ t[j].kind = "thinking"
SoundIn(s, t) ==
    /\ sink = "chat" => ChatOpen(s)
    /\ sink = "messages" =>
           /\ Unbegun(s) \/ MessagesOpen(s)
           /\ t # <<>> /\ t[Len(t)].kind \in {"call", "args"} => s.open = "tool"
    /\ sink = "responses" /\ ~Late(t) =>
           /\ \/ Unbegun(s)
              \/ ResponsesOpen(s) /\ (s.reasoning = "closed" => s.message)
           /\ s.message => \E i \in DOMAIN t : t[i].kind = "text"

(* How the streams of the three endpoints end. *)
ChatEnded(y, type) ==
    /\ y.out \in Seq(ClientEvent) /\ y.out # <<>> /\ y.out[Len(y.out)].type = type
    /\ \A i \in 1..(Len(y.out) - 1) : y.out[i].type = "chunk"
MessagesEnded(y, f) ==
    /\ y.out \in Seq(ClientEvent) /\ y.out # <<>> /\ MessagesChain(y.out)
    /\ y.out[Len(y.out)].type = "message_stop"
    /\ \A i \in 1..Len(y.out) :
           /\ y.out[i].type = "message_delta" => y.out[i].of = StopReason(f)
           /\ y.out[i].type # "completed"
ResponsesEnded(y, type, status) ==
    /\ y.out \in Seq(ClientEvent) /\ y.out # <<>> /\ ResponsesChain(y.out)
    /\ y.out[Len(y.out)].type = type
    /\ \A i \in 1..Len(y.out) :
           /\ y.out[i].type = "completed" => type = "completed" /\ y.out[i].of = status
           /\ y.out[i].type # "message_delta"

Ended ==
    /\ outcome \in {"ok", "error", "failover"}
    /\ outcome = "failover" => IF sink = "chat" THEN ChatOpen(w)
                               ELSE Irregular \/ w.out = <<>>
    /\ sink = "chat" =>
           /\ outcome = "ok" => ChatEnded(w, "[DONE]")
           /\ outcome = "error" => ChatEnded(w, "error")
    /\ sink = "messages" /\ ~Irregular /\ outcome \in {"ok", "error"} =>
           MessagesEnded(w, FinishReason(stop))
    /\ sink = "responses" /\ ~Irregular =>
           /\ outcome = "ok" => ResponsesEnded(w, "completed", Status(FinishReason(stop)))
           /\ outcome = "error" => ResponsesEnded(w, "failed", "failed")

Streaming ==
    /\ sink \in Sink
    /\ stop \in {"none", "end", "limit", "tool"}
    /\ outcome = "open" => finish = FinishReason(stop) /\ SoundIn(w, sent)
    /\ outcome # "open" => Ended

(* What may follow what, rule by rule. *)
LEMMA MessagesMay ==
  ASSUME NEW p, NEW e
  PROVE  /\ /\ e.type = "content_block_start"
            /\ \/ p.type = "message_start" /\ e.at = 0
               \/ p.type = "content_block_stop" /\ e.at = p.at + 1
            => MessagesFollows(p, e)
         /\ /\ e.type = "content_block_delta" /\ p.type \in BlockEvent
            /\ e.at = p.at /\ e.of = p.of
            => MessagesFollows(p, e)
         /\ e.type = "content_block_stop" /\ p.type \in BlockEvent /\ e.at = p.at
            => MessagesFollows(p, e)
         /\ e.type = "message_delta" /\ p.type = "content_block_stop" => MessagesFollows(p, e)
         /\ e.type = "message_stop" /\ p.type = "message_delta" => MessagesFollows(p, e)
<1>1. ASSUME e.type = "content_block_start",
             \/ p.type = "message_start" /\ e.at = 0
             \/ p.type = "content_block_stop" /\ e.at = p.at + 1
      PROVE  MessagesFollows(p, e)
  BY <1>1 DEF MessagesFollows
<1>2. ASSUME e.type = "content_block_delta", p.type \in BlockEvent, e.at = p.at, e.of = p.of
      PROVE  MessagesFollows(p, e)
  BY <1>2 DEF MessagesFollows, BlockEvent
<1>3. ASSUME e.type = "content_block_stop", p.type \in BlockEvent, e.at = p.at
      PROVE  MessagesFollows(p, e)
  BY <1>3 DEF MessagesFollows, BlockEvent
<1>4. ASSUME e.type = "message_delta", p.type = "content_block_stop"
      PROVE  MessagesFollows(p, e)
  BY <1>4 DEF MessagesFollows
<1>5. ASSUME e.type = "message_stop", p.type = "message_delta"
      PROVE  MessagesFollows(p, e)
  BY <1>5 DEF MessagesFollows
<1> QED
  BY <1>1, <1>2, <1>3, <1>4, <1>5

(* One more event. *)
LEMMA OneMore ==
  ASSUME NEW out \in Seq(ClientEvent), NEW e \in ClientEvent
  PROVE  /\ Append(out, e) \in Seq(ClientEvent) /\ Append(out, e) # <<>>
         /\ Len(Append(out, e)) = Len(out) + 1
         /\ Append(out, e)[Len(Append(out, e))] = e
         /\ \A i \in 1..Len(out) : Append(out, e)[i] = out[i]
  OBVIOUS

(* A Messages stream grows by what may follow its last event. *)
LEMMA MessagesGrow ==
  ASSUME NEW out \in Seq(ClientEvent), MessagesChain(out), out # <<>>, NEW e \in ClientEvent,
         MessagesFollows(out[Len(out)], e)
  PROVE  MessagesChain(Append(out, e))
<1> DEFINE more == Append(out, e)
<1>1. /\ Len(out) \in Nat /\ Len(out) > 0 /\ Len(more) = Len(out) + 1
      /\ more[Len(more)] = e /\ \A i \in 1..Len(out) : more[i] = out[i]
  BY OneMore
<1> HIDE DEF more
<1>2. ASSUME NEW i \in 1..Len(more)
      PROVE  IF i = 1 THEN more[i].type = "message_start"
             ELSE MessagesFollows(more[i - 1], more[i])
  <2>1. CASE i = 1
    <3>1. i \in 1..Len(out)
      BY <1>1, <2>1
    <3> QED
      BY <1>1, <2>1, <3>1 DEF MessagesChain
  <2>2. CASE i # 1 /\ i <= Len(out)
    <3>1. i \in 1..Len(out) /\ i - 1 \in 1..Len(out)
      BY <2>2
    <3>2. more[i] = out[i] /\ more[i - 1] = out[i - 1]
      BY <1>1, <3>1
    <3> QED
      BY <2>2, <3>1, <3>2 DEF MessagesChain
  <2>3. CASE i # 1 /\ i > Len(out)
    <3>1. i = Len(more) /\ i - 1 = Len(out) /\ Len(out) \in 1..Len(out)
      BY <1>1, <2>3
    <3>2. more[i] = e /\ more[i - 1] = out[Len(out)]
      BY <1>1, <3>1
    <3> QED
      BY <2>3, <3>2
  <2> QED
    BY <1>1, <2>1, <2>2, <2>3
<1> QED
  BY <1>2 DEF MessagesChain, more

(* It has not ended as long as no last event is written. *)
LEMMA UnendedGrow ==
  ASSUME NEW out \in Seq(ClientEvent), Unended(out), NEW e \in ClientEvent,
         e.type \notin {"message_delta", "completed"}
  PROVE  Unended(Append(out, e))
<1> DEFINE more == Append(out, e)
<1>1. /\ Len(out) \in Nat /\ Len(more) = Len(out) + 1
      /\ more[Len(more)] = e /\ \A i \in 1..Len(out) : more[i] = out[i]
  BY OneMore
<1> HIDE DEF more
<1>2. ASSUME NEW i \in 1..Len(more) PROVE more[i].type \notin {"message_delta", "completed"}
  <2>1. i \in 1..Len(out) \/ i = Len(more)
    BY <1>1
  <2> QED
    BY <1>1, <2>1 DEF Unended
<1> QED
  BY <1>2 DEF Unended, more

(* An event is written, and nothing else changes. *)
LEMMA Written ==
  ASSUME NEW s \in Writer, NEW e \in ClientEvent
  PROVE  LET x == Write(s, e.type, e.at, e.of, e.n)
         IN  /\ x \in Writer /\ x.out = Append(s.out, e)
             /\ x.began = s.began /\ x.index = s.index /\ x.open = s.open
             /\ x.reasoning = s.reasoning /\ x.message = s.message
<1> DEFINE x == Write(s, e.type, e.at, e.of, e.n)
<1>1. e = [type |-> e.type, at |-> e.at, of |-> e.of, n |-> e.n]
  BY DEF ClientEvent
<1>2. x = [s EXCEPT !.out = Append(s.out, e)]
  BY <1>1 DEF Write
<1>3. s.out \in Seq(ClientEvent)
  BY DEF Writer
<1>4. Append(s.out, e) \in Seq(ClientEvent)
  BY <1>3, OneMore
<1>5. x \in Writer
  BY <1>2, <1>4 DEF Writer
<1>6. /\ x.out = Append(s.out, e)
      /\ x.began = s.began /\ x.index = s.index /\ x.open = s.open
      /\ x.reasoning = s.reasoning /\ x.message = s.message
  BY <1>2 DEF Writer
<1> HIDE DEF x
<1> QED
  BY <1>5, <1>6 DEF x

(* The event with the fields of a call of Write. *)
LEMMA AnEvent ==
  ASSUME NEW type \in Types, NEW at \in Nat, NEW of \in Names, NEW n \in Nat
  PROVE  \E e \in ClientEvent : e.type = type /\ e.at = at /\ e.of = of /\ e.n = n
<1> DEFINE e == [type |-> type, at |-> at, of |-> of, n |-> n]
<1>1. e \in ClientEvent /\ e.type = type /\ e.at = at /\ e.of = of /\ e.n = n
  BY DEF ClientEvent
<1> HIDE DEF e
<1> QED
  BY <1>1

(* The kinds of block. *)
BlockKind == {"thinking", "text", "tool"}

(* One more event leaves the block open that the flags say. *)
LEMMA MessagesStep ==
  ASSUME NEW s, MessagesOpen(s), NEW e \in ClientEvent, NEW y \in Writer,
         y.out = Append(s.out, e), y.began = TRUE,
         MessagesFollows(s.out[Len(s.out)], e),
         e.type \notin {"message_delta", "completed"},
         y.open = "none" => e.type = "content_block_stop" /\ y.index = e.at + 1,
         y.open # "none" => e.type \in BlockEvent /\ e.at = y.index /\ e.of = y.open
  PROVE  MessagesOpen(y)
<1>1. s.out \in Seq(ClientEvent) /\ MessagesChain(s.out) /\ Unended(s.out) /\ s.out # <<>>
  BY DEF MessagesOpen, Writer, ClientEvent
<1>2. MessagesChain(y.out)
  BY <1>1, MessagesGrow
<1>3. Unended(y.out)
  BY <1>1, UnendedGrow
<1>4. y.out # <<>> /\ y.out[Len(y.out)] = e
  BY <1>1, OneMore
<1> QED
  BY <1>2, <1>3, <1>4 DEF MessagesOpen

(* Closing a block, opening one, and writing into it. *)
LEMMA CloseKeeps ==
  ASSUME NEW s, MessagesOpen(s)
  PROVE  /\ MessagesOpen(CloseBlock(s)) /\ CloseBlock(s).open = "none"
         /\ s.open # "none" => CloseBlock(s).index > 0
<1>0. s \in Writer /\ s.index \in Nat
  BY DEF MessagesOpen, Writer
<1>1. CASE s.open = "none"
  BY <1>1 DEF CloseBlock
<1>2. CASE s.open # "none"
  <2> DEFINE x == Write(s, "content_block_stop", s.index, "", 0)
             y == CloseBlock(s)
  <2> DEFINE e == [type |-> "content_block_stop", at |-> s.index, of |-> "", n |-> 0]
  <2>0. /\ e \in ClientEvent /\ e.type = "content_block_stop" /\ e.at = s.index
        /\ e.of = "" /\ e.n = 0
    BY <1>0 DEF ClientEvent, Types, Names
  <2> HIDE DEF e
  <2>1. /\ x \in Writer /\ x.out = Append(s.out, e) /\ x.began = s.began
        /\ x.index = s.index
    <3>1. x = Write(s, e.type, e.at, e.of, e.n)
      BY <2>0
    <3> HIDE DEF x
    <3> QED
      BY <1>0, <2>0, <3>1, Written
  <2> DEFINE z == [x EXCEPT !.index = x.index + 1]
  <2>2. y = [z EXCEPT !.open = "none"]
    BY <1>2 DEF CloseBlock
  <2> HIDE DEF x, y
  <2>7. /\ z \in Writer /\ z.out = x.out /\ z.began = x.began /\ z.index = s.index + 1
    BY <1>0, <2>1 DEF Writer
  <2> HIDE DEF z
  <2>3. /\ y \in Writer /\ y.out = x.out /\ y.began = x.began /\ y.index = s.index + 1
        /\ y.open = "none"
    BY <2>2, <2>7 DEF Writer
  <2>4. MessagesFollows(s.out[Len(s.out)], e)
    BY <1>2, <2>0, MessagesMay DEF MessagesOpen
  <2>5. s.began = TRUE
    BY DEF MessagesOpen
  <2>6. MessagesOpen(y)
    BY <2>0, <2>1, <2>3, <2>4, <2>5, MessagesStep
  <2> QED
    BY <1>0, <2>3, <2>6 DEF y
<1> QED
  BY <1>1, <1>2

(* Opening a block closes the one before. *)
LEMMA OpenKeeps ==
  ASSUME NEW s, MessagesOpen(s), NEW k \in BlockKind, NEW n \in Nat
  PROVE  MessagesOpen(OpenBlock(s, k, n)) /\ OpenBlock(s, k, n).open = k
<1> DEFINE c == CloseBlock(s)
           x == Write(c, "content_block_start", c.index, k, n)
           y == OpenBlock(s, k, n)
<1>1. MessagesOpen(c) /\ c.open = "none"
  BY CloseKeeps
<1>2. y = [x EXCEPT !.open = k]
  BY DEF OpenBlock
<1> HIDE DEF c
<1>3. c \in Writer /\ c.index \in Nat /\ c.began = TRUE
  BY <1>1 DEF MessagesOpen, Writer
<1>8. k \in Names
  BY DEF BlockKind, Names
<1>9. PICK e \in ClientEvent : /\ e.type = "content_block_start" /\ e.at = c.index
                      /\ e.of = k /\ e.n = n
  BY <1>3, <1>8, AnEvent, SMTT(60) DEF Types
<1>4. /\ x \in Writer /\ x.out = Append(c.out, e) /\ x.began = c.began
      /\ x.index = c.index
  BY <1>3, <1>9, Written
<1> HIDE DEF x, y
<1>5. /\ y \in Writer /\ y.out = x.out /\ y.began = x.began /\ y.index = x.index
      /\ y.open = k
  BY <1>2, <1>4 DEF Writer, BlockKind
<1>6. MessagesFollows(c.out[Len(c.out)], e)
  BY <1>1, <1>9, MessagesMay DEF MessagesOpen
<1>7. MessagesOpen(y)
  BY <1>1, <1>3, <1>4, <1>5, <1>6, <1>9, MessagesStep DEF BlockEvent, BlockKind
<1> QED
  BY <1>5, <1>7 DEF y

(* A delta goes into the block that is open. *)
LEMMA DeltaKeeps ==
  ASSUME NEW s, MessagesOpen(s), NEW k \in BlockKind, s.open = k, NEW n \in Nat
  PROVE  MessagesOpen(Delta(s, k, n)) /\ Delta(s, k, n).open = k
<1> DEFINE y == Delta(s, k, n)
<1>1. s \in Writer /\ s.index \in Nat /\ s.began = TRUE
  BY DEF MessagesOpen, Writer
<1>5. k \in Names
  BY DEF BlockKind, Names
<1>6. PICK e \in ClientEvent : /\ e.type = "content_block_delta" /\ e.at = s.index
                      /\ e.of = k /\ e.n = n
  BY <1>1, <1>5, AnEvent, SMTT(60) DEF Types
<1>2. /\ y \in Writer /\ y.out = Append(s.out, e) /\ y.began = s.began
      /\ y.index = s.index /\ y.open = s.open
  BY <1>1, <1>6, Written DEF Delta
<1> HIDE DEF y
<1>3. MessagesFollows(s.out[Len(s.out)], e)
  BY <1>6, MessagesMay DEF MessagesOpen, BlockKind
<1>4. MessagesOpen(y)
  BY <1>1, <1>2, <1>3, <1>6, MessagesStep DEF BlockEvent, BlockKind
<1> QED
  BY <1>2, <1>4 DEF y

(* A field opens its block, if another one is open. *)
LEMMA IntoKeeps ==
  ASSUME NEW s, MessagesOpen(s), NEW k \in BlockKind, NEW n \in Nat
  PROVE  MessagesOpen(IntoBlock(s, k, n)) /\ (n = 0 => IntoBlock(s, k, n) = s)
<1>1. CASE n = 0
  BY <1>1 DEF IntoBlock
<1>2. CASE n # 0
  <2> DEFINE o == IF s.open = k THEN s ELSE OpenBlock(s, k, 0)
  <2>1. MessagesOpen(o) /\ o.open = k
    BY OpenKeeps
  <2>2. IntoBlock(s, k, n) = Delta(o, k, n)
    BY <1>2 DEF IntoBlock
  <2> HIDE DEF o
  <2> QED
    BY <1>2, <2>1, <2>2, DeltaKeeps
<1> QED
  BY <1>1, <1>2

(* What a chunk says of a tool call. *)
ToolDelta == [id : Nat, args : Nat]

(* A tool call opens its block, or continues the open one. *)
LEMMA ToolCallKeeps ==
  ASSUME NEW s, MessagesOpen(s), NEW call \in ToolDelta, call.id # 0 \/ s.open = "tool"
  PROVE  MessagesOpen(ToolCall(s, call)) /\ ToolCall(s, call).open = "tool"
<1> DEFINE started == IF call.id = 0 THEN s ELSE OpenBlock(s, "tool", call.id)
<1>1. call.id \in Nat /\ call.args \in Nat /\ "tool" \in BlockKind
  BY DEF ToolDelta, BlockKind
<1>2. MessagesOpen(started) /\ started.open = "tool"
  BY <1>1, OpenKeeps
<1>3. ToolCall(s, call) = IF call.args = 0 THEN started ELSE Delta(started, "tool", call.args)
  BY DEF ToolCall
<1> HIDE DEF started
<1> QED
  BY <1>1, <1>2, <1>3, DeltaKeeps

(* The tool calls of a chunk are written one after the other. *)
Called(origin, calls) == FoldLeft(ToolCall, origin, calls)

(* A fold over the calls is a walk from one state of the callback to the   *)
(* next.                                                                   *)
LEMMA CallsTrace ==
  ASSUME NEW calls \in Seq(ToolDelta), NEW V, NEW origin \in V,
         \A n \in 1..Len(calls) : \A v \in V : ToolCall(v, calls[n]) \in V
  PROVE  \E f : /\ f[0] = origin
                /\ \A n \in 0..Len(calls) : f[n] \in V
                /\ \A n \in 1..Len(calls) : f[n] = ToolCall(f[n - 1], calls[n])
                /\ f[Len(calls)] = Called(origin, calls)
<1> DEFINE L == Len(calls)
           step == [n \in 1..L |-> [v \in V |-> ToolCall(v, calls[n])]]
           unfold(it) == [t \in SUBSET (1..L) |-> IF t = {} THEN origin
                          ELSE ToolCall(it[t \ {Max(t)}], calls[Max(t)])]
           c == CHOOSE it : it = unfold(it)
<1>1. L \in Nat /\ DOMAIN calls = 1..L
  BY LenProperties
<1>2. Called(origin, calls) = c[1..L]
  BY <1>1 DEF Called, FoldLeft, MapThenFoldSet
<1>3. \A n \in 1..L : \A v \in V : step[n][v] = ToolCall(v, calls[n]) /\ step[n][v] \in V
  OBVIOUS
<1>4. Closed(step, L, V)
  BY <1>3 DEF Closed
<1>5. PICK g : Solves(g, step, L, V, origin)
  <2> HIDE DEF L, step
  <2> QED
    BY <1>1, <1>4, FoldExists
<1>6. \A t \in SUBSET (1..L) : t # {} => Max(t) \in 1..L /\ t \ {Max(t)} \in SUBSET (1..L)
  BY <1>1, MaxOfSome
<1> HIDE DEF step
<1>7. c = unfold(c)
  <2>1. ASSUME NEW t \in SUBSET (1..L)
        PROVE  g[t] = unfold(g)[t]
    <3>1. CASE t = {}
      BY <1>5, <3>1 DEF Solves
    <3>2. CASE t # {}
      <4>1. Max(t) \in 1..L /\ t \ {Max(t)} \in SUBSET (1..L)
        BY <1>6, <3>2
      <4>2. g[t] = step[Max(t)][g[t \ {Max(t)}]] /\ g[t \ {Max(t)}] \in V
        BY <1>5, <3>2, <4>1 DEF Solves
      <4> QED
        BY <1>3, <3>2, <4>1, <4>2
    <3> QED
      BY <3>1, <3>2
  <2>2. g = unfold(g)
    BY <1>5, <2>1 DEF Solves
  <2> HIDE DEF unfold
  <2> QED
    BY <2>2
<1>8. StepsAs(c, step, L, V, origin)
  <2> HIDE DEF c
  <2> QED
    BY <1>3, <1>6, <1>7 DEF StepsAs
<1>9. PICK f : Traces(f, step, L, V, origin) /\ f[L] = c[1..L]
  <2> HIDE DEF L, c
  <2> QED
    BY <1>1, <1>4, <1>8, FoldTrace
<1>10. \A n \in 1..L : f[n] = ToolCall(f[n - 1], calls[n])
  <2> TAKE n \in 1..L
  <2>1. n - 1 \in 0..L
    BY <1>1
  <2>2. f[n - 1] \in V /\ f[n] = step[n][f[n - 1]]
    BY <1>9, <2>1 DEF Traces
  <2> QED
    BY <1>3, <2>2
<1>11. f[0] = origin /\ (\A n \in 0..L : f[n] \in V) /\ f[L] = Called(origin, calls)
  <2> HIDE DEF c
  <2> QED
    BY <1>2, <1>9 DEF Traces
<1> QED
  BY <1>10, <1>11

(* A chunk of the translators. *)
ChunkOK(c) ==
    /\ c.reasoning \in Nat /\ c.signature \in Nat /\ c.text \in Nat
    /\ c.calls \in Seq(ToolDelta)

(* A call without an id continues the one that is open.                    *)
Continues(c, open) ==
    \A i \in 1..Len(c.calls) :
        c.calls[i].id = 0 => open = "tool" /\ c.reasoning = 0 /\ c.signature = 0 /\ c.text = 0

(* The calls of a chunk are written into the blocks they open. *)
LEMMA CallsKeep ==
  ASSUME NEW s, MessagesOpen(s), NEW calls \in Seq(ToolDelta),
         (\A i \in 1..Len(calls) : calls[i].id # 0) \/ s.open = "tool"
  PROVE  LET y == Called(s, calls)
         IN  /\ MessagesOpen(y)
             /\ calls = <<>> => y = s
             /\ calls # <<>> => y.open = "tool"
<1> DEFINE any == {t \in Writer : MessagesOpen(t)}
           V == IF s.open = "tool" THEN {t \in any : t.open = "tool"} ELSE any
           L == Len(calls)
           y == Called(s, calls)
<1>1. s \in V
  BY DEF MessagesOpen
<1>2. ASSUME NEW n \in 1..L, NEW v \in V
      PROVE  /\ ToolCall(v, calls[n]) \in V /\ ToolCall(v, calls[n]).open = "tool"
             /\ MessagesOpen(ToolCall(v, calls[n]))
  <2>1. calls[n] \in ToolDelta
    OBVIOUS
  <2>2. MessagesOpen(v)
    OBVIOUS
  <2>3. calls[n].id # 0 \/ v.open = "tool"
    OBVIOUS
  <2>4. MessagesOpen(ToolCall(v, calls[n])) /\ ToolCall(v, calls[n]).open = "tool"
    BY <2>1, <2>2, <2>3, ToolCallKeeps
  <2>5. ToolCall(v, calls[n]) \in Writer
    BY <2>4 DEF MessagesOpen
  <2> QED
    BY <2>4, <2>5
<1>3. \A n \in 1..L : \A v \in V : ToolCall(v, calls[n]) \in V
  BY <1>2
<1>4. L \in Nat /\ (L = 0 => calls = <<>>) /\ (calls # <<>> => L > 0)
  BY LenProperties
<1> HIDE DEF V
<1>5. PICK f : /\ f[0] = s /\ (\A n \in 0..L : f[n] \in V)
               /\ \A n \in 1..L : f[n] = ToolCall(f[n - 1], calls[n])
               /\ f[L] = y
  BY <1>1, <1>3, CallsTrace
<1>6. CASE calls # <<>>
  <2>1. L \in 1..L /\ L - 1 \in 0..L
    BY <1>4, <1>6
  <2>2. y = ToolCall(f[L - 1], calls[L]) /\ f[L - 1] \in V
    BY <1>5, <2>1
  <2>3. MessagesOpen(y) /\ y.open = "tool"
    BY <1>2, <2>1, <2>2
  <2> HIDE DEF y
  <2> QED
    BY <1>6, <2>3 DEF y
<1>7. CASE calls = <<>>
  <2>1. L = 0
    BY <1>7
  <2>2. y = s
    BY <1>5, <2>1
  <2> HIDE DEF y
  <2> QED
    BY <1>7, <2>2 DEF y
<1> QED
  BY <1>6, <1>7

(* The first chunk begins the message. *)
LEMMA Begins ==
  ASSUME NEW s, Unbegun(s)
  PROVE  LET y == [Write(s, "message_start", 0, "", 0) EXCEPT !.began = TRUE]
         IN  MessagesOpen(y) /\ y.open = "none"
<1> DEFINE e == [type |-> "message_start", at |-> 0, of |-> "", n |-> 0]
           x == Write(s, "message_start", 0, "", 0)
           y == [x EXCEPT !.began = TRUE]
<1>0. s \in Writer /\ s.out = <<>> /\ s.index = 0 /\ s.open = "none"
  <2>1. <<>> \in Seq(ClientEvent)
    OBVIOUS
  <2> QED
    BY <2>1 DEF Unbegun, Writer
<1>1. e \in ClientEvent /\ e.type = "message_start" /\ e.at = 0 /\ e.of = "" /\ e.n = 0
  BY DEF ClientEvent, Types, Names
<1> HIDE DEF e
<1>2. x = Write(s, e.type, e.at, e.of, e.n)
  BY <1>1
<1> HIDE DEF x
<1>3. /\ x \in Writer /\ x.out = Append(s.out, e)
      /\ x.index = s.index /\ x.open = s.open
  BY <1>0, <1>1, <1>2, Written
<1>4. Len(x.out) = 1 /\ x.out[1] = e /\ x.out # <<>>
  BY <1>0, <1>3
<1>5. /\ y \in Writer /\ y.out = x.out /\ y.index = 0 /\ y.open = "none" /\ y.began = TRUE
  BY <1>0, <1>3 DEF Writer
<1> HIDE DEF y
<1>8. \A i \in 1..Len(y.out) : i = 1 /\ y.out[i] = e
  <2>1. y.out = x.out
    BY <1>5
  <2>2. \A i \in 1..Len(x.out) : i = 1 /\ x.out[i] = e
    BY <1>4
  <2> QED
    BY <2>1, <2>2
<1>6. MessagesChain(y.out) /\ Unended(y.out)
  BY <1>1, <1>8 DEF MessagesChain, Unended
<1>7. MessagesOpen(y)
  BY <1>1, <1>4, <1>5, <1>6 DEF MessagesOpen
<1> QED
  BY <1>5, <1>7 DEF y, x

(* What the callback of /v1/messages does with a chunk.                    *)
LEMMA MessagesChunkKeeps ==
  ASSUME NEW s, Unbegun(s) \/ MessagesOpen(s), NEW c, ChunkOK(c), Continues(c, s.open)
  PROVE  LET y == MessagesChunk(s, c)
         IN  /\ MessagesOpen(y)
             /\ c.calls # <<>> => y.open = "tool"
             /\ c.reasoning = 0 /\ c.signature = 0 /\ c.text = 0 /\ c.calls = <<>>
                    => y.open = s.open
<1> DEFINE begun == IF s.began THEN s
                    ELSE [Write(s, "message_start", 0, "", 0) EXCEPT !.began = TRUE]
           d1 == IntoBlock(begun, "thinking", c.reasoning)
           d2 == IntoBlock(d1, "thinking", c.signature)
           d3 == IntoBlock(d2, "text", c.text)
           y == MessagesChunk(s, c)
<1>1. y = Called(d3, c.calls)
  BY DEF MessagesChunk, Called
<1>2. MessagesOpen(begun) /\ begun.open = s.open
  <2>1. CASE Unbegun(s)
    <3>1. s.began = FALSE /\ s.open = "none"
      BY <2>1 DEF Unbegun
    <3> QED
      BY <2>1, <3>1, Begins
  <2>2. CASE MessagesOpen(s)
    <3>1. s.began = TRUE
      BY <2>2 DEF MessagesOpen
    <3> QED
      BY <2>2, <3>1
  <2> QED
    BY <2>1, <2>2
<1> HIDE DEF begun
<1>0. "thinking" \in BlockKind /\ "text" \in BlockKind
  BY DEF BlockKind
<1>3. MessagesOpen(d1) /\ (c.reasoning = 0 => d1 = begun)
  BY <1>0, <1>2, IntoKeeps DEF ChunkOK
<1> HIDE DEF d1
<1>4. MessagesOpen(d2) /\ (c.signature = 0 => d2 = d1)
  BY <1>0, <1>3, IntoKeeps DEF ChunkOK
<1> HIDE DEF d2
<1>5. MessagesOpen(d3) /\ (c.text = 0 => d3 = d2)
  BY <1>0, <1>4, IntoKeeps DEF ChunkOK
<1> HIDE DEF d3, y
<1>6. (\A i \in 1..Len(c.calls) : c.calls[i].id # 0) \/ d3.open = "tool"
  BY <1>2, <1>3, <1>4, <1>5 DEF Continues
<1>7. /\ MessagesOpen(y)
      /\ c.calls = <<>> => y = d3
      /\ c.calls # <<>> => y.open = "tool"
  BY <1>1, <1>5, <1>6, CallsKeep DEF ChunkOK
<1>8. c.reasoning = 0 /\ c.signature = 0 /\ c.text = 0 /\ c.calls = <<>> => y.open = s.open
  BY <1>2, <1>3, <1>4, <1>5, <1>7
<1> QED
  BY <1>7, <1>8 DEF y

(* Why a Messages stream stopped. *)
LEMMA StopReasons ==
  ASSUME NEW f
  PROVE  /\ f = "length" => StopReason(f) = "max_tokens"
         /\ f = "tool_calls" => StopReason(f) = "tool_use"
         /\ f # "length" /\ f # "tool_calls" => StopReason(f) = "end_turn"
<1>1. ASSUME f = "length" PROVE StopReason(f) = "max_tokens"
  BY <1>1 DEF StopReason
<1>2. ASSUME f = "tool_calls" PROVE StopReason(f) = "tool_use"
  BY <1>2 DEF StopReason
<1>3. ASSUME f # "length" /\ f # "tool_calls" PROVE StopReason(f) = "end_turn"
  BY <1>3 DEF StopReason
<1> QED
  BY <1>1, <1>2, <1>3

(* The last two events end a stream whose blocks are closed. *)
LEMMA MessagesFinish ==
  ASSUME NEW s, MessagesOpen(s), s.open = "none", s.index > 0, NEW f
  PROVE  MessagesEnded(FinishMessages(s, f), f)
<1> DEFINE d == [type |-> "message_delta", at |-> s.index, of |-> StopReason(f), n |-> 0]
           e == [type |-> "message_stop", at |-> s.index, of |-> "", n |-> 0]
           x == Write(s, "message_delta", s.index, StopReason(f), 0)
           y == FinishMessages(s, f)
<1>1. /\ s \in Writer /\ s.index \in Nat /\ s.out \in Seq(ClientEvent) /\ s.out # <<>>
      /\ MessagesChain(s.out) /\ Unended(s.out)
      /\ s.out[Len(s.out)].type = "content_block_stop"
  BY DEF MessagesOpen, Writer
<1>2. StopReason(f) \in Names
  BY StopReasons DEF Names
<1>3. d \in ClientEvent /\ d.type = "message_delta" /\ d.at = s.index /\ d.of = StopReason(f) /\ d.n = 0
  BY <1>1, <1>2 DEF ClientEvent, Types
<1>4. e \in ClientEvent /\ e.type = "message_stop" /\ e.at = s.index /\ e.of = "" /\ e.n = 0
  BY <1>1 DEF ClientEvent, Types, Names
<1> HIDE DEF d, e
<1>5. x = Write(s, d.type, d.at, d.of, d.n)
  BY <1>3
<1>6. y = Write(x, "message_stop", s.index, "", 0)
  BY DEF FinishMessages
<1>7. y = Write(x, e.type, e.at, e.of, e.n)
  BY <1>4, <1>6
<1> HIDE DEF x, y
<1>8. x \in Writer /\ x.out = Append(s.out, d)
  BY <1>1, <1>3, <1>5, Written
<1>9. y \in Writer /\ y.out = Append(x.out, e)
  BY <1>4, <1>7, <1>8, Written
<1>10. x.out \in Seq(ClientEvent) /\ x.out # <<>> /\ x.out[Len(x.out)] = d
  BY <1>1, <1>3, <1>8, OneMore
<1>11. MessagesChain(x.out)
  BY <1>1, <1>3, <1>8, MessagesMay, MessagesGrow
<1>12. MessagesChain(y.out)
  BY <1>3, <1>4, <1>9, <1>10, <1>11, MessagesMay, MessagesGrow
<1>13. /\ y.out # <<>> /\ y.out[Len(y.out)] = e /\ Len(y.out) = Len(x.out) + 1
       /\ \A i \in 1..Len(x.out) : y.out[i] = x.out[i]
  <2>1. e \in ClientEvent
    BY <1>4
  <2>2. /\ Append(x.out, e) # <<>>
        /\ Len(Append(x.out, e)) = Len(x.out) + 1
        /\ Append(x.out, e)[Len(Append(x.out, e))] = e
        /\ \A i \in 1..Len(x.out) : Append(x.out, e)[i] = x.out[i]
    BY <1>10, <2>1, OneMore
  <2> QED
    BY <1>9, <2>2
<1>14. /\ Len(x.out) = Len(s.out) + 1 /\ Len(s.out) \in Nat
       /\ \A i \in 1..Len(s.out) : x.out[i] = s.out[i]
  BY <1>1, <1>3, <1>8, OneMore
<1>16. y.out \in Seq(ClientEvent)
  BY <1>9 DEF Writer
<1>15. ASSUME NEW i \in 1..Len(y.out)
       PROVE  /\ y.out[i].type = "message_delta" => y.out[i].of = StopReason(f)
              /\ y.out[i].type # "completed"
  <2>1. CASE i \in 1..Len(s.out)
    <3>1. y.out[i] = s.out[i]
      BY <1>13, <1>14, <2>1
    <3> QED
      BY <1>1, <2>1, <3>1 DEF Unended
  <2>2. CASE i = Len(s.out) + 1
    <3>1. y.out[i] = d
      BY <1>10, <1>13, <1>14, <2>2
    <3> QED
      BY <1>3, <3>1
  <2>3. CASE i = Len(s.out) + 2
    <3>1. y.out[i] = e
      BY <1>13, <1>14, <2>3
    <3> QED
      BY <1>4, <3>1
  <2> QED
    BY <1>13, <1>14, <2>1, <2>2, <2>3
<1> QED
  BY <1>4, <1>12, <1>13, <1>15, <1>16 DEF MessagesEnded, y

(* A complete Messages stream ends in its grammar, with the reason kept. *)
LEMMA MessagesDoneEnds ==
  ASSUME NEW s, MessagesOpen(s), NEW f
  PROVE  MessagesEnded(MessagesDone(s, f), f)
<1> DEFINE c == CloseBlock(s)
           o == OpenBlock(c, "text", 0)
<1>1. MessagesOpen(c) /\ c.open = "none" /\ c.index \in Nat
  BY CloseKeeps DEF MessagesOpen, Writer
<1>2. MessagesDone(s, f) = FinishMessages(IF c.index = 0 THEN CloseBlock(o) ELSE c, f)
  BY DEF MessagesDone
<1> HIDE DEF c
<1>3. MessagesOpen(o) /\ o.open = "text"
  BY <1>1, OpenKeeps DEF BlockKind
<1> HIDE DEF o
<1>4. MessagesOpen(CloseBlock(o)) /\ CloseBlock(o).open = "none" /\ CloseBlock(o).index > 0
  BY <1>3, CloseKeeps
<1>5. CASE c.index = 0
  BY <1>2, <1>4, <1>5, MessagesFinish
<1>6. CASE c.index # 0
  BY <1>1, <1>2, <1>6, MessagesFinish
<1> QED
  BY <1>5, <1>6

(* So does a broken one. *)
LEMMA MessagesBrokenEnds ==
  ASSUME NEW s, MessagesOpen(s), NEW f
  PROVE  MessagesEnded(MessagesBroken(s, f), f)
<1> DEFINE o == IF s.open = "none" THEN OpenBlock(s, "text", 0) ELSE s
<1>1. MessagesOpen(o) /\ o.open # "none"
  BY OpenKeeps DEF BlockKind
<1>2. MessagesBroken(s, f) = FinishMessages(CloseBlock(o), f)
  BY DEF MessagesBroken
<1> HIDE DEF o
<1>3. MessagesOpen(CloseBlock(o)) /\ CloseBlock(o).open = "none" /\ CloseBlock(o).index > 0
  BY <1>1, CloseKeeps
<1> QED
  BY <1>2, <1>3, MessagesFinish

(* What may follow what in a Responses stream, rule by rule. *)
LEMMA ResponsesMay ==
  ASSUME NEW p, NEW e
  PROVE  /\ /\ e.type = "output_item.added"
            /\ \/ p.type = "created" /\ e.at = 0
               \/ p.type = "output_item.done" /\ e.at = p.at + 1
            => ResponsesFollows(p, e)
         /\ /\ e.type = "part.added" /\ p.type = "output_item.added"
            /\ e.at = p.at /\ e.of = p.of
            => ResponsesFollows(p, e)
         /\ /\ e.type = "delta" /\ p.type \in ItemEvent /\ e.at = p.at /\ e.of = p.of
            => ResponsesFollows(p, e)
         /\ /\ e.type = "part.done" /\ p.type \in ItemEvent /\ e.at = p.at /\ e.of = p.of
            => ResponsesFollows(p, e)
         /\ /\ e.type = "output_item.done" /\ p.type = "part.done"
            /\ e.at = p.at /\ e.of = p.of
            => ResponsesFollows(p, e)
         /\ e.type = "completed" /\ p.type = "output_item.done" => ResponsesFollows(p, e)
         /\ e.type = "failed" /\ p.type = "output_item.done" => ResponsesFollows(p, e)
<1>1. ASSUME e.type = "output_item.added",
             \/ p.type = "created" /\ e.at = 0
             \/ p.type = "output_item.done" /\ e.at = p.at + 1
      PROVE  ResponsesFollows(p, e)
  BY <1>1 DEF ResponsesFollows
<1>2. ASSUME e.type = "part.added", p.type = "output_item.added", e.at = p.at, e.of = p.of
      PROVE  ResponsesFollows(p, e)
  BY <1>2 DEF ResponsesFollows
<1>3. ASSUME e.type = "delta", p.type \in ItemEvent, e.at = p.at, e.of = p.of
      PROVE  ResponsesFollows(p, e)
  BY <1>3 DEF ResponsesFollows, ItemEvent
<1>4. ASSUME e.type = "part.done", p.type \in ItemEvent, e.at = p.at, e.of = p.of
      PROVE  ResponsesFollows(p, e)
  BY <1>4 DEF ResponsesFollows, ItemEvent
<1>5. ASSUME e.type = "output_item.done", p.type = "part.done", e.at = p.at, e.of = p.of
      PROVE  ResponsesFollows(p, e)
  BY <1>5 DEF ResponsesFollows
<1>6. ASSUME e.type = "completed", p.type = "output_item.done"
      PROVE  ResponsesFollows(p, e)
  BY <1>6 DEF ResponsesFollows
<1>7. ASSUME e.type = "failed", p.type = "output_item.done"
      PROVE  ResponsesFollows(p, e)
  BY <1>7 DEF ResponsesFollows
<1> QED
  BY <1>1, <1>2, <1>3, <1>4, <1>5, <1>6, <1>7

(* A Responses stream grows by what may follow its last event. *)
LEMMA ResponsesGrow ==
  ASSUME NEW out \in Seq(ClientEvent), ResponsesChain(out), out # <<>>, NEW e \in ClientEvent,
         ResponsesFollows(out[Len(out)], e)
  PROVE  ResponsesChain(Append(out, e))
<1> DEFINE more == Append(out, e)
<1>1. /\ Len(out) \in Nat /\ Len(out) > 0 /\ Len(more) = Len(out) + 1
      /\ more[Len(more)] = e /\ \A i \in 1..Len(out) : more[i] = out[i]
  BY OneMore
<1> HIDE DEF more
<1>2. ASSUME NEW i \in 1..Len(more)
      PROVE  IF i = 1 THEN more[i].type = "created"
             ELSE ResponsesFollows(more[i - 1], more[i])
  <2>1. CASE i = 1
    <3>1. i \in 1..Len(out)
      BY <1>1, <2>1
    <3> QED
      BY <1>1, <2>1, <3>1 DEF ResponsesChain
  <2>2. CASE i # 1 /\ i <= Len(out)
    <3>1. i \in 1..Len(out) /\ i - 1 \in 1..Len(out)
      BY <2>2
    <3>2. more[i] = out[i] /\ more[i - 1] = out[i - 1]
      BY <1>1, <3>1
    <3> QED
      BY <2>2, <3>1, <3>2 DEF ResponsesChain
  <2>3. CASE i # 1 /\ i > Len(out)
    <3>1. i = Len(more) /\ i - 1 = Len(out) /\ Len(out) \in 1..Len(out)
      BY <1>1, <2>3
    <3>2. more[i] = e /\ more[i - 1] = out[Len(out)]
      BY <1>1, <3>1
    <3> QED
      BY <2>3, <3>2
  <2> QED
    BY <1>1, <2>1, <2>2, <2>3
<1> QED
  BY <1>2 DEF ResponsesChain, more

(* A stream so far, whatever its last event. *)
ResponsesSoFar(s) ==
    /\ s \in Writer /\ s.began = TRUE /\ s.out # <<>>
    /\ ResponsesChain(s.out) /\ Unended(s.out)

(* No flag is moved. *)
Same(y, s) ==
    /\ y.began = s.began /\ y.index = s.index /\ y.open = s.open
    /\ y.reasoning = s.reasoning /\ y.message = s.message

(* Writing what may follow extends the stream and moves no flag. *)
LEMMA ResponsesWrites ==
  ASSUME NEW s, ResponsesSoFar(s),
         NEW type \in Types \ {"message_delta", "completed"},
         NEW at \in Nat, NEW of \in Names, NEW n \in Nat,
         \A e \in ClientEvent : e.type = type /\ e.at = at /\ e.of = of
                           => ResponsesFollows(s.out[Len(s.out)], e)
  PROVE  LET y == Write(s, type, at, of, n)
             l == y.out[Len(y.out)]
         IN  /\ ResponsesSoFar(y) /\ Same(y, s)
             /\ l.type = type /\ l.at = at /\ l.of = of
<1> DEFINE y == Write(s, type, at, of, n)
<1>1. PICK e \in ClientEvent : e.type = type /\ e.at = at /\ e.of = of /\ e.n = n
  BY AnEvent, SMTT(60)
<1>2. s \in Writer /\ s.out \in Seq(ClientEvent) /\ s.out # <<>>
      /\ ResponsesChain(s.out) /\ Unended(s.out) /\ s.began = TRUE
  BY DEF ResponsesSoFar, Writer
<1>3. y \in Writer /\ y.out = Append(s.out, e) /\ Same(y, s)
  <2>1. y = Write(s, e.type, e.at, e.of, e.n)
    BY <1>1
  <2> HIDE DEF y
  <2> QED
    BY <1>2, <2>1, Written DEF Same
<1> HIDE DEF y
<1>4. ResponsesFollows(s.out[Len(s.out)], e)
  BY <1>1
<1>5. ResponsesChain(y.out)
  BY <1>2, <1>3, <1>4, ResponsesGrow
<1>6. Unended(y.out)
  BY <1>1, <1>2, <1>3, UnendedGrow
<1>7. y.out # <<>> /\ y.out[Len(y.out)] = e
  BY <1>2, <1>3, OneMore
<1>8. ResponsesSoFar(y)
  BY <1>2, <1>3, <1>5, <1>6, <1>7 DEF ResponsesSoFar, Same
<1> QED
  BY <1>1, <1>3, <1>7, <1>8 DEF y

(* The two kinds of item. *)
ItemKind == {"reasoning", "text"}

(* An item is added with its part, written into, and closed with its part. *)
LEMMA ItemAdded ==
  ASSUME NEW s, ResponsesSoFar(s), NEW k \in ItemKind,
         \/ s.out[Len(s.out)].type = "created" /\ s.index = 0
         \/ s.out[Len(s.out)].type = "output_item.done" /\ s.index = s.out[Len(s.out)].at + 1
  PROVE  LET y == Write(Write(s, "output_item.added", s.index, k, 0),
                        "part.added", s.index, k, 0)
             l == y.out[Len(y.out)]
         IN  /\ ResponsesSoFar(y) /\ Same(y, s)
             /\ l.type \in ItemEvent /\ l.at = s.index /\ l.of = k
<1> DEFINE x == Write(s, "output_item.added", s.index, k, 0)
           y == Write(x, "part.added", s.index, k, 0)
<1>1. s.index \in Nat /\ k \in Names /\ 0 \in Nat
  BY DEF ResponsesSoFar, Writer, ItemKind, Names
<1>2. /\ "output_item.added" \in Types \ {"message_delta", "completed"}
      /\ "part.added" \in Types \ {"message_delta", "completed"}
  BY DEF Types
<1>3. /\ ResponsesSoFar(x) /\ Same(x, s) /\ x.out[Len(x.out)].type = "output_item.added"
      /\ x.out[Len(x.out)].at = s.index /\ x.out[Len(x.out)].of = k
  <2>1. \A e \in ClientEvent : e.type = "output_item.added" /\ e.at = s.index /\ e.of = k
                          => ResponsesFollows(s.out[Len(s.out)], e)
    BY ResponsesMay
  <2> QED
    BY <1>1, <1>2, <2>1, ResponsesWrites
<1> HIDE DEF x
<1>4. /\ ResponsesSoFar(y) /\ Same(y, x) /\ y.out[Len(y.out)].type = "part.added"
      /\ y.out[Len(y.out)].at = s.index /\ y.out[Len(y.out)].of = k
  <2>1. \A e \in ClientEvent : e.type = "part.added" /\ e.at = s.index /\ e.of = k
                          => ResponsesFollows(x.out[Len(x.out)], e)
    BY <1>3, ResponsesMay
  <2> QED
    BY <1>1, <1>2, <1>3, <2>1, ResponsesWrites
<1> HIDE DEF y
<1>5. Same(y, s)
  BY <1>3, <1>4 DEF Same
<1> QED
  BY <1>4, <1>5 DEF ItemEvent, x, y

(* A delta goes into the item that is open. *)
LEMMA ItemWritten ==
  ASSUME NEW s, ResponsesSoFar(s), NEW k \in ItemKind, NEW n \in Nat,
         s.out[Len(s.out)].type \in ItemEvent,
         s.out[Len(s.out)].at = s.index, s.out[Len(s.out)].of = k
  PROVE  LET y == Write(s, "delta", s.index, k, n)
             l == y.out[Len(y.out)]
         IN  /\ ResponsesSoFar(y) /\ Same(y, s)
             /\ l.type \in ItemEvent /\ l.at = s.index /\ l.of = k
<1> DEFINE y == Write(s, "delta", s.index, k, n)
<1>1. s.index \in Nat /\ k \in Names
  BY DEF ResponsesSoFar, Writer, ItemKind, Names
<1>2. "delta" \in Types \ {"message_delta", "completed"}
  BY DEF Types
<1>3. \A e \in ClientEvent : e.type = "delta" /\ e.at = s.index /\ e.of = k
                          => ResponsesFollows(s.out[Len(s.out)], e)
  BY ResponsesMay
<1>4. /\ ResponsesSoFar(y) /\ Same(y, s) /\ y.out[Len(y.out)].type = "delta"
      /\ y.out[Len(y.out)].at = s.index /\ y.out[Len(y.out)].of = k
  BY <1>1, <1>2, <1>3, ResponsesWrites
<1> HIDE DEF y
<1> QED
  BY <1>4 DEF ItemEvent, y

(* An item is closed after its part. *)
LEMMA ItemClosed ==
  ASSUME NEW s, ResponsesSoFar(s), NEW k \in ItemKind,
         s.out[Len(s.out)].type \in ItemEvent,
         s.out[Len(s.out)].at = s.index, s.out[Len(s.out)].of = k
  PROVE  LET y == Write(Write(s, "part.done", s.index, k, 0),
                        "output_item.done", s.index, k, 0)
             l == y.out[Len(y.out)]
         IN  /\ ResponsesSoFar(y) /\ Same(y, s)
             /\ l.type = "output_item.done" /\ l.at = s.index
<1> DEFINE x == Write(s, "part.done", s.index, k, 0)
           y == Write(x, "output_item.done", s.index, k, 0)
<1>1. s.index \in Nat /\ k \in Names /\ 0 \in Nat
  BY DEF ResponsesSoFar, Writer, ItemKind, Names
<1>2. /\ "part.done" \in Types \ {"message_delta", "completed"}
      /\ "output_item.done" \in Types \ {"message_delta", "completed"}
  BY DEF Types
<1>3. /\ ResponsesSoFar(x) /\ Same(x, s) /\ x.out[Len(x.out)].type = "part.done"
      /\ x.out[Len(x.out)].at = s.index /\ x.out[Len(x.out)].of = k
  <2>1. \A e \in ClientEvent : e.type = "part.done" /\ e.at = s.index /\ e.of = k
                          => ResponsesFollows(s.out[Len(s.out)], e)
    BY ResponsesMay
  <2> QED
    BY <1>1, <1>2, <2>1, ResponsesWrites
<1> HIDE DEF x
<1>4. /\ ResponsesSoFar(y) /\ Same(y, x) /\ y.out[Len(y.out)].type = "output_item.done"
      /\ y.out[Len(y.out)].at = s.index
  <2>1. \A e \in ClientEvent : e.type = "output_item.done" /\ e.at = s.index /\ e.of = k
                          => ResponsesFollows(x.out[Len(x.out)], e)
    BY <1>3, ResponsesMay
  <2> QED
    BY <1>1, <1>2, <1>3, <2>1, ResponsesWrites
<1> HIDE DEF y
<1>5. Same(y, s)
  BY <1>3, <1>4 DEF Same
<1> QED
  BY <1>4, <1>5 DEF x, y

(* What is said of an open stream, in pieces. *)
LEMMA SoFarOpen ==
  ASSUME NEW s
  PROVE  ResponsesOpen(s) =>
            /\ ResponsesSoFar(s) /\ s \in Writer /\ s.index \in Nat
            /\ s.message \in BOOLEAN /\ s.reasoning \in {"none", "open", "closed"}
BY DEF ResponsesOpen, ResponsesSoFar, Writer

(* The reasoning item. *)
LEMMA OpenReasoningKeeps ==
  ASSUME NEW s, ResponsesOpen(s), s.message = FALSE, s.reasoning # "closed"
  PROVE  LET y == OpenReasoning(s)
         IN  /\ ResponsesOpen(y) /\ y.reasoning = "open" /\ y.message = FALSE
             /\ y.index = s.index
<1> DEFINE y == OpenReasoning(s)
<1>0. ResponsesSoFar(s) /\ s.index \in Nat /\ s.reasoning \in {"none", "open", "closed"}
  BY SoFarOpen
<1>1. CASE s.reasoning # "none"
  <2>1. y = s /\ s.reasoning = "open"
    BY <1>0, <1>1 DEF OpenReasoning
  <2> HIDE DEF y
  <2> QED
    BY <2>1 DEF y
<1>2. CASE s.reasoning = "none"
  <2> DEFINE x == Write(Write(s, "output_item.added", s.index, "reasoning", 0),
                        "part.added", s.index, "reasoning", 0)
  <2>1. s.out[Len(s.out)].type = "created" /\ s.index = 0
    BY <1>2 DEF ResponsesOpen
  <2>2. /\ ResponsesSoFar(x) /\ Same(x, s)
        /\ x.out[Len(x.out)].type \in ItemEvent /\ x.out[Len(x.out)].at = s.index
        /\ x.out[Len(x.out)].of = "reasoning"
    <3>1. "reasoning" \in ItemKind
      BY DEF ItemKind
    <3> QED
      BY <1>0, <2>1, <3>1, ItemAdded
  <2>3. y = [x EXCEPT !.reasoning = "open"]
    BY <1>2 DEF OpenReasoning
  <2> HIDE DEF x, y
  <2>4. /\ y \in Writer /\ y.out = x.out /\ y.began = x.began /\ y.index = x.index
        /\ y.message = x.message /\ y.reasoning = "open"
    BY <2>2, <2>3 DEF ResponsesSoFar, Writer
  <2>5. y.message = FALSE /\ y.index = s.index
    BY <2>2, <2>4 DEF Same
  <2>6. ResponsesOpen(y)
    BY <2>2, <2>4, <2>5 DEF ResponsesOpen, ResponsesSoFar
  <2> QED
    BY <2>4, <2>5, <2>6 DEF y
<1> QED
  BY <1>1, <1>2

(* Reasoning is written into its item. *)
LEMMA ReasoningKeeps ==
  ASSUME NEW s, ResponsesOpen(s), s.message = FALSE, s.reasoning = "open", NEW n \in Nat
  PROVE  LET y == Write(s, "delta", s.index, "reasoning", n)
         IN  ResponsesOpen(y) /\ y.reasoning = "open" /\ y.message = FALSE
<1> DEFINE y == Write(s, "delta", s.index, "reasoning", n)
<1>0. ResponsesSoFar(s) /\ "reasoning" \in ItemKind
  BY SoFarOpen DEF ItemKind
<1>1. /\ s.out[Len(s.out)].type \in ItemEvent
      /\ s.out[Len(s.out)].at = s.index /\ s.out[Len(s.out)].of = "reasoning"
  BY DEF ResponsesOpen
<1>2. /\ ResponsesSoFar(y) /\ Same(y, s)
      /\ y.out[Len(y.out)].type \in ItemEvent /\ y.out[Len(y.out)].at = s.index
      /\ y.out[Len(y.out)].of = "reasoning"
  BY <1>0, <1>1, ItemWritten
<1> HIDE DEF y
<1>3. ResponsesOpen(y)
  BY <1>2 DEF ResponsesOpen, ResponsesSoFar, Same
<1> QED
  BY <1>2, <1>3 DEF Same, y

(* The reasoning item is closed before the message begins. *)
LEMMA CloseReasoningKeeps ==
  ASSUME NEW s, ResponsesOpen(s)
  PROVE  LET y == CloseReasoning(s)
         IN  ResponsesOpen(y) /\ y.reasoning # "open" /\ y.message = s.message
<1> DEFINE y == CloseReasoning(s)
<1>0. ResponsesSoFar(s) /\ s.index \in Nat /\ s.message \in BOOLEAN
  BY SoFarOpen
<1>1. CASE s.reasoning # "open"
  BY <1>1 DEF CloseReasoning
<1>2. CASE s.reasoning = "open"
  <2> DEFINE x == Write(Write(s, "part.done", s.index, "reasoning", 0),
                        "output_item.done", s.index, "reasoning", 0)
  <2>1. /\ s.out[Len(s.out)].type \in ItemEvent /\ s.message = FALSE
        /\ s.out[Len(s.out)].at = s.index /\ s.out[Len(s.out)].of = "reasoning"
    BY <1>0, <1>2 DEF ResponsesOpen
  <2>2. /\ ResponsesSoFar(x) /\ Same(x, s)
        /\ x.out[Len(x.out)].type = "output_item.done" /\ x.out[Len(x.out)].at = s.index
    <3>1. "reasoning" \in ItemKind
      BY DEF ItemKind
    <3> QED
      BY <1>0, <2>1, <3>1, ItemClosed
  <2> DEFINE z == [x EXCEPT !.reasoning = "closed"]
  <2>3. y = [z EXCEPT !.index = z.index + 1]
    <3>1. y = [x EXCEPT !.reasoning = "closed", !.index = x.index + 1]
      BY <1>2 DEF CloseReasoning
    <3> HIDE DEF x
    <3>2. x \in Writer
      BY <2>2 DEF ResponsesSoFar
    <3>3. z.index = x.index
      BY <3>2 DEF Writer
    <3> QED
      BY <3>1, <3>3
  <2> HIDE DEF x, y
  <2>4. /\ z \in Writer /\ z.out = x.out /\ z.began = x.began /\ z.index = s.index
        /\ z.message = x.message /\ z.reasoning = "closed"
    BY <2>2 DEF ResponsesSoFar, Writer, Same
  <2> HIDE DEF z
  <2>5. /\ y \in Writer /\ y.out = z.out /\ y.began = z.began /\ y.index = s.index + 1
        /\ y.message = z.message /\ y.reasoning = "closed"
    BY <1>0, <2>3, <2>4 DEF Writer
  <2>6. y.message = FALSE
    BY <2>1, <2>2, <2>4, <2>5 DEF Same
  <2>7. ResponsesOpen(y)
    BY <2>2, <2>4, <2>5, <2>6 DEF ResponsesOpen, ResponsesSoFar
  <2> QED
    BY <2>1, <2>5, <2>6, <2>7 DEF y
<1> QED
  BY <1>1, <1>2

(* The message. *)
LEMMA OpenMessageKeeps ==
  ASSUME NEW s, ResponsesOpen(s), s.reasoning # "open"
  PROVE  LET y == OpenMessage(s)
         IN  ResponsesOpen(y) /\ y.message = TRUE /\ y.reasoning # "open"
<1> DEFINE y == OpenMessage(s)
<1>0. /\ ResponsesSoFar(s) /\ s.index \in Nat /\ s.message \in BOOLEAN
      /\ s.reasoning \in {"none", "open", "closed"}
  BY SoFarOpen
<1>1. CASE s.message = TRUE
  <2>1. y = s
    BY <1>1 DEF OpenMessage
  <2> HIDE DEF y
  <2> QED
    BY <1>1, <2>1 DEF y
<1>2. CASE s.message = FALSE
  <2> DEFINE x == Write(Write(s, "output_item.added", s.index, "text", 0),
                        "part.added", s.index, "text", 0)
  <2>1. \/ s.out[Len(s.out)].type = "created" /\ s.index = 0
        \/ s.out[Len(s.out)].type = "output_item.done" /\ s.index = s.out[Len(s.out)].at + 1
    BY <1>0, <1>2 DEF ResponsesOpen
  <2>2. /\ ResponsesSoFar(x) /\ Same(x, s)
        /\ x.out[Len(x.out)].type \in ItemEvent /\ x.out[Len(x.out)].at = s.index
        /\ x.out[Len(x.out)].of = "text"
    <3>1. "text" \in ItemKind
      BY DEF ItemKind
    <3> QED
      BY <1>0, <2>1, <3>1, ItemAdded
  <2>3. y = [x EXCEPT !.message = TRUE]
    BY <1>2 DEF OpenMessage
  <2> HIDE DEF x, y
  <2>4. /\ y \in Writer /\ y.out = x.out /\ y.began = x.began /\ y.index = x.index
        /\ y.reasoning = x.reasoning /\ y.message = TRUE
    BY <2>2, <2>3 DEF ResponsesSoFar, Writer
  <2>5. y.reasoning # "open" /\ y.index = s.index
    BY <2>2, <2>4 DEF Same
  <2>6. ResponsesOpen(y)
    BY <2>2, <2>4, <2>5 DEF ResponsesOpen, ResponsesSoFar
  <2> QED
    BY <2>4, <2>5, <2>6 DEF y
<1> QED
  BY <1>0, <1>1, <1>2

(* Text is written into the message. *)
LEMMA TextKeeps ==
  ASSUME NEW s, ResponsesOpen(s), s.message = TRUE, NEW n \in Nat
  PROVE  LET y == Write(s, "delta", s.index, "text", n)
         IN  ResponsesOpen(y) /\ y.message = TRUE
<1> DEFINE y == Write(s, "delta", s.index, "text", n)
<1>0. ResponsesSoFar(s) /\ "text" \in ItemKind
  BY SoFarOpen DEF ItemKind
<1>1. /\ s.out[Len(s.out)].type \in ItemEvent /\ s.reasoning # "open"
      /\ s.out[Len(s.out)].at = s.index /\ s.out[Len(s.out)].of = "text"
  BY DEF ResponsesOpen
<1>2. /\ ResponsesSoFar(y) /\ Same(y, s)
      /\ y.out[Len(y.out)].type \in ItemEvent /\ y.out[Len(y.out)].at = s.index
      /\ y.out[Len(y.out)].of = "text"
  BY <1>0, <1>1, ItemWritten
<1> HIDE DEF y
<1>3. ResponsesOpen(y)
  BY <1>1, <1>2 DEF ResponsesOpen, ResponsesSoFar, Same
<1> QED
  BY <1>2, <1>3 DEF Same, y

(* The first chunk begins the response. *)
LEMMA Creates ==
  ASSUME NEW s, Unbegun(s)
  PROVE  LET y == [Write(s, "created", 0, "", 0) EXCEPT !.began = TRUE]
         IN  ResponsesOpen(y) /\ y.message = s.message /\ y.reasoning = "none"
<1> DEFINE e == [type |-> "created", at |-> 0, of |-> "", n |-> 0]
           x == Write(s, "created", 0, "", 0)
           y == [x EXCEPT !.began = TRUE]
<1>0. /\ s \in Writer /\ s.out = <<>> /\ s.index = 0
      /\ s.message = FALSE /\ s.reasoning = "none"
  <2>1. <<>> \in Seq(ClientEvent)
    OBVIOUS
  <2> QED
    BY <2>1 DEF Unbegun, Writer
<1>1. e \in ClientEvent /\ e.type = "created" /\ e.at = 0 /\ e.of = "" /\ e.n = 0
  BY DEF ClientEvent, Types, Names
<1> HIDE DEF e
<1>2. x = Write(s, e.type, e.at, e.of, e.n)
  BY <1>1
<1> HIDE DEF x
<1>3. /\ x \in Writer /\ x.out = Append(s.out, e)
      /\ x.index = s.index /\ x.message = s.message /\ x.reasoning = s.reasoning
  BY <1>0, <1>1, <1>2, Written
<1>4. Len(x.out) = 1 /\ x.out[1] = e /\ x.out # <<>>
  BY <1>0, <1>3
<1>5. /\ y \in Writer /\ y.out = x.out /\ y.index = 0 /\ y.began = TRUE
      /\ y.message = FALSE /\ y.reasoning = "none"
  BY <1>0, <1>3 DEF Writer
<1> HIDE DEF y
<1>8. \A i \in 1..Len(y.out) : i = 1 /\ y.out[i] = e
  <2>1. y.out = x.out
    BY <1>5
  <2>2. \A i \in 1..Len(x.out) : i = 1 /\ x.out[i] = e
    BY <1>4
  <2> QED
    BY <2>1, <2>2
<1>6. ResponsesChain(y.out) /\ Unended(y.out)
  BY <1>1, <1>8 DEF ResponsesChain, Unended
<1>7. ResponsesOpen(y)
  BY <1>1, <1>4, <1>5, <1>6 DEF ResponsesOpen
<1> QED
  BY <1>0, <1>5, <1>7 DEF y, x

(* What the callback of /v1/responses does with a chunk.                   *)
LEMMA ResponsesChunkKeeps ==
  ASSUME NEW s, Unbegun(s) \/ (ResponsesOpen(s) /\ (s.reasoning = "closed" => s.message)),
         NEW c, ChunkOK(c), c.reasoning # 0 => ~s.message
  PROVE  LET y == ResponsesChunk(s, c)
         IN  /\ ResponsesOpen(y) /\ (y.reasoning = "closed" => y.message)
             /\ y.message => s.message \/ c.text # 0
<1> DEFINE begun    == IF s.began THEN s
                       ELSE [Write(s, "created", 0, "", 0) EXCEPT !.began = TRUE]
           opening  == OpenReasoning(begun)
           reasoned == IF c.reasoning = 0 THEN begun
                       ELSE Write(opening, "delta", begun.index, "reasoning", c.reasoning)
           shut   == CloseReasoning(reasoned)
           opened   == OpenMessage(shut)
           y == ResponsesChunk(s, c)
<1>1. y = IF c.text = 0 THEN reasoned
          ELSE Write(opened, "delta", opened.index, "text", c.text)
  BY DEF ResponsesChunk
<1>2. /\ ResponsesOpen(begun) /\ begun.message = s.message
      /\ begun.reasoning = "closed" => begun.message
  <2>1. CASE Unbegun(s)
    <3>1. s.began = FALSE
      BY <2>1 DEF Unbegun
    <3>2. LET z == [Write(s, "created", 0, "", 0) EXCEPT !.began = TRUE]
          IN  ResponsesOpen(z) /\ z.message = s.message /\ z.reasoning = "none"
      BY <2>1, Creates
    <3> QED
      BY <3>1, <3>2
  <2>2. CASE ResponsesOpen(s) /\ (s.reasoning = "closed" => s.message)
    <3>1. s.began = TRUE
      BY <2>2 DEF ResponsesOpen
    <3> QED
      BY <2>2, <3>1
  <2> QED
    BY <2>1, <2>2
<1> HIDE DEF begun
<1>3. /\ ResponsesOpen(reasoned) /\ reasoned.message = begun.message
      /\ reasoned.reasoning = "closed" => reasoned.message
  <2>1. CASE c.reasoning = 0
    BY <1>2, <2>1
  <2>2. CASE c.reasoning # 0
    <3>1. begun.message = FALSE /\ begun.reasoning # "closed"
      BY <1>2, <2>2, SoFarOpen
    <3>2. /\ ResponsesOpen(opening) /\ opening.reasoning = "open"
          /\ opening.message = FALSE /\ opening.index = begun.index
      BY <1>2, <3>1, OpenReasoningKeeps
    <3>3. reasoned = Write(opening, "delta", opening.index, "reasoning", c.reasoning)
      BY <2>2, <3>2
    <3> HIDE DEF opening, reasoned
    <3>4. c.reasoning \in Nat
      BY DEF ChunkOK
    <3>5. ResponsesOpen(reasoned) /\ reasoned.reasoning = "open" /\ reasoned.message = FALSE
      BY <3>2, <3>3, <3>4, ReasoningKeeps
    <3> QED
      BY <3>1, <3>5
  <2> QED
    BY <2>1, <2>2
<1> HIDE DEF opening, reasoned
<1>4. CASE c.text = 0
  <2>1. y = reasoned
    BY <1>1, <1>4
  <2> HIDE DEF y
  <2> QED
    BY <1>2, <1>3, <2>1 DEF y
<1>5. CASE c.text # 0
  <2>1. ResponsesOpen(shut) /\ shut.reasoning # "open"
    BY <1>3, CloseReasoningKeeps
  <2> HIDE DEF shut
  <2>2. ResponsesOpen(opened) /\ opened.message = TRUE
    BY <2>1, OpenMessageKeeps
  <2> HIDE DEF opened
  <2>3. y = Write(opened, "delta", opened.index, "text", c.text)
    BY <1>1, <1>5
  <2> HIDE DEF y
  <2>4. c.text \in Nat
    BY DEF ChunkOK
  <2>5. ResponsesOpen(y) /\ y.message = TRUE
    BY <2>2, <2>3, <2>4, TextKeeps
  <2> QED
    BY <1>5, <2>5 DEF y
<1> QED
  BY <1>4, <1>5

(* The status of a Responses stream. *)
LEMMA StatusIs ==
  ASSUME NEW f
  PROVE  /\ f = "length" => Status(f) = "incomplete"
         /\ f # "length" => Status(f) = "completed"
BY DEF Status

(* The message is opened, closed, and followed by the last event. *)
LEMMA ResponsesFinish ==
  ASSUME NEW s, ResponsesOpen(s), s.reasoning # "open",
         NEW type \in {"completed", "failed"}, NEW status \in Names
  PROVE  LET c == CloseMessage(OpenMessage(s))
         IN  ResponsesEnded(Write(c, type, c.index, status, 0), type, status)
<1> DEFINE o == OpenMessage(s)
           c == CloseMessage(o)
           y == Write(c, type, c.index, status, 0)
<1>1. ResponsesOpen(o) /\ o.message = TRUE
  BY OpenMessageKeeps
<1>2. c = Write(Write(o, "part.done", o.index, "text", 0),
                "output_item.done", o.index, "text", 0)
  BY DEF CloseMessage
<1> HIDE DEF o, c
<1>3. /\ ResponsesSoFar(o) /\ "text" \in ItemKind
      /\ o.out[Len(o.out)].type \in ItemEvent
      /\ o.out[Len(o.out)].at = o.index /\ o.out[Len(o.out)].of = "text"
  BY <1>1, SoFarOpen DEF ItemKind, ResponsesOpen
<1>4. ResponsesSoFar(c) /\ c.out[Len(c.out)].type = "output_item.done"
  BY <1>2, <1>3, ItemClosed
<1>5. /\ c \in Writer /\ c.index \in Nat /\ c.out \in Seq(ClientEvent) /\ c.out # <<>>
      /\ ResponsesChain(c.out) /\ Unended(c.out)
  BY <1>4 DEF ResponsesSoFar, Writer
<1> DEFINE e == [type |-> type, at |-> c.index, of |-> status, n |-> 0]
<1>6. e \in ClientEvent /\ e.type = type /\ e.at = c.index /\ e.of = status /\ e.n = 0
  BY <1>5 DEF ClientEvent, Types
<1> HIDE DEF e
<1>7. y = Write(c, e.type, e.at, e.of, e.n)
  BY <1>6
<1> HIDE DEF y
<1>8. y.out = Append(c.out, e)
  BY <1>5, <1>6, <1>7, Written
<1>9. ResponsesFollows(c.out[Len(c.out)], e)
  BY <1>4, <1>6, ResponsesMay
<1>10. ResponsesChain(y.out)
  BY <1>5, <1>6, <1>8, <1>9, ResponsesGrow
<1>11. /\ y.out # <<>> /\ y.out[Len(y.out)] = e /\ Len(y.out) = Len(c.out) + 1
       /\ \A i \in 1..Len(c.out) : y.out[i] = c.out[i]
  BY <1>5, <1>6, <1>8, OneMore
<1>13. y.out \in Seq(ClientEvent)
  <2>1. e \in ClientEvent
    BY <1>6
  <2> QED
    BY <1>5, <1>8, <2>1
<1>12. ASSUME NEW i \in 1..Len(y.out)
       PROVE  /\ y.out[i].type = "completed" => type = "completed" /\ y.out[i].of = status
              /\ y.out[i].type # "message_delta"
  <2>0. Len(c.out) \in Nat
    BY <1>5
  <2>1. i \in 1..Len(c.out) \/ i = Len(y.out)
    BY <1>11, <2>0
  <2>2. CASE i \in 1..Len(c.out)
    BY <1>5, <1>11, <2>2 DEF Unended
  <2>3. CASE i = Len(y.out)
    BY <1>6, <1>11, <2>3
  <2> QED
    BY <2>1, <2>2, <2>3
<1> QED
  BY <1>6, <1>10, <1>11, <1>12, <1>13 DEF ResponsesEnded, y, c, o

(* A complete Responses stream ends in its grammar. *)
LEMMA ResponsesDoneEnds ==
  ASSUME NEW s, ResponsesOpen(s), NEW f
  PROVE  ResponsesEnded(ResponsesDone(s, f), "completed", Status(f))
<1> DEFINE o == CloseReasoning(s)
           c == CloseMessage(OpenMessage(o))
<1>1. ResponsesOpen(o) /\ o.reasoning # "open"
  BY CloseReasoningKeeps
<1>2. ResponsesDone(s, f) = Write(c, "completed", c.index, Status(f), 0)
  BY DEF ResponsesDone
<1> HIDE DEF o
<1>3. Status(f) \in Names
  BY StatusIs DEF Names
<1>4. "completed" \in {"completed", "failed"}
  OBVIOUS
<1> QED
  BY <1>1, <1>2, <1>3, <1>4, ResponsesFinish

(* So does a broken one, unless it broke in its reasoning. *)
LEMMA ResponsesBrokenEnds ==
  ASSUME NEW s, ResponsesOpen(s), s.reasoning # "open"
  PROVE  ResponsesEnded(ResponsesBroken(s), "failed", "failed")
<1> DEFINE c == CloseMessage(OpenMessage(s))
<1>2. ResponsesBroken(s) = Write(c, "failed", c.index, "failed", 0)
  BY DEF ResponsesBroken
<1>3. "failed" \in {"completed", "failed"} /\ "failed" \in Names
  BY DEF Names
<1> QED
  BY <1>2, <1>3, ResponsesFinish

(* The chat stream. *)

(* One more chunk for the client of a chat. *)
LEMMA ChatGrow ==
  ASSUME NEW s, ChatOpen(s), NEW n \in Nat
  PROVE  ChatOpen(Write(s, "chunk", 0, "", n))
<1> DEFINE y == Write(s, "chunk", 0, "", n)
<1> DEFINE e == [type |-> "chunk", at |-> 0, of |-> "", n |-> n]
<1>2. e \in ClientEvent /\ e.type = "chunk" /\ e.at = 0 /\ e.of = "" /\ e.n = n
  BY DEF ClientEvent, Types, Names
<1> HIDE DEF e
<1>3. y = Write(s, e.type, e.at, e.of, e.n)
  BY <1>2
<1> HIDE DEF y
<1>4. s \in Writer /\ s.out \in Seq(ClientEvent)
  BY DEF ChatOpen, Writer
<1>5. y \in Writer /\ y.out = Append(s.out, e)
  BY <1>2, <1>3, <1>4, Written
<1>6. /\ y.out[Len(y.out)] = e /\ Len(y.out) = Len(s.out) + 1
      /\ \A i \in 1..Len(s.out) : y.out[i] = s.out[i]
  <2>1. e \in ClientEvent
    BY <1>2
  <2>2. /\ Append(s.out, e)[Len(Append(s.out, e))] = e
        /\ Len(Append(s.out, e)) = Len(s.out) + 1
        /\ \A i \in 1..Len(s.out) : Append(s.out, e)[i] = s.out[i]
    BY <1>4, <2>1, OneMore
  <2> QED
    BY <1>5, <2>2
<1>7. ASSUME NEW i \in 1..Len(y.out) PROVE y.out[i].type = "chunk"
  <2>0. Len(s.out) \in Nat
    BY <1>4
  <2>1. i \in 1..Len(s.out) \/ i = Len(y.out)
    BY <1>6, <2>0
  <2> QED
    BY <1>2, <1>6, <2>1 DEF ChatOpen
<1> QED
  BY <1>5, <1>7 DEF ChatOpen, y

(* One of the pieces of a chunk is forwarded. *)
Carry(t, n) == IF n = 0 THEN t ELSE Write(t, "chunk", 0, "", n)

(* All of them are. *)
Forwarded(origin, numbers) ==
    FoldLeft(LAMBDA t, n : IF n = 0 THEN t ELSE Write(t, "chunk", 0, "", n), origin, numbers)

(* Numbers are forwarded one after the other. *)
LEMMA ForwardedTrace ==
  ASSUME NEW numbers \in Seq(Nat), NEW V, NEW s \in V,
         \A n \in 1..Len(numbers) : \A v \in V : Carry(v, numbers[n]) \in V
  PROVE  \E f : /\ f[0] = s
                /\ \A n \in 0..Len(numbers) : f[n] \in V
                /\ \A n \in 1..Len(numbers) : f[n] = Carry(f[n - 1], numbers[n])
                /\ f[Len(numbers)] = Forwarded(s, numbers)
<1> DEFINE L == Len(numbers)
           step == [n \in 1..L |-> [v \in V |-> Carry(v, numbers[n])]]
           unfold(it) == [t \in SUBSET (1..L) |-> IF t = {} THEN s
                          ELSE Carry(it[t \ {Max(t)}], numbers[Max(t)])]
           c == CHOOSE it : it = unfold(it)
<1>1. L \in Nat /\ DOMAIN numbers = 1..L
  BY LenProperties
<1>2. Forwarded(s, numbers) = c[1..L]
  BY <1>1 DEF Forwarded, FoldLeft, MapThenFoldSet, Carry
<1>3. \A n \in 1..L : \A v \in V : step[n][v] = Carry(v, numbers[n]) /\ step[n][v] \in V
  OBVIOUS
<1>4. Closed(step, L, V)
  BY <1>3 DEF Closed
<1>5. PICK g : Solves(g, step, L, V, s)
  <2> HIDE DEF L, step
  <2> QED
    BY <1>1, <1>4, FoldExists
<1>6. \A t \in SUBSET (1..L) : t # {} => Max(t) \in 1..L /\ t \ {Max(t)} \in SUBSET (1..L)
  BY <1>1, MaxOfSome
<1> HIDE DEF step
<1>7. c = unfold(c)
  <2>1. ASSUME NEW t \in SUBSET (1..L)
        PROVE  g[t] = unfold(g)[t]
    <3>1. CASE t = {}
      BY <1>5, <3>1 DEF Solves
    <3>2. CASE t # {}
      <4>1. Max(t) \in 1..L /\ t \ {Max(t)} \in SUBSET (1..L)
        BY <1>6, <3>2
      <4>2. g[t] = step[Max(t)][g[t \ {Max(t)}]] /\ g[t \ {Max(t)}] \in V
        BY <1>5, <3>2, <4>1 DEF Solves
      <4>3. g[t] = Carry(g[t \ {Max(t)}], numbers[Max(t)])
        BY <1>3, <4>1, <4>2
      <4> QED
        BY <3>2, <4>3
    <3> QED
      BY <3>1, <3>2
  <2>2. g = unfold(g)
    BY <1>5, <2>1 DEF Solves
  <2> HIDE DEF unfold
  <2> QED
    BY <2>2
<1>8. StepsAs(c, step, L, V, s)
  <2> HIDE DEF c
  <2> QED
    BY <1>3, <1>6, <1>7 DEF StepsAs
<1>9. PICK f : Traces(f, step, L, V, s) /\ f[L] = c[1..L]
  <2> HIDE DEF L, c
  <2> QED
    BY <1>1, <1>4, <1>8, FoldTrace
<1>10. \A n \in 1..L : f[n] = Carry(f[n - 1], numbers[n])
  <2> TAKE n \in 1..L
  <2>1. n - 1 \in 0..L
    BY <1>1
  <2>2. f[n - 1] \in V /\ f[n] = step[n][f[n - 1]]
    BY <1>9, <2>1 DEF Traces
  <2> QED
    BY <1>3, <2>2
<1>11. f[0] = s /\ (\A n \in 0..L : f[n] \in V) /\ f[L] = Forwarded(s, numbers)
  <2> HIDE DEF c
  <2> QED
    BY <1>2, <1>9 DEF Traces
<1> QED
  BY <1>10, <1>11

LEMMA ForwardedKeeps ==
  ASSUME NEW s, ChatOpen(s), NEW numbers \in Seq(Nat)
  PROVE  ChatOpen(Forwarded(s, numbers))
<1> DEFINE V == {t \in Writer : ChatOpen(t)}
<1>1. Len(numbers) \in Nat /\ s \in V
  BY LenProperties DEF ChatOpen
<1>2. ASSUME NEW n \in 1..Len(numbers), NEW v \in V PROVE Carry(v, numbers[n]) \in V
  <2>1. ChatOpen(v) /\ numbers[n] \in Nat
    OBVIOUS
  <2>2. ChatOpen(Carry(v, numbers[n]))
    BY <2>1, ChatGrow DEF Carry
  <2> QED
    BY <2>2 DEF ChatOpen
<1> HIDE DEF V
<1>3. PICK f : /\ \A n \in 0..Len(numbers) : f[n] \in V
               /\ f[Len(numbers)] = Forwarded(s, numbers)
  BY <1>1, <1>2, ForwardedTrace
<1>4. Forwarded(s, numbers) \in V
  BY <1>1, <1>3
<1> QED
  BY <1>4 DEF V

(* The numbers of a chunk are numbers. *)
LEMMA CarriedNumbers ==
  ASSUME NEW calls \in Seq(ToolDelta)
  PROVE  FlattenSeq([i \in DOMAIN calls |-> <<calls[i].id, calls[i].args>>]) \in Seq(Nat)
<1> DEFINE L == Len(calls)
           ss == [i \in DOMAIN calls |-> <<calls[i].id, calls[i].args>>]
<1>1. L \in Nat /\ DOMAIN calls = 1..L
  BY LenProperties
<1>2. DOMAIN ss = 1..L /\ Len(ss) = L
  BY <1>1
<1>3. \A i \in 1..L : ss[i] \in Seq(Nat)
  <2> TAKE i \in 1..L
  <2>0. calls[i] \in ToolDelta
    OBVIOUS
  <2>1. calls[i].id \in Nat /\ calls[i].args \in Nat
    BY <2>0 DEF ToolDelta
  <2>2. ss[i] = <<calls[i].id, calls[i].args>>
    BY <1>1
  <2> HIDE DEF ss
  <2> QED
    BY <2>1, <2>2
<1>4. L = 0 => ss = <<>>
  BY <1>1
<1> HIDE DEF ss
<1>5. FlattenSeq(ss) \in Seq(Nat)
  BY <1>1, <1>2, <1>3, <1>4, ElementsFlat
<1> QED
  BY <1>5 DEF ss

(* What the callback of /v1/chat/completions does with a chunk. *)
LEMMA ChatChunkKeeps ==
  ASSUME NEW s, ChatOpen(s), NEW c, ChunkOK(c)
  PROVE  ChatOpen(ChatChunk(s, c))
<1> DEFINE origin == [s EXCEPT !.began = TRUE]
           fields == <<c.reasoning, c.signature, c.text>>
           rest == FlattenSeq([i \in DOMAIN c.calls |-> <<c.calls[i].id, c.calls[i].args>>])
<1>1. ChatChunk(s, c) = Forwarded(origin, fields \o rest)
  BY DEF ChatChunk, Forwarded
<1>2. ChatOpen(origin)
  <2>1. origin \in Writer /\ origin.out = s.out
    BY DEF ChatOpen, Writer
  <2> HIDE DEF origin
  <2> QED
    BY <2>1 DEF ChatOpen
<1>3. rest \in Seq(Nat)
  BY CarriedNumbers DEF ChunkOK
<1>4. fields \in Seq(Nat)
  BY DEF ChunkOK
<1> HIDE DEF origin, fields, rest
<1>5. fields \o rest \in Seq(Nat)
  BY <1>3, <1>4
<1> QED
  BY <1>1, <1>2, <1>5, ForwardedKeeps

(* What is in the chunk of an event. *)

(* A piece of kind k is in the event. *)
HasPart(e, k) == \E i \in 1..Len(e.parts) : e.parts[i] = k

(* e is an event with some pieces. *)
Numbered(e) == e.parts \in Seq(Kind) /\ e.n \in Nat /\ e.n > 0

(* The pieces that a call carries, and those of the first n calls.         *)
PiecesOf(call) == {call.id, call.args}
PiecesIn(calls, n) == UNION {PiecesOf(calls[i]) : i \in 1..n}

(* The number of the i-th piece of an event. *)
Number(e, i) == e.n - 1 + i

(* A field of a chunk is the last piece of its kind in the event. *)
LEMMA FieldLast ==
  ASSUME NEW e, Numbered(e), NEW k
  PROVE  \/ Field(e, k) = 0 /\ ~HasPart(e, k)
         \/ \E i \in 1..Len(e.parts) :
                /\ e.parts[i] = k /\ Field(e, k) = Number(e, i)
                /\ \A j \in 1..Len(e.parts) : e.parts[j] = k => j <= i
<1> DEFINE S == {i \in 1..Len(e.parts) : e.parts[i] = k}
<1>0. Len(e.parts) \in Nat /\ DOMAIN e.parts = 1..Len(e.parts)
  BY LenProperties DEF Numbered
<1>1. CASE S = {}
  <2>1. ~\E i \in DOMAIN e.parts : e.parts[i] = k
    BY <1>0, <1>1
  <2> QED
    BY <1>0, <2>1 DEF Field, HasPart
<1>2. CASE S # {}
  <2>1. PICK i \in S : \A j \in S : j <= i
    <3>1. S \in SUBSET (1..Len(e.parts))
      OBVIOUS
    <3> HIDE DEF S
    <3>2. Max(S) \in S /\ \A y \in S : Max(S) >= y
      BY <1>0, <1>2, <3>1, MaxOfSome
    <3>3. \A y \in S : y \in Nat
      BY <1>0, <3>1
    <3> QED
      BY <3>2, <3>3
  <2> DEFINE last(m) == m \in DOMAIN e.parts /\ e.parts[m] = k
                        /\ \A j \in DOMAIN e.parts : e.parts[j] = k => j <= m
             m == CHOOSE m \in DOMAIN e.parts : /\ e.parts[m] = k
                     /\ \A j \in DOMAIN e.parts : e.parts[j] = k => j <= m
  <2>2. last(i)
    BY <1>0, <2>1
  <2>3. last(m)
    BY <2>2
  <2>4. Field(e, k) = Number(e, m)
    BY <1>0, <1>2 DEF Field, Number
  <2> HIDE DEF m
  <2> QED
    BY <1>0, <2>3, <2>4
<1> QED
  BY <1>1, <1>2

(* The tool calls of an event, piece by piece. *)
Tools(e) == {i \in 1..Len(e.parts) : e.parts[i] \in ToolKind}
ToolPiece(e, i) ==
    [id   |-> IF e.parts[i] \in {"call", "fn"} THEN Number(e, i) ELSE 0,
     args |-> IF e.parts[i] \in {"args", "fn"} THEN Number(e, i) ELSE 0]
ToolsOf(e, i) == IF e.parts[i] \in ToolKind THEN <<ToolPiece(e, i)>> ELSE <<>>

(* A piece of a tool call makes a call that has its number. *)
LEMMA PieceOfTool ==
  ASSUME NEW e, Numbered(e), NEW i \in Tools(e)
  PROVE  /\ ToolPiece(e, i) \in ToolDelta
         /\ PiecesOf(ToolPiece(e, i)) \cup {0} = {0, Number(e, i)}
<1>1. Number(e, i) \in Nat /\ e.parts[i] \in {"call", "args", "fn"}
  BY DEF Number, Numbered, Tools, ToolKind
<1>2. ToolPiece(e, i).id = (IF e.parts[i] \in {"call", "fn"} THEN Number(e, i) ELSE 0)
      /\ ToolPiece(e, i).args = (IF e.parts[i] \in {"args", "fn"} THEN Number(e, i) ELSE 0)
  BY DEF ToolPiece
<1>3. ToolPiece(e, i) \in ToolDelta
  BY <1>1 DEF ToolPiece, ToolDelta
<1> QED
  BY <1>1, <1>2, <1>3 DEF PiecesOf

(* The calls of a chunk are those of the pieces, in their order. *)
CallsBefore == {p \in ToolDelta \X ToolDelta :
                  \A m \in PiecesOf(p[1]), n \in PiecesOf(p[2]) : m = 0 \/ n = 0 \/ m <= n}

LEMMA CallsInTurn ==
  ASSUME NEW e, Numbered(e)
  PROVE  /\ Calls(e) \in Seq(ToolDelta)
         /\ ToSet(Calls(e)) = {ToolPiece(e, i) : i \in Tools(e)}
         /\ InPairs(Calls(e), CallsBefore)
<1> DEFINE L == Len(e.parts)
           ss == [i \in DOMAIN e.parts |-> ToolsOf(e, i)]
<1>0. L \in Nat /\ DOMAIN e.parts = 1..L /\ e.n \in Nat /\ e.n > 0
  BY LenProperties DEF Numbered
<1>1. Calls(e) = FlattenSeq(ss)
  BY DEF Calls, ToolsOf, ToolPiece, Number
<1>2. DOMAIN ss = 1..L /\ Len(ss) = L /\ (L = 0 => ss = <<>>)
      /\ \A i \in 1..L : ss[i] = ToolsOf(e, i)
  BY <1>0
<1> HIDE DEF ss
<1>3. ASSUME NEW i \in 1..L
      PROVE  /\ ss[i] \in Seq(ToolDelta) /\ InPairs(ss[i], CallsBefore)
             /\ i \in Tools(e) => ToSet(ss[i]) = {ToolPiece(e, i)}
             /\ i \notin Tools(e) => ToSet(ss[i]) = {}
  <2>1. CASE i \in Tools(e)
    <3>1. ss[i] = <<ToolPiece(e, i)>> /\ ToolPiece(e, i) \in ToolDelta
      BY <1>2, <2>1, PieceOfTool DEF ToolsOf, Tools
    <3> QED
      BY <2>1, <3>1 DEF ToSet, InPairs
  <2>2. CASE i \notin Tools(e)
    <3>1. ss[i] = <<>>
      BY <1>2, <2>2 DEF ToolsOf, Tools
    <3> QED
      BY <2>2, <3>1 DEF ToSet, InPairs
  <2> QED
    BY <2>1, <2>2
<1>4. ASSUME NEW i \in 1..L, NEW j \in 1..L, i < j, NEW a \in ToSet(ss[i]), NEW b \in ToSet(ss[j])
      PROVE  <<a, b>> \in CallsBefore
  <2>1. i \in Tools(e) /\ j \in Tools(e) /\ a = ToolPiece(e, i) /\ b = ToolPiece(e, j)
    BY <1>3, <1>4
  <2>2. a \in ToolDelta /\ b \in ToolDelta
    BY <2>1, PieceOfTool
  <2>3. PiecesOf(a) \subseteq {0, Number(e, i)} /\ PiecesOf(b) \subseteq {0, Number(e, j)}
    BY <2>1, PieceOfTool
  <2>4. Number(e, i) <= Number(e, j)
    BY <1>0, <1>4 DEF Number
  <2> QED
    BY <2>2, <2>3, <2>4 DEF CallsBefore
<1>5. /\ FlattenSeq(ss) \in Seq(ToolDelta)
      /\ ToSet(FlattenSeq(ss)) = UNION {ToSet(ss[i]) : i \in 1..L}
  BY <1>0, <1>2, <1>3, ElementsFlat
<1>6. InPairs(FlattenSeq(ss), CallsBefore)
  BY <1>0, <1>2, <1>3, <1>4, PairsFlat
<1>7. UNION {ToSet(ss[i]) : i \in 1..L} = {ToolPiece(e, i) : i \in Tools(e)}
  BY <1>3 DEF Tools
<1> QED
  BY <1>1, <1>5, <1>6, <1>7

(* A field of a chunk is the number of a piece of its event, or zero. *)
LEMMA FieldIs ==
  ASSUME NEW e, Numbered(e), NEW k
  PROVE  Field(e, k) \in Nat /\ (Field(e, k) # 0 => HasPart(e, k))
BY FieldLast DEF HasPart, Number, Numbered

(* The tool calls of an event. *)
LEMMA CallsAre ==
  ASSUME NEW e, Numbered(e)
  PROVE  /\ Calls(e) \in Seq(ToolDelta)
         /\ \A i \in 1..Len(Calls(e)) : Calls(e)[i].id = 0 => HasPart(e, "args")
         /\ \A k \in ToolKind : HasPart(e, k) => Calls(e) # <<>>
         /\ Tools(e) = {} => Calls(e) = <<>>
         /\ e.parts = <<>> => Calls(e) = <<>>
<1> DEFINE calls == Calls(e)
<1>1. calls \in Seq(ToolDelta) /\ ToSet(calls) = {ToolPiece(e, i) : i \in Tools(e)}
  BY CallsInTurn
<1> HIDE DEF calls
<1>2. ASSUME NEW i \in 1..Len(calls), calls[i].id = 0 PROVE HasPart(e, "args")
  <2>1. calls[i] \in ToSet(calls)
    BY <1>1, LenProperties DEF ToSet
  <2>2. PICK j \in Tools(e) : calls[i] = ToolPiece(e, j)
    BY <1>1, <2>1
  <2>3. j \in 1..Len(e.parts) /\ Number(e, j) # 0
    BY DEF Tools, Number, Numbered
  <2>4. e.parts[j] \notin {"call", "fn"}
    BY <1>2, <2>2, <2>3 DEF ToolPiece
  <2> QED
    BY <2>3, <2>4 DEF HasPart, Tools, ToolKind
<1>3. ASSUME NEW k \in ToolKind, HasPart(e, k) PROVE calls # <<>>
  <2>1. PICK i \in Tools(e) : TRUE
    BY <1>3 DEF HasPart, Tools
  <2>2. ToSet(calls) # {}
    BY <1>1, <2>1
  <2>3. ToSet(<<>>) = {}
    BY DEF ToSet
  <2> QED
    BY <2>2, <2>3
<1>4. ASSUME Tools(e) = {} PROVE calls = <<>>
  <2>1. DOMAIN calls = {}
    BY <1>1, <1>4 DEF ToSet
  <2>2. Len(calls) = 0
    BY <1>1, <2>1, LenProperties
  <2> QED
    BY <1>1, <2>2
<1>5. e.parts = <<>> => Tools(e) = {}
  BY DEF Tools
<1> QED
  BY <1>1, <1>2, <1>3, <1>4, <1>5 DEF calls

(* The fields of a chunk are those of the event, as far as it has them. *)
Made(e, c) ==
    /\ c.reasoning = 0 \/ c.reasoning = Field(e, "thinking")
    /\ c.signature = 0 \/ c.signature = Field(e, "signature")
    /\ c.text = 0 \/ c.text = Field(e, "text")
    /\ c.calls = <<>> \/ c.calls = Calls(e)
    /\ c.finish = FinishReason(e.stop)

(* An event is forwarded, with its calls or without, or it is withheld. *)
Passes(e) == Chunk(e).forward = TRUE /\ Made(e, Chunk(e).chunk)
PassesCalls(e) == Passes(e) /\ Chunk(e).chunk.calls = Calls(e)

(* An event that does not stop the stream gives no reason. *)
LEMMA NoReason == FinishReason("none") = "none"
BY DEF FinishReason

(* An OpenAI-compatible event passes as it is, but for [DONE]. *)
LEMMA MadeByOpenAI ==
  ASSUME protocol = "openai", NEW e
  PROVE  IF e.type = "[DONE]" THEN Withheld(e) ELSE PassesCalls(e)
<1> DEFINE c == [reasoning |-> Field(e, "thinking"),
                 signature |-> Field(e, "signature"),
                 text |-> Field(e, "text"), calls |-> Calls(e),
                 finish |-> FinishReason(e.stop), usage |-> Reported(e)]
<1>1. Chunk(e) = IF e.type = "[DONE]" THEN Drop(TRUE) ELSE Forward(c)
  BY Zenon DEF Chunk, TransformStreamEvent, OpenAITransform
<1>2. Made(e, c) /\ c.calls = Calls(e)
  BY DEF Made
<1> HIDE DEF c
<1> QED
  BY <1>1, <1>2, Fate, Zenon DEF Passes, PassesCalls, Withheld

(* What becomes of the events of Anthropic, by type. *)
LEMMA MadeByAnthropic ==
  ASSUME protocol = "anthropic", NEW e
  PROVE  /\ e.type = "message_start" /\ e.stop = "none" => Passes(e)
         /\ e.type = "content_block_start" /\ e.stop = "none" => PassesCalls(e)
         /\ e.type = "content_block_delta" /\ e.stop = "none" => PassesCalls(e)
         /\ e.type = "message_delta" => Passes(e)
         /\ e.type = "message_stop" => Withheld(e)
<1>1. Chunk(e) = AnthropicTransform(e)
  BY Zenon DEF Chunk, TransformStreamEvent
<1>2. ASSUME e.type = "message_start", e.stop = "none" PROVE Passes(e)
  <2> DEFINE c == [Blank EXCEPT !.usage = Usage(e)]
  <2>1. Chunk(e) = Forward(c)
    BY <1>1, <1>2, Zenon DEF AnthropicTransform
  <2>2. Made(e, c)
    BY <1>2, NoReason DEF Made, Blank
  <2> HIDE DEF c
  <2> QED
    BY <2>1, <2>2, Fate, Zenon DEF Passes
<1>3. ASSUME e.type = "content_block_start", e.stop = "none" PROVE PassesCalls(e)
  <2> DEFINE c == [Blank EXCEPT !.calls = Calls(e)]
  <2>1. Chunk(e) = Forward(c)
    BY <1>1, <1>3, Zenon DEF AnthropicTransform
  <2>2. Made(e, c) /\ c.calls = Calls(e)
    BY <1>3, NoReason DEF Made, Blank
  <2> HIDE DEF c
  <2> QED
    BY <2>1, <2>2, Fate, Zenon DEF Passes, PassesCalls
<1>4. ASSUME e.type = "content_block_delta", e.stop = "none" PROVE PassesCalls(e)
  <2> DEFINE c == [Blank EXCEPT !.reasoning = Field(e, "thinking"),
                                !.signature = Field(e, "signature"),
                                !.text = Field(e, "text"),
                                !.calls = Calls(e)]
  <2>1. Chunk(e) = Forward(c)
    BY <1>1, <1>4, Zenon DEF AnthropicTransform
  <2>2. Made(e, c) /\ c.calls = Calls(e)
    BY <1>4, NoReason DEF Made, Blank
  <2> HIDE DEF c
  <2> QED
    BY <2>1, <2>2, Fate, Zenon DEF Passes, PassesCalls
<1>5. ASSUME e.type = "message_delta" PROVE Passes(e)
  <2> DEFINE c == [Blank EXCEPT !.finish = FinishReason(e.stop), !.usage = Usage(e)]
  <2>1. Chunk(e) = Forward(c)
    BY <1>1, <1>5, Zenon DEF AnthropicTransform
  <2>2. Made(e, c)
    BY DEF Made, Blank
  <2> HIDE DEF c
  <2> QED
    BY <2>1, <2>2, Fate, Zenon DEF Passes
<1>6. ASSUME e.type = "message_stop" PROVE Withheld(e)
  BY <1>1, <1>6, Fate, Zenon DEF AnthropicTransform, Withheld
<1> QED
  BY <1>2, <1>3, <1>4, <1>5, <1>6

(* Every event of Gemini passes with its calls. *)
LEMMA MadeByGoogle ==
  ASSUME protocol = "google", NEW e
  PROVE  PassesCalls(e)
<1> DEFINE c == [Blank EXCEPT !.text = Field(e, "text"), !.calls = Calls(e),
                              !.finish = FinishReason(e.stop), !.usage = Usage(e)]
<1>1. Chunk(e) = GoogleTransform(e)
  BY Zenon DEF Chunk, TransformStreamEvent
<1>2. GoogleTransform(e).forward = TRUE /\ GoogleTransform(e).chunk = c
  BY DEF GoogleTransform
<1>3. Made(e, c) /\ c.calls = Calls(e)
  BY DEF Made, Blank
<1> HIDE DEF c
<1> QED
  BY <1>1, <1>2, <1>3, Zenon DEF Passes, PassesCalls

(* What becomes of the events of Cohere, by type. *)
LEMMA MadeByCohere ==
  ASSUME protocol = "cohere", NEW e
  PROVE  /\ e.type = "message-start" /\ e.stop = "none" => Passes(e)
         /\ e.type = "content-delta" /\ e.stop = "none" => Passes(e)
         /\ e.type \in {"tool-call-start", "tool-call-delta"} /\ e.stop = "none"
                => PassesCalls(e)
         /\ e.type = "message-end" => Passes(e)
<1>1. Chunk(e) = CohereTransform(e)
  BY Zenon DEF Chunk, TransformStreamEvent
<1>2. ASSUME e.type = "message-start", e.stop = "none" PROVE Passes(e)
  <2>1. Chunk(e) = Forward(Blank)
    BY <1>1, <1>2, Zenon DEF CohereTransform
  <2>2. Made(e, Blank)
    BY <1>2, NoReason DEF Made, Blank
  <2> QED
    BY <2>1, <2>2, Fate, Zenon DEF Passes
<1>3. ASSUME e.type = "content-delta", e.stop = "none" PROVE Passes(e)
  <2> DEFINE c == [Blank EXCEPT !.text = Field(e, "text")]
  <2>1. Chunk(e) = Forward(c)
    BY <1>1, <1>3, Zenon DEF CohereTransform
  <2>2. Made(e, c)
    BY <1>3, NoReason DEF Made, Blank
  <2> HIDE DEF c
  <2> QED
    BY <2>1, <2>2, Fate, Zenon DEF Passes
<1>4. ASSUME e.type \in {"tool-call-start", "tool-call-delta"}, e.stop = "none"
      PROVE  PassesCalls(e)
  <2> DEFINE c == [Blank EXCEPT !.calls = Calls(e)]
  <2>1. Chunk(e) = Forward(c)
    BY <1>1, <1>4, Zenon DEF CohereTransform
  <2>2. Made(e, c) /\ c.calls = Calls(e)
    BY <1>4, NoReason DEF Made, Blank
  <2> HIDE DEF c
  <2> QED
    BY <2>1, <2>2, Fate, Zenon DEF Passes, PassesCalls
<1>5. ASSUME e.type = "message-end" PROVE Passes(e)
  <2> DEFINE c == [Blank EXCEPT !.finish = FinishReason(e.stop), !.usage = Reported(e)]
  <2>1. Chunk(e) = Forward(c)
    BY <1>1, <1>5, Zenon DEF CohereTransform
  <2>2. Made(e, c)
    BY DEF Made, Blank
  <2> HIDE DEF c
  <2> QED
    BY <2>1, <2>2, Fate, Zenon DEF Passes
<1> QED
  BY <1>2, <1>3, <1>4, <1>5

(* The kinds of piece in an event; arguments come alone, after their call. *)
LEMMA PartsAre ==
  ASSUME NEW p \in Protocol, NEW q \in Parts(p)
  PROVE  /\ q \in Seq(Kind)
         /\ \A i \in 1..Len(q) :
                q[i] = "args" => q = <<"args">> /\ LastKind \in {"call", "args"}
         /\ p = "cohere" => q = <<"text">> \/ q = <<"call">> \/ q = <<"args">>
<1>1. After(LastKind) \subseteq Kind
  BY DEF After, Kind, ToolKind
<1>2. ASSUME NEW k \in After(LastKind), q = <<k>>
      PROVE  /\ q \in Seq(Kind)
             /\ \A i \in 1..Len(q) :
                    q[i] = "args" => q = <<"args">> /\ LastKind \in {"call", "args"}
  <2>1. k \in Kind
    BY <1>1
  <2>2. q \in Seq(Kind) /\ Len(q) = 1 /\ q[1] = k
    BY <1>2, <2>1
  <2>3. k = "args" => LastKind \in {"call", "args"}
    BY DEF After
  <2> QED
    BY <1>2, <2>2, <2>3
<1>3. ASSUME q \in {<<>>, <<"thinking", "text">>, <<"text", "call">>, <<"text", "fn">>,
                    <<"fn", "fn">>, <<"text">>, <<"fn">>, <<"text", "text">>, <<"fn", "text">>}
      PROVE  q \in Seq(Kind) /\ \A i \in 1..Len(q) : q[i] # "args"
  <2> DEFINE K == Kind \ {"args"}
  <2>1. {"thinking", "text", "call", "fn"} \subseteq K
    BY DEF Kind, ToolKind
  <2> HIDE DEF K
  <2>2. q = <<>> \/ (\E a \in K : q = <<a>>) \/ (\E a, b \in K : q = <<a, b>>)
    BY <1>3, <2>1
  <2>3. q \in Seq(K)
    <3>1. CASE q = <<>>
      BY <3>1
    <3>2. ASSUME NEW a \in K, q = <<a>> PROVE q \in Seq(K)
      BY <3>2
    <3>3. ASSUME NEW a \in K, NEW b \in K, q = <<a, b>> PROVE q \in Seq(K)
      BY <3>3
    <3> QED
      BY <2>2, <3>1, <3>2, <3>3
  <2>4. \A i \in 1..Len(q) : q[i] \in K
    BY <2>3
  <2>5. K \subseteq Kind /\ "args" \notin K
    BY DEF K
  <2> QED
    BY <2>3, <2>4, <2>5
<1>4. CASE p = "openai"
  BY <1>2, <1>3, <1>4 DEF Parts
<1>5. CASE p = "anthropic"
  BY <1>2, <1>5 DEF Parts
<1>6. CASE p = "google"
  BY <1>3, <1>6 DEF Parts
<1>7. CASE p = "cohere"
  <2>1. PICK k \in After(LastKind) \ {"thinking", "signature"} : q = <<k>>
    BY <1>7 DEF Parts
  <2>2. k \in {"text", "call", "args"}
    BY DEF After
  <2> QED
    BY <1>2, <2>1, <2>2
<1> QED
  BY <1>4, <1>5, <1>6, <1>7 DEF Protocol

(* Which events there are. *)
Classified(e) ==
    /\ Numbered(e)
    /\ e.stop \in {"none", "end", "limit", "tool"} /\ (e.stop # "none" => stop = "none")
    /\ HasPart(e, "args") => e.parts = <<"args">> /\ LastKind \in {"call", "args"}
    /\ protocol = "openai" => (e.type = "[DONE]" => e.stop = "none" /\ e.parts = <<>>)
    /\ protocol = "anthropic" =>
           \/ e.type = "message_start" /\ e.stop = "none" /\ e.parts = <<>>
           \/ e.type \in {"content_block_start", "content_block_delta"} /\ e.stop = "none"
           \/ e.type = "message_delta" /\ e.parts = <<>>
           \/ e.type = "message_stop" /\ e.stop = "none" /\ e.parts = <<>>
    /\ protocol = "cohere" =>
           \/ e.type = "message-start" /\ e.stop = "none" /\ e.parts = <<>>
           \/ e.type = "content-delta" /\ e.stop = "none" /\ e.parts = <<"text">>
           \/ e.type \in {"tool-call-start", "tool-call-delta"} /\ e.stop = "none"
           \/ e.type = "message-end" /\ e.parts = <<>>

(* An event without pieces. *)
LEMMA EmptyEvent ==
  ASSUME NEW e, e.parts = <<>>, e.n \in Nat, e.n > 0
  PROVE  Numbered(e) /\ ~HasPart(e, "args")
<1>1. <<>> \in Seq(Kind) /\ Len(<<>>) = 0
  OBVIOUS
<1> QED
  BY <1>1 DEF Numbered, HasPart

(* The events of the content, *)
LEMMA ContentClassified ==
  ASSUME Accounts, NEW e \in Content
  PROVE  Classified(e)
<1>1. PICK q \in Parts(protocol) :
         e = Event(TypeOf(protocol, q), NextPiece, q, "none",
                   IF protocol = "google" THEN 1 ELSE 0,
                   IF protocol = "google" THEN Output ELSE 0)
  BY DEF Content
<1>2. /\ e.type = TypeOf(protocol, q) /\ e.parts = q /\ e.stop = "none" /\ e.n = NextPiece
  BY <1>1 DEF Event
<1>3. NextPiece \in Nat /\ NextPiece > 0 /\ protocol \in Protocol
  BY DEF Accounts, NextPiece
<1>4. Numbered(e) /\ (HasPart(e, "args") => e.parts = <<"args">> /\ LastKind \in {"call", "args"})
  BY <1>2, <1>3, PartsAre DEF Numbered, HasPart
<1>5. protocol = "openai" => (e.type # "[DONE]")
  <2> SUFFICES ASSUME protocol = "openai" PROVE e.type # "[DONE]"
    OBVIOUS
  <2>1. e.type = "chunk"
    BY <1>2, Zenon DEF TypeOf
  <2> QED
    BY <2>1
<1>6. protocol = "anthropic" =>
           e.type \in {"content_block_start", "content_block_delta"} /\ e.stop = "none"
  <2> SUFFICES ASSUME protocol = "anthropic"
               PROVE  e.type \in {"content_block_start", "content_block_delta"}
    BY <1>2
  <2> QED
    BY <1>2, Zenon DEF TypeOf
<1>7. protocol = "cohere" =>
           \/ e.type = "content-delta" /\ e.parts = <<"text">>
           \/ e.type \in {"tool-call-start", "tool-call-delta"}
  <2> SUFFICES ASSUME protocol = "cohere"
               PROVE  \/ e.type = "content-delta" /\ e.parts = <<"text">>
                      \/ e.type \in {"tool-call-start", "tool-call-delta"}
    OBVIOUS
  <2>1. q = <<"text">> \/ q = <<"call">> \/ q = <<"args">>
    BY <1>3, PartsAre
  <2>2. <<"text">> # <<"call">> /\ <<"text">> # <<"args">> /\ <<"call">> # <<"args">>
    OBVIOUS
  <2>3. ASSUME q = <<"text">> PROVE e.type = "content-delta"
    <3>1. e.type = TypeOf("cohere", <<"text">>)
      BY <1>2, <2>3
    <3>2. TypeOf("cohere", <<"text">>) = "content-delta"
      BY <2>2, Zenon DEF TypeOf
    <3> QED
      BY <3>1, <3>2
  <2>4. ASSUME q = <<"call">> PROVE e.type = "tool-call-start"
    <3>1. e.type = TypeOf("cohere", <<"call">>)
      BY <1>2, <2>4
    <3>2. TypeOf("cohere", <<"call">>) = "tool-call-start"
      BY <2>2, Zenon DEF TypeOf
    <3> QED
      BY <3>1, <3>2
  <2>5. ASSUME q = <<"args">> PROVE e.type = "tool-call-delta"
    <3>1. e.type = TypeOf("cohere", <<"args">>)
      BY <1>2, <2>5
    <3>2. TypeOf("cohere", <<"args">>) = "tool-call-delta"
      BY <2>2, Zenon DEF TypeOf
    <3> QED
      BY <3>1, <3>2
  <2> QED
    BY <1>2, <2>1, <2>3, <2>4, <2>5
<1> QED
  BY <1>2, <1>4, <1>5, <1>6, <1>7 DEF Classified

(* those that stop it, *)
LEMMA StopsClassified ==
  ASSUME Accounts, NEW e \in Stops
  PROVE  Classified(e)
<1>0. NextPiece \in Nat /\ NextPiece > 0 /\ protocol \in Protocol
  BY DEF Accounts, NextPiece
<1>1. stop = "none"
  BY DEF Stops
<1>2. \A r \in Reasons : r \in {"none", "end", "limit", "tool"}
  BY DEF Reasons
<1>3. CASE protocol = "openai"
  <2>1. PICK r \in Reasons : e = Event("chunk", NextPiece, <<>>, r, 0, 0)
    BY <1>3 DEF Stops
  <2>2. e.type = "chunk" /\ e.parts = <<>> /\ e.stop = r /\ e.n = NextPiece
    BY <2>1 DEF Event
  <2> QED
    BY <1>0, <1>1, <1>2, <1>3, <2>2, EmptyEvent DEF Classified
<1>4. CASE protocol = "anthropic"
  <2>1. PICK r \in Reasons : e = Event("message_delta", NextPiece, <<>>, r, 0, Output)
    BY <1>4 DEF Stops
  <2>2. e.type = "message_delta" /\ e.parts = <<>> /\ e.stop = r /\ e.n = NextPiece
    BY <2>1 DEF Event
  <2> QED
    BY <1>0, <1>1, <1>2, <1>4, <2>2, EmptyEvent DEF Classified
<1>5. CASE protocol = "google"
  <2>1. PICK r \in Reasons, q \in {<<>>} \cup Parts("google") :
           e = Event("chunk", NextPiece, q, r, 1, Output)
    BY <1>5 DEF Stops
  <2>2. e.parts = q /\ e.stop = r /\ e.n = NextPiece
    BY <2>1 DEF Event
  <2>3. Numbered(e) /\ (HasPart(e, "args") => e.parts = <<"args">> /\ LastKind \in {"call", "args"})
    <3>1. CASE q = <<>>
      BY <1>0, <2>2, <3>1, EmptyEvent
    <3>2. CASE q \in Parts("google")
      <4>1. q \in Parts(protocol)
        BY <1>5, <3>2
      <4> QED
        BY <1>0, <2>2, <4>1, PartsAre DEF Numbered, HasPart
    <3> QED
      BY <3>1, <3>2
  <2> QED
    BY <1>1, <1>2, <1>5, <2>2, <2>3 DEF Classified
<1>6. CASE protocol = "cohere"
  <2>1. PICK r \in Reasons : e = Event("message-end", NextPiece, <<>>, r, 1, Output)
    BY <1>6 DEF Stops
  <2>2. e.type = "message-end" /\ e.parts = <<>> /\ e.stop = r /\ e.n = NextPiece
    BY <2>1 DEF Event
  <2> QED
    BY <1>0, <1>1, <1>2, <1>6, <2>2, EmptyEvent DEF Classified
<1> QED
  BY <1>0, <1>3, <1>4, <1>5, <1>6 DEF Protocol

(* and those around it. *)
LEMMA FrameClassified ==
  ASSUME Accounts, NEW e \in Frame
  PROVE  Classified(e)
<1>0. NextPiece \in Nat /\ NextPiece > 0 /\ protocol \in Protocol
  BY DEF Accounts, NextPiece
<1>1. CASE protocol = "openai"
  <2>1. \/ e = Event("chunk", NextPiece, <<>>, "none", 1, Output)
        \/ e = Event("[DONE]", NextPiece, <<>>, "none", 0, 0)
    BY <1>1, Zenon DEF Frame
  <2>2. e.parts = <<>> /\ e.stop = "none" /\ e.n = NextPiece
    BY <2>1 DEF Event
  <2> QED
    BY <1>0, <1>1, <2>2, EmptyEvent DEF Classified
<1>2. CASE protocol = "anthropic"
  <2>1. \/ events = 0 /\ e = Event("message_start", 1, <<>>, "none", 1, 0)
        \/ e = Event("message_stop", NextPiece, <<>>, "none", 0, 0)
    BY <1>2, Zenon DEF Frame
  <2>2. /\ e.type = "message_start" \/ e.type = "message_stop"
        /\ e.parts = <<>> /\ e.stop = "none" /\ (e.n = NextPiece \/ e.n = 1)
    BY <2>1 DEF Event
  <2> QED
    BY <1>0, <1>2, <2>2, EmptyEvent DEF Classified
<1>3. CASE protocol = "google"
  BY <1>3, Zenon DEF Frame
<1>4. CASE protocol = "cohere"
  <2>1. e = Event("message-start", 1, <<>>, "none", 0, 0)
    BY <1>4, Zenon DEF Frame
  <2>2. e.type = "message-start" /\ e.parts = <<>> /\ e.stop = "none" /\ e.n = 1
    BY <2>1 DEF Event
  <2> QED
    BY <1>4, <2>2, EmptyEvent DEF Classified
<1> QED
  BY <1>0, <1>1, <1>2, <1>3, <1>4 DEF Protocol

(* What the callback gets for an event. *)
LEMMA Translated ==
  ASSUME Accounts, NEW e \in Content \cup Stops \cup Frame
  PROVE  /\ Classified(e)
         /\ \/ Withheld(e) /\ e.stop = "none" /\ e.parts = <<>>
            \/ Passes(e) /\ ~HasPart(e, "call") /\ ~HasPart(e, "args")
            \/ PassesCalls(e)
<1>1. Classified(e)
  BY ContentClassified, StopsClassified, FrameClassified
<1>2. e.parts = <<>> => ~HasPart(e, "call") /\ ~HasPart(e, "args")
  BY DEF HasPart
<1>3. e.parts = <<"text">> => ~HasPart(e, "call") /\ ~HasPart(e, "args")
  <2> SUFFICES ASSUME e.parts = <<"text">> PROVE \A i \in 1..Len(e.parts) : e.parts[i] = "text"
    BY DEF HasPart
  <2>1. \A i \in 1..Len(<<"text">>) : <<"text">>[i] = "text"
    OBVIOUS
  <2> QED
    BY <2>1
<1>4. CASE protocol = "openai"
  BY <1>1, <1>4, MadeByOpenAI DEF Classified
<1>5. CASE protocol = "anthropic"
  BY <1>1, <1>2, <1>5, MadeByAnthropic DEF Classified
<1>6. CASE protocol = "google"
  BY <1>1, <1>6, MadeByGoogle
<1>7. CASE protocol = "cohere"
  BY <1>1, <1>2, <1>3, <1>7, MadeByCohere DEF Classified
<1> QED
  BY <1>1, <1>4, <1>5, <1>6, <1>7 DEF Accounts, Protocol

(* The finish reasons that the clients are told. *)
LEMMA Finishes ==
  ASSUME NEW r \in {"none", "end", "limit", "tool"}
  PROVE  /\ r = "none" => FinishReason(r) = "none"
         /\ r # "none" => FinishReason(r) # "none"
         /\ FinishReason(r) = "length" <=> r = "limit"
         /\ FinishReason(r) = "tool_calls" <=> r = "tool"
<1>1. ASSUME r = "none" PROVE FinishReason(r) = "none"
  BY <1>1 DEF FinishReason
<1>2. ASSUME r = "end" PROVE FinishReason(r) = "stop"
  BY <1>2 DEF FinishReason
<1>3. ASSUME r = "limit" PROVE FinishReason(r) = "length"
  BY <1>3 DEF FinishReason
<1>4. ASSUME r = "tool" PROVE FinishReason(r) = "tool_calls"
  BY <1>4 DEF FinishReason
<1> QED
  BY <1>1, <1>2, <1>3, <1>4

(* The grammars, by endpoint. *)
LEMMA Grammar ==
  /\ sink = "chat" => /\ \A p, e : Follows(p, e) <=> p.type = "chunk"
                      /\ Opening = {"chunk", "[DONE]", "error"}
                      /\ Closing = IF outcome = "ok" THEN "[DONE]" ELSE "error"
  /\ sink = "messages" => /\ \A p, e : Follows(p, e) <=> MessagesFollows(p, e)
                          /\ Opening = {"message_start"} /\ Closing = "message_stop"
  /\ sink = "responses" => /\ \A p, e : Follows(p, e) <=> ResponsesFollows(p, e)
                           /\ Opening = {"created"}
                           /\ Closing = IF outcome = "ok" THEN "completed" ELSE "failed"
<1>1. ASSUME sink = "chat"
      PROVE  /\ \A p, e : Follows(p, e) <=> p.type = "chunk"
             /\ Opening = {"chunk", "[DONE]", "error"}
             /\ Closing = IF outcome = "ok" THEN "[DONE]" ELSE "error"
  BY <1>1 DEF Follows, Opening, Closing
<1>2. ASSUME sink = "messages"
      PROVE  /\ \A p, e : Follows(p, e) <=> MessagesFollows(p, e)
             /\ Opening = {"message_start"} /\ Closing = "message_stop"
  BY <1>2 DEF Follows, Opening, Closing
<1>3. ASSUME sink = "responses"
      PROVE  /\ \A p, e : Follows(p, e) <=> ResponsesFollows(p, e)
             /\ Opening = {"created"}
             /\ Closing = IF outcome = "ok" THEN "completed" ELSE "failed"
  BY <1>3 DEF Follows, Opening, Closing
<1> QED
  BY <1>1, <1>2, <1>3

(* The first part of WellFormed. *)
Chain == \A i \in DOMAIN w.out :
             IF i = 1 THEN w.out[i].type \in Opening
             ELSE Follows(w.out[i - 1], w.out[i])

(* A chat stream is a chain of chunks, but for its last event. *)
LEMMA ChatChain ==
  ASSUME sink = "chat", w.out \in Seq(ClientEvent),
         \A i \in 1..(Len(w.out) - 1) : w.out[i].type = "chunk",
         w.out # <<>> => w.out[Len(w.out)].type \in {"chunk", "[DONE]", "error"}
  PROVE  Chain /\ ReasonTold
<1>1. Len(w.out) \in Nat /\ DOMAIN w.out = 1..Len(w.out)
  BY LenProperties
<1>2. ASSUME NEW i \in DOMAIN w.out
      PROVE  /\ w.out[i].type \in {"chunk", "[DONE]", "error"}
             /\ i # 1 => w.out[i - 1].type = "chunk"
  <2>1. i \in 1..(Len(w.out) - 1) \/ i = Len(w.out)
    BY <1>1
  <2>2. w.out # <<>>
    BY <1>1
  <2>3. i # 1 => i - 1 \in 1..(Len(w.out) - 1)
    BY <1>1
  <2> QED
    BY <2>1, <2>2, <2>3
<1>3. Chain
  BY <1>2, Grammar DEF Chain
<1>4. ReasonTold
  BY <1>2 DEF ReasonTold
<1> QED
  BY <1>3, <1>4

(* If the last events carry the translated reason, the client is told why  *)
(* the model stopped.                                                      *)
LEMMA ReasonFollows ==
  ASSUME stop \in {"none", "end", "limit", "tool"},
         \A i \in DOMAIN w.out :
            /\ w.out[i].type = "message_delta" => w.out[i].of = StopReason(FinishReason(stop))
            /\ w.out[i].type = "completed" => w.out[i].of = Status(FinishReason(stop))
  PROVE  ReasonTold
<1> DEFINE f == FinishReason(stop)
<1>1. (f = "length" <=> stop = "limit") /\ (f = "tool_calls" <=> stop = "tool")
  BY Finishes
<1> HIDE DEF f
<1>2. /\ StopReason(f) = "max_tokens" <=> f = "length"
      /\ StopReason(f) = "tool_use" <=> f = "tool_calls"
      /\ Status(f) = "incomplete" <=> f = "length"
  BY StopReasons, StatusIs
<1>3. ASSUME NEW i \in DOMAIN w.out
      PROVE  /\ w.out[i].type = "message_delta" =>
                    /\ (w.out[i].of = "max_tokens") <=> (stop = "limit")
                    /\ (w.out[i].of = "tool_use") <=> (stop = "tool")
             /\ w.out[i].type = "completed" =>
                    (w.out[i].of = "incomplete") <=> (stop = "limit")
  BY <1>1, <1>2 DEF f
<1> QED
  BY <1>3 DEF ReasonTold

(* The strengthening implies what is claimed. *)
LEMMA FormFollows == Streaming => WellFormed
<1> SUFFICES ASSUME Streaming, ~Irregular
             PROVE  /\ Chain
                    /\ outcome \in {"ok", "error"} => w.out[Len(w.out)].type = Closing
                    /\ ReasonTold
  BY DEF WellFormed, Chain
<1>0. sink \in Sink /\ stop \in {"none", "end", "limit", "tool"}
  BY DEF Streaming
<1>a. ASSUME w.out = <<>> PROVE Chain /\ ReasonTold
  <2>1. DOMAIN w.out = {}
    BY <1>a
  <2> QED
    BY <2>1 DEF Chain, ReasonTold
<1>b. ASSUME NEW s \in Seq(ClientEvent) PROVE Len(s) \in Nat /\ DOMAIN s = 1..Len(s)
  BY LenProperties
<1>c. ASSUME w.out \in Seq(ClientEvent), Unended(w.out) PROVE ReasonTold
  <2>1. DOMAIN w.out = 1..Len(w.out)
    BY <1>b, <1>c
  <2> QED
    BY <1>c, <2>1 DEF ReasonTold, Unended
<1>1. CASE sink = "chat"
  <2>1. CASE ChatOpen(w) /\ outcome \notin {"ok", "error"}
    <3>1. w.out \in Seq(ClientEvent) /\ \A i \in 1..Len(w.out) : w.out[i].type = "chunk"
      BY <2>1 DEF ChatOpen, Writer
    <3>2. Len(w.out) \in Nat /\ (w.out # <<>> => Len(w.out) \in 1..Len(w.out))
      BY <3>1
    <3>3. w.out # <<>> => w.out[Len(w.out)].type = "chunk"
      BY <3>1, <3>2
    <3>4. \A i \in 1..(Len(w.out) - 1) : w.out[i].type = "chunk"
      <4> TAKE i \in 1..(Len(w.out) - 1)
      <4>1. i \in 1..Len(w.out)
        BY <3>2
      <4> QED
        BY <3>1, <4>1
    <3>5. Chain /\ ReasonTold
      BY <1>1, <3>1, <3>3, <3>4, ChatChain
    <3> QED
      BY <2>1, <3>5
  <2>2. ASSUME NEW type \in {"[DONE]", "error"}, ChatEnded(w, type),
               outcome = IF type = "[DONE]" THEN "ok" ELSE "error"
        PROVE  Chain /\ ReasonTold /\ w.out[Len(w.out)].type = Closing
    <3>1. /\ w.out \in Seq(ClientEvent) /\ w.out[Len(w.out)].type = type
          /\ \A i \in 1..(Len(w.out) - 1) : w.out[i].type = "chunk"
      BY <2>2 DEF ChatEnded
    <3>2. Chain /\ ReasonTold
      BY <1>1, <3>1, ChatChain
    <3>3. Closing = type
      BY <1>1, <2>2, Grammar
    <3> QED
      BY <3>1, <3>2, <3>3
  <2>3. \/ ChatOpen(w) /\ outcome \notin {"ok", "error"}
        \/ ChatEnded(w, "[DONE]") /\ outcome = "ok"
        \/ ChatEnded(w, "error") /\ outcome = "error"
    BY <1>1 DEF Streaming, SoundIn, Ended
  <2> QED
    BY <2>1, <2>2, <2>3
<1>2. CASE sink = "messages"
  <2>1. CASE w.out = <<>> /\ outcome \notin {"ok", "error"}
    BY <1>a, <2>1
  <2>2. CASE MessagesOpen(w) /\ outcome \notin {"ok", "error"}
    <3>1. w.out \in Seq(ClientEvent) /\ MessagesChain(w.out) /\ Unended(w.out)
      BY <2>2 DEF MessagesOpen, Writer
    <3>2. DOMAIN w.out = 1..Len(w.out)
      BY <1>b, <3>1
    <3>3. Chain
      BY <1>2, <3>1, <3>2, Grammar DEF Chain, MessagesChain
    <3> QED
      BY <1>c, <2>2, <3>1, <3>3
  <2>3. CASE MessagesEnded(w, FinishReason(stop))
    <3>1. w.out \in Seq(ClientEvent) /\ MessagesChain(w.out)
      BY <2>3 DEF MessagesEnded
    <3>2. DOMAIN w.out = 1..Len(w.out)
      BY <1>b, <3>1
    <3>3. Chain
      BY <1>2, <3>1, <3>2, Grammar DEF Chain, MessagesChain
    <3>4. ReasonTold
      BY <1>0, <2>3, <3>2, ReasonFollows DEF MessagesEnded
    <3>5. w.out[Len(w.out)].type = Closing
      BY <1>2, <2>3, Grammar DEF MessagesEnded
    <3> QED
      BY <3>3, <3>4, <3>5
  <2>4. \/ w.out = <<>> /\ outcome \notin {"ok", "error"}
        \/ MessagesOpen(w) /\ outcome \notin {"ok", "error"}
        \/ MessagesEnded(w, FinishReason(stop))
    BY <1>2 DEF Streaming, SoundIn, Ended, Unbegun
  <2> QED
    BY <2>1, <2>2, <2>3, <2>4
<1>3. CASE sink = "responses"
  <2>0. ~Late(sent)
    BY <1>3 DEF Irregular, LateReasoning, Late
  <2>1. CASE w.out = <<>> /\ outcome \notin {"ok", "error"}
    BY <1>a, <2>1
  <2>2. CASE ResponsesOpen(w) /\ outcome \notin {"ok", "error"}
    <3>1. w.out \in Seq(ClientEvent) /\ ResponsesChain(w.out) /\ Unended(w.out)
      BY <2>2 DEF ResponsesOpen, Writer
    <3>2. DOMAIN w.out = 1..Len(w.out)
      BY <1>b, <3>1
    <3>3. Chain
      BY <1>3, <3>1, <3>2, Grammar DEF Chain, ResponsesChain
    <3> QED
      BY <1>c, <2>2, <3>1, <3>3
  <2>3. ASSUME NEW type \in {"completed", "failed"}, NEW status,
               ResponsesEnded(w, type, status),
               outcome = IF type = "completed" THEN "ok" ELSE "error",
               type = "completed" => status = Status(FinishReason(stop))
        PROVE  Chain /\ ReasonTold /\ w.out[Len(w.out)].type = Closing
    <3>1. w.out \in Seq(ClientEvent) /\ ResponsesChain(w.out) /\ w.out # <<>>
      BY <2>3 DEF ResponsesEnded
    <3>2. DOMAIN w.out = 1..Len(w.out)
      BY <1>b, <3>1
    <3>3. Chain
      BY <1>3, <3>1, <3>2, Grammar DEF Chain, ResponsesChain
    <3>4. ReasonTold
      BY <1>0, <2>3, <3>2, ReasonFollows DEF ResponsesEnded
    <3>5. w.out[Len(w.out)].type = Closing
      BY <1>3, <2>3, Grammar DEF ResponsesEnded
    <3> QED
      BY <3>3, <3>4, <3>5
  <2>4. \/ w.out = <<>> /\ outcome \notin {"ok", "error"}
        \/ ResponsesOpen(w) /\ outcome \notin {"ok", "error"}
        \/ /\ outcome = "ok"
           /\ ResponsesEnded(w, "completed", Status(FinishReason(stop)))
        \/ outcome = "error" /\ ResponsesEnded(w, "failed", "failed")
    BY <1>3, <2>0 DEF Streaming, SoundIn, Ended, Unbegun
  <2> QED
    BY <2>1, <2>2, <2>3, <2>4
<1> QED
  BY <1>0, <1>1, <1>2, <1>3 DEF Sink

(* A chunk holds numbers of the pieces of its event. *)
LEMMA ChunkIs ==
  ASSUME NEW e, Classified(e), NEW c, Made(e, c)
  PROVE  /\ ChunkOK(c)
         /\ c.reasoning # 0 => HasPart(e, "thinking")
         /\ c.signature # 0 => HasPart(e, "signature")
         /\ c.text # 0 => HasPart(e, "text")
         /\ \A i \in 1..Len(c.calls) : c.calls[i].id = 0 => HasPart(e, "args")
         /\ e.parts = <<>> => /\ c.reasoning = 0 /\ c.signature = 0 /\ c.text = 0
                              /\ c.calls = <<>>
<1>1. Numbered(e)
  BY DEF Classified
<1>2. \A k : Field(e, k) \in Nat /\ (Field(e, k) # 0 => HasPart(e, k))
  BY <1>1, FieldIs
<1>3. /\ Calls(e) \in Seq(ToolDelta)
      /\ \A i \in 1..Len(Calls(e)) : Calls(e)[i].id = 0 => HasPart(e, "args")
      /\ e.parts = <<>> => Calls(e) = <<>>
  BY <1>1, CallsAre
<1>4. /\ c.reasoning \in Nat /\ (c.reasoning # 0 => HasPart(e, "thinking"))
      /\ c.signature \in Nat /\ (c.signature # 0 => HasPart(e, "signature"))
      /\ c.text \in Nat /\ (c.text # 0 => HasPart(e, "text"))
  BY <1>2 DEF Made
<1>5. c.calls \in Seq(ToolDelta)
      /\ \A i \in 1..Len(c.calls) : c.calls[i].id = 0 => HasPart(e, "args")
  <2>1. CASE c.calls = <<>>
    BY <2>1
  <2>2. CASE c.calls = Calls(e)
    BY <1>3, <2>2
  <2> QED
    BY <2>1, <2>2 DEF Made
<1>6. e.parts = <<>> => \A k : ~HasPart(e, k)
  BY DEF HasPart
<1>7. e.parts = <<>> => c.calls = <<>>
  BY <1>3 DEF Made
<1> QED
  BY <1>4, <1>5, <1>6, <1>7 DEF ChunkOK

(* The pieces of an event follow those sent before. *)
Extended(e, n) == sent \o [i \in DOMAIN e.parts |-> [kind |-> e.parts[i], event |-> n]]

(* What was sent stays in front of the pieces of a new event. *)
LEMMA Longer ==
  ASSUME sent \in Seq(Piece), NEW e, e.parts \in Seq(Kind), NEW n, NEW t,
         t = Extended(e, n)
  PROVE  /\ Len(sent) \in Nat /\ Len(e.parts) \in Nat
         /\ DOMAIN sent = 1..Len(sent)
         /\ DOMAIN t = 1..(Len(sent) + Len(e.parts)) /\ Len(t) = Len(sent) + Len(e.parts)
         /\ \A i \in 1..Len(sent) : t[i] = sent[i]
         /\ \A i \in 1..Len(e.parts) :
               t[Len(sent) + i].kind = e.parts[i] /\ t[Len(sent) + i].event = n
<1> DEFINE u == [i \in DOMAIN e.parts |-> [kind |-> e.parts[i], event |-> n]]
<1>1. Len(e.parts) \in Nat /\ DOMAIN e.parts = 1..Len(e.parts)
      /\ Len(sent) \in Nat /\ DOMAIN sent = 1..Len(sent)
  BY LenProperties
<1>2. DOMAIN u = 1..Len(e.parts) /\ Len(u) = Len(e.parts)
  BY <1>1
<1>3. \A i \in 1..Len(e.parts) : u[i] = [kind |-> e.parts[i], event |-> n]
  BY <1>1
<1>4. t = sent \o u
  BY DEF Extended
<1> DEFINE S == Piece \cup {[kind |-> k, event |-> n] : k \in Kind}
<1>9. sent \in Seq(S)
  OBVIOUS
<1>10. u \in Seq(S)
  <2>1. \A i \in 1..Len(e.parts) : u[i] \in S
    <3> TAKE i \in 1..Len(e.parts)
    <3>1. e.parts[i] \in Kind
      OBVIOUS
    <3> HIDE DEF u
    <3> QED
      BY <1>3, <3>1
  <2>2. u = [i \in 1..Len(e.parts) |-> u[i]]
    BY <1>1
  <2> HIDE DEF S, u
  <2>3. u \in [1..Len(e.parts) -> S]
    BY <2>1, <2>2
  <2> QED
    BY <1>1, <2>3
<1>11. \A i \in 1..Len(e.parts) : u[i].kind = e.parts[i] /\ u[i].event = n
  BY <1>1
<1> HIDE DEF u, S
<1>5. /\ Len(t) = Len(sent) + Len(u) /\ t \in Seq(S)
      /\ \A i \in 1..(Len(sent) + Len(u)) :
            t[i] = IF i <= Len(sent) THEN sent[i] ELSE u[i - Len(sent)]
  BY <1>4, <1>9, <1>10, ConcatProperties
<1>6. DOMAIN t = 1..(Len(sent) + Len(e.parts)) /\ Len(t) = Len(sent) + Len(e.parts)
  BY <1>1, <1>2, <1>5, LenProperties
<1>7. \A i \in 1..Len(sent) : t[i] = sent[i]
  <2> TAKE i \in 1..Len(sent)
  <2>1. i \in 1..(Len(sent) + Len(u)) /\ i <= Len(sent)
    BY <1>1, <1>2
  <2> QED
    BY <1>5, <2>1
<1>8. ASSUME NEW i \in 1..Len(e.parts)
      PROVE  t[Len(sent) + i].kind = e.parts[i] /\ t[Len(sent) + i].event = n
  <2>1. /\ Len(sent) + i \in 1..(Len(sent) + Len(u)) /\ ~(Len(sent) + i <= Len(sent))
        /\ Len(sent) + i - Len(sent) = i
    BY <1>1, <1>2
  <2>2. t[Len(sent) + i] = u[i]
    BY <1>5, <2>1
  <2> QED
    BY <1>11, <2>2
<1> QED
  BY <1>1, <1>6, <1>7, <1>8

(* What the callback is given keeps the client's stream in order. *)
LEMMA ChunkKeepsMessages ==
  ASSUME sink = "messages", Accounts, SoundIn(w, sent),
         NEW e, Classified(e), NEW c, Made(e, c), NEW t, NEW n,
         t = Extended(e, n),
         \/ ~HasPart(e, "call") /\ ~HasPart(e, "args")
         \/ c.calls = Calls(e)
  PROVE  SoundIn(MessagesChunk(w, c), t)
<1> DEFINE y == MessagesChunk(w, c)
<1>0. /\ Unbegun(w) \/ MessagesOpen(w)
      /\ sent # <<>> /\ sent[Len(sent)].kind \in {"call", "args"} => w.open = "tool"
  BY DEF SoundIn
<1>1. /\ ChunkOK(c)
      /\ c.reasoning # 0 => HasPart(e, "thinking")
      /\ c.signature # 0 => HasPart(e, "signature")
      /\ c.text # 0 => HasPart(e, "text")
      /\ \A i \in 1..Len(c.calls) : c.calls[i].id = 0 => HasPart(e, "args")
      /\ e.parts = <<>> => /\ c.reasoning = 0 /\ c.signature = 0 /\ c.text = 0
                           /\ c.calls = <<>>
  BY ChunkIs
<1>2. e.parts = <<"args">> => ~HasPart(e, "thinking") /\ ~HasPart(e, "signature") /\ ~HasPart(e, "text")
  <2> SUFFICES ASSUME e.parts = <<"args">>
               PROVE  \A i \in 1..Len(e.parts) : e.parts[i] = "args"
    BY DEF HasPart
  <2>1. \A i \in 1..Len(<<"args">>) : <<"args">>[i] = "args"
    OBVIOUS
  <2> QED
    BY <2>1
<1>3. HasPart(e, "args") => e.parts = <<"args">> /\ w.open = "tool"
  BY <1>0 DEF Classified, LastKind
<1>4. Continues(c, w.open)
  BY <1>1, <1>2, <1>3 DEF Continues
<1>5. /\ MessagesOpen(y)
      /\ c.calls # <<>> => y.open = "tool"
      /\ c.reasoning = 0 /\ c.signature = 0 /\ c.text = 0 /\ c.calls = <<>> => y.open = w.open
  BY <1>0, <1>1, <1>4, MessagesChunkKeeps
<1> HIDE DEF y
<1>6. e.parts \in Seq(Kind) /\ sent \in Seq(Piece) /\ Numbered(e)
  BY DEF Classified, Numbered, Accounts
<1>7. /\ Len(sent) \in Nat /\ Len(e.parts) \in Nat /\ Len(t) = Len(sent) + Len(e.parts)
      /\ DOMAIN t = 1..(Len(sent) + Len(e.parts))
      /\ \A i \in 1..Len(sent) : t[i] = sent[i]
      /\ \A i \in 1..Len(e.parts) : t[Len(sent) + i].kind = e.parts[i]
  BY <1>6, Longer
<1>8. ASSUME t # <<>>, t[Len(t)].kind \in {"call", "args"} PROVE y.open = "tool"
  <2>1. CASE e.parts = <<>>
    <3>1. Len(t) = Len(sent) /\ y.open = w.open
      BY <1>1, <1>5, <1>7, <2>1
    <3>2. t = sent
      <4>2. [i \in DOMAIN e.parts |-> [kind |-> e.parts[i], event |-> n]] = <<>>
        BY <2>1
      <4> QED
        BY <1>6, <4>2, ConcatEmptySeq DEF Extended
    <3> QED
      BY <1>0, <1>8, <3>1, <3>2
  <2>2. CASE e.parts # <<>>
    <3>1. Len(e.parts) \in 1..Len(e.parts)
      BY <1>6, <2>2
    <3>2. e.parts[Len(e.parts)] \in {"call", "args"}
      BY <1>7, <1>8, <3>1
    <3>3. HasPart(e, "call") \/ HasPart(e, "args")
      BY <3>1, <3>2 DEF HasPart
    <3>4. c.calls = Calls(e)
      BY <3>3
    <3>5. Calls(e) # <<>>
      BY <1>6, <3>3, CallsAre DEF ToolKind
    <3> QED
      BY <1>5, <3>4, <3>5
  <2> QED
    BY <2>1, <2>2
<1> QED
  BY <1>5, <1>8 DEF SoundIn, y

(* The same for /v1/responses: reasoning that is not late finds its item   *)
(* open, or none begun.                                                    *)
LEMMA ChunkKeepsResponses ==
  ASSUME sink = "responses", Accounts, SoundIn(w, sent),
         NEW e, Classified(e), NEW c, Made(e, c), NEW t, NEW n,
         t = Extended(e, n)
  PROVE  SoundIn(ResponsesChunk(w, c), t)
<1> DEFINE y == ResponsesChunk(w, c)
<1> SUFFICES ASSUME ~Late(t)
             PROVE  /\ ResponsesOpen(y) /\ (y.reasoning = "closed" => y.message)
                    /\ y.message => \E i \in DOMAIN t : t[i].kind = "text"
  BY DEF SoundIn
<1>6. e.parts \in Seq(Kind) /\ sent \in Seq(Piece)
  BY DEF Classified, Numbered, Accounts
<1>7. /\ Len(sent) \in Nat /\ Len(e.parts) \in Nat /\ DOMAIN sent = 1..Len(sent)
      /\ DOMAIN t = 1..(Len(sent) + Len(e.parts))
      /\ \A i \in 1..Len(sent) : t[i] = sent[i]
      /\ \A i \in 1..Len(e.parts) : t[Len(sent) + i].kind = e.parts[i]
  BY <1>6, Longer
<1>2. \A i \in DOMAIN sent : i \in DOMAIN t /\ t[i] = sent[i]
  BY <1>7
<1>3. ~Late(sent)
  BY <1>2 DEF Late
<1>0. /\ \/ Unbegun(w)
         \/ ResponsesOpen(w) /\ (w.reasoning = "closed" => w.message)
      /\ w.message => \E i \in DOMAIN sent : sent[i].kind = "text"
  BY <1>3 DEF SoundIn
<1>1. /\ ChunkOK(c)
      /\ c.reasoning # 0 => HasPart(e, "thinking")
      /\ c.text # 0 => HasPart(e, "text")
  BY ChunkIs
<1>4. ASSUME NEW k, HasPart(e, k)
      PROVE  \E j \in DOMAIN t : j > Len(sent) /\ t[j].kind = k
  <2>1. PICK i \in 1..Len(e.parts) : e.parts[i] = k
    BY <1>4 DEF HasPart
  <2>2. Len(sent) + i \in DOMAIN t /\ Len(sent) + i > Len(sent)
    BY <1>7
  <2> QED
    BY <1>7, <2>1, <2>2
<1>5. c.reasoning # 0 => ~w.message
  <2> SUFFICES ASSUME c.reasoning # 0, w.message PROVE FALSE
    OBVIOUS
  <2>1. PICK i \in DOMAIN sent : sent[i].kind = "text"
    BY <1>0
  <2>2. PICK j \in DOMAIN t : j > Len(sent) /\ t[j].kind = "thinking"
    BY <1>1, <1>4
  <2>3. i \in DOMAIN t /\ t[i].kind = "text" /\ i < j
    BY <1>2, <1>7, <2>1, <2>2
  <2> QED
    BY <2>2, <2>3 DEF Late
<1>8. /\ ResponsesOpen(y) /\ (y.reasoning = "closed" => y.message)
      /\ y.message => w.message \/ c.text # 0
  BY <1>0, <1>1, <1>5, ResponsesChunkKeeps
<1> HIDE DEF y
<1>9. y.message => \E i \in DOMAIN t : t[i].kind = "text"
  <2>1. CASE w.message
    BY <1>0, <1>2, <2>1
  <2>2. CASE c.text # 0
    BY <1>1, <1>4, <2>2
  <2> QED
    BY <1>8, <2>1, <2>2
<1> QED
  BY <1>8, <1>9

(* A stream that gets no chunk stays as it is. *)
LEMMA NothingKeeps ==
  ASSUME Accounts, SoundIn(w, sent), NEW e, e.parts = <<>>, NEW t, NEW n,
         t = Extended(e, n)
  PROVE  SoundIn(w, t)
<1>1. [i \in DOMAIN e.parts |-> [kind |-> e.parts[i], event |-> n]] = <<>>
  OBVIOUS
<1>2. sent \in Seq(Piece)
  BY DEF Accounts
<1>3. t = sent
  BY <1>1, <1>2, ConcatEmptySeq DEF Extended
<1> QED
  BY <1>3

(* An event of the provider leaves the client's stream sound. *)
LEMMA RelayKeeps ==
  ASSUME Accounts, sink \in Sink, SoundIn(w, sent), NEW e \in Content \cup Stops \cup Frame,
         NEW t, NEW n,
         t = Extended(e, n)
  PROVE  SoundIn(IF Relayed(Chunk(e)) THEN OnChunk(w, Chunk(e).chunk) ELSE w, t)
<1> DEFINE c == Chunk(e).chunk
<1>1. /\ Classified(e)
      /\ \/ Withheld(e) /\ e.stop = "none" /\ e.parts = <<>>
         \/ Passes(e) /\ ~HasPart(e, "call") /\ ~HasPart(e, "args")
         \/ PassesCalls(e)
  BY Translated
<1>2. CASE Withheld(e) /\ e.stop = "none" /\ e.parts = <<>>
  <2>1. ~Relayed(Chunk(e))
    BY <1>2 DEF Withheld, Relayed
  <2> QED
    BY <1>2, <2>1, NothingKeeps
<1>3. CASE Passes(e) /\ ((~HasPart(e, "call") /\ ~HasPart(e, "args")) \/ PassesCalls(e))
  <2>1. /\ Relayed(Chunk(e)) /\ Made(e, c)
        /\ (~HasPart(e, "call") /\ ~HasPart(e, "args")) \/ c.calls = Calls(e)
    BY <1>3 DEF Passes, PassesCalls, Relayed
  <2> SUFFICES SoundIn(OnChunk(w, c), t)
    BY <2>1
  <2> HIDE DEF c
  <2>2. CASE sink = "chat"
    <3>1. OnChunk(w, c) = ChatChunk(w, c)
      BY <2>2 DEF OnChunk
    <3>2. ChatOpen(ChatChunk(w, c))
      BY <1>1, <2>1, <2>2, ChunkIs, ChatChunkKeeps DEF SoundIn
    <3> QED
      BY <2>2, <3>1, <3>2 DEF SoundIn
  <2>3. CASE sink = "messages"
    <3>1. OnChunk(w, c) = MessagesChunk(w, c)
      BY <2>3 DEF OnChunk
    <3> QED
      BY <1>1, <2>1, <2>3, <3>1, ChunkKeepsMessages
  <2>4. CASE sink = "responses"
    <3>1. OnChunk(w, c) = ResponsesChunk(w, c)
      BY <2>4 DEF OnChunk
    <3> QED
      BY <1>1, <2>1, <2>4, <3>1, ChunkKeepsResponses
  <2> QED
    BY <2>2, <2>3, <2>4 DEF Sink
<1> QED
  BY <1>1, <1>2, <1>3 DEF PassesCalls

(* Writing changes neither of two flags. *)
Alike(y, s) ==
    /\ {"began", "reasoning"} \subseteq DOMAIN y
    /\ y.began = s.began /\ y.reasoning = s.reasoning

(* A write does, *)
LEMMA WriteAlike ==
  ASSUME NEW s, {"began", "reasoning"} \subseteq DOMAIN s,
         NEW type, NEW at, NEW of, NEW n
  PROVE  Alike(Write(s, type, at, of, n), s)
BY DEF Write, Alike

(* closing a block, *)
LEMMA CloseAlike ==
  ASSUME NEW s, {"began", "reasoning"} \subseteq DOMAIN s
  PROVE  Alike(CloseBlock(s), s)
<1> DEFINE x == Write(s, "content_block_stop", s.index, "", 0)
           z == [x EXCEPT !.index = x.index + 1]
<1>1. Alike(x, s)
  BY WriteAlike
<1>2. CloseBlock(s) = IF s.open = "none" THEN s ELSE [x EXCEPT !.index = x.index + 1, !.open = "none"]
  BY DEF CloseBlock
<1> HIDE DEF x
<1>3. CloseBlock(s) = IF s.open = "none" THEN s ELSE [z EXCEPT !.open = "none"]
  BY <1>2
<1>4. Alike(z, s)
  BY <1>1 DEF Alike
<1> HIDE DEF z
<1>5. Alike([z EXCEPT !.open = "none"], s)
  BY <1>4 DEF Alike
<1> QED
  BY <1>3, <1>5 DEF Alike

(* opening one, *)
LEMMA OpenAlike ==
  ASSUME NEW s, {"began", "reasoning"} \subseteq DOMAIN s, NEW k, NEW n
  PROVE  Alike(OpenBlock(s, k, n), s)
<1> DEFINE c == CloseBlock(s)
           x == Write(c, "content_block_start", c.index, k, n)
<1>1. Alike(c, s)
  BY CloseAlike
<1>2. OpenBlock(s, k, n) = [x EXCEPT !.open = k]
  BY DEF OpenBlock
<1> HIDE DEF c
<1>3. Alike(x, c)
  BY <1>1, WriteAlike DEF Alike
<1> HIDE DEF x
<1> QED
  BY <1>1, <1>2, <1>3 DEF Alike

(* the end of a Messages stream, *)
LEMMA MessagesDoneAlike ==
  ASSUME NEW s, {"began", "reasoning"} \subseteq DOMAIN s, NEW f
  PROVE  Alike(MessagesDone(s, f), s)
<1> DEFINE c == CloseBlock(s)
           o == OpenBlock(c, "text", 0)
           d == CloseBlock(o)
           b == IF c.index = 0 THEN d ELSE c
           x == Write(b, "message_delta", b.index, StopReason(f), 0)
           y == Write(x, "message_stop", b.index, "", 0)
<1>1. MessagesDone(s, f) = y
  BY DEF MessagesDone, FinishMessages
<1>2. Alike(c, s)
  BY CloseAlike
<1> HIDE DEF c
<1>3. Alike(o, c)
  BY <1>2, OpenAlike DEF Alike
<1> HIDE DEF o
<1>4. Alike(d, o)
  BY <1>3, CloseAlike DEF Alike
<1> HIDE DEF d
<1>5. Alike(b, s)
  BY <1>2, <1>3, <1>4 DEF Alike
<1> HIDE DEF b
<1>6. Alike(x, b)
  BY <1>5, WriteAlike DEF Alike
<1> HIDE DEF x
<1>7. Alike(y, x)
  <2>1. {"began", "reasoning"} \subseteq DOMAIN x
    BY <1>6 DEF Alike
  <2>2. \A type, at, of, n : Alike(Write(x, type, at, of, n), x)
    BY <2>1, WriteAlike
  <2> QED
    BY <2>2
<1> HIDE DEF y
<1> QED
  BY <1>1, <1>5, <1>6, <1>7 DEF Alike

(* opening and closing the message, *)
LEMMA MessageAlike ==
  ASSUME NEW s, {"began", "reasoning"} \subseteq DOMAIN s
  PROVE  Alike(CloseMessage(OpenMessage(s)), s)
<1> DEFINE x == Write(s, "output_item.added", s.index, "text", 0)
           y == Write(x, "part.added", s.index, "text", 0)
           o == OpenMessage(s)
           v == Write(o, "part.done", o.index, "text", 0)
           u == Write(v, "output_item.done", o.index, "text", 0)
<1>1. o = IF s.message THEN s ELSE [y EXCEPT !.message = TRUE]
  BY DEF OpenMessage
<1>2. CloseMessage(o) = u
  BY DEF CloseMessage
<1>3. Alike(x, s)
  BY WriteAlike
<1> HIDE DEF x
<1>4. Alike(y, x)
  BY <1>3, WriteAlike DEF Alike
<1> HIDE DEF y, o
<1>5. Alike(o, s)
  BY <1>1, <1>3, <1>4 DEF Alike
<1>6. Alike(v, o)
  BY <1>5, WriteAlike DEF Alike
<1> HIDE DEF v
<1>7. Alike(u, v)
  BY <1>6, WriteAlike DEF Alike
<1> HIDE DEF u
<1>8. Alike(CloseMessage(o), s)
  BY <1>2, <1>5, <1>6, <1>7 DEF Alike
<1> QED
  BY <1>8 DEF o

(* and the end of a Responses stream. *)
LEMMA ResponsesAlike ==
  ASSUME NEW s, {"began", "reasoning"} \subseteq DOMAIN s, NEW f
  PROVE  /\ s.reasoning # "open" => Alike(ResponsesDone(s, f), s)
         /\ Alike(ResponsesBroken(s), s)
<1> DEFINE c == CloseMessage(OpenMessage(s))
<1>1. Alike(c, s)
  BY MessageAlike
<1>2. ResponsesBroken(s) = Write(c, "failed", c.index, "failed", 0)
  BY DEF ResponsesBroken
<1>3. s.reasoning # "open" => ResponsesDone(s, f) = Write(c, "completed", c.index, Status(f), 0)
  BY DEF ResponsesDone, CloseReasoning
<1> HIDE DEF c
<1>4. /\ Alike(Write(c, "failed", c.index, "failed", 0), c)
      /\ Alike(Write(c, "completed", c.index, Status(f), 0), c)
  BY <1>1, WriteAlike DEF Alike
<1> QED
  BY <1>1, <1>2, <1>3, <1>4 DEF Alike

(* The ends of a stream of chunks. *)
LEMMA ChatEnds ==
  ASSUME NEW s, ChatOpen(s), NEW type \in {"[DONE]", "error"}
  PROVE  ChatEnded(Write(s, type, 0, "", 0), type)
<1> DEFINE e == [type |-> type, at |-> 0, of |-> "", n |-> 0]
           y == Write(s, type, 0, "", 0)
<1>1. e \in ClientEvent /\ e.type = type /\ e.at = 0 /\ e.of = "" /\ e.n = 0
  BY DEF ClientEvent, Types, Names
<1> HIDE DEF e
<1>2. y = Write(s, e.type, e.at, e.of, e.n)
  BY <1>1
<1> HIDE DEF y
<1>3. s \in Writer /\ s.out \in Seq(ClientEvent)
  BY DEF ChatOpen, Writer
<1>4. y \in Writer /\ y.out = Append(s.out, e)
  BY <1>1, <1>2, <1>3, Written
<1>5. /\ y.out # <<>> /\ y.out[Len(y.out)] = e /\ Len(y.out) = Len(s.out) + 1
      /\ \A i \in 1..Len(s.out) : y.out[i] = s.out[i]
  <2>1. e \in ClientEvent
    BY <1>1
  <2>2. /\ Append(s.out, e) # <<>> /\ Append(s.out, e)[Len(Append(s.out, e))] = e
        /\ Len(Append(s.out, e)) = Len(s.out) + 1
        /\ \A i \in 1..Len(s.out) : Append(s.out, e)[i] = s.out[i]
    BY <1>3, <2>1, OneMore
  <2> QED
    BY <1>4, <2>2
<1>6. Len(s.out) \in Nat /\ y.out \in Seq(ClientEvent)
  BY <1>3, <1>4 DEF Writer
<1>7. ASSUME NEW i \in 1..(Len(y.out) - 1) PROVE y.out[i].type = "chunk"
  <2>1. i \in 1..Len(s.out)
    BY <1>5, <1>6
  <2> QED
    BY <1>5, <2>1 DEF ChatOpen
<1> QED
  BY <1>1, <1>5, <1>6, <1>7 DEF ChatEnded, y

(* The end of a stream that is complete. *)
LEMMA CompleteEnds ==
  ASSUME sink \in Sink, NEW s, NEW t, SoundIn(s, t), NEW f
  PROVE  LET y == Complete(s, f)
         IN  /\ sink = "chat" => ChatEnded(y, "[DONE]")
             /\ sink = "messages" => y.began = FALSE \/ MessagesEnded(y, f)
             /\ sink = "responses" =>
                    \/ Late(t) \/ y.began = FALSE
                    \/ ResponsesEnded(y, "completed", Status(f))
<1> DEFINE y == Complete(s, f)
<1>0. Unbegun(s) => /\ {"began", "reasoning"} \subseteq DOMAIN s
                    /\ s.began = FALSE /\ s.reasoning = "none"
  BY DEF Unbegun
<1>1. ASSUME sink = "chat" PROVE ChatEnded(y, "[DONE]")
  <2>1. y = Write(s, "[DONE]", 0, "", 0)
    BY <1>1 DEF Complete
  <2>2. ChatOpen(s) /\ "[DONE]" \in {"[DONE]", "error"}
    BY <1>1 DEF SoundIn
  <2> HIDE DEF y
  <2> QED
    BY <2>1, <2>2, ChatEnds
<1>2. ASSUME sink = "messages" PROVE y.began = FALSE \/ MessagesEnded(y, f)
  <2>1. y = MessagesDone(s, f)
    BY <1>2 DEF Complete
  <2>2. Unbegun(s) \/ MessagesOpen(s)
    BY <1>2 DEF SoundIn
  <2> HIDE DEF y
  <2> QED
    BY <1>0, <2>1, <2>2, MessagesDoneAlike, MessagesDoneEnds DEF Alike
<1>3. ASSUME sink = "responses", ~Late(t)
      PROVE  y.began = FALSE \/ ResponsesEnded(y, "completed", Status(f))
  <2>1. y = ResponsesDone(s, f)
    BY <1>3 DEF Complete
  <2>2. Unbegun(s) \/ ResponsesOpen(s)
    BY <1>3 DEF SoundIn
  <2> HIDE DEF y
  <2>3. CASE Unbegun(s)
    <3>1. Alike(ResponsesDone(s, f), s)
      BY <1>0, <2>3, ResponsesAlike
    <3> QED
      BY <1>0, <2>1, <2>3, <3>1 DEF Alike
  <2>4. CASE ResponsesOpen(s)
    BY <2>1, <2>4, ResponsesDoneEnds
  <2> QED
    BY <2>2, <2>3, <2>4
<1> QED
  BY <1>1, <1>2, <1>3

(* The end of a stream that breaks after its first chunk. *)
LEMMA BreakEnds ==
  ASSUME sink \in Sink, NEW s, NEW t, SoundIn(s, t), s.began, NEW f
  PROVE  LET y == Break(s, f)
         IN  /\ sink = "chat" => ChatEnded(y, "error")
             /\ sink = "messages" => MessagesEnded(y, f)
             /\ sink = "responses" =>
                    \/ Late(t) \/ y.reasoning = "open"
                    \/ ResponsesEnded(y, "failed", "failed")
<1> DEFINE y == Break(s, f)
<1>0. ~Unbegun(s)
  BY DEF Unbegun
<1>1. ASSUME sink = "chat" PROVE ChatEnded(y, "error")
  <2>1. y = Write(s, "error", 0, "", 0)
    BY <1>1 DEF Break
  <2>2. ChatOpen(s) /\ "error" \in {"[DONE]", "error"}
    BY <1>1 DEF SoundIn
  <2> HIDE DEF y
  <2> QED
    BY <2>1, <2>2, ChatEnds
<1>2. ASSUME sink = "messages" PROVE MessagesEnded(y, f)
  <2>1. y = MessagesBroken(s, f)
    BY <1>2 DEF Break
  <2>2. MessagesOpen(s)
    BY <1>0, <1>2 DEF SoundIn
  <2> HIDE DEF y
  <2> QED
    BY <2>1, <2>2, MessagesBrokenEnds
<1>3. ASSUME sink = "responses", ~Late(t)
      PROVE  y.reasoning = "open" \/ ResponsesEnded(y, "failed", "failed")
  <2>1. y = ResponsesBroken(s)
    BY <1>3 DEF Break
  <2>2. ResponsesOpen(s)
    BY <1>0, <1>3 DEF SoundIn
  <2> HIDE DEF y
  <2>3. CASE s.reasoning = "open"
    <3>1. {"began", "reasoning"} \subseteq DOMAIN s
      BY <2>2 DEF ResponsesOpen, Writer
    <3> QED
      BY <2>1, <2>3, <3>1, ResponsesAlike DEF Alike
  <2>4. CASE s.reasoning # "open"
    BY <2>1, <2>2, <2>4, ResponsesBrokenEnds
  <2> QED
    BY <2>3, <2>4
<1> QED
  BY <1>1, <1>2, <1>3

(* No stream has begun. *)
LEMMA StreamingInit == StreamInit => Streaming
<1> SUFFICES ASSUME StreamInit PROVE Streaming
  OBVIOUS
<1>1. Unbegun(w) /\ sent = <<>> /\ outcome = "open" /\ stop = "none" /\ sink \in Sink
  BY DEF StreamInit, Unbegun
<1>2. finish = FinishReason(stop)
  BY <1>1, Finishes DEF StreamInit
<1>3. w \in Writer /\ w.out = <<>> /\ w.message = FALSE
  <2>1. <<>> \in Seq(ClientEvent)
    OBVIOUS
  <2> QED
    BY <1>1, <2>1 DEF Unbegun, Writer
<1>4. ChatOpen(w)
  BY <1>3 DEF ChatOpen
<1> QED
  BY <1>1, <1>2, <1>3, <1>4 DEF Streaming, SoundIn

(* The reason the callback keeps is the one the provider gave. *)
LEMMA ReasonKept ==
  ASSUME Accounts, Streaming, outcome = "open",
         NEW e \in Content \cup Stops \cup Frame, Receive(e)
  PROVE  /\ stop' \in {"none", "end", "limit", "tool"}
         /\ finish' = FinishReason(stop')
         /\ finish' = IF Relayed(Chunk(e)) /\ Chunk(e).chunk.finish # "none"
                      THEN Chunk(e).chunk.finish ELSE finish
<1>1. /\ Classified(e)
      /\ \/ Withheld(e) /\ e.stop = "none" /\ e.parts = <<>>
         \/ Passes(e)
  BY Translated DEF PassesCalls
<1>2. /\ stop' = IF e.stop = "none" THEN stop ELSE e.stop
      /\ finish' = IF Relayed(Chunk(e)) /\ Chunk(e).chunk.finish # "none"
                   THEN Chunk(e).chunk.finish ELSE finish
  BY Zenon DEF Receive, Chunk
<1>3. finish = FinishReason(stop) /\ stop \in {"none", "end", "limit", "tool"}
  BY DEF Streaming
<1>4. e.stop \in {"none", "end", "limit", "tool"}
  BY <1>1 DEF Classified
<1>5. CASE Withheld(e) /\ e.stop = "none"
  BY <1>2, <1>3, <1>5 DEF Withheld, Relayed
<1>6. CASE Passes(e)
  <2>1. Relayed(Chunk(e)) /\ Chunk(e).chunk.finish = FinishReason(e.stop)
    BY <1>6 DEF Passes, Made, Relayed
  <2>2. /\ e.stop = "none" => FinishReason(e.stop) = "none"
        /\ e.stop # "none" => FinishReason(e.stop) # "none"
    BY <1>4, Finishes
  <2> QED
    BY <1>2, <1>3, <1>4, <2>1, <2>2
<1> QED
  BY <1>1, <1>2, <1>5, <1>6

(* An event of the provider, with the end of the stream if it is the last. *)
LEMMA ReceiveKeepsForm ==
  ASSUME Accounts, Streaming, NEW e \in Content \cup Stops \cup Frame, Receive(e)
  PROVE  Streaming'
<1> DEFINE s == IF Relayed(Chunk(e)) THEN OnChunk(w, Chunk(e).chunk) ELSE w
           t == Extended(e, events + 1)
<1>1. outcome = "open" /\ sink \in Sink /\ SoundIn(w, sent)
  BY DEF Receive, Streaming
<1>2. /\ stop' \in {"none", "end", "limit", "tool"} /\ finish' = FinishReason(stop')
      /\ finish' = IF Relayed(Chunk(e)) /\ Chunk(e).chunk.finish # "none"
                   THEN Chunk(e).chunk.finish ELSE finish
  BY <1>1, ReasonKept
<1>3. SoundIn(s, t)
  BY <1>1, RelayKeeps
<1>4. /\ sink' = sink /\ events' = events + 1
      /\ sent' = sent \o [i \in DOMAIN e.parts |-> [kind |-> e.parts[i], event |-> events']]
  BY DEF Receive
<1>5. sent' = t
  BY <1>4 DEF Extended
<1>6. /\ w' = IF Chunk(e).done
              THEN Complete(s, IF Relayed(Chunk(e)) /\ Chunk(e).chunk.finish # "none"
                               THEN Chunk(e).chunk.finish ELSE finish)
              ELSE s
      /\ outcome' = IF Chunk(e).done THEN "ok" ELSE "open"
  BY Zenon DEF Receive, Chunk
<1>7. w' = IF Chunk(e).done THEN Complete(s, finish') ELSE s
  BY <1>2, <1>6
<1>8. CASE ~Chunk(e).done
  <2>1. w' = s /\ outcome' = "open"
    BY <1>6, <1>7, <1>8
  <2>2. SoundIn(w', t)
    BY <1>3, <2>1
  <2>3. SoundIn(w, sent)'
    BY <1>4, <1>5, <2>2 DEF SoundIn
  <2> QED
    BY <1>1, <1>2, <1>4, <2>1, <2>3 DEF Streaming
<1>9. CASE Chunk(e).done
  <2>1. w' = Complete(s, finish') /\ outcome' = "ok"
    BY <1>6, <1>7, <1>9
  <2> HIDE DEF s, t
  <2>2. /\ sink = "chat" => ChatEnded(w', "[DONE]")
        /\ sink = "messages" => w'.began = FALSE \/ MessagesEnded(w', finish')
        /\ sink = "responses" =>
               \/ Late(t) \/ w'.began = FALSE
               \/ ResponsesEnded(w', "completed", Status(finish'))
    BY <1>1, <1>3, <2>1, CompleteEnds
  <2>3. Ended'
    BY <1>2, <1>4, <1>5, <2>1, <2>2 DEF Ended, Irregular, LateReasoning, Late
  <2> QED
    BY <1>1, <1>2, <1>4, <2>1, <2>3 DEF Streaming
<1> QED
  BY <1>8, <1>9

(* The provider closes the stream. *)
LEMMA CloseKeepsForm ==
  ASSUME Streaming, UpstreamCloses
  PROVE  Streaming'
<1>1. /\ outcome = "open" /\ sink \in Sink /\ SoundIn(w, sent)
      /\ stop \in {"none", "end", "limit", "tool"} /\ finish = FinishReason(stop)
  BY DEF UpstreamCloses, Streaming
<1>2. /\ w' = Complete(w, finish) /\ outcome' = "ok"
      /\ UNCHANGED <<sink, sent, stop, finish>>
  BY DEF UpstreamCloses, provider
<1>3. /\ sink = "chat" => ChatEnded(w', "[DONE]")
      /\ sink = "messages" => w'.began = FALSE \/ MessagesEnded(w', finish)
      /\ sink = "responses" =>
             \/ Late(sent) \/ w'.began = FALSE
             \/ ResponsesEnded(w', "completed", Status(finish))
  BY <1>1, <1>2, CompleteEnds
<1>4. Ended'
  BY <1>1, <1>2, <1>3 DEF Ended, Irregular, LateReasoning, Late
<1> QED
  BY <1>1, <1>2, <1>4 DEF Streaming

(* The stream breaks, or its time is up. *)
LEMMA BreakKeepsForm ==
  ASSUME Streaming, UpstreamBreaks
  PROVE  Streaming'
<1>1. /\ outcome = "open" /\ sink \in Sink /\ SoundIn(w, sent)
      /\ stop \in {"none", "end", "limit", "tool"} /\ finish = FinishReason(stop)
  BY DEF UpstreamBreaks, Streaming
<1>2. UNCHANGED <<sink, sent, stop, finish>>
  BY DEF UpstreamBreaks, provider
<1>3. CASE w.began
  <2>1. w' = Break(w, finish) /\ outcome' = "error"
    BY <1>3 DEF UpstreamBreaks
  <2>3. /\ sink = "chat" => ChatEnded(w', "error")
        /\ sink = "messages" => MessagesEnded(w', finish)
        /\ sink = "responses" =>
               \/ Late(sent) \/ w'.reasoning = "open"
               \/ ResponsesEnded(w', "failed", "failed")
    BY <1>1, <1>3, <2>1, BreakEnds
  <2>4. Ended'
    BY <1>1, <1>2, <2>1, <2>3 DEF Ended, Irregular, LateReasoning, BrokenInReasoning, Late
  <2> QED
    BY <1>1, <1>2, <2>1, <2>4 DEF Streaming
<1>4. CASE ~w.began
  <2>1. w' = w /\ outcome' = "failover"
    BY <1>4 DEF UpstreamBreaks
  <2>2. sink = "chat" => ChatOpen(w)
    BY <1>1 DEF SoundIn
  <2>3. sink = "messages" => w.out = <<>>
    BY <1>1, <1>4 DEF SoundIn, Unbegun, MessagesOpen
  <2>4. sink = "responses" => Late(sent) \/ w.out = <<>>
    BY <1>1, <1>4 DEF SoundIn, Unbegun, ResponsesOpen
  <2>5. Ended'
    BY <1>1, <1>2, <2>1, <2>2, <2>3, <2>4
    DEF Ended, Sink, Irregular, LateReasoning, Late
  <2> QED
    BY <1>1, <1>2, <2>1, <2>5 DEF Streaming
<1> QED
  BY <1>3, <1>4

(* The callback and the stream of its client agree in every state. *)
THEOREM StreamsSound == StreamSpec => [](Accounts /\ Streaming)
<1>1. Accounts /\ Streaming /\ [StreamNext]_streamVars => Streaming'
  <2> SUFFICES ASSUME Accounts, Streaming, [StreamNext]_streamVars PROVE Streaming'
    OBVIOUS
  <2>1. CASE \E e \in Content \cup Stops \cup Frame : Receive(e)
    BY <2>1, ReceiveKeepsForm
  <2>2. CASE UpstreamCloses
    BY <2>2, CloseKeepsForm
  <2>3. CASE UpstreamBreaks
    BY <2>3, BreakKeepsForm
  <2>4. CASE UNCHANGED streamVars
    <3>1. UNCHANGED <<sink, sent, stop, w, finish, outcome>>
      BY <2>4 DEF streamVars, provider
    <3> QED
      BY <3>1 DEF Streaming, SoundIn, Ended, Irregular, LateReasoning, BrokenInReasoning
  <2> QED
    BY <2>1, <2>2, <2>3, <2>4 DEF StreamNext
<1> QED
  BY <1>1, AccountsHold, StreamingInit, PTL DEF StreamSpec

(* What the client of a stream receives is a stream of its endpoint,       *)
(* whichever of the four protocols the provider speaks, however long the   *)
(* answer and in whatever order its thinking, texts and calls come: the    *)
(* callbacks of commitStream, handleAnthropicStreamWithRetry and           *)
(* handleResponsesStreamWithRetry number and nest blocks and items, close  *)
(* them all and tell the reason, but for what Irregular names.             *)
THEOREM StreamsWellFormed == StreamSpec => []WellFormed
  BY StreamsSound, FormFollows, PTL

----------------------------------------------------------------------------
(* The pieces of the stream.                                               *)

(* What a client of s received are the pieces in N, each before those it   *)
(* must come before; 0 is no piece.                                        *)
Got(out) == {out[i].n : i \in 1..Len(out)} \cup {0}
Delivers(s, N, R) ==
    /\ s \in Writer
    /\ Got(s.out) = N
    /\ \A i, j \in 1..Len(s.out) : i < j => <<s.out[i].n, s.out[j].n>> \in R

(* No piece has no place. *)
Neutral(R) == \A n \in Nat : <<0, n>> \in R /\ <<n, 0>> \in R

(* The number n may be delivered after those in N. *)
Follow(N, n, R) == \A m \in N : <<m, n>> \in R

(* The pieces received are numbers. *)
LEMMA GotNumbers ==
  ASSUME NEW s, NEW N, NEW R, Delivers(s, N, R)
  PROVE  0 \in N /\ N \subseteq Nat
<1>1. s.out \in Seq(ClientEvent) /\ \A i \in 1..Len(s.out) : s.out[i] \in ClientEvent
  BY DEF Delivers, Writer
<1>2. \A i \in 1..Len(s.out) : s.out[i].n \in Nat
  BY <1>1 DEF ClientEvent
<1> QED
  BY <1>2 DEF Delivers, Got

(* What is delivered is what was written. *)
LEMMA SameDelivers ==
  ASSUME NEW s, NEW N, NEW R, Delivers(s, N, R), NEW y \in Writer, y.out = s.out
  PROVE  Delivers(y, N, R)
BY DEF Delivers

(* One more event delivers its piece. *)
LEMMA WriteDelivers ==
  ASSUME NEW s, NEW N, NEW R, Delivers(s, N, R),
         NEW type \in Types, NEW at \in Nat, NEW of \in Names, NEW n \in Nat,
         Follow(N, n, R)
  PROVE  /\ Delivers(Write(s, type, at, of, n), N \cup {n}, R)
         /\ Same(Write(s, type, at, of, n), s)
<1> DEFINE y == Write(s, type, at, of, n)
<1>1. PICK e \in ClientEvent : e.type = type /\ e.at = at /\ e.of = of /\ e.n = n
  BY AnEvent, SMTT(60)
<1>2. /\ s \in Writer /\ s.out \in Seq(ClientEvent) /\ Got(s.out) = N
      /\ \A i, j \in 1..Len(s.out) : i < j => <<s.out[i].n, s.out[j].n>> \in R
  BY DEF Delivers, Writer
<1>3. y \in Writer /\ y.out = Append(s.out, e) /\ Same(y, s)
  <2>1. y = Write(s, e.type, e.at, e.of, e.n)
    BY <1>1
  <2> HIDE DEF y
  <2> QED
    BY <1>2, <2>1, Written DEF Same
<1> HIDE DEF y
<1> DEFINE L == Len(s.out)
<1>4. /\ L \in Nat /\ Len(y.out) = L + 1
      /\ \A i \in 1..L : y.out[i] = s.out[i]
      /\ y.out[L + 1] = e
  BY <1>2, <1>3
<1> HIDE DEF L
<1>5. 1..(L + 1) = (1..L) \cup {L + 1}
  BY <1>4
<1>6. Got(y.out) = N \cup {n}
  <2>1. {y.out[i].n : i \in 1..(L + 1)} = {s.out[i].n : i \in 1..L} \cup {n}
    BY <1>1, <1>4, <1>5
  <2> QED
    BY <1>2, <1>4, <2>1 DEF Got, L
<1>7. \A i \in 1..L : <<s.out[i].n, n>> \in R
  BY <1>2 DEF Got, L, Follow
<1>8. ASSUME NEW i \in 1..Len(y.out), NEW j \in 1..Len(y.out), i < j
      PROVE  <<y.out[i].n, y.out[j].n>> \in R
  <2>1. CASE j = L + 1
    <3>1. i \in 1..L
      BY <1>4, <1>8, <2>1
    <3> QED
      BY <1>1, <1>4, <1>7, <2>1, <3>1
  <2>2. CASE j # L + 1
    <3>1. i \in 1..L /\ j \in 1..L
      BY <1>4, <1>8, <2>2
    <3> QED
      BY <1>2, <1>4, <1>8, <3>1 DEF L
  <2> QED
    BY <2>1, <2>2
<1> QED
  BY <1>3, <1>6, <1>8 DEF Delivers, y

(* One without a piece delivers none. *)
LEMMA NothingDelivers ==
  ASSUME NEW s, NEW N, NEW R, Neutral(R), Delivers(s, N, R),
         NEW type \in Types, NEW at \in Nat, NEW of \in Names
  PROVE  /\ Delivers(Write(s, type, at, of, 0), N, R)
         /\ Same(Write(s, type, at, of, 0), s)
<1>1. 0 \in N /\ N \subseteq Nat
  BY GotNumbers
<1>2. Follow(N, 0, R) /\ N \cup {0} = N
  BY <1>1 DEF Follow, Neutral
<1> DEFINE zero == 0
<1>3. zero \in Nat /\ Follow(N, zero, R)
  BY <1>2
<1> HIDE DEF zero
<1>4. /\ Delivers(Write(s, type, at, of, zero), N \cup {zero}, R)
      /\ Same(Write(s, type, at, of, zero), s)
  BY <1>3, WriteDelivers
<1> QED
  BY <1>2, <1>4 DEF zero

(* The flags of the callback. *)
LEMMA FlagsAre ==
  ASSUME NEW s \in Writer
  PROVE  /\ s.index \in Nat /\ s.began \in BOOLEAN /\ s.message \in BOOLEAN
         /\ s.open \in {"none", "thinking", "text", "tool"}
         /\ s.reasoning \in {"none", "open", "closed"}
BY DEF Writer

(* Moving a flag leaves what is delivered. *)
LEMMA FlagDelivers ==
  ASSUME NEW s, NEW N, NEW R, Delivers(s, N, R)
  PROVE  /\ Delivers([s EXCEPT !.began = TRUE], N, R)
         /\ [s EXCEPT !.began = TRUE].began = TRUE
         /\ Delivers([s EXCEPT !.message = TRUE], N, R)
         /\ Delivers([s EXCEPT !.reasoning = "open"], N, R)
         /\ Delivers([s EXCEPT !.reasoning = "closed"], N, R)
         /\ Delivers([s EXCEPT !.index = s.index + 1], N, R)
<1>1. s \in Writer
  BY DEF Delivers
<1>2. [s EXCEPT !.began = TRUE] \in Writer /\ [s EXCEPT !.began = TRUE].out = s.out
      /\ [s EXCEPT !.began = TRUE].began = TRUE
  BY <1>1 DEF Writer
<1>3. [s EXCEPT !.message = TRUE] \in Writer /\ [s EXCEPT !.message = TRUE].out = s.out
  BY <1>1 DEF Writer
<1>4. /\ [s EXCEPT !.reasoning = "open"] \in Writer
      /\ [s EXCEPT !.reasoning = "open"].out = s.out
  BY <1>1 DEF Writer
<1>5. /\ [s EXCEPT !.reasoning = "closed"] \in Writer
      /\ [s EXCEPT !.reasoning = "closed"].out = s.out
  BY <1>1 DEF Writer
<1>6. /\ [s EXCEPT !.index = s.index + 1] \in Writer
      /\ [s EXCEPT !.index = s.index + 1].out = s.out
  BY <1>1 DEF Writer
<1> QED
  BY <1>2, <1>3, <1>4, <1>5, <1>6, SameDelivers

LEMMA BlockDelivers ==
  ASSUME NEW s, NEW N, NEW R, Delivers(s, N, R), NEW k \in BlockKind \cup {"none"}
  PROVE  Delivers([s EXCEPT !.open = k], N, R)
<1> DEFINE y == [s EXCEPT !.open = k]
<1>1. y \in Writer /\ y.out = s.out
  BY DEF Delivers, Writer, BlockKind
<1> HIDE DEF y
<1>2. Delivers(y, N, R)
  BY <1>1, SameDelivers
<1> QED
  BY <1>2 DEF y

(* Closing a block and opening one, which carries the id of a call. *)
LEMMA CloseDelivers ==
  ASSUME NEW s, NEW N, NEW R, Neutral(R), Delivers(s, N, R)
  PROVE  Delivers(CloseBlock(s), N, R)
<1>1. CASE s.open = "none"
  BY <1>1 DEF CloseBlock
<1>2. CASE s.open # "none"
  <2> DEFINE x == Write(s, "content_block_stop", s.index, "", 0)
             z == [x EXCEPT !.index = x.index + 1]
  <2>1. Delivers(x, N, R)
    <3>1. s.index \in Nat /\ "content_block_stop" \in Types /\ "" \in Names
      BY FlagsAre DEF Delivers, Types, Names
    <3> QED
      BY <3>1, NothingDelivers
  <2>2. CloseBlock(s) = [x EXCEPT !.index = x.index + 1, !.open = "none"]
    BY <1>2 DEF CloseBlock
  <2> HIDE DEF x
  <2>3. CloseBlock(s) = [z EXCEPT !.open = "none"]
    BY <2>1, <2>2 DEF Delivers, Writer
  <2>4. Delivers(z, N, R)
    BY <2>1, FlagDelivers
  <2> HIDE DEF z
  <2> DEFINE k == "none"
  <2>5. k \in BlockKind \cup {"none"}
    OBVIOUS
  <2> HIDE DEF k
  <2>6. Delivers([z EXCEPT !.open = k], N, R)
    BY <2>4, <2>5, BlockDelivers
  <2> QED
    BY <2>3, <2>6 DEF k
<1> QED
  BY <1>1, <1>2

LEMMA OpenDelivers ==
  ASSUME NEW s, NEW N, NEW R, Neutral(R), Delivers(s, N, R), NEW k \in BlockKind,
         NEW n \in Nat, Follow(N, n, R)
  PROVE  Delivers(OpenBlock(s, k, n), N \cup {n}, R)
<1> DEFINE c == CloseBlock(s)
           x == Write(c, "content_block_start", c.index, k, n)
<1>1. Delivers(c, N, R)
  BY CloseDelivers
<1>2. OpenBlock(s, k, n) = [x EXCEPT !.open = k]
  BY DEF OpenBlock
<1> HIDE DEF c
<1>3. c.index \in Nat /\ "content_block_start" \in Types /\ k \in Names
  BY <1>1, FlagsAre DEF Delivers, Types, Names, BlockKind
<1>4. Delivers(x, N \cup {n}, R)
  BY <1>1, <1>3, WriteDelivers
<1> HIDE DEF x
<1> QED
  BY <1>2, <1>4, BlockDelivers

(* A delta, in the block it belongs in. *)
LEMMA DeltaDelivers ==
  ASSUME NEW s, NEW N, NEW R, Delivers(s, N, R), NEW k \in BlockKind,
         NEW n \in Nat, Follow(N, n, R)
  PROVE  Delivers(Delta(s, k, n), N \cup {n}, R)
<1>1. s.index \in Nat /\ "content_block_delta" \in Types /\ k \in Names
  BY FlagsAre DEF Delivers, Types, Names, BlockKind
<1> QED
  BY <1>1, WriteDelivers DEF Delta

LEMMA IntoDelivers ==
  ASSUME NEW s, NEW N, NEW R, Neutral(R), Delivers(s, N, R), NEW k \in BlockKind,
         NEW n \in Nat, Follow(N, n, R)
  PROVE  Delivers(IntoBlock(s, k, n), N \cup {n}, R)
<1>0. 0 \in N /\ N \subseteq Nat
  BY GotNumbers
<1>1. CASE n = 0
  <2>1. N \cup {n} = N /\ IntoBlock(s, k, n) = s
    BY <1>0, <1>1 DEF IntoBlock
  <2> QED
    BY <2>1
<1>2. CASE n # 0
  <2> DEFINE o == IF s.open = k THEN s ELSE OpenBlock(s, k, 0)
             zero == 0
  <2>1. Delivers(o, N, R)
    <3>1. zero \in Nat /\ Follow(N, zero, R) /\ N \cup {zero} = N
      BY <1>0 DEF Follow, Neutral
    <3> HIDE DEF zero
    <3>2. Delivers(OpenBlock(s, k, zero), N \cup {zero}, R)
      BY <3>1, OpenDelivers
    <3> QED
      BY <3>1, <3>2 DEF zero
  <2>2. IntoBlock(s, k, n) = Delta(o, k, n)
    BY <1>2 DEF IntoBlock
  <2> HIDE DEF o
  <2> QED
    BY <2>1, <2>2, DeltaDelivers
<1> QED
  BY <1>1, <1>2

(* A tool call. *)
LEMMA ToolCallDelivers ==
  ASSUME NEW s, NEW N, NEW R, Neutral(R), Delivers(s, N, R), NEW call \in ToolDelta,
         Follow(N, call.id, R), Follow(N \cup {call.id}, call.args, R)
  PROVE  Delivers(ToolCall(s, call), N \cup {call.id, call.args}, R)
<1> DEFINE started == IF call.id = 0 THEN s ELSE OpenBlock(s, "tool", call.id)
           M == N \cup {call.id}
<1>0. 0 \in N /\ N \subseteq Nat
  BY GotNumbers
<1>1. call.id \in Nat /\ call.args \in Nat /\ "tool" \in BlockKind
  BY DEF ToolDelta, BlockKind
<1>2. Delivers(started, M, R)
  <2>1. CASE call.id = 0
    <3>1. M = N
      BY <1>0, <2>1
    <3> HIDE DEF M
    <3> QED
      BY <2>1, <3>1
  <2>2. CASE call.id # 0
    BY <1>1, <2>2, OpenDelivers
  <2> QED
    BY <2>1, <2>2
<1>3. ToolCall(s, call) = IF call.args = 0 THEN started ELSE Delta(started, "tool", call.args)
  BY DEF ToolCall
<1>4. N \cup {call.id, call.args} = M \cup {call.args}
  OBVIOUS
<1>5. 0 \in M /\ Follow(M, call.args, R)
  BY <1>0
<1> HIDE DEF started, M
<1>6. CASE call.args = 0
  <2>1. M \cup {call.args} = M
    BY <1>5, <1>6
  <2> QED
    BY <1>2, <1>3, <1>4, <1>6, <2>1
<1>7. CASE call.args # 0
  BY <1>1, <1>2, <1>3, <1>4, <1>5, <1>7, DeltaDelivers
<1> QED
  BY <1>6, <1>7

(* Calls that may follow the pieces in N.                                  *)
CallsFollow(N, calls, R) ==
    /\ \A i \in 1..Len(calls) : /\ Follow(N, calls[i].id, R)
                                /\ Follow(N \cup {calls[i].id}, calls[i].args, R)
    /\ \A i, j \in 1..Len(calls) :
           i < j => \A m \in PiecesOf(calls[i]), n \in PiecesOf(calls[j]) : <<m, n>> \in R

(* Some pieces after each other follow when the last does. *)
LEMMA FollowBoth ==
  ASSUME NEW M, NEW N, NEW n, NEW R
  PROVE  Follow(M \cup N, n, R) <=> Follow(M, n, R) /\ Follow(N, n, R)
BY DEF Follow

(* Any callback stays one in a tool call. *)
LEMMA ToolCallTyped ==
  ASSUME NEW s \in Writer, NEW call \in ToolDelta
  PROVE  ToolCall(s, call) \in Writer
<1> DEFINE R == Nat \X Nat
           N == Got(s.out)
<1>1. \A i \in 1..Len(s.out) : s.out[i].n \in Nat
  <2>1. \A i \in 1..Len(s.out) : s.out[i] \in ClientEvent
    BY DEF Writer
  <2> QED
    BY <2>1 DEF ClientEvent
<1>2. N \subseteq Nat
  BY <1>1 DEF Got
<1>3. Delivers(s, N, R)
  BY <1>1 DEF Delivers
<1>4. call.id \in Nat /\ call.args \in Nat
  BY DEF ToolDelta
<1>5. Neutral(R) /\ Follow(N, call.id, R) /\ Follow(N \cup {call.id}, call.args, R)
  BY <1>2, <1>4 DEF Neutral, Follow
<1> HIDE DEF R, N
<1>6. Delivers(ToolCall(s, call), N \cup {call.id, call.args}, R)
  BY <1>3, <1>5, ToolCallDelivers
<1> QED
  BY <1>6 DEF Delivers

(* The tool calls of a chunk deliver their pieces. *)
LEMMA CallsDeliver ==
  ASSUME NEW s, NEW N, NEW R, Neutral(R), Delivers(s, N, R), NEW calls \in Seq(ToolDelta),
         CallsFollow(N, calls, R)
  PROVE  Delivers(Called(s, calls), N \cup PiecesIn(calls, Len(calls)), R)
<1> DEFINE L == Len(calls)
<1>1. L \in Nat /\ s \in Writer /\ \A n \in 1..L : calls[n] \in ToolDelta
  BY LenProperties DEF Delivers
<1>2. \A n \in 1..L : \A v \in Writer : ToolCall(v, calls[n]) \in Writer
  BY <1>1, ToolCallTyped
<1>3. PICK f : /\ f[0] = s
               /\ \A n \in 1..L : f[n] = ToolCall(f[n - 1], calls[n])
               /\ f[L] = Called(s, calls)
  BY <1>1, <1>2, CallsTrace
<1> DEFINE T == {n \in 0..L : Delivers(f[n], N \cup PiecesIn(calls, n), R)}
<1> HIDE DEF L
<1>4. 0 \in T
  <2>1. PiecesIn(calls, 0) = {}
    BY DEF PiecesIn
  <2>2. N \cup PiecesIn(calls, 0) = N /\ 0 \in 0..L
    BY <1>1, <2>1
  <2> QED
    BY <1>3, <2>2
<1>5. ASSUME NEW n \in 1..L, n - 1 \in T PROVE n \in T
  <2> DEFINE M == N \cup PiecesIn(calls, n - 1)
             call == calls[n]
  <2>1. Delivers(f[n - 1], M, R) /\ call \in ToolDelta
    BY <1>1, <1>5
  <2>2. PiecesIn(calls, n) = PiecesIn(calls, n - 1) \cup PiecesOf(call)
    <3>1. 1..n = (1..(n - 1)) \cup {n}
      BY <1>1
    <3> QED
      BY <3>1 DEF PiecesIn
  <2>3. ASSUME NEW k \in PiecesOf(call) PROVE Follow(PiecesIn(calls, n - 1), k, R)
    <3> SUFFICES ASSUME NEW m \in PiecesIn(calls, n - 1) PROVE <<m, k>> \in R
      BY DEF Follow
    <3>1. PICK i \in 1..(n - 1) : m \in PiecesOf(calls[i])
      BY DEF PiecesIn
    <3>2. i \in 1..L /\ i < n
      BY <1>1
    <3> QED
      BY <3>1, <3>2 DEF CallsFollow, L
  <2>4. Follow(N, call.id, R) /\ Follow(N \cup {call.id}, call.args, R)
    BY DEF CallsFollow, L
  <2>5. Follow(M, call.id, R) /\ Follow(M \cup {call.id}, call.args, R)
    BY <2>3, <2>4, FollowBoth DEF PiecesOf
  <2> HIDE DEF M, call
  <2>6. Delivers(ToolCall(f[n - 1], call), M \cup {call.id, call.args}, R)
    BY <2>1, <2>5, ToolCallDelivers
  <2>7. N \cup PiecesIn(calls, n) = M \cup {call.id, call.args}
    BY <2>2 DEF M, PiecesOf
  <2>8. f[n] = ToolCall(f[n - 1], call) /\ n \in 0..L
    BY <1>1, <1>3 DEF call
  <2> QED
    BY <2>6, <2>7, <2>8
<1>6. \A n \in 1..L : n - 1 \in T => n \in T
  BY <1>5
<1>7. L \in 0..L
  BY <1>1
<1> HIDE DEF T
<1>8. L \in T
  BY <1>1, <1>4, <1>6, <1>7, UpTo
<1> QED
  BY <1>3, <1>8 DEF T, L

(* The pieces of a chunk, and whether they may follow those in N. *)
PiecesOfChunk(c) == {c.reasoning, c.signature, c.text} \cup PiecesIn(c.calls, Len(c.calls))
ChunkFollows(N, c, R) ==
    /\ Follow(N, c.reasoning, R)
    /\ Follow(N \cup {c.reasoning}, c.signature, R)
    /\ Follow(N \cup {c.reasoning, c.signature}, c.text, R)
    /\ CallsFollow(N \cup {c.reasoning, c.signature, c.text}, c.calls, R)

(* The first event delivers nothing. *)
LEMMA BeginDelivers ==
  ASSUME NEW s, NEW N, NEW R, Neutral(R), Delivers(s, N, R),
         NEW type \in {"message_start", "created"}
  PROVE  Delivers([Write(s, type, 0, "", 0) EXCEPT !.began = TRUE], N, R)
<1> DEFINE zero == 0
           x == Write(s, type, zero, "", 0)
<1>1. zero \in Nat /\ type \in Types /\ "" \in Names
  BY DEF Types, Names
<1> HIDE DEF zero
<1>2. Delivers(x, N, R)
  BY <1>1, NothingDelivers
<1> HIDE DEF x
<1>3. Delivers([x EXCEPT !.began = TRUE], N, R)
  BY <1>2, FlagDelivers
<1> QED
  BY <1>3 DEF x, zero

(* The callback of /v1/messages delivers the pieces of a chunk. *)
LEMMA MessagesChunkDelivers ==
  ASSUME NEW s, NEW N, NEW R, Neutral(R), Delivers(s, N, R), NEW c, ChunkOK(c),
         ChunkFollows(N, c, R)
  PROVE  Delivers(MessagesChunk(s, c), N \cup PiecesOfChunk(c), R)
<1> DEFINE begun == IF s.began THEN s
                    ELSE [Write(s, "message_start", 0, "", 0) EXCEPT !.began = TRUE]
           d1 == IntoBlock(begun, "thinking", c.reasoning)
           d2 == IntoBlock(d1, "thinking", c.signature)
           d3 == IntoBlock(d2, "text", c.text)
           N1 == N \cup {c.reasoning}
           N2 == N \cup {c.reasoning, c.signature}
           N3 == N \cup {c.reasoning, c.signature, c.text}
<1>1. MessagesChunk(s, c) = Called(d3, c.calls)
  BY DEF MessagesChunk, Called
<1>2. Delivers(begun, N, R)
  <2>1. "message_start" \in {"message_start", "created"}
    OBVIOUS
  <2> QED
    BY <2>1, BeginDelivers
<1>3. /\ N1 = N \cup {c.reasoning} /\ N2 = N1 \cup {c.signature} /\ N3 = N2 \cup {c.text}
      /\ N \cup PiecesOfChunk(c) = N3 \cup PiecesIn(c.calls, Len(c.calls))
  BY DEF PiecesOfChunk
<1>4. /\ Follow(N, c.reasoning, R) /\ Follow(N1, c.signature, R)
      /\ Follow(N2, c.text, R) /\ CallsFollow(N3, c.calls, R)
      /\ c.reasoning \in Nat /\ c.signature \in Nat /\ c.text \in Nat
      /\ c.calls \in Seq(ToolDelta)
  BY DEF ChunkFollows, ChunkOK
<1>5. "thinking" \in BlockKind /\ "text" \in BlockKind
  BY DEF BlockKind
<1> HIDE DEF begun, N1, N2, N3
<1>6. Delivers(d1, N1, R)
  BY <1>2, <1>3, <1>4, <1>5, IntoDelivers
<1> HIDE DEF d1
<1>7. Delivers(d2, N2, R)
  BY <1>3, <1>4, <1>5, <1>6, IntoDelivers
<1> HIDE DEF d2
<1>8. Delivers(d3, N3, R)
  BY <1>3, <1>4, <1>5, <1>7, IntoDelivers
<1> HIDE DEF d3
<1>9. Delivers(Called(d3, c.calls), N3 \cup PiecesIn(c.calls, Len(c.calls)), R)
  BY <1>4, <1>8, CallsDeliver
<1> QED
  BY <1>1, <1>3, <1>9

(* The two items of a response. *)
LEMMA TwiceNothing ==
  ASSUME NEW s, NEW N, NEW R, Neutral(R), Delivers(s, N, R),
         NEW first \in Types, NEW second \in Types, NEW of \in Names
  PROVE  /\ Delivers(Write(Write(s, first, s.index, of, 0), second, s.index, of, 0), N, R)
         /\ Same(Write(Write(s, first, s.index, of, 0), second, s.index, of, 0), s)
<1> DEFINE x == Write(s, first, s.index, of, 0)
<1>1. s.index \in Nat
  BY FlagsAre DEF Delivers
<1>2. Delivers(x, N, R) /\ Same(x, s)
  BY <1>1, NothingDelivers
<1> HIDE DEF x
<1>3. Delivers(Write(x, second, s.index, of, 0), N, R) /\ Same(Write(x, second, s.index, of, 0), x)
  BY <1>1, <1>2, NothingDelivers
<1> DEFINE y == Write(x, second, s.index, of, 0)
<1> HIDE DEF y
<1>4. Delivers(y, N, R) /\ Same(y, s)
  BY <1>2, <1>3 DEF Same, y
<1> QED
  BY <1>4 DEF x, y

LEMMA ItemsDeliver ==
  ASSUME NEW s, NEW N, NEW R, Neutral(R), Delivers(s, N, R)
  PROVE  /\ Delivers(OpenReasoning(s), N, R) /\ Delivers(CloseReasoning(s), N, R)
         /\ Delivers(OpenMessage(s), N, R) /\ Delivers(CloseMessage(s), N, R)
<1>0. /\ {"output_item.added", "part.added", "part.done", "output_item.done"} \subseteq Types
      /\ {"reasoning", "text"} \subseteq Names
  BY DEF Types, Names
<1>1. Delivers(OpenReasoning(s), N, R)
  <2> DEFINE x == Write(Write(s, "output_item.added", s.index, "reasoning", 0),
                        "part.added", s.index, "reasoning", 0)
  <2>1. Delivers(x, N, R)
    BY <1>0, TwiceNothing
  <2>2. OpenReasoning(s) = IF s.reasoning # "none" THEN s ELSE [x EXCEPT !.reasoning = "open"]
    BY DEF OpenReasoning
  <2> HIDE DEF x
  <2>3. Delivers([x EXCEPT !.reasoning = "open"], N, R)
    BY <2>1, FlagDelivers
  <2> QED
    BY <2>2, <2>3, Zenon
<1>2. Delivers(CloseReasoning(s), N, R)
  <2> DEFINE x == Write(Write(s, "part.done", s.index, "reasoning", 0),
                        "output_item.done", s.index, "reasoning", 0)
             z == [x EXCEPT !.reasoning = "closed"]
  <2>1. Delivers(x, N, R)
    BY <1>0, TwiceNothing
  <2>2. CloseReasoning(s) = IF s.reasoning # "open" THEN s
                            ELSE [x EXCEPT !.reasoning = "closed", !.index = x.index + 1]
    BY DEF CloseReasoning
  <2> HIDE DEF x
  <2>3. z.index = x.index
    BY <2>1 DEF Delivers, Writer
  <2>4. CloseReasoning(s) = IF s.reasoning # "open" THEN s
                            ELSE [z EXCEPT !.index = z.index + 1]
    BY <2>2, <2>3
  <2>5. Delivers(z, N, R)
    BY <2>1, FlagDelivers
  <2> HIDE DEF z
  <2>6. Delivers([z EXCEPT !.index = z.index + 1], N, R)
    BY <2>5, FlagDelivers
  <2> QED
    BY <2>4, <2>6, Zenon
<1>3. Delivers(OpenMessage(s), N, R)
  <2> DEFINE x == Write(Write(s, "output_item.added", s.index, "text", 0),
                        "part.added", s.index, "text", 0)
  <2>1. Delivers(x, N, R)
    BY <1>0, TwiceNothing
  <2>2. OpenMessage(s) = IF s.message THEN s ELSE [x EXCEPT !.message = TRUE]
    BY DEF OpenMessage
  <2> HIDE DEF x
  <2>3. Delivers([x EXCEPT !.message = TRUE], N, R)
    BY <2>1, FlagDelivers
  <2> QED
    BY <2>2, <2>3, Zenon
<1>4. Delivers(CloseMessage(s), N, R)
  BY <1>0, TwiceNothing DEF CloseMessage
<1> QED
  BY <1>1, <1>2, <1>3, <1>4

(* The callback of /v1/responses delivers the reasoning and the text. *)
LEMMA ResponsesChunkDelivers ==
  ASSUME NEW s, NEW N, NEW R, Neutral(R), Delivers(s, N, R), NEW c, ChunkOK(c),
         ChunkFollows(N, c, R)
  PROVE  Delivers(ResponsesChunk(s, c), N \cup {c.reasoning, c.text}, R)
<1> DEFINE begun    == IF s.began THEN s
                       ELSE [Write(s, "created", 0, "", 0) EXCEPT !.began = TRUE]
           opening  == OpenReasoning(begun)
           reasoned == IF c.reasoning = 0 THEN begun
                       ELSE Write(opening, "delta", begun.index, "reasoning", c.reasoning)
           opened   == OpenMessage(CloseReasoning(reasoned))
           y == ResponsesChunk(s, c)
           M == N \cup {c.reasoning}
<1>1. y = IF c.text = 0 THEN reasoned
          ELSE Write(opened, "delta", opened.index, "text", c.text)
  BY DEF ResponsesChunk
<1>2. Delivers(begun, N, R)
  <2>1. "created" \in {"message_start", "created"}
    OBVIOUS
  <2> QED
    BY <2>1, BeginDelivers
<1>3. /\ c.reasoning \in Nat /\ c.text \in Nat /\ 0 \in N
      /\ "delta" \in Types /\ "reasoning" \in Names /\ "text" \in Names
  BY GotNumbers DEF ChunkOK, Types, Names
<1>4. Follow(N, c.reasoning, R) /\ Follow(M, c.text, R) /\ N \cup {c.reasoning, c.text} = M \cup {c.text}
  BY DEF ChunkFollows, Follow
<1> HIDE DEF begun
<1>5. Delivers(reasoned, M, R)
  <2>1. CASE c.reasoning = 0
    <3>1. M = N
      BY <1>3, <2>1
    <3> HIDE DEF M
    <3> QED
      BY <1>2, <2>1, <3>1
  <2>2. CASE c.reasoning # 0
    <3>1. Delivers(opening, N, R)
      BY <1>2, ItemsDeliver
    <3>2. begun.index \in Nat
      BY <1>2, FlagsAre DEF Delivers
    <3> HIDE DEF opening
    <3>3. Delivers(Write(opening, "delta", begun.index, "reasoning", c.reasoning), M, R)
      BY <1>3, <1>4, <3>1, <3>2, WriteDelivers
    <3> QED
      BY <2>2, <3>3
  <2> QED
    BY <2>1, <2>2
<1> HIDE DEF reasoned, M
<1>6. Delivers(opened, M, R)
  BY <1>5, ItemsDeliver
<1>7. opened.index \in Nat
  BY <1>6, FlagsAre DEF Delivers
<1> HIDE DEF opened, y
<1>8. CASE c.text = 0
  <2>1. M \cup {c.text} = M
    BY <1>3, <1>8 DEF M
  <2> QED
    BY <1>1, <1>4, <1>5, <1>8, <2>1 DEF y
<1>9. CASE c.text # 0
  <2>1. Delivers(Write(opened, "delta", opened.index, "text", c.text), M \cup {c.text}, R)
    BY <1>3, <1>4, <1>6, <1>7, WriteDelivers
  <2> QED
    BY <1>1, <1>4, <1>9, <2>1 DEF y
<1> QED
  BY <1>8, <1>9

(* One piece that is forwarded. *)
LEMMA CarryDelivers ==
  ASSUME NEW s, NEW N, NEW R, Neutral(R), Delivers(s, N, R), NEW n \in Nat, Follow(N, n, R)
  PROVE  Delivers(Carry(s, n), N \cup {n}, R)
<1>0. 0 \in N
  BY GotNumbers
<1>1. CASE n = 0
  <2>1. N \cup {n} = N /\ Carry(s, n) = s
    BY <1>0, <1>1 DEF Carry
  <2> QED
    BY <2>1
<1>2. CASE n # 0
  <2> DEFINE zero == 0
  <2>1. zero \in Nat /\ "chunk" \in Types /\ "" \in Names
    BY DEF Types, Names
  <2>2. Carry(s, n) = Write(s, "chunk", zero, "", n)
    BY <1>2 DEF Carry
  <2> HIDE DEF zero
  <2>3. Delivers(Write(s, "chunk", zero, "", n), N \cup {n}, R)
    BY <2>1, WriteDelivers
  <2> QED
    BY <2>2, <2>3
<1> QED
  BY <1>1, <1>2

(* All of them. *)
LEMMA ForwardDelivers ==
  ASSUME NEW s, NEW N, NEW R, Neutral(R), Delivers(s, N, R), NEW numbers \in Seq(Nat),
         \A i \in 1..Len(numbers) : Follow(N, numbers[i], R), InPairs(numbers, R)
  PROVE  Delivers(Forwarded(s, numbers), N \cup ToSet(numbers), R)
<1> DEFINE L == Len(numbers)
           upto(n) == {numbers[i] : i \in 1..n}
<1>1. L \in Nat /\ DOMAIN numbers = 1..L /\ \A n \in 1..L : numbers[n] \in Nat
  BY LenProperties
<1>2. ASSUME NEW v \in Writer, NEW n \in Nat PROVE Carry(v, n) \in Writer
  <2> DEFINE Q == Nat \X Nat
             M == Got(v.out)
  <2>1. \A i \in 1..Len(v.out) : v.out[i].n \in Nat
    <3>1. \A i \in 1..Len(v.out) : v.out[i] \in ClientEvent
      BY DEF Writer
    <3> QED
      BY <3>1 DEF ClientEvent
  <2>2. M \subseteq Nat
    BY <2>1 DEF Got
  <2>3. Delivers(v, M, Q) /\ Neutral(Q) /\ Follow(M, n, Q)
    BY <2>1, <2>2 DEF Delivers, Neutral, Follow
  <2> HIDE DEF M, Q
  <2> QED
    BY <2>3, CarryDelivers DEF Delivers
<1>3. s \in Writer /\ \A n \in 1..L : \A v \in Writer : Carry(v, numbers[n]) \in Writer
  BY <1>1, <1>2 DEF Delivers
<1>4. PICK f : /\ f[0] = s
               /\ \A n \in 1..L : f[n] = Carry(f[n - 1], numbers[n])
               /\ f[L] = Forwarded(s, numbers)
  BY <1>3, ForwardedTrace
<1> DEFINE T == {n \in 0..L : Delivers(f[n], N \cup upto(n), R)}
<1>5. 0 \in T
  <2>1. N \cup upto(0) = N /\ 0 \in 0..L
    BY <1>1
  <2> HIDE DEF upto
  <2> QED
    BY <1>4, <2>1
<1>6. ASSUME NEW n \in 1..L, n - 1 \in T PROVE n \in T
  <2> DEFINE M == N \cup upto(n - 1)
  <2>1. Delivers(f[n - 1], M, R)
    BY <1>6
  <2>2. N \cup upto(n) = M \cup {numbers[n]}
    <3>1. 1..n = (1..(n - 1)) \cup {n}
      BY <1>1
    <3> QED
      BY <3>1
  <2>3. Follow(upto(n - 1), numbers[n], R)
    <3> SUFFICES ASSUME NEW i \in 1..(n - 1) PROVE <<numbers[i], numbers[n]>> \in R
      BY DEF Follow
    <3>1. i \in 1..L /\ i < n
      BY <1>1
    <3> QED
      BY <3>1 DEF InPairs
  <2>4. Follow(M, numbers[n], R)
    BY <2>3, FollowBoth
  <2> HIDE DEF M, upto
  <2>5. Delivers(Carry(f[n - 1], numbers[n]), M \cup {numbers[n]}, R)
    BY <1>1, <2>1, <2>4, CarryDelivers
  <2>6. f[n] = Carry(f[n - 1], numbers[n]) /\ n \in 0..L
    BY <1>1, <1>4
  <2> QED
    BY <2>2, <2>5, <2>6
<1>7. \A n \in 1..L : n - 1 \in T => n \in T
  BY <1>6
<1>8. L \in 0..L
  BY <1>1
<1> HIDE DEF T
<1>9. L \in T
  BY <1>1, <1>5, <1>7, <1>8, UpTo
<1>10. upto(L) = ToSet(numbers)
  BY <1>1 DEF ToSet
<1> HIDE DEF upto
<1> QED
  BY <1>4, <1>9, <1>10 DEF T

(* The numbers of the calls, one after the other. *)
CallNumbers(calls) == FlattenSeq([i \in DOMAIN calls |-> <<calls[i].id, calls[i].args>>])

LEMMA CallNumbersAre ==
  ASSUME NEW calls \in Seq(ToolDelta), NEW N, NEW R, CallsFollow(N, calls, R), Neutral(R), 0 \in N
  PROVE  /\ CallNumbers(calls) \in Seq(Nat)
         /\ ToSet(CallNumbers(calls)) = PiecesIn(calls, Len(calls))
         /\ InPairs(CallNumbers(calls), R)
<1> DEFINE L == Len(calls)
           ss == [i \in DOMAIN calls |-> <<calls[i].id, calls[i].args>>]
<1>1. L \in Nat /\ DOMAIN calls = 1..L
  BY LenProperties
<1>2. DOMAIN ss = 1..L /\ Len(ss) = L /\ (L = 0 => ss = <<>>)
  BY <1>1
<1>3. ASSUME NEW i \in 1..L
      PROVE  /\ ss[i] \in Seq(Nat) /\ ToSet(ss[i]) = PiecesOf(calls[i])
             /\ InPairs(ss[i], R)
  <2>0. calls[i] \in ToolDelta
    OBVIOUS
  <2>1. calls[i].id \in Nat /\ calls[i].args \in Nat
    BY <2>0 DEF ToolDelta
  <2> DEFINE a == calls[i].id
             b == calls[i].args
  <2>2. ss[i] = <<a, b>>
    BY <1>1
  <2>3. <<a, b>> \in R
    BY DEF CallsFollow, Follow
  <2> HIDE DEF ss
  <2>4. PiecesOf(calls[i]) = {a, b}
    BY DEF PiecesOf
  <2> HIDE DEF a, b
  <2>5. /\ <<a, b>> \in Seq(Nat) /\ Len(<<a, b>>) = 2 /\ DOMAIN <<a, b>> = 1..2
        /\ <<a, b>>[1] = a /\ <<a, b>>[2] = b
    BY <2>1 DEF a, b
  <2>6. ToSet(<<a, b>>) = {a, b}
    BY <2>5 DEF ToSet
  <2>7. InPairs(<<a, b>>, R)
    BY <2>3, <2>5 DEF InPairs
  <2> QED
    BY <2>2, <2>4, <2>5, <2>6, <2>7
<1>4. CallNumbers(calls) = FlattenSeq(ss)
  BY DEF CallNumbers
<1> HIDE DEF ss
<1>5. \A i, j \in 1..L : i < j => \A m \in ToSet(ss[i]), n \in ToSet(ss[j]) : <<m, n>> \in R
  BY <1>3 DEF CallsFollow
<1> HIDE DEF L
<1>6. FlattenSeq(ss) \in Seq(Nat) /\ ToSet(FlattenSeq(ss)) = UNION {ToSet(ss[i]) : i \in 1..L}
  BY <1>1, <1>2, <1>3, ElementsFlat
<1>7. InPairs(FlattenSeq(ss), R)
  BY <1>1, <1>2, <1>3, <1>5, PairsFlat
<1>8. UNION {ToSet(ss[i]) : i \in 1..L} = PiecesIn(calls, L)
  BY <1>3 DEF PiecesIn
<1> QED
  BY <1>4, <1>6, <1>7, <1>8 DEF L

(* The callback of /v1/chat/completions delivers the pieces of a chunk. *)
LEMMA ChatChunkDelivers ==
  ASSUME NEW s, NEW N, NEW R, Neutral(R), Delivers(s, N, R), NEW c, ChunkOK(c),
         ChunkFollows(N, c, R)
  PROVE  Delivers(ChatChunk(s, c), N \cup PiecesOfChunk(c), R)
<1> DEFINE origin == [s EXCEPT !.began = TRUE]
           f == c.reasoning
           g == c.signature
           h == c.text
           fields == <<f, g, h>>
           rest == CallNumbers(c.calls)
           M == N \cup {f, g, h}
<1>1. ChatChunk(s, c) = Forwarded(origin, fields \o rest)
  BY DEF ChatChunk, Forwarded, CallNumbers
<1>2. Delivers(origin, N, R)
  BY FlagDelivers
<1>0. 0 \in N /\ 0 \in M
  BY GotNumbers
<1>3. f \in Nat /\ g \in Nat /\ h \in Nat /\ c.calls \in Seq(ToolDelta)
  BY DEF ChunkOK
<1>4. /\ Follow(N, f, R) /\ Follow(N \cup {f}, g, R) /\ Follow(N \cup {f, g}, h, R)
      /\ CallsFollow(M, c.calls, R)
  BY DEF ChunkFollows
<1> HIDE DEF f, g, h, origin
<1>5. /\ fields \in Seq(Nat) /\ Len(fields) = 3 /\ DOMAIN fields = 1..3
      /\ fields[1] = f /\ fields[2] = g /\ fields[3] = h
  BY <1>3
<1> HIDE DEF fields, M
<1>6. rest \in Seq(Nat) /\ ToSet(rest) = PiecesIn(c.calls, Len(c.calls)) /\ InPairs(rest, R)
  BY <1>0, <1>3, <1>4, CallNumbersAre
<1> HIDE DEF rest
<1>7. ToSet(fields) = {f, g, h} /\ InPairs(fields, R)
  <2>1. ToSet(fields) = {f, g, h}
    BY <1>5 DEF ToSet
  <2>2. <<f, g>> \in R /\ <<f, h>> \in R /\ <<g, h>> \in R
    BY <1>4 DEF Follow
  <2>3. InPairs(fields, R)
    <3> SUFFICES ASSUME NEW i \in 1..3, NEW j \in 1..3, i < j
                 PROVE  <<fields[i], fields[j]>> \in R
      BY <1>5 DEF InPairs
    <3>1. (i = 1 /\ j = 2) \/ (i = 1 /\ j = 3) \/ (i = 2 /\ j = 3)
      OBVIOUS
    <3> QED
      BY <1>5, <2>2, <3>1
  <2> QED
    BY <2>1, <2>3
<1>8. \A n \in ToSet(rest) : Follow(M, n, R)
  <2> TAKE n \in ToSet(rest)
  <2>1. PICK i \in 1..Len(c.calls) : n \in PiecesOf(c.calls[i])
    BY <1>6 DEF PiecesIn
  <2>2. Follow(M, c.calls[i].id, R) /\ Follow(M \cup {c.calls[i].id}, c.calls[i].args, R)
    BY <1>4 DEF CallsFollow
  <2> QED
    BY <2>1, <2>2, FollowBoth DEF PiecesOf
<1>9. \A n \in ToSet(fields) : Follow(N, n, R)
  BY <1>4, <1>7, FollowBoth
<1> DEFINE numbers == fields \o rest
<1>11. numbers \in Seq(Nat) /\ ToSet(numbers) = {f, g, h} \cup ToSet(rest)
  BY <1>5, <1>6, <1>7, ElementsConcat
<1>12. InPairs(numbers, R)
  <2>1. \A a \in ToSet(fields), b \in ToSet(rest) : <<a, b>> \in R
    BY <1>7, <1>8 DEF Follow, M
  <2> QED
    BY <1>5, <1>6, <1>7, <2>1, PairsConcat
<1>13. \A i \in 1..Len(numbers) : Follow(N, numbers[i], R)
  <2> HIDE DEF numbers
  <2> TAKE i \in 1..Len(numbers)
  <2>1. numbers[i] \in ToSet(numbers)
    BY <1>11, LenProperties DEF ToSet
  <2>2. \A n \in ToSet(rest) : Follow(N, n, R)
    BY <1>8, FollowBoth DEF M
  <2> QED
    BY <1>7, <1>9, <1>11, <2>1, <2>2
<1> HIDE DEF numbers
<1>14. Delivers(Forwarded(origin, numbers), N \cup ToSet(numbers), R)
  BY <1>2, <1>11, <1>12, <1>13, ForwardDelivers
<1>15. PiecesOfChunk(c) = ToSet(numbers)
  BY <1>6, <1>11 DEF PiecesOfChunk, f, g, h
<1> QED
  BY <1>1, <1>14, <1>15 DEF numbers

(* The end of a stream delivers nothing more. *)
LEMMA FinishDelivers ==
  ASSUME NEW s, NEW N, NEW R, Neutral(R), Delivers(s, N, R), NEW f
  PROVE  Delivers(FinishMessages(s, f), N, R)
<1> DEFINE x == Write(s, "message_delta", s.index, StopReason(f), 0)
<1>1. StopReason(f) \in Names
  <2>1. StopReason(f) \in {"max_tokens", "tool_use", "end_turn"}
    BY StopReasons
  <2> QED
    BY <2>1 DEF Names
<1>2. s.index \in Nat /\ {"message_delta", "message_stop"} \subseteq Types /\ "" \in Names
  BY FlagsAre DEF Delivers, Types, Names
<1>3. Delivers(x, N, R)
  BY <1>1, <1>2, NothingDelivers
<1> HIDE DEF x
<1>4. FinishMessages(s, f) = Write(x, "message_stop", s.index, "", 0)
  BY DEF FinishMessages, x
<1> QED
  BY <1>2, <1>3, <1>4, NothingDelivers

(* A block without a piece. *)
LEMMA OpenNothing ==
  ASSUME NEW s, NEW N, NEW R, Neutral(R), Delivers(s, N, R), NEW k \in BlockKind
  PROVE  Delivers(OpenBlock(s, k, 0), N, R)
<1> DEFINE zero == 0
<1>1. zero \in Nat /\ Follow(N, zero, R) /\ N \cup {zero} = N
  BY GotNumbers DEF Follow, Neutral
<1> HIDE DEF zero
<1>2. Delivers(OpenBlock(s, k, zero), N \cup {zero}, R)
  BY <1>1, OpenDelivers
<1> QED
  BY <1>1, <1>2 DEF zero

LEMMA EndsDeliver ==
  ASSUME sink \in Sink, NEW s, NEW N, NEW R, Neutral(R), Delivers(s, N, R), NEW f
  PROVE  Delivers(Complete(s, f), N, R) /\ Delivers(Break(s, f), N, R)
<1>0. "text" \in BlockKind
  BY DEF BlockKind
<1>1. CASE sink = "chat"
  <2> DEFINE zero == 0
  <2>1. zero \in Nat /\ "[DONE]" \in Types /\ "error" \in Types /\ "" \in Names
    BY DEF Types, Names
  <2>2. /\ Complete(s, f) = Write(s, "[DONE]", zero, "", 0)
        /\ Break(s, f) = Write(s, "error", zero, "", 0)
    BY <1>1 DEF Complete, Break
  <2> HIDE DEF zero
  <2>3. /\ Delivers(Write(s, "[DONE]", zero, "", 0), N, R)
        /\ Delivers(Write(s, "error", zero, "", 0), N, R)
    BY <2>1, NothingDelivers
  <2> QED
    BY <2>2, <2>3
<1>2. CASE sink = "messages"
  <2> DEFINE c == CloseBlock(s)
             o == OpenBlock(c, "text", 0)
             x == IF c.index = 0 THEN CloseBlock(o) ELSE c
             b == IF s.open = "none" THEN OpenBlock(s, "text", 0) ELSE s
  <2>1. Complete(s, f) = FinishMessages(x, f) /\ Break(s, f) = FinishMessages(CloseBlock(b), f)
    BY <1>2 DEF Complete, Break, MessagesDone, MessagesBroken
  <2>2. Delivers(c, N, R)
    BY CloseDelivers
  <2>3. Delivers(b, N, R)
    BY <1>0, OpenNothing
  <2> HIDE DEF c, b
  <2>4. Delivers(o, N, R)
    BY <1>0, <2>2, OpenNothing
  <2> HIDE DEF o
  <2>5. Delivers(CloseBlock(o), N, R) /\ Delivers(CloseBlock(b), N, R)
    BY <2>3, <2>4, CloseDelivers
  <2>6. Delivers(x, N, R)
    BY <2>2, <2>5
  <2> HIDE DEF x
  <2> QED
    BY <2>1, <2>5, <2>6, FinishDelivers
<1>3. CASE sink = "responses"
  <2> DEFINE c == CloseMessage(OpenMessage(CloseReasoning(s)))
             d == CloseMessage(OpenMessage(s))
  <2>1. /\ Complete(s, f) = Write(c, "completed", c.index, Status(f), 0)
        /\ Break(s, f) = Write(d, "failed", d.index, "failed", 0)
    BY <1>3 DEF Complete, Break, ResponsesDone, ResponsesBroken
  <2>2. Delivers(c, N, R)
    <3>1. Delivers(CloseReasoning(s), N, R)
      BY ItemsDeliver
    <3>2. Delivers(OpenMessage(CloseReasoning(s)), N, R)
      BY <3>1, ItemsDeliver
    <3> QED
      BY <3>2, ItemsDeliver
  <2>3. Delivers(d, N, R)
    <3>1. Delivers(OpenMessage(s), N, R)
      BY ItemsDeliver
    <3> QED
      BY <3>1, ItemsDeliver
  <2> HIDE DEF c, d
  <2>4. c.index \in Nat /\ d.index \in Nat
    BY <2>2, <2>3, FlagsAre DEF Delivers
  <2>5. Status(f) \in Names /\ "failed" \in Names
    BY StatusIs DEF Names
  <2>6. "completed" \in Types /\ "failed" \in Types
    BY DEF Types
  <2>7. /\ Delivers(Write(c, "completed", c.index, Status(f), 0), N, R)
        /\ Delivers(Write(d, "failed", d.index, "failed", 0), N, R)
    BY <2>2, <2>3, <2>4, <2>5, <2>6, NothingDelivers
  <2> QED
    BY <2>1, <2>7
<1> QED
  BY <1>1, <1>2, <1>3 DEF Sink

(* Each endpoint delivers what it has events for. *)
PiecesFor(c) == IF sink = "responses" THEN {c.reasoning, c.text} ELSE PiecesOfChunk(c)

LEMMA OnChunkDelivers ==
  ASSUME sink \in Sink, NEW s, NEW N, NEW R, Neutral(R), Delivers(s, N, R),
         NEW c, ChunkOK(c), ChunkFollows(N, c, R)
  PROVE  Delivers(OnChunk(s, c), N \cup PiecesFor(c), R)
<1>1. CASE sink = "chat"
  <2>1. OnChunk(s, c) = ChatChunk(s, c) /\ PiecesFor(c) = PiecesOfChunk(c)
    BY <1>1 DEF OnChunk, PiecesFor
  <2> QED
    BY <2>1, ChatChunkDelivers
<1>2. CASE sink = "messages"
  <2>1. OnChunk(s, c) = MessagesChunk(s, c) /\ PiecesFor(c) = PiecesOfChunk(c)
    BY <1>2 DEF OnChunk, PiecesFor
  <2> QED
    BY <2>1, MessagesChunkDelivers
<1>3. CASE sink = "responses"
  <2>1. OnChunk(s, c) = ResponsesChunk(s, c) /\ PiecesFor(c) = {c.reasoning, c.text}
    BY <1>3 DEF OnChunk, PiecesFor
  <2> QED
    BY <2>1, ResponsesChunkDelivers
<1> QED
  BY <1>1, <1>2, <1>3 DEF Sink

(* An event with pieces is of the type that carries them. *)
LEMMA WithParts ==
  ASSUME Accounts, NEW e \in Content \cup Stops \cup Frame, e.parts # <<>>
  PROVE  /\ e.parts \in Parts(protocol) /\ e.n = NextPiece
         /\ protocol # "google" => e.type = TypeOf(protocol, e.parts)
<1>0. protocol \in Protocol
  BY DEF Accounts
<1>1. CASE e \in Content
  <2>1. PICK q \in Parts(protocol) :
           e = Event(TypeOf(protocol, q), NextPiece, q, "none",
                     IF protocol = "google" THEN 1 ELSE 0,
                     IF protocol = "google" THEN Output ELSE 0)
    BY <1>1 DEF Content
  <2> QED
    BY <2>1 DEF Event
<1>2. CASE e \in Stops
  <2>1. CASE protocol = "openai"
    BY <1>2, <2>1 DEF Stops, Event
  <2>2. CASE protocol = "anthropic"
    BY <1>2, <2>2 DEF Stops, Event
  <2>3. CASE protocol = "google"
    <3>1. PICK r \in Reasons, q \in {<<>>} \cup Parts("google") :
             e = Event("chunk", NextPiece, q, r, 1, Output)
      BY <1>2, <2>3 DEF Stops
    <3> QED
      BY <2>3, <3>1 DEF Event
  <2>4. CASE protocol = "cohere"
    BY <1>2, <2>4 DEF Stops, Event
  <2> QED
    BY <1>0, <2>1, <2>2, <2>3, <2>4 DEF Protocol
<1>3. CASE e \in Frame
  <2>1. CASE protocol = "openai"
    <3>1. \/ e = Event("chunk", NextPiece, <<>>, "none", 1, Output)
          \/ e = Event("[DONE]", NextPiece, <<>>, "none", 0, 0)
      BY <1>3, <2>1, Zenon DEF Frame
    <3> QED
      BY <3>1 DEF Event
  <2>2. CASE protocol = "anthropic"
    <3>1. \/ e = Event("message_start", 1, <<>>, "none", 1, 0)
          \/ e = Event("message_stop", NextPiece, <<>>, "none", 0, 0)
      BY <1>3, <2>2, Zenon DEF Frame
    <3> QED
      BY <3>1 DEF Event
  <2>3. CASE protocol = "google"
    BY <1>3, <2>3, Zenon DEF Frame
  <2>4. CASE protocol = "cohere"
    <3>1. e = Event("message-start", 1, <<>>, "none", 0, 0)
      BY <1>3, <2>4, Zenon DEF Frame
    <3> QED
      BY <3>1 DEF Event
  <2> QED
    BY <1>0, <2>1, <2>2, <2>3, <2>4 DEF Protocol
<1> QED
  BY <1>1, <1>2, <1>3

(* The order in which pieces come within one event. *)
InTurn(a, b) ==
    \/ a = "thinking" /\ b = "text"
    \/ a = "text" /\ b \in ToolKind
    \/ a \in ToolKind /\ b \in ToolKind
    \/ protocol = "google" /\ b = "text"

Fits(q) ==
    /\ \A i, j \in 1..Len(q) : i < j => InTurn(q[i], q[j])
    /\ protocol = "google" => \A i \in 1..Len(q) : q[i] \notin {"thinking", "signature"}

LEMMA PartsFit ==
  ASSUME protocol \in Protocol, NEW q \in Parts(protocol)
  PROVE  /\ Fits(q)
         /\ protocol = "anthropic" => \E k : q = <<k>>
         /\ protocol = "cohere" => q \in {<<"text">>, <<"call">>, <<"args">>}
<1>1. ASSUME NEW k, q = <<k>>, protocol # "google" PROVE Fits(q)
  BY <1>1 DEF Fits
<1>2. ASSUME NEW a, NEW b, q = <<a, b>>, InTurn(a, b),
             protocol = "google" => a \notin {"thinking", "signature"} /\ b \notin {"thinking", "signature"}
      PROVE Fits(q)
  <2>1. Len(q) = 2 /\ q[1] = a /\ q[2] = b
    BY <1>2
  <2>2. \A i \in 1..Len(q) : i = 1 \/ i = 2
    BY <2>1
  <2> QED
    BY <1>2, <2>1, <2>2 DEF Fits
<1>3. CASE protocol = "openai"
  <2>1. \/ q = <<>> \/ \E k \in After(LastKind) : q = <<k>>
        \/ q \in {<<"thinking", "text">>, <<"text", "call">>, <<"text", "fn">>, <<"fn", "fn">>}
    BY <1>3 DEF Parts
  <2>2. q = <<>> => Fits(q)
    BY <1>3 DEF Fits
  <2> QED
    BY <1>1, <1>2, <1>3, <2>1, <2>2 DEF ToolKind, InTurn
<1>4. CASE protocol = "anthropic"
  BY <1>1, <1>4 DEF Parts
<1>5. CASE protocol = "google"
  <2>1. \/ q = <<"text">> \/ q = <<"fn">>
        \/ q \in {<<"text", "text">>, <<"fn", "text">>, <<"fn", "fn">>}
    BY <1>5 DEF Parts
  <2>2. ASSUME NEW k \in {"text", "fn"}, q = <<k>> PROVE Fits(q)
    BY <2>2 DEF Fits
  <2>3. q \in {<<"text", "text">>, <<"fn", "text">>, <<"fn", "fn">>} => Fits(q)
    BY <1>2, <1>5 DEF ToolKind, InTurn
  <2> QED
    BY <1>5, <2>1, <2>2, <2>3
<1>6. CASE protocol = "cohere"
  <2>1. PICK k \in After(LastKind) \ {"thinking", "signature"} : q = <<k>>
    BY <1>6 DEF Parts
  <2>2. k \in {"text", "call", "args"}
    BY DEF After
  <2>3. Fits(q) /\ q \in {<<"text">>, <<"call">>, <<"args">>}
    BY <1>1, <1>6, <2>1, <2>2
  <2> QED
    BY <1>6, <2>3
<1> QED
  BY <1>3, <1>4, <1>5, <1>6 DEF Protocol

(* Together they carry the pieces of calls. *)
LEMMA CallsCarry ==
  ASSUME NEW e, Numbered(e)
  PROVE  PiecesIn(Calls(e), Len(Calls(e))) \cup {0} = {Number(e, i) : i \in Tools(e)} \cup {0}
<1> DEFINE calls == Calls(e)
<1>1. calls \in Seq(ToolDelta) /\ ToSet(calls) = {ToolPiece(e, i) : i \in Tools(e)}
  BY CallsInTurn
<1> HIDE DEF calls
<1>2. ToSet(calls) = {calls[i] : i \in 1..Len(calls)}
  BY <1>1, LenProperties DEF ToSet
<1>3. PiecesIn(calls, Len(calls)) = UNION {PiecesOf(d) : d \in ToSet(calls)}
  BY <1>2 DEF PiecesIn
<1>4. UNION {PiecesOf(d) : d \in ToSet(calls)} = UNION {PiecesOf(ToolPiece(e, i)) : i \in Tools(e)}
  BY <1>1
<1>5. \A i \in Tools(e) : PiecesOf(ToolPiece(e, i)) \cup {0} = {0, Number(e, i)}
  BY PieceOfTool
<1> QED
  BY <1>3, <1>4, <1>5 DEF calls

(* A chunk with all the pieces of its event. *)
Whole(e, c) ==
    /\ c.reasoning = Field(e, "thinking") /\ c.signature = Field(e, "signature")
    /\ c.text = Field(e, "text") /\ c.calls = Calls(e)

(* What is not in the event is not in its chunk. *)
LEMMA NotInEvent ==
  ASSUME NEW e, Numbered(e)
  PROVE  /\ \A k : ~HasPart(e, k) => Field(e, k) = 0
         /\ Tools(e) = {} => Calls(e) = <<>>
<1>1. \A k : ~HasPart(e, k) => Field(e, k) = 0
  BY FieldLast DEF HasPart
<1> QED
  BY <1>1, CallsAre

(* An event of one piece. *)
LEMMA OnePart ==
  ASSUME NEW e, Numbered(e), NEW k, e.parts = <<k>>
  PROVE  /\ \A l : l # k => Field(e, l) = 0
         /\ k \notin ToolKind => Calls(e) = <<>>
<1>1. Len(e.parts) = 1 /\ e.parts[1] = k
  OBVIOUS
<1>2. \A i \in 1..Len(e.parts) : e.parts[i] = k
  BY <1>1
<1>3. \A l : l # k => ~HasPart(e, l)
  BY <1>2 DEF HasPart
<1>4. k \notin ToolKind => Tools(e) = {}
  BY <1>2 DEF Tools
<1> QED
  BY <1>3, <1>4, NotInEvent

(* No translator leaves out a piece of an event. *)
LEMMA WholeChunk ==
  ASSUME Accounts, NEW e \in Content \cup Stops \cup Frame
  PROVE  \/ Withheld(e) /\ e.parts = <<>>
         \/ Chunk(e).forward = TRUE /\ Whole(e, Chunk(e).chunk)
<1>0. Classified(e) /\ Numbered(e) /\ protocol \in Protocol
  BY Translated DEF Classified, Accounts
<1>1. CASE e.parts = <<>>
  <2>1. Withheld(e) \/ Passes(e)
    BY Translated DEF PassesCalls
  <2>2. /\ Field(e, "thinking") = 0 /\ Field(e, "signature") = 0 /\ Field(e, "text") = 0
        /\ Calls(e) = <<>>
    <3>1. Len(e.parts) = 0
      BY <1>1
    <3>2. (\A k : ~HasPart(e, k)) /\ Tools(e) = {}
      BY <3>1 DEF HasPart, Tools
    <3> QED
      BY <1>0, <3>2, NotInEvent
  <2> QED
    BY <1>1, <2>1, <2>2 DEF Passes, Made, Whole
<1>2. CASE e.parts # <<>>
  <2>1. e.parts \in Parts(protocol) /\ (protocol # "google" => e.type = TypeOf(protocol, e.parts))
    BY <1>2, WithParts
  <2>2. /\ Fits(e.parts)
        /\ protocol = "anthropic" => \E k : e.parts = <<k>>
        /\ protocol = "cohere" => e.parts \in {<<"text">>, <<"call">>, <<"args">>}
    BY <1>0, <2>1, PartsFit
  <2>3. CASE protocol = "openai"
    <3> DEFINE c == [reasoning |-> Field(e, "thinking"),
                     signature |-> Field(e, "signature"),
                     text |-> Field(e, "text"), calls |-> Calls(e),
                     finish |-> FinishReason(e.stop), usage |-> Reported(e)]
    <3>1. e.type # "[DONE]"
      BY <1>0, <1>2, <2>3 DEF Classified
    <3>2. Chunk(e) = Forward(c)
      BY <2>3, <3>1, Zenon DEF Chunk, TransformStreamEvent, OpenAITransform
    <3>3. Whole(e, c)
      BY DEF Whole
    <3> HIDE DEF c
    <3> QED
      BY <3>2, <3>3, Fate, Zenon
  <2>4. CASE protocol = "anthropic"
    <3>1. PICK k : e.parts = <<k>>
      BY <2>2, <2>4
    <3>2. /\ \A l : l # k => Field(e, l) = 0
          /\ k \notin ToolKind => Calls(e) = <<>>
      BY <1>0, <3>1, OnePart
    <3>3. Chunk(e) = AnthropicTransform(e)
      BY <2>4, Zenon DEF Chunk, TransformStreamEvent
    <3>4. CASE k = "call"
      <4> DEFINE c == [Blank EXCEPT !.calls = Calls(e)]
      <4>1. e.type = "content_block_start"
        BY <2>1, <2>4, <3>1, <3>4, Zenon DEF TypeOf
      <4>2. Chunk(e) = Forward(c)
        BY <3>3, <4>1, Zenon DEF AnthropicTransform
      <4>3. Whole(e, c)
        BY <3>2, <3>4 DEF Whole, Blank
      <4> HIDE DEF c
      <4> QED
        BY <4>2, <4>3, Fate, Zenon
    <3>5. CASE k # "call"
      <4> DEFINE c == [Blank EXCEPT !.reasoning = Field(e, "thinking"),
                                    !.signature = Field(e, "signature"),
                                    !.text = Field(e, "text"),
                                    !.calls = Calls(e)]
      <4>0. e.parts # <<"call">>
        <5>1. e.parts[1] = k
          BY <3>1
        <5>2. <<"call">>[1] = "call"
          OBVIOUS
        <5> QED
          BY <3>5, <5>1, <5>2
      <4>1. e.type = "content_block_delta"
        BY <2>1, <2>4, <4>0, Zenon DEF TypeOf
      <4>2. Chunk(e) = Forward(c)
        BY <3>3, <4>1, Zenon DEF AnthropicTransform
      <4>3. Whole(e, c)
        BY DEF Whole, Blank
      <4> HIDE DEF c
      <4> QED
        BY <4>2, <4>3, Fate, Zenon
    <3> QED
      BY <3>4, <3>5
  <2>5. CASE protocol = "google"
    <3> DEFINE c == [Blank EXCEPT !.text = Field(e, "text"), !.calls = Calls(e),
                                  !.finish = FinishReason(e.stop), !.usage = Usage(e)]
    <3>1. Chunk(e) = GoogleTransform(e)
      BY <2>5, Zenon DEF Chunk, TransformStreamEvent
    <3>2. GoogleTransform(e).forward = TRUE /\ GoogleTransform(e).chunk = c
      BY DEF GoogleTransform
    <3>3. Field(e, "thinking") = 0 /\ Field(e, "signature") = 0
      <4>1. ~HasPart(e, "thinking") /\ ~HasPart(e, "signature")
        BY <2>2, <2>5 DEF HasPart, Fits
      <4> QED
        BY <1>0, <4>1, NotInEvent
    <3>4. Whole(e, c)
      BY <3>3 DEF Whole, Blank
    <3> HIDE DEF c
    <3> QED
      BY <3>1, <3>2, <3>4, Zenon
  <2>6. CASE protocol = "cohere"
    <3>1. Chunk(e) = CohereTransform(e)
      BY <2>6, Zenon DEF Chunk, TransformStreamEvent
    <3>2. <<"text">> # <<"call">> /\ <<"text">> # <<"args">> /\ <<"call">> # <<"args">>
      OBVIOUS
    <3>3. ASSUME NEW k, e.parts = <<k>>
          PROVE  /\ \A l : l # k => Field(e, l) = 0
                 /\ k \notin ToolKind => Calls(e) = <<>>
      BY <1>0, <3>3, OnePart
    <3>4. CASE e.parts = <<"text">>
      <4> DEFINE c == [Blank EXCEPT !.text = Field(e, "text")]
      <4>1. e.type = "content-delta"
        BY <2>1, <2>6, <3>2, <3>4, Zenon DEF TypeOf
      <4>2. Chunk(e) = Forward(c)
        BY <3>1, <4>1, Zenon DEF CohereTransform
      <4>3. Field(e, "thinking") = 0 /\ Field(e, "signature") = 0 /\ Calls(e) = <<>>
        <5> DEFINE k == "text"
        <5>1. e.parts = <<k>> /\ k \notin ToolKind /\ "thinking" # k /\ "signature" # k
          BY <3>4 DEF ToolKind
        <5> HIDE DEF k
        <5> QED
          BY <3>3, <5>1
      <4>4. Whole(e, c)
        BY <4>3 DEF Whole, Blank
      <4> HIDE DEF c
      <4> QED
        BY <4>2, <4>4, Fate, Zenon
    <3>5. CASE e.parts \in {<<"call">>, <<"args">>}
      <4> DEFINE c == [Blank EXCEPT !.calls = Calls(e)]
      <4>1. e.type = "tool-call-start" \/ e.type = "tool-call-delta"
        <5>1. CASE e.parts = <<"call">>
          BY <2>1, <2>6, <3>2, <5>1, Zenon DEF TypeOf
        <5>2. CASE e.parts = <<"args">>
          BY <2>1, <2>6, <3>2, <5>2, Zenon DEF TypeOf
        <5> QED
          BY <3>5, <5>1, <5>2
      <4>2. Chunk(e) = Forward(c)
        BY <3>1, <4>1, Zenon DEF CohereTransform
      <4>3. Field(e, "thinking") = 0 /\ Field(e, "signature") = 0 /\ Field(e, "text") = 0
        <5>1. PICK k \in {"call", "args"} : e.parts = <<k>>
          BY <3>5
        <5> QED
          BY <3>3, <5>1
      <4>4. Whole(e, c)
        BY <4>3 DEF Whole, Blank
      <4> HIDE DEF c
      <4> QED
        BY <4>2, <4>4, Fate, Zenon
    <3> QED
      BY <2>2, <2>6, <3>4, <3>5
  <2> QED
    BY <1>0, <2>3, <2>4, <2>5, <2>6 DEF Protocol
<1> QED
  BY <1>1, <1>2

(* R puts the pieces of e after those in N and in the order of the event,  *)
(* except that text of Gemini may come first.                              *)
Arranges(R, N, e) ==
    /\ Neutral(R)
    /\ \A m \in N, i \in 1..Len(e.parts) : <<m, Number(e, i)>> \in R
    /\ \A i, j \in 1..Len(e.parts) :
           i <= j \/ (protocol = "google" /\ e.parts[i] = "text")
               => <<Number(e, i), Number(e, j)>> \in R

(* The fields of a chunk, and its calls, come in that order. *)
LEMMA ChunkInTurn ==
  ASSUME NEW e, Numbered(e), Fits(e.parts), NEW c, Whole(e, c),
         NEW N \in SUBSET Nat, NEW R, Arranges(R, N, e)
  PROVE  ChunkFollows(N, c, R)
<1> DEFINE L == Len(e.parts)
           D == {Number(e, i) : i \in 1..L} \cup {0}
           f == c.reasoning
           g == c.signature
           h == c.text
           calls == c.calls
<1>0. L \in Nat /\ (\A i \in 1..L : Number(e, i) \in Nat) /\ Neutral(R)
  BY LenProperties DEF Numbered, Number, Arranges
<1>1. \A m \in N, n \in D : <<m, n>> \in R
  BY <1>0 DEF Arranges, Neutral
<1>2. \A k : Field(e, k) \in D
  BY FieldLast
<1>3. ASSUME NEW k, NEW l, ~InTurn(l, k) PROVE <<Field(e, k), Field(e, l)>> \in R
  <2>0. Field(e, k) \in Nat /\ Field(e, l) \in Nat
    BY <1>0, <1>2
  <2>1. CASE Field(e, k) = 0 \/ Field(e, l) = 0
    BY <1>0, <2>0, <2>1 DEF Neutral
  <2>2. CASE Field(e, k) # 0 /\ Field(e, l) # 0
    <3>1. PICK i \in 1..L : e.parts[i] = k /\ Field(e, k) = Number(e, i)
      BY <2>2, FieldLast
    <3>2. PICK j \in 1..L : e.parts[j] = l /\ Field(e, l) = Number(e, j)
      BY <2>2, FieldLast
    <3>3. ~(j < i)
      BY <1>3, <3>1, <3>2 DEF Fits
    <3>4. i <= j
      BY <1>0, <3>3
    <3> QED
      BY <3>1, <3>2, <3>4 DEF Arranges
  <2> QED
    BY <2>1, <2>2
<1>4. ASSUME NEW k \in {"thinking", "signature", "text"}, NEW j \in Tools(e)
      PROVE  <<Field(e, k), Number(e, j)>> \in R
  <2>1. CASE Field(e, k) = 0
    BY <1>0, <2>1 DEF Neutral, Tools
  <2>2. CASE Field(e, k) # 0
    <3>1. PICK i \in 1..L : e.parts[i] = k /\ Field(e, k) = Number(e, i)
      BY <2>2, FieldLast
    <3>2. j \in 1..L /\ e.parts[j] \in {"call", "args", "fn"}
      BY DEF Tools, ToolKind
    <3>3. CASE j < i
      <4>1. InTurn(e.parts[j], k)
        BY <3>1, <3>2, <3>3 DEF Fits
      <4>2. protocol = "google" /\ k = "text"
        BY <3>2, <4>1 DEF InTurn, ToolKind
      <4> QED
        BY <3>1, <3>2, <4>2 DEF Arranges
    <3>4. CASE i <= j
      BY <3>1, <3>2, <3>4 DEF Arranges
    <3> QED
      BY <1>0, <3>2, <3>3, <3>4
  <2> QED
    BY <2>1, <2>2
<1>5. f = Field(e, "thinking") /\ g = Field(e, "signature") /\ h = Field(e, "text")
      /\ calls = Calls(e)
  BY DEF Whole
<1>6. <<f, g>> \in R /\ <<f, h>> \in R /\ <<g, h>> \in R
  <2>1. /\ ~InTurn("signature", "thinking") /\ ~InTurn("text", "thinking")
        /\ ~InTurn("text", "signature")
    BY DEF InTurn, ToolKind
  <2>2. <<Field(e, "thinking"), Field(e, "signature")>> \in R
    BY <1>3, <2>1
  <2>3. <<Field(e, "thinking"), Field(e, "text")>> \in R
    BY <1>3, <2>1
  <2>4. <<Field(e, "signature"), Field(e, "text")>> \in R
    BY <1>3, <2>1
  <2> QED
    BY <1>5, <2>2, <2>3, <2>4
<1>7. f \in D /\ g \in D /\ h \in D
  BY <1>2, <1>5
<1>8. \A j \in Tools(e) : <<f, Number(e, j)>> \in R /\ <<g, Number(e, j)>> \in R /\ <<h, Number(e, j)>> \in R
  BY <1>4, <1>5
<1> DEFINE M == N \cup {f, g, h}
           B == {Number(e, i) : i \in Tools(e)} \cup {0}
<1>9. /\ calls \in Seq(ToolDelta) /\ InPairs(calls, CallsBefore)
      /\ \A i \in 1..Len(calls) : PiecesOf(calls[i]) \subseteq B
  <2>1. calls \in Seq(ToolDelta) /\ InPairs(calls, CallsBefore)
        /\ ToSet(calls) = {ToolPiece(e, i) : i \in Tools(e)}
    BY <1>5, CallsInTurn
  <2> HIDE DEF calls
  <2>2. ASSUME NEW i \in 1..Len(calls) PROVE PiecesOf(calls[i]) \subseteq B
    <3>1. calls[i] \in ToSet(calls)
      BY <2>1, LenProperties DEF ToSet
    <3>2. PICK j \in Tools(e) : calls[i] = ToolPiece(e, j)
      BY <2>1, <3>1
    <3>3. PiecesOf(calls[i]) \subseteq {0, Number(e, j)}
      BY <3>2, PieceOfTool
    <3> QED
      BY <3>3
  <2> QED
    BY <2>1, <2>2
<1>10. B \subseteq D /\ D \subseteq Nat /\ 0 \in Nat
  BY <1>0 DEF Tools
<1>11. \A m \in M, n \in B : <<m, n>> \in R
  <2>1. \A n \in B : n = 0 \/ \E j \in Tools(e) : n = Number(e, j)
    OBVIOUS
  <2>2. M \subseteq Nat
    BY <1>7, <1>10
  <2>3. \A m \in M : <<m, 0>> \in R
    BY <1>0, <2>2 DEF Neutral
  <2>4. \A m \in M : m \in N \/ m = f \/ m = g \/ m = h
    OBVIOUS
  <2> QED
    BY <1>1, <1>8, <1>10, <2>1, <2>3, <2>4
<1> HIDE DEF calls, f, g, h
<1>12. ASSUME NEW m \in B, NEW n \in B, m = 0 \/ n = 0 \/ m <= n PROVE <<m, n>> \in R
  <2>1. CASE m = 0 \/ n = 0
    BY <1>0, <1>10, <2>1 DEF Neutral
  <2>2. CASE m # 0 /\ n # 0
    <3>1. PICK i \in Tools(e), j \in Tools(e) : m = Number(e, i) /\ n = Number(e, j)
      BY <2>2
    <3>2. i \in 1..L /\ j \in 1..L /\ Number(e, i) <= Number(e, j)
      BY <1>12, <2>2, <3>1 DEF Tools
    <3>3. e.n \in Nat
      BY DEF Numbered
    <3>4. i <= j
      BY <1>0, <3>2, <3>3 DEF Number
    <3> QED
      BY <3>1, <3>2, <3>4 DEF Arranges
  <2> QED
    BY <2>1, <2>2
<1> HIDE DEF B
<1>13. CallsFollow(M, calls, R)
  <2>1. ASSUME NEW i \in 1..Len(calls)
        PROVE  Follow(M, calls[i].id, R) /\ Follow(M \cup {calls[i].id}, calls[i].args, R)
    <3>1. calls[i].id \in B /\ calls[i].args \in B
      BY <1>9 DEF PiecesOf
    <3>2. <<calls[i].id, calls[i].args>> \in R
      <4>1. calls[i].id = 0 \/ calls[i].args = 0 \/ calls[i].id <= calls[i].args
        <5>1. calls[i] \in ToSet(calls) /\ ToSet(calls) = {ToolPiece(e, j) : j \in Tools(e)}
          BY <1>5, <1>9, CallsInTurn, LenProperties DEF ToSet
        <5>2. PICK j \in Tools(e) : calls[i] = ToolPiece(e, j)
          BY <5>1
        <5>3. calls[i].id \in {0, Number(e, j)} /\ calls[i].args \in {0, Number(e, j)}
          BY <5>2, PieceOfTool DEF PiecesOf
        <5>4. Number(e, j) \in Nat
          BY <1>0 DEF Tools
        <5> QED
          BY <5>3, <5>4
      <4> QED
        BY <1>12, <3>1, <4>1
    <3> QED
      BY <1>11, <3>1, <3>2 DEF Follow
  <2>2. ASSUME NEW i \in 1..Len(calls), NEW j \in 1..Len(calls), i < j,
               NEW m \in PiecesOf(calls[i]), NEW n \in PiecesOf(calls[j])
        PROVE  <<m, n>> \in R
    <3>1. m \in B /\ n \in B
      BY <1>9, <2>2
    <3>2. m = 0 \/ n = 0 \/ m <= n
      <4>1. <<calls[i], calls[j]>> \in CallsBefore
        BY <1>9, <2>2 DEF InPairs
      <4> QED
        BY <2>2, <4>1 DEF CallsBefore
    <3> QED
      BY <1>12, <3>1, <3>2
  <2> QED
    BY <2>1, <2>2 DEF CallsFollow
<1>14. Follow(N, f, R) /\ Follow(N \cup {f}, g, R) /\ Follow(N \cup {f, g}, h, R)
  BY <1>1, <1>6, <1>7 DEF Follow
<1> QED
  BY <1>13, <1>14 DEF ChunkFollows, f, g, h, calls

(* The pieces of an event the client is to get. *)
Kept(e) == {i \in 1..Len(e.parts) :
              /\ e.parts[i] \in Relevant
              /\ ~\E j \in 1..Len(e.parts) : /\ i < j
                                             /\ e.parts[i] = "text" /\ e.parts[j] = "text"}
Lasts(e, k) == {i \in 1..Len(e.parts) :
                  /\ e.parts[i] = k
                  /\ \A j \in 1..Len(e.parts) : e.parts[j] = k => j <= i}

LEMMA FieldCarries ==
  ASSUME NEW e, Numbered(e), NEW k
  PROVE  {Field(e, k)} \cup {0} = {Number(e, i) : i \in Lasts(e, k)} \cup {0}
<1>0. Len(e.parts) \in Nat
  BY LenProperties DEF Numbered
<1>1. CASE Field(e, k) = 0 /\ ~HasPart(e, k)
  <2>1. Lasts(e, k) = {}
    BY <1>1 DEF HasPart, Lasts
  <2> QED
    BY <1>1, <2>1
<1>2. ASSUME NEW i \in 1..Len(e.parts), e.parts[i] = k, Field(e, k) = Number(e, i),
             \A j \in 1..Len(e.parts) : e.parts[j] = k => j <= i
      PROVE  {Field(e, k)} \cup {0} = {Number(e, j) : j \in Lasts(e, k)} \cup {0}
  <2>1. Lasts(e, k) = {i}
    BY <1>0, <1>2 DEF Lasts
  <2> QED
    BY <1>2, <2>1
<1> QED
  BY <1>1, <1>2, FieldLast

(* A chunk carries the pieces of its event the client is to get. *)
LEMMA ChunkCarries ==
  ASSUME NEW e, Numbered(e), Fits(e.parts), NEW c, Whole(e, c), sink \in Sink
  PROVE  PiecesFor(c) \cup {0} = {Number(e, i) : i \in Kept(e)} \cup {0}
<1> DEFINE L == Len(e.parts)
<1>0. L \in Nat /\ \A i \in 1..L : e.parts[i] \in Kind
  BY LenProperties DEF Numbered
<1>1. ASSUME NEW k \in {"thinking", "signature"}, NEW i \in 1..L, NEW j \in 1..L,
             e.parts[i] = k, e.parts[j] = k
      PROVE  i = j
  <2>1. ~InTurn(k, k)
    BY DEF InTurn, ToolKind
  <2>2. ~(i < j) /\ ~(j < i)
    BY <1>1, <2>1 DEF Fits
  <2> QED
    BY <1>0, <2>2
<1>2. ASSUME NEW k \in {"thinking", "signature"} PROVE Lasts(e, k) = {i \in 1..L : e.parts[i] = k}
  <2>1. \A i, j \in 1..L : e.parts[i] = k /\ e.parts[j] = k => j <= i
    BY <1>0, <1>1
  <2> QED
    BY <2>1 DEF Lasts
<1>3. ASSUME NEW i \in 1..L, e.parts[i] = "text"
      PROVE  (i \in Lasts(e, "text")) <=> ~\E j \in 1..L : i < j /\ e.parts[j] = "text"
  BY <1>0, <1>3 DEF Lasts
<1>4. \A i \in Lasts(e, "text") : i \in 1..L /\ e.parts[i] = "text"
  BY DEF Lasts
<1> DEFINE T == Lasts(e, "text")
           H == {i \in 1..L : e.parts[i] = "thinking"}
           S == {i \in 1..L : e.parts[i] = "signature"}
<1>5. {i \in 1..L : e.parts[i] \in Kind
                    /\ ~\E j \in 1..L : i < j /\ e.parts[i] = "text" /\ e.parts[j] = "text"}
         = H \cup S \cup T \cup Tools(e)
  <2> DEFINE A == {i \in 1..L : e.parts[i] \in Kind
                     /\ ~\E j \in 1..L : i < j /\ e.parts[i] = "text" /\ e.parts[j] = "text"}
             B == H \cup S \cup T \cup Tools(e)
  <2>1. ASSUME NEW i \in 1..L PROVE i \in A <=> i \in B
    <3>1. CASE e.parts[i] = "text"
      <4>1. i \in A <=> ~\E j \in 1..L : i < j /\ e.parts[j] = "text"
        BY <1>0, <3>1
      <4>2. i \in B <=> i \in T
        BY <3>1 DEF Tools, ToolKind
      <4> QED
        BY <1>3, <3>1, <4>1, <4>2
    <3>2. CASE e.parts[i] # "text"
      <4>1. i \in A
        BY <1>0, <3>2
      <4>2. i \in B
        BY <1>0, <3>2 DEF Kind, Tools
      <4> QED
        BY <4>1, <4>2
    <3> QED
      BY <3>1, <3>2
  <2>2. A \subseteq 1..L /\ B \subseteq 1..L
    BY <1>4 DEF Tools
  <2> HIDE DEF A, B
  <2>3. A = B
    BY <2>1, <2>2
  <2> QED
    BY <2>3 DEF A, B
<1>6. /\ {Field(e, "thinking")} \cup {0} = {Number(e, i) : i \in H} \cup {0}
      /\ {Field(e, "signature")} \cup {0} = {Number(e, i) : i \in S} \cup {0}
      /\ {Field(e, "text")} \cup {0} = {Number(e, i) : i \in T} \cup {0}
  <2>1. \A k : {Field(e, k)} \cup {0} = {Number(e, i) : i \in Lasts(e, k)} \cup {0}
    BY FieldCarries
  <2>2. Lasts(e, "thinking") = H /\ Lasts(e, "signature") = S
    BY <1>2
  <2>3. {Field(e, "thinking")} \cup {0} = {Number(e, i) : i \in Lasts(e, "thinking")} \cup {0}
    BY <2>1
  <2>4. {Field(e, "signature")} \cup {0} = {Number(e, i) : i \in Lasts(e, "signature")} \cup {0}
    BY <2>1
  <2>5. {Field(e, "text")} \cup {0} = {Number(e, i) : i \in Lasts(e, "text")} \cup {0}
    BY <2>1
  <2> QED
    BY <2>2, <2>3, <2>4, <2>5
<1>7. PiecesIn(c.calls, Len(c.calls)) \cup {0} = {Number(e, i) : i \in Tools(e)} \cup {0}
  BY CallsCarry DEF Whole
<1>8. c.reasoning = Field(e, "thinking") /\ c.signature = Field(e, "signature")
      /\ c.text = Field(e, "text")
  BY DEF Whole
<1>9. CASE sink = "responses"
  <2>1. Relevant = {"thinking", "text"} /\ PiecesFor(c) = {c.reasoning, c.text}
    BY <1>9 DEF Relevant, PiecesFor
  <2>2. Kept(e) = H \cup T
    <3>1. ASSUME NEW i \in 1..L PROVE i \in Kept(e) <=> i \in H \cup T
      <4>1. CASE e.parts[i] = "text"
        <5>1. i \in Kept(e) <=> ~\E j \in 1..L : i < j /\ e.parts[j] = "text"
          BY <2>1, <4>1 DEF Kept
        <5> QED
          BY <1>3, <4>1, <5>1
      <4>2. CASE e.parts[i] # "text"
        BY <1>4, <2>1, <4>2 DEF Kept
      <4> QED
        BY <4>1, <4>2
    <3>2. Kept(e) \subseteq 1..L /\ H \cup T \subseteq 1..L
      BY <1>4 DEF Kept
    <3> HIDE DEF H, T
    <3> QED
      BY <3>1, <3>2
  <2> HIDE DEF H, T
  <2>3. {Number(e, i) : i \in H \cup T} = {Number(e, i) : i \in H} \cup {Number(e, i) : i \in T}
    OBVIOUS
  <2> QED
    BY <1>6, <1>8, <2>1, <2>2, <2>3
<1>10. CASE sink # "responses"
  <2>1. Relevant = Kind /\ PiecesFor(c) = PiecesOfChunk(c)
    BY <1>10 DEF Relevant, PiecesFor
  <2>2. Kept(e) = H \cup S \cup T \cup Tools(e)
    BY <1>5, <2>1 DEF Kept
  <2> HIDE DEF H, S, T
  <2>3. {Number(e, i) : i \in H \cup S \cup T \cup Tools(e)}
           = {Number(e, i) : i \in H} \cup {Number(e, i) : i \in S}
             \cup {Number(e, i) : i \in T} \cup {Number(e, i) : i \in Tools(e)}
    OBVIOUS
  <2> QED
    BY <1>6, <1>7, <1>8, <2>1, <2>2, <2>3 DEF PiecesOfChunk
<1> QED
  BY <1>9, <1>10

(* The pieces of t the client is to get, and the order it is to get them.  *)
Due(t) == {0} \cup {i \in 1..Len(t) :
              /\ t[i].kind \in Relevant
              /\ ~\E j \in 1..Len(t) : /\ i < j /\ t[j].event = t[i].event
                                       /\ t[i].kind = "text" /\ t[j].kind = "text"}
Order(t) == {p \in Nat \X Nat :
               \/ p[1] = 0 \/ p[2] = 0 \/ p[1] <= p[2]
               \/ /\ protocol = "google" /\ t[p[1]].event = t[p[2]].event
                  /\ t[p[1]].kind = "text"}

(* No piece is of an event to come, and what the client got is what was    *)
(* sent that it is to get.                                                 *)
Past == \A i \in 1..Len(sent) : sent[i].event \in Nat /\ sent[i].event <= events
Delivery == Past /\ Delivers(w, Due(sent), Order(sent))

(* What follows for the pieces that were sent. *)
LEMMA DeliveryFollows == Accounts /\ Delivery => NothingLost
<1> SUFFICES ASSUME Accounts, Delivery PROVE NothingLost
  OBVIOUS
<1>1. /\ DOMAIN sent = 1..Len(sent) /\ w.out \in Seq(ClientEvent) /\ DOMAIN w.out = 1..Len(w.out)
  BY LenProperties DEF Accounts, Delivery, Delivers, Writer
<1>2. /\ {w.out[i].n : i \in 1..Len(w.out)} \cup {0} = Due(sent)
      /\ \A i, j \in 1..Len(w.out) : i < j => <<w.out[i].n, w.out[j].n>> \in Order(sent)
  BY DEF Delivery, Delivers, Got
<1>3. {w.out[i].n : i \in Carrying} = {w.out[i].n : i \in 1..Len(w.out)} \ {0}
  BY <1>1 DEF Carrying
<1>4. Due(sent) \ {0} = {i \in DOMAIN sent : sent[i].kind \in Relevant /\ ~Overwritten(i)}
  <2>1. \A i \in 1..Len(sent) : i # 0
    OBVIOUS
  <2>2. \A i \in 1..Len(sent) :
           Overwritten(i) <=> \E j \in 1..Len(sent) :
              /\ i < j /\ sent[j].event = sent[i].event
              /\ sent[i].kind = "text" /\ sent[j].kind = "text"
    BY <1>1 DEF Overwritten
  <2> QED
    BY <1>1, <2>1, <2>2 DEF Due
<1>5. {w.out[i].n : i \in Carrying}
         = {i \in DOMAIN sent : sent[i].kind \in Relevant /\ ~Overwritten(i)}
  BY <1>2, <1>3, <1>4
<1>6. ASSUME NEW i \in Carrying, NEW j \in Carrying, i < j
      PROVE  \/ w.out[i].n <= w.out[j].n
             \/ /\ protocol = "google"
                /\ sent[w.out[i].n].event = sent[w.out[j].n].event
                /\ sent[w.out[i].n].kind = "text"
  <2>1. i \in 1..Len(w.out) /\ j \in 1..Len(w.out) /\ w.out[i].n # 0 /\ w.out[j].n # 0
    BY <1>1 DEF Carrying
  <2>2. <<w.out[i].n, w.out[j].n>> \in Order(sent)
    BY <1>2, <1>6, <2>1
  <2> QED
    BY <2>1, <2>2 DEF Order
<1> QED
  BY <1>5, <1>6 DEF NothingLost

(* The pieces of an event are due after those sent before. *)
LEMMA DueGrows ==
  ASSUME Accounts, Past, NEW e, Numbered(e), e.parts # <<>> => e.n = NextPiece,
         Fits(e.parts), NEW t, t = Extended(e, events + 1)
  PROVE  /\ Due(t) = Due(sent) \cup {Number(e, i) : i \in Kept(e)}
         /\ Due(sent) \in SUBSET Nat
         /\ Arranges(Order(t), Due(sent), e)
         /\ \A m, n \in Due(sent) : <<m, n>> \in Order(sent) => <<m, n>> \in Order(t)
<1> DEFINE L == Len(sent)
           K == Len(e.parts)
<1>0. sent \in Seq(Piece) /\ e.parts \in Seq(Kind) /\ events \in Nat
  BY DEF Accounts, Numbered
<1>1. /\ L \in Nat /\ K \in Nat /\ Len(t) = L + K
      /\ \A i \in 1..L : t[i] = sent[i]
      /\ \A i \in 1..K : t[L + i].kind = e.parts[i] /\ t[L + i].event = events + 1
  BY <1>0, Longer
<1>2. \A i \in 1..K : Number(e, i) = L + i
  <2> TAKE i \in 1..K
  <2>1. e.parts # <<>>
    BY <1>1
  <2>2. e.n = L + 1 /\ L \in Nat /\ i \in Nat
    BY <1>1, <2>1 DEF NextPiece
  <2> HIDE DEF L
  <2> QED
    BY <2>2 DEF Number
<1>3. \A i \in 1..L : sent[i].event \in Nat /\ sent[i].event <= events
  BY DEF Past
<1> DEFINE over(s, i) == \E j \in 1..Len(s) : /\ i < j /\ s[j].event = s[i].event
                                              /\ s[i].kind = "text" /\ s[j].kind = "text"
           overE(i) == \E j \in 1..K : i < j /\ e.parts[i] = "text" /\ e.parts[j] = "text"
<1>4. ASSUME NEW i \in 1..L PROVE over(t, i) <=> over(sent, i)
  <2>1. ASSUME NEW j \in 1..(L + K), t[j].event = t[i].event PROVE j \in 1..L
    <3>1. CASE j \in 1..L
      BY <3>1
    <3>2. CASE j \notin 1..L
      <4>1. PICK k \in 1..K : j = L + k
        <5>1. j - L \in 1..K /\ j = L + (j - L)
          BY <1>1, <3>2
        <5> QED
          BY <5>1
      <4>2. t[j].event = events + 1 /\ t[i].event <= events /\ t[i].event \in Nat
        BY <1>1, <1>3, <4>1
      <4> QED
        BY <1>0, <2>1, <4>2
    <3> QED
      BY <3>1, <3>2
  <2>2. 1..L \subseteq 1..(L + K)
    BY <1>1
  <2> QED
    BY <1>1, <2>1, <2>2
<1>5. ASSUME NEW i \in 1..K PROVE over(t, L + i) <=> overE(i)
  <2>1. ASSUME over(t, L + i) PROVE overE(i)
    <3>1. PICK j \in 1..(L + K) : L + i < j /\ t[L + i].kind = "text" /\ t[j].kind = "text"
      BY <1>1, <2>1
    <3>2. j - L \in 1..K /\ j = L + (j - L) /\ i < j - L
      BY <1>1, <3>1
    <3>3. e.parts[i] = "text" /\ e.parts[j - L] = "text"
      BY <1>1, <3>1, <3>2
    <3> QED
      BY <3>2, <3>3
  <2>2. ASSUME overE(i) PROVE over(t, L + i)
    <3>1. PICK j \in 1..K : i < j /\ e.parts[i] = "text" /\ e.parts[j] = "text"
      BY <2>2
    <3>2. L + j \in 1..Len(t) /\ L + i < L + j /\ t[L + j].event = t[L + i].event
          /\ t[L + i].kind = "text" /\ t[L + j].kind = "text"
      BY <1>1, <3>1
    <3> QED
      BY <3>2
  <2> QED
    BY <2>1, <2>2
<1>6. /\ Due(t) = {0} \cup {i \in 1..(L + K) : t[i].kind \in Relevant /\ ~over(t, i)}
      /\ Due(sent) = {0} \cup {i \in 1..L : sent[i].kind \in Relevant /\ ~over(sent, i)}
      /\ Kept(e) = {i \in 1..K : e.parts[i] \in Relevant /\ ~overE(i)}
  BY <1>1 DEF Due, Kept
<1> HIDE DEF over, overE
<1>7. Due(t) = Due(sent) \cup {Number(e, i) : i \in Kept(e)}
  <2>1. ASSUME NEW i \in 1..L PROVE i \in Due(t) <=> i \in Due(sent)
    <3>1. i # 0 /\ i \in 1..(L + K)
      BY <1>1
    <3> QED
      BY <1>1, <1>4, <1>6, <3>1
  <2>2. ASSUME NEW i \in 1..K PROVE L + i \in Due(t) <=> i \in Kept(e)
    <3>1. L + i # 0 /\ L + i \in 1..(L + K)
      BY <1>1
    <3> QED
      BY <1>1, <1>5, <1>6, <3>1
  <2>3. ASSUME NEW n \in Due(t) PROVE n \in Due(sent) \cup {Number(e, i) : i \in Kept(e)}
    <3>1. CASE n = 0
      BY <1>6, <3>1
    <3>2. CASE n \in 1..L
      BY <2>1, <2>3, <3>2
    <3>3. CASE n # 0 /\ n \notin 1..L
      <4>1. n \in 1..(L + K)
        BY <1>6, <2>3, <3>3
      <4>2. n - L \in 1..K /\ n = L + (n - L)
        BY <1>1, <3>3, <4>1
      <4>3. n - L \in Kept(e) /\ n = Number(e, n - L)
        BY <1>2, <2>2, <2>3, <4>2
      <4> QED
        BY <4>3
    <3> QED
      BY <3>1, <3>2, <3>3
  <2>4. ASSUME NEW n \in Due(sent) PROVE n \in Due(t)
    BY <1>6, <2>1, <2>4
  <2>5. ASSUME NEW i \in Kept(e) PROVE Number(e, i) \in Due(t)
    BY <1>2, <1>6, <2>2, <2>5
  <2> QED
    BY <2>3, <2>4, <2>5
<1>8. Due(sent) \subseteq 0..L
  BY <1>1, <1>6
<1>9. Arranges(Order(t), Due(sent), e)
  <2>1. Neutral(Order(t))
    BY DEF Neutral, Order
  <2>2. ASSUME NEW m \in Due(sent), NEW i \in 1..K PROVE <<m, Number(e, i)>> \in Order(t)
    <3>1. m \in Nat /\ L + i \in Nat /\ m <= L + i
      BY <1>1, <1>8
    <3> QED
      BY <1>2, <3>1 DEF Order
  <2>3. ASSUME NEW i \in 1..K, NEW j \in 1..K,
               i <= j \/ (protocol = "google" /\ e.parts[i] = "text")
        PROVE  <<Number(e, i), Number(e, j)>> \in Order(t)
    <3>1. L + i \in Nat /\ L + j \in Nat
      BY <1>1
    <3>2. i <= j => L + i <= L + j
      BY <1>1
    <3>3. t[L + i].event = t[L + j].event /\ t[L + i].kind = e.parts[i]
      BY <1>1
    <3> QED
      BY <1>2, <2>3, <3>1, <3>2, <3>3 DEF Order
  <2> QED
    BY <2>1, <2>2, <2>3 DEF Arranges
<1>10. ASSUME NEW m \in Due(sent), NEW n \in Due(sent), <<m, n>> \in Order(sent)
       PROVE  <<m, n>> \in Order(t)
  <2>1. m \in Nat /\ n \in Nat /\ (m = 0 \/ m \in 1..L) /\ (n = 0 \/ n \in 1..L)
    BY <1>1, <1>8
  <2> QED
    BY <1>1, <1>10, <2>1 DEF Order
<1> QED
  BY <1>1, <1>7, <1>8, <1>9, <1>10

(* Nothing was sent, and nothing is due. *)
LEMMA DeliveryInit == StreamInit => Delivery
<1> SUFFICES ASSUME StreamInit PROVE Delivery
  OBVIOUS
<1>1. sent = <<>> /\ Len(sent) = 0 /\ w.out = <<>> /\ Len(w.out) = 0
  BY DEF StreamInit
<1>2. w \in Writer
  <2>1. <<>> \in Seq(ClientEvent)
    OBVIOUS
  <2> QED
    BY <2>1 DEF StreamInit, Writer
<1>3. Due(sent) = {0} /\ Got(w.out) = {0}
  BY <1>1 DEF Due, Got
<1>4. Past /\ \A i, j \in 1..Len(w.out) : i < j => <<w.out[i].n, w.out[j].n>> \in Order(sent)
  BY <1>1 DEF Past
<1> QED
  BY <1>2, <1>3, <1>4 DEF Delivery, Delivers

(* What the callback does for an event delivers the pieces of the event. *)
LEMMA EventDelivers ==
  ASSUME Accounts, Delivery, sink \in Sink, NEW e \in Content \cup Stops \cup Frame,
         NEW t, t = Extended(e, events + 1)
  PROVE  Delivers(IF Relayed(Chunk(e)) THEN OnChunk(w, Chunk(e).chunk) ELSE w,
                  Due(t), Order(t))
<1> DEFINE R == Order(t)
           N == Due(sent)
           c == Chunk(e).chunk
<1>0. Past /\ Delivers(w, N, Order(sent)) /\ protocol \in Protocol
  BY DEF Delivery, Accounts
<1>1. Classified(e) /\ Numbered(e)
  BY Translated DEF Classified
<1>2. e.parts # <<>> => e.n = NextPiece
  BY WithParts
<1>3. Fits(e.parts)
  <2>1. CASE e.parts = <<>>
    <3>1. Len(e.parts) = 0
      BY <2>1
    <3> QED
      BY <3>1 DEF Fits
  <2>2. CASE e.parts # <<>>
    BY <1>0, <2>2, WithParts, PartsFit
  <2> QED
    BY <2>1, <2>2
<1>4. /\ Due(t) = N \cup {Number(e, i) : i \in Kept(e)}
      /\ N \in SUBSET Nat /\ Arranges(R, N, e)
      /\ \A m, n \in N : <<m, n>> \in Order(sent) => <<m, n>> \in R
  BY <1>0, <1>1, <1>2, <1>3, DueGrows
<1>5. Delivers(w, N, R)
  <2>1. \A i, j \in 1..Len(w.out) : i < j => <<w.out[i].n, w.out[j].n>> \in Order(sent)
    BY <1>0 DEF Delivers
  <2>2. \A i \in 1..Len(w.out) : w.out[i].n \in N
    BY <1>0 DEF Delivers, Got
  <2>3. \A i, j \in 1..Len(w.out) : i < j => <<w.out[i].n, w.out[j].n>> \in R
    BY <1>4, <2>1, <2>2
  <2> QED
    BY <1>0, <2>3 DEF Delivers
<1>6. Neutral(R) /\ 0 \in N
  BY <1>4, <1>5, GotNumbers DEF Arranges
<1>7. \/ Withheld(e) /\ e.parts = <<>>
      \/ Chunk(e).forward = TRUE /\ Whole(e, c)
  BY WholeChunk
<1> HIDE DEF R, N, c
<1>8. CASE Withheld(e) /\ e.parts = <<>>
  <2>1. ~Relayed(Chunk(e))
    BY <1>8 DEF Withheld, Relayed
  <2>2. Kept(e) = {}
    BY <1>8 DEF Kept
  <2>3. Due(t) = N
    BY <1>4, <2>2
  <2> QED
    BY <1>5, <2>1, <2>3 DEF R
<1>9. CASE Chunk(e).forward = TRUE /\ Whole(e, c)
  <2>1. Relayed(Chunk(e))
    BY <1>9 DEF Relayed
  <2>2. ChunkFollows(N, c, R)
    BY <1>1, <1>3, <1>4, <1>9, ChunkInTurn
  <2>3. ChunkOK(c)
    <3>1. \A k : Field(e, k) \in Nat
      BY <1>1, FieldIs
    <3>2. Calls(e) \in Seq(ToolDelta)
      BY <1>1, CallsInTurn
    <3> QED
      BY <1>9, <3>1, <3>2 DEF Whole, ChunkOK
  <2>4. Delivers(OnChunk(w, c), N \cup PiecesFor(c), R)
    BY <1>5, <1>6, <2>2, <2>3, OnChunkDelivers
  <2>5. PiecesFor(c) \cup {0} = {Number(e, i) : i \in Kept(e)} \cup {0}
    BY <1>1, <1>3, <1>9, ChunkCarries
  <2>6. N \cup PiecesFor(c) = Due(t)
    BY <1>4, <1>6, <2>5
  <2> QED
    BY <2>1, <2>4, <2>6 DEF R, c
<1> QED
  BY <1>7, <1>8, <1>9

(* No piece, 0, has no place in any of these orders. *)
LEMMA OrderNeutral == ASSUME NEW t PROVE Neutral(Order(t))
BY DEF Neutral, Order

LEMMA ReceiveDelivers ==
  ASSUME Accounts, Streaming, Delivery, NEW e \in Content \cup Stops \cup Frame, Receive(e)
  PROVE  Delivery'
<1> DEFINE s == IF Relayed(Chunk(e)) THEN OnChunk(w, Chunk(e).chunk) ELSE w
           t == Extended(e, events + 1)
<1>0. sink \in Sink /\ Numbered(e) /\ sent \in Seq(Piece) /\ events \in Nat /\ Past
  BY Translated DEF Streaming, Classified, Accounts, Delivery
<1>1. Delivers(s, Due(t), Order(t))
  BY <1>0, EventDelivers
<1>2. /\ sink' = sink /\ protocol' = protocol /\ events' = events + 1
      /\ sent' = sent \o [i \in DOMAIN e.parts |-> [kind |-> e.parts[i], event |-> events']]
  BY DEF Receive
<1>3. sent' = t
  BY <1>2 DEF Extended
<1>4. w' = IF Chunk(e).done
           THEN Complete(s, IF Relayed(Chunk(e)) /\ Chunk(e).chunk.finish # "none"
                            THEN Chunk(e).chunk.finish ELSE finish)
           ELSE s
  BY Zenon DEF Receive, Chunk
<1> HIDE DEF s
<1>5. Delivers(w', Due(t), Order(t))
  <2>1. \A f : Delivers(Complete(s, f), Due(t), Order(t))
    BY <1>0, <1>1, OrderNeutral, EndsDeliver
  <2> QED
    BY <1>1, <1>4, <2>1
<1>6. Past'
  <2>1. /\ Len(sent) \in Nat /\ Len(e.parts) \in Nat /\ Len(t) = Len(sent) + Len(e.parts)
        /\ \A i \in 1..Len(sent) : t[i] = sent[i]
        /\ \A i \in 1..Len(e.parts) : t[Len(sent) + i].event = events + 1
    BY <1>0, Longer DEF Numbered
  <2> HIDE DEF t
  <2>2. ASSUME NEW i \in 1..Len(t) PROVE t[i].event \in Nat /\ t[i].event <= events + 1
    <3>1. CASE i <= Len(sent)
      <4>1. i \in 1..Len(sent) /\ t[i] = sent[i]
        BY <2>1, <3>1
      <4>2. sent[i].event \in Nat /\ sent[i].event <= events
        BY <1>0, <4>1 DEF Past
      <4> QED
        BY <1>0, <4>1, <4>2
    <3>2. CASE ~(i <= Len(sent))
      <4>1. i - Len(sent) \in 1..Len(e.parts) /\ i = Len(sent) + (i - Len(sent))
        BY <2>1, <3>2
      <4>2. t[i].event = events + 1
        BY <2>1, <4>1
      <4> QED
        BY <1>0, <4>2
    <3> QED
      BY <3>1, <3>2
  <2> QED
    BY <1>2, <1>3, <2>2 DEF Past
<1> HIDE DEF t
<1>7. Due(sent)' = Due(t) /\ Order(sent)' = Order(t)
  BY <1>2, <1>3 DEF Due, Relevant, Order
<1>8. Delivers(w, Due(sent), Order(sent))'
  BY <1>5, <1>7 DEF Delivers, Got
<1> QED
  BY <1>6, <1>8 DEF Delivery

(* The end of the stream delivers no piece, and takes none back. *)
LEMMA EndDelivers ==
  ASSUME Streaming, Delivery, UpstreamCloses \/ UpstreamBreaks \/ UNCHANGED streamVars
  PROVE  Delivery'
<1>0. sink \in Sink /\ Past /\ Delivers(w, Due(sent), Order(sent))
  BY DEF Streaming, Delivery
<1>1. UNCHANGED <<protocol, sink, sent, events>>
  BY DEF UpstreamCloses, UpstreamBreaks, streamVars, provider
<1>2. /\ Delivers(Complete(w, finish), Due(sent), Order(sent))
      /\ Delivers(Break(w, finish), Due(sent), Order(sent))
  BY <1>0, OrderNeutral, EndsDeliver
<1>3. w' = Complete(w, finish) \/ w' = Break(w, finish) \/ w' = w
  BY DEF UpstreamCloses, UpstreamBreaks, streamVars
<1>4. Delivers(w', Due(sent), Order(sent))
  BY <1>0, <1>2, <1>3
<1>5. Due(sent)' = Due(sent) /\ Order(sent)' = Order(sent)
  BY <1>1 DEF Due, Relevant, Order
<1>6. Delivers(w, Due(sent), Order(sent))'
  BY <1>4, <1>5 DEF Delivers, Got
<1>7. Past'
  BY <1>0, <1>1 DEF Past
<1> QED
  BY <1>6, <1>7 DEF Delivery

(* The callback and what was delivered agree in every state. *)
THEOREM DeliveriesHold == StreamSpec => []Delivery
<1>1. Accounts /\ Streaming /\ Delivery /\ [StreamNext]_streamVars => Delivery'
  <2> SUFFICES ASSUME Accounts, Streaming, Delivery, [StreamNext]_streamVars PROVE Delivery'
    OBVIOUS
  <2>1. CASE \E e \in Content \cup Stops \cup Frame : Receive(e)
    BY <2>1, ReceiveDelivers
  <2>2. CASE UpstreamCloses \/ UpstreamBreaks \/ UNCHANGED streamVars
    BY <2>2, EndDelivers
  <2> QED
    BY <2>1, <2>2 DEF StreamNext
<1> QED
  BY <1>1, StreamsSound, DeliveryInit, PTL DEF StreamSpec

(* Translated twice, from the protocol of the provider into chunks and     *)
(* from chunks into the events of the endpoint, every piece of a           *)
(* completion that the endpoint has events for reaches the client, and in  *)
(* the order the provider sent them, whichever the protocol, the endpoint  *)
(* and the order of thinking, texts and calls, and however the stream      *)
(* ends; the exceptions are the two NothingLost names, in one event of     *)
(* Gemini.                                                                 *)
THEOREM PiecesDelivered == StreamSpec => []NothingLost
  BY DeliveriesHold, StreamsSound, DeliveryFollows, PTL

(* What is left of the type of a stream. *)
Rest == /\ protocol \in Protocols
        /\ finish \in {"none", "stop", "length", "tool_calls"}

(* The reason of the provider, as the chunks say it. *)
LEMMA FinishIs ==
  ASSUME NEW r \in {"none", "end", "limit", "tool"}
  PROVE  /\ FinishReason(r) \in {"none", "stop", "length", "tool_calls"}
         /\ r = "end" => FinishReason(r) = "stop"
         /\ r = "limit" => FinishReason(r) = "length"
         /\ r = "tool" => FinishReason(r) = "tool_calls"
<1>1. ASSUME r = "none" PROVE FinishReason(r) = "none"
  BY <1>1 DEF FinishReason
<1>2. ASSUME r = "end" PROVE FinishReason(r) = "stop"
  BY <1>2 DEF FinishReason
<1>3. ASSUME r = "limit" PROVE FinishReason(r) = "length"
  BY <1>3 DEF FinishReason
<1>4. ASSUME r = "tool" PROVE FinishReason(r) = "tool_calls"
  BY <1>4 DEF FinishReason
<1> QED
  BY <1>1, <1>2, <1>3, <1>4

LEMMA StreamTypeFollows == Accounts /\ Streaming /\ Delivery /\ Rest => StreamTypeOK
<1> SUFFICES ASSUME Accounts, Streaming, Delivery, Rest PROVE StreamTypeOK
  OBVIOUS
<1>1. w \in Writer
  BY DEF Delivery, Delivers
<1>2. usage \in Tokens
  <2>1. PICK a, b \in Nat : reported = [in |-> a, out |-> b]
    BY DEF Accounts, Tokens
  <2>2. [in |-> 0, out |-> reported.out] \in Tokens
    BY <2>1 DEF Tokens
  <2> QED
    BY <2>2 DEF Accounts, Known
<1>3. outcome \in {"open", "ok", "error", "failover"}
  BY DEF Streaming, Ended
<1> QED
  BY <1>1, <1>2, <1>3 DEF Accounts, Streaming, Rest, Piece, StreamTypeOK

LEMMA RestStep ==
  ASSUME Accounts, Streaming, Rest, [StreamNext]_streamVars
  PROVE  Rest'
<1>1. ASSUME NEW e \in Content \cup Stops \cup Frame, Receive(e) PROVE Rest'
  <2>1. outcome = "open" /\ protocol' = protocol
    BY <1>1 DEF Receive
  <2>2. stop' \in {"none", "end", "limit", "tool"} /\ finish' = FinishReason(stop')
    BY <1>1, <2>1, ReasonKept
  <2> QED
    BY <2>1, <2>2, FinishIs DEF Rest
<1>2. CASE UpstreamCloses \/ UpstreamBreaks \/ UNCHANGED streamVars
  BY <1>2 DEF Rest, UpstreamCloses, UpstreamBreaks, streamVars, provider
<1> QED
  BY <1>1, <1>2 DEF StreamNext

(* Every stream keeps its types. *)
THEOREM StreamsTyped == StreamSpec => []StreamTypeOK
<1>1. StreamInit => Rest
  BY DEF StreamInit, Rest
<1>2. Accounts /\ Streaming /\ Rest /\ [StreamNext]_streamVars => Rest'
  BY RestStep
<1> QED
  BY <1>1, <1>2, StreamsSound, DeliveriesHold, StreamTypeFollows, PTL DEF StreamSpec

----------------------------------------------------------------------------
(* The stream is one part of an exchange, and nothing else that happens in *)
(* the exchange touches it: the exchange implements the stream by itself.  *)
THEOREM ExchangeStreams == ExchangeSpec => StreamSpec
<1>1. ExchangeInit => StreamInit
  BY DEF ExchangeInit
<1>2. [ExchangeNext]_<<streamVars, phase, request, answer>> => [StreamNext]_streamVars
  <2> SUFFICES ASSUME [ExchangeNext]_<<streamVars, phase, request, answer>>
               PROVE  StreamNext \/ UNCHANGED streamVars
    OBVIOUS
  <2>1. CASE \E turn \in TurnsOf(sink) : Say(turn)
    BY <2>1, Zenon DEF Say
  <2>2. CASE SayMuch
    BY <2>2, Zenon DEF SayMuch
  <2>3. CASE \E n \in Markable : Mark(n)
    BY <2>3, Zenon DEF Mark
  <2>4. CASE \E s \in (IF talk = Hello /\ marked = 0 THEN Settings ELSE {Usual}),
                oauth \in (IF protocol = "anthropic" THEN BOOLEAN ELSE {FALSE}) :
                Send(s, oauth)
    BY <2>4, Zenon DEF Send
  <2>5. CASE Accepted
    BY <2>5, Zenon DEF Accepted
  <2>6. CASE \E kinds \in Completions, reason \in Reasons : AnswerWhole(kinds, reason)
    BY <2>6, Zenon DEF AnswerWhole
  <2>7. CASE Stream
    BY <2>7, Zenon DEF Stream
  <2>8. CASE UNCHANGED <<streamVars, phase, request, answer>>
    BY <2>8
  <2> QED
    BY <2>1, <2>2, <2>3, <2>4, <2>5, <2>6, <2>7, <2>8, Zenon DEF ExchangeNext
<1> QED
  BY <1>1, <1>2, PTL DEF ExchangeSpec, StreamSpec

(* So what is proved of every stream holds in every exchange: the client's *)
(* stream is well formed and complete, and so is its usage.                *)
THEOREM ExchangesStreamWell == ExchangeSpec => [](WellFormed /\ NothingLost /\ UsageComplete)
  BY ExchangeStreams, StreamsWellFormed, PiecesDelivered, TokensKept, PTL

----------------------------------------------------------------------------
(* What an exchange keeps. *)

(* What a turn is made of, at any endpoint. *)
Form      == {"string", "parts"}
BlockKinds == {"text", "image_url", "thinking", "call", "result", "image",
               "input_text", "input_image", "output_text"}
TurnSaid  == [role : Roles, form : Form, kinds : Seq(BlockKinds)]

LEMMA StringsTyped ==
  ASSUME NEW R \in SUBSET Roles
  PROVE  Strings(R) \subseteq TurnSaid
<1>1. <<"text">> \in Seq(BlockKinds)
  BY DEF BlockKinds
<1>2. \A r \in R : Said(r, "string", <<"text">>) \in TurnSaid
  <2> DEFINE q == <<"text">>
  <2> HIDE DEF q
  <2>1. q \in Seq(BlockKinds)
    BY <1>1 DEF q
  <2>2. "string" \in Form
    BY DEF Form
  <2>3. \A r \in R : Said(r, "string", q) \in TurnSaid
    BY <2>1, <2>2 DEF Said, TurnSaid
  <2> QED
    BY <2>3 DEF q
<1> QED
  BY <1>2 DEF Strings

LEMMA KindsTyped ==
  ASSUME NEW K \in SUBSET BlockKinds
  PROVE  SeqsUpTo(K) \subseteq Seq(BlockKinds)
<1> SUFFICES ASSUME NEW q \in SeqsUpTo(K) PROVE q \in Seq(BlockKinds)
  OBVIOUS
<1>1. PICK n \in 1..MaxKinds : q \in [1..n -> K]
  BY DEF SeqsUpTo
<1>2. n \in Nat /\ q \in [1..n -> BlockKinds]
  BY <1>1, ExchangeAssumption
<1> QED
  BY <1>2

(* Whatever a client may say next, at any endpoint, is a turn. *)
LEMMA TurnsTyped ==
  ASSUME NEW s \in Sink
  PROVE  TurnsOf(s) \subseteq TurnSaid
<1>1. ASSUME NEW r \in Roles, NEW f \in Form, NEW q \in Seq(BlockKinds)
      PROVE  Said(r, f, q) \in TurnSaid
  BY DEF Said, TurnSaid
<1>2. /\ {"system", "developer", "user", "assistant"} \in SUBSET Roles
      /\ {"user", "assistant"} \in SUBSET Roles
      /\ {"developer", "user", "assistant"} \in SUBSET Roles
      /\ {"system"} \in SUBSET Roles
  BY DEF Roles
<1>3. /\ {"text", "image_url"} \in SUBSET BlockKinds /\ {"text"} \in SUBSET BlockKinds
      /\ {"text", "image", "result"} \in SUBSET BlockKinds
      /\ {"text", "thinking", "call"} \in SUBSET BlockKinds
      /\ {"input_text", "input_image"} \in SUBSET BlockKinds
  BY DEF BlockKinds
<1>4. /\ SeqsUpTo({"text", "image_url"}) \subseteq Seq(BlockKinds)
      /\ SeqsUpTo({"text"}) \subseteq Seq(BlockKinds)
      /\ SeqsUpTo({"text", "image", "result"}) \subseteq Seq(BlockKinds)
      /\ SeqsUpTo({"text", "thinking", "call"}) \subseteq Seq(BlockKinds)
      /\ SeqsUpTo({"input_text", "input_image"}) \subseteq Seq(BlockKinds)
  BY <1>3, KindsTyped
<1>5. /\ Strings({"system", "developer", "user", "assistant"}) \subseteq TurnSaid
      /\ Strings({"user", "assistant"}) \subseteq TurnSaid
      /\ Strings({"developer", "user", "assistant"}) \subseteq TurnSaid
      /\ Strings({"system"}) \subseteq TurnSaid
  BY <1>2, StringsTyped
<1>6. /\ <<"text", "text">> \in Seq(BlockKinds) /\ <<"text", "call">> \in Seq(BlockKinds)
      /\ <<"thinking", "text">> \in Seq(BlockKinds) /\ <<"call">> \in Seq(BlockKinds)
      /\ <<"call", "call">> \in Seq(BlockKinds) /\ <<"result">> \in Seq(BlockKinds)
      /\ <<"output_text">> \in Seq(BlockKinds) /\ <<"thinking">> \in Seq(BlockKinds)
  BY DEF BlockKinds
<1>7. /\ "system" \in Roles /\ "user" \in Roles /\ "assistant" \in Roles /\ "tool" \in Roles
      /\ "string" \in Form /\ "parts" \in Form
  BY DEF Roles, Form
<1>8. ChatTurns \subseteq TurnSaid
  <2>1. {Said("system", "parts", <<"text", "text">>)} \subseteq TurnSaid
    BY <1>1, <1>6, <1>7
  <2>2. {Said("user", "parts", q) : q \in SeqsUpTo({"text", "image_url"})} \subseteq TurnSaid
    BY <1>1, <1>4, <1>7
  <2>3. {Said("assistant", f, <<"text", "call">>) : f \in Form} \subseteq TurnSaid
    BY <1>1, <1>6, <1>7
  <2>4. {Said("assistant", "string", q) :
            q \in {<<"thinking", "text">>, <<"call">>, <<"call", "call">>}} \subseteq TurnSaid
    BY <1>1, <1>6, <1>7
  <2>5. {Said("tool", f, <<"result">>) : f \in Form} \subseteq TurnSaid
    BY <1>1, <1>6, <1>7
  <2> QED
    BY <1>5, <2>1, <2>2, <2>3, <2>4, <2>5, Zenon DEF ChatTurns, Form
<1>9. MessagesTurns \subseteq TurnSaid
  <2>1. {Said("system", "parts", q) : q \in SeqsUpTo({"text"})} \subseteq TurnSaid
    BY <1>1, <1>4, <1>7
  <2>2. {Said("user", "parts", q) : q \in SeqsUpTo({"text", "image", "result"})}
           \subseteq TurnSaid
    BY <1>1, <1>4, <1>7
  <2>3. {Said("assistant", "parts", q) : q \in SeqsUpTo({"text", "thinking", "call"})}
           \subseteq TurnSaid
    BY <1>1, <1>4, <1>7
  <2> QED
    BY <1>5, <2>1, <2>2, <2>3, Zenon DEF MessagesTurns
<1>10. ResponsesTurns \subseteq TurnSaid
  <2>1. {Said("user", "parts", q) : q \in SeqsUpTo({"input_text", "input_image"})}
           \subseteq TurnSaid
    BY <1>1, <1>4, <1>7
  <2>2. {Said("assistant", "parts", q) :
            q \in {<<"output_text">>, <<"thinking">>, <<"call">>}} \subseteq TurnSaid
    BY <1>1, <1>6, <1>7
  <2>3. {Said("tool", "parts", <<"result">>)} \subseteq TurnSaid
    BY <1>1, <1>6, <1>7
  <2> QED
    BY <1>5, <2>1, <2>2, <2>3, Zenon DEF ResponsesTurns
<1>11. CASE s = "chat"
  BY <1>8, <1>11 DEF TurnsOf
<1>12. CASE s = "messages"
  BY <1>9, <1>12 DEF TurnsOf
<1>13. CASE s = "responses"
  BY <1>10, <1>13 DEF TurnsOf
<1> QED
  BY <1>11, <1>12, <1>13 DEF Sink

(* The turns of the client, as far as an answer depends on them. *)
ATurn(t) == /\ t = [role |-> t.role, form |-> t.form, blocks |-> t.blocks]
            /\ t.form \in Form
Talked == \E S : talk \in Seq(S) /\ \A t \in S : ATurn(t)

(* What a request keeps is there only while it is asked and sent, and only *)
(* while it is answered does anything stream.                              *)
Asking ==
    /\ phase \in {"asking", "asked", "sent", "answering", "answered"}
    /\ Talked
    /\ \E S : pieces \in Seq(S)
    /\ marked \in 0..Len(pieces)
    /\ phase = "asking" => marked = 0
    /\ phase # "sent" => body = Nothing
    /\ phase # "answering" => events = 0 /\ outcome = "open"
    /\ events = 0 /\ outcome = "open" => w.out = <<>>

LEMMA TypeOfExchange == StreamTypeOK /\ Asking => ExchangeTypeOK
<1> SUFFICES ASSUME StreamTypeOK, Asking PROVE ExchangeTypeOK
  OBVIOUS
<1>1. PICK S : talk \in Seq(S) /\ \A t \in S : ATurn(t)
  BY DEF Asking, Talked
<1>2. \A t \in DOMAIN talk : talk[t] \in S
  BY <1>1
<1>3. \A t \in DOMAIN talk : talk[t].form \in {"string", "parts"}
  BY <1>1, <1>2 DEF Form, ATurn
<1> QED
  BY <1>3 DEF Asking, ExchangeTypeOK

LEMMA AskingInit == ExchangeInit => Asking
<1> SUFFICES ASSUME ExchangeInit PROVE Asking
  OBVIOUS
<1>1. <<>> \in Seq({})
  OBVIOUS
<1>2. Talked /\ \E S : pieces \in Seq(S)
  BY <1>1 DEF ExchangeInit, Talked
<1>3. Len(pieces) \in Nat
  BY <1>1 DEF ExchangeInit
<1> QED
  BY <1>2, <1>3 DEF ExchangeInit, StreamInit, Asking

(* Each step of the client keeps the types of its conversation. *)
LEMMA SayKeeps ==
  ASSUME Asking, NEW turn \in TurnSaid, Say(turn)
  PROVE  Asking'
<1>1. PICK S : talk \in Seq(S) /\ \A t \in S : ATurn(t)
  BY DEF Asking, Talked
<1>2. PICK P : pieces \in Seq(P)
  BY DEF Asking
<1> DEFINE t1 == [role |-> turn.role, form |-> turn.form, blocks |-> Blocks(turn.kinds)]
           news == [i \in DOMAIN turn.kinds |->
                      [kind |-> turn.kinds[i], turn |-> Len(talk) + 1]]
           N == {[kind |-> k, turn |-> Len(talk) + 1] : k \in BlockKinds}
<1>3. /\ phase = "asking" /\ talk' = Append(talk, t1) /\ pieces' = pieces \o news
      /\ UNCHANGED <<streamVars, phase, marked, body>>
  BY DEF Say
<1>4. ATurn(t1)
  BY DEF TurnSaid, ATurn
<1>5. talk' \in Seq(S \cup {t1})
  <2> HIDE DEF t1
  <2> QED
    BY <1>1, <1>3, AppendTyped
<1>6. news \in Seq(N)
  <2>1. turn.kinds \in Seq(BlockKinds)
    BY DEF TurnSaid
  <2>2. Len(turn.kinds) \in Nat /\ DOMAIN turn.kinds = 1..Len(turn.kinds)
        /\ \A i \in 1..Len(turn.kinds) : turn.kinds[i] \in BlockKinds
    BY <2>1
  <2>3. news \in [1..Len(turn.kinds) -> N]
    BY <2>2
  <2> QED
    BY <2>2, <2>3, SeqDef
<1>7. /\ pieces \in Seq(P \cup N) /\ news \in Seq(P \cup N)
  BY <1>2, <1>6, LenProperties, SeqDef
<1>8. pieces' \in Seq(P \cup N) /\ Len(pieces') = Len(pieces) + Len(news)
      /\ Len(pieces) \in Nat /\ Len(news) \in Nat
  <2> HIDE DEF news, N
  <2> QED
    BY <1>3, <1>7, ConcatProperties, LenProperties
<1>9. Talked'
  <2>1. \A t \in S \cup {t1} : ATurn(t)
    BY <1>1, <1>4
  <2> HIDE DEF t1
  <2> QED
    BY <1>5, <2>1 DEF Talked
<1>10. marked' \in 0..Len(pieces')
  BY <1>3, <1>8 DEF Asking
<1>11. UNCHANGED <<phase, marked, body, events, outcome, w>>
  BY <1>3 DEF streamVars, provider
<1>12. \E Q : pieces' \in Seq(Q)
  BY <1>8
<1> QED
  BY <1>9, <1>10, <1>11, <1>12 DEF Asking

LEMMA SayMuchKeeps ==
  ASSUME Asking, SayMuch
  PROVE  Asking'
<1> DEFINE T == [role : {LongRole(t) : t \in 1..LongTurns}, form : {LongForm},
                 blocks : {<<Block("text", <<t>>, 0, FALSE)>> : t \in 1..LongTurns}]
           P == {[kind |-> "text", turn |-> t] : t \in 1..LongTurns}
<1>1. LongTurns \in Nat
  BY ExchangeAssumption
<1>2. talk' \in Seq(T)
  <2>1. talk' \in [1..LongTurns -> T]
    BY DEF SayMuch
  <2> HIDE DEF T
  <2> QED
    BY <1>1, <2>1, SeqDef
<1>3. pieces' \in Seq(P)
  <2>1. pieces' \in [1..LongTurns -> P]
    BY DEF SayMuch
  <2> QED
    BY <1>1, <2>1, SeqDef
<1>4. Talked'
  <2>1. \A t \in T : ATurn(t)
    BY DEF LongForm, Form, ATurn
  <2> HIDE DEF T
  <2> QED
    BY <1>2, <2>1 DEF Talked
<1>5. UNCHANGED <<phase, marked, body, events, outcome, w>> /\ phase = "asking"
  BY DEF SayMuch, streamVars, provider
<1>6. Len(pieces') \in Nat /\ \E Q : pieces' \in Seq(Q)
  BY <1>3, LenProperties
<1> QED
  BY <1>4, <1>5, <1>6 DEF Asking

LEMMA MarkKeeps ==
  ASSUME Asking, NEW n \in Markable, Mark(n)
  PROVE  Asking'
<1> DEFINE marking(t) == [t EXCEPT !.blocks =
                [i \in DOMAIN @ |-> Block(@[i].kind, @[i].ns, @[i].of, @[i].ns = <<n>>)]]
<1>1. PICK S : talk \in Seq(S) /\ \A t \in S : ATurn(t)
  BY DEF Asking, Talked
<1>2. PICK P : pieces \in Seq(P)
  BY DEF Asking
<1>3. /\ talk' = [t \in DOMAIN talk |->
                    [talk[t] EXCEPT !.blocks =
                       [i \in DOMAIN @ |-> Block(@[i].kind, @[i].ns, @[i].of, @[i].ns = <<n>>)]]]
      /\ marked' = n /\ phase' = "asked" /\ phase = "asking"
      /\ UNCHANGED <<streamVars, pieces, body>>
  BY DEF Mark
<1> DEFINE T == {talk'[t] : t \in DOMAIN talk}
<1>4. DOMAIN talk = 1..Len(talk) /\ Len(talk) \in Nat
  BY <1>1
<1>5. ASSUME NEW t \in 1..Len(talk) PROVE ATurn(talk'[t])
  <2>1. ATurn(talk[t])
    BY <1>1
  <2>2. talk'[t] = marking(talk[t])
    BY <1>3, <1>4
  <2> DEFINE u == talk[t]
             bs == [i \in DOMAIN u.blocks |-> Block(u.blocks[i].kind, u.blocks[i].ns,
                                                    u.blocks[i].of, u.blocks[i].ns = <<n>>)]
  <2>3. talk'[t] = [u EXCEPT !.blocks = bs]
    BY <2>2
  <2> HIDE DEF u, bs
  <2>4. u = [role |-> u.role, form |-> u.form, blocks |-> u.blocks] /\ u.form \in Form
    BY <2>1 DEF u, ATurn
  <2>5. [u EXCEPT !.blocks = bs] = [role |-> u.role, form |-> u.form, blocks |-> bs]
    BY <2>4
  <2> QED
    BY <2>3, <2>4, <2>5 DEF ATurn
<1>6. talk' \in Seq(T)
  <2>1. talk' \in [1..Len(talk) -> T]
    BY <1>3, <1>4
  <2> QED
    BY <1>4, <2>1, SeqDef
<1>7. \A t \in T : ATurn(t)
  BY <1>1, <1>4, <1>5
<1>8. Talked'
  <2> HIDE DEF T
  <2> QED
    BY <1>6, <1>7 DEF Talked
<1>9. n \in 0..Len(pieces)
  BY <1>2 DEF Markable, Asking
<1>10. UNCHANGED <<pieces, body, events, outcome, w>>
  BY <1>3 DEF streamVars, provider
<1> QED
  BY <1>2, <1>3, <1>8, <1>9, <1>10 DEF Asking

(* What a completion is made of, and why it ends. *)
Replies == {"thinking", "signature", "text", "call"}
Causes == {"end", "limit", "tool"}

(* The reason as the client of the endpoint s is told it. *)
ToldAs(s, reason) ==
    CASE s = "chat"      -> FinishReason(reason)
      [] s = "messages"  -> StopReason(FinishReason(reason))
      [] s = "responses" -> Status(FinishReason(reason))

(* A whole answer is what both translations make of the completion. *)
AnswerGiven ==
    phase = "answered" =>
        /\ answer.kinds \in Seq(Replies) /\ answer.reason \in Causes
        /\ answer.items = ToClient(sink, Fields(protocol, answer.kinds))
        /\ answer.told = ToldAs(sink, answer.reason)

LEMMA CompletionsTyped == Completions \subseteq Seq(Replies) /\ Reasons \subseteq Causes
<1>1. Reasons \subseteq Causes
  BY DEF Reasons, Causes
<1> DEFINE K == IF protocol \in {"google", "cohere"} THEN {"text", "call"}
                ELSE {"thinking", "signature", "text", "call"}
           all == UNION {[1..n -> K] : n \in 0..MaxPieces}
           any == {q \in all :
                     \A i \in DOMAIN q : q[i] = "signature" => i > 1 /\ q[i - 1] = "thinking"}
           six == {<<>>, <<"text">>, <<"thinking", "text">>, <<"thinking", "signature", "text">>,
                   <<"text", "call", "call">>, <<"thinking", "call">>, <<"call", "call">>}
<1>2. all \subseteq Seq(Replies)
  <2> SUFFICES ASSUME NEW n \in 0..MaxPieces, NEW q \in [1..n -> K] PROVE q \in Seq(Replies)
    OBVIOUS
  <2>1. n \in Nat
    BY StreamAssumption
  <2>2. K \subseteq Replies
    BY DEF Replies
  <2> HIDE DEF K
  <2>3. q \in [1..n -> Replies]
    BY <2>2
  <2> QED
    BY <2>1, <2>3, SeqDef
<1>3. six \subseteq Seq(Replies)
  BY DEF Replies
<1>4. Completions = IF protocol = "openai" THEN six ELSE any
  BY DEF Completions
<1>5. any \subseteq all
  OBVIOUS
<1> HIDE DEF six, any, all
<1> QED
  BY <1>1, <1>2, <1>3, <1>4, <1>5

(* Every step of the exchange keeps both. *)
LEMMA AskingStep ==
  ASSUME Asking, AnswerGiven, StreamTypeOK,
         [ExchangeNext]_<<streamVars, phase, request, answer>>
  PROVE  Asking' /\ AnswerGiven'
<1>1. ASSUME NEW turn \in TurnsOf(sink), Say(turn) PROVE Asking' /\ AnswerGiven'
  <2>1. turn \in TurnSaid
    BY TurnsTyped DEF StreamTypeOK
  <2>2. phase' = "asking"
    BY <1>1 DEF Say
  <2> QED
    BY <1>1, <2>1, <2>2, SayKeeps DEF AnswerGiven
<1>2. CASE SayMuch
  <2>1. phase' = "asking"
    BY <1>2 DEF SayMuch
  <2> QED
    BY <1>2, <2>1, SayMuchKeeps DEF AnswerGiven
<1>3. ASSUME NEW n \in Markable, Mark(n) PROVE Asking' /\ AnswerGiven'
  <2>1. phase' = "asked"
    BY <1>3 DEF Mark
  <2> QED
    BY <1>3, <2>1, MarkKeeps DEF AnswerGiven
<1>4. ASSUME NEW s, NEW oauth, Send(s, oauth) PROVE Asking' /\ AnswerGiven'
  <2>1. /\ phase' = "sent" /\ phase \in {"asking", "asked"}
        /\ UNCHANGED <<talk, pieces, marked, events, outcome, w>>
    BY <1>4 DEF Send, streamVars, provider
  <2> QED
    BY <2>1 DEF Asking, Talked, AnswerGiven
<1>5. CASE Accepted
  <2>1. /\ phase' = "answering" /\ phase = "sent"
        /\ talk' = <<>> /\ pieces' = <<>> /\ marked' = 0 /\ body' = Nothing
        /\ UNCHANGED <<events, outcome, w>>
    BY <1>5 DEF Accepted, streamVars, provider
  <2>2. <<>> \in Seq({})
    OBVIOUS
  <2>3. Talked' /\ \E S : pieces' \in Seq(S)
    <3> DEFINE none == {}
    <3>1. talk' \in Seq(none) /\ pieces' \in Seq(none)
      BY <2>1, <2>2
    <3>2. \A t \in none : ATurn(t)
      OBVIOUS
    <3> HIDE DEF none
    <3> QED
      BY <3>1, <3>2 DEF Talked
  <2>4. marked' \in 0..Len(pieces')
    BY <2>1, <2>2
  <2>5. Asking'
    BY <2>1, <2>3, <2>4, Zenon DEF Asking
  <2> QED
    BY <2>1, <2>5 DEF AnswerGiven
<1>6. ASSUME NEW kinds \in Completions, NEW reason \in Reasons, AnswerWhole(kinds, reason)
      PROVE  Asking' /\ AnswerGiven'
  <2> DEFINE resp == TransformResponse(protocol, kinds, reason)
  <2>1. /\ phase' = "answered" /\ phase = "answering" /\ events = 0 /\ outcome = "open"
        /\ UNCHANGED <<talk, pieces, marked, body, sink, protocol, events, outcome, w>>
        /\ answer' = [kinds |-> kinds, reason |-> reason,
                      items |-> ToClient(sink, resp.message),
                      told |-> CASE sink = "chat"      -> resp.finish
                                 [] sink = "messages"  -> StopReason(resp.finish)
                                 [] sink = "responses" -> Status(resp.finish)]
    BY <1>6 DEF AnswerWhole, streamVars, provider, request
  <2>2. resp.message = Fields(protocol, kinds) /\ resp.finish = FinishReason(reason)
    BY DEF TransformResponse
  <2>3. kinds \in Seq(Replies) /\ reason \in Causes
    BY CompletionsTyped
  <2>4. Asking'
    BY <2>1 DEF Asking, Talked
  <2>5. AnswerGiven'
    <3> HIDE DEF resp
    <3> QED
      BY <2>1, <2>2, <2>3 DEF AnswerGiven, ToldAs
  <2> QED
    BY <2>4, <2>5
<1>7. CASE Stream
  <2>1. /\ phase = "answering" /\ StreamNext
        /\ UNCHANGED <<phase, talk, pieces, marked, body, answer>>
    BY <1>7 DEF Stream, request
  <2>2. events' = events + 1 \/ outcome' # "open"
    BY <2>1 DEF StreamNext, Receive, UpstreamCloses, UpstreamBreaks
  <2>3. events \in Nat
    BY DEF StreamTypeOK
  <2>4. ~(events' = 0 /\ outcome' = "open")
    BY <2>2, <2>3
  <2> QED
    BY <2>1, <2>4 DEF Asking, Talked, AnswerGiven
<1>8. CASE UNCHANGED <<streamVars, phase, request, answer>>
  BY <1>8 DEF streamVars, provider, request, Asking, Talked, AnswerGiven
<1> QED
  BY <1>1, <1>2, <1>3, <1>4, <1>5, <1>6, <1>7, <1>8 DEF ExchangeNext

(* The numbers of the pieces of a kind. *)
LEMMA NumbersAre ==
  ASSUME NEW S, NEW kinds \in Seq(S), NEW k
  PROVE  /\ Numbers(kinds, k) \in Seq(Nat)
         /\ ToSet(Numbers(kinds, k)) = {i \in 1..Len(kinds) : kinds[i] = k}
         /\ InPairs(Numbers(kinds, k), Rising)
<1>1. Numbers(kinds, k) = Places(kinds, k)
  BY DEF Numbers, Places
<1> QED
  BY <1>1, PlacesAre, Zenon

----------------------------------------------------------------------------
(* Whole answers. *)

AnItem == [kind : Replies, ns : Seq(Nat)]

(* The pieces in the items of a kind, as the client finds them. *)
Found(items, k) == FlattenSeq([i \in DOMAIN items |->
                       IF items[i].kind = k THEN items[i].ns ELSE <<>>])
Holds(items, k) == {n \in Nat : \E i \in 1..Len(items) :
                       items[i].kind = k /\ n \in ToSet(items[i].ns)}

LEMMA FoundIs ==
  ASSUME NEW items \in Seq(AnItem), NEW k,
         \A i \in 1..Len(items) : items[i].kind = k => InPairs(items[i].ns, Rising),
         \A i, j \in 1..Len(items) : i < j /\ items[i].kind = k /\ items[j].kind = k =>
             \A a \in ToSet(items[i].ns), b \in ToSet(items[j].ns) : <<a, b>> \in Rising
  PROVE  /\ Found(items, k) \in Seq(Nat)
         /\ ToSet(Found(items, k)) = Holds(items, k)
         /\ InPairs(Found(items, k), Rising)
<1> DEFINE L == Len(items)
           ss == [i \in DOMAIN items |-> IF items[i].kind = k THEN items[i].ns ELSE <<>>]
<1>1. L \in Nat /\ DOMAIN items = 1..L /\ \A i \in 1..L : items[i] \in AnItem
  BY LenProperties
<1>2. \A i \in 1..L : items[i].ns \in Seq(Nat)
  BY <1>1 DEF AnItem
<1>3. /\ \A i \in 1..L : items[i].kind = k => ss[i] = items[i].ns
      /\ \A i \in 1..L : items[i].kind # k => ss[i] = <<>>
  BY <1>1
<1>4. Len(ss) = L /\ DOMAIN ss = 1..L /\ (L = 0 => ss = <<>>)
  BY <1>1
<1>5. Found(items, k) = FlattenSeq(ss)
  BY DEF Found
<1> HIDE DEF ss
<1>6. <<>> \in Seq(Nat) /\ InPairs(<<>>, Rising)
  BY DEF InPairs
<1>7. ToSet(<<>>) = {}
  BY DEF ToSet
<1>8. \A i \in 1..L : ss[i] \in Seq(Nat) /\ InPairs(ss[i], Rising)
  BY <1>2, <1>3, <1>6
<1>9. \A i \in 1..L : ToSet(ss[i]) = IF items[i].kind = k THEN ToSet(items[i].ns) ELSE {}
  BY <1>3, <1>7
<1>10. FlattenSeq(ss) \in Seq(Nat) /\ ToSet(FlattenSeq(ss)) = UNION {ToSet(ss[i]) : i \in 1..L}
  BY <1>1, <1>4, <1>8, ElementsFlat
<1>11. InPairs(FlattenSeq(ss), Rising)
  <2>1. /\ DOMAIN ss = 1..Len(ss) /\ Len(ss) \in Nat /\ (Len(ss) = 0 => ss = <<>>)
        /\ \A i \in 1..Len(ss) : ss[i] \in Seq(Nat)
        /\ \A i \in 1..Len(ss) : InPairs(ss[i], Rising)
    BY <1>1, <1>4, <1>8
  <2>2. \A i, j \in 1..Len(ss) : i < j =>
           \A a \in ToSet(ss[i]), b \in ToSet(ss[j]) : <<a, b>> \in Rising
    BY <1>4, <1>9
  <2> QED
    BY <2>1, <2>2, PairsFlat
<1>12. UNION {ToSet(ss[i]) : i \in 1..L} = Holds(items, k)
  <2>1. ASSUME NEW x \in UNION {ToSet(ss[i]) : i \in 1..L} PROVE x \in Holds(items, k)
    <3>1. PICK i \in 1..L : x \in ToSet(ss[i])
      OBVIOUS
    <3>2. items[i].kind = k /\ x \in ToSet(items[i].ns)
      BY <1>9, <3>1
    <3>3. x \in Nat
      BY <1>2, <3>2, ElementsOfSeq
    <3> QED
      BY <3>2, <3>3 DEF Holds
  <2>2. ASSUME NEW x \in Holds(items, k) PROVE x \in UNION {ToSet(ss[j]) : j \in 1..L}
    <3>1. PICK i \in 1..L : items[i].kind = k /\ x \in ToSet(items[i].ns)
      BY DEF Holds
    <3>2. x \in ToSet(ss[i])
      BY <1>9, <3>1
    <3> QED
      BY <3>2
  <2> QED
    BY <2>1, <2>2
<1> QED
  BY <1>5, <1>10, <1>11, <1>12

(* The items s hold the pieces q of kind k, in order; or nothing of it. *)
Held(s, k, q) ==
    /\ s \in Seq(AnItem) /\ Holds(s, k) = ToSet(q)
    /\ \A i \in 1..Len(s) : s[i].kind = k => InPairs(s[i].ns, Rising)
    /\ \A i, j \in 1..Len(s) : i < j /\ s[i].kind = k /\ s[j].kind = k =>
           \A a \in ToSet(s[i].ns), b \in ToSet(s[j].ns) : <<a, b>> \in Rising
Free(s, k) == s \in Seq(AnItem) /\ \A i \in 1..Len(s) : s[i].kind # k

LEMMA ItemsJoined ==
  ASSUME NEW s \in Seq(AnItem), NEW t \in Seq(AnItem)
  PROVE  /\ s \o t \in Seq(AnItem) /\ Len(s) \in Nat /\ Len(t) \in Nat
         /\ Len(s \o t) = Len(s) + Len(t)
         /\ \A i \in 1..Len(s) : i \in 1..Len(s \o t) /\ (s \o t)[i] = s[i]
         /\ \A i \in 1..Len(t) : /\ Len(s) + i \in 1..Len(s \o t)
                                 /\ (s \o t)[Len(s) + i] = t[i]
         /\ \A i \in 1..Len(s \o t) : i \in 1..Len(s) \/ i - Len(s) \in 1..Len(t)
<1> DEFINE u == s \o t
<1>1. /\ u \in Seq(AnItem) /\ Len(s) \in Nat /\ Len(t) \in Nat /\ Len(u) = Len(s) + Len(t)
      /\ \A i \in 1..(Len(s) + Len(t)) : u[i] = IF i <= Len(s) THEN s[i] ELSE t[i - Len(s)]
  BY ConcatProperties
<1> HIDE DEF u
<1>2. \A i \in 1..Len(t) : /\ Len(s) + i \in 1..Len(u) /\ ~(Len(s) + i <= Len(s))
                           /\ (Len(s) + i) - Len(s) = i
  BY <1>1
<1>3. \A i \in 1..Len(t) : u[Len(s) + i] = t[i]
  BY <1>1, <1>2
<1> QED
  BY <1>1, <1>2, <1>3 DEF u

LEMMA FreeJoined ==
  ASSUME NEW k, NEW s, NEW t, Free(s, k), Free(t, k)
  PROVE  Free(s \o t, k)
<1>1. s \in Seq(AnItem) /\ t \in Seq(AnItem)
  BY DEF Free
<1> DEFINE u == s \o t
<1>2. /\ u \in Seq(AnItem) /\ Len(s) \in Nat /\ Len(t) \in Nat
      /\ \A i \in 1..Len(s) : u[i] = s[i]
      /\ \A i \in 1..Len(t) : u[Len(s) + i] = t[i]
      /\ \A i \in 1..Len(u) : i \in 1..Len(s) \/ i - Len(s) \in 1..Len(t)
  BY <1>1, ItemsJoined
<1> HIDE DEF u
<1>3. ASSUME NEW i \in 1..Len(u), i - Len(s) \in 1..Len(t) PROVE u[i] = t[i - Len(s)]
  <2> DEFINE j == i - Len(s)
  <2>1. Len(s) + j = i /\ j \in 1..Len(t)
    BY <1>2, <1>3, LenProperties
  <2> HIDE DEF j
  <2> QED
    BY <1>2, <2>1 DEF j
<1>4. Free(u, k)
  BY <1>2, <1>3 DEF Free
<1> QED
  BY <1>4 DEF u

(* What lacks a kind changes nothing of it, in front or behind. *)
LEMMA HeldJoined ==
  ASSUME NEW k, NEW q, NEW s, NEW t,
         (Held(s, k, q) /\ Free(t, k)) \/ (Free(s, k) /\ Held(t, k, q))
  PROVE  Held(s \o t, k, q)
<1>1. s \in Seq(AnItem) /\ t \in Seq(AnItem)
  BY DEF Free, Held
<1> DEFINE u == s \o t
           m == Len(s)
<1>2. /\ u \in Seq(AnItem) /\ m \in Nat /\ Len(t) \in Nat
      /\ \A i \in 1..m : i \in 1..Len(u) /\ u[i] = s[i]
      /\ \A i \in 1..Len(t) : m + i \in 1..Len(u) /\ u[m + i] = t[i]
      /\ \A i \in 1..Len(u) : i \in 1..m \/ i - m \in 1..Len(t)
  BY <1>1, ItemsJoined
<1> HIDE DEF u, m
<1>3. ASSUME NEW i \in 1..Len(u), i - m \in 1..Len(t) PROVE u[i] = t[i - m]
  <2> DEFINE j == i - m
  <2>1. m + j = i /\ j \in 1..Len(t)
    BY <1>2, <1>3, LenProperties
  <2> HIDE DEF j
  <2> QED
    BY <1>2, <2>1 DEF j
<1>4. Holds(u, k) = Holds(s, k) \cup Holds(t, k)
  <2>1. Holds(u, k) \subseteq Holds(s, k) \cup Holds(t, k)
    BY <1>2, <1>3 DEF Holds, m
  <2>2. Holds(s, k) \cup Holds(t, k) \subseteq Holds(u, k)
    BY <1>2 DEF Holds, m
  <2> QED
    BY <2>1, <2>2
<1>5. ASSUME Held(s, k, q), Free(t, k) PROVE Held(u, k, q)
  <2>1. \A i \in 1..Len(u) : u[i].kind = k => i \in 1..m /\ u[i] = s[i]
    BY <1>2, <1>3, <1>5 DEF Free
  <2>2. Holds(t, k) = {}
    BY <1>5 DEF Free, Holds
  <2> QED
    BY <1>2, <1>4, <1>5, <2>1, <2>2 DEF Held, m
<1>6. ASSUME Free(s, k), Held(t, k, q) PROVE Held(u, k, q)
  <2>1. \A i \in 1..Len(u) : u[i].kind = k => i - m \in 1..Len(t) /\ u[i] = t[i - m]
    BY <1>2, <1>3, <1>6 DEF Free, m
  <2>2. Holds(s, k) = {}
    BY <1>6 DEF Free, Holds
  <2>3. \A i, j \in 1..Len(u) : i < j => i - m < j - m
    BY <1>2, LenProperties
  <2>4. ASSUME NEW i \in 1..Len(u), NEW j \in 1..Len(u), i < j, u[i].kind = k, u[j].kind = k
        PROVE  \A a \in ToSet(u[i].ns), b \in ToSet(u[j].ns) : <<a, b>> \in Rising
    <3> DEFINE d == i - m
               e == j - m
    <3>1. d \in 1..Len(t) /\ e \in 1..Len(t) /\ d < e /\ u[i] = t[d] /\ u[j] = t[e]
      BY <2>1, <2>3, <2>4
    <3> HIDE DEF d, e
    <3> QED
      BY <1>6, <2>4, <3>1 DEF Held
  <2>5. \A i \in 1..Len(u) : u[i].kind = k => InPairs(u[i].ns, Rising)
    BY <1>6, <2>1 DEF Held
  <2>6. u \in Seq(AnItem) /\ Holds(u, k) = ToSet(q)
    BY <1>2, <1>4, <1>6, <2>2 DEF Held
  <2> QED
    BY <2>4, <2>5, <2>6 DEF Held
<1> QED
  BY <1>5, <1>6 DEF u

(* An item that is there unless there is nothing to say. *)
LEMMA OneItem ==
  ASSUME NEW k \in Replies, NEW q \in Seq(Nat), InPairs(q, Rising), NEW it,
         NEW b \in BOOLEAN, b => q = <<>>, ~b => it = Item(k, q)
  PROVE  Held(Unless(b, it), k, q) /\ \A j : j # k => Free(Unless(b, it), j)
<1> DEFINE s == Unless(b, it)
<1>1. CASE b
  <2>1. s = <<>> /\ q = <<>>
    BY <1>1 DEF Unless
  <2> HIDE DEF s
  <2>2. s \in Seq(AnItem) /\ Len(s) = 0 /\ ToSet(q) = {}
    BY <2>1 DEF ToSet
  <2>3. Held(s, k, q) /\ \A j : Free(s, j)
    BY <2>2 DEF Held, Free, Holds
  <2> QED
    BY <2>3 DEF s
<1>2. CASE ~b
  <2>1. s = <<it>>
    BY <1>2 DEF Unless
  <2>2. it \in AnItem /\ it.kind = k /\ it.ns = q
    BY <1>2 DEF Item, AnItem
  <2> HIDE DEF s
  <2>3. s \in Seq(AnItem) /\ Len(s) = 1 /\ s[1] = it
    BY <2>1, <2>2
  <2>4. ToSet(q) \subseteq Nat
    BY ElementsOfSeq
  <2>5. Holds(s, k) = ToSet(q)
    BY <2>2, <2>3, <2>4 DEF Holds
  <2>6. Held(s, k, q) /\ \A j : j # k => Free(s, j)
    BY <2>2, <2>3, <2>5 DEF Held, Free
  <2> QED
    BY <2>6 DEF s
<1> QED
  BY <1>1, <1>2

LEMMA CallsAreItems ==
  ASSUME NEW c \in Seq(Nat), InPairs(c, Rising)
  PROVE  Held(CallItems(c), "call", c) /\ \A j : j # "call" => Free(CallItems(c), j)
<1> DEFINE C == CallItems(c)
<1>1. \A n \in Nat : /\ Item("call", <<n>>) \in AnItem
                     /\ Item("call", <<n>>).kind = "call" /\ Item("call", <<n>>).ns = <<n>>
  BY DEF Item, AnItem, Replies
<1>2. Len(c) \in Nat /\ DOMAIN c = 1..Len(c) /\ \A i \in 1..Len(c) : c[i] \in Nat
  OBVIOUS
<1>3. C = [i \in 1..Len(c) |-> Item("call", <<c[i]>>)]
  BY <1>2 DEF CallItems
<1> HIDE DEF C
<1>4. C \in [1..Len(c) -> AnItem]
  BY <1>1, <1>2, <1>3
<1>5. C \in Seq(AnItem) /\ Len(C) = Len(c)
  BY <1>2, <1>4, SeqDef
<1>6. \A i \in 1..Len(c) : C[i].kind = "call" /\ C[i].ns = <<c[i]>>
  BY <1>1, <1>2, <1>3
<1>7. ASSUME NEW n
      PROVE  ToSet(<<n>>) = {n} /\ InPairs(<<n>>, Rising)
  <2> DEFINE one == <<n>>
  <2>1. DOMAIN one = {1} /\ one[1] = n /\ ~\E d, e \in 1..Len(one) : d < e
    OBVIOUS
  <2> HIDE DEF one
  <2>2. ToSet(one) = {n} /\ InPairs(one, Rising)
    BY <2>1 DEF ToSet, InPairs
  <2> QED
    BY <2>2 DEF one
<1>8. \A i \in 1..Len(C) : ToSet(C[i].ns) = {c[i]} /\ InPairs(C[i].ns, Rising)
  BY <1>5, <1>6, <1>7
<1>9. Holds(C, "call") = ToSet(c)
  <2>1. ToSet(c) = {c[i] : i \in 1..Len(c)}
    BY <1>2 DEF ToSet
  <2> QED
    BY <1>2, <1>5, <1>6, <1>8, <2>1 DEF Holds
<1>10. \A i, j \in 1..Len(C) : i < j => <<c[i], c[j]>> \in Rising
  BY <1>5 DEF InPairs
<1>11. Held(C, "call", c)
  BY <1>5, <1>8, <1>9, <1>10 DEF Held
<1>12. \A j : j # "call" => Free(C, j)
  BY <1>5, <1>6 DEF Free
<1> QED
  BY <1>11, <1>12 DEF C

(* What the client of a whole answer is told of the reason. *)
LEMMA ToldIs ==
  ASSUME NEW s \in Sink, NEW reason \in Causes
  PROVE  /\ ToldAs(s, reason) \in {"length", "max_tokens", "incomplete"} <=> reason = "limit"
         /\ s # "responses" =>
                (ToldAs(s, reason) \in {"tool_calls", "tool_use"} <=> reason = "tool")
<1> DEFINE told == ToldAs(s, reason)
<1>1. /\ reason = "end" => FinishReason(reason) = "stop"
      /\ reason = "limit" => FinishReason(reason) = "length"
      /\ reason = "tool" => FinishReason(reason) = "tool_calls"
  BY FinishIs DEF Causes
<1> DEFINE f == FinishReason(reason)
<1>2. f \in {"stop", "length", "tool_calls"} /\ (f = "length" <=> reason = "limit")
      /\ (f = "tool_calls" <=> reason = "tool")
  BY <1>1 DEF Causes
<1> HIDE DEF f
<1>3. CASE s = "chat"
  <2>1. told = f
    BY <1>3 DEF f, ToldAs
  <2> QED
    BY <1>2, <2>1
<1>4. CASE s = "messages"
  <2>1. told = StopReason(f)
    BY <1>4 DEF f, ToldAs
  <2> QED
    BY <1>2, <2>1, StopReasons
<1>5. CASE s = "responses"
  <2>1. told = Status(f)
    BY <1>5 DEF f, ToldAs
  <2> QED
    BY <1>2, <1>5, <2>1, StatusIs
<1> QED
  BY <1>3, <1>4, <1>5 DEF Sink

(* The signature a client gets. *)
Signed == IF protocol = "openai" /\ sink = "chat" THEN Numbers(answer.kinds, "signature")
          ELSE <<>>

LEMMA AnswerFollows == ExchangeTypeOK /\ AnswerGiven => AnswerFaithful
<1> SUFFICES ASSUME ExchangeTypeOK, AnswerGiven, phase = "answered" PROVE AnswerFaithful
  BY Zenon DEF AnswerFaithful
<1> DEFINE kinds == answer.kinds
           items == answer.items
           m == Fields(protocol, kinds)
           kept(k) == {i \in 1..Len(kinds) : kinds[i] = k /\ k \notin Unanswered}
<1>1. /\ kinds \in Seq(Replies) /\ answer.reason \in Causes
      /\ items = ToClient(sink, m)
      /\ answer.told = ToldAs(sink, answer.reason)
      /\ sink \in Sink
  BY DEF AnswerGiven, ExchangeTypeOK, StreamTypeOK
<1>2. /\ answer.told \in {"length", "max_tokens", "incomplete"} <=> answer.reason = "limit"
      /\ sink # "responses" =>
            (answer.told \in {"tool_calls", "tool_use"} <=> answer.reason = "tool")
  BY <1>1, ToldIs
<1>3. /\ m.reasoning = Numbers(kinds, "thinking") /\ m.text = Numbers(kinds, "text")
      /\ m.calls = Numbers(kinds, "call")
      /\ m.signature = IF protocol = "openai" THEN Numbers(kinds, "signature") ELSE <<>>
  BY DEF Fields
<1> DEFINE q(k) == CASE k = "thinking" -> m.reasoning [] k = "signature" -> Signed
                     [] k = "text" -> m.text [] k = "call" -> m.calls
<1> HIDE DEF m, kinds
<1>4. \A k : /\ Numbers(kinds, k) \in Seq(Nat)
             /\ ToSet(Numbers(kinds, k)) = {i \in 1..Len(kinds) : kinds[i] = k}
             /\ InPairs(Numbers(kinds, k), Rising)
  BY <1>1, NumbersAre
<1> DEFINE A == Unless(m.reasoning = <<>>, Item("thinking", m.reasoning))
           B == Unless(sink # "chat" \/ m.signature = <<>>, Item("signature", m.signature))
           C == Unless(sink # "responses" /\ m.text = <<>>, Item("text", m.text))
           D == CallItems(m.calls)
<1>5. items = A \o B \o C \o D
  BY <1>1 DEF ToClient
<1>6. Signed \in Seq(Nat) /\ InPairs(Signed, Rising) /\ ToSet(Signed) = kept("signature")
  <2>1. CASE protocol = "openai" /\ sink = "chat"
    <3>1. Signed = Numbers(kinds, "signature") /\ Unanswered = {}
      BY <2>1 DEF Signed, Unanswered, kinds
    <3> QED
      BY <1>4, <3>1
  <2>2. CASE ~(protocol = "openai" /\ sink = "chat")
    <3>1. Signed = <<>> /\ Unanswered = {"signature"}
      BY <2>2 DEF Signed, Unanswered
    <3>2. <<>> \in Seq(Nat) /\ InPairs(<<>>, Rising) /\ ToSet(<<>>) = {}
      BY DEF InPairs, ToSet
    <3> QED
      BY <3>1, <3>2
  <2> QED
    BY <2>1, <2>2
<1>7. /\ m.reasoning \in Seq(Nat) /\ InPairs(m.reasoning, Rising)
      /\ m.text \in Seq(Nat) /\ InPairs(m.text, Rising)
      /\ m.calls \in Seq(Nat) /\ InPairs(m.calls, Rising)
  BY <1>3, <1>4
<1>8. \A k \in Replies : ToSet(q(k)) = kept(k)
  <2>1. \A k \in Replies : k # "signature" => k \notin Unanswered
    BY DEF Unanswered
  <2> QED
    BY <1>3, <1>4, <1>6, <2>1 DEF Replies
<1>9. Held(A, "thinking", m.reasoning) /\ \A j : j # "thinking" => Free(A, j)
  BY <1>7, OneItem DEF Replies
<1>10. Held(B, "signature", Signed) /\ \A j : j # "signature" => Free(B, j)
  <2> DEFINE none == sink # "chat" \/ m.signature = <<>>
             it == Item("signature", m.signature)
  <2>1. (none => Signed = <<>>) /\ (~none => it = Item("signature", Signed))
    BY <1>3 DEF Signed, kinds
  <2> HIDE DEF it
  <2>2. none \in BOOLEAN /\ "signature" \in Replies
    BY DEF Replies
  <2> HIDE DEF none
  <2>3. /\ Held(Unless(none, it), "signature", Signed)
        /\ \A j : j # "signature" => Free(Unless(none, it), j)
    BY <1>6, <2>1, <2>2, OneItem
  <2> QED
    BY <2>3 DEF none, it
<1>11. Held(C, "text", m.text) /\ \A j : j # "text" => Free(C, j)
  BY <1>7, OneItem DEF Replies
<1>12. Held(D, "call", m.calls) /\ \A j : j # "call" => Free(D, j)
  BY <1>7, CallsAreItems
<1> HIDE DEF A, B, C, D
<1>13. \A k \in Replies : Held(items, k, q(k))
  <2>1. Held(items, "thinking", m.reasoning)
    BY <1>5, <1>9, <1>10, <1>11, <1>12, HeldJoined
  <2>2. Held(items, "signature", Signed)
    BY <1>5, <1>9, <1>10, <1>11, <1>12, HeldJoined
  <2>3. Held(items, "text", m.text)
    <3>1. Free(A \o B, "text")
      BY <1>9, <1>10, FreeJoined
    <3> QED
      BY <1>5, <1>11, <1>12, <3>1, HeldJoined
  <2>4. Held(items, "call", m.calls)
    <3>1. Free(A \o B, "call")
      BY <1>9, <1>10, FreeJoined
    <3>2. Free(A \o B \o C, "call")
      BY <1>11, <3>1, FreeJoined
    <3> QED
      BY <1>5, <1>12, <3>2, HeldJoined
  <2> QED
    BY <2>1, <2>2, <2>3, <2>4 DEF Replies
<1> HIDE DEF q, items, kept
<1>14. ASSUME NEW k \in Replies
       PROVE  /\ ToSet(Found(items, k)) = kept(k) /\ Found(items, k) \in Seq(Nat)
              /\ InPairs(Found(items, k), Rising)
  <2>1. Held(items, k, q(k)) /\ ToSet(q(k)) = kept(k)
    BY <1>8, <1>13
  <2> QED
    BY <2>1, FoundIs DEF Held
<1>15. DOMAIN kinds = 1..Len(kinds)
  BY <1>1
<1>16. ASSUME NEW k \in Replies
       PROVE  /\ ToSet(Found(items, k)) = {i \in DOMAIN kinds :
                                              kinds[i] = k /\ k \notin Unanswered}
              /\ \A i, j \in DOMAIN Found(items, k) :
                    i < j => Found(items, k)[i] < Found(items, k)[j]
  <2>1. DOMAIN Found(items, k) = 1..Len(Found(items, k))
    BY <1>14
  <2> QED
    BY <1>14, <1>15, <2>1 DEF InPairs, Rising, kept
<1>17. \A k \in Replies : Found(items, k) = FlattenSeq([i \in DOMAIN items |->
                             IF items[i].kind = k THEN items[i].ns ELSE <<>>])
  BY DEF Found
<1> QED
  BY <1>2, <1>16, <1>17, Zenon DEF AnswerFaithful, Replies, kinds, items

(* A whole answer has every piece of the completion but the signature that *)
(* Unanswered says is lost, once, as what it is and in the order of its    *)
(* kind, and says why the model stopped, whatever the protocol, the        *)
(* endpoint and the completion                                             *)
(* (TransformResponse, chatResponseToAnthropic, chatResponseToResponses);  *)
(* and an exchange keeps its types: no request and no stream outlives its  *)
(* phase.                                                                  *)
THEOREM AnswersFaithful == ExchangeSpec => []AnswerFaithful
<1>1. ExchangeInit => Asking /\ AnswerGiven
  BY AskingInit DEF ExchangeInit, AnswerGiven
<1>2. ExchangeSpec => []StreamTypeOK
  BY ExchangeStreams, StreamsTyped, PTL
<1>3. ExchangeSpec => [](Asking /\ AnswerGiven)
  BY <1>1, <1>2, AskingStep, PTL DEF ExchangeSpec
<1>4. StreamTypeOK /\ Asking /\ AnswerGiven => AnswerFaithful
  BY TypeOfExchange, AnswerFollows
<1> QED
  BY <1>2, <1>3, <1>4, PTL

----------------------------------------------------------------------------
(* The settings of a request.                                              *)

(* What the settings of a request are, of any client. *)
AnySettings ==
    [max : Nat, completion : Nat, thinking : {"none", "enabled", "adaptive"},
     budget : Nat, effort : {"none", "low"}, temperature : BOOLEAN, tools : BOOLEAN,
     choice : {"unset", "auto", "required", "none", "named"}]

(* What the provider received is the translation of what the client set.   *)
SettingsSent ==
    phase = "sent" =>
        /\ settings.asked \in AnySettings
        /\ settings.given = TransformSettings(protocol, ChatSettings(sink, settings.asked))

SettingsInv == protocol \in Protocol /\ sink \in Sink /\ SettingsSent

(* What a client may set is a setting. *)
LEMMA SettingsAreSettings == Settings \cup {Usual} \subseteq AnySettings
<1>1. Settings \subseteq AnySettings
  BY DEF Settings, AnySettings
<1>2. Usual \in AnySettings
  BY DEF Usual, AnySettings
<1> QED
  BY <1>1, <1>2

(* The endpoint keeps all settings but the choice of a tool. *)
LEMMA ChatKeeps ==
  ASSUME NEW k \in Sink, NEW s \in AnySettings
  PROVE  LET c == ChatSettings(k, s)
         IN  /\ c.max = s.max /\ c.completion = s.completion
             /\ c.thinking = s.thinking /\ c.budget = s.budget /\ c.effort = s.effort
             /\ c.temperature = s.temperature /\ c.tools = s.tools
             /\ c.choice = IF k = "messages" /\ s.choice = "none" THEN "unset"
                           ELSE IF k = "responses" /\ s.choice = "named"
                           THEN "named item" ELSE s.choice
<1>1. CASE k = "chat"
  BY <1>1 DEF ChatSettings
<1>2. CASE k = "messages"
  BY <1>2 DEF ChatSettings, AnySettings
<1>3. CASE k = "responses"
  BY <1>3 DEF ChatSettings, AnySettings
<1> QED
  BY <1>1, <1>2, <1>3 DEF Sink

(* A budget leaves room for the answer. *)
LEMMA RoomForAnswer ==
  ASSUME NEW limit \in Nat, NEW budget \in Nat
  PROVE  /\ Enlarged(limit, budget) > budget
         /\ \/ Enlarged(limit, budget) = limit
            \/ Enlarged(limit, budget) > limit /\ limit <= budget
  BY DEF Enlarged

LEMMA AnthropicGiven ==
  ASSUME NEW k \in Sink, NEW s \in AnySettings
  PROVE  LET g == AnthropicSettings(ChatSettings(k, s))
         IN  /\ g.thinking = "enabled" /\ g.budget > 0 =>
                    g.max > g.budget /\ g.temperature = FALSE
             /\ Limit(s) # 0 =>
                    \/ g.max = Limit(s)
                    \/ /\ g.thinking = "enabled" /\ g.budget > 0
                       /\ g.max > Limit(s) /\ Limit(s) <= g.budget
             /\ g.temperature => s.temperature
<1> DEFINE c == ChatSettings(k, s)
           budget   == IF c.thinking # "none" THEN c.budget
                       ELSE IF c.effort \in DOMAIN EffortBudget THEN EffortBudget[c.effort]
                       ELSE 0
           thinking == IF c.thinking = "none" /\ budget > 0 THEN "enabled" ELSE c.thinking
           exact    == thinking = "enabled" /\ budget > 0
           limit    == IF Limit(c) = 0 THEN 4096 ELSE Limit(c)
           g        == AnthropicSettings(c)
<1>1. /\ c.max = s.max /\ c.completion = s.completion
      /\ c.thinking = s.thinking /\ c.budget = s.budget /\ c.effort = s.effort
      /\ c.temperature = s.temperature
  BY ChatKeeps
<1>2. /\ g.max = IF exact THEN Enlarged(limit, budget) ELSE limit
      /\ g.thinking = thinking /\ g.budget = budget
      /\ g.temperature = (c.temperature /\ ~exact /\ thinking # "adaptive")
  BY DEF AnthropicSettings
<1>3. Limit(c) = Limit(s)
  BY <1>1 DEF Limit
<1>4. Limit(s) \in Nat /\ s.budget \in Nat
  BY DEF Limit, AnySettings
<1>5. budget \in Nat
  BY <1>1, <1>4 DEF EffortBudget
<1>6. limit \in Nat
  BY <1>3, <1>4
<1>7. exact => g.max > budget /\ (g.max = limit \/ (g.max > limit /\ limit <= budget))
  BY <1>2, <1>5, <1>6, RoomForAnswer
<1>8. ~exact => g.max = limit
  BY <1>2
<1>9. exact <=> g.thinking = "enabled" /\ g.budget > 0
  BY <1>2
<1>10. g.temperature => c.temperature /\ ~exact
  BY <1>2
<1>11. g.temperature \in BOOLEAN
  BY <1>2
<1>12. g.budget = budget
  BY <1>2
<1> HIDE DEF c, budget, thinking, exact, limit, g
<1>13. g.thinking = "enabled" /\ g.budget > 0 => g.max > g.budget /\ g.temperature = FALSE
  BY <1>7, <1>9, <1>10, <1>11, <1>12
<1>14. Limit(s) # 0 =>
           \/ g.max = Limit(s)
           \/ /\ g.thinking = "enabled" /\ g.budget > 0
              /\ g.max > Limit(s) /\ Limit(s) <= g.budget
  BY <1>3, <1>7, <1>8, <1>9, <1>12 DEF limit
<1>15. g.temperature => s.temperature
  BY <1>1, <1>10
<1> QED
  BY <1>13, <1>14, <1>15 DEF g, c

(* What the provider is told of the tools. *)
ChoiceKept(p, k, s, g) ==
    /\ s.choice = "none" => ~g.tools \/ g.choice = "none"
    /\ s.choice = "required" => g.choice = "required"
    /\ s.choice = "named" =>
           \/ g.choice = "named"
           \/ k = "responses" /\ g.choice = "named item"
           \/ k = "responses" /\ p = "anthropic"

LEMMA ChoiceGiven ==
  ASSUME NEW p \in Protocol, p = "openai" \/ p = "anthropic",
         NEW k \in Sink, NEW s \in AnySettings, s.tools = TRUE,
         k # "messages" \/ s.choice # "none"
  PROVE  ChoiceKept(p, k, s, TransformSettings(p, ChatSettings(k, s)))
<1> DEFINE c == ChatSettings(k, s)
           g == TransformSettings(p, c)
<1>1. /\ c.tools = s.tools
      /\ c.choice = IF k = "responses" /\ s.choice = "named" THEN "named item" ELSE s.choice
  BY ChatKeeps
<1>2. CASE p = "openai"
  <2>1. g.choice = c.choice
    BY <1>2 DEF TransformSettings, OpenAISettings, PlainSettings
  <2> HIDE DEF c, g
  <2>2. ChoiceKept(p, k, s, g)
    BY <1>1, <2>1 DEF ChoiceKept
  <2> QED
    BY <2>2 DEF c, g
<1>3. CASE p = "anthropic"
  <2>1. g = AnthropicSettings(c)
    BY <1>3 DEF TransformSettings
  <2> HIDE DEF c, g
  <2>2. /\ g.tools = (c.tools /\ c.choice # "none")
        /\ g.choice = IF (c.tools /\ c.choice # "none") /\ c.choice # "named item"
                      THEN c.choice ELSE "unset"
    BY <2>1 DEF AnthropicSettings
  <2>3. c.tools
    BY <1>1
  <2>4. /\ c.choice = "none" => ~g.tools
        /\ c.choice # "none" /\ c.choice # "named item" => g.choice = c.choice
    BY <2>2, <2>3
  <2>5. \/ c.choice = s.choice
        \/ c.choice = "named item" /\ s.choice = "named" /\ k = "responses"
    BY <1>1
  <2>6. ChoiceKept(p, k, s, g)
    BY <1>3, <2>4, <2>5 DEF ChoiceKept
  <2> QED
    BY <2>6 DEF c, g
<1> QED
  BY <1>2, <1>3

LEMMA OtherGiven ==
  ASSUME NEW p \in Protocol, p # "anthropic", NEW k \in Sink, NEW s \in AnySettings
  PROVE  LET g == TransformSettings(p, ChatSettings(k, s))
         IN  g.max = Limit(s) /\ g.temperature = s.temperature
<1> DEFINE c == ChatSettings(k, s)
           g == TransformSettings(p, c)
<1>1. c.max = s.max /\ c.completion = s.completion /\ c.temperature = s.temperature
  BY ChatKeeps
<1>2. Limit(c) = Limit(s)
  BY <1>1 DEF Limit
<1>3. CASE p = "openai"
  <2>1. g = OpenAISettings(c)
    BY <1>3 DEF TransformSettings
  <2>2. g.max = Limit(c) /\ g.temperature = c.temperature
    BY <2>1 DEF OpenAISettings, PlainSettings
  <2> QED
    BY <1>1, <1>2, <2>2
<1>4. CASE p # "openai"
  <2>1. g = PlainSettings(c)
    BY <1>4 DEF TransformSettings, Protocol
  <2>2. g.max = Limit(c) /\ g.temperature = c.temperature
    BY <2>1 DEF PlainSettings
  <2> QED
    BY <1>1, <1>2, <2>2
<1> QED
  BY <1>3, <1>4

LEMMA SettingsFollow == SettingsInv => SettingsKept
<1> SUFFICES ASSUME SettingsInv, phase = "sent"
             PROVE  SettingsKept
  BY DEF SettingsKept
<1> DEFINE asked == settings.asked
           given == settings.given
<1>1. /\ protocol \in Protocol /\ sink \in Sink /\ asked \in AnySettings
      /\ given = TransformSettings(protocol, ChatSettings(sink, asked))
  BY DEF SettingsInv, SettingsSent
<1>4. asked.tools /\ Told => ChoiceKept(protocol, sink, asked, given)
  <2> SUFFICES ASSUME asked.tools, Told
               PROVE  ChoiceKept(protocol, sink, asked, given)
    OBVIOUS
  <2>1. /\ protocol = "openai" \/ protocol = "anthropic"
        /\ sink # "messages" \/ asked.choice # "none"
    BY DEF Told
  <2>2. asked.tools = TRUE
    BY <1>1 DEF AnySettings
  <2> QED
    BY <1>1, <2>1, <2>2, ChoiceGiven
<1>2. CASE protocol = "anthropic"
  <2>1. given = AnthropicSettings(ChatSettings(sink, asked))
    BY <1>1, <1>2 DEF TransformSettings
  <2>2. /\ given.thinking = "enabled" /\ given.budget > 0 =>
               given.max > given.budget /\ given.temperature = FALSE
        /\ Limit(asked) # 0 =>
               \/ given.max = Limit(asked)
               \/ /\ given.thinking = "enabled" /\ given.budget > 0
                  /\ given.max > Limit(asked) /\ Limit(asked) <= given.budget
        /\ given.temperature => asked.temperature
    BY <1>1, <2>1, AnthropicGiven
  <2>3. asked.tools /\ Told => ChoiceKept(protocol, sink, asked, given)
    BY <1>4
  <2> HIDE DEF asked, given
  <2> QED
    BY <1>2, <2>2, <2>3 DEF SettingsKept, ChoiceKept, asked, given
<1>3. CASE protocol # "anthropic"
  <2>1. given.max = Limit(asked) /\ given.temperature = asked.temperature
    BY <1>1, <1>3, OtherGiven
  <2>2. asked.tools /\ Told => ChoiceKept(protocol, sink, asked, given)
    BY <1>4
  <2> HIDE DEF asked, given
  <2> QED
    BY <1>3, <2>1, <2>2 DEF SettingsKept, ChoiceKept, asked, given
<1> QED
  BY <1>2, <1>3

LEMMA SettingsStep ==
  ASSUME SettingsInv, [ExchangeNext]_<<streamVars, phase, request, answer>>
  PROVE  SettingsInv'
<1> USE DEF SettingsInv, SettingsSent, request, streamVars, provider
<1>1. ASSUME NEW turn, Say(turn) PROVE SettingsInv'
  BY <1>1 DEF Say
<1>2. CASE SayMuch
  BY <1>2 DEF SayMuch
<1>3. ASSUME NEW n, Mark(n) PROVE SettingsInv'
  BY <1>3 DEF Mark
<1>4. ASSUME NEW s \in Settings \cup {Usual}, NEW oauth, Send(s, oauth) PROVE SettingsInv'
  <2>1. s \in AnySettings
    BY SettingsAreSettings
  <2>2. settings'.asked = s /\ settings'.given = TransformSettings(protocol, ChatSettings(sink, s))
    BY <1>4 DEF Send
  <2>3. UNCHANGED <<protocol, sink>>
    BY <1>4 DEF Send
  <2> QED
    BY <2>1, <2>2, <2>3
<1>5. CASE Accepted
  BY <1>5 DEF Accepted
<1>6. ASSUME NEW kinds, NEW reason, AnswerWhole(kinds, reason) PROVE SettingsInv'
  BY <1>6 DEF AnswerWhole
<1>7. CASE Stream
  <2>1. UNCHANGED <<protocol, sink>>
    BY <1>7 DEF Stream, StreamNext, Receive, UpstreamCloses, UpstreamBreaks
  <2> QED
    BY <1>7, <2>1 DEF Stream
<1>8. CASE UNCHANGED <<streamVars, phase, request, answer>>
  BY <1>8
<1> QED
  BY <1>1, <1>2, <1>3, <1>4, <1>5, <1>6, <1>7, <1>8 DEF ExchangeNext

(* Whatever the client sets, and for every provider and endpoint, what it  *)
(* set holds for the provider (AnthropicTranslator.TransformRequest).      *)
THEOREM SettingsHold == ExchangeSpec => []SettingsKept
<1>1. ExchangeInit => SettingsInv
  BY StreamAssumption DEF ExchangeInit, StreamInit, SettingsInv, SettingsSent
<1>2. SettingsInv /\ [ExchangeNext]_<<streamVars, phase, request, answer>> => SettingsInv'
  BY SettingsStep
<1> QED
  BY <1>1, <1>2, SettingsFollow, PTL DEF ExchangeSpec

----------------------------------------------------------------------------
(* What the client asked, and what Anthropic is asked to cache of it.      *)

(* A block is a record of its fields. *)
Blocky(b) == /\ b = [kind |-> b.kind, ns |-> b.ns, of |-> b.of, mark |-> b.mark]
             /\ b.ns \in Seq(Nat) /\ b.mark \in BOOLEAN

(* The block b of the turn t has one piece, and the mark when that has it. *)
OnePiece(b, t) ==
    /\ Blocky(b)
    /\ \E n \in DOMAIN pieces :
          /\ b.ns = <<n>> /\ pieces[n] = [kind |-> b.kind, turn |-> t]
          /\ b.mark <=> n = marked

(* What the endpoint s lets a client say in a turn.                        *)
Shape(s, role, kinds) ==
    /\ kinds # {}
    /\ s = "chat" => /\ "call" \in kinds => role = "assistant"
                     /\ kinds \cap {"text", "image_url", "result", "call"} # {}
                     /\ role = "tool" => "result" \in kinds
    /\ s = "messages" => role # "tool"

(* The turn t is one its endpoint lets a client say, of blocks of one      *)
(* piece.                                                                  *)
Spoken(t) ==
    LET u == talk[t]
    IN  /\ ATurn(u) /\ u.role \in Roles /\ IsSeq(u.blocks)
        /\ \A b \in ToSet(u.blocks) : OnePiece(b, t)
        /\ Shape(sink, u.role, {b.kind : b \in ToSet(u.blocks)})

(* Each turn is spoken, and each piece is in one. *)
Conversing ==
    /\ IsSeq(talk) /\ IsSeq(pieces)
    /\ \A t \in DOMAIN talk : Spoken(t)
    /\ \A n \in DOMAIN pieces :
          \E t \in DOMAIN talk : \E b \in ToSet(talk[t].blocks) : b.ns = <<n>>

(* The provider has what both translations make of the conversation. *)
RequestSent ==
    LET translated == TransformRequest(protocol, ToChat(sink, talk))
    IN  phase = "sent" => body = translated \/ body = WithBilling(translated)

(* The inductive invariant of a request, until it is answered. *)
Conversation ==
    phase \in {"asking", "asked", "sent"} =>
        Conversing /\ RequestSent /\ (sink = "responses" => marked = 0)

(* A turn is said in some kinds, of those that the endpoint has. *)
LEMMA SomeOf ==
  ASSUME NEW K, NEW q \in SeqsUpTo(K)
  PROVE  ToSet(q) \subseteq K /\ ToSet(q) # {}
<1>1. PICK n \in 1..MaxKinds : q \in [1..n -> K]
  BY DEF SeqsUpTo
<1>2. n \in Nat /\ n >= 1
  BY <1>1, ExchangeAssumption
<1>3. DOMAIN q = 1..n /\ \A i \in 1..n : q[i] \in K
  BY <1>1
<1>4. 1 \in DOMAIN q
  BY <1>2, <1>3
<1> QED
  BY <1>3, <1>4 DEF ToSet

(* What a client may say has the shape of its endpoint. *)
LEMMA TurnsShaped ==
  ASSUME NEW s \in Sink, NEW turn \in TurnsOf(s)
  PROVE  Shape(s, turn.role, ToSet(turn.kinds))
<1> DEFINE Shaped(x) == Shape(s, x.role, ToSet(x.kinds))
<1>1. \A r, f, q : Said(r, f, q).role = r /\ Said(r, f, q).kinds = q
  BY DEF Said
<1>2. ASSUME NEW R, NEW x \in Strings(R)
      PROVE  x.role \in R /\ ToSet(x.kinds) = {"text"}
  <2>1. PICK r \in R : x = Said(r, "string", <<"text">>)
    BY DEF Strings
  <2>2. ToSet(<<"text">>) = {"text"}
    BY IsSeqOne
  <2> QED
    BY <1>1, <2>1, <2>2, Zenon
<1>3. CASE s = "chat"
  <2>0. turn \in ChatTurns
    BY <1>3 DEF TurnsOf
  <2>1. CASE turn \in Strings({"system", "developer", "user", "assistant"})
    <3>1. turn.role # "tool" /\ ToSet(turn.kinds) = {"text"}
      BY <1>2, <2>1
    <3> QED
      BY <1>3, <3>1 DEF Shape
  <2>2. CASE turn \in {Said("system", "parts", <<"text", "text">>)}
    <3>1. turn.role = "system" /\ turn.kinds = <<"text", "text">>
      BY <1>1, <2>2
    <3>2. ToSet(turn.kinds) = {"text"}
      <4>1. ToSet(<<"text", "text">>) = {"text", "text"}
        BY SetOfTwo
      <4> QED
        BY <3>1, <4>1, Zenon
    <3> QED
      BY <1>3, <3>1, <3>2 DEF Shape
  <2>3. CASE turn \in {Said("user", "parts", q) : q \in SeqsUpTo({"text", "image_url"})}
    <3>1. PICK q \in SeqsUpTo({"text", "image_url"}) : turn = Said("user", "parts", q)
      BY <2>3
    <3>2. turn.role = "user" /\ turn.kinds = q
      BY <1>1, <3>1
    <3>3. ToSet(q) \subseteq {"text", "image_url"} /\ ToSet(q) # {}
      BY SomeOf
    <3> QED
      BY <1>3, <3>2, <3>3 DEF Shape
  <2>4. CASE turn \in {Said("assistant", f, <<"text", "call">>) : f \in {"string", "parts"}}
    <3>1. turn.role = "assistant" /\ turn.kinds = <<"text", "call">>
      BY <1>1, <2>4
    <3>2. ToSet(turn.kinds) = {"text", "call"}
      <4>1. ToSet(<<"text", "call">>) = {"text", "call"}
        BY SetOfTwo
      <4> QED
        BY <3>1, <4>1, Zenon
    <3> QED
      BY <1>3, <3>1, <3>2 DEF Shape
  <2>5. CASE turn \in {Said("assistant", "string", q) : q \in {<<"thinking", "text">>,
                                                  <<"call">>, <<"call", "call">>}}
    <3>1. PICK q \in {<<"thinking", "text">>, <<"call">>, <<"call", "call">>} :
              turn = Said("assistant", "string", q)
      BY <2>5
    <3>2. turn.role = "assistant" /\ turn.kinds = q
      BY <1>1, <3>1
    <3>3. ToSet(q) = {"thinking", "text"} \/ ToSet(q) = {"call"}
      <4>1. /\ ToSet(<<"thinking", "text">>) = {"thinking", "text"}
            /\ ToSet(<<"call", "call">>) = {"call", "call"}
            /\ ToSet(<<"call">>) = {"call"}
        BY SetOfTwo, IsSeqOne
      <4>2. {"call", "call"} = {"call"}
        OBVIOUS
      <4>3. q = <<"thinking", "text">> \/ q = <<"call">> \/ q = <<"call", "call">>
        OBVIOUS
      <4> QED
        BY <4>1, <4>2, <4>3, Zenon
    <3> QED
      BY <1>3, <3>2, <3>3 DEF Shape
  <2>6. CASE turn \in {Said("tool", f, <<"result">>) : f \in {"string", "parts"}}
    <3>1. turn.role = "tool" /\ turn.kinds = <<"result">>
      BY <1>1, <2>6
    <3>2. ToSet(turn.kinds) = {"result"}
      <4>1. ToSet(<<"result">>) = {"result"}
        BY IsSeqOne
      <4> QED
        BY <3>1, <4>1, Zenon
    <3> QED
      BY <1>3, <3>1, <3>2 DEF Shape
  <2> QED
    BY <2>0, <2>1, <2>2, <2>3, <2>4, <2>5, <2>6, Zenon DEF ChatTurns
<1>4. CASE s = "messages"
  <2>0. turn \in MessagesTurns
    BY <1>4 DEF TurnsOf
  <2>1. CASE turn \in Strings({"user", "assistant"})
    <3>1. turn.role # "tool" /\ ToSet(turn.kinds) = {"text"}
      BY <1>2, <2>1
    <3> QED
      BY <1>4, <3>1 DEF Shape
  <2>2. ASSUME NEW K, NEW r \in {"system", "user", "assistant"},
               turn \in {Said(r, "parts", q) : q \in SeqsUpTo(K)}
        PROVE  Shaped(turn)
    <3>1. PICK q \in SeqsUpTo(K) : turn = Said(r, "parts", q)
      BY <2>2
    <3>2. turn.role = r /\ turn.kinds = q /\ r # "tool"
      BY <1>1, <3>1
    <3>3. ToSet(q) # {}
      BY SomeOf
    <3> QED
      BY <1>4, <3>2, <3>3 DEF Shape
  <2>3. \/ turn \in Strings({"user", "assistant"})
        \/ turn \in {Said("system", "parts", q) : q \in SeqsUpTo({"text"})}
        \/ turn \in {Said("user", "parts", q) : q \in SeqsUpTo({"text", "image", "result"})}
        \/ turn \in {Said("assistant", "parts", q) : q \in SeqsUpTo({"text", "thinking", "call"})}
    BY <2>0, Zenon DEF MessagesTurns
  <2> QED
    BY <2>1, <2>2, <2>3
<1>5. CASE s = "responses"
  <2>0. turn \in ResponsesTurns
    BY <1>5 DEF TurnsOf
  <2>1. ASSUME NEW R, turn \in Strings(R) PROVE ToSet(turn.kinds) # {}
    BY <1>2, <2>1
  <2>2. ASSUME turn \in {Said("user", "parts", q) : q \in SeqsUpTo({"input_text", "input_image"})}
        PROVE  ToSet(turn.kinds) # {}
    <3>1. PICK q \in SeqsUpTo({"input_text", "input_image"}) : turn = Said("user", "parts", q)
      BY <2>2
    <3>2. turn.kinds = q /\ ToSet(q) # {}
      BY <1>1, <3>1, SomeOf
    <3> QED
      BY <3>2
  <2>3. ASSUME turn \in {Said("assistant", "parts", q) :
                            q \in {<<"output_text">>, <<"thinking">>, <<"call">>}}
        PROVE  ToSet(turn.kinds) # {}
    <3>1. PICK q \in {<<"output_text">>, <<"thinking">>, <<"call">>} :
              turn = Said("assistant", "parts", q)
      BY <2>3
    <3>2. turn.kinds = q
      BY <1>1, <3>1
    <3>3. PICK k : q = <<k>>
      OBVIOUS
    <3>4. ToSet(q) = {k}
      BY <3>3, IsSeqOne, Zenon
    <3> QED
      BY <3>2, <3>4
  <2>4. ASSUME turn \in {Said("tool", "parts", <<"result">>)}
        PROVE  ToSet(turn.kinds) # {}
    <3>1. turn.kinds = <<"result">>
      BY <1>1, <2>4
    <3>2. ToSet(<<"result">>) = {"result"}
      BY IsSeqOne
    <3> QED
      BY <3>1, <3>2
  <2>5. ToSet(turn.kinds) # {}
    <3>1. \/ turn \in Strings({"developer", "user", "assistant"})
          \/ turn \in Strings({"system"})
          \/ turn \in {Said("user", "parts", q) : q \in SeqsUpTo({"input_text", "input_image"})}
          \/ turn \in {Said("assistant", "parts", q) :
                            q \in {<<"output_text">>, <<"thinking">>, <<"call">>}}
          \/ turn \in {Said("tool", "parts", <<"result">>)}
      BY <2>0, Zenon DEF ResponsesTurns
    <3> QED
      BY <2>1, <2>2, <2>3, <2>4, <3>1, Zenon
  <2> QED
    BY <1>5, <2>5 DEF Shape
<1> QED
  BY <1>3, <1>4, <1>5 DEF Sink

(* A new turn: its pieces are new, and the earlier turns keep theirs. *)
LEMMA SayConverses ==
  ASSUME Conversing, marked = 0, NEW turn \in TurnSaid,
         Shape(sink, turn.role, ToSet(turn.kinds)), Say(turn)
  PROVE  Conversing'
<1> DEFINE K == turn.kinds
           t1 == [role |-> turn.role, form |-> turn.form, blocks |-> Blocks(K)]
           news == [i \in DOMAIN K |-> [kind |-> K[i], turn |-> Len(talk) + 1]]
           L == Len(talk)
           N == Len(pieces)
           B == Blocks(K)
           of(i) == IF K[i] # "result" THEN 0
                    ELSE CallOf(Results(Kinds) + Results(SubSeq(K, 1, i)))
<1>1. /\ talk' = Append(talk, t1) /\ pieces' = pieces \o news
      /\ sink' = sink /\ marked' = marked
  BY DEF Say, streamVars, provider
<1>2. /\ IsSeq(talk) /\ IsSeq(pieces) /\ \A t \in DOMAIN talk : Spoken(t)
      /\ \A n \in DOMAIN pieces :
            \E t \in DOMAIN talk : \E b \in ToSet(talk[t].blocks) : b.ns = <<n>>
  BY DEF Conversing
<1>3. /\ L \in Nat /\ DOMAIN talk = 1..L /\ N \in Nat /\ DOMAIN pieces = 1..N
  BY <1>2, SeqIs
<1>4. /\ IsSeq(K) /\ Len(K) \in Nat /\ DOMAIN K = 1..Len(K)
      /\ \A x \in ToSet(K) : \E i \in 1..Len(K) : K[i] = x
      /\ \A i \in 1..Len(K) : K[i] \in ToSet(K)
  <2>1. K \in Seq(BlockKinds)
    BY DEF TurnSaid
  <2>2. IsSeq(K)
    BY <2>1, IsSeqFrom
  <2> HIDE DEF K
  <2> QED
    BY <2>2, SeqIs
<1>5. B = [i \in 1..Len(K) |-> Block(K[i], <<N + i>>, of(i), FALSE)]
  BY <1>4 DEF Blocks
<1>6. /\ IsSeq(B) /\ Len(B) = Len(K) /\ DOMAIN B = 1..Len(K)
      /\ ToSet(B) = {B[i] : i \in 1..Len(K)}
  <2>1. B = [i \in 1..Len(K) |-> B[i]]
    BY <1>5
  <2> HIDE DEF B
  <2> QED
    BY <1>4, <2>1, IsSeqBy
<1>7. \A i \in 1..Len(K) : /\ B[i] = [kind |-> K[i], ns |-> <<N + i>>, of |-> of(i), mark |-> FALSE]
                           /\ B[i].kind = K[i] /\ B[i].ns = <<N + i>> /\ B[i].mark = FALSE
  BY <1>5 DEF Block
<1>8. /\ IsSeq(news) /\ Len(news) = Len(K) /\ DOMAIN news = 1..Len(K)
      /\ \A i \in 1..Len(K) : news[i] = [kind |-> K[i], turn |-> L + 1]
  <2>1. news = [i \in 1..Len(K) |-> news[i]]
    BY <1>4
  <2>2. \A i \in 1..Len(K) : news[i] = [kind |-> K[i], turn |-> L + 1]
    BY <1>4
  <2> HIDE DEF news
  <2> QED
    BY <1>4, <2>1, <2>2, IsSeqBy
<1>9. /\ t1.role = turn.role /\ t1.form = turn.form /\ t1.blocks = B
      /\ turn.role \in Roles /\ ATurn(t1)
  BY DEF TurnSaid, ATurn
<1> HIDE DEF K, t1, news, L, N, B, of
<1>10. /\ IsSeq(talk') /\ DOMAIN talk' = 1..(L + 1)
       /\ \A t \in 1..L : talk'[t] = talk[t]
       /\ talk'[L + 1] = t1
  <2> DEFINE S == ToSet(talk)
  <2>1. talk \in Seq(S)
    BY <1>2 DEF IsSeq
  <2> HIDE DEF S
  <2>2. talk' \in Seq(S \cup {t1})
    BY <1>1, <2>1, AppendTyped
  <2>3. /\ Len(talk') = L + 1 /\ \A t \in 1..L : talk'[t] = talk[t]
        /\ talk'[L + 1] = t1
    BY <1>1, <2>1 DEF L
  <2>4. IsSeq(talk')
    BY <2>2, IsSeqFrom
  <2>5. DOMAIN talk' = 1..Len(talk')
    BY <2>2
  <2> QED
    BY <2>3, <2>4, <2>5
<1>11. /\ IsSeq(pieces') /\ DOMAIN pieces' = 1..(N + Len(K))
       /\ \A n \in 1..N : pieces'[n] = pieces[n]
       /\ \A i \in 1..Len(K) : pieces'[N + i] = news[i]
  <2> DEFINE S == ToSet(pieces)
             T == ToSet(news)
  <2>1. pieces \in Seq(S) /\ news \in Seq(T)
    BY <1>2, <1>8 DEF IsSeq
  <2> HIDE DEF S, T
  <2>2. pieces \in Seq(S \cup T) /\ news \in Seq(S \cup T)
    BY <2>1, LenProperties, SeqDef
  <2> DEFINE u == pieces \o news
  <2>3. /\ u \in Seq(S \cup T) /\ Len(u) = N + Len(K)
        /\ \A i \in 1..(N + Len(K)) : u[i] = IF i <= N THEN pieces[i] ELSE news[i - N]
    <3>1. Len(pieces) = N /\ Len(news) = Len(K)
      BY <1>8 DEF N
    <3>2. /\ u \in Seq(S \cup T) /\ Len(u) = Len(pieces) + Len(news)
          /\ \A i \in 1..(Len(pieces) + Len(news)) :
                u[i] = IF i <= Len(pieces) THEN pieces[i] ELSE news[i - Len(pieces)]
      BY <2>2, ConcatProperties
    <3> HIDE DEF u
    <3> QED
      BY <3>1, <3>2
  <2> HIDE DEF u
  <2>4. IsSeq(u) /\ DOMAIN u = 1..Len(u)
    BY <2>3, IsSeqFrom, LenProperties
  <2>5. \A n \in 1..N : u[n] = pieces[n]
    BY <1>3, <1>4, <2>3
  <2>6. \A i \in 1..Len(K) : u[N + i] = news[i]
    <3> TAKE i \in 1..Len(K)
    <3>1. N + i \in 1..(N + Len(K)) /\ ~(N + i <= N) /\ N + i - N = i
      BY <1>3, <1>4
    <3>2. PICK m : m = N + i
      OBVIOUS
    <3>3. m \in 1..(N + Len(K)) /\ ~(m <= N) /\ m - N = i
      BY <1>3, <1>4, <3>2
    <3>4. u[m] = IF m <= N THEN pieces[m] ELSE news[m - N]
      BY <2>3, <3>3
    <3> QED
      BY <3>2, <3>3, <3>4
  <2> QED
    BY <1>1, <2>3, <2>4, <2>5, <2>6 DEF u
<1>12. ASSUME NEW t \in 1..L PROVE Spoken(t)'
  <2>1. Spoken(t)
    BY <1>2, <1>3
  <2> DEFINE u == talk[t]
  <2>2. talk'[t] = u
    BY <1>10
  <2>3. ASSUME NEW b, OnePiece(b, t) PROVE OnePiece(b, t)'
    <3>1. PICK n \in 1..N : /\ b.ns = <<n>> /\ pieces[n] = [kind |-> b.kind, turn |-> t]
                            /\ b.mark <=> n = marked
      BY <1>3, <2>3 DEF OnePiece
    <3>2. n \in DOMAIN pieces' /\ pieces'[n] = pieces[n]
      BY <1>3, <1>4, <1>11
    <3>3. Blocky(b)
      BY <2>3 DEF OnePiece
    <3> QED
      BY <1>1, <3>1, <3>2, <3>3 DEF OnePiece
  <2>4. /\ ATurn(u) /\ u.role \in Roles /\ IsSeq(u.blocks)
        /\ \A b \in ToSet(u.blocks) : OnePiece(b, t)
        /\ Shape(sink, u.role, {b.kind : b \in ToSet(u.blocks)})
    BY <2>1 DEF Spoken
  <2> HIDE DEF u
  <2> QED
    BY <1>1, <2>2, <2>3, <2>4, Zenon DEF Spoken
<1>l. PICK l : l = L + 1
  OBVIOUS
<1>13. Spoken(l)'
  <2>1. ASSUME NEW b \in ToSet(B) PROVE OnePiece(b, l)'
    <3>1. PICK i \in 1..Len(K) : b = B[i]
      BY <1>6
    <3>2. /\ b = [kind |-> K[i], ns |-> <<N + i>>, of |-> of(i), mark |-> FALSE]
          /\ b.kind = K[i] /\ b.ns = <<N + i>> /\ b.mark = FALSE
      BY <1>7, <3>1
    <3>3. Blocky(b)
      <4>1. b = [kind |-> b.kind, ns |-> b.ns, of |-> b.of, mark |-> b.mark]
        BY <3>2
      <4>2. N + i \in Nat
        BY <1>3, <1>4
      <4> DEFINE n == N + i
      <4>3. n \in Nat /\ b.ns = <<n>>
        BY <3>2, <4>2
      <4> HIDE DEF n
      <4>4. b.ns \in Seq(Nat)
        BY <4>3
      <4> QED
        BY <3>2, <4>1, <4>4 DEF Blocky
    <3>4. N + i \in DOMAIN pieces' /\ pieces'[N + i] = news[i] /\ N + i # marked'
      BY <1>1, <1>3, <1>4, <1>11
    <3>5. news[i] = [kind |-> K[i], turn |-> l]
      BY <1>8, <1>l
    <3> DEFINE n == N + i
    <3>6. /\ n \in DOMAIN pieces' /\ b.ns = <<n>>
          /\ pieces'[n] = [kind |-> b.kind, turn |-> l]
          /\ b.mark = FALSE /\ n # marked'
      BY <3>2, <3>4, <3>5
    <3> HIDE DEF n
    <3> QED
      BY <3>3, <3>6 DEF OnePiece
  <2>2. {b.kind : b \in ToSet(B)} = ToSet(K)
    <3>1. \A b \in ToSet(B) : b.kind \in ToSet(K)
      BY <1>4, <1>6, <1>7
    <3>2. \A x \in ToSet(K) : \E b \in ToSet(B) : b.kind = x
      BY <1>4, <1>6, <1>7
    <3> QED
      BY <3>1, <3>2
  <2>3. Shape(sink, turn.role, {b.kind : b \in ToSet(B)})
    <3>1. Shape(sink, turn.role, ToSet(K))
      BY DEF K
    <3> QED
      BY <2>2, <3>1, Zenon
  <2> QED
    BY <1>1, <1>6, <1>9, <1>10, <1>l, <2>1, <2>3, Zenon DEF Spoken
<1>14. \A n \in DOMAIN pieces' :
          \E t \in DOMAIN talk' : \E b \in ToSet(talk'[t].blocks) : b.ns = <<n>>
  <2> SUFFICES ASSUME NEW n \in 1..(N + Len(K))
               PROVE  \E t \in 1..(L + 1) : \E b \in ToSet(talk'[t].blocks) : b.ns = <<n>>
    BY <1>10, <1>11
  <2>1. CASE n <= N
    <3>1. n \in DOMAIN pieces
      BY <1>3, <2>1
    <3>2. PICK t \in 1..L : \E b \in ToSet(talk[t].blocks) : b.ns = <<n>>
      BY <1>2, <1>3, <3>1
    <3>3. t \in 1..(L + 1) /\ talk'[t] = talk[t]
      BY <1>3, <1>10
    <3> QED
      BY <3>2, <3>3
  <2>2. CASE ~(n <= N)
    <3>1. n - N \in 1..Len(K) /\ N + (n - N) = n
      BY <1>3, <1>4, <2>2
    <3> DEFINE i == n - N
    <3>2. B[i] \in ToSet(B) /\ B[i].ns = <<n>>
      BY <1>6, <1>7, <3>1
    <3>3. talk'[L + 1].blocks = B /\ L + 1 \in 1..(L + 1)
      BY <1>3, <1>9, <1>10
    <3> HIDE DEF i
    <3> QED
      BY <3>2, <3>3
  <2> QED
    BY <2>1, <2>2
<1>15. \A t \in DOMAIN talk' : Spoken(t)'
  <2>1. \A t \in 1..(L + 1) : t \in 1..L \/ t = L + 1
    BY <1>3
  <2> QED
    BY <1>10, <1>12, <1>13, <1>l, <2>1
<1> QED
  BY <1>10, <1>11, <1>14, <1>15, Zenon DEF Conversing

(* A long conversation has one piece in each turn. *)
LEMMA SayMuchConverses ==
  ASSUME marked = 0, SayMuch
  PROVE  Conversing'
<1> DEFINE one(t) == <<Block("text", <<t>>, 0, FALSE)>>
<1>0. LongTurns \in Nat
  BY ExchangeAssumption
<1>1. /\ talk' = [t \in 1..LongTurns |->
                    [role |-> LongRole(t), form |-> LongForm, blocks |-> one(t)]]
      /\ pieces' = [t \in 1..LongTurns |-> [kind |-> "text", turn |-> t]]
      /\ sink' = sink /\ marked' = marked
  BY DEF SayMuch, streamVars, provider
<1>2. IsSeq(talk') /\ DOMAIN talk' = 1..LongTurns
  <2>1. talk' = [t \in 1..LongTurns |-> talk'[t]]
    BY <1>1
  <2> QED
    BY <1>0, <2>1, IsSeqBy
<1>3. IsSeq(pieces') /\ DOMAIN pieces' = 1..LongTurns
  <2>1. pieces' = [t \in 1..LongTurns |-> pieces'[t]]
    BY <1>1
  <2> QED
    BY <1>0, <2>1, IsSeqBy
<1>4. ASSUME NEW t \in 1..LongTurns
      PROVE  /\ Spoken(t)'
             /\ \E b \in ToSet(talk'[t].blocks) : b.ns = <<t>>
  <2> DEFINE b == Block("text", <<t>>, 0, FALSE)
             u == talk'[t]
  <2>1. /\ u = [role |-> LongRole(t), form |-> LongForm, blocks |-> <<b>>]
        /\ u.role = LongRole(t) /\ u.blocks = <<b>> /\ ATurn(u)
    BY <1>1 DEF LongForm, Form, ATurn
  <2>2. /\ b = [kind |-> b.kind, ns |-> b.ns, of |-> b.of, mark |-> b.mark]
        /\ b.kind = "text" /\ b.ns = <<t>> /\ b.mark = FALSE
    BY DEF Block
  <2>3. t \in Nat /\ t # 0
    BY <1>0
  <2>4. pieces'[t] = [kind |-> "text", turn |-> t]
    BY <1>1
  <2>5. u.role \in Roles
    BY <2>1 DEF LongRole, Roles
  <2>6. u.role # "tool"
    BY <2>1 DEF LongRole
  <2> HIDE DEF b, u
  <2>7. b.ns \in Seq(Nat)
    BY <2>2, <2>3
  <2>8. OnePiece(b, t)'
    BY <1>1, <1>3, <2>2, <2>3, <2>4, <2>7 DEF OnePiece, Blocky
  <2>9. IsSeq(u.blocks) /\ ToSet(u.blocks) = {b}
    BY <2>1, IsSeqOne, Zenon
  <2>10. {c.kind : c \in ToSet(u.blocks)} = {"text"}
    BY <2>2, <2>9
  <2>11. Shape(sink, u.role, {"text"})
    BY <2>6 DEF Shape
  <2>12. \A c \in ToSet(u.blocks) : OnePiece(c, t)'
    BY <2>8, <2>9
  <2>13. Shape(sink', u.role, {c.kind : c \in ToSet(u.blocks)})
    BY <1>1, <2>10, <2>11, Zenon
  <2>14. Spoken(t)'
    BY <2>1, <2>5, <2>9, <2>12, <2>13, Zenon DEF Spoken, u
  <2> QED
    BY <2>2, <2>9, <2>14 DEF u
<1> QED
  BY <1>2, <1>3, <1>4 DEF Conversing

(* A mark is that of the one block with the marked piece. *)
LEMMA MarkConverses ==
  ASSUME Conversing, marked = 0, NEW n, Mark(n)
  PROVE  Conversing'
<1> DEFINE mark(b) == Block(b.kind, b.ns, b.of, b.ns = <<n>>)
           bs(t) == [i \in DOMAIN talk[t].blocks |-> mark(talk[t].blocks[i])]
<1>1. /\ talk' = [t \in DOMAIN talk |->
                    [talk[t] EXCEPT !.blocks =
                       [i \in DOMAIN @ |-> Block(@[i].kind, @[i].ns, @[i].of, @[i].ns = <<n>>)]]]
      /\ marked' = n /\ pieces' = pieces /\ sink' = sink
  BY DEF Mark, streamVars, provider
<1>2. /\ IsSeq(talk) /\ IsSeq(pieces) /\ \A t \in DOMAIN talk : Spoken(t)
      /\ \A m \in DOMAIN pieces :
            \E t \in DOMAIN talk : \E b \in ToSet(talk[t].blocks) : b.ns = <<m>>
  BY DEF Conversing
<1>3. Len(talk) \in Nat /\ DOMAIN talk = 1..Len(talk)
  BY <1>2, SeqIs
<1>4. IsSeq(talk') /\ DOMAIN talk' = DOMAIN talk
  <2>1. talk' = [t \in 1..Len(talk) |-> talk'[t]]
    BY <1>1, <1>3
  <2> QED
    BY <1>3, <2>1, IsSeqBy
<1>5. ASSUME NEW t \in DOMAIN talk
      PROVE  /\ Spoken(t)'
             /\ \A m : (\E b \in ToSet(talk[t].blocks) : b.ns = <<m>>)
                          => \E b \in ToSet(talk'[t].blocks) : b.ns = <<m>>
  <2> DEFINE u == talk[t]
             v == talk'[t]
             c == bs(t)
             W == u.blocks
  <2>1. /\ ATurn(u) /\ u.role \in Roles /\ IsSeq(W)
        /\ \A b \in ToSet(W) : OnePiece(b, t)
        /\ Shape(sink, u.role, {b.kind : b \in ToSet(W)})
    BY <1>2 DEF Spoken
  <2>2. v = [u EXCEPT !.blocks = c]
    BY <1>1
  <2>3. /\ Len(W) \in Nat /\ DOMAIN W = 1..Len(W)
        /\ \A i \in 1..Len(W) : W[i] \in ToSet(W)
        /\ \A b \in ToSet(W) : \E i \in 1..Len(W) : W[i] = b
    BY <2>1, SeqIs
  <2>4. c = [i \in 1..Len(W) |-> mark(W[i])]
    BY <2>3
  <2> HIDE DEF u, c, W
  <2>5. u = [role |-> u.role, form |-> u.form, blocks |-> u.blocks] /\ u.form \in Form
    BY <2>1 DEF ATurn
  <2>6. v.role = u.role /\ v.blocks = c /\ ATurn(v)
    BY <2>2, <2>5 DEF ATurn
  <2> HIDE DEF v
  <2>7. /\ IsSeq(c) /\ ToSet(c) = {c[i] : i \in 1..Len(W)}
    <3>1. c = [i \in 1..Len(W) |-> c[i]]
      BY <2>4
    <3> QED
      BY <2>3, <3>1, IsSeqBy
  <2>8. \A i \in 1..Len(W) : /\ c[i] = mark(W[i]) /\ c[i].kind = W[i].kind /\ c[i].ns = W[i].ns
                             /\ c[i].mark = (W[i].ns = <<n>>)
    BY <2>4 DEF Block
  <2>9. ASSUME NEW b \in ToSet(c) PROVE OnePiece(b, t)'
    <3>1. PICK i \in 1..Len(W) : b = c[i]
      BY <2>7
    <3> DEFINE a == W[i]
    <3>2. OnePiece(a, t) /\ Blocky(a)
      BY <2>1, <2>3 DEF OnePiece
    <3>3. /\ b = mark(a) /\ b.kind = a.kind /\ b.ns = a.ns /\ b.mark = (a.ns = <<n>>)
      BY <2>8, <3>1
    <3> HIDE DEF a
    <3>4. PICK m \in DOMAIN pieces : a.ns = <<m>> /\ pieces[m] = [kind |-> a.kind, turn |-> t]
      BY <3>2 DEF OnePiece
    <3>5. Blocky(b)
      <4>1. b.mark \in BOOLEAN
        BY <3>3
      <4>2. b = [kind |-> b.kind, ns |-> b.ns, of |-> b.of, mark |-> b.mark]
        BY <3>3 DEF Block
      <4> QED
        BY <3>2, <3>3, <4>1, <4>2 DEF Blocky
    <3>6. b.mark <=> m = n
      <4>1. <<m>> = <<n>> <=> m = n
        OBVIOUS
      <4> QED
        BY <3>3, <3>4, <4>1
    <3> QED
      BY <1>1, <3>3, <3>4, <3>5, <3>6 DEF OnePiece
  <2>10. {b.kind : b \in ToSet(c)} = {b.kind : b \in ToSet(W)}
    <3>1. \A b \in ToSet(c) : \E a \in ToSet(W) : a.kind = b.kind
      BY <2>3, <2>7, <2>8
    <3>2. \A a \in ToSet(W) : \E b \in ToSet(c) : a.kind = b.kind
      BY <2>3, <2>7, <2>8
    <3> QED
      BY <3>1, <3>2
  <2>11. Shape(sink, v.role, {b.kind : b \in ToSet(c)})
    BY <2>1, <2>6, <2>10, Zenon
  <2>12. Spoken(t)'
    BY <1>1, <2>1, <2>6, <2>7, <2>9, <2>11, Zenon DEF Spoken, v
  <2>13. ASSUME NEW m, NEW b \in ToSet(W), b.ns = <<m>>
         PROVE  \E a \in ToSet(c) : a.ns = <<m>>
    BY <2>3, <2>7, <2>8, <2>13
  <2> QED
    BY <2>6, <2>12, <2>13 DEF v, u, W
<1>6. \A t \in DOMAIN talk' : Spoken(t)'
  BY <1>4, <1>5
<1>7. \A m \in DOMAIN pieces' :
         \E t \in DOMAIN talk' : \E b \in ToSet(talk'[t].blocks) : b.ns = <<m>>
  <2> SUFFICES ASSUME NEW m \in DOMAIN pieces
               PROVE  \E t \in DOMAIN talk' : \E b \in ToSet(talk'[t].blocks) : b.ns = <<m>>
    BY <1>1
  <2>1. PICK t \in DOMAIN talk : \E b \in ToSet(talk[t].blocks) : b.ns = <<m>>
    BY <1>2
  <2>2. \E b \in ToSet(talk'[t].blocks) : b.ns = <<m>>
    BY <1>5, <2>1
  <2> QED
    BY <1>4, <2>2, Zenon
<1>8. IsSeq(pieces')
  BY <1>1, <1>2
<1> QED
  BY <1>4, <1>6, <1>7, <1>8, Zenon DEF Conversing

(* Nothing is said at first. *)
LEMMA ConversationInit == ExchangeInit => Conversation
<1> SUFFICES ASSUME ExchangeInit PROVE Conversation
  OBVIOUS
<1>1. talk = <<>> /\ pieces = <<>> /\ marked = 0 /\ phase = "asking"
  BY DEF ExchangeInit
<1>2. IsSeq(talk) /\ IsSeq(pieces)
  BY <1>1, IsSeqNone
<1>3. DOMAIN talk = {} /\ DOMAIN pieces = {}
  BY <1>1
<1> QED
  BY <1>1, <1>2, <1>3 DEF Conversation, Conversing, RequestSent

(* Each step of an exchange keeps the conversation, and Send translates    *)
(* it.                                                                     *)
LEMMA ConversationStep ==
  ASSUME Conversation, Asking, StreamTypeOK,
         [ExchangeNext]_<<streamVars, phase, request, answer>>
  PROVE  Conversation'
<1>0. sink \in Sink
  BY DEF StreamTypeOK
<1>1. ASSUME NEW turn \in TurnsOf(sink), Say(turn) PROVE Conversation'
  <2>1. turn \in TurnSaid /\ Shape(sink, turn.role, ToSet(turn.kinds))
    BY <1>0, TurnsTyped, TurnsShaped
  <2>2. phase = "asking" /\ phase' = "asking" /\ marked' = marked
    BY <1>1 DEF Say
  <2>3. marked = 0 /\ Conversing
    BY <2>2 DEF Asking, Conversation
  <2>4. Conversing'
    BY <1>1, <2>1, <2>3, SayConverses
  <2> QED
    BY <2>2, <2>3, <2>4 DEF Conversation, RequestSent
<1>2. CASE SayMuch
  <2>1. phase = "asking" /\ phase' = "asking" /\ marked' = marked
    BY <1>2 DEF SayMuch
  <2>2. marked = 0
    BY <2>1 DEF Asking
  <2>3. Conversing'
    BY <1>2, <2>2, SayMuchConverses
  <2> QED
    BY <2>1, <2>2, <2>3 DEF Conversation, RequestSent
<1>3. ASSUME NEW n \in Markable, Mark(n) PROVE Conversation'
  <2>1. phase = "asking" /\ phase' = "asked" /\ n # 0 /\ sink' = sink
    BY <1>3 DEF Mark, streamVars, provider
  <2>2. marked = 0 /\ Conversing
    BY <2>1 DEF Asking, Conversation
  <2>3. Conversing'
    BY <1>3, <2>2, MarkConverses
  <2>4. sink # "responses"
    BY <2>1 DEF Markable
  <2> QED
    BY <2>1, <2>3, <2>4 DEF Conversation, RequestSent
<1>4. ASSUME NEW s, NEW oauth, Send(s, oauth) PROVE Conversation'
  <2> DEFINE translated == TransformRequest(protocol, ToChat(sink, talk))
  <2>1. /\ body' = translated \/ body' = WithBilling(translated)
        /\ phase \in {"asking", "asked"}
        /\ UNCHANGED <<talk, pieces, marked, protocol, sink>>
    BY <1>4 DEF Send, streamVars, provider
  <2>2. Conversing /\ (sink = "responses" => marked = 0)
    BY <2>1 DEF Conversation
  <2>3. Conversing'
    <3>1. UNCHANGED <<talk, pieces, marked, sink>>
      BY <2>1
    <3>2. Conversing' <=> Conversing
      BY <3>1 DEF Conversing, Spoken, OnePiece
    <3> QED
      BY <2>2, <3>2
  <2>4. translated' = translated
    BY <2>1
  <2>5. RequestSent'
    <3> HIDE DEF translated
    <3>1. body' = translated' \/ body' = WithBilling(translated')
      BY <2>1, <2>4
    <3> QED
      BY <3>1, Zenon DEF RequestSent, translated
  <2> QED
    BY <2>1, <2>2, <2>3, <2>5 DEF Conversation
<1>5. CASE Accepted
  BY <1>5 DEF Accepted, Conversation
<1>6. ASSUME NEW kinds, NEW reason, AnswerWhole(kinds, reason) PROVE Conversation'
  BY <1>6 DEF AnswerWhole, Conversation
<1>7. CASE Stream
  BY <1>7 DEF Stream, Conversation
<1>8. CASE UNCHANGED <<streamVars, phase, request, answer>>
  <2>1. UNCHANGED <<talk, pieces, marked, body, phase, protocol, sink>>
    BY <1>8 DEF streamVars, provider, request
  <2>2. Conversing' <=> Conversing
    BY <2>1 DEF Conversing, Spoken, OnePiece
  <2>3. RequestSent' <=> RequestSent
    BY <2>1 DEF RequestSent
  <2> QED
    BY <2>1, <2>2, <2>3 DEF Conversation
<1> QED
  BY <1>1, <1>2, <1>3, <1>4, <1>5, <1>6, <1>7, <1>8 DEF ExchangeNext

(* What the client said stays as it was said until it is answered: each    *)
(* piece is in one block, of the turn it was said in, one block at most    *)
(* has the mark of the client, and the body of a request that was sent is  *)
(* what the handler and the translator of the provider make of the         *)
(* conversation (TransformRequest, handler_messages.go,                    *)
(* handler_responses.go).                                                  *)
THEOREM ConversationsHold == ExchangeSpec => []Conversation
<1>1. ExchangeInit => Asking /\ AnswerGiven /\ Conversation
  BY AskingInit, ConversationInit DEF ExchangeInit, AnswerGiven
<1>2. ExchangeSpec => []StreamTypeOK
  BY ExchangeStreams, StreamsTyped, PTL
<1>3. Asking /\ AnswerGiven /\ Conversation /\ StreamTypeOK
         /\ [ExchangeNext]_<<streamVars, phase, request, answer>>
         => (Asking /\ AnswerGiven /\ Conversation)'
  BY AskingStep, ConversationStep
<1> QED
  BY <1>1, <1>2, <1>3, PTL DEF ExchangeSpec

(* The pieces of ns are of the turn t. *)
OfTurn(ns, t) == \A n \in ToSet(ns) : TurnOf(n) = t

(* b, and bs, are blocks of the turn t; and none of them has a mark. *)
OfIts(b, t) == Blocky(b) /\ OfTurn(b.ns, t)
AllSaid(bs, t) == IsSeq(bs) /\ \A b \in ToSet(bs) : OfIts(b, t)
Clean(bs, t) == AllSaid(bs, t) /\ \A b \in ToSet(bs) : b.mark = FALSE

(* The message m is from the turn t: none of its blocks has a mark, but it *)
(* may have, when the turn has the mark of the client, and then something  *)
(* to be marked.                                                           *)
From(m, t) ==
    /\ Clean(m.content, t) /\ Clean(m.calls, t)
    /\ m.mark \in BOOLEAN
    /\ m.mark => marked # 0 /\ t = TurnOf(marked)
    /\ m.role \in Roles
    /\ m.role \in Instructing => talk[t].role \in Instructing
    /\ m.role = "tool" => m.content # <<>>
    /\ m.mark => \/ m.role \in Instructing \cup {"tool"}
                 \/ m.role = "assistant" /\ m.calls # <<>>
                 \/ m.form = "string" /\ m.content # <<>>

(* The blocks of some kinds are those blocks. *)
LEMMA OfIs ==
  ASSUME NEW bs, IsSeq(bs), NEW K
  PROVE  IsSeq(Of(bs, K)) /\ ToSet(Of(bs, K)) = {b \in ToSet(bs) : b.kind \in K}
<1> DEFINE P == {b \in ToSet(bs) : b.kind \in K}
           sel == Of(bs, K)
<1>1. DOMAIN bs = 1..Len(bs) /\ \A i \in 1..Len(bs) : bs[i] \in ToSet(bs)
  BY SeqIs
<1>2. \A i \in DOMAIN bs : bs[i].kind \in K <=> bs[i] \in P
  BY <1>1
<1> HIDE DEF P
<1>3. [i \in DOMAIN bs |-> IF bs[i].kind \in K THEN <<bs[i]>> ELSE <<>>]
      = [i \in DOMAIN bs |-> IF bs[i] \in P THEN <<bs[i]>> ELSE <<>>]
  BY <1>2
<1>4. sel = FlattenSeq([i \in DOMAIN bs |-> IF bs[i] \in P THEN <<bs[i]>> ELSE <<>>])
  BY <1>3 DEF Of
<1> HIDE DEF sel
<1>5. IsSeq(sel) /\ ToSet(sel) = {x \in ToSet(bs) : x \in P}
  BY <1>4, Selected
<1>6. {x \in ToSet(bs) : x \in P} = P
  BY DEF P
<1> QED
  BY <1>5, <1>6 DEF sel, P

(* Selecting blocks of a turn keeps them its own. *)
LEMMA OfSaid ==
  ASSUME NEW t, NEW bs, AllSaid(bs, t), NEW K
  PROVE  /\ AllSaid(Of(bs, K), t)
         /\ \A b : b \in ToSet(Of(bs, K)) <=> b \in ToSet(bs) /\ b.kind \in K
<1>1. IsSeq(Of(bs, K)) /\ ToSet(Of(bs, K)) = {b \in ToSet(bs) : b.kind \in K}
  BY OfIs DEF AllSaid
<1> QED
  BY <1>1 DEF AllSaid

(* Blocks are marked when one of them is. *)
LEMMA MarkedIs ==
  ASSUME NEW bs, IsSeq(bs)
  PROVE  Marked(bs) <=> \E b \in ToSet(bs) : b.mark
<1>1. /\ DOMAIN bs = 1..Len(bs)
      /\ \A i \in 1..Len(bs) : bs[i] \in ToSet(bs)
      /\ \A b \in ToSet(bs) : \E i \in 1..Len(bs) : bs[i] = b
  BY SeqIs
<1> QED
  BY <1>1 DEF Marked

(* Unmarked blocks of a turn are its blocks without a mark. *)
LEMMA UnmarkedIs ==
  ASSUME NEW t, NEW bs, AllSaid(bs, t)
  PROVE  Clean(Unmarked(bs), t) /\ (Unmarked(bs) = <<>> <=> bs = <<>>)
<1> DEFINE us == Unmarked(bs)
<1>1. /\ Len(bs) \in Nat /\ DOMAIN bs = 1..Len(bs) /\ (Len(bs) = 0 <=> bs = <<>>)
      /\ \A i \in 1..Len(bs) : bs[i] \in ToSet(bs)
  BY SeqIs DEF AllSaid
<1>2. us = [i \in 1..Len(bs) |-> [bs[i] EXCEPT !.mark = FALSE]]
  BY <1>1 DEF Unmarked
<1>3. us = [i \in 1..Len(bs) |-> us[i]]
      /\ \A i \in 1..Len(bs) : us[i] = [bs[i] EXCEPT !.mark = FALSE]
  BY <1>2
<1> HIDE DEF us
<1>4. IsSeq(us) /\ Len(us) = Len(bs) /\ ToSet(us) = {us[i] : i \in 1..Len(bs)}
  BY <1>1, <1>3, IsSeqBy
<1>5. ASSUME NEW i \in 1..Len(bs)
      PROVE  OfIts(us[i], t) /\ us[i].mark = FALSE
  <2> DEFINE b == bs[i]
             u == us[i]
  <2>1. OfIts(b, t) /\ u = [b EXCEPT !.mark = FALSE]
    BY <1>1, <1>3 DEF AllSaid
  <2> HIDE DEF b, u
  <2>2. /\ b = [kind |-> b.kind, ns |-> b.ns, of |-> b.of, mark |-> b.mark]
        /\ b.ns \in Seq(Nat) /\ OfTurn(b.ns, t)
    BY <2>1 DEF OfIts, Blocky
  <2>3. u = [kind |-> b.kind, ns |-> b.ns, of |-> b.of, mark |-> FALSE]
    BY <2>1, <2>2
  <2>4. u.ns = b.ns /\ u.mark = FALSE
        /\ u = [kind |-> u.kind, ns |-> u.ns, of |-> u.of, mark |-> u.mark]
    BY <2>3
  <2>5. OfIts(u, t) /\ u.mark = FALSE
    BY <2>2, <2>4 DEF OfIts, Blocky
  <2> QED
    BY <2>5 DEF u
<1>6. Len(us) = 0 <=> us = <<>>
  BY <1>4, SeqIs
<1> QED
  BY <1>1, <1>4, <1>5, <1>6 DEF Clean, AllSaid, us

(* Joined blocks of a turn are one of its blocks, without a mark. *)
LEMMA JoinedIs ==
  ASSUME NEW t, NEW bs, AllSaid(bs, t)
  PROVE  OfIts(Joined(bs), t) /\ Joined(bs).mark = FALSE /\ Joined(bs).ns = Pieces(bs)
<1> DEFINE ns == Pieces(bs)
           ss == [i \in DOMAIN bs |-> bs[i].ns]
<1>1. /\ Len(bs) \in Nat /\ DOMAIN bs = 1..Len(bs)
      /\ \A i \in 1..Len(bs) : bs[i] \in ToSet(bs)
  BY SeqIs DEF AllSaid
<1>2. ss = [i \in 1..Len(bs) |-> ss[i]] /\ \A i \in 1..Len(bs) : ss[i] = bs[i].ns
  BY <1>1
<1>3. ns = FlattenSeq(ss)
  BY DEF Pieces
<1> HIDE DEF ss, ns
<1>4. /\ Len(ss) = Len(bs) /\ DOMAIN ss = 1..Len(ss)
  BY <1>1, <1>2, IsSeqBy
<1>5. \A i \in 1..Len(bs) : ss[i] \in Seq(Nat) /\ OfTurn(ss[i], t)
  BY <1>1, <1>2 DEF AllSaid, OfIts, Blocky
<1>6. Len(ss) = 0 => ss = <<>>
  BY <1>1, <1>2, <1>4
<1>7. /\ ns \in Seq(Nat)
      /\ ToSet(ns) = UNION {ToSet(ss[i]) : i \in 1..Len(ss)}
  BY <1>1, <1>3, <1>4, <1>5, <1>6, ElementsFlat
<1>8. OfTurn(ns, t)
  BY <1>4, <1>5, <1>7 DEF OfTurn
<1> DEFINE j == Joined(bs)
<1>9. j = [kind |-> "text", ns |-> ns, of |-> 0, mark |-> FALSE]
  BY DEF Joined, Block, ns
<1> HIDE DEF j
<1>10. j.ns = ns /\ j.mark = FALSE
       /\ j = [kind |-> j.kind, ns |-> j.ns, of |-> j.of, mark |-> j.mark]
  BY <1>9
<1>11. OfIts(j, t) /\ j.mark = FALSE
  BY <1>7, <1>8, <1>10 DEF OfIts, Blocky
<1> QED
  BY <1>10, <1>11 DEF j, ns

(* One block of a turn without a mark. *)
LEMMA CleanOne ==
  ASSUME NEW t, NEW b, OfIts(b, t), b.mark = FALSE
  PROVE  Clean(<<b>>, t) /\ <<b>> # <<>>
<1>1. IsSeq(<<b>>) /\ ToSet(<<b>>) = {b} /\ <<b>> # <<>>
  BY IsSeqOne
<1> DEFINE s == <<b>>
<1>2. IsSeq(s) /\ ToSet(s) = {b} /\ s # <<>>
  BY <1>1
<1> HIDE DEF s
<1>3. Clean(s, t)
  BY <1>2 DEF Clean, AllSaid
<1> QED
  BY <1>1, <1>3 DEF s

(* No block has no mark. *)
LEMMA CleanNone == ASSUME NEW t PROVE Clean(<<>>, t)
<1> DEFINE s == <<>>
<1>1. IsSeq(s) /\ ToSet(s) = {}
  BY IsSeqNone
<1> HIDE DEF s
<1>2. Clean(s, t)
  BY <1>1 DEF Clean, AllSaid
<1> QED
  BY <1>2 DEF s

(* What the translators see of a conversation. *)
Seen == marked # 0 => marked \in DOMAIN pieces /\ ~Unseen

(* The blocks of a turn are its own, and the mark is in one of the turn it *)
(* is of.                                                                  *)
LEMMA TurnBlocks ==
  ASSUME Conversing, marked # 0 => marked \in DOMAIN pieces, NEW t \in DOMAIN talk
  PROVE  /\ AllSaid(talk[t].blocks, t)
         /\ talk[t].role \in Roles /\ talk[t].form \in Form
         /\ Shape(sink, talk[t].role, {b.kind : b \in ToSet(talk[t].blocks)})
         /\ \A b \in ToSet(talk[t].blocks) :
                b.mark => marked # 0 /\ t = TurnOf(marked) /\ b.kind = Kinds[marked]
         /\ marked # 0 /\ t = TurnOf(marked) =>
                \E b \in ToSet(talk[t].blocks) : b.mark /\ b.kind = Kinds[marked]
         /\ \A b \in ToSet(talk[t].blocks) : Has(t, b.kind)
<1>1. /\ IsSeq(pieces) /\ IsSeq(talk)
      /\ \A u \in DOMAIN talk : Spoken(u)
      /\ \A n \in DOMAIN pieces :
            \E u \in DOMAIN talk : \E b \in ToSet(talk[u].blocks) : b.ns = <<n>>
  BY DEF Conversing
<1>2. /\ ATurn(talk[t]) /\ talk[t].role \in Roles /\ IsSeq(talk[t].blocks)
      /\ Shape(sink, talk[t].role, {b.kind : b \in ToSet(talk[t].blocks)})
  BY <1>1 DEF Spoken
<1>0. 0 \notin DOMAIN pieces
  BY <1>1, SeqIs
<1>3. ASSUME NEW u \in DOMAIN talk, NEW b \in ToSet(talk[u].blocks)
      PROVE  /\ OfIts(b, u) /\ Has(u, b.kind) /\ b.mark \in BOOLEAN
             /\ \A n : b.ns = <<n>> =>
                    n \in DOMAIN pieces /\ pieces[n] = [kind |-> b.kind, turn |-> u]
                    /\ (b.mark <=> n = marked)
             /\ b.mark => b.ns = <<marked>>
             /\ \E n : b.ns = <<n>>
  <2>1. OnePiece(b, u)
    BY <1>1, <1>3 DEF Spoken
  <2>2. PICK n \in DOMAIN pieces : /\ b.ns = <<n>> /\ pieces[n] = [kind |-> b.kind, turn |-> u]
                                   /\ b.mark <=> n = marked
    BY <2>1 DEF OnePiece
  <2>3. ToSet(b.ns) = {n}
    BY <2>2, IsSeqOne, Zenon
  <2>4. OfIts(b, u)
    BY <2>1, <2>2, <2>3 DEF OfIts, OnePiece, OfTurn, TurnOf
  <2>5. Has(u, b.kind)
    BY <2>2 DEF Has
  <2>6. \A m : b.ns = <<m>> => m = n
    BY <2>2
  <2>7. b.mark \in BOOLEAN
    BY <2>1 DEF OnePiece, Blocky
  <2>8. \A m : b.ns = <<m>> =>
                    m \in DOMAIN pieces /\ pieces[m] = [kind |-> b.kind, turn |-> u]
                    /\ (b.mark <=> m = marked)
    BY <2>2, <2>6
  <2> QED
    BY <2>2, <2>4, <2>5, <2>7, <2>8
<1>4. AllSaid(talk[t].blocks, t)
  BY <1>2, <1>3 DEF AllSaid
<1>5. ASSUME NEW b \in ToSet(talk[t].blocks), b.mark
      PROVE  marked # 0 /\ t = TurnOf(marked) /\ b.kind = Kinds[marked]
  <2>1. b.ns = <<marked>>
    BY <1>3, <1>5
  <2>2. marked \in DOMAIN pieces /\ pieces[marked] = [kind |-> b.kind, turn |-> t]
    BY <1>3, <2>1
  <2> QED
    BY <1>0, <2>2 DEF TurnOf, Kinds
<1>6. ASSUME marked # 0, t = TurnOf(marked)
      PROVE  \E b \in ToSet(talk[t].blocks) : b.mark /\ b.kind = Kinds[marked]
  <2>1. marked \in DOMAIN pieces
    BY <1>6
  <2>2. PICK u \in DOMAIN talk : \E b \in ToSet(talk[u].blocks) : b.ns = <<marked>>
    BY <1>1, <2>1
  <2>3. PICK b \in ToSet(talk[u].blocks) : b.ns = <<marked>>
    BY <2>2
  <2>4. pieces[marked] = [kind |-> b.kind, turn |-> u] /\ b.mark
    BY <1>3, <2>3
  <2>5. u = t /\ b.kind = Kinds[marked]
    BY <1>6, <2>1, <2>4 DEF TurnOf, Kinds
  <2> QED
    BY <2>3, <2>4, <2>5
<1>7. talk[t].form \in Form
  BY <1>2 DEF ATurn
<1> QED
  BY <1>2, <1>3, <1>4, <1>5, <1>6, <1>7

(* The messages that a turn becomes: at most one of them instructs, and one *)
(* has the mark of the turn.                                                *)
Gives(msgs, t) ==
    /\ IsSeq(msgs)
    /\ \A m \in ToSet(msgs) : From(m, t)
    /\ \A i, j \in 1..Len(msgs) : i < j => msgs[i].role \notin Instructing
    /\ marked # 0 /\ t = TurnOf(marked) => \E m \in ToSet(msgs) : m.mark

(* A turn that becomes one message, which has its mark. *)
LEMMA GivesOne ==
  ASSUME NEW t, NEW m, From(m, t), marked # 0 /\ t = TurnOf(marked) => m.mark
  PROVE  Gives(<<m>>, t)
<1> DEFINE s == <<m>>
<1>1. IsSeq(s) /\ ToSet(s) = {m}
  BY IsSeqOne
<1>2. Len(s) = 1
  OBVIOUS
<1> HIDE DEF s
<1>3. \A i, j \in 1..Len(s) : ~(i < j)
  BY <1>2
<1>4. Gives(s, t)
  BY <1>1, <1>3 DEF Gives
<1> QED
  BY <1>4 DEF s

(* A turn that becomes nothing, when the client marked nothing. *)
LEMMA GivesNone ==
  ASSUME NEW t, marked = 0
  PROVE  Gives(<<>>, t)
<1> DEFINE s == <<>>
<1>1. IsSeq(s) /\ ToSet(s) = {}
  BY IsSeqNone
<1>2. Len(s) = 0
  OBVIOUS
<1> HIDE DEF s
<1>3. \A i, j \in 1..Len(s) : ~(i < j)
  BY <1>2
<1>4. Gives(s, t)
  BY <1>1, <1>3 DEF Gives
<1> QED
  BY <1>4 DEF s

(* A message of /chat/completions stays one. *)
LEMMA ChatGives ==
  ASSUME Conversing, Seen, sink = "chat", NEW t \in DOMAIN talk
  PROVE  Gives(<<ChatMessage(talk[t])>>, t)
<1> DEFINE u == talk[t]
           bs == u.blocks
           content == Of(bs, {"text", "image_url", "result"})
           calls == Of(bs, {"call"})
           m == ChatMessage(u)
<1>1. /\ AllSaid(bs, t)
      /\ u.role \in Roles /\ u.form \in Form
      /\ Shape(sink, u.role, {b.kind : b \in ToSet(bs)})
      /\ \A b \in ToSet(bs) : b.mark => marked # 0 /\ t = TurnOf(marked) /\ b.kind = Kinds[marked]
      /\ marked # 0 /\ t = TurnOf(marked) => \E b \in ToSet(bs) : b.mark /\ b.kind = Kinds[marked]
  BY TurnBlocks DEF Seen
<1>2. /\ m.role = u.role
      /\ m.form = IF content = <<>> THEN "none" ELSE u.form
      /\ m.content = IF u.form = "parts" THEN content ELSE Unmarked(content)
      /\ m.calls = Unmarked(calls)
      /\ m.mark = (Marked(bs) /\ ~(u.form = "parts" /\ Marked(content)))
  BY DEF ChatMessage
<1>3. marked # 0 /\ t = TurnOf(marked) => u.form # "parts" \/ Kinds[marked] = "call"
  BY DEF Seen, Unseen
<1>4. /\ AllSaid(content, t)
      /\ \A b : b \in ToSet(content) <=> b \in ToSet(bs) /\ b.kind \in {"text", "image_url", "result"}
  BY <1>1, OfSaid
<1>5. /\ AllSaid(calls, t)
      /\ \A b : b \in ToSet(calls) <=> b \in ToSet(bs) /\ b.kind \in {"call"}
  BY <1>1, OfSaid
<1> HIDE DEF u, bs, content, calls, m
<1>6. /\ \A b \in ToSet(bs) : b.mark \in BOOLEAN
      /\ Marked(bs) <=> \E b \in ToSet(bs) : b.mark
      /\ Marked(content) <=> \E b \in ToSet(content) : b.mark
      /\ content = <<>> <=> ToSet(content) = {}
      /\ calls = <<>> <=> ToSet(calls) = {}
  BY <1>1, <1>4, <1>5, MarkedIs, SomeIn DEF AllSaid, OfIts, Blocky
<1>7. u.form = "parts" => \A b \in ToSet(content) : b.mark = FALSE
  BY <1>1, <1>3, <1>4, <1>6
<1>8. Clean(m.content, t) /\ (m.content = <<>> <=> content = <<>>)
  <2>1. CASE u.form = "parts"
    BY <1>2, <1>4, <1>7, <2>1 DEF Clean
  <2>2. CASE u.form # "parts"
    BY <1>2, <1>4, <2>2, UnmarkedIs
  <2> QED
    BY <2>1, <2>2
<1>9. Clean(m.calls, t) /\ (m.calls = <<>> <=> calls = <<>>)
  BY <1>2, <1>5, UnmarkedIs
<1>10. m.mark <=> Marked(bs)
  <2>1. u.form = "parts" => ~Marked(content)
    BY <1>6, <1>7
  <2> QED
    BY <1>2, <2>1
<1>11. m.mark \in BOOLEAN
  BY <1>2
<1>12. m.mark => marked # 0 /\ t = TurnOf(marked)
  BY <1>1, <1>6, <1>10
<1>13. marked # 0 /\ t = TurnOf(marked) => m.mark
  BY <1>1, <1>6, <1>10
<1>14. /\ calls # <<>> => u.role = "assistant"
       /\ content # <<>> \/ calls # <<>>
       /\ u.role = "tool" => content # <<>>
  <2> DEFINE kinds == {b.kind : b \in ToSet(bs)}
  <2>1. /\ "call" \in kinds => u.role = "assistant"
        /\ kinds \cap {"text", "image_url", "result", "call"} # {}
        /\ u.role = "tool" => "result" \in kinds
    BY <1>1 DEF Shape
  <2>2. "call" \in kinds <=> calls # <<>>
    BY <1>5, <1>6
  <2>3. kinds \cap {"text", "image_url", "result"} # {} => content # <<>>
    BY <1>4, <1>6
  <2>4. "result" \in kinds => content # <<>>
    BY <1>4, <1>6
  <2>5. kinds \cap {"text", "image_url", "result"} # {} \/ "call" \in kinds
    BY <2>1
  <2> HIDE DEF kinds
  <2> QED
    BY <2>1, <2>2, <2>3, <2>4, <2>5
<1>15. m.mark => \/ m.role = "assistant" /\ m.calls # <<>>
                 \/ m.form = "string" /\ m.content # <<>>
  <2>1. CASE m.calls # <<>>
    BY <1>2, <1>9, <1>14, <2>1
  <2>2. CASE m.calls = <<>>
    <3>1. content # <<>> /\ m.content # <<>> /\ m.form = u.form
      BY <1>2, <1>8, <1>9, <1>14, <2>2
    <3>2. m.mark => Kinds[marked] # "call"
      <4> SUFFICES ASSUME m.mark PROVE Kinds[marked] # "call"
        OBVIOUS
      <4>1. PICK b \in ToSet(bs) : b.mark /\ b.kind = Kinds[marked]
        BY <1>1, <1>12
      <4>2. b \notin ToSet(calls)
        BY <1>6, <1>9, <2>2
      <4> QED
        BY <1>5, <4>1, <4>2
    <3>3. m.mark => u.form # "parts"
      BY <1>3, <1>12, <3>2
    <3> QED
      BY <1>1, <3>1, <3>3 DEF Form
  <2> QED
    BY <2>1, <2>2
<1>16. m.role \in Instructing => talk[t].role \in Instructing
  BY <1>2 DEF u
<1>17. From(m, t)
  <2>1. m.role \in Roles /\ (m.role = "tool" => m.content # <<>>)
    BY <1>1, <1>2, <1>8, <1>14
  <2> QED
    BY <1>8, <1>9, <1>11, <1>12, <1>15, <1>16, <2>1, Zenon DEF From
<1>18. Gives(<<m>>, t)
  BY <1>13, <1>17, GivesOne
<1> QED
  BY <1>18 DEF m, u

(* A result becomes a message of its own, with its mark. *)
LEMMA ToolMessageIs ==
  ASSUME NEW t, NEW b, OfIts(b, t), b.mark => marked # 0 /\ t = TurnOf(marked)
  PROVE  /\ From(ToolMessage(b), t) /\ ToolMessage(b).role = "tool"
         /\ ToolMessage(b).mark = b.mark
<1> DEFINE m == ToolMessage(b)
           one == <<b>>
<1>1. /\ m.role = "tool" /\ m.content = Unmarked(one) /\ m.calls = <<>> /\ m.mark = b.mark
  BY DEF ToolMessage, Message
<1>2. IsSeq(one) /\ ToSet(one) = {b} /\ one # <<>>
  BY IsSeqOne
<1> HIDE DEF m, one
<1>3. AllSaid(one, t)
  BY <1>2 DEF AllSaid
<1>4. Clean(m.content, t) /\ m.content # <<>>
  BY <1>1, <1>2, <1>3, UnmarkedIs
<1>5. Clean(m.calls, t)
  BY <1>1, CleanNone
<1>6. b.mark \in BOOLEAN
  BY DEF OfIts, Blocky
<1>7. m.role \in Roles /\ m.role \notin Instructing /\ m.role = "tool"
  BY <1>1 DEF Roles, Instructing
<1>8. m.mark \in BOOLEAN /\ (m.mark => marked # 0 /\ t = TurnOf(marked))
  BY <1>1, <1>6
<1>9. From(m, t)
  BY <1>4, <1>5, <1>7, <1>8 DEF From
<1> QED
  BY <1>1, <1>9 DEF m

(* The results of a turn become messages, and one has the mark of the      *)
(* turn.                                                                   *)
LEMMA ToolMessagesGive ==
  ASSUME NEW t, NEW results, AllSaid(results, t), results # <<>>,
         \A b \in ToSet(results) : b.mark => marked # 0 /\ t = TurnOf(marked),
         marked # 0 /\ t = TurnOf(marked) => \E b \in ToSet(results) : b.mark
  PROVE  Gives(ToolMessages(results), t)
<1> DEFINE tool == [i \in DOMAIN results |-> ToolMessage(results[i])]
           msgs == ToolMessages(results)
<1>1. /\ Len(results) \in Nat /\ DOMAIN results = 1..Len(results) /\ Len(results) # 0
      /\ \A i \in 1..Len(results) : results[i] \in ToSet(results)
      /\ \A b \in ToSet(results) : \E i \in 1..Len(results) : results[i] = b
  BY SeqIs DEF AllSaid
<1>2. /\ tool = [i \in 1..Len(results) |-> tool[i]]
      /\ \A i \in 1..Len(results) : tool[i] = ToolMessage(results[i])
  BY <1>1
<1>3. msgs = Tail(tool) \o <<Head(tool)>>
  BY DEF ToolMessages
<1> HIDE DEF tool, msgs
<1>4. IsSeq(tool) /\ Len(tool) = Len(results) /\ ToSet(tool) = {tool[i] : i \in 1..Len(results)}
  BY <1>1, <1>2, IsSeqBy
<1>5. IsSeq(msgs) /\ ToSet(msgs) = ToSet(tool)
  <2> DEFINE S == ToSet(tool)
             h == Head(tool)
             r == Tail(tool)
  <2>1. tool \in Seq(S) /\ tool # <<>>
    BY <1>1, <1>4 DEF IsSeq
  <2> HIDE DEF S
  <2>2. h \in S /\ r \in Seq(S) /\ <<h>> \o r = tool
    BY <2>1, HeadThenTail
  <2> HIDE DEF h, r
  <2>3. IsSeq(r) /\ IsSeq(<<h>>) /\ ToSet(<<h>>) = {h}
    BY <2>2, IsSeqFrom, IsSeqOne
  <2>4. /\ ToSet(<<h>> \o r) = ToSet(<<h>>) \cup ToSet(r)
        /\ IsSeq(r \o <<h>>) /\ ToSet(r \o <<h>>) = ToSet(r) \cup ToSet(<<h>>)
    BY <2>3, IsSeqConcat
  <2>5. msgs = r \o <<h>>
    BY <1>3 DEF h, r
  <2>6. ToSet(tool) = {h} \cup ToSet(r)
    BY <2>2, <2>3, <2>4, Zenon
  <2>7. ToSet(msgs) = ToSet(r) \cup {h} /\ IsSeq(msgs)
    BY <2>3, <2>4, <2>5, Zenon
  <2> QED
    BY <2>6, <2>7
<1>6. \A i \in 1..Len(results) : /\ From(tool[i], t) /\ tool[i].role = "tool"
                                 /\ tool[i].mark = results[i].mark
  BY <1>1, <1>2, ToolMessageIs DEF AllSaid
<1>7. \A m \in ToSet(msgs) : From(m, t) /\ m.role = "tool"
  BY <1>4, <1>5, <1>6
<1>8. marked # 0 /\ t = TurnOf(marked) => \E m \in ToSet(msgs) : m.mark
  BY <1>1, <1>4, <1>5, <1>6
<1>9. \A i, j \in 1..Len(msgs) : i < j => msgs[i].role \notin Instructing
  <2>1. \A i \in 1..Len(msgs) : msgs[i] \in ToSet(msgs)
    BY <1>5, SeqIs
  <2> QED
    BY <1>7, <2>1 DEF Instructing
<1>10. Gives(msgs, t)
  BY <1>5, <1>7, <1>8, <1>9 DEF Gives
<1> QED
  BY <1>10 DEF msgs

(* The messages that a turn of /v1/messages becomes                        *)
(* (anthropicToChatRequest).                                               *)
LEMMA MessagesGive ==
  ASSUME Conversing, Seen, sink = "messages", NEW t \in DOMAIN talk
  PROVE  Gives(FromMessages(talk[t]), t)
<1> DEFINE u == talk[t]
           bs == u.blocks
           results == Of(bs, {"result"})
           texts == Of(bs, {"text"})
           calls == Of(bs, {"call"})
           raw == Of(bs, {"image"}) # <<>>
           one == MessageOf(u)
           sys == SystemMessage(u)
           its == marked # 0 /\ t = TurnOf(marked)
<1>1. /\ AllSaid(bs, t)
      /\ u.role \in Roles /\ u.role # "tool"
      /\ \A b \in ToSet(bs) : b.mark => its /\ b.kind = Kinds[marked]
      /\ its => \E b \in ToSet(bs) : b.mark /\ b.kind = Kinds[marked]
      /\ \A b \in ToSet(bs) : Has(t, b.kind)
  <2>1. Shape(sink, u.role, {b.kind : b \in ToSet(bs)}) => u.role # "tool"
    BY DEF Shape
  <2> QED
    BY <2>1, TurnBlocks DEF Seen
<1>2. its => \/ Kinds[marked] = "result"
             \/ Kinds[marked] = "text" /\ ~Has(t, "result")
  BY DEF Seen, Unseen
<1>3. \/ u.role = "system" /\ FromMessages(u) = <<sys>>
      \/ results # <<>> /\ FromMessages(u) = ToolMessages(results)
      \/ u.role # "system" /\ results = <<>> /\ FromMessages(u) = <<one>>
  BY DEF FromMessages
<1>4. /\ sys.role = "system" /\ sys.content = <<Joined(bs)>> /\ sys.calls = <<>>
      /\ sys.mark = Marked(bs)
  BY DEF SystemMessage, Message
<1>5. /\ one.role = u.role
      /\ one.form = IF texts # <<>> THEN "string" ELSE IF raw THEN "parts" ELSE "none"
      /\ one.content = IF texts # <<>> THEN <<Joined(texts)>> ELSE IF raw THEN bs ELSE <<>>
      /\ one.calls = Unmarked(calls)
      /\ one.mark = Marked(texts)
  BY DEF MessageOf, Message
<1>6. /\ AllSaid(results, t)
      /\ \A b : b \in ToSet(results) <=> b \in ToSet(bs) /\ b.kind \in {"result"}
  BY <1>1, OfSaid
<1>7. /\ AllSaid(texts, t)
      /\ \A b : b \in ToSet(texts) <=> b \in ToSet(bs) /\ b.kind \in {"text"}
  BY <1>1, OfSaid
<1>8. AllSaid(calls, t)
  BY <1>1, OfSaid
<1> HIDE DEF u, bs, results, texts, calls, raw, one, sys, its
<1>9. /\ \A b \in ToSet(bs) : b.mark \in BOOLEAN
      /\ Marked(bs) <=> \E b \in ToSet(bs) : b.mark
      /\ Marked(texts) <=> \E b \in ToSet(texts) : b.mark
      /\ results = <<>> <=> ToSet(results) = {}
      /\ texts = <<>> <=> ToSet(texts) = {}
  BY <1>1, <1>6, <1>7, MarkedIs, SomeIn DEF AllSaid, OfIts, Blocky
<1>10. ASSUME u.role = "system"
       PROVE  Gives(<<sys>>, t)
  <2>1. Clean(sys.content, t)
    <3>1. OfIts(Joined(bs), t) /\ Joined(bs).mark = FALSE
      BY <1>1, JoinedIs
    <3> DEFINE j == Joined(bs)
    <3> HIDE DEF j
    <3>2. Clean(<<j>>, t)
      BY <3>1, CleanOne DEF j
    <3> QED
      BY <1>4, <3>2 DEF j
  <2>2. Clean(sys.calls, t)
    BY <1>4, CleanNone
  <2>3. (sys.mark <=> its) /\ sys.mark \in BOOLEAN
    BY <1>1, <1>4, <1>9 DEF Marked
  <2>4. /\ sys.role \in Roles /\ sys.role \in Instructing \cup {"tool"}
        /\ talk[t].role \in Instructing /\ sys.role # "tool"
    BY <1>4, <1>10 DEF Roles, Instructing, u
  <2>5. From(sys, t)
    BY <2>1, <2>2, <2>3, <2>4 DEF From, its
  <2>6. Gives(<<sys>>, t)
    BY <2>3, <2>5, GivesOne DEF its
  <2> QED
    BY <2>6
<1>11. ASSUME results # <<>>
       PROVE  Gives(ToolMessages(results), t)
  <2>1. Has(t, "result")
    BY <1>1, <1>6, <1>9, <1>11
  <2>2. its => \E b \in ToSet(results) : b.mark
    BY <1>1, <1>2, <1>6, <2>1
  <2>3. Gives(ToolMessages(results), t)
    BY <1>1, <1>6, <1>11, <2>2, ToolMessagesGive DEF its
  <2> QED
    BY <2>3
<1>12. ASSUME u.role # "system", results = <<>>
       PROVE  Gives(<<one>>, t)
  <2>1. its => Kinds[marked] = "text"
    BY <1>1, <1>2, <1>6, <1>9, <1>12
  <2>2. (one.mark <=> its) /\ one.mark \in BOOLEAN
    BY <1>1, <1>5, <1>7, <1>9, <2>1 DEF Marked
  <2>3. one.mark => texts # <<>>
    BY <1>5, <1>9
  <2>4. Clean(one.calls, t)
    BY <1>5, <1>8, UnmarkedIs
  <2>5. Clean(one.content, t) /\ (texts # <<>> => one.content # <<>> /\ one.form = "string")
    <3>1. CASE texts # <<>>
      <4>1. OfIts(Joined(texts), t) /\ Joined(texts).mark = FALSE
        BY <1>7, JoinedIs
      <4> DEFINE j == Joined(texts)
      <4> HIDE DEF j
      <4>2. Clean(<<j>>, t) /\ <<j>> # <<>>
        BY <4>1, CleanOne DEF j
      <4>3. one.content = <<j>> /\ one.form = "string"
        BY <1>5, <3>1 DEF j
      <4> QED
        BY <4>2, <4>3, Zenon
    <3>2. CASE texts = <<>> /\ raw
      <4>1. one.content = bs
        BY <1>5, <3>2
      <4>2. \A b \in ToSet(bs) : ~b.mark
        BY <1>1, <1>7, <1>9, <2>1, <3>2
      <4>3. Clean(bs, t)
        BY <1>1, <1>9, <4>2 DEF Clean
      <4> QED
        BY <3>2, <4>1, <4>3
    <3>3. CASE texts = <<>> /\ ~raw
      <4>1. one.content = <<>>
        BY <1>5, <3>3
      <4> QED
        BY <3>3, <4>1, CleanNone
    <3> QED
      BY <3>1, <3>2, <3>3
  <2>6. one.role \in Roles /\ one.role # "tool" /\ one.role = talk[t].role
    BY <1>1, <1>5 DEF u
  <2>7. From(one, t)
    BY <2>2, <2>3, <2>4, <2>5, <2>6 DEF From, its
  <2>8. Gives(<<one>>, t)
    BY <2>2, <2>7, GivesOne DEF its
  <2> QED
    BY <2>8
<1> QED
  BY <1>3, <1>10, <1>11, <1>12, Zenon DEF u

(* The messages that an item of /v1/responses becomes                      *)
(* (responsesToChatRequest).                                               *)
LEMMA ResponsesGive ==
  ASSUME Conversing, marked = 0, NEW t \in DOMAIN talk
  PROVE  Gives(FromResponses(talk[t]), t)
<1> DEFINE u == talk[t]
           bs == u.blocks
           texts == Of(bs, {"input_text"})
           call == [Message("assistant", "none", <<>>) EXCEPT !.calls = bs]
           result == Message("tool", "string", bs)
           one == InputMessage(u)
<1>1. /\ AllSaid(bs, t) /\ u.role \in Roles /\ bs # <<>>
      /\ \A b \in ToSet(bs) : b.mark = FALSE
  <2>1. /\ AllSaid(bs, t) /\ u.role \in Roles
        /\ Shape(sink, u.role, {b.kind : b \in ToSet(bs)})
        /\ \A b \in ToSet(bs) : b.mark => marked # 0
    BY TurnBlocks
  <2> HIDE DEF u, bs
  <2>2. ToSet(bs) # {}
    BY <2>1 DEF Shape
  <2>3. bs # <<>> /\ \A b \in ToSet(bs) : b.mark \in BOOLEAN
    BY <2>1, <2>2, SomeIn DEF AllSaid, OfIts, Blocky
  <2> QED
    BY <2>1, <2>3
<1>2. FromResponses(u) = IF bs[1].kind = "call" THEN <<call>>
                         ELSE IF bs[1].kind = "result" THEN <<result>>
                         ELSE IF bs[1].kind = "thinking" THEN <<>>
                         ELSE <<one>>
  BY DEF FromResponses
<1>3. Clean(bs, t)
  BY <1>1 DEF Clean
<1>4. /\ call.role = "assistant" /\ call.content = <<>> /\ call.calls = bs /\ call.mark = FALSE
      /\ result.role = "tool" /\ result.content = bs /\ result.calls = <<>> /\ result.mark = FALSE
  BY DEF Message
<1>5. /\ one.role = u.role /\ one.calls = <<>> /\ one.mark = FALSE
      /\ one.content = bs \/ (one.content = <<Joined(texts)>>)
  BY DEF InputMessage, Message
<1>6. AllSaid(texts, t)
  BY <1>1, OfSaid
<1>7. /\ "assistant" \in Roles /\ "assistant" \notin Instructing
      /\ "tool" \in Roles /\ "tool" \notin Instructing
  BY DEF Roles, Instructing
<1> HIDE DEF bs, texts, call, result, one
<1>8. From(call, t)
  BY <1>3, <1>4, <1>7, CleanNone DEF From
<1>9. From(result, t)
  BY <1>1, <1>3, <1>4, <1>7, CleanNone DEF From
<1>10. From(one, t)
  <2>1. Clean(one.content, t) /\ one.content # <<>>
    <3>1. OfIts(Joined(texts), t) /\ Joined(texts).mark = FALSE
      BY <1>6, JoinedIs
    <3> DEFINE j == Joined(texts)
    <3> HIDE DEF j
    <3>2. Clean(<<j>>, t) /\ <<j>> # <<>>
      BY <3>1, CleanOne DEF j
    <3>3. one.content = bs \/ one.content = <<j>>
      BY <1>5 DEF j
    <3> QED
      BY <1>1, <1>3, <3>2, <3>3, Zenon
  <2>2. Clean(one.calls, t)
    BY <1>5, CleanNone
  <2>3. one.role \in Roles /\ one.role = talk[t].role
    BY <1>1, <1>5
  <2> QED
    BY <1>5, <2>1, <2>2, <2>3 DEF From
<1>11. Gives(<<call>>, t) /\ Gives(<<result>>, t) /\ Gives(<<one>>, t) /\ Gives(<<>>, t)
  BY <1>8, <1>9, <1>10, GivesOne, GivesNone
<1> QED
  BY <1>2, <1>11

(* Of two messages that instruct, the first is from an earlier turn. *)
Later(M) ==
    {p \in M \X M :
        p[1].role \in Instructing /\ p[2].role \in Instructing =>
            \E t, u \in DOMAIN talk : t < u /\ From(p[1], t) /\ From(p[2], u)}

(* What the messages of a chat request keep of the conversation.           *)
Faithful(msgs) ==
    /\ IsSeq(msgs)
    /\ \A m \in ToSet(msgs) : \E t \in DOMAIN talk : From(m, t)
    /\ InPairs(msgs, Later(ToSet(msgs)))
    /\ marked # 0 => \E m \in ToSet(msgs) : m.mark

(* The messages of a chat request keep what Faithful says of the           *)
(* conversation, at each endpoint, when the client marked nothing or what  *)
(* the translator sees.                                                    *)
LEMMA MessagesAre ==
  ASSUME Conversing, Seen, sink \in Sink, sink = "responses" => marked = 0
  PROVE  Faithful(ToChat(sink, talk))
<1> DEFINE given(i) == CASE sink = "chat"      -> <<ChatMessage(talk[i])>>
                         [] sink = "messages"  -> FromMessages(talk[i])
                         [] sink = "responses" -> FromResponses(talk[i])
           ss == [i \in DOMAIN talk |-> given(i)]
           msgs == ToChat(sink, talk)
           N == Len(talk)
<1>1. IsSeq(talk) /\ N \in Nat /\ DOMAIN talk = 1..N
  BY SeqIs DEF Conversing
<1>2. ASSUME NEW i \in DOMAIN talk PROVE Gives(ss[i], i)
  <2>1. CASE sink = "chat"
    <3>1. ss[i] = <<ChatMessage(talk[i])>>
      BY <2>1
    <3> HIDE DEF ss
    <3> QED
      BY <2>1, <3>1, ChatGives
  <2>2. CASE sink = "messages"
    <3>1. ss[i] = FromMessages(talk[i])
      BY <2>2
    <3> HIDE DEF ss
    <3> QED
      BY <2>2, <3>1, MessagesGive
  <2>3. CASE sink = "responses"
    <3>1. ss[i] = FromResponses(talk[i])
      BY <2>3
    <3> HIDE DEF ss
    <3> QED
      BY <2>3, <3>1, ResponsesGive
  <2> QED
    BY <2>1, <2>2, <2>3 DEF Sink
<1>0. msgs = FlattenSeq(ss)
  BY Zenon DEF ToChat
<1> HIDE DEF given
<1>3. ss = [i \in 1..N |-> ss[i]] /\ msgs = FlattenSeq(ss)
  BY <1>0, <1>1
<1> HIDE DEF ss, msgs, N
<1>4. IsSeq(ss) /\ Len(ss) = N /\ ToSet(ss) = {ss[i] : i \in 1..N}
  BY <1>1, <1>3, IsSeqBy
<1>5. \A i \in 1..N : /\ IsSeq(ss[i])
                      /\ \A m \in ToSet(ss[i]) : From(m, i)
                      /\ \A j, k \in 1..Len(ss[i]) : j < k => ss[i][j].role \notin Instructing
                      /\ marked # 0 /\ i = TurnOf(marked) => \E m \in ToSet(ss[i]) : m.mark
  BY <1>1, <1>2 DEF Gives
<1>6. \A s \in ToSet(ss) : IsSeq(s)
  BY <1>4, <1>5
<1>7. IsSeq(msgs) /\ ToSet(msgs) = UNION {ToSet(ss[i]) : i \in 1..N}
  BY <1>3, <1>4, <1>6, IsSeqFlat
<1>8. \A m : m \in ToSet(msgs) <=> \E i \in 1..N : m \in ToSet(ss[i])
  BY <1>7
<1>9. \A m \in ToSet(msgs) : \E t \in DOMAIN talk : From(m, t)
  BY <1>1, <1>5, <1>8
<1> DEFINE R == Later(ToSet(msgs))
<1>10. \A s \in ToSet(ss) : InPairs(s, R)
  <2> SUFFICES ASSUME NEW i \in 1..N, NEW j \in 1..Len(ss[i]), NEW k \in 1..Len(ss[i]), j < k
               PROVE  <<ss[i][j], ss[i][k]>> \in R
    BY <1>4 DEF InPairs
  <2> DEFINE a == ss[i][j]
             b == ss[i][k]
  <2>1. a \in ToSet(ss[i]) /\ b \in ToSet(ss[i])
    BY <1>5, SeqIs
  <2>2. a \in ToSet(msgs) /\ b \in ToSet(msgs)
    BY <1>8, <2>1
  <2>3. a.role \notin Instructing
    BY <1>5
  <2> HIDE DEF a, b
  <2>4. <<a, b>> \in R
    BY <2>2, <2>3 DEF Later
  <2> QED
    BY <2>4 DEF a, b
<1>11. \A i, j \in 1..Len(ss) : i < j =>
          \A a \in ToSet(ss[i]), b \in ToSet(ss[j]) : <<a, b>> \in R
  <2> SUFFICES ASSUME NEW i \in 1..N, NEW j \in 1..N, i < j,
                      NEW a \in ToSet(ss[i]), NEW b \in ToSet(ss[j])
               PROVE  <<a, b>> \in R
    BY <1>4
  <2>1. a \in ToSet(msgs) /\ b \in ToSet(msgs)
    BY <1>8
  <2>2. From(a, i) /\ From(b, j) /\ i \in DOMAIN talk /\ j \in DOMAIN talk
    BY <1>1, <1>5
  <2>3. \E t, u \in DOMAIN talk : t < u /\ From(a, t) /\ From(b, u)
    BY <2>2
  <2> QED
    BY <2>1, <2>3 DEF Later
<1> HIDE DEF R
<1>12. InPairs(msgs, R)
  BY <1>3, <1>4, <1>6, <1>10, <1>11, PairsInFlat
<1>13. marked # 0 => \E m \in ToSet(msgs) : m.mark
  <2> SUFFICES ASSUME marked # 0 PROVE \E m \in ToSet(msgs) : m.mark
    OBVIOUS
  <2>1. marked \in DOMAIN pieces
    BY DEF Seen
  <2>2. PICK t \in DOMAIN talk : \E b \in ToSet(talk[t].blocks) : b.ns = <<marked>>
    BY <2>1 DEF Conversing
  <2>3. PICK b \in ToSet(talk[t].blocks) : b.ns = <<marked>>
    BY <2>2
  <2>4. OfIts(b, t)
    BY TurnBlocks DEF Seen, AllSaid
  <2>5. ToSet(b.ns) = {marked}
    BY <2>3, IsSeqOne, Zenon
  <2>6. TurnOf(marked) = t
    BY <2>4, <2>5 DEF OfIts, OfTurn
  <2>7. PICK m \in ToSet(ss[t]) : m.mark
    BY <1>1, <1>5, <2>6
  <2>8. m \in ToSet(msgs)
    BY <1>1, <1>8
  <2> QED
    BY <2>7, <2>8
<1>14. Faithful(msgs)
  BY <1>7, <1>9, <1>12, <1>13 DEF Faithful, R
<1> QED
  BY <1>14 DEF msgs

(* The messages with some roles, in their order. *)
LEMMA WithIs ==
  ASSUME NEW msgs, IsSeq(msgs), NEW K
  PROVE  /\ IsSeq(With(msgs, K))
         /\ \A m : m \in ToSet(With(msgs, K)) <=> m \in ToSet(msgs) /\ m.role \in K
         /\ \A R : InPairs(msgs, R) => InPairs(With(msgs, K), R)
<1> DEFINE P == {m \in ToSet(msgs) : m.role \in K}
           sel == With(msgs, K)
<1>1. DOMAIN msgs = 1..Len(msgs) /\ \A i \in 1..Len(msgs) : msgs[i] \in ToSet(msgs)
  BY SeqIs
<1>2. \A i \in DOMAIN msgs : msgs[i].role \in K <=> msgs[i] \in P
  BY <1>1
<1> HIDE DEF P
<1>3. [i \in DOMAIN msgs |-> IF msgs[i].role \in K THEN <<msgs[i]>> ELSE <<>>]
      = [i \in DOMAIN msgs |-> IF msgs[i] \in P THEN <<msgs[i]>> ELSE <<>>]
  BY <1>2
<1>4. sel = FlattenSeq([i \in DOMAIN msgs |-> IF msgs[i] \in P THEN <<msgs[i]>> ELSE <<>>])
  BY <1>3 DEF With
<1> HIDE DEF sel
<1>5. /\ IsSeq(sel) /\ ToSet(sel) = {x \in ToSet(msgs) : x \in P}
      /\ \A R : InPairs(msgs, R) => InPairs(sel, R)
  BY <1>4, Selected
<1>6. \A m : m \in ToSet(sel) <=> m \in ToSet(msgs) /\ m.role \in K
  BY <1>5 DEF P
<1> QED
  BY <1>5, <1>6 DEF sel

(* The last block of what is marked is marked, the others stay. *)
LEMMA MarkLastIs ==
  ASSUME NEW t, NEW bs, Clean(bs, t)
  PROVE  /\ AllSaid(MarkLast(bs), t)
         /\ bs # <<>> => \E b \in ToSet(MarkLast(bs)) : b.mark
         /\ \A b \in ToSet(MarkLast(bs)) : b.mark => b.ns = bs[Len(bs)].ns
<1>1. CASE bs = <<>>
  <2>1. MarkLast(bs) = bs
    BY <1>1 DEF MarkLast
  <2>2. ToSet(bs) = {}
    BY <1>1, IsSeqNone
  <2> QED
    BY <1>1, <2>1, <2>2 DEF Clean
<1>2. CASE bs # <<>>
  <2> DEFINE N == Len(bs)
             ms == MarkLast(bs)
             last == bs[N]
             new == [last EXCEPT !.mark = TRUE]
  <2>1. /\ N \in Nat /\ DOMAIN bs = 1..N /\ N # 0
        /\ \A i \in 1..N : bs[i] \in ToSet(bs) /\ OfIts(bs[i], t) /\ bs[i].mark = FALSE
    BY <1>2, SeqIs DEF Clean, AllSaid
  <2>2. ms = [bs EXCEPT ![N] = new]
    BY <1>2 DEF MarkLast
  <2> HIDE DEF N, new
  <2>3. bs = [i \in 1..N |-> bs[i]]
    <3>1. IsSeq(bs)
      BY DEF Clean, AllSaid
    <3> QED
      BY <3>1, <2>1, SeqDef DEF IsSeq
  <2>4. ms = [i \in 1..N |-> IF i = N THEN new ELSE bs[i]]
    BY <2>1, <2>2, <2>3
  <2> HIDE DEF ms, last
  <2>5. IsSeq(ms) /\ ToSet(ms) = {ms[i] : i \in 1..N}
    <3>1. ms = [i \in 1..N |-> ms[i]]
      BY <2>4
    <3> QED
      BY <2>1, <3>1, IsSeqBy
  <2>6. N \in 1..N /\ ms[N] = new /\ \A i \in 1..N : i # N => ms[i] = bs[i]
    BY <2>1, <2>4
  <2>7. OfIts(new, t) /\ new.mark = TRUE /\ new.ns = last.ns
    <3>1. OfIts(last, t)
      BY <2>1 DEF last
    <3>2. /\ last = [kind |-> last.kind, ns |-> last.ns, of |-> last.of, mark |-> last.mark]
          /\ last.ns \in Seq(Nat) /\ OfTurn(last.ns, t)
      BY <3>1 DEF OfIts, Blocky
    <3>3. new = [kind |-> last.kind, ns |-> last.ns, of |-> last.of, mark |-> TRUE]
      <4>1. last = [kind |-> last.kind, ns |-> last.ns, of |-> last.of, mark |-> last.mark]
        BY <3>2
      <4>2. new = [last EXCEPT !.mark = TRUE]
        BY DEF new
      <4> HIDE DEF new
      <4> QED
        BY <4>1, <4>2
    <3>4. new.ns = last.ns /\ new.mark = TRUE
          /\ new = [kind |-> new.kind, ns |-> new.ns, of |-> new.of, mark |-> new.mark]
      BY <3>3
    <3> QED
      BY <3>2, <3>4 DEF OfIts, Blocky
  <2>8. \A b \in ToSet(ms) : OfIts(b, t) /\ (b.mark => b.ns = last.ns)
    <3> SUFFICES ASSUME NEW i \in 1..N
                 PROVE  OfIts(ms[i], t) /\ (ms[i].mark => ms[i].ns = last.ns)
      BY <2>5
    <3> QED
      BY <2>1, <2>6, <2>7
  <2>9. \E b \in ToSet(ms) : b.mark
    BY <2>5, <2>6, <2>7
  <2> QED
    BY <2>5, <2>8, <2>9 DEF AllSaid, ms, last, N
<1> QED
  BY <1>1, <1>2

(* Blocks of a turn without a mark, put together. *)
LEMMA CleanConcat ==
  ASSUME NEW t, NEW a, NEW b, Clean(a, t), Clean(b, t)
  PROVE  Clean(a \o b, t) /\ (b # <<>> => a \o b # <<>>)
<1> DEFINE c == a \o b
<1>1. IsSeq(a) /\ IsSeq(b)
  BY DEF Clean, AllSaid
<1>2. IsSeq(c) /\ ToSet(c) = ToSet(a) \cup ToSet(b)
  BY <1>1, IsSeqConcat
<1> HIDE DEF c
<1>3. Clean(c, t)
  BY <1>2 DEF Clean, AllSaid
<1>4. b # <<>> => c # <<>>
  BY <1>1, <1>2, SomeIn
<1> QED
  BY <1>3, <1>4 DEF c

(* The mark of a message becomes that of the last block of its turn.       *)
LEMMA AnthropicTurnIs ==
  ASSUME NEW t, NEW m, From(m, t), m.role \notin Instructing
  PROVE  /\ AllSaid(AnthropicTurn(m).blocks, t)
         /\ m.mark => \E b \in ToSet(AnthropicTurn(m).blocks) : b.mark
         /\ ~m.mark => Clean(AnthropicTurn(m).blocks, t)
<1> DEFINE bs == AnthropicTurn(m).blocks
           result == AnthropicResult(m)
           all == (IF m.form = "string" THEN m.content ELSE <<>>) \o m.calls
<1>1. /\ Clean(m.content, t) /\ Clean(m.calls, t) /\ m.mark \in BOOLEAN
      /\ m.role = "tool" => m.content # <<>>
      /\ m.mark => \/ m.role = "tool"
                   \/ m.role = "assistant" /\ m.calls # <<>>
                   \/ m.form = "string" /\ m.content # <<>>
  BY DEF From
<1>2. CASE m.role = "tool"
  <2> DEFINE c == m.content[1]
             b == result
             one == <<b>>
  <2>1. bs = one
    BY <1>2 DEF AnthropicTurn, Turn
  <2>2. OfIts(c, t)
    <3>1. /\ Len(m.content) \in Nat /\ Len(m.content) # 0
          /\ \A i \in 1..Len(m.content) : m.content[i] \in ToSet(m.content)
      BY <1>1, <1>2, SeqIs DEF Clean, AllSaid
    <3>2. c \in ToSet(m.content)
      BY <3>1
    <3> QED
      BY <1>1, <3>2 DEF Clean, AllSaid
  <2>3. b = [kind |-> "result", ns |-> IF m.form = "string" THEN c.ns ELSE <<>>,
             of |-> c.of, mark |-> m.mark]
    BY DEF AnthropicResult, Block
  <2>4. c.ns \in Seq(Nat) /\ OfTurn(c.ns, t)
    BY <2>2 DEF OfIts, Blocky
  <2>5. <<>> \in Seq(Nat) /\ OfTurn(<<>>, t)
    <3>1. ToSet(<<>>) = {}
      BY IsSeqNone
    <3> QED
      BY <3>1 DEF OfTurn
  <2>6. IsSeq(one) /\ ToSet(one) = {b}
    BY IsSeqOne
  <2> HIDE DEF c, b, one
  <2>7. /\ b = [kind |-> b.kind, ns |-> b.ns, of |-> b.of, mark |-> b.mark]
        /\ b.mark = m.mark
        /\ b.ns = c.ns \/ b.ns = <<>>
    BY <2>3
  <2>8. b.ns \in Seq(Nat) /\ OfTurn(b.ns, t)
    BY <2>4, <2>5, <2>7, Zenon
  <2>9. OfIts(b, t)
    BY <1>1, <2>7, <2>8 DEF OfIts, Blocky
  <2> HIDE DEF bs
  <2>10. AllSaid(bs, t) /\ (m.mark => \E d \in ToSet(bs) : d.mark)
    BY <2>1, <2>6, <2>7, <2>9 DEF AllSaid
  <2>11. ~m.mark => Clean(bs, t)
    BY <1>1, <2>1, <2>6, <2>7, <2>10 DEF Clean
  <2> QED
    BY <2>10, <2>11 DEF bs
<1>3. CASE m.role = "assistant" /\ m.calls # <<>>
  <2>1. bs = IF m.mark THEN MarkLast(all) ELSE all
    BY <1>3 DEF AnthropicTurn, AnthropicCalls, Turn
  <2>2. Clean(all, t) /\ all # <<>>
    <3>1. CASE m.form = "string"
      BY <1>1, <1>3, <3>1, CleanConcat
    <3>2. CASE m.form # "string"
      <4>1. all = <<>> \o m.calls /\ Clean(<<>>, t)
        BY <3>2, CleanNone
      <4>2. Clean(<<>> \o m.calls, t) /\ <<>> \o m.calls # <<>>
        BY <1>1, <1>3, <4>1, CleanConcat
      <4> HIDE DEF all
      <4> QED
        BY <4>1, <4>2
    <3> QED
      BY <3>1, <3>2
  <2> HIDE DEF all, bs
  <2>3. AllSaid(MarkLast(all), t) /\ \E b \in ToSet(MarkLast(all)) : b.mark
    BY <2>2, MarkLastIs
  <2>4. AllSaid(all, t)
    BY <2>2 DEF Clean
  <2>5. AllSaid(bs, t) /\ (m.mark => \E b \in ToSet(bs) : b.mark) /\ (~m.mark => Clean(bs, t))
    BY <2>1, <2>2, <2>3, <2>4
  <2> QED
    BY <2>5 DEF bs
<1>4. CASE m.role # "tool" /\ ~(m.role = "assistant" /\ m.calls # <<>>)
  <2>1. bs = IF m.mark /\ m.form = "string" THEN MarkLast(m.content) ELSE m.content
    BY <1>4 DEF AnthropicTurn, Turn
  <2>2. m.mark => m.form = "string" /\ m.content # <<>>
    BY <1>1, <1>4
  <2> HIDE DEF bs
  <2>3. AllSaid(MarkLast(m.content), t)
        /\ (m.content # <<>> => \E b \in ToSet(MarkLast(m.content)) : b.mark)
    BY <1>1, MarkLastIs
  <2>4. AllSaid(m.content, t)
    BY <1>1 DEF Clean
  <2>5. AllSaid(bs, t) /\ (m.mark => \E b \in ToSet(bs) : b.mark) /\ (~m.mark => Clean(bs, t))
    BY <1>1, <2>1, <2>2, <2>3, <2>4
  <2> QED
    BY <2>5 DEF bs
<1> QED
  BY <1>2, <1>3, <1>4

(* The one block of the system prompt is that of the last of its messages. *)
LEMMA AnthropicSystemIs ==
  ASSUME NEW msgs, Faithful(msgs)
  PROVE  LET ins == With(msgs, Instructing)
             s == AnthropicSystem(msgs)
         IN  /\ ins = <<>> => s = <<>>
             /\ ins # <<>> =>
                   /\ ins[Len(ins)] \in ToSet(msgs)
                   /\ \A t \in DOMAIN talk : From(ins[Len(ins)], t) =>
                         \E b : /\ s = <<b>> /\ OfIts(b, t)
                                /\ b.mark = ins[Len(ins)].mark
<1> DEFINE ins == With(msgs, Instructing)
           s == AnthropicSystem(msgs)
           l == ins[Len(ins)]
<1>1. IsSeq(ins) /\ \A m : m \in ToSet(ins) <=> m \in ToSet(msgs) /\ m.role \in Instructing
  BY WithIs DEF Faithful
<1>2. s = IF ins = <<>> THEN <<>> ELSE <<[Joined(l.content) EXCEPT !.mark = l.mark]>>
  BY DEF AnthropicSystem, Last
<1> HIDE DEF ins, s
<1>3. ASSUME ins # <<>> PROVE l \in ToSet(msgs)
  <2>1. Len(ins) \in 1..Len(ins) /\ \A i \in 1..Len(ins) : ins[i] \in ToSet(ins)
    BY <1>1, <1>3, SeqIs
  <2> QED
    BY <1>1, <2>1
<1>4. ASSUME ins # <<>>, NEW t \in DOMAIN talk, From(l, t)
      PROVE  \E b : s = <<b>> /\ OfIts(b, t) /\ b.mark = l.mark
  <2> DEFINE j == Joined(l.content)
             b == [j EXCEPT !.mark = l.mark]
  <2>1. s = <<b>>
    BY <1>2, <1>4
  <2>2. OfIts(j, t) /\ l.mark \in BOOLEAN
    BY <1>4, JoinedIs DEF From, Clean
  <2> HIDE DEF l, j
  <2>3. /\ j = [kind |-> j.kind, ns |-> j.ns, of |-> j.of, mark |-> j.mark]
        /\ j.ns \in Seq(Nat) /\ OfTurn(j.ns, t)
    BY <2>2 DEF OfIts, Blocky
  <2>4. b = [kind |-> j.kind, ns |-> j.ns, of |-> j.of, mark |-> l.mark]
    <3>1. j = [kind |-> j.kind, ns |-> j.ns, of |-> j.of, mark |-> j.mark]
      BY <2>3
    <3> QED
      BY <3>1
  <2> HIDE DEF b
  <2>5. b.ns = j.ns /\ b.mark = l.mark
        /\ b = [kind |-> b.kind, ns |-> b.ns, of |-> b.of, mark |-> b.mark]
    BY <2>4
  <2>6. OfIts(b, t) /\ b.mark = l.mark
    BY <2>2, <2>3, <2>5 DEF OfIts, Blocky
  <2> QED
    BY <2>1, <2>6
<1> QED
  BY <1>2, <1>3, <1>4 DEF ins, s

(* The body d of a request, and the block b in it. *)
ABody(d) ==
    /\ d = [system |-> d.system, turns |-> d.turns, cachedTools |-> d.cachedTools]
    /\ IsSeq(d.system) /\ IsSeq(d.turns)
    /\ \A i \in 1..Len(d.turns) : IsSeq(d.turns[i].blocks)

Within(d, b) == \/ b \in ToSet(d.system)
                \/ \E i \in 1..Len(d.turns) : b \in ToSet(d.turns[i].blocks)

(* MarkedBlocks has the pieces of each block with a mark. *)
LEMMA MarkedBlocksAre ==
  ASSUME ABody(body)
  PROVE  \A x : x \in MarkedBlocks <=> \E b : x = b.ns /\ b.mark /\ Within(body, b)
<1> DEFINE ss == [i \in DOMAIN body.turns |-> body.turns[i].blocks]
           all == body.system \o FlattenSeq(ss)
           N == Len(body.turns)
<1>1. IsSeq(body.system) /\ N \in Nat /\ DOMAIN body.turns = 1..N
      /\ \A i \in 1..N : IsSeq(body.turns[i].blocks)
  BY SeqIs DEF ABody
<1>2. ss = [i \in 1..N |-> ss[i]] /\ \A i \in 1..N : ss[i] = body.turns[i].blocks
  BY <1>1
<1>3. MarkedBlocks = {all[i].ns : i \in {i \in DOMAIN all : all[i].mark}}
  BY DEF MarkedBlocks
<1> HIDE DEF ss, N
<1>4. IsSeq(ss) /\ Len(ss) = N /\ ToSet(ss) = {ss[i] : i \in 1..N}
  BY <1>1, <1>2, IsSeqBy
<1>5. \A s \in ToSet(ss) : IsSeq(s)
  BY <1>1, <1>2, <1>4
<1> DEFINE flat == FlattenSeq(ss)
<1>6. IsSeq(flat) /\ ToSet(flat) = UNION {ToSet(ss[i]) : i \in 1..N}
  BY <1>4, <1>5, IsSeqFlat
<1>7. IsSeq(all) /\ ToSet(all) = ToSet(body.system) \cup ToSet(flat)
  <2>1. all = body.system \o flat
    OBVIOUS
  <2> HIDE DEF flat, all
  <2>2. /\ IsSeq(body.system \o flat)
        /\ ToSet(body.system \o flat) = ToSet(body.system) \cup ToSet(flat)
    BY <1>1, <1>6, IsSeqConcat
  <2> QED
    BY <2>1, <2>2
<1> HIDE DEF all, flat
<1>8. \A b : b \in ToSet(all) <=> Within(body, b)
  <2>1. \A b : b \in ToSet(flat) <=> \E i \in 1..N : b \in ToSet(ss[i])
    BY <1>6
  <2>2. \A b : b \in ToSet(flat) <=> \E i \in 1..N : b \in ToSet(body.turns[i].blocks)
    BY <1>2, <2>1
  <2> QED
    BY <1>7, <2>2 DEF Within, N
<1>9. \A b : b \in ToSet(all) <=> \E i \in DOMAIN all : all[i] = b
  BY <1>7 DEF ToSet
<1>10. \A x : x \in MarkedBlocks <=> \E i \in DOMAIN all : all[i].mark /\ x = all[i].ns
  BY <1>3
<1>11. ASSUME NEW x, x \in MarkedBlocks
       PROVE  \E b : x = b.ns /\ b.mark /\ Within(body, b)
  BY <1>8, <1>9, <1>10, <1>11
<1>12. ASSUME NEW x, NEW b, x = b.ns, b.mark, Within(body, b)
       PROVE  x \in MarkedBlocks
  <2>1. PICK i \in DOMAIN all : all[i] = b
    BY <1>8, <1>9, <1>12
  <2> QED
    BY <1>10, <1>12, <2>1
<1> QED
  BY <1>11, <1>12

(* The attribution of a subscription has no mark. *)
LEMMA BillingIs ==
  ASSUME NEW d, ABody(d)
  PROVE  /\ ABody(WithBilling(d)) /\ WithBilling(d).cachedTools = d.cachedTools
         /\ \A b : b.mark => (Within(WithBilling(d), b) <=> Within(d, b))
<1> DEFINE e == WithBilling(d)
           bill == Block("billing", <<>>, 0, FALSE)
           one == <<bill>>
<1>1. e = [d EXCEPT !.system = one \o @]
  BY DEF WithBilling
<1>2. /\ d = [system |-> d.system, turns |-> d.turns, cachedTools |-> d.cachedTools]
      /\ IsSeq(d.system) /\ IsSeq(d.turns)
      /\ \A i \in 1..Len(d.turns) : IsSeq(d.turns[i].blocks)
  BY DEF ABody
<1>3. IsSeq(one) /\ ToSet(one) = {bill}
  BY IsSeqOne
<1>4. ~bill.mark
  BY DEF Block
<1> HIDE DEF bill, one, e
<1>5. e = [system |-> one \o d.system, turns |-> d.turns, cachedTools |-> d.cachedTools]
  BY <1>1, <1>2
<1> DEFINE s == one \o d.system
<1>6. IsSeq(s) /\ ToSet(s) = {bill} \cup ToSet(d.system)
  BY <1>2, <1>3, IsSeqConcat
<1> HIDE DEF s
<1>7. /\ e.system = s /\ e.turns = d.turns /\ e.cachedTools = d.cachedTools
      /\ e = [system |-> e.system, turns |-> e.turns, cachedTools |-> e.cachedTools]
  BY <1>5 DEF s
<1>8. ABody(e)
  BY <1>2, <1>6, <1>7 DEF ABody
<1>9. \A b : b.mark => (b \in ToSet(e.system) <=> b \in ToSet(d.system))
  BY <1>4, <1>6, <1>7
<1>10. \A b : b.mark => (Within(e, b) <=> Within(d, b))
  BY <1>7, <1>9 DEF Within
<1> QED
  BY <1>7, <1>8, <1>10 DEF e

(* The marks of the body of a request are those of what was translated,    *)
(* with an api key or a subscription.                                      *)
LEMMA BodyIs ==
  ASSUME NEW d, ABody(d), body = d \/ body = WithBilling(d)
  PROVE  /\ body.cachedTools = d.cachedTools
         /\ \A x : x \in MarkedBlocks <=> \E b : x = b.ns /\ b.mark /\ Within(d, b)
<1>1. /\ ABody(body) /\ body.cachedTools = d.cachedTools
      /\ \A b : b.mark => (Within(body, b) <=> Within(d, b))
  BY BillingIs
<1>2. \A x : x \in MarkedBlocks <=> \E b : x = b.ns /\ b.mark /\ Within(body, b)
  BY <1>1, MarkedBlocksAre
<1> QED
  BY <1>1, <1>2

(* What is said to Anthropic before anything is injected. *)
Uninjected(msgs) ==
    LET said == With(msgs, Roles \ Instructing)
    IN  [system |-> AnthropicSystem(msgs),
         turns |-> [i \in DOMAIN said |-> AnthropicTurn(said[i])],
         cachedTools |-> FALSE]

(* The turns of d are what becomes of said, the messages of msgs that do    *)
(* not instruct.                                                           *)
Turned(d, said, msgs) ==
    /\ ABody(d) /\ Len(d.turns) = Len(said) /\ d.system = AnthropicSystem(msgs)
    /\ d.cachedTools = FALSE
    /\ \A i \in 1..Len(said) : /\ said[i] \in ToSet(msgs)
                               /\ d.turns[i] = AnthropicTurn(said[i])
                               /\ said[i].role \notin Instructing
                               /\ \E t \in DOMAIN talk : From(said[i], t)
    /\ \A m \in ToSet(msgs) :
           m.role \notin Instructing => \E i \in 1..Len(said) : said[i] = m

(* Each message that does not instruct becomes a turn, in their order. *)
LEMMA UninjectedIs ==
  ASSUME NEW msgs, Faithful(msgs), NEW d, d = Uninjected(msgs),
         NEW said, said = With(msgs, Roles \ Instructing)
  PROVE  Turned(d, said, msgs)
<1> DEFINE turns == [i \in DOMAIN said |-> AnthropicTurn(said[i])]
           sys == AnthropicSystem(msgs)
<1>1. /\ IsSeq(said) /\ \A m : m \in ToSet(said) <=> m \in ToSet(msgs) /\ m.role \in Roles \ Instructing
  BY WithIs DEF Faithful
<1>2. /\ Len(said) \in Nat /\ DOMAIN said = 1..Len(said)
      /\ \A i \in 1..Len(said) : said[i] \in ToSet(said)
      /\ \A m \in ToSet(said) : \E i \in 1..Len(said) : said[i] = m
  BY <1>1, SeqIs
<1>3. turns = [i \in 1..Len(said) |-> turns[i]]
      /\ \A i \in 1..Len(said) : turns[i] = AnthropicTurn(said[i])
  BY <1>2
<1>4. d = [system |-> sys, turns |-> turns, cachedTools |-> FALSE]
  BY DEF Uninjected
<1> HIDE DEF turns, sys
<1>5. IsSeq(turns) /\ Len(turns) = Len(said)
  BY <1>2, <1>3, IsSeqBy
<1>6. \A i \in 1..Len(said) : /\ said[i] \in ToSet(msgs) /\ said[i].role \notin Instructing
                              /\ \E t \in DOMAIN talk : From(said[i], t)
  BY <1>1, <1>2 DEF Faithful
<1>7. \A i \in 1..Len(said) : IsSeq(turns[i].blocks)
  BY <1>3, <1>6, AnthropicTurnIs DEF AllSaid
<1>8. IsSeq(sys)
  <2> DEFINE ins == With(msgs, Instructing)
             l == ins[Len(ins)]
  <2>1. /\ ins = <<>> => sys = <<>>
        /\ ins # <<>> =>
              /\ l \in ToSet(msgs)
              /\ \A t \in DOMAIN talk : From(l, t) => \E b : sys = <<b>>
    BY AnthropicSystemIs DEF sys
  <2> HIDE DEF ins, l
  <2>2. sys = <<>> \/ \E b : sys = <<b>>
    BY <2>1 DEF Faithful
  <2> QED
    BY <2>2, IsSeqNone, IsSeqOne, Zenon
<1>9. /\ d.system = sys /\ d.turns = turns /\ d.cachedTools = FALSE
      /\ d = [system |-> d.system, turns |-> d.turns, cachedTools |-> d.cachedTools]
  BY <1>4
<1>10. ABody(d)
  BY <1>5, <1>7, <1>8, <1>9 DEF ABody
<1>11. \A m \in ToSet(msgs) :
          m.role \notin Instructing => \E i \in 1..Len(said) : said[i] = m
  <2>1. \A m \in ToSet(msgs) : m.role \in Roles
    BY DEF Faithful, From
  <2> QED
    BY <1>1, <1>2, <2>1
<1> QED
  BY <1>3, <1>5, <1>6, <1>9, <1>10, <1>11 DEF Turned, sys

(* With a mark of the client's, nothing is injected: what is marked is of   *)
(* the turn that the client marked, and something is unless a later system  *)
(* message takes the place of the one that it marked.                       *)
LEMMA MarksKept ==
  ASSUME NEW msgs, Faithful(msgs), marked # 0, NEW d, d = AnthropicBody(msgs)
  PROVE  /\ ABody(d) /\ d.cachedTools = FALSE
         /\ \A b : Within(d, b) /\ b.mark => OfTurn(b.ns, TurnOf(marked))
         /\ \/ \E b : Within(d, b) /\ b.mark
            \/ /\ talk[TurnOf(marked)].role \in Instructing
               /\ TurnOf(marked) \in DOMAIN talk
               /\ \E u \in DOMAIN talk : u > TurnOf(marked) /\ talk[u].role \in Instructing
<1> DEFINE its == TurnOf(marked)
           said == With(msgs, Roles \ Instructing)
           ins == With(msgs, Instructing)
           l == ins[Len(ins)]
           sys == AnthropicSystem(msgs)
           N == Len(said)
<1>1. PICK m \in ToSet(msgs) : m.mark
  BY DEF Faithful
<1>2. PICK t \in DOMAIN talk : From(m, t)
  BY DEF Faithful
<1>3. t = its
  BY <1>1, <1>2 DEF From
<1>4. d = Uninjected(msgs)
  <2>1. ClientCaching(msgs)
    <3>1. IsSeq(msgs)
      BY DEF Faithful
    <3>2. \E i \in 1..Len(msgs) : msgs[i] = m
      BY <3>1, SeqIs
    <3>3. DOMAIN msgs = 1..Len(msgs)
      BY <3>1, SeqIs
    <3> QED
      BY <1>1, <3>2, <3>3 DEF ClientCaching
  <2> QED
    BY <2>1 DEF AnthropicBody, Uninjected
<1>5. /\ ABody(d) /\ Len(d.turns) = N /\ d.system = sys /\ d.cachedTools = FALSE
      /\ \A i \in 1..N : /\ d.turns[i] = AnthropicTurn(said[i])
                         /\ said[i].role \notin Instructing
                         /\ \E u \in DOMAIN talk : From(said[i], u)
      /\ \A x \in ToSet(msgs) : x.role \notin Instructing => \E i \in 1..N : said[i] = x
  <2>1. said = With(msgs, Roles \ Instructing) /\ sys = AnthropicSystem(msgs)
    OBVIOUS
  <2> HIDE DEF said, sys
  <2>2. Turned(d, said, msgs)
    BY <1>4, <2>1, UninjectedIs
  <2> QED
    BY <2>1, <2>2 DEF Turned, N
<1>6. /\ ins = <<>> => sys = <<>>
      /\ ins # <<>> =>
            /\ l \in ToSet(msgs)
            /\ \A u \in DOMAIN talk : From(l, u) =>
                  \E b : sys = <<b>> /\ OfIts(b, u) /\ b.mark = l.mark
  BY AnthropicSystemIs
<1>7. /\ IsSeq(ins) /\ \A x : x \in ToSet(ins) <=> x \in ToSet(msgs) /\ x.role \in Instructing
      /\ InPairs(ins, Later(ToSet(msgs)))
  BY WithIs DEF Faithful
<1> HIDE DEF said, ins, l, sys, N, its
<1>8. ASSUME NEW x, NEW u, From(x, u), x.mark PROVE u = its
  BY <1>8 DEF From, its
<1>9. ASSUME NEW b, Within(d, b), b.mark PROVE OfTurn(b.ns, its)
  <2>1. CASE b \in ToSet(sys)
    <3>1. ins # <<>>
      BY <1>6, <2>1, IsSeqNone
    <3>2. PICK u \in DOMAIN talk : From(l, u)
      BY <1>6, <3>1 DEF Faithful
    <3>3. PICK c : sys = <<c>> /\ OfIts(c, u) /\ c.mark = l.mark
      BY <1>6, <3>1, <3>2
    <3>4. ToSet(sys) = {c}
      BY <3>3, IsSeqOne, Zenon
    <3>5. b = c
      BY <2>1, <3>4
    <3>6. u = its
      BY <1>8, <1>9, <3>2, <3>3, <3>5
    <3> QED
      BY <3>3, <3>5, <3>6 DEF OfIts
  <2>2. ASSUME NEW i \in 1..N, b \in ToSet(d.turns[i].blocks)
        PROVE  OfTurn(b.ns, its)
    <3> DEFINE x == said[i]
    <3>1. PICK u \in DOMAIN talk : From(x, u)
      BY <1>5
    <3>2. x.role \notin Instructing /\ d.turns[i] = AnthropicTurn(x)
      BY <1>5
    <3> HIDE DEF x
    <3>3. /\ AllSaid(AnthropicTurn(x).blocks, u)
          /\ ~x.mark => Clean(AnthropicTurn(x).blocks, u)
      BY <3>1, <3>2, AnthropicTurnIs
    <3>4. b \in ToSet(AnthropicTurn(x).blocks)
      BY <2>2, <3>2
    <3>5. x.mark
      BY <1>9, <3>3, <3>4 DEF Clean
    <3>6. u = its
      BY <1>8, <3>1, <3>5
    <3> QED
      BY <3>3, <3>4, <3>6 DEF AllSaid, OfIts
  <2> QED
    BY <1>5, <1>9, <2>1, <2>2 DEF Within
<1>10. \/ \E b : Within(d, b) /\ b.mark
       \/ /\ talk[its].role \in Instructing /\ its \in DOMAIN talk
          /\ \E u \in DOMAIN talk : u > its /\ talk[u].role \in Instructing
  <2>1. CASE m.role \notin Instructing
    <3>1. PICK i \in 1..N : said[i] = m
      BY <1>5, <2>1
    <3>2. d.turns[i] = AnthropicTurn(m)
      BY <1>5, <3>1
    <3>3. PICK b \in ToSet(AnthropicTurn(m).blocks) : b.mark
      BY <1>1, <1>2, <2>1, AnthropicTurnIs
    <3>4. Within(d, b)
      BY <1>5, <3>2, <3>3 DEF Within
    <3> QED
      BY <3>3, <3>4
  <2>2. CASE m.role \in Instructing
    <3>1. /\ Len(ins) \in Nat /\ \A i \in 1..Len(ins) : ins[i] \in ToSet(ins)
          /\ \A x \in ToSet(ins) : \E i \in 1..Len(ins) : ins[i] = x
          /\ (Len(ins) = 0 <=> ins = <<>>)
      BY <1>7, SeqIs
    <3>2. PICK k \in 1..Len(ins) : ins[k] = m
      BY <1>7, <2>2, <3>1
    <3>3. ins # <<>> /\ Len(ins) \in 1..Len(ins)
      BY <3>1, <3>2
    <3>4. CASE k = Len(ins)
      <4>1. l = m
        BY <3>2, <3>4 DEF l
      <4>2. PICK b : sys = <<b>> /\ b.mark = m.mark
        BY <1>2, <1>6, <3>3, <4>1
      <4>3. ToSet(sys) = {b}
        BY <4>2, IsSeqOne, Zenon
      <4>4. Within(d, b) /\ b.mark
        BY <1>1, <1>5, <4>2, <4>3 DEF Within
      <4> QED
        BY <4>4
    <3>5. CASE k # Len(ins)
      <4>1. k < Len(ins)
        BY <3>1, <3>5
      <4>2. <<m, l>> \in Later(ToSet(msgs))
        BY <1>7, <3>2, <3>3, <4>1 DEF InPairs, l
      <4>3. l.role \in Instructing
        BY <1>7, <3>1, <3>3 DEF l
      <4>4. PICK a \in DOMAIN talk, u \in DOMAIN talk : a < u /\ From(m, a) /\ From(l, u)
        BY <2>2, <4>2, <4>3 DEF Later
      <4>5. a = its
        BY <1>1, <1>8, <4>4
      <4>6. talk[a].role \in Instructing /\ talk[u].role \in Instructing
        BY <2>2, <4>3, <4>4 DEF From
      <4> QED
        BY <4>4, <4>5, <4>6
    <3> QED
      BY <3>4, <3>5
  <2> QED
    BY <2>1, <2>2
<1> QED
  BY <1>5, <1>9, <1>10 DEF its

(* Without a mark of the client's, at most three blocks are marked: the     *)
(* last of the system prompt and that of two turns.                        *)
LEMMA MarksInjected ==
  ASSUME NEW msgs, Faithful(msgs), marked = 0, NEW d, d = AnthropicBody(msgs)
  PROVE  /\ ABody(d) /\ d.cachedTools = TRUE
         /\ \E x, y, z : \A b : Within(d, b) /\ b.mark => b.ns \in {x, y, z}
<1> DEFINE plain == Uninjected(msgs)
           said == With(msgs, Roles \ Instructing)
           ins == With(msgs, Instructing)
           l == ins[Len(ins)]
           sys == AnthropicSystem(msgs)
           N == Len(said)
           of(i) == plain.turns[i].blocks
           lastOf(i) == of(i)[Len(of(i))].ns
           new(i) == IF i \in Breakpoints(Len(plain.turns)) THEN MarkLast(of(i)) ELSE of(i)
           turns == [i \in DOMAIN plain.turns |-> Turn(plain.turns[i].role, new(i))]
<1>1. ASSUME NEW m \in ToSet(msgs) PROVE ~m.mark
  <2>1. PICK t \in DOMAIN talk : From(m, t)
    BY DEF Faithful
  <2> QED
    BY <2>1 DEF From
<1>2. d = InjectCacheControl(plain)
  <2>1. DOMAIN msgs = 1..Len(msgs) /\ \A i \in 1..Len(msgs) : msgs[i] \in ToSet(msgs)
    BY SeqIs DEF Faithful
  <2>2. ~ClientCaching(msgs)
    BY <1>1, <2>1 DEF ClientCaching
  <2> QED
    BY <2>2 DEF AnthropicBody, Uninjected
<1>3. d = [plain EXCEPT !.system = MarkLast(@), !.cachedTools = TRUE, !.turns = turns]
  <2> HIDE DEF plain
  <2> QED
    BY <1>2 DEF InjectCacheControl
<1>4. Turned(plain, said, msgs)
  <2>1. plain = Uninjected(msgs) /\ said = With(msgs, Roles \ Instructing)
    OBVIOUS
  <2> HIDE DEF plain, said
  <2> QED
    BY <2>1, UninjectedIs
<1>5. /\ ins = <<>> => sys = <<>>
      /\ ins # <<>> =>
            /\ l \in ToSet(msgs)
            /\ \A u \in DOMAIN talk : From(l, u) =>
                  \E b : sys = <<b>> /\ OfIts(b, u) /\ b.mark = l.mark
  BY AnthropicSystemIs
<1>6. sys = AnthropicSystem(msgs)
  OBVIOUS
<1> HIDE DEF plain, said, ins, l, sys
<1>7. /\ plain = [system |-> plain.system, turns |-> plain.turns, cachedTools |-> plain.cachedTools]
      /\ IsSeq(plain.turns) /\ Len(plain.turns) = N /\ plain.system = sys
      /\ N \in Nat /\ DOMAIN plain.turns = 1..N
  BY <1>4, <1>6, SeqIs DEF Turned, ABody
<1>8. ASSUME NEW i \in 1..N PROVE \E t : Clean(of(i), t)
  <2>1. /\ said[i] \in ToSet(msgs) /\ of(i) = AnthropicTurn(said[i]).blocks
        /\ said[i].role \notin Instructing
    BY <1>4 DEF Turned
  <2>2. PICK t \in DOMAIN talk : From(said[i], t)
    BY <1>4 DEF Turned
  <2>3. ~said[i].mark
    BY <1>1, <2>1
  <2> DEFINE m == said[i]
  <2> HIDE DEF m, of
  <2>4. From(m, t) /\ m.role \notin Instructing /\ ~m.mark /\ of(i) = AnthropicTurn(m).blocks
    BY <2>1, <2>2, <2>3 DEF m
  <2> QED
    BY <2>4, AnthropicTurnIs
<1>9. \E t : Clean(sys, t)
  <2>1. CASE ins = <<>>
    BY <1>5, <2>1, CleanNone
  <2>2. CASE ins # <<>>
    <3>1. l \in ToSet(msgs)
      BY <1>5, <2>2
    <3>2. PICK t \in DOMAIN talk : From(l, t)
      BY <3>1 DEF Faithful
    <3>3. PICK b : sys = <<b>> /\ OfIts(b, t) /\ b.mark = l.mark
      BY <1>5, <2>2, <3>2
    <3>4. b.mark = FALSE
      <4>1. b.mark \in BOOLEAN
        BY <3>3 DEF OfIts, Blocky
      <4> QED
        BY <1>1, <3>1, <3>3, <4>1
    <3> QED
      BY <3>3, <3>4, CleanOne
  <2> QED
    BY <2>1, <2>2
<1> DEFINE system == MarkLast(plain.system)
           lastSys == sys[Len(sys)].ns
<1>10. d = [system |-> system, turns |-> turns, cachedTools |-> TRUE]
  <2>1. d = [plain EXCEPT !.system = system, !.cachedTools = TRUE, !.turns = turns]
    BY <1>3
  <2> HIDE DEF system, turns
  <2> QED
    BY <1>7, <2>1
<1>11. IsSeq(system) /\ \A b \in ToSet(system) : b.mark => b.ns = lastSys
  <2>1. PICK t : Clean(sys, t)
    BY <1>9
  <2>2. AllSaid(MarkLast(sys), t) /\ \A b \in ToSet(MarkLast(sys)) : b.mark => b.ns = lastSys
    BY <2>1, MarkLastIs
  <2>3. system = MarkLast(sys)
    BY <1>7
  <2> HIDE DEF system
  <2> QED
    BY <2>2, <2>3 DEF AllSaid
<1> HIDE DEF system, lastSys
<1>12. /\ turns = [i \in 1..N |-> turns[i]]
       /\ \A i \in 1..N : turns[i].blocks = new(i)
  <2> HIDE DEF new
  <2> QED
    BY <1>7 DEF Turn
<1> HIDE DEF turns, of
<1>13. IsSeq(turns) /\ Len(turns) = N
  BY <1>7, <1>12, IsSeqBy
<1>14. ASSUME NEW i \in 1..N
       PROVE  /\ IsSeq(new(i))
              /\ \A b \in ToSet(new(i)) : b.mark => i \in Breakpoints(N) /\ b.ns = lastOf(i)
  <2> DEFINE bs == of(i)
  <2>1. PICK t : Clean(bs, t)
    BY <1>8
  <2>2. new(i) = IF i \in Breakpoints(N) THEN MarkLast(bs) ELSE bs
    BY <1>7
  <2>3. lastOf(i) = bs[Len(bs)].ns
    OBVIOUS
  <2> HIDE DEF bs, new, lastOf
  <2>4. AllSaid(MarkLast(bs), t) /\ \A b \in ToSet(MarkLast(bs)) : b.mark => b.ns = bs[Len(bs)].ns
    BY <2>1, MarkLastIs
  <2>5. CASE i \in Breakpoints(N)
    BY <2>2, <2>3, <2>4, <2>5 DEF AllSaid
  <2>6. CASE i \notin Breakpoints(N)
    BY <2>1, <2>2, <2>6 DEF Clean, AllSaid
  <2> QED
    BY <2>5, <2>6
<1> HIDE DEF new, lastOf
<1>15. /\ d.system = system /\ d.turns = turns /\ d.cachedTools = TRUE
       /\ d = [system |-> d.system, turns |-> d.turns, cachedTools |-> d.cachedTools]
  BY <1>10
<1>16. ABody(d)
  BY <1>11, <1>12, <1>13, <1>14, <1>15 DEF ABody
<1> DEFINE p == N - 1
           q == N \div 3 + 1
<1>17. \A i \in Breakpoints(N) : i = p \/ i = q
  BY DEF Breakpoints
<1> HIDE DEF p, q, N
<1>18. ASSUME NEW b, Within(d, b), b.mark
       PROVE  b.ns \in {lastSys, lastOf(p), lastOf(q)}
  <2>1. CASE b \in ToSet(system)
    BY <1>11, <1>18, <2>1
  <2>2. ASSUME NEW i \in 1..N, b \in ToSet(turns[i].blocks)
        PROVE  b.ns \in {lastSys, lastOf(p), lastOf(q)}
    <3>1. i \in Breakpoints(N) /\ b.ns = lastOf(i)
      BY <1>12, <1>14, <1>18, <2>2
    <3> QED
      BY <1>17, <3>1
  <2> QED
    BY <1>13, <1>15, <1>18, <2>1, <2>2 DEF Within
<1>19. \E x, y, z : \A b : Within(d, b) /\ b.mark => b.ns \in {x, y, z}
  BY <1>18
<1> QED
  BY <1>15, <1>16, <1>19

(* What is asked of Anthropic follows from what the client asked.          *)
LEMMA CachingFollows == Conversation /\ Asking /\ StreamTypeOK => CachingRespected
<1> SUFFICES ASSUME Conversation, Asking, StreamTypeOK, phase = "sent", protocol = "anthropic"
             PROVE  /\ marked # 0 /\ ~Unseen =>
                          /\ ~body.cachedTools
                          /\ \A ns \in MarkedBlocks : \A n \in ToSet(ns) : TurnOf(n) = TurnOf(marked)
                          /\ MarkedBlocks = {} => Dropped(marked)
                    /\ marked = 0 => body.cachedTools /\ Cardinality(MarkedBlocks) <= 3
  BY DEF CachingRespected
<1> DEFINE msgs == ToChat(sink, talk)
           d == AnthropicBody(msgs)
<1>1. /\ Conversing /\ (sink = "responses" => marked = 0)
      /\ body = TransformRequest(protocol, msgs) \/ body = WithBilling(TransformRequest(protocol, msgs))
  BY DEF Conversation, RequestSent
<1>2. TransformRequest(protocol, msgs) = d
  <2> HIDE DEF msgs
  <2> QED
    BY DEF TransformRequest
<1>3. body = d \/ body = WithBilling(d)
  <2> HIDE DEF d
  <2> QED
    BY <1>1, <1>2
<1>4. marked # 0 => marked \in DOMAIN pieces
  <2>1. IsSeq(pieces)
    BY <1>1 DEF Conversing
  <2>2. DOMAIN pieces = 1..Len(pieces) /\ Len(pieces) \in Nat
    BY <2>1, SeqIs
  <2>3. marked \in 0..Len(pieces)
    BY DEF Asking
  <2> QED
    BY <2>2, <2>3
<1>5. ASSUME marked # 0 => ~Unseen PROVE Faithful(msgs)
  <2>1. Seen
    BY <1>4, <1>5 DEF Seen
  <2>2. sink \in Sink
    BY DEF StreamTypeOK
  <2> QED
    BY <1>1, <2>1, <2>2, MessagesAre
<1>6. ASSUME marked # 0, ~Unseen
      PROVE  /\ ~body.cachedTools
             /\ \A ns \in MarkedBlocks : \A n \in ToSet(ns) : TurnOf(n) = TurnOf(marked)
             /\ MarkedBlocks = {} => Dropped(marked)
  <2>1. d = AnthropicBody(msgs) /\ Faithful(msgs)
    BY <1>5, <1>6
  <2> HIDE DEF d, msgs
  <2>2. /\ ABody(d) /\ d.cachedTools = FALSE
        /\ \A b : Within(d, b) /\ b.mark => OfTurn(b.ns, TurnOf(marked))
        /\ \/ \E b : Within(d, b) /\ b.mark
           \/ /\ talk[TurnOf(marked)].role \in Instructing
              /\ TurnOf(marked) \in DOMAIN talk
              /\ \E u \in DOMAIN talk : u > TurnOf(marked) /\ talk[u].role \in Instructing
    BY <1>6, <2>1, MarksKept
  <2>3. /\ body.cachedTools = d.cachedTools
        /\ \A x : x \in MarkedBlocks <=> \E b : x = b.ns /\ b.mark /\ Within(d, b)
    BY <1>3, <2>2, BodyIs
  <2>4. \A ns \in MarkedBlocks : \A n \in ToSet(ns) : TurnOf(n) = TurnOf(marked)
    BY <2>2, <2>3 DEF OfTurn
  <2>5. MarkedBlocks = {} => Dropped(marked)
    <3> SUFFICES ASSUME MarkedBlocks = {} PROVE Dropped(marked)
      OBVIOUS
    <3>1. Superseded(TurnOf(marked))
      BY <2>2, <2>3 DEF Superseded
    <3> QED
      BY <3>1 DEF Dropped
  <2> QED
    BY <2>2, <2>3, <2>4, <2>5
<1>7. ASSUME marked = 0
      PROVE  body.cachedTools /\ Cardinality(MarkedBlocks) <= 3
  <2>1. d = AnthropicBody(msgs) /\ Faithful(msgs)
    BY <1>5, <1>7
  <2> HIDE DEF d, msgs
  <2>2. /\ ABody(d) /\ d.cachedTools = TRUE
        /\ \E x, y, z : \A b : Within(d, b) /\ b.mark => b.ns \in {x, y, z}
    BY <1>7, <2>1, MarksInjected
  <2>3. PICK x, y, z : \A b : Within(d, b) /\ b.mark => b.ns \in {x, y, z}
    BY <2>2
  <2>4. /\ body.cachedTools = d.cachedTools
        /\ \A ns : ns \in MarkedBlocks <=> \E b : ns = b.ns /\ b.mark /\ Within(d, b)
    BY <1>3, <2>2, BodyIs
  <2>5. MarkedBlocks \subseteq {x, y, z}
    BY <2>3, <2>4
  <2>6. Cardinality(MarkedBlocks) <= 3
    BY <2>5, AtMostThree
  <2> QED
    BY <2>2, <2>4, <2>6
<1> QED
  BY <1>6, <1>7

(* The mark of a client of the turn that it wants cached survives both     *)
(* translations, whatever the conversation (clientCaching,                 *)
(* translator_anthropic.go:188): the provider is asked to cache no other   *)
(* turn and no tools, and that turn unless a later system message takes    *)
(* its place; and without a mark, injectAnthropicCacheControl adds no      *)
(* more than three marks to the messages, and that of the tools.           *)
THEOREM CachingHolds == ExchangeSpec => []CachingRespected
<1>1. ExchangeInit => Asking /\ AnswerGiven
  BY AskingInit DEF ExchangeInit, AnswerGiven
<1>2. ExchangeSpec => []StreamTypeOK
  BY ExchangeStreams, StreamsTyped, PTL
<1>3. ExchangeSpec => [](Asking /\ AnswerGiven)
  BY <1>1, <1>2, AskingStep, PTL DEF ExchangeSpec
<1> QED
  BY <1>2, <1>3, ConversationsHold, CachingFollows, PTL
=============================================================================
