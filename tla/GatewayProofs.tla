--------------------------- MODULE GatewayProofs ---------------------------
(***************************************************************************)
(* Proofs about Gateway, for every set of requests, endpoints and keys and *)
(* every length of the lists of routes.                                    *)
(***************************************************************************)
EXTENDS Gateway, SequenceTheorems, TLAPS

LEMMA AnyEndpointType == AnyEndpoint \in Endpoint
  BY GatewayAssumption DEF AnyEndpoint

LEMMA RoutesType == \A s \in Routes : s \in Seq(Key) /\ s # <<>>
<1> SUFFICES ASSUME NEW s \in Routes PROVE s \in Seq(Key) /\ s # <<>>
  OBVIOUS
<1>1. PICK n \in 1..MaxRoutes : s \in [1..n -> Key]
  BY DEF Routes
<1>2. n \in Nat \ {0}
  BY GatewayAssumption
<1> QED
  BY <1>1, <1>2

(* What FailOver leaves is a list of routes again, and the first of a list *)
(* is a key.                                                               *)
LEMMA TailType ==
  ASSUME NEW s \in Seq(Key), Len(s) > 1
  PROVE  Tail(s) \in Seq(Key) /\ Tail(s) # <<>>
<1>1. Len(s) \in Nat /\ s # <<>> /\ Len(<<>>) = 0
  BY EmptySeq
<1>2. Tail(s) \in Seq(Key) /\ Len(Tail(s)) = Len(s) - 1
  BY <1>1, HeadTailProperties
<1>3. Len(Tail(s)) # Len(<<>>)
  BY <1>1, <1>2
<1> QED
  BY <1>2, <1>3, Zenon

LEMMA HeadType ==
  ASSUME NEW s \in Seq(Key), s # <<>>
  PROVE  Head(s) \in Key
  OBVIOUS

----------------------------------------------------------------------------

(* Every variable keeps its type, and a request that is being routed has a *)
(* route.                                                                  *)
THEOREM TypeCorrect == Spec => []TypeOK
<1>1. Init => TypeOK
  BY AnyEndpointType DEF Init, TypeOK, Phase, Answer, Routed
<1>2. TypeOK /\ [Next]_vars => TypeOK'
  <2> SUFFICES ASSUME TypeOK, [Next]_vars PROVE TypeOK'
    OBVIOUS
  <2> USE DEF TypeOK, Phase, Answer, Verdict, Routed, slots, keys
  <2>1. ASSUME NEW r \in Request, Accept(r) PROVE TypeOK'
    BY <2>1 DEF Accept, Goto
  <2>2. ASSUME NEW r \in Request, AnswerLocally(r) PROVE TypeOK'
    BY <2>2 DEF AnswerLocally, Finish, Goto
  <2>3. ASSUME NEW r \in Request, Route(r) PROVE TypeOK'
    BY <2>3, RoutesType DEF Route, Goto
  <2>4. ASSUME NEW r \in Request, Attempt(r) PROVE TypeOK'
    BY <2>4 DEF Attempt, Finish, Goto
  <2>5. ASSUME NEW r \in Request, CallSucceeds(r) PROVE TypeOK'
    BY <2>5 DEF CallSucceeds, Finish, Goto
  <2>6. ASSUME NEW r \in Request, CallFails(r) PROVE TypeOK'
    <3>1. Current(r) \in Key
      BY <2>6, HeadType DEF CallFails, Current
    <3>2. PICK v \in Verdict :
            /\ Fail(r, v)
            /\ \/ Finish(r, "error", "error")
               \/ /\ Goto(r, "refresh") \/ Goto(r, "blame")
                  /\ \/ logged' = [logged EXCEPT ![r] = "none"]
                     \/ logged' = [logged EXCEPT ![r] = "error"]
                  /\ UNCHANGED answer
      BY <2>6 DEF CallFails
    <3>3. UNCHANGED <<ep, todo, gone, slots, black, announced, silent>> /\ todo[r] # <<>>
      BY <2>6 DEF CallFails
    <3> QED
      BY <3>1, <3>2, <3>3 DEF Fail, Finish, Goto
  <2>7. ASSUME NEW r \in Request, Refresh(r) PROVE TypeOK'
    BY <2>7 DEF Refresh, Goto
  <2>8. ASSUME NEW r \in Request, RecallFails(r) PROVE TypeOK'
    BY <2>8 DEF RecallFails, Goto
  <2>9. ASSUME NEW r \in Request, Commit(r) PROVE TypeOK'
    BY <2>9 DEF Commit, Goto
  <2>10. ASSUME NEW r \in Request, StreamSucceeds(r) PROVE TypeOK'
    BY <2>10 DEF StreamSucceeds, Finish, Goto
  <2>11. ASSUME NEW r \in Request, OpenFails(r) PROVE TypeOK'
    <3>1. Current(r) \in Key
      BY <2>11, HeadType DEF OpenFails, Current
    <3>2. PICK v \in Verdict :
            /\ Fail(r, v)
            /\ \/ Finish(r, "error", "error")
               \/ /\ Goto(r, "blame")
                  /\ \/ logged' = [logged EXCEPT ![r] = "error"]
                     \/ logged' = logged
                  /\ UNCHANGED answer
      BY <2>11 DEF OpenFails
    <3>3. UNCHANGED <<ep, todo, gone, slots, black, announced, silent>> /\ todo[r] # <<>>
      BY <2>11 DEF OpenFails
    <3> QED
      BY <3>1, <3>2, <3>3 DEF Fail, Finish, Goto
  <2>12. ASSUME NEW r \in Request, StreamBreaks(r) PROVE TypeOK'
    BY <2>12 DEF StreamBreaks, Fail, Goto
  <2>13. ASSUME NEW r \in Request, Blame(r) PROVE TypeOK'
    <3>1. Current(r) \in Key
      BY <2>13, HeadType DEF Blame, Current
    <3> QED
      BY <2>13, <3>1 DEF Blame, Finish, Goto
  <2>14. ASSUME NEW r \in Request, Notify(r) PROVE TypeOK'
    <3>1. Current(r) \in Key
      BY <2>14, HeadType DEF Notify, Current
    <3>2. Len(todo[r]) > 1 => Tail(todo[r]) \in Seq(Key) /\ Tail(todo[r]) # <<>>
      BY TailType
    <3>3. UNCHANGED <<ep, gone, slots, black, rejected, silent>> /\ announced' \subseteq Key
      BY <2>14, <3>1 DEF Notify
    <3>4. CASE \E a \in Answer : GiveUp(r, a)
      BY <3>3, <3>4 DEF GiveUp, Finish, Goto
    <3>5. CASE Len(todo[r]) > 1 /\ FailOver(r, Tail(todo[r]))
      BY <3>2, <3>3, <3>5 DEF FailOver, Goto
    <3> QED
      BY <2>14, <3>4, <3>5 DEF Notify, Broken
  <2>15. ASSUME NEW r \in Request, HandlerReturns(r) PROVE TypeOK'
    BY <2>15 DEF HandlerReturns
  <2>16. ASSUME NEW r \in Request, WriterReturns(r) PROVE TypeOK'
    BY <2>16 DEF WriterReturns
  <2>17. ASSUME NEW r \in Request, Depart(r) PROVE TypeOK'
    BY <2>17, AnyEndpointType DEF Depart, Goto
  <2>18. ASSUME NEW r \in Request, ClientLeaves(r) PROVE TypeOK'
    BY <2>18 DEF ClientLeaves
  <2>19. CASE UNCHANGED vars
    BY <2>19 DEF vars
  <2> QED
    BY <2>1, <2>2, <2>3, <2>4, <2>5, <2>6, <2>7, <2>8, <2>9, <2>10, <2>11,
       <2>12, <2>13, <2>14, <2>15, <2>16, <2>17, <2>18, <2>19 DEF Next, Step
<1> QED
  BY <1>1, <1>2, PTL DEF Spec

----------------------------------------------------------------------------

(* The closure has one owner at most: handler and writer never both        *)
(* release the slot, which would free that of another request.             *)
ReleasedOnce == \A r \in Request : owners[r] # {"handler", "stream"}

(* Who holds the slot, and when a stream is under way: what the safety of  *)
(* the release closure rests on.  The third conjunct says that the chat    *)
(* handler does not keep the release of a stream it committed.             *)
Ownership ==
    /\ ReleasedOnce
    /\ \A r \in Request : pc[r] = "idle" => owners[r] = {} /\ answer[r] = "nothing"
    /\ \A r \in Request :
          ep[r] = "chatStream" /\ answer[r] = "some" => "handler" \notin owners[r]
    /\ \A r \in Request :
          answer[r] = "some" => pc[r] \in {"relay", "blame", "notify"}

THEOREM OwnershipHolds == Spec => []Ownership
<1>1. Init => Ownership
  BY DEF Init, Ownership, ReleasedOnce
<1>2. TypeOK /\ Ownership /\ [Next]_vars => Ownership'
  <2> SUFFICES ASSUME TypeOK, Ownership, [Next]_vars PROVE Ownership'
    OBVIOUS
  <2>0. /\ pc \in [Request -> Phase] /\ ep \in [Request -> Endpoint]
        /\ answer \in [Request -> Answer]
        /\ owners \in [Request -> SUBSET {"handler", "stream"}]
    BY DEF TypeOK
  <2> USE <2>0 DEF Ownership, ReleasedOnce, slots
  (* A step that leaves the owners and the endpoints alone can disturb     *)
  (* this only by the phase and the answer it gives to its request.        *)
  <2>a. ASSUME NEW r \in Request, NEW p \in Phase \ {"idle"}, NEW a \in Answer,
               Goto(r, p), answer' = [answer EXCEPT ![r] = a],
               UNCHANGED <<ep, owners>>,
               a # "some" \/ (a = answer[r] /\ p \in {"relay", "blame", "notify"})
        PROVE  Ownership'
    BY <2>a DEF Goto
  <2>b. ASSUME NEW r \in Request, NEW a \in Answer, NEW l, Finish(r, a, l),
               a # "some", UNCHANGED <<ep, owners>>
        PROVE  Ownership'
    BY <2>a, <2>b DEF Finish, Phase
  <2>c. ASSUME NEW r \in Request, NEW p \in Phase \ {"idle"}, Goto(r, p),
               UNCHANGED <<ep, owners, answer>>,
               answer[r] # "some" \/ p \in {"relay", "blame", "notify"}
        PROVE  Ownership'
    BY <2>c DEF Goto
  <2>1. ASSUME NEW r \in Request, Accept(r) PROVE Ownership'
    BY <2>1 DEF Accept, Goto
  <2>2. ASSUME NEW r \in Request, AnswerLocally(r) PROVE Ownership'
    BY <2>2, <2>b DEF AnswerLocally, Answer
  <2>3. ASSUME NEW r \in Request, Route(r) PROVE Ownership'
    BY <2>3, <2>c DEF Route, Phase
  <2>4. ASSUME NEW r \in Request, Attempt(r) PROVE Ownership'
    BY <2>4, <2>b, <2>c DEF Attempt, Phase, Answer
  <2>5. ASSUME NEW r \in Request, CallSucceeds(r) PROVE Ownership'
    BY <2>5, <2>b DEF CallSucceeds, Answer
  <2>6. ASSUME NEW r \in Request, CallFails(r) PROVE Ownership'
    BY <2>6, <2>b, <2>c DEF CallFails, Phase, Answer
  <2>7. ASSUME NEW r \in Request, Refresh(r) PROVE Ownership'
    BY <2>7, <2>c DEF Refresh, Phase
  <2>8. ASSUME NEW r \in Request, RecallFails(r) PROVE Ownership'
    BY <2>8, <2>c DEF RecallFails, Phase
  <2>9. ASSUME NEW r \in Request, Commit(r) PROVE Ownership'
    BY <2>9 DEF Commit, Goto
  <2>10. ASSUME NEW r \in Request, StreamSucceeds(r) PROVE Ownership'
    BY <2>10, <2>b DEF StreamSucceeds, Answer
  <2>11. ASSUME NEW r \in Request, OpenFails(r) PROVE Ownership'
    BY <2>11, <2>b, <2>c DEF OpenFails, Phase, Answer
  <2>12. ASSUME NEW r \in Request, StreamBreaks(r) PROVE Ownership'
    BY <2>12, <2>c DEF StreamBreaks, Phase
  <2>13. ASSUME NEW r \in Request, Blame(r) PROVE Ownership'
    BY <2>13, <2>b, <2>c DEF Blame, Phase, Answer
  <2>14. ASSUME NEW r \in Request, Notify(r) PROVE Ownership'
    <3>1. UNCHANGED <<ep, owners>>
      BY <2>14 DEF Notify
    <3>2. CASE \E a \in Answer \ {"some"} : GiveUp(r, a)
      BY <3>1, <3>2, <2>b DEF GiveUp
    <3>3. CASE answer[r] # "some" /\ FailOver(r, Tail(todo[r]))
      BY <3>1, <3>3, <2>c DEF FailOver, Phase
    <3> QED
      BY <2>14, <3>2, <3>3 DEF Notify, Broken, Answer
  <2>15. ASSUME NEW r \in Request, HandlerReturns(r) PROVE Ownership'
    BY <2>15 DEF HandlerReturns
  <2>16. ASSUME NEW r \in Request, WriterReturns(r) PROVE Ownership'
    BY <2>16 DEF WriterReturns
  <2>17. ASSUME NEW r \in Request, Depart(r) PROVE Ownership'
    BY <2>17 DEF Depart, Goto
  <2>18. ASSUME NEW r \in Request, ClientLeaves(r) PROVE Ownership'
    BY <2>18 DEF ClientLeaves
  <2>19. CASE UNCHANGED vars
    BY <2>19 DEF vars
  <2> QED
    BY <2>1, <2>2, <2>3, <2>4, <2>5, <2>6, <2>7, <2>8, <2>9, <2>10, <2>11,
       <2>12, <2>13, <2>14, <2>15, <2>16, <2>17, <2>18, <2>19 DEF Next, Step
<1> QED
  BY <1>1, <1>2, TypeCorrect, PTL DEF Spec

(* The handler and the stream writer never both release a slot, for any    *)
(* number of requests, keys and routes and on every endpoint.              *)
THEOREM OneRelease == Spec => []ReleasedOnce
<1>1. Ownership => ReleasedOnce
  BY DEF Ownership
<1> QED
  BY <1>1, OwnershipHolds, PTL

----------------------------------------------------------------------------

(* No other route is tried once a byte of a stream was sent.               *)
THEOREM NoFailover == Spec => NoFailoverAfterCommit
<1>1. TypeOK /\ Ownership /\ [Next]_vars
        => [\A r \in Request : answer[r] = "some" => todo'[r] = todo[r]]_vars
  <2> SUFFICES ASSUME TypeOK, Ownership, Next, NEW q \in Request, answer[q] = "some"
               PROVE  todo'[q] = todo[q]
    BY DEF vars
  <2>1. pc[q] \in {"relay", "blame", "notify"}
    BY DEF Ownership
  <2>2. \/ todo' = todo
        \/ \E r \in Request : Route(r) \/ Depart(r) \/ Notify(r)
    BY DEF Next, Step, Accept, AnswerLocally, Attempt, CallSucceeds, CallFails,
           Refresh, RecallFails, Commit, StreamSucceeds, OpenFails,
           StreamBreaks, Blame, WriterReturns, HandlerReturns, ClientLeaves
  <2>3. ASSUME NEW r \in Request, Route(r) \/ Depart(r) PROVE todo'[q] = todo[q]
    BY <2>1, <2>3 DEF Route, Depart, TypeOK
  <2>4. ASSUME NEW r \in Request, Notify(r) PROVE todo'[q] = todo[q]
    BY <2>1, <2>4 DEF Notify, FailOver, GiveUp, TypeOK
  <2> QED
    BY <2>2, <2>3, <2>4
<1> QED
  BY <1>1, TypeCorrect, OwnershipHolds, PTL DEF Spec, NoFailoverAfterCommit

----------------------------------------------------------------------------

(* A request that is about to report a 401 or 403, or that is trying to    *)
(* cure it with a new token, did receive it from the key it is using.      *)
Accused ==
    \A r \in Request :
        pc[r] \in {"refresh", "recall", "blame"} /\ verdict[r] = "auth"
            => Current(r) \in rejected

(* Only keys that a provider answered 401 or 403 are blacklisted.          *)
THEOREM BlacklistSound == Spec => []BlacklistJustified
<1> DEFINE IInv == BlacklistJustified /\ Accused
<1>1. Init => IInv
  BY DEF Init, BlacklistJustified, Accused
<1>2. TypeOK /\ IInv /\ [Next]_vars => IInv'
  <2> SUFFICES ASSUME TypeOK, IInv, [Next]_vars PROVE IInv'
    OBVIOUS
  <2>0. /\ pc \in [Request -> Phase] /\ verdict \in [Request -> Verdict \cup {"none"}]
        /\ todo \in [Request -> Seq(Key)]
    BY DEF TypeOK
  <2> USE <2>0 DEF BlacklistJustified, Accused, Current, keys
  (* A request that goes where it does not report anything, or goes on     *)
  (* reporting the same failure, accuses no key anew.                      *)
  <2>a. ASSUME NEW r \in Request, NEW p \in Phase, Goto(r, p),
               UNCHANGED <<verdict, todo, keys>>,
               \/ p \notin {"refresh", "recall", "blame"}
               \/ pc[r] \in {"refresh", "recall"}
        PROVE  IInv'
    BY <2>a DEF Goto
  (* A failed attempt accuses the key it used. *)
  <2>b. ASSUME NEW r \in Request, NEW p \in Phase, Goto(r, p),
               NEW v \in Verdict, Fail(r, v), UNCHANGED <<todo, black>>
        PROVE  IInv'
    BY <2>b DEF Goto, Fail
  <2>1. ASSUME NEW r \in Request, Accept(r) PROVE IInv'
    BY <2>1, <2>a DEF Accept, Phase
  <2>2. ASSUME NEW r \in Request, AnswerLocally(r) PROVE IInv'
    BY <2>2, <2>a DEF AnswerLocally, Finish, Phase
  <2>3. ASSUME NEW r \in Request, Route(r) PROVE IInv'
    BY <2>3 DEF Route, Goto
  <2>4. ASSUME NEW r \in Request, Attempt(r) PROVE IInv'
    BY <2>4, <2>a DEF Attempt, Finish, Phase
  <2>5. ASSUME NEW r \in Request, CallSucceeds(r) PROVE IInv'
    BY <2>5, <2>a DEF CallSucceeds, Finish, Phase
  <2>6. ASSUME NEW r \in Request, CallFails(r) PROVE IInv'
    BY <2>6, <2>b DEF CallFails, Finish, Phase
  <2>7. ASSUME NEW r \in Request, Refresh(r) PROVE IInv'
    BY <2>7, <2>a DEF Refresh, Phase
  <2>8. ASSUME NEW r \in Request, RecallFails(r) PROVE IInv'
    BY <2>8, <2>a DEF RecallFails, Phase
  <2>9. ASSUME NEW r \in Request, Commit(r) PROVE IInv'
    BY <2>9, <2>a DEF Commit, Phase
  <2>10. ASSUME NEW r \in Request, StreamSucceeds(r) PROVE IInv'
    BY <2>10, <2>a DEF StreamSucceeds, Finish, Phase
  <2>11. ASSUME NEW r \in Request, OpenFails(r) PROVE IInv'
    BY <2>11, <2>b DEF OpenFails, Finish, Phase
  <2>12. ASSUME NEW r \in Request, StreamBreaks(r) PROVE IInv'
    BY <2>12, <2>b DEF StreamBreaks, Phase, Verdict
  <2>13. ASSUME NEW r \in Request, Blame(r) PROVE IInv'
    BY <2>13 DEF Blame, Finish, Goto
  <2>14. ASSUME NEW r \in Request, Notify(r) PROVE IInv'
    <3>1. UNCHANGED <<black, rejected>>
      BY <2>14 DEF Notify
    <3>2. CASE \E a \in Answer : GiveUp(r, a)
      BY <3>1, <3>2 DEF GiveUp, Finish, Goto
    <3>3. CASE FailOver(r, Tail(todo[r]))
      BY <3>1, <3>3 DEF FailOver, Goto
    <3> QED
      BY <2>14, <3>2, <3>3 DEF Notify, Broken, Answer
  <2>15. ASSUME NEW r \in Request, HandlerReturns(r) \/ WriterReturns(r) PROVE IInv'
    BY <2>15 DEF HandlerReturns, WriterReturns
  <2>16. ASSUME NEW r \in Request, Depart(r) PROVE IInv'
    BY <2>16 DEF Depart, Goto
  <2>17. ASSUME NEW r \in Request, ClientLeaves(r) PROVE IInv'
    BY <2>17 DEF ClientLeaves
  <2>18. CASE UNCHANGED vars
    BY <2>18 DEF vars
  <2> QED
    BY <2>1, <2>2, <2>3, <2>4, <2>5, <2>6, <2>7, <2>8, <2>9, <2>10, <2>11,
       <2>12, <2>13, <2>14, <2>15, <2>16, <2>17, <2>18 DEF Next, Step
<1> QED
  BY <1>1, <1>2, TypeCorrect, PTL DEF Spec

----------------------------------------------------------------------------

(* No key is blacklisted without key.blacklisted being fired for it, or    *)
(* about to be, except by a request of a passthrough endpoint.             *)
THEOREM BlacklistKnown == Spec => []BlacklistAnnounced
<1>1. Init => BlacklistAnnounced
  BY DEF Init, BlacklistAnnounced
<1>2. TypeOK /\ BlacklistAnnounced /\ [Next]_vars => BlacklistAnnounced'
  <2> SUFFICES ASSUME TypeOK, BlacklistAnnounced, [Next]_vars,
                      NEW k \in black', k \notin announced', k \notin silent'
               PROVE  \E q \in Request : pc'[q] = "notify" /\ k = Current(q)'
    BY DEF BlacklistAnnounced
  <2>0. /\ pc \in [Request -> Phase] /\ ep \in [Request -> Endpoint]
        /\ todo \in [Request -> Seq(Key)]
    BY DEF TypeOK
  <2> USE <2>0 DEF Current
  <2>1. k \in black /\ k \notin announced /\ k \notin silent
          => \E q \in Request : pc[q] = "notify" /\ k = Current(q)
    BY DEF BlacklistAnnounced
  (* A request that does not notify does not make another one forget to.   *)
  <2>a. ASSUME NEW r \in Request, pc[r] # "notify",
               UNCHANGED <<black, announced, silent>>,
               \A q \in Request \ {r} : pc'[q] = pc[q] /\ todo'[q] = todo[q]
        PROVE  \E q \in Request : pc'[q] = "notify" /\ k = Current(q)'
    BY <2>1, <2>a
  <2>2. ASSUME NEW r \in Request,
               \/ Accept(r) \/ AnswerLocally(r) \/ Route(r) \/ Attempt(r)
               \/ CallSucceeds(r) \/ Refresh(r) \/ RecallFails(r)
               \/ Commit(r) \/ StreamSucceeds(r) \/ StreamBreaks(r) \/ Depart(r)
        PROVE  \E q \in Request : pc'[q] = "notify" /\ k = Current(q)'
    BY <2>2, <2>a DEF Accept, AnswerLocally, Route, Attempt, CallSucceeds, Refresh,
       RecallFails, Commit, StreamSucceeds, StreamBreaks, Depart, Finish, Fail,
       Goto, keys
  <2>3. ASSUME NEW r \in Request, CallFails(r) \/ OpenFails(r)
        PROVE \E q \in Request : pc'[q] = "notify" /\ k = Current(q)'
    <3>1. /\ pc[r] # "notify" /\ UNCHANGED <<black, announced, silent, todo>>
          /\ \E p \in Phase : Goto(r, p)
      BY <2>3 DEF CallFails, OpenFails, Finish, Phase
    <3> QED
      BY <3>1, <2>a DEF Goto
  <2>4. ASSUME NEW r \in Request, Blame(r)
        PROVE \E q \in Request : pc'[q] = "notify" /\ k = Current(q)'
    <3>1. pc[r] = "blame" /\ UNCHANGED <<todo, announced>> /\ silent \subseteq silent'
      BY <2>4 DEF Blame
    <3>2. black' = black \/ black' = black \cup {Current(r)}
      BY <2>4 DEF Blame
    <3>3. CASE k = Current(r)
      <4>1. Goto(r, "notify")
        BY <2>4, <3>3 DEF Blame
      <4> QED
        BY <3>1, <3>3, <4>1 DEF Goto
    <3>4. CASE k # Current(r)
      <4>1. PICK q \in Request : pc[q] = "notify" /\ k = Current(q)
        BY <2>1, <3>1, <3>2, <3>4
      <4>2. \A p \in Request \ {r} : pc'[p] = pc[p]
        BY <2>4 DEF Blame, Finish, Goto
      <4>3. q # r
        BY <3>1, <4>1
      <4> QED
        BY <3>1, <4>1, <4>2, <4>3
    <3> QED
      BY <3>3, <3>4
  <2>5. ASSUME NEW r \in Request, Notify(r)
        PROVE \E q \in Request : pc'[q] = "notify" /\ k = Current(q)'
    <3>1. black' = black /\ silent' = silent
          /\ announced' = announced \cup ({Current(r)} \cap black)
      BY <2>5 DEF Notify
    <3>2. PICK q \in Request : pc[q] = "notify" /\ k = Current(q)
      BY <2>1, <3>1
    <3>3. q # r
      BY <3>1, <3>2
    <3>4. pc'[q] = pc[q] /\ todo'[q] = todo[q]
      BY <2>5, <3>3 DEF Notify, GiveUp, FailOver, Finish, Goto
    <3> QED
      BY <3>2, <3>4
  <2>6. ASSUME NEW r \in Request, HandlerReturns(r) \/ WriterReturns(r) \/ ClientLeaves(r)
        PROVE \E q \in Request : pc'[q] = "notify" /\ k = Current(q)'
    BY <2>1, <2>6 DEF HandlerReturns, WriterReturns, ClientLeaves, keys
  <2>7. CASE UNCHANGED vars
    BY <2>1, <2>7 DEF vars, keys
  <2> QED
    BY <2>2, <2>3, <2>4, <2>5, <2>6, <2>7 DEF Next, Step
<1> QED
  BY <1>1, <1>2, TypeCorrect, PTL DEF Spec

----------------------------------------------------------------------------

(* A closure that has not two owners has one if it has any. *)
LEMMA OwnersAlike ==
    ASSUME NEW S \in SUBSET {"handler", "stream"}, S # {"handler", "stream"}
    PROVE  (\E o \in {"handler", "stream"} : S = {o}) <=> S # {}
<1>1. CASE "handler" \in S
  BY <1>1
<1>2. CASE "handler" \notin S
  BY <1>2
<1> QED
  BY <1>1, <1>2

(* The handlers and stream writers keep the promise of RequestPromise on   *)
(* every endpoint but the translated streams: a slot is held until its     *)
(* request has been answered, and given back once.                         *)
THEOREM Refinement == Spec => KeepsPromise
<1> DEFINE stg == [r \in Request |-> IF pc[r] = "idle" THEN "out"
                                   ELSE IF pc[r] = "end" THEN "answered" ELSE "served"]
           hld == {r \in Request : owners[r] # {} /\ ep[r] \notin CompatStream}
           one == {r \in Request : OneOwner(r) /\ ep[r] \notin CompatStream}
<1>0. TypeOK /\ Ownership => one = hld
  <2> SUFFICES ASSUME TypeOK, Ownership, NEW r \in Request
               PROVE  OneOwner(r) <=> owners[r] # {}
    OBVIOUS
  <2> QED
    BY OwnersAlike DEF TypeOK, Ownership, ReleasedOnce, OneOwner
<1>1. Init => Promise!Init
  BY DEF Init, Promise!Init, OneOwner
<1>2. TypeOK /\ Ownership /\ TypeOK' /\ Ownership' /\ [Next]_vars
      => [Promise!Next]_(Promise!vars)
  <2> SUFFICES ASSUME TypeOK, Ownership, [Next]_vars, one = hld, (one = hld)'
               PROVE  Promise!Next \/ UNCHANGED <<stg, one>>
    <3>1. (TypeOK /\ Ownership)' => (one = hld)'
      <4> SUFFICES ASSUME TypeOK', Ownership', NEW r \in Request
                   PROVE  OneOwner(r)' <=> owners'[r] # {}
        BY DEF OneOwner
      <4> QED
        BY OwnersAlike DEF TypeOK, Ownership, ReleasedOnce, OneOwner
    <3> QED
      BY <1>0, <3>1 DEF Promise!vars
  <2>0. /\ pc \in [Request -> Phase] /\ ep \in [Request -> Endpoint]
        /\ owners \in [Request -> SUBSET {"handler", "stream"}]
    BY DEF TypeOK
  <2> USE <2>0
  (* Between acceptance and the last byte nothing is promised to change.   *)
  <2>a. ASSUME NEW r \in Request, NEW p \in Phase \ {"idle", "end"}, Goto(r, p),
               pc[r] \notin {"idle", "end"}, hld' = hld
        PROVE  UNCHANGED <<stg, hld>>
    BY <2>a DEF Goto
  <2>b. ASSUME NEW r \in Request, NEW a, NEW l, Finish(r, a, l),
               pc[r] \notin {"idle", "end"}, UNCHANGED <<ep, owners>>
        PROVE  Promise!Next
    <3>1. stg' = [stg EXCEPT ![r] = "answered"] /\ stg[r] = "served" /\ hld' = hld
      BY <2>b DEF Finish, Goto
    <3> QED
      BY <3>1 DEF Promise!Next, Promise!Answer
  <2>1. ASSUME NEW r \in Request, Accept(r) PROVE Promise!Next
    <3>1. stg' = [stg EXCEPT ![r] = "served"] /\ stg[r] = "out"
      BY <2>1 DEF Accept, Goto
    <3>2. r \notin hld
      BY <2>1 DEF Accept, Ownership
    <3>3. hld' = hld \/ hld' = hld \cup {r}
      <4>1. \A q \in Request \ {r} : owners'[q] = owners[q] /\ ep'[q] = ep[q]
        BY <2>1 DEF Accept
      <4> QED
        BY <3>2, <4>1
    <3> QED
      BY <3>1, <3>2, <3>3 DEF Promise!Next, Promise!Accept
  <2>2. ASSUME NEW r \in Request,
               AnswerLocally(r) \/ Attempt(r) \/ CallSucceeds(r) \/ StreamSucceeds(r)
        PROVE  Promise!Next \/ UNCHANGED <<stg, hld>>
    BY <2>2, <2>a, <2>b DEF AnswerLocally, Attempt, CallSucceeds, StreamSucceeds,
                            Phase, slots
  <2>3. ASSUME NEW r \in Request,
               Route(r) \/ Refresh(r) \/ RecallFails(r) \/ StreamBreaks(r)
        PROVE  UNCHANGED <<stg, hld>>
    BY <2>3, <2>a DEF Route, Refresh, RecallFails, StreamBreaks, Phase, slots
  <2>4. ASSUME NEW r \in Request, CallFails(r) \/ OpenFails(r) \/ Blame(r)
        PROVE  Promise!Next \/ UNCHANGED <<stg, hld>>
    BY <2>4, <2>a, <2>b DEF CallFails, OpenFails, Blame, Phase, slots
  <2>5. ASSUME NEW r \in Request, Commit(r) PROVE UNCHANGED <<stg, hld>>
    <3>1. hld' = hld
      <4>1. ep' = ep /\ \A q \in Request : owners[q] = {} <=> owners'[q] = {}
        BY <2>5 DEF Commit
      <4> QED
        BY <4>1
    <3> QED
      BY <2>5, <3>1, <2>a DEF Commit, Phase
  <2>6. ASSUME NEW r \in Request, Notify(r)
        PROVE  Promise!Next \/ UNCHANGED <<stg, hld>>
    <3>1. UNCHANGED <<ep, owners>> /\ pc[r] = "notify"
      BY <2>6 DEF Notify, slots
    <3>2. CASE \E a \in Answer : GiveUp(r, a)
      BY <3>1, <3>2, <2>b DEF GiveUp
    <3>3. CASE FailOver(r, Tail(todo[r]))
      BY <3>1, <3>3, <2>a DEF FailOver, Phase
    <3> QED
      BY <2>6, <3>2, <3>3 DEF Notify, Broken, Answer
  <2>7. ASSUME NEW r \in Request, HandlerReturns(r)
        PROVE  Promise!Next \/ UNCHANGED <<stg, hld>>
    <3>1. stg' = stg /\ ep' = ep /\ owners' = [owners EXCEPT ![r] = @ \ {"handler"}]
      BY <2>7 DEF HandlerReturns
    <3>2. CASE pc[r] = "end"
      <4>1. hld' = hld \/ (hld' = hld \ {r} /\ r \in hld)
        BY <3>1
      <4> QED
        BY <3>1, <3>2, <4>1 DEF Promise!Next, Promise!GiveBack
    <3>3. CASE ep[r] = "chatStream" /\ answer[r] = "some"
      <4>1. "handler" \notin owners[r]
        BY <3>3 DEF Ownership
      <4> QED
        BY <3>1, <4>1
    <3>4. CASE ep[r] \in CompatStream
      BY <3>1, <3>4
    <3> QED
      BY <2>7, <3>2, <3>3, <3>4 DEF HandlerReturns
  <2>8. ASSUME NEW r \in Request, WriterReturns(r)
        PROVE  Promise!Next \/ UNCHANGED <<stg, hld>>
    <3>1. stg' = stg /\ stg[r] = "answered" /\ ep' = ep
      BY <2>8 DEF WriterReturns
    <3>2. owners[r] = {"stream"} /\ owners' = [owners EXCEPT ![r] = {}]
      <4>1. owners[r] \subseteq {"handler", "stream"} /\ "stream" \in owners[r]
        BY <2>8 DEF WriterReturns
      <4>2. owners[r] # {"handler", "stream"}
        BY DEF Ownership, ReleasedOnce
      <4>3. owners[r] = {"stream"}
        BY <4>1, <4>2
      <4> QED
        BY <2>8, <4>3 DEF WriterReturns
    <3>3. hld' = hld \ {r} /\ (r \in hld \/ hld' = hld)
      BY <3>1, <3>2
    <3> QED
      BY <3>1, <3>3 DEF Promise!Next, Promise!GiveBack
  <2>9. ASSUME NEW r \in Request, Depart(r) PROVE Promise!Next
    <3>1. stg' = [stg EXCEPT ![r] = "out"] /\ stg[r] = "answered"
      BY <2>9 DEF Depart, Goto
    <3>2. r \notin hld /\ owners' = owners /\ owners[r] = {}
      BY <2>9 DEF Depart
    <3>3. \A q \in Request \ {r} : ep'[q] = ep[q]
      BY <2>9 DEF Depart
    <3>4. hld' = hld
      BY <3>2, <3>3
    <3> QED
      BY <3>1, <3>2, <3>4 DEF Promise!Next, Promise!Leave
  <2>10. ASSUME NEW r \in Request, ClientLeaves(r) PROVE UNCHANGED <<stg, hld>>
    BY <2>10 DEF ClientLeaves, slots
  <2>11. CASE UNCHANGED vars
    BY <2>11 DEF vars, slots
  <2> QED
    BY <2>1, <2>2, <2>3, <2>4, <2>5, <2>6, <2>7, <2>8, <2>9, <2>10, <2>11
       DEF Next, Step
<1> QED
  BY <1>1, <1>2, TypeCorrect, OwnershipHolds, PTL DEF Spec, KeepsPromise, Promise!Spec
----------------------------------------------------------------------------

(* What one request has done so far: it has routes only once it was routed *)
(* and a passthrough endpoint one at most; success is logged at the end,   *)
(* and only there; and when it ends, its answer has a reason and a record. *)
Accounted(r) ==
    /\ pc[r] \in {"idle", "admitted"} => todo[r] = <<>>
    /\ ep[r] = "passthrough" =>
          /\ pc[r] \notin {"refresh", "recall", "notify"}
          /\ todo[r] # <<>> => Len(todo[r]) = 1
    /\ pc[r] # "end" => logged[r] # "ok"
    /\ pc[r] = "end" /\ todo[r] # <<>> =>
          /\ answer[r] = "error" =>
                Len(todo[r]) = 1 \/ verdict[r] = "fatal" \/ r \in gone
          /\ ep[r] \notin {"messagesStream", "passthrough"} =>
                (answer[r] = "ok" <=> logged[r] = "ok")

Move(r) == Accept(r) \/ Step(r) \/ HandlerReturns(r) \/ ClientLeaves(r)

(* A step of one request changes nothing of the others. *)
LEMMA OthersKept ==
  ASSUME TypeOK, NEW r \in Request, NEW q \in Request, q # r, Move(r)
  PROVE  /\ pc'[q] = pc[q] /\ ep'[q] = ep[q] /\ todo'[q] = todo[q]
         /\ verdict'[q] = verdict[q] /\ answer'[q] = answer[q]
         /\ logged'[q] = logged[q] /\ (q \in gone' <=> q \in gone)
<1> USE DEF TypeOK, Goto, Finish, Fail, slots, keys
<1>1. CASE Accept(r)
  BY <1>1 DEF Accept
<1>2. CASE AnswerLocally(r)
  BY <1>2 DEF AnswerLocally
<1>3. CASE Route(r)
  BY <1>3 DEF Route
<1>4. CASE Attempt(r)
  BY <1>4 DEF Attempt
<1>5. CASE CallSucceeds(r)
  BY <1>5 DEF CallSucceeds
<1>6. CASE CallFails(r)
  BY <1>6 DEF CallFails
<1>7. CASE Refresh(r)
  BY <1>7 DEF Refresh
<1>8. CASE RecallFails(r)
  BY <1>8 DEF RecallFails
<1>9. CASE Commit(r)
  BY <1>9 DEF Commit
<1>10. CASE StreamSucceeds(r)
  BY <1>10 DEF StreamSucceeds
<1>11. CASE OpenFails(r)
  BY <1>11 DEF OpenFails
<1>12. CASE StreamBreaks(r)
  BY <1>12 DEF StreamBreaks
<1>13. CASE Blame(r)
  BY <1>13 DEF Blame
<1>14. CASE Notify(r)
  BY <1>14 DEF Notify, FailOver, GiveUp
<1>15. CASE HandlerReturns(r)
  BY <1>15 DEF HandlerReturns
<1>16. CASE WriterReturns(r)
  BY <1>16 DEF WriterReturns
<1>17. CASE Depart(r)
  BY <1>17 DEF Depart
<1>18. CASE ClientLeaves(r)
  BY <1>18 DEF ClientLeaves
<1> QED
  BY <1>1, <1>2, <1>3, <1>4, <1>5, <1>6, <1>7, <1>8, <1>9, <1>10, <1>11,
     <1>12, <1>13, <1>14, <1>15, <1>16, <1>17, <1>18 DEF Move, Step

LEMMA AccountedStep ==
  ASSUME TypeOK, NEW r \in Request, Accounted(r), Move(r)
  PROVE  Accounted(r)'
<1> USE DEF TypeOK, Accounted, Goto, Finish, Fail, slots, keys
<1>1. CASE Accept(r)
  BY <1>1 DEF Accept
<1>2. CASE AnswerLocally(r)
  BY <1>2 DEF AnswerLocally
<1>3. CASE Route(r)
  BY <1>3, RoutesType DEF Route
<1>4. CASE Attempt(r)
  BY <1>4 DEF Attempt
<1>5. CASE CallSucceeds(r)
  BY <1>5 DEF CallSucceeds
<1>6. CASE CallFails(r)
  BY <1>6 DEF CallFails
<1>7. CASE Refresh(r)
  BY <1>7 DEF Refresh
<1>8. CASE RecallFails(r)
  BY <1>8 DEF RecallFails
<1>9. CASE Commit(r)
  BY <1>9 DEF Commit
<1>10. CASE StreamSucceeds(r)
  BY <1>10 DEF StreamSucceeds
<1>11. CASE OpenFails(r)
  BY <1>11 DEF OpenFails
<1>12. CASE StreamBreaks(r)
  BY <1>12 DEF StreamBreaks
<1>13. CASE Blame(r)
  BY <1>13 DEF Blame
<1>14. CASE Notify(r)
  BY <1>14 DEF Notify, FailOver, GiveUp, Broken
<1>15. CASE HandlerReturns(r)
  BY <1>15 DEF HandlerReturns
<1>16. CASE WriterReturns(r)
  BY <1>16 DEF WriterReturns
<1>17. CASE Depart(r)
  BY <1>17 DEF Depart
<1>18. CASE ClientLeaves(r)
  BY <1>18 DEF ClientLeaves
<1> QED
  BY <1>1, <1>2, <1>3, <1>4, <1>5, <1>6, <1>7, <1>8, <1>9, <1>10, <1>11,
     <1>12, <1>13, <1>14, <1>15, <1>16, <1>17, <1>18 DEF Move, Step

THEOREM AllAccounted == Spec => [](\A r \in Request : Accounted(r))
<1> DEFINE IInv == \A r \in Request : Accounted(r)
<1>1. Init => IInv
  BY DEF Init, Accounted
<1>2. TypeOK /\ IInv /\ [Next]_vars => IInv'
  <2> SUFFICES ASSUME TypeOK, IInv, [Next]_vars, NEW q \in Request
               PROVE  Accounted(q)'
    OBVIOUS
  <2>1. ASSUME NEW r \in Request, Move(r) PROVE Accounted(q)'
    <3>1. CASE q = r
      BY <2>1, <3>1, AccountedStep
    <3>2. CASE q # r
      BY <2>1, <3>2, OthersKept DEF Accounted
    <3> QED
      BY <3>1, <3>2
  <2>2. CASE UNCHANGED vars
    BY <2>2 DEF vars, slots, keys, Accounted
  <2> QED
    BY <2>1, <2>2 DEF Next, Move
<1> QED
  BY <1>1, <1>2, TypeCorrect, PTL DEF Spec

(* A client is refused only after every route failed, after an error that  *)
(* no other route can cure, or after it left, for any number of routes.    *)
THEOREM QuitsLast == Spec => []GivesUpLast
<1>1. (\A r \in Request : Accounted(r)) => GivesUpLast
  BY DEF Accounted, GivesUpLast
<1> QED
  BY <1>1, AllAccounted, PTL

(* What the client saw as a success was logged as one, and nothing else    *)
(* was, whatever the attempts before it.                                   *)
THEOREM LogsTruthful == Spec => []OutcomeLogged
<1>1. (\A r \in Request : Accounted(r)) => OutcomeLogged
  BY DEF Accounted, OutcomeLogged
<1> QED
  BY <1>1, AllAccounted, PTL
=============================================================================
