----------------------------- MODULE RequestProofs -----------------------------
(***************************************************************************)
(* Machine-checked proofs about the life of a request, for any finite set  *)
(* of requests and any bounds.  The executor (RequestLifecycle): the type  *)
(* invariant, the exact accounting of outstanding_, the absence of         *)
(* forgotten requests, and the refinement of RequestService.  The service  *)
(* on top of it (GenerationService): it uses the executor as a client may, *)
(* and its ingress count covers the executor's.                            *)
(***************************************************************************)
EXTENDS GenerationService, FiniteSetTheorems, TLAPS

-----------------------------------------------------------------------------
(* RequestLifecycle                                                        *)

(* The part of the inductive invariant that does not count.                *)
Shape ==
    /\ TypeOK
    /\ ExactlyOneOwner
    /\ CapacityHeldUntilBothLeave
    /\ WorkerSide
    /\ ConsumerSide

-----------------------------------------------------------------------------
(* Every variable keeps its type: what submit, wait, abandon and the       *)
(* worker's completion store is again a set of requests, a client state or *)
(* a natural number; outstanding_ needs the count, see the main theorem.   *)
LEMMA InitInv == Init => LifecycleInv
<1> SUFFICES ASSUME Init PROVE LifecycleInv
  OBVIOUS
<1>1. TypeOK
  BY DEF Init, TypeOK, ClientState
<1>2. ExactlyOneOwner /\ CapacityHeldUntilBothLeave /\ WorkerSide /\ ConsumerSide
  BY DEF Init, ExactlyOneOwner, CapacityHeldUntilBothLeave, WorkerSide,
         ConsumerSide, Enqueued
<1>3. Holders = {}
  BY DEF Init, Holders, Enqueued
<1>4. CapacityAccounting
  BY <1>3, FS_EmptySet, LifecycleAssumption DEF Init, CapacityAccounting
<1> QED
  BY <1>1, <1>2, <1>4 DEF LifecycleInv

(* The client side of submit keeps the shape: nothing is owned by the      *)
(* worker before the second critical section of submit.                    *)
LEMMA SubmitShape ==
  ASSUME Shape, outstanding' \in Nat, NEW r \in Requests,
         \/ SubmitExpired(r) \/ SubmitRefused(r) \/ SubmitReserve(r)
         \/ SubmitBuildFails(r) \/ SubmitUndo(r) \/ SubmitEnqueue(r)
         \/ SubmitRefusedLate(r)
  PROVE  Shape'
<1> USE DEF sharedVars, queueVars, workerVars
<1>1. TypeOK'
  BY DEF Shape, TypeOK, ClientState, SubmitExpired, SubmitRefused, SubmitReserve,
         SubmitBuildFails, SubmitUndo, SubmitEnqueue, SubmitRefusedLate
<1>2. ExactlyOneOwner'
  BY DEF Shape, TypeOK, ClientState, ExactlyOneOwner, ConsumerSide, Enqueued,
         SubmitExpired, SubmitRefused, SubmitReserve,
         SubmitBuildFails, SubmitUndo, SubmitEnqueue, SubmitRefusedLate
<1>3. CapacityHeldUntilBothLeave'
  BY DEF Shape, CapacityHeldUntilBothLeave, SubmitExpired, SubmitRefused,
         SubmitReserve, SubmitBuildFails, SubmitUndo, SubmitEnqueue, SubmitRefusedLate
<1>4. WorkerSide'
  BY DEF Shape, WorkerSide, SubmitExpired, SubmitRefused,
         SubmitReserve, SubmitBuildFails, SubmitUndo, SubmitEnqueue, SubmitRefusedLate
<1>5. ConsumerSide'
  BY DEF Shape, TypeOK, ClientState, ConsumerSide, Enqueued,
         SubmitExpired, SubmitRefused, SubmitReserve,
         SubmitBuildFails, SubmitUndo, SubmitEnqueue, SubmitRefusedLate
<1> QED
  BY <1>1, <1>2, <1>3, <1>4, <1>5 DEF Shape

(* Waiting, cancelling, abandoning and releasing the consumer keep the     *)
(* shape; release_consumer is the only one that touches the capacity flag. *)
LEMMA ConsumerShape ==
  ASSUME Shape, outstanding' \in Nat, NEW r \in Requests,
         \/ WaitBegin(r) \/ WaitCancels(r) \/ WaitTakesOutput(r) \/ WaitReturns(r)
         \/ AbandonRequest(r) \/ ReleaseConsumer(r) \/ ConsumerReturnsCapacity(r)
  PROVE  Shape'
<1> USE DEF sharedVars, queueVars, workerVars
<1>1. TypeOK'
  BY DEF Shape, TypeOK, ClientState, WaitBegin, WaitCancels, WaitTakesOutput,
         WaitReturns, AbandonRequest, ReleaseConsumer, ConsumerReturnsCapacity
<1>2. ExactlyOneOwner'
  BY DEF Shape, TypeOK, ClientState, ExactlyOneOwner, Enqueued, WaitBegin, WaitCancels,
         WaitTakesOutput, WaitReturns, AbandonRequest, ReleaseConsumer,
         ConsumerReturnsCapacity
<1>3. CapacityHeldUntilBothLeave'
  BY DEF Shape, TypeOK, CapacityHeldUntilBothLeave, ConsumerSide, WaitBegin, WaitCancels,
         WaitTakesOutput, WaitReturns, AbandonRequest, ReleaseConsumer,
         ConsumerReturnsCapacity
<1>4. WorkerSide'
  BY DEF Shape, WorkerSide, WaitBegin, WaitCancels, WaitTakesOutput,
         WaitReturns, AbandonRequest, ReleaseConsumer, ConsumerReturnsCapacity
<1>5. ConsumerSide'
  BY DEF Shape, TypeOK, ClientState, ConsumerSide, CapacityHeldUntilBothLeave, Enqueued,
         WaitBegin, WaitCancels, WaitTakesOutput, WaitReturns, AbandonRequest,
         ReleaseConsumer, ConsumerReturnsCapacity
<1> QED
  BY <1>1, <1>2, <1>3, <1>4, <1>5 DEF Shape

(* The worker moves requests between its places (pending_, slots_, the     *)
(* requests it is completing) without losing or duplicating one.           *)
LEMMA WorkerMovesShape ==
  ASSUME Shape, outstanding' \in Nat, NEW r,
         \/ ExpirePending \/ RemovePending(r) \/ Admit(r) \/ AdmitThrows(r)
         \/ FinishActive(r) \/ PublishOutput(r) \/ UnitThrows \/ FailAll \/ WorkerExit
         \/ Shutdown
  PROVE  Shape'
<1> USE DEF sharedVars, queueVars, workerVars, WorkerFree, WorkerIdle
<1>1. TypeOK'
  BY DEF Shape, TypeOK, ExpirePending, RemovePending, Admit, AdmitThrows,
         FinishActive, PublishOutput, UnitThrows, FailAll, WorkerExit, Shutdown
<1>2. ExactlyOneOwner'
  BY DEF Shape, TypeOK, ExactlyOneOwner, Enqueued, ExpirePending, RemovePending,
         Admit, AdmitThrows, FinishActive, PublishOutput, UnitThrows, FailAll,
         WorkerExit, Shutdown
<1>3. CapacityHeldUntilBothLeave'
  BY DEF Shape, CapacityHeldUntilBothLeave, ExpirePending, RemovePending, Admit,
         AdmitThrows, FinishActive, PublishOutput, UnitThrows, FailAll, WorkerExit, Shutdown
<1>4. WorkerSide'
  BY DEF Shape, TypeOK, WorkerSide, ExpirePending, RemovePending, Admit, AdmitThrows,
         FinishActive, PublishOutput, UnitThrows, FailAll, WorkerExit, Shutdown
<1>5. ConsumerSide'
  BY DEF Shape, ConsumerSide, Enqueued, ExpirePending, RemovePending, Admit,
         AdmitThrows, FinishActive, PublishOutput, UnitThrows, FailAll, WorkerExit, Shutdown
<1> QED
  BY <1>1, <1>2, <1>3, <1>4, <1>5 DEF Shape

(* The three steps of a completion (done, mark_completed, the return of    *)
(* the capacity) keep the shape.                                           *)
LEMMA CompletionShape ==
  ASSUME Shape, outstanding' \in Nat, NEW r \in Requests,
         CompleteSetDone(r) \/ MarkCompleted(r) \/ WorkerReturnsCapacity(r)
  PROVE  Shape'
<1> USE DEF sharedVars, queueVars, workerVars
<1>1. TypeOK'
  BY DEF Shape, TypeOK, CompleteSetDone, MarkCompleted, WorkerReturnsCapacity
<1>2. ExactlyOneOwner'
  BY DEF Shape, TypeOK, ExactlyOneOwner, Enqueued, CompleteSetDone, MarkCompleted,
         WorkerReturnsCapacity
<1>3. CapacityHeldUntilBothLeave'
  BY DEF Shape, TypeOK, CapacityHeldUntilBothLeave, WorkerSide, CompleteSetDone,
         MarkCompleted, WorkerReturnsCapacity
<1>4. WorkerSide'
  BY DEF Shape, TypeOK, WorkerSide, CompleteSetDone, MarkCompleted,
         WorkerReturnsCapacity
<1>5. ConsumerSide'
  BY DEF Shape, TypeOK, ClientState, ConsumerSide, ExactlyOneOwner, WorkerSide, Enqueued,
         CompleteSetDone, MarkCompleted, WorkerReturnsCapacity
<1> QED
  BY <1>1, <1>2, <1>3, <1>4, <1>5 DEF Shape

-----------------------------------------------------------------------------
(* Holders is a finite set, so it can be counted.                          *)
LEMMA HoldersFinite == IsFiniteSet(Holders) /\ Cardinality(Holders) \in Nat
<1>1. Holders \in SUBSET Requests
  BY DEF Holders
<1> QED
  BY <1>1, FS_Subset, FS_CardinalityType, LifecycleAssumption

(* A step that changes neither the holders nor outstanding_ keeps the      *)
(* accounting.                                                             *)
LEMMA CountKept ==
  ASSUME CapacityAccounting, Holders' = Holders, outstanding' = outstanding
  PROVE  CapacityAccounting'
BY DEF CapacityAccounting

(* submit's first critical section makes exactly its own request a holder. *)
LEMMA ReserveCounts ==
  ASSUME Shape, CapacityAccounting, NEW r \in Requests, SubmitReserve(r)
  PROVE  CapacityAccounting' /\ outstanding' \in Nat
<1> USE DEF sharedVars, queueVars, workerVars
<1>1. r \notin Holders
  BY DEF Shape, Holders, ConsumerSide, Enqueued, SubmitReserve
<1>2. Holders' = Holders \cup {r}
  BY DEF Shape, TypeOK, Holders, Enqueued, SubmitReserve
<1>3. Cardinality(Holders') = Cardinality(Holders) + 1
  BY <1>1, <1>2, HoldersFinite, FS_AddElement
<1> QED
  BY <1>3, HoldersFinite, LifecycleAssumption DEF CapacityAccounting, SubmitReserve

(* A step that takes one holder away and runs release_reserved_capacity    *)
(* keeps the accounting: the decrement is never swallowed by its zero test.*)
LEMMA ReturnCounts ==
  ASSUME CapacityAccounting, NEW r \in Holders, Holders' = Holders \ {r},
         ReleaseReservedCapacity
  PROVE  CapacityAccounting' /\ outstanding' \in Nat
<1>1. Cardinality(Holders') = Cardinality(Holders) - 1
  BY HoldersFinite, FS_RemoveElement
<1>2. Cardinality(Holders) # 0
  BY HoldersFinite, FS_EmptySet
<1> QED
  BY <1>1, <1>2, HoldersFinite, LifecycleAssumption
  DEF CapacityAccounting, ReleaseReservedCapacity

(* The four returns of capacity: submit's two error paths, the consumer's  *)
(* and the worker's.                                                       *)
LEMMA ReturnsCount ==
  ASSUME Shape, CapacityAccounting, NEW r \in Requests,
         \/ SubmitUndo(r) \/ SubmitRefusedLate(r)
         \/ ConsumerReturnsCapacity(r) \/ WorkerReturnsCapacity(r)
  PROVE  CapacityAccounting' /\ outstanding' \in Nat
<1> USE DEF sharedVars, queueVars, workerVars
<1>1. r \in Holders
  BY DEF Holders, SubmitUndo, SubmitRefusedLate, ConsumerReturnsCapacity,
         WorkerReturnsCapacity
<1>2. CASE SubmitUndo(r) \/ SubmitRefusedLate(r)
  <2>1. Holders' = Holders \ {r}
    BY <1>2 DEF Shape, TypeOK, ConsumerSide, Holders, Enqueued, SubmitUndo, SubmitRefusedLate
  <2>2. ReleaseReservedCapacity
    BY <1>1, <1>2, HoldersFinite, FS_EmptySet
    DEF CapacityAccounting, ReleaseReservedCapacity, SubmitUndo, SubmitRefusedLate
  <2> QED
    BY <1>1, <2>1, <2>2, ReturnCounts
<1>3. CASE ConsumerReturnsCapacity(r)
  <2>1. Holders' = Holders \ {r}
    BY <1>3 DEF Shape, TypeOK, ConsumerSide, Holders, Enqueued, ConsumerReturnsCapacity
  <2> QED
    BY <1>1, <1>3, <2>1, ReturnCounts DEF ConsumerReturnsCapacity
<1>4. CASE WorkerReturnsCapacity(r)
  <2>1. Holders' = Holders \ {r}
    BY <1>4 DEF Shape, TypeOK, ConsumerSide, Holders, Enqueued, WorkerReturnsCapacity
  <2> QED
    BY <1>1, <1>4, <2>1, ReturnCounts DEF WorkerReturnsCapacity
<1> QED
  BY <1>2, <1>3, <1>4

(* Every other step leaves the set of holders alone, because the capacity  *)
(* flag is set only together with the obligation to return the capacity.   *)
LEMMA OthersKeepCount ==
  ASSUME Shape, CapacityAccounting, NEW r,
         \/ SubmitExpired(r) \/ SubmitRefused(r) \/ SubmitBuildFails(r) \/ SubmitEnqueue(r)
         \/ WaitBegin(r) \/ WaitCancels(r) \/ WaitTakesOutput(r) \/ WaitReturns(r)
         \/ AbandonRequest(r) \/ ReleaseConsumer(r)
         \/ ExpirePending \/ RemovePending(r) \/ Admit(r) \/ AdmitThrows(r)
         \/ FinishActive(r) \/ PublishOutput(r) \/ UnitThrows \/ FailAll \/ WorkerExit
         \/ Shutdown \/ CompleteSetDone(r) \/ MarkCompleted(r)
  PROVE  CapacityAccounting' /\ outstanding' \in Nat
<1> USE DEF sharedVars, queueVars, workerVars
<1>1. outstanding' = outstanding
  BY DEF SubmitExpired, SubmitRefused, SubmitBuildFails, SubmitEnqueue, WaitBegin,
         WaitCancels, WaitTakesOutput, WaitReturns, AbandonRequest, ReleaseConsumer,
         ExpirePending, RemovePending, Admit, AdmitThrows, FinishActive, PublishOutput,
         UnitThrows, FailAll, WorkerExit, Shutdown, CompleteSetDone, MarkCompleted
<1>2. CASE \/ SubmitExpired(r) \/ SubmitRefused(r) \/ SubmitBuildFails(r)
           \/ SubmitEnqueue(r)
  BY <1>1, <1>2, CountKept
  DEF Shape, TypeOK, ConsumerSide, CapacityHeldUntilBothLeave, Holders, Enqueued,
      SubmitExpired, SubmitRefused, SubmitBuildFails, SubmitEnqueue
<1>3. CASE \/ WaitBegin(r) \/ WaitCancels(r) \/ WaitTakesOutput(r) \/ WaitReturns(r)
           \/ AbandonRequest(r)
  BY <1>1, <1>3, CountKept
  DEF Shape, TypeOK, Holders, Enqueued, WaitBegin, WaitCancels, WaitTakesOutput,
      WaitReturns, AbandonRequest
<1>4. CASE ReleaseConsumer(r)
  BY <1>1, <1>4, CountKept
  DEF Shape, TypeOK, ConsumerSide, CapacityHeldUntilBothLeave, Holders, Enqueued,
      ReleaseConsumer
<1>5. CASE \/ ExpirePending \/ RemovePending(r) \/ Admit(r) \/ AdmitThrows(r)
           \/ FinishActive(r) \/ PublishOutput(r) \/ UnitThrows \/ FailAll
           \/ WorkerExit \/ Shutdown \/ CompleteSetDone(r)
  <2>1. UNCHANGED <<client, capacity_released, returning>>
    BY <1>5 DEF ExpirePending, RemovePending, Admit, AdmitThrows, FinishActive,
                PublishOutput, UnitThrows, FailAll, WorkerExit, Shutdown, CompleteSetDone
  <2>2. Holders' = Holders
    BY <2>1 DEF Holders, Enqueued
  <2> QED
    BY <1>1, <2>2, CountKept DEF Shape, TypeOK
<1>6. CASE MarkCompleted(r)
  <2>1. Holders' = Holders
    BY <1>6 DEF Shape, TypeOK, ConsumerSide, CapacityHeldUntilBothLeave, WorkerSide,
                Holders, Enqueued, MarkCompleted
  <2> QED
    BY <1>1, <2>1, CountKept DEF Shape, TypeOK
<1> QED
  BY <1>2, <1>3, <1>4, <1>5, <1>6

(* Every step of the specification preserves the inductive invariant.      *)
LEMMA NextInv == LifecycleInv /\ [Next]_vars => LifecycleInv'
<1> SUFFICES ASSUME LifecycleInv, [Next]_vars PROVE LifecycleInv'
  OBVIOUS
<1>0. Shape /\ CapacityAccounting
  BY DEF LifecycleInv, Shape
<1>1. SUFFICES Shape' /\ CapacityAccounting'
  BY DEF LifecycleInv, Shape
<1>2. ASSUME NEW r \in Requests, ClientStep(r) \/ ClientChoice(r)
      PROVE  Shape' /\ CapacityAccounting'
  <2>1. CapacityAccounting' /\ outstanding' \in Nat
    BY <1>0, <1>2, ReserveCounts, ReturnsCount, OthersKeepCount DEF ClientStep, ClientChoice
  <2> QED
    BY <1>0, <1>2, <2>1, SubmitShape, ConsumerShape DEF ClientStep, ClientChoice
<1>3. ASSUME WorkerStep \/ Shutdown
      PROVE  Shape' /\ CapacityAccounting'
  <2>1. PICK r :
           \/ ExpirePending \/ UnitThrows \/ FailAll \/ WorkerExit \/ Shutdown
           \/ RemovePending(r) \/ Admit(r) \/ AdmitThrows(r) \/ FinishActive(r)
           \/ PublishOutput(r)
           \/ r \in Requests /\ CompleteSetDone(r)
           \/ r \in Requests /\ MarkCompleted(r)
           \/ r \in Requests /\ WorkerReturnsCapacity(r)
    BY <1>3 DEF WorkerStep
  <2>2. CapacityAccounting' /\ outstanding' \in Nat
    BY <1>0, <2>1, ReturnsCount, OthersKeepCount
  <2> QED
    BY <1>0, <2>1, <2>2, WorkerMovesShape, CompletionShape
<1>4. ASSUME UNCHANGED vars
      PROVE  Shape' /\ CapacityAccounting'
  BY <1>0, <1>4
  DEF vars, sharedVars, queueVars, workerVars, Shape, TypeOK, ExactlyOneOwner,
      CapacityHeldUntilBothLeave, WorkerSide, ConsumerSide, Enqueued,
      CapacityAccounting, Holders
<1> QED
  BY <1>2, <1>3, <1>4 DEF Next, Terminated

(* The inductive invariant holds in every reachable state.                 *)
THEOREM LifecycleInvariant == Spec => []LifecycleInv
BY InitInv, NextInv, PTL DEF Spec

(* Every variable of the executor keeps its type for ever; in particular   *)
(* outstanding_, an unsigned counter in the code, never goes below zero.   *)
THEOREM TypeCorrect == Spec => []TypeOK
<1>1. LifecycleInv => TypeOK
  BY DEF LifecycleInv
<1> QED
  BY <1>1, LifecycleInvariant, PTL

(* outstanding_ is the number of requests that hold capacity and is at     *)
(* most max_outstanding_: release_consumer and mark_completed together     *)
(* return each unit exactly once.                                          *)
THEOREM CapacityIsExact == Spec => []CapacityAccounting
<1>1. LifecycleInv => CapacityAccounting
  BY DEF LifecycleInv
<1> QED
  BY <1>1, LifecycleInvariant, PTL

(* Once the worker thread has returned no accepted request is left         *)
(* undone: the second check in submit and fail_all close the window.       *)
THEOREM NoWaiterLeftBehind == Spec => []NoWaiterOutlivesWorker
<1>1. LifecycleInv => NoWaiterOutlivesWorker
  BY DEF LifecycleInv, NoWaiterOutlivesWorker, WorkerSide, ExactlyOneOwner
<1> QED
  BY <1>1, LifecycleInvariant, PTL

(* A request holds its capacity exactly until it is done and its consumer  *)
(* has left.                                                               *)
THEOREM CapacityLifetime == Spec => []CapacityHeldUntilBothLeave
<1>1. LifecycleInv => CapacityHeldUntilBothLeave
  BY DEF LifecycleInv
<1> QED
  BY <1>1, LifecycleInvariant, PTL

(* Every accepted request has exactly one owner until it is done.          *)
THEOREM Ownership == Spec => []ExactlyOneOwner
<1>1. LifecycleInv => ExactlyOneOwner
  BY DEF LifecycleInv
<1> QED
  BY <1>1, LifecycleInvariant, PTL

(* A client that returns from wait_for_request has consumed everything the *)
(* worker published: done is set after the last append_output and events   *)
(* and done are read under one lock.                                       *)
THEOREM OutputDelivered == Spec => []NoOutputLost
<1>1. Init => NoOutputLost
  BY DEF Init, NoOutputLost
<1>2. LifecycleInv /\ NoOutputLost /\ [Next]_vars => NoOutputLost'
  <2> SUFFICES ASSUME LifecycleInv, NoOutputLost, [Next]_vars PROVE NoOutputLost'
    OBVIOUS
  <2> USE DEF LifecycleInv, TypeOK, NoOutputLost, sharedVars, queueVars, workerVars
  <2>1. ASSUME NEW r \in Requests, ClientStep(r) \/ ClientChoice(r)
        PROVE  NoOutputLost'
    BY <2>1 DEF ClientStep, ClientChoice, SubmitExpired, SubmitRefused, SubmitReserve,
                SubmitBuildFails, SubmitUndo, SubmitEnqueue, SubmitRefusedLate,
                WaitBegin, WaitCancels, WaitTakesOutput, WaitReturns, AbandonRequest,
                ReleaseConsumer, ConsumerReturnsCapacity
  <2>2. ASSUME NEW r \in Requests, PublishOutput(r)
        PROVE  NoOutputLost'
    <3>1. r \notin done
      BY <2>2 DEF PublishOutput, ExactlyOneOwner
    <3> QED
      BY <2>2, <3>1 DEF PublishOutput, ConsumerSide
  <2>3. CASE UNCHANGED <<client, undelivered>>
    BY <2>3
  <2>4. ASSUME Next, ~ UNCHANGED <<client, undelivered>>
        PROVE  \E r \in Requests : ClientStep(r) \/ ClientChoice(r) \/ PublishOutput(r)
    BY <2>4 DEF Next, Terminated, vars, Shutdown, WorkerStep, ExpirePending, UnitThrows,
                FailAll, WorkerExit, RemovePending, Admit, AdmitThrows, FinishActive,
                CompleteSetDone, MarkCompleted, WorkerReturnsCapacity
  <2> QED
    BY <2>1, <2>2, <2>3, <2>4 DEF vars
<1> QED
  BY <1>1, <1>2, LifecycleInvariant, PTL DEF Spec

-----------------------------------------------------------------------------
(* RequestLifecycle implements RequestService.  Under the mapping of       *)
(* ServiceImage each step of a thread is one abstract step of its own      *)
(* request or changes nothing.                                             *)

Image == [q \in Requests |-> Status(q)]

(* What the argument needs of a request that is not done: it holds its     *)
(* capacity from the moment submit counted it.                             *)
LEMMA UndoneHold ==
  ASSUME Shape, NEW r \in Requests, r \notin done, client[r] \notin {"new", "rejected"}
  PROVE  r \in Holders /\ Status(r) = "accepted"
<1>1. r \in Holders
  BY DEF Shape, TypeOK, ClientState, CapacityHeldUntilBothLeave, Holders, Enqueued
<1> QED
  BY <1>1 DEF Status

(* A request that submit has not counted is idle or refused and holds      *)
(* nothing.                                                                *)
LEMMA OutsidersHoldNothing ==
  ASSUME Shape, NEW r \in Requests, client[r] \in {"new", "rejected"}
  PROVE  r \notin Holders /\ r \notin done
BY DEF Shape, ConsumerSide, Holders, Enqueued

(* The image depends on the client, done and the holders only; it changes  *)
(* at one request when these change there.                                 *)
LEMMA ImageStep ==
  ASSUME NEW r \in Requests,
         \A q \in Requests \ {r} : Status(q)' = Status(q)
  PROVE  Image' = [Image EXCEPT ![r] = Status(r)']
BY DEF Image

(* submit that throws before it counted the request refuses it.            *)
LEMMA RefuseMaps ==
  ASSUME Shape, NEW r \in Requests, SubmitExpired(r) \/ SubmitRefused(r)
  PROVE  ServiceImage!Refuse(r)
<1> USE DEF sharedVars, queueVars, workerVars, SubmitExpired, SubmitRefused
<1>1. Holders' = Holders
  BY OutsidersHoldNothing DEF Shape, TypeOK, ConsumerSide, Holders, Enqueued
<1>2. Status(r) = "idle" /\ Status(r)' = "refused"
  BY DEF Shape, TypeOK, Status
<1>3. \A q \in Requests \ {r} : Status(q)' = Status(q)
  BY <1>1 DEF Shape, TypeOK, Status
<1>4. Image' = [Image EXCEPT ![r] = "refused"] /\ Image[r] = "idle"
  BY <1>2, <1>3, ImageStep DEF Image
<1> QED
  BY <1>1, <1>4 DEF Image, ServiceImage!Refuse

(* submit's first critical section accepts: there is room, because the     *)
(* counter it compares is the number of holders.                           *)
LEMMA AcceptMaps ==
  ASSUME Shape, CapacityAccounting, NEW r \in Requests, SubmitReserve(r)
  PROVE  ServiceImage!Accept(r)
<1> USE DEF sharedVars, queueVars, workerVars, SubmitReserve
<1>0. r \notin Holders /\ r \notin done
  BY OutsidersHoldNothing
<1>1. Holders' = Holders \cup {r}
  BY DEF Shape, TypeOK, Holders, Enqueued
<1>2. Status(r) = "idle" /\ Status(r)' = "accepted"
  BY <1>0 DEF Shape, TypeOK, Status
<1>3. \A q \in Requests \ {r} : Status(q)' = Status(q)
  BY <1>1 DEF Shape, TypeOK, Status
<1>4. Image' = [Image EXCEPT ![r] = "accepted"] /\ Image[r] = "idle"
  BY <1>2, <1>3, ImageStep DEF Image
<1>5. ServiceImage!Cardinality(Holders) < MaxOutstanding
  <2>1. ServiceImage!Cardinality(Holders) = Cardinality(Holders)
    BY DEF ServiceImage!Cardinality, Cardinality
  <2> QED
    BY <2>1 DEF CapacityAccounting
<1> QED
  BY <1>1, <1>4, <1>5 DEF Image, ServiceImage!Accept

(* submit's two error paths behind the count withdraw the request.         *)
LEMMA WithdrawMaps ==
  ASSUME Shape, NEW r \in Requests, SubmitUndo(r) \/ SubmitRefusedLate(r)
  PROVE  ServiceImage!Withdraw(r)
<1> USE DEF sharedVars, queueVars, workerVars, SubmitUndo, SubmitRefusedLate
<1>0. r \notin done
  BY DEF Shape, ConsumerSide, Enqueued
<1>1. Holders' = Holders \ {r}
  BY DEF Shape, TypeOK, ConsumerSide, Holders, Enqueued
<1>2. Status(r) = "accepted" /\ Status(r)' = "refused"
  BY <1>0 DEF Shape, TypeOK, Status
<1>3. \A q \in Requests \ {r} : Status(q)' = Status(q)
  BY <1>1 DEF Shape, TypeOK, Status
<1>4. Image' = [Image EXCEPT ![r] = "refused"] /\ Image[r] = "accepted"
  BY <1>2, <1>3, ImageStep DEF Image
<1> QED
  BY <1>1, <1>4 DEF Image, ServiceImage!Withdraw

(* The critical section that sets done completes the request, whose        *)
(* capacity is still held.                                                 *)
LEMMA CompleteMaps ==
  ASSUME Shape, NEW r \in Requests, CompleteSetDone(r)
  PROVE  ServiceImage!Complete(r)
<1> USE DEF queueVars, CompleteSetDone
<1>0. r \notin done /\ client[r] \notin {"new", "rejected"}
  BY DEF Shape, ExactlyOneOwner, Enqueued
<1>1. r \in Holders /\ Status(r) = "accepted"
  BY <1>0, UndoneHold
<1>2. Holders' = Holders
  BY DEF Holders, Enqueued
<1>3. Status(r)' = "completed"
  BY <1>0, <1>1, <1>2 DEF Status
<1>4. \A q \in Requests \ {r} : Status(q)' = Status(q)
  BY <1>2 DEF Status
<1>5. Image' = [Image EXCEPT ![r] = "completed"] /\ Image[r] = "accepted"
  BY <1>1, <1>3, <1>4, ImageStep DEF Image
<1> QED
  BY <1>2, <1>5 DEF Image, ServiceImage!Complete

(* Whoever returns the capacity, consumer or worker, releases a completed  *)
(* request, and only once.                                                 *)
LEMMA ReleaseMaps ==
  ASSUME Shape, NEW r \in Requests, ConsumerReturnsCapacity(r) \/ WorkerReturnsCapacity(r)
  PROVE  ServiceImage!Release(r)
<1> USE DEF sharedVars, queueVars, workerVars, ConsumerReturnsCapacity, WorkerReturnsCapacity
<1>0. r \in done /\ r \in Holders /\ client[r] \in {"returning", "gone"}
  BY DEF Shape, ConsumerSide, WorkerSide, CapacityHeldUntilBothLeave, Holders
<1>1. Holders' = Holders \ {r}
  BY DEF Shape, TypeOK, ConsumerSide, Holders, Enqueued
<1>2. Status(r) = "completed" /\ Status(r)' = "released"
  BY <1>0, <1>1 DEF Shape, TypeOK, Status
<1>3. \A q \in Requests \ {r} : Status(q)' = Status(q)
  BY <1>1 DEF Shape, TypeOK, Status
<1>4. Image' = [Image EXCEPT ![r] = "released"] /\ Image[r] = "completed"
  BY <1>2, <1>3, ImageStep DEF Image
<1> QED
  BY <1>1, <1>4 DEF Image, ServiceImage!Release

(* The remaining steps of submit, wait and abandon are invisible: a unit   *)
(* of capacity that changes its owner stays held.                          *)
LEMMA ClientStutters ==
  ASSUME Shape, NEW r \in Requests,
         \/ SubmitBuildFails(r) \/ SubmitEnqueue(r)
         \/ WaitBegin(r) \/ WaitCancels(r) \/ WaitTakesOutput(r) \/ WaitReturns(r)
         \/ AbandonRequest(r) \/ ReleaseConsumer(r)
  PROVE  UNCHANGED <<Image, Holders>>
<1> USE DEF sharedVars, queueVars, workerVars, SubmitBuildFails, SubmitEnqueue, WaitBegin,
            WaitCancels, WaitTakesOutput, WaitReturns, AbandonRequest, ReleaseConsumer
<1>1. Holders' = Holders
  <2>1. CASE ReleaseConsumer(r)
    BY <2>1 DEF Shape, TypeOK, ConsumerSide, CapacityHeldUntilBothLeave, Holders, Enqueued
  <2>2. CASE ~ ReleaseConsumer(r)
    BY <2>2 DEF Shape, TypeOK, ConsumerSide, CapacityHeldUntilBothLeave, Holders, Enqueued
  <2> QED
    BY <2>1, <2>2
<1>2. \A q \in Requests : Status(q)' = Status(q)
  BY <1>1 DEF Shape, TypeOK, Status
<1> QED
  BY <1>1, <1>2 DEF Image

(* The worker's moves before done is set, mark_completed and the           *)
(* destructor are invisible.                                               *)
LEMMA WorkerStutters ==
  ASSUME Shape, NEW r,
         \/ ExpirePending \/ RemovePending(r) \/ Admit(r) \/ AdmitThrows(r)
         \/ FinishActive(r) \/ PublishOutput(r) \/ UnitThrows \/ FailAll \/ WorkerExit
         \/ Shutdown \/ MarkCompleted(r) \/ UNCHANGED vars
  PROVE  UNCHANGED <<Image, Holders>>
<1> USE DEF sharedVars, queueVars, workerVars
<1>1. UNCHANGED <<client, done>>
  BY DEF ExpirePending, RemovePending, Admit, AdmitThrows, FinishActive, PublishOutput,
         UnitThrows, FailAll, WorkerExit, Shutdown, MarkCompleted, vars
<1>2. Holders' = Holders
  <2>1. CASE MarkCompleted(r)
    BY <2>1 DEF Shape, TypeOK, ConsumerSide, CapacityHeldUntilBothLeave, WorkerSide,
                Holders, Enqueued, MarkCompleted
  <2>2. CASE ~ MarkCompleted(r)
    <3>1. UNCHANGED <<client, capacity_released, returning>>
      BY <2>2 DEF ExpirePending, RemovePending, Admit, AdmitThrows, FinishActive,
                  PublishOutput, UnitThrows, FailAll, WorkerExit, Shutdown, vars
    <3> QED
      BY <3>1 DEF Holders, Enqueued
  <2> QED
    BY <2>1, <2>2
<1>3. \A q \in Requests : Status(q)' = Status(q)
  BY <1>1, <1>2 DEF Status
<1> QED
  BY <1>2, <1>3 DEF Image

(* Every step of the executor is an abstract step or invisible.            *)
LEMMA StepMaps ==
  ASSUME LifecycleInv, [Next]_vars
  PROVE  [ServiceImage!Next]_(ServiceImage!vars)
<1>0. Shape /\ CapacityAccounting
  BY DEF LifecycleInv, Shape
<1>1. ASSUME UNCHANGED <<Image, Holders>>
      PROVE  UNCHANGED ServiceImage!vars
  BY <1>1 DEF Image, ServiceImage!vars
<1>2. ASSUME NEW r \in Requests, ClientStep(r) \/ ClientChoice(r)
      PROVE  ServiceImage!Next \/ UNCHANGED <<Image, Holders>>
  BY <1>0, <1>2, RefuseMaps, AcceptMaps, WithdrawMaps, ReleaseMaps, ClientStutters
  DEF ClientStep, ClientChoice, ServiceImage!Next
<1>3. ASSUME WorkerStep \/ Shutdown \/ UNCHANGED vars
      PROVE  ServiceImage!Next \/ UNCHANGED <<Image, Holders>>
  BY <1>0, <1>3, CompleteMaps, ReleaseMaps, WorkerStutters DEF WorkerStep, ServiceImage!Next
<1> QED
  BY <1>1, <1>2, <1>3 DEF Next, Terminated

(* The executor implements RequestService: for any number of requests and  *)
(* lanes, a request is accepted, completed and released at most once and   *)
(* in this order, and outstanding_ moves with these steps only.            *)
THEOREM LifecycleImplementsService == Spec => ImplementsRequestService
<1>1. Init => ServiceImage!Init
  <2> SUFFICES ASSUME Init PROVE ServiceImage!Init
    OBVIOUS
  <2>1. Holders = {}
    BY DEF Init, Holders, Enqueued
  <2>2. \A q \in Requests : Status(q) = "idle"
    BY DEF Init, Status
  <2> QED
    BY <2>1, <2>2 DEF ServiceImage!Init
<1> QED
  BY <1>1, StepMaps, LifecycleInvariant, PTL
  DEF Spec, ImplementsRequestService, ServiceImage!Spec

-----------------------------------------------------------------------------
(* GenerationService                                                       *)

(* What a handler's thread does to the executor on behalf of request r.    *)
ClientMoves(r) == ClientStep(r) \/ ClientChoice(r)

(* The steps of r's own handler.                                           *)
HandlerMoves(r) == Acquire(r) \/ RefuseOverloaded(r) \/ HandlerStep(r) \/ RunStep(r)

-----------------------------------------------------------------------------
(* Every step of the composition is a step of the executor or leaves it    *)
(* alone; a handler only moves the client side of its own request.         *)
LEMMA HandlerDrivesClient ==
  ASSUME NEW r \in Requests, HandlerMoves(r)
  PROVE  ClientMoves(r) \/ UNCHANGED vars
BY DEF HandlerMoves, ClientMoves, ClientStep, ClientChoice, Acquire, RefuseOverloaded,
       HandlerStep, AcquireThrows, LifetimeCreated, PrepareThrows, PromptPrepared,
       SubmitStep, SubmitThrew, RunBegins, RunReturns, RunThrows, ReleaseLifetime,
       DropPrepared, DropAbandons, AbandonStep, RunStep

(* The composition only takes steps of the executor.                       *)
LEMMA ServiceDrivesExecutor == [ServiceNext]_allVars => [Next]_vars
<1> SUFFICES ASSUME [ServiceNext]_allVars PROVE [Next]_vars
  OBVIOUS
<1>1. ASSUME NEW r \in Requests, HandlerMoves(r) PROVE [Next]_vars
  BY <1>1, HandlerDrivesClient DEF ClientMoves, Next
<1>2. ASSUME WorkerStep \/ ServiceShutdown \/ Terminated PROVE [Next]_vars
  BY <1>2 DEF ServiceShutdown, Next
<1>3. ASSUME UNCHANGED allVars PROVE [Next]_vars
  BY <1>3 DEF allVars
<1> QED
  BY <1>1, <1>2, <1>3 DEF ServiceNext, HandlerMoves

(* The service uses the executor only as its clients may: every behaviour  *)
(* of the composition is a behaviour of RequestLifecycle, whose theorems   *)
(* therefore hold under it.                                                *)
THEOREM ServiceUsesExecutor == ServiceSpec => Spec
<1>1. ServiceInit => Init
  BY DEF ServiceInit
<1> QED
  BY <1>1, ServiceDrivesExecutor, PTL DEF ServiceSpec, Spec

-----------------------------------------------------------------------------
(* The worker never turns a request into a holder, nor does it touch the   *)
(* client side.                                                            *)
LEMMA WorkerGrantsNothing ==
  ASSUME LifecycleInv, WorkerStep \/ Shutdown \/ Terminated
  PROVE  /\ UNCHANGED <<client, cancelled>>
         /\ Holders' \subseteq Holders
<1> USE DEF sharedVars, queueVars, workerVars
<1>1. UNCHANGED <<client, cancelled>>
  BY DEF WorkerStep, ExpirePending, UnitThrows, FailAll, WorkerExit, RemovePending, Admit,
         AdmitThrows, FinishActive, PublishOutput, CompleteSetDone, MarkCompleted,
         WorkerReturnsCapacity, Shutdown, Terminated, vars
<1>2. ASSUME NEW s \in Requests, MarkCompleted(s) PROVE Holders' \subseteq Holders
  BY <1>1, <1>2 DEF LifecycleInv, TypeOK, ConsumerSide, Holders, Enqueued, MarkCompleted
<1>3. ASSUME NEW s \in Requests, WorkerReturnsCapacity(s) PROVE Holders' \subseteq Holders
  BY <1>1, <1>3 DEF Holders, Enqueued, WorkerReturnsCapacity
<1>4. ASSUME UNCHANGED <<capacity_released, returning>> PROVE Holders' \subseteq Holders
  BY <1>1, <1>4 DEF Holders, Enqueued
<1> QED
  BY <1>1, <1>2, <1>3, <1>4
  DEF WorkerStep, ExpirePending, UnitThrows, FailAll, WorkerExit, RemovePending, Admit,
      AdmitThrows, FinishActive, PublishOutput, CompleteSetDone, Shutdown, Terminated, vars

(* A client step concerns its own request.                                 *)
LEMMA ClientMovesAlone ==
  ASSUME LifecycleInv, NEW r \in Requests, ClientMoves(r), NEW s \in Requests, s # r
  PROVE  /\ client'[s] = client[s]
         /\ s \in Holders' <=> s \in Holders
         /\ s \in cancelled' <=> s \in cancelled
BY DEF LifecycleInv, TypeOK, sharedVars, queueVars, workerVars, Holders, Enqueued,
       ClientMoves, ClientStep, ClientChoice, SubmitExpired, SubmitRefused, SubmitReserve,
       SubmitBuildFails, SubmitUndo, SubmitEnqueue, SubmitRefusedLate,
       WaitBegin, WaitCancels, WaitTakesOutput, WaitReturns, AbandonRequest,
       ReleaseConsumer, ConsumerReturnsCapacity

-----------------------------------------------------------------------------
(* Where a handler may go, seen from the ingress count: a lifetime is      *)
(* taken once, given back once, or kept.                                   *)
LEMMA LifetimesFinite == IsFiniteSet(Lifetimes) /\ Cardinality(Lifetimes) \in Nat
<1>1. Lifetimes \in SUBSET Requests
  BY DEF Lifetimes
<1> QED
  BY <1>1, FS_Subset, FS_CardinalityType, LifecycleAssumption

(* acquire counts the lifetime it creates in ingress.                      *)
LEMMA AcquireCounts ==
  ASSUME ServiceTypeOK, NEW r \in Requests, Acquire(r)
  PROVE  ServiceTypeOK'
<1>1. handler' \in [Requests -> HandlerState]
  BY DEF ServiceTypeOK, HandlerState, Acquire, Move
<1>2. r \notin Lifetimes /\ Lifetimes' = Lifetimes \cup {r}
  BY DEF ServiceTypeOK, Lifetimes, Acquire, Move
<1>3. Cardinality(Lifetimes') = Cardinality(Lifetimes) + 1
  BY <1>2, LifetimesFinite, FS_AddElement
<1> QED
  BY <1>1, <1>3, LifetimesFinite, LifecycleAssumption DEF ServiceTypeOK, Acquire

(* Each way a lifetime ends takes it out of the count.                     *)
LEMMA ReleaseCounts ==
  ASSUME ServiceTypeOK, NEW r \in Requests,
         AcquireThrows(r) \/ ReleaseLifetime(r) \/ DropPrepared(r)
  PROVE  ServiceTypeOK'
<1>1. handler' \in [Requests -> HandlerState]
  BY DEF ServiceTypeOK, HandlerState, AcquireThrows, ReleaseLifetime, DropPrepared, Move
<1>2. r \in Lifetimes /\ Lifetimes' = Lifetimes \ {r}
  BY DEF ServiceTypeOK, Lifetimes, AcquireThrows, ReleaseLifetime, DropPrepared, Move
<1>3. Cardinality(Lifetimes') = Cardinality(Lifetimes) - 1
  BY <1>2, LifetimesFinite, FS_RemoveElement
<1>4. Cardinality(Lifetimes) # 0
  BY <1>2, LifetimesFinite, FS_EmptySet
<1> QED
  BY <1>1, <1>3, <1>4, LifetimesFinite, LifecycleAssumption
  DEF ServiceTypeOK, AcquireThrows, ReleaseLifetime, DropPrepared

(* The other steps of a handler leave the lifetimes and the count alone.   *)
LEMMA OthersKeepLifetimes ==
  ASSUME ServiceTypeOK, NEW r \in Requests,
         \/ RefuseOverloaded(r) \/ LifetimeCreated(r) \/ PrepareThrows(r) \/ PromptPrepared(r)
         \/ SubmitStep(r) \/ SubmitThrew(r) \/ RunBegins(r) \/ RunReturns(r) \/ RunThrows(r)
         \/ DropAbandons(r) \/ AbandonStep(r) \/ RunStep(r)
  PROVE  ServiceTypeOK'
<1>1. handler' \in [Requests -> HandlerState] /\ ingress' = ingress
  BY DEF ServiceTypeOK, HandlerState, serviceVars, Move, RefuseOverloaded, LifetimeCreated,
         PrepareThrows, PromptPrepared, SubmitStep, SubmitThrew, RunBegins, RunReturns,
         RunThrows, DropAbandons, AbandonStep, RunStep
<1>2. Lifetimes' = Lifetimes
  BY DEF ServiceTypeOK, Lifetimes, serviceVars, Move, RefuseOverloaded, LifetimeCreated,
         PrepareThrows, PromptPrepared, SubmitStep, SubmitThrew, RunBegins, RunReturns,
         RunThrows, DropAbandons, AbandonStep, RunStep
<1> QED
  BY <1>1, <1>2 DEF ServiceTypeOK

-----------------------------------------------------------------------------
(* Submit, as its handler calls it, keeps to the places of prepare.        *)
LEMMA SubmittingSide ==
  ASSUME LifecycleInv, ServiceTypeOK, HandlerSide, NEW r \in Requests, SubmitStep(r)
  PROVE  HandlerSideOf(r)'
BY DEF LifecycleInv, TypeOK, HandlerSide, HandlerSideOf, SubmitStep, serviceVars,
       SubmitExpired, SubmitRefused, SubmitReserve, SubmitBuildFails, SubmitUndo,
       SubmitEnqueue, SubmitRefusedLate

(* run: when the consumer is gone the capacity is back, because a consumer *)
(* that waited leaves after done and before the worker could return it.    *)
LEMMA RunningSide ==
  ASSUME LifecycleInv, ServiceTypeOK, HandlerSide, NEW r \in Requests, RunStep(r)
  PROVE  HandlerSideOf(r)'
<1> USE DEF LifecycleInv, TypeOK, HandlerSide, HandlerSideOf, serviceVars,
            sharedVars, queueVars, workerVars
<1>1. CASE WaitCancels(r) \/ WaitTakesOutput(r) \/ WaitReturns(r)
  BY <1>1 DEF RunStep, WaitCancels, WaitTakesOutput, WaitReturns
<1>2. CASE ReleaseConsumer(r)
  BY <1>2 DEF RunStep, ReleaseConsumer, ConsumerSide, CapacityHeldUntilBothLeave
<1>3. CASE ConsumerReturnsCapacity(r)
  BY <1>3 DEF RunStep, ConsumerReturnsCapacity, ConsumerSide, Holders, Enqueued
<1> QED
  BY <1>1, <1>2, <1>3 DEF RunStep

(* A dropped request is cancelled, and stays so while it lingers.          *)
LEMMA AbandoningSide ==
  ASSUME LifecycleInv, ServiceTypeOK, HandlerSide, NEW r \in Requests,
         DropPrepared(r) \/ DropAbandons(r) \/ AbandonStep(r)
  PROVE  HandlerSideOf(r)'
<1> USE DEF LifecycleInv, TypeOK, ServiceTypeOK, HandlerSide, HandlerSideOf, serviceVars, Move,
            sharedVars, queueVars, workerVars
<1>1. CASE DropPrepared(r) \/ DropAbandons(r)
  BY <1>1 DEF DropPrepared, DropAbandons, AbandonRequest, Holders, Enqueued, vars
<1>2. CASE AbandonStep(r)
  BY <1>2 DEF AbandonStep, ReleaseConsumer, ConsumerReturnsCapacity, Holders, Enqueued,
              ConsumerSide, CapacityHeldUntilBothLeave
<1> QED
  BY <1>1, <1>2

(* The handler's own moves between prepare, run and the response.          *)
LEMMA MovingSide ==
  ASSUME LifecycleInv, ServiceTypeOK, HandlerSide, NEW r \in Requests,
         \/ Acquire(r) \/ RefuseOverloaded(r) \/ AcquireThrows(r) \/ LifetimeCreated(r)
         \/ PrepareThrows(r) \/ PromptPrepared(r) \/ SubmitThrew(r) \/ RunBegins(r)
         \/ RunReturns(r) \/ RunThrows(r) \/ ReleaseLifetime(r)
  PROVE  HandlerSideOf(r)'
<1> USE DEF LifecycleInv, TypeOK, ServiceTypeOK, HandlerSide, HandlerSideOf, Move, vars,
            sharedVars, queueVars, workerVars
<1>1. CASE RunBegins(r)
  BY <1>1 DEF RunBegins, WaitBegin
<1>2. CASE UNCHANGED vars
  <2>1. r \in Holders' <=> r \in Holders
    BY <1>2 DEF Holders, Enqueued
  <2>2. client[r] \in {"new", "rejected"} => r \notin Holders
    BY DEF ConsumerSide, Holders, Enqueued
  <2> QED
    BY <1>2, <2>1, <2>2
    DEF Acquire, RefuseOverloaded, AcquireThrows, LifetimeCreated, PrepareThrows,
        PromptPrepared, SubmitThrew, RunBegins, RunReturns, RunThrows, ReleaseLifetime,
        WaitBegin
<1> QED
  BY <1>1, <1>2 DEF Acquire, RefuseOverloaded, AcquireThrows, LifetimeCreated, PrepareThrows,
        PromptPrepared, SubmitThrew, RunReturns, RunThrows, ReleaseLifetime

(* A handler leaves the places of the other handlers alone.                *)
LEMMA OtherSides ==
  ASSUME LifecycleInv, ServiceTypeOK, HandlerSide, NEW r \in Requests, HandlerMoves(r),
         NEW s \in Requests, s # r
  PROVE  HandlerSideOf(s)'
<1>1. handler'[s] = handler[s]
  BY DEF ServiceTypeOK, serviceVars, Move, HandlerMoves, HandlerStep, Acquire,
         RefuseOverloaded, AcquireThrows, LifetimeCreated, PrepareThrows, PromptPrepared,
         SubmitStep, SubmitThrew, RunBegins, RunReturns, RunThrows, ReleaseLifetime,
         DropPrepared, DropAbandons, AbandonStep, RunStep
<1>2. /\ client'[s] = client[s]
      /\ s \in Holders' <=> s \in Holders
      /\ s \in cancelled' <=> s \in cancelled
  <2>1. CASE ClientMoves(r)
    BY <2>1, ClientMovesAlone
  <2>2. CASE UNCHANGED vars
    BY <2>2 DEF vars, sharedVars, queueVars, workerVars, Holders, Enqueued
  <2> QED
    BY <2>1, <2>2, HandlerDrivesClient
<1> QED
  BY <1>1, <1>2 DEF HandlerSide, HandlerSideOf

-----------------------------------------------------------------------------
(* The invariant holds when the service starts.                            *)
LEMMA ServiceInitInv == ServiceInit => ServiceInv
<1> SUFFICES ASSUME ServiceInit PROVE ServiceInv
  OBVIOUS
<1>1. LifecycleInv
  BY InitInv DEF ServiceInit
<1>2. Lifetimes = {} /\ Holders = {}
  BY DEF ServiceInit, Init, Lifetimes, Holders, Enqueued
<1>3. ServiceTypeOK
  BY <1>2, FS_EmptySet, LifecycleAssumption DEF ServiceInit, ServiceTypeOK, HandlerState
<1>4. HandlerSide
  BY <1>2 DEF ServiceInit, Init, HandlerSide, HandlerSideOf
<1> QED
  BY <1>1, <1>3, <1>4 DEF ServiceInv

(* Every step of the composition preserves the inductive invariant.        *)
LEMMA ServiceNextInv == ServiceInv /\ [ServiceNext]_allVars => ServiceInv'
<1> SUFFICES ASSUME ServiceInv, [ServiceNext]_allVars PROVE ServiceInv'
  OBVIOUS
<1>0. LifecycleInv /\ ServiceTypeOK /\ HandlerSide
  BY DEF ServiceInv
<1>1. LifecycleInv'
  BY <1>0, ServiceDrivesExecutor, NextInv
<1>2. SUFFICES ServiceTypeOK' /\ HandlerSide'
  BY <1>1 DEF ServiceInv
<1>3. ASSUME NEW r \in Requests, HandlerMoves(r)
      PROVE  ServiceTypeOK' /\ HandlerSide'
  <2>1. ServiceTypeOK'
    BY <1>0, <1>3, AcquireCounts, ReleaseCounts, OthersKeepLifetimes
    DEF HandlerMoves, HandlerStep
  <2>2. HandlerSideOf(r)'
    BY <1>0, <1>3, SubmittingSide, RunningSide, AbandoningSide, MovingSide
    DEF HandlerMoves, HandlerStep
  <2>3. ASSUME NEW s \in Requests PROVE HandlerSideOf(s)'
    BY <1>0, <1>3, <2>2, OtherSides
  <2> QED
    BY <2>1, <2>3 DEF HandlerSide
<1>4. ASSUME UNCHANGED serviceVars, WorkerStep \/ Shutdown \/ Terminated
      PROVE  ServiceTypeOK' /\ HandlerSide'
  BY <1>0, <1>4, WorkerGrantsNothing
  DEF serviceVars, ServiceTypeOK, Lifetimes, HandlerSide, HandlerSideOf
<1>5. ASSUME UNCHANGED allVars
      PROVE  ServiceTypeOK' /\ HandlerSide'
  BY <1>0, <1>5
  DEF allVars, serviceVars, vars, sharedVars, queueVars, workerVars, ServiceTypeOK, Lifetimes,
      HandlerSide, HandlerSideOf, Holders, Enqueued
<1> QED
  BY <1>3, <1>4, <1>5 DEF ServiceNext, HandlerMoves, ServiceShutdown

(* The inductive invariant holds in every reachable state of the           *)
(* composition.                                                            *)
THEOREM ServiceInvariant == ServiceSpec => []ServiceInv
BY ServiceInitInv, ServiceNextInv, PTL DEF ServiceSpec

(* The ingress count is exact on every path of prepare, run and the        *)
(* destructors, and whoever counts in the executor without a lifetime has  *)
(* been abandoned before run (RequestCapacity, ~RequestLifetime).          *)
THEOREM IngressCovers == ServiceSpec => []IngressCoversExecutor
<1>1. ServiceInv => IngressCoversExecutor
  BY DEF ServiceInv, LifecycleInv, TypeOK, ClientState, ServiceTypeOK, HandlerState,
         HandlerSide, HandlerSideOf, ConsumerSide, IngressCoversExecutor, Lingering,
         Lifetimes, Holders, Enqueued
<1> QED
  BY <1>1, ServiceInvariant, PTL

(* A request that the service admitted is refused by the executor as       *)
(* overloaded only while an abandoned one lingers there: otherwise the     *)
(* holders are other lifetimes, fewer than max_outstanding_.               *)
THEOREM LateOverload == ServiceSpec => []LateOverloadNeedsLingerer
<1>1. ServiceInv => LateOverloadNeedsLingerer
  <2> SUFFICES ASSUME ServiceInv, NEW r \in Requests, handler[r] = "submitting",
                      client[r] = "new", outstanding >= MaxOutstanding, Lingering = {}
               PROVE  FALSE
    BY DEF LateOverloadNeedsLingerer
  <2>1. r \in Lifetimes /\ r \notin Holders
    BY DEF ServiceInv, LifecycleInv, ConsumerSide, Lifetimes, Holders, Enqueued
  <2>2. Holders \in SUBSET (Lifetimes \ {r})
    BY <2>1 DEF Lingering
  <2>3. /\ IsFiniteSet(Lifetimes \ {r})
        /\ Cardinality(Lifetimes \ {r}) = Cardinality(Lifetimes) - 1
    BY <2>1, LifetimesFinite, FS_RemoveElement
  <2>4. Cardinality(Holders) <= Cardinality(Lifetimes) - 1
    BY <2>2, <2>3, FS_Subset
  <2> QED
    BY <2>4, LifetimesFinite, HoldersFinite, LifecycleAssumption
    DEF ServiceInv, LifecycleInv, CapacityAccounting, ServiceTypeOK
<1> QED
  BY <1>1, ServiceInvariant, PTL
=============================================================================
