--------------------------- MODULE RequestLifecycle ---------------------------
(***************************************************************************)
(* The life of one request inside runtime::ConcurrentExecutor: what the    *)
(* client threads (submit, Submission::wait, ~Submission) and the one      *)
(* worker thread (expiry, admission, completion, fail_all) do to the state *)
(* they share.  Every action is one critical section of queue_mutex_ or of *)
(* Request::mutex, or one store to the atomic Request::cancelled; the two  *)
(* sides interleave between any two of them.                               *)
(*                                                                         *)
(* Which request the worker picks, and for how long it runs, is left open  *)
(* here (AdmissionScheduler models the choice), so pending_ is a set and   *)
(* slots_ is the set `active` of the requests that occupy a lane.  slots_  *)
(* belongs to the worker alone; a lane counts as vacated when the worker   *)
(* starts to complete its request.                                         *)
(***************************************************************************)
EXTENDS Naturals, FiniteSets

CONSTANTS
    Requests,        \* identities of all requests that clients may submit
    MaxConcurrency,  \* EngineOptions::max_concurrency, the number of lanes
    MaxOutstanding   \* max_concurrency + max_pending_requests

ASSUME LifecycleAssumption ==
    /\ IsFiniteSet(Requests)
    /\ MaxConcurrency \in Nat \ {0}
    /\ MaxOutstanding \in Nat
    /\ MaxOutstanding > MaxConcurrency

VARIABLES
    client,             \* where the client thread of each request stands
    cancelled,          \* requests whose atomic `cancelled` is set
    done,               \* requests with Request::done
    consumer_released,  \* requests with Request::consumer_released
    capacity_released,  \* requests with Request::capacity_released
    undelivered,        \* requests whose Request::events is not empty
    outstanding,        \* outstanding_
    pending,            \* pending_
    active,             \* requests in slots_
    stopping, failed,   \* stopping_, failed_
    worker,             \* where the worker thread stands
    completing,         \* taken out of pending_/slots_, `done` not set yet
    marking,            \* `done` set, mark_completed not run yet
    returning           \* marked by the worker, its capacity not returned yet

sharedVars == <<cancelled, done, consumer_released, capacity_released, undelivered>>
queueVars  == <<pending, active, stopping, failed>>
workerVars == <<worker, completing, marking, returning>>
vars == <<client, sharedVars, outstanding, queueVars, workerVars>>

-----------------------------------------------------------------------------
(* Client states: the program points of submit, wait_for_request,          *)
(* abandon_request and release_consumer between two atomic steps.          *)
ClientState == {"new",         \* submit not called
                "reserved",    \* capacity counted, request object under construction
                "undo",        \* construction threw, capacity still counted
                "holding",     \* enqueued, the Submission is held
                "waiting",     \* inside wait_for_request
                "leaving",     \* wait observed done, consumer not released yet
                "abandoning",  \* ~Submission set cancelled, consumer not released yet
                "returning",   \* release_consumer decided to return the capacity
                "gone",        \* the consumer is finished with the request
                "rejected"}    \* submit threw

Enqueued(r) == client[r] \in {"holding", "waiting", "leaving", "abandoning",
                              "returning", "gone"}

ClientLeft(r) == client[r] \in {"new", "gone", "rejected"}

(* release_reserved_capacity: the decrement never goes below zero.         *)
ReleaseReservedCapacity ==
    outstanding' = IF outstanding # 0 THEN outstanding - 1 ELSE outstanding

Init ==
    /\ client = [r \in Requests |-> "new"]
    /\ cancelled = {} /\ done = {}
    /\ consumer_released = {} /\ capacity_released = {} /\ undelivered = {}
    /\ outstanding = 0
    /\ pending = {} /\ active = {}
    /\ stopping = FALSE /\ failed = FALSE
    /\ worker = "running"
    /\ completing = {} /\ marking = {} /\ returning = {}

-----------------------------------------------------------------------------
(* submit.  A caller holds a live Engine, so no call starts once the       *)
(* destructor has run; the clock may have passed the deadline at any call. *)

SubmitExpired(r) ==
    /\ client[r] = "new" /\ ~stopping
    /\ client' = [client EXCEPT ![r] = "rejected"]
    /\ UNCHANGED <<sharedVars, outstanding, queueVars, workerVars>>

SubmitRefused(r) ==
    /\ client[r] = "new" /\ ~stopping
    /\ failed \/ outstanding >= MaxOutstanding
    /\ client' = [client EXCEPT ![r] = "rejected"]
    /\ UNCHANGED <<sharedVars, outstanding, queueVars, workerVars>>

SubmitReserve(r) ==
    /\ client[r] = "new" /\ ~stopping
    /\ ~failed
    /\ outstanding < MaxOutstanding
    /\ outstanding' = outstanding + 1
    /\ client' = [client EXCEPT ![r] = "reserved"]
    /\ UNCHANGED <<sharedVars, queueVars, workerVars>>

(* make_output_session or the Request constructor throws.                  *)
SubmitBuildFails(r) ==
    /\ client[r] = "reserved"
    /\ client' = [client EXCEPT ![r] = "undo"]
    /\ UNCHANGED <<sharedVars, outstanding, queueVars, workerVars>>

(* Faulty variant: nobody returns the capacity of a failed construction.   *)
SubmitUndoLeaks(r) ==
    /\ client[r] = "undo"
    /\ client' = [client EXCEPT ![r] = "rejected"]
    /\ UNCHANGED <<sharedVars, outstanding, queueVars, workerVars>>

SubmitUndo(r) ==
    /\ client[r] = "undo"
    /\ ReleaseReservedCapacity
    /\ client' = [client EXCEPT ![r] = "rejected"]
    /\ UNCHANGED <<sharedVars, queueVars, workerVars>>

(* The second critical section looks at stopping_ and failed_ again.       *)
SubmitEnqueue(r) ==
    /\ client[r] = "reserved"
    /\ ~stopping /\ ~failed
    /\ pending' = pending \cup {r}
    /\ client' = [client EXCEPT ![r] = "holding"]
    /\ UNCHANGED <<sharedVars, outstanding, active, stopping, failed, workerVars>>

SubmitRefusedLate(r) ==
    /\ client[r] = "reserved"
    /\ stopping \/ failed
    /\ outstanding' = outstanding - 1
    /\ client' = [client EXCEPT ![r] = "rejected"]
    /\ UNCHANGED <<sharedVars, queueVars, workerVars>>

-----------------------------------------------------------------------------
(* Submission::wait and ~Submission.                                       *)

WaitBegin(r) ==
    /\ client[r] = "holding"
    /\ client' = [client EXCEPT ![r] = "waiting"]
    /\ UNCHANGED <<sharedVars, outstanding, queueVars, workerVars>>

(* The sink threw, or the caller's CancellationView asks to stop.          *)
WaitCancels(r) ==
    /\ client[r] = "waiting" /\ r \notin cancelled
    /\ cancelled' = cancelled \cup {r}
    /\ UNCHANGED <<client, done, consumer_released, capacity_released, undelivered,
                   outstanding, queueVars, workerVars>>

(* One turn of wait_for_request: the events are swapped out and done is    *)
(* read under one lock; the loop ends, with a result or an error, only     *)
(* when done was set.                                                      *)
WaitTakesOutput(r) ==
    /\ client[r] = "waiting" /\ r \notin done
    /\ r \in undelivered
    /\ undelivered' = undelivered \ {r}
    /\ UNCHANGED <<client, cancelled, done, consumer_released, capacity_released,
                   outstanding, queueVars, workerVars>>

(* Faulty variant: done is read before the events are swapped out.         *)
WaitReturnsEarly(r) ==
    /\ client[r] = "waiting" /\ r \in done
    /\ client' = [client EXCEPT ![r] = "leaving"]
    /\ UNCHANGED <<sharedVars, outstanding, queueVars, workerVars>>

WaitReturns(r) ==
    /\ client[r] = "waiting" /\ r \in done
    /\ undelivered' = undelivered \ {r}
    /\ client' = [client EXCEPT ![r] = "leaving"]
    /\ UNCHANGED <<cancelled, done, consumer_released, capacity_released,
                   outstanding, queueVars, workerVars>>

AbandonRequest(r) ==
    /\ client[r] = "holding"
    /\ cancelled' = cancelled \cup {r}
    /\ client' = [client EXCEPT ![r] = "abandoning"]
    /\ UNCHANGED <<done, consumer_released, capacity_released, undelivered,
                   outstanding, queueVars, workerVars>>

(* Faulty variant: the consumer that leaves returns the capacity, done or  *)
(* not.                                                                    *)
ReleaseConsumerAtOnce(r) ==
    /\ client[r] \in {"leaving", "abandoning"}
    /\ consumer_released' = consumer_released \cup {r}
    /\ r \notin capacity_released
    /\ capacity_released' = capacity_released \cup {r}
    /\ client' = [client EXCEPT ![r] = "returning"]
    /\ UNCHANGED <<cancelled, done, undelivered, outstanding, queueVars, workerVars>>

(* release_consumer: whoever comes second, consumer or worker, returns the *)
(* capacity; the request mutex orders them.                                *)
ReleaseConsumer(r) ==
    /\ client[r] \in {"leaving", "abandoning"}
    /\ consumer_released' = consumer_released \cup {r}
    /\ \/ /\ r \in done /\ r \notin capacity_released
          /\ capacity_released' = capacity_released \cup {r}
          /\ client' = [client EXCEPT ![r] = "returning"]
       \/ /\ r \notin done \/ r \in capacity_released
          /\ client' = [client EXCEPT ![r] = "gone"]
          /\ UNCHANGED capacity_released
    /\ UNCHANGED <<cancelled, done, undelivered, outstanding, queueVars, workerVars>>

ConsumerReturnsCapacity(r) ==
    /\ client[r] = "returning"
    /\ ReleaseReservedCapacity
    /\ client' = [client EXCEPT ![r] = "gone"]
    /\ UNCHANGED <<sharedVars, queueVars, workerVars>>

(* ~ConcurrentExecutor: every GenerationHandle keeps the executor alive,   *)
(* so the destructor runs only after the last client has left.             *)
Shutdown ==
    /\ ~stopping
    /\ \A r \in Requests : ClientLeft(r)
    /\ stopping' = TRUE
    /\ UNCHANGED <<client, sharedVars, outstanding, pending, active, failed, workerVars>>

-----------------------------------------------------------------------------
(* The worker thread.                                                      *)

WorkerIdle == completing = {} /\ marking = {} /\ returning = {}
WorkerFree == worker = "running" /\ WorkerIdle

(* expire_pending_requests: in one critical section every cancelled        *)
(* request, and every one whose deadline has passed, leaves pending_.      *)
ExpirePending ==
    /\ WorkerFree
    /\ \E expired \in SUBSET (pending \ cancelled) :
          /\ completing' = (pending \cap cancelled) \cup expired
          /\ completing' # {}
          /\ pending' = pending \ completing'
    /\ UNCHANGED <<client, sharedVars, outstanding, active, stopping, failed,
                   worker, marking, returning>>

(* remove_pending_error and its cancelled twin: try_admit_one drops one    *)
(* request that cannot be planned, does not fit, expired or was cancelled. *)
RemovePending(r) ==
    /\ WorkerFree
    /\ r \in pending
    /\ pending' = pending \ {r}
    /\ completing' = {r}
    /\ UNCHANGED <<client, sharedVars, outstanding, active, stopping, failed,
                   worker, marking, returning>>

(* admit_planned_request: the request moves from pending_ to a free lane.  *)
Admit(r) ==
    /\ WorkerFree
    /\ r \in pending
    /\ Cardinality(active) < MaxConcurrency
    /\ pending' = pending \ {r}
    /\ active' = active \cup {r}
    /\ UNCHANGED <<client, sharedVars, outstanding, stopping, failed, workerVars>>

(* admit_planned_request's catch block: the first prefill step threw; the  *)
(* request completes with the error, which then reaches fail_all.          *)
AdmitThrows(r) ==
    /\ WorkerFree
    /\ r \in pending
    /\ Cardinality(active) < MaxConcurrency
    /\ pending' = pending \ {r}
    /\ completing' = {r}
    /\ worker' = "throwing"
    /\ UNCHANGED <<client, sharedVars, outstanding, active, stopping, failed,
                   marking, returning>>

(* Faulty variant: remove_completed_slot is not called.                    *)
FinishActiveKeepsLane(r) ==
    /\ WorkerFree
    /\ r \in active
    /\ completing' = {r}
    /\ UNCHANGED <<client, sharedVars, outstanding, queueVars, worker, marking, returning>>

(* Faulty variant: only a cancellation ends an active request.             *)
FinishActiveOnCancelOnly(r) ==
    /\ WorkerFree
    /\ r \in active \cap cancelled
    /\ active' = active \ {r}
    /\ completing' = {r}
    /\ UNCHANGED <<client, sharedVars, outstanding, pending, stopping, failed,
                   worker, marking, returning>>

(* A prefill or decode boundary ends an active request: its last token, a  *)
(* stop condition or a cancellation seen by the worker.                    *)
FinishActive(r) ==
    /\ WorkerFree
    /\ r \in active
    /\ active' = active \ {r}
    /\ completing' = {r}
    /\ UNCHANGED <<client, sharedVars, outstanding, pending, stopping, failed,
                   worker, marking, returning>>

(* append_output: a prefill step, a decode round or the final flush of a   *)
(* completion publishes text; complete_* sets done only afterwards.        *)
PublishOutput(r) ==
    /\ marking = {} /\ returning = {}
    /\ \/ worker = "running" /\ completing = {} /\ r \in active
       \/ worker = "running" /\ r \in completing
    /\ r \notin undelivered
    /\ undelivered' = undelivered \cup {r}
    /\ UNCHANGED <<client, cancelled, done, consumer_released, capacity_released,
                   outstanding, queueVars, workerVars>>

(* A unit of work (planning, a prefill step or a decode round) throws.     *)
UnitThrows ==
    /\ WorkerFree
    /\ pending \cup active # {}
    /\ worker' = "throwing"
    /\ UNCHANGED <<client, sharedVars, outstanding, queueVars,
                   completing, marking, returning>>

(* fail_all: failed_ is raised and pending_ emptied under one lock, so no  *)
(* submit can slip a request in between.                                   *)
FailAll ==
    /\ WorkerIdle
    /\ \/ worker = "throwing"
       \/ worker = "running" /\ stopping
    /\ failed' = TRUE
    /\ completing' = pending \cup active
    /\ pending' = {} /\ active' = {}
    /\ worker' = "failing"
    /\ UNCHANGED <<client, sharedVars, outstanding, stopping, marking, returning>>

WorkerExit ==
    /\ worker = "failing" /\ WorkerIdle
    /\ worker' = "exited"
    /\ UNCHANGED <<client, sharedVars, outstanding, queueVars,
                   completing, marking, returning>>

(* complete_success / complete_error, first critical section.              *)
CompleteSetDone(r) ==
    /\ r \in completing /\ marking = {} /\ returning = {}
    /\ done' = done \cup {r}
    /\ completing' = completing \ {r}
    /\ marking' = {r}
    /\ UNCHANGED <<client, cancelled, consumer_released, capacity_released,
                   undelivered, outstanding, queueVars, worker, returning>>

(* mark_completed, the second critical section.                            *)
MarkCompleted(r) ==
    /\ r \in marking
    /\ marking' = marking \ {r}
    /\ \/ /\ r \in consumer_released /\ r \notin capacity_released
          /\ capacity_released' = capacity_released \cup {r}
          /\ returning' = returning \cup {r}
       \/ /\ r \notin consumer_released \/ r \in capacity_released
          /\ UNCHANGED <<capacity_released, returning>>
    /\ UNCHANGED <<client, cancelled, done, consumer_released, undelivered,
                   outstanding, queueVars, worker, completing>>

WorkerReturnsCapacity(r) ==
    /\ r \in returning
    /\ ReleaseReservedCapacity
    /\ returning' = returning \ {r}
    /\ UNCHANGED <<client, sharedVars, queueVars, worker, completing, marking>>

-----------------------------------------------------------------------------
(* What a thread does on its own once it has started.                      *)
ClientStep(r) ==
    \/ SubmitBuildFails(r) \/ SubmitUndo(r)
    \/ SubmitEnqueue(r) \/ SubmitRefusedLate(r)
    \/ WaitBegin(r) \/ WaitTakesOutput(r) \/ WaitReturns(r) \/ AbandonRequest(r)
    \/ ReleaseConsumer(r) \/ ConsumerReturnsCapacity(r)

ClientChoice(r) ==
    SubmitExpired(r) \/ SubmitRefused(r) \/ SubmitReserve(r) \/ WaitCancels(r)

WorkerStep ==
    \/ ExpirePending \/ UnitThrows \/ FailAll \/ WorkerExit
    \/ \E r \in Requests :
          \/ RemovePending(r) \/ Admit(r) \/ AdmitThrows(r) \/ FinishActive(r)
          \/ PublishOutput(r)
          \/ CompleteSetDone(r) \/ MarkCompleted(r) \/ WorkerReturnsCapacity(r)

Terminated ==
    /\ worker = "exited" /\ stopping
    /\ UNCHANGED vars

Next ==
    \/ \E r \in Requests : ClientStep(r) \/ ClientChoice(r)
    \/ Shutdown
    \/ WorkerStep
    \/ Terminated

Spec == Init /\ [][Next]_vars

(* The worker thread runs whenever it can and finishes a completion it has *)
(* begun; an active request cannot publish for ever, because its           *)
(* GenerationBudget is finite; every thread that entered submit or wait    *)
(* returns from it, and a Submission is waited for or destroyed.           *)
Fairness ==
    /\ WF_vars(WorkerStep)
    /\ WF_vars(\E r \in Requests : CompleteSetDone(r))
    /\ SF_vars(\E r \in Requests : FinishActive(r))
    /\ WF_vars(\E r \in Requests : ClientStep(r))

FairSpec == Spec /\ Fairness

-----------------------------------------------------------------------------
(* Properties.                                                             *)

TypeOK ==
    /\ client \in [Requests -> ClientState]
    /\ cancelled \subseteq Requests /\ done \subseteq Requests
    /\ consumer_released \subseteq Requests /\ capacity_released \subseteq Requests
    /\ undelivered \subseteq Requests
    /\ outstanding \in Nat
    /\ pending \subseteq Requests /\ active \subseteq Requests
    /\ stopping \in BOOLEAN /\ failed \in BOOLEAN
    /\ worker \in {"running", "throwing", "failing", "exited"}
    /\ completing \subseteq Requests
    /\ marking \subseteq Requests /\ returning \subseteq Requests

(* The requests that count against max_outstanding_: reserved by a submit  *)
(* that has not finished, or enqueued and not returned by either side.     *)
Holders ==
    {r \in Requests :
        \/ client[r] \in {"reserved", "undo", "returning"}
        \/ Enqueued(r) /\ r \notin capacity_released
        \/ r \in returning}

(* outstanding_ counts exactly the requests that hold capacity and never   *)
(* exceeds max_outstanding_, whatever the interleaving of submit, wait,    *)
(* abandon and completion: no slot is lost, none is returned twice.        *)
CapacityAccounting ==
    /\ outstanding = Cardinality(Holders)
    /\ outstanding <= MaxOutstanding

(* A request keeps its capacity until it is done and its consumer has left *)
(* (release_consumer, mark_completed), and has given it up once both hold  *)
(* and the worker is past mark_completed.                                  *)
CapacityHeldUntilBothLeave ==
    \A r \in Requests :
        /\ r \in capacity_released => r \in done /\ r \in consumer_released
        /\ r \in done /\ r \in consumer_released /\ r \notin marking
              => r \in capacity_released

(* Every enqueued request that is not done has exactly one owner on the    *)
(* worker's side, and a done one has none: nothing is completed twice and  *)
(* nothing is forgotten (submit, erase_pending, fail_all).                 *)
ExactlyOneOwner ==
    /\ pending \cap active = {}
    /\ (pending \cup active) \cap completing = {}
    /\ \A r \in Requests :
          r \in pending \cup active \cup completing <=> Enqueued(r) /\ r \notin done

(* When the worker thread has returned, every request that submit accepted *)
(* is done: no client is left waiting in wait_for_request (fail_all).      *)
NoWaiterOutlivesWorker ==
    worker = "exited" => \A r \in Requests : Enqueued(r) => r \in done

(* A consumer that returns from wait_for_request has taken every piece of  *)
(* output the worker published: done is never seen with events left over.  *)
NoOutputLost ==
    \A r \in Requests : client[r] = "leaving" => r \notin undelivered

(* What the two sides know of each other, the strengthening that makes the *)
(* properties above inductive.                                             *)
WorkerSide ==
    /\ marking \cup returning \subseteq done
    /\ failed <=> worker \in {"failing", "exited"}
    /\ failed => pending = {} /\ active = {}
    /\ worker = "exited" => completing = {}

ConsumerSide ==
    \A r \in Requests :
        /\ r \in consumer_released <=> client[r] \in {"returning", "gone"}
        /\ r \in done => Enqueued(r)
        /\ client[r] = "leaving" => r \in done
        /\ client[r] = "returning" => r \in capacity_released
        /\ r \in returning => r \in capacity_released /\ client[r] = "gone"

(* The inductive invariant: ownership, both sides' knowledge and the count *)
(* of outstanding_ hold together in every reachable state.                 *)
LifecycleInv ==
    /\ TypeOK
    /\ ExactlyOneOwner
    /\ CapacityHeldUntilBothLeave
    /\ WorkerSide
    /\ ConsumerSide
    /\ CapacityAccounting

(* The status of a request as RequestService sees it.                      *)
Status(r) ==
    IF client[r] = "new" THEN "idle"
    ELSE IF client[r] = "rejected" THEN "refused"
    ELSE IF r \notin done THEN "accepted"
    ELSE IF r \in Holders THEN "completed" ELSE "released"

ServiceImage ==
    INSTANCE RequestService WITH
        Capacity <- MaxOutstanding,
        status <- [r \in Requests |-> Status(r)],
        held <- Holders

(* The executor implements RequestService: through every interleaving of   *)
(* client and worker a request is accepted, completed and released at most *)
(* once and in this order, and capacity moves only with these steps.       *)
ImplementsRequestService == ServiceImage!Spec

(* Every accepted request is completed, whatever fails.  What was accepted *)
(* or is done stays so: it is enough that in the end no accepted request   *)
(* is left.                                                                *)
AcceptedRequestCompletes ==
    <>[](\A r \in Requests : Enqueued(r) => r \in done)
=============================================================================
