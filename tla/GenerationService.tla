--------------------------- MODULE GenerationService ---------------------------
(***************************************************************************)
(* serve/generation_service.cpp in front of the executor: every HTTP       *)
(* request first takes a RequestLifetime from the service's own capacity   *)
(* of max_concurrency + max_pending_requests, prepares its prompt, submits *)
(* it to the executor (RequestLifecycle, whose capacity has the same size) *)
(* and keeps the lifetime until the HTTP response has been released.       *)
(*                                                                         *)
(* The handler's thread and the client side of RequestLifecycle are the    *)
(* same thread: its submit, wait and abandon steps happen where prepare    *)
(* and run make them.                                                      *)
(***************************************************************************)
EXTENDS RequestLifecycle

VARIABLES
    handler,    \* handler[r]: where the HTTP handler of r is
    ingress     \* RequestCapacity::active

serviceVars == <<handler, ingress>>
allVars == <<vars, serviceVars>>

HandlerState == {"new",         \* no request yet
                 "acquired",    \* prepare: counted, no RequestLifetime object yet
                 "preparing",   \* media acquisition and prompt preparation
                 "submitting",  \* in or after Engine::submit
                 "running",     \* GenerationService::run
                 "responding",  \* the response holds the lifetime
                 "unwinding",   \* an exception leaves prepare or run
                 "dropping",    \* the PreparedRequest dies before run
                 "answered"}

ServiceInit ==
    /\ Init
    /\ handler = [r \in Requests |-> "new"]
    /\ ingress = 0

Move(r, from, to) ==
    /\ handler[r] = from
    /\ handler' = [handler EXCEPT ![r] = to]

-----------------------------------------------------------------------------
(* acquire_request_lifetime                                                *)

Acquire(r) ==
    /\ ~ stopping
    /\ ingress < MaxOutstanding
    /\ Move(r, "new", "acquired")
    /\ ingress' = ingress + 1
    /\ UNCHANGED vars

RefuseOverloaded(r) ==
    /\ ~ stopping
    /\ ingress >= MaxOutstanding
    /\ Move(r, "new", "answered")
    /\ UNCHANGED <<vars, ingress>>

(* make_shared<RequestLifetime> throws: there is no destructor to count    *)
(* down.                                                                   *)
AcquireThrows(r) ==
    /\ Move(r, "acquired", "answered")
    /\ ingress' = ingress - 1
    /\ UNCHANGED vars

LifetimeCreated(r) ==
    /\ Move(r, "acquired", "preparing")
    /\ UNCHANGED <<vars, ingress>>

(* prepare: acquisition, the control or Engine::prepare throws.            *)
PrepareThrows(r) ==
    /\ Move(r, "preparing", "unwinding")
    /\ UNCHANGED <<vars, ingress>>

PromptPrepared(r) ==
    /\ Move(r, "preparing", "submitting")
    /\ UNCHANGED <<vars, ingress>>

-----------------------------------------------------------------------------
(* Engine::submit, on the handler's thread                                 *)

SubmitStep(r) ==
    /\ handler[r] = "submitting"
    /\ \/ SubmitExpired(r) \/ SubmitRefused(r) \/ SubmitReserve(r)
       \/ SubmitBuildFails(r) \/ SubmitUndo(r) \/ SubmitEnqueue(r) \/ SubmitRefusedLate(r)
    /\ UNCHANGED serviceVars

SubmitThrew(r) ==
    /\ client[r] = "rejected"
    /\ Move(r, "submitting", "unwinding")
    /\ UNCHANGED <<vars, ingress>>

(* run waits for the generation on the same thread.                        *)
RunBegins(r) ==
    /\ Move(r, "submitting", "running")
    /\ WaitBegin(r)
    /\ UNCHANGED ingress

RunStep(r) ==
    /\ handler[r] = "running"
    /\ \/ WaitCancels(r) \/ WaitTakesOutput(r) \/ WaitReturns(r)
       \/ ReleaseConsumer(r) \/ ConsumerReturnsCapacity(r)
    /\ UNCHANGED serviceVars

(* The outcome becomes a response that holds the lifetime, or run threw.   *)
RunReturns(r) ==
    /\ client[r] = "gone"
    /\ Move(r, "running", "responding")
    /\ UNCHANGED <<vars, ingress>>

RunThrows(r) ==
    /\ client[r] = "gone"
    /\ Move(r, "running", "unwinding")
    /\ UNCHANGED <<vars, ingress>>

(* Faulty variant: the error path forgets the reservation.                 *)
ReleaseOnSuccessOnly(r) ==
    /\ handler[r] \in {"unwinding", "responding"}
    /\ handler' = [handler EXCEPT ![r] = "answered"]
    /\ ingress' = IF handler[r] = "responding" THEN ingress - 1 ELSE ingress
    /\ UNCHANGED vars

(* ~RequestLifetime, when the response is released or the PreparedRequest  *)
(* is destroyed by the exception.                                          *)
ReleaseLifetime(r) ==
    /\ handler[r] \in {"unwinding", "responding"}
    /\ handler' = [handler EXCEPT ![r] = "answered"]
    /\ ingress' = ingress - 1
    /\ UNCHANGED vars

(* A stream whose client left before the provider was called: run never    *)
(* happens and the PreparedRequest is destroyed member by member, last     *)
(* declared first: the lifetime, then the generation handle, which         *)
(* abandons the request.                                                   *)
DropPrepared(r) ==
    /\ client[r] = "holding"
    /\ Move(r, "submitting", "dropping")
    /\ ingress' = ingress - 1
    /\ UNCHANGED vars

DropAbandons(r) ==
    /\ Move(r, "dropping", "answered")
    /\ AbandonRequest(r)
    /\ UNCHANGED ingress

(* The rest of release_consumer after an abandon.                          *)
AbandonStep(r) ==
    /\ handler[r] = "answered"
    /\ ReleaseConsumer(r) \/ ConsumerReturnsCapacity(r)
    /\ UNCHANGED serviceVars

(* The service owns the Engine and outlives its handlers.                  *)
ServiceShutdown ==
    /\ \A r \in Requests : handler[r] \in {"new", "answered"}
    /\ Shutdown
    /\ UNCHANGED serviceVars

-----------------------------------------------------------------------------
HandlerStep(r) ==
    \/ AcquireThrows(r) \/ LifetimeCreated(r)
    \/ PrepareThrows(r) \/ PromptPrepared(r)
    \/ SubmitStep(r) \/ SubmitThrew(r)
    \/ RunBegins(r) \/ RunReturns(r) \/ RunThrows(r)
    \/ ReleaseLifetime(r)
    \/ DropPrepared(r) \/ DropAbandons(r) \/ AbandonStep(r)

ServiceNext ==
    \/ \E r \in Requests : Acquire(r) \/ RefuseOverloaded(r) \/ HandlerStep(r) \/ RunStep(r)
    \/ WorkerStep /\ UNCHANGED serviceVars
    \/ ServiceShutdown
    \/ Terminated /\ UNCHANGED serviceVars

ServiceSpec == ServiceInit /\ [][ServiceNext]_allVars

(* The fairness of RequestLifecycle, and handlers whose threads run; a     *)
(* caller of run need not cancel.                                          *)
FairServiceSpec ==
    /\ ServiceSpec
    /\ WF_allVars(WorkerStep /\ UNCHANGED serviceVars)
    /\ WF_allVars((\E r \in Requests : CompleteSetDone(r)) /\ UNCHANGED serviceVars)
    /\ SF_allVars((\E r \in Requests : FinishActive(r)) /\ UNCHANGED serviceVars)
    /\ WF_allVars(\E r \in Requests : HandlerStep(r) \/ (RunStep(r) /\ cancelled' = cancelled))

-----------------------------------------------------------------------------
Lifetimes ==
    {r \in Requests : handler[r] \in {"acquired", "preparing", "submitting", "running",
                                      "responding", "unwinding"}}

(* Every variable has its type and `active` of RequestCapacity counts the  *)
(* requests between acquire_request_lifetime and ~RequestLifetime.         *)
ServiceTypeOK ==
    /\ handler \in [Requests -> HandlerState]
    /\ ingress = Cardinality(Lifetimes)
    /\ ingress <= MaxOutstanding

(* Requests that the service has let go of and the executor has not: only  *)
(* those abandoned between submit and run.                                 *)
Lingering == Holders \ Lifetimes

(* The service's reservation covers the executor's: whoever still counts   *)
(* in the executor without a lifetime was dropped before run, and is being *)
(* abandoned.  In particular a request that was waited for has returned    *)
(* its executor capacity before its response is released.                  *)
IngressCoversExecutor ==
    /\ ServiceTypeOK
    /\ \A r \in Lingering :
         /\ handler[r] = "dropping" \/ r \in cancelled
         /\ client[r] \in {"holding", "abandoning", "returning", "gone"}

(* What the handler's place says about the client side of its request, the *)
(* strengthening that makes the properties inductive: prepare has not      *)
(* submitted yet, run only ends with a consumer that is gone and whose     *)
(* capacity is back, and after an abandon the request is cancelled.        *)
HandlerSideOf(r) ==
    /\ handler[r] \in {"new", "acquired", "preparing"} => client[r] = "new"
    /\ handler[r] = "submitting" =>
         client[r] \in {"new", "reserved", "undo", "holding", "rejected"}
    /\ handler[r] = "running" => client[r] \in {"waiting", "leaving", "returning", "gone"}
    /\ handler[r] = "responding" => client[r] = "gone"
    /\ handler[r] = "unwinding" => client[r] \in {"new", "rejected", "gone"}
    /\ handler[r] = "dropping" => client[r] = "holding"
    /\ handler[r] = "answered" =>
         client[r] \in {"new", "rejected", "gone", "abandoning", "returning"}
    /\ handler[r] \in {"running", "responding", "unwinding"} /\ client[r] = "gone" =>
         r \notin Holders
    /\ handler[r] = "answered" /\ r \in Holders => r \in cancelled

HandlerSide == \A r \in Requests : HandlerSideOf(r)

(* The inductive invariant of the service on top of the executor's.        *)
ServiceInv == LifecycleInv /\ ServiceTypeOK /\ HandlerSide

(* The executor refuses a request as overloaded, after its media has been  *)
(* prepared, only while such an abandoned request lingers.                 *)
LateOverloadNeedsLingerer ==
    \A r \in Requests :
      handler[r] = "submitting" /\ client[r] = "new" /\ outstanding >= MaxOutstanding
        => Lingering # {}

(* No request is dropped silently by the handler and kept by the executor  *)
(* for ever: every request that got a lifetime is answered, and both       *)
(* capacities come back.  No handler starts twice, so it is enough that in *)
(* the end nobody is under way.                                            *)
EveryRequestIsAnswered ==
    <>[](\A r \in Requests : handler[r] \in {"new", "answered"} /\ r \notin Holders)
=============================================================================
