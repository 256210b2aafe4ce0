--------------------------- MODULE AdmissionScheduler ---------------------------
(***************************************************************************)
(* The worker thread of runtime::ConcurrentExecutor as a scheduler: the    *)
(* FIFO queue, the request lanes, admission with protected heads and       *)
(* backfill (AdmissionPolicy), cached lane plans, retained prefixes and    *)
(* their eviction, and the alternation of prefill steps and decode rounds. *)
(*                                                                         *)
(* The worker runs worker_loop between the points named by `pc`; clients   *)
(* submit and cancel between any two of its steps.  A request is known by  *)
(* its place in the order in which requests were pushed to pending_, so    *)
(* the queue is a set whose least member is the head.  (The code numbers   *)
(* requests a moment earlier; the number only breaks ties in FinishesBy.)  *)
(* The shape of a request (tokens of prompt and output, rewrite            *)
(* checkpoint) is chosen by the client.  The target (program_impl.h)       *)
(* appears as far as admission sees it: the page entitlement and the       *)
(* retained sequence of every lane.  Vision splits are left out; tokens    *)
(* themselves are not modelled, so Continues and Rewrites say which        *)
(* prompts share what with which earlier sequences.                        *)
(***************************************************************************)
EXTENDS Integers, Sequences, AdmissionPolicy

CONSTANTS
    NumRequests,     \* how many requests are submitted
    MaxConcurrency,  \* number of lanes
    Shapes,          \* records [prompt, output, checkpoint] a client may ask for
    Continues,       \* pairs <<q, r>>: the prompt of r starts with the sequence of q
    Rewrites,        \* pairs <<q, r>>: the two share the tokens up to a rewrite checkpoint
    Hurried,         \* requests whose deadline may pass while they wait
    Cancellable,     \* requests whose client may cancel them
    MainPages, BackendPages,  \* page groups of the two KV pools, 0: no backend pool
    PageSize, PrefillChunk,   \* kPagedKVPageSize, prefill_chunk
    MaxContext,      \* the target's `capacity`, in tokens
    SpeculativeBackend,       \* "None", "Mtp" or "DFlash"
    DraftWindow      \* drafts of a round, which commits at most DraftWindow+1 tokens

Requests == 1 .. NumRequests
Lanes == 1 .. MaxConcurrency
PageKinds == {"main_kv_pages", "backend_kv_pages"}

ASSUME SchedulerAssumption ==
    /\ NumRequests \in Nat /\ MaxConcurrency \in Nat \ {0}
    /\ PageSize \in Nat \ {0} /\ PrefillChunk \in Nat \ {0}
    /\ MainPages \in Nat \ {0} /\ BackendPages \in Nat
    /\ MaxContext \in Nat \ {0} /\ DraftWindow \in Nat
    /\ SpeculativeBackend \in {"None", "Mtp", "DFlash"}
    /\ DraftWindow = 0 <=> SpeculativeBackend = "None"
    /\ SpeculativeBackend = "None" => BackendPages = 0
    /\ SpeculativeBackend = "Mtp" => BackendPages # 0
    /\ \A s \in Shapes : /\ s.prompt \in Nat \ {0} /\ s.output \in Nat \ {0}
                         /\ s.checkpoint \in 0 .. s.prompt
    /\ Continues \cup Rewrites \subseteq Requests \X Requests
    /\ Hurried \cup Cancellable \subseteq Requests

VARIABLES
    pc,            \* where the worker stands in worker_loop
    submitted,     \* next_request_id_ - 1
    shape,         \* shapes of the submitted requests, in order
    cancelled,     \* waiting or active requests whose `cancelled` is set
    pending,       \* pending_: the waiting requests, the oldest is the least
    slots,         \* slots_: the request of a lane and its progress
    retained,      \* what a free lane still holds of its last request
    entitled,      \* page entitlement of each lane in both pools
    lane_plans,    \* reuse base of each cached plan that is up to date
    prefill_lane,  \* prefill_lane_, 0 for none
    protection,    \* protection_
    next_epoch,    \* next_protection_epoch_
    previous_unit_was_decode,
    queued,        \* try_admit_one: candidates not looked at yet
    choice         \* request and lane about to be admitted

requestVars == <<submitted, shape>>
laneVars    == <<slots, retained, entitled>>
policyVars  == <<protection, next_epoch>>
scanVars    == <<queued, choice>>
vars == <<pc, requestVars, cancelled, pending, laneVars, lane_plans, prefill_lane,
          policyVars, previous_unit_was_decode, scanVars>>

NoPlan       == -1
EmptySlot    == [id |-> 0, work |-> 0, budget |-> 0, cursor |-> 0, ready |-> FALSE,
                 checkpoint |-> 0, epoch |-> 0, class |-> "None"]
NoSequence   == [id |-> 0, frontier |-> 0, checkpoint |-> 0]
NoPages      == [k \in PageKinds |-> 0]
NoProtection == [epoch |-> 0, head |-> 0, resources |-> [k \in Kinds |-> 0],
                 incumbents |-> {}, donors |-> {}, credit |-> 0, phase |-> "Open"]
NoChoice     == [id |-> 0, lane |-> 0, evict |-> FALSE, class |-> "None", epoch |-> 0]
NoPlans      == [l \in Lanes |-> NoPlan]

-----------------------------------------------------------------------------
(* request_plan_impl.h: what a request will need.                          *)

CeilDiv(n, d) == (n + d - 1) \div d

PagesForTokens(n) == CeilDiv(n, PageSize)

(* plan_request_base rejects a prompt longer than the context and cuts the *)
(* output to what the context leaves; the whole prompt and output is       *)
(* reserved up front.                                                      *)
Plannable(r) == shape[r].prompt <= MaxContext

PlannedOutput(s) == Min({s.output, MaxContext - s.prompt + 1})

EffectiveOutput(r) == PlannedOutput(shape[r])

ReservedTokens(s) == s.prompt + PlannedOutput(s) - 1

(* The MTP cache also holds the drafts behind the last licensed token.     *)
BackendTokens(s) ==
    IF SpeculativeBackend = "Mtp"
    THEN Min({MaxContext, ReservedTokens(s) + DraftWindow - 1}) ELSE ReservedTokens(s)

(* A DFlash model without full-attention layers has no backend pool.       *)
PlannedResources ==
    [s \in Shapes |->
        [active_lanes     |-> 1,
         main_kv_pages    |-> PagesForTokens(ReservedTokens(s)),
         backend_kv_pages |-> IF BackendPages = 0 THEN 0 ELSE PagesForTokens(BackendTokens(s))]]

Need(r) == PlannedResources[shape[r]]

AdmissionCapacity ==
    [active_lanes |-> MaxConcurrency, main_kv_pages |-> MainPages,
     backend_kv_pages |-> BackendPages]

(* plan_request_for_lane: append at the retained frontier if the prompt    *)
(* extends it, else fall back to the retained rewrite checkpoint.          *)
ReuseBase(r, l) ==
    LET old   == retained[l]
        whole == <<old.id, r>> \in Continues /\ old.frontier <= shape[r].prompt
        part  == /\ <<old.id, r>> \in Continues \cup Rewrites
                 /\ old.checkpoint <= shape[r].prompt
    IN  IF whole THEN old.frontier ELSE IF part THEN old.checkpoint ELSE 0

(* The rewrite checkpoint the lane will hold: none if the prompt asks for  *)
(* none (Drop), the prompt's own if the suffix reaches it (CaptureNew),    *)
(* else the one it holds already (KeepExisting, DeferCapture).             *)
CheckpointAfter(r, l, base) ==
    IF shape[r].checkpoint = 0 \/ shape[r].checkpoint > base
    THEN shape[r].checkpoint ELSE retained[l].checkpoint

(* Faulty variant: the split at the rewrite checkpoint is not counted.     *)
ProjectedWithoutSplits(r, base) ==
    (IF base = shape[r].prompt THEN 1 ELSE CeilDiv(shape[r].prompt - base, PrefillChunk))
        + EffectiveOutput(r) - 1

(* projected_service_work: prefill steps plus decode tokens.               *)
ProjectedServiceWork(r, base) ==
    LET suffix == shape[r].prompt - base
        splits == IF shape[r].checkpoint \in base + 1 .. shape[r].prompt - 1 THEN 1 ELSE 0
    IN  (IF suffix = 0 THEN 1 ELSE CeilDiv(suffix, PrefillChunk) + splits)
            + EffectiveOutput(r) - 1

(* TextContext::prefill: one chunk, cut short at the rewrite checkpoint.   *)
NextCursor(r, cursor) ==
    LET end == Min({cursor + PrefillChunk, shape[r].prompt})
    IN  IF shape[r].checkpoint \in cursor + 1 .. end - 1 THEN shape[r].checkpoint ELSE end

-----------------------------------------------------------------------------
(* Views of the lanes.                                                     *)

FreeLanes   == {l \in Lanes : slots[l].id = 0}
ActiveLanes == Lanes \ FreeLanes
ActiveIds   == {slots[l].id : l \in ActiveLanes}
LaneOf(r)   == CHOOSE l \in Lanes : slots[l].id = r

(* build_round_membership.                                                 *)
MembershipIn(s) == {l \in Lanes : s[l].id # 0 /\ s[l].ready}
Membership      == MembershipIn(slots)

(* active_admission_set.                                                   *)
ActiveSet ==
    [r \in ActiveIds |->
        [resources |-> Need(r), work |-> slots[LaneOf(r)].work,
         epoch |-> slots[LaneOf(r)].epoch, class |-> slots[LaneOf(r)].class]]

PoolSize(k) == AdmissionCapacity[k]

EntitledBut(lanes, k) == Total([l \in Lanes \ lanes |-> entitled[l][k]])

(* Faulty variant: pages that retained lanes hold count as free.           *)
CanAdmitIgnoringRetained(r, l, evicted) ==
    \A k \in PageKinds :
        Need(r)[k] + Total([m \in ActiveLanes |-> entitled[m][k]]) <= PoolSize(k)

(* can_admit_lane once the retained lanes in `evicted` are gone.           *)
CanAdmitWithout(r, l, evicted) ==
    \A k \in PageKinds : Need(r)[k] + EntitledBut(evicted \cup {l}, k) <= PoolSize(k)

CanAdmitLane(r, l) == CanAdmitWithout(r, l, {})

RetainedLanes == {l \in FreeLanes : retained[l].id # 0}

CanAdmitAfterEviction(r, l) == CanAdmitWithout(r, l, RetainedLanes)

(* Faulty variant: the loop stops after its first eviction.                *)
EvictOnce(r, l) ==
    {o \in RetainedLanes \ {l} : \A p \in RetainedLanes \ {l} : o <= p}

(* admit_planned_request evicts in lane order until the request fits.      *)
EvictedFor(r, l) ==
    {o \in RetainedLanes \ {l} :
        ~ CanAdmitWithout(r, l, {p \in RetainedLanes \ {l} : p < o})}

-----------------------------------------------------------------------------
(* Lane plans.  A plan whose version is out of date is replaced before it  *)
(* is used, so it is as good as no plan.                                   *)

(* ensure_lane_plan for every free lane.                                   *)
Planned(r) ==
    [l \in Lanes |-> IF l \in FreeLanes /\ lane_plans[r][l] = NoPlan
                     THEN ReuseBase(r, l) ELSE lane_plans[r][l]]

EnsureLanePlans(r) == lane_plans' = [lane_plans EXCEPT ![r] = Planned(r)]

(* Faulty variant: the version of the lane is not advanced.                *)
KeepLanePlans(plans, lanes) == plans

InvalidateLanePlans(plans, lanes) ==
    [r \in Requests |-> [l \in Lanes |-> IF l \in lanes THEN NoPlan ELSE plans[r][l]]]

(* find_admission_lane: the longest reuse, then the lowest lane; lanes     *)
(* that fit as they are before lanes that need an eviction.                *)
BestLane(r, lanes) ==
    CHOOSE l \in lanes : \A m \in lanes :
        \/ Planned(r)[l] > Planned(r)[m]
        \/ Planned(r)[l] = Planned(r)[m] /\ l <= m

FittingLanes(r)  == {l \in FreeLanes : CanAdmitLane(r, l)}
EvictingLanes(r) == {l \in FreeLanes : CanAdmitAfterEviction(r, l)}

HasLane(r) == FittingLanes(r) \cup EvictingLanes(r) # {}

FindAdmissionLane(r) ==
    IF FittingLanes(r) # {}
    THEN [lane |-> BestLane(r, FittingLanes(r)), evict |-> FALSE]
    ELSE [lane |-> BestLane(r, EvictingLanes(r)), evict |-> TRUE]

-----------------------------------------------------------------------------
(* The client.                                                             *)

Init ==
    /\ pc = "boundary"
    /\ submitted = 0 /\ shape = <<>> /\ cancelled = {} /\ pending = {}
    /\ slots = [l \in Lanes |-> EmptySlot]
    /\ retained = [l \in Lanes |-> NoSequence]
    /\ entitled = [l \in Lanes |-> NoPages]
    /\ lane_plans = [r \in Requests |-> NoPlans]
    /\ prefill_lane = 0
    /\ protection = NoProtection /\ next_epoch = 1
    /\ previous_unit_was_decode = FALSE
    /\ queued = {} /\ choice = NoChoice

Submit ==
    /\ pc # "failed" /\ submitted < NumRequests
    /\ submitted' = submitted + 1
    /\ \E s \in Shapes : shape' = Append(shape, s)
    /\ pending' = pending \cup {submitted + 1}
    /\ UNCHANGED <<pc, cancelled, laneVars, lane_plans, prefill_lane, policyVars,
                   previous_unit_was_decode, scanVars>>

Cancel(r) ==
    /\ r \in (Cancellable \cap (pending \cup ActiveIds)) \ cancelled
    /\ cancelled' = cancelled \cup {r}
    /\ UNCHANGED <<pc, requestVars, pending, laneVars, lane_plans, prefill_lane,
                   policyVars, previous_unit_was_decode, scanVars>>

-----------------------------------------------------------------------------
(* What a step of the worker does to the lanes and to the queue.           *)

With(f, S, v) == [x \in DOMAIN f |-> IF x \in S THEN v ELSE f[x]]

(* The execution frontier a finished request leaves behind: its prompt and *)
(* every generated token but the last.                                     *)
Frontier(slot) ==
    shape[slot.id].prompt + (EffectiveOutput(slot.id) - slot.budget) - 1

(* cancel_unmapped_entitlement: a retained lane keeps only mapped pages.   *)
MappedPages(slot) ==
    [main_kv_pages    |-> PagesForTokens(Frontier(slot)),
     backend_kv_pages |-> IF BackendPages = 0 THEN 0 ELSE PagesForTokens(Frontier(slot))]

(* A boundary of the worker: `dead` lanes are aborted and cleared, `done`  *)
(* lanes retire with their sequence, `gone` requests leave the queue; s is *)
(* the progress of the other lanes.                                        *)
Settle(s, dead, done, gone) ==
    /\ slots' = With(s, dead \cup done, EmptySlot)
    /\ retained' = [l \in Lanes |->
          IF l \in dead THEN NoSequence
          ELSE IF l \in done THEN [id |-> s[l].id, frontier |-> Frontier(s[l]),
                                 checkpoint |-> s[l].checkpoint]
          ELSE retained[l]]
    /\ entitled' = [l \in Lanes |->
          IF l \in dead THEN NoPages
          ELSE IF l \in done THEN MappedPages(s[l]) ELSE entitled[l]]
    /\ lane_plans' = With(InvalidateLanePlans(lane_plans, dead \cup done), gone, NoPlans)
    /\ cancelled' = cancelled \ (gone \cup {s[l].id : l \in dead \cup done})

(* erase_pending and the release of the planning state.                    *)
LeaveQueue(gone) ==
    /\ pending' = pending \ gone
    /\ cancelled' = cancelled \ gone

ClearProtectionIfHead(gone) ==
    IF protection.head \in gone THEN NoProtection ELSE protection

-----------------------------------------------------------------------------
(* worker_loop.                                                            *)

AfterBoundary(s, queue, staged) ==
    LET rows == MembershipIn(s)
    IN  IF staged # 0
        THEN IF rows # {} /\ ~previous_unit_was_decode THEN "decode" ELSE "prefill"
        ELSE IF queue # {} /\ (rows = {} \/ previous_unit_was_decode) THEN "admit"
        ELSE IF rows # {} THEN "decode" ELSE "boundary"

(* Faulty variant: the worker tries again instead of running a round.      *)
AfterAdmissionRetries ==
    IF pending # {} THEN "admit" ELSE IF Membership # {} THEN "decode" ELSE "boundary"

(* try_admit_one ran no GPU unit.                                          *)
AfterAdmission == IF Membership # {} THEN "decode" ELSE "boundary"

(* The top of the loop: expire_pending_requests, cancel_active_requests    *)
(* and the choice of the next unit.  An idle worker sleeps on queue_cv_.   *)
Boundary ==
    /\ pc = "boundary"
    /\ pending # {} \/ ActiveLanes # {}
    /\ \E late \in SUBSET ((pending \cap Hurried) \ cancelled) :
          LET gone == (pending \cap cancelled) \cup late
              dead == {l \in ActiveLanes : slots[l].id \in cancelled}
          IN  /\ Settle(slots, dead, {}, gone)
              /\ prefill_lane' = IF prefill_lane \in dead THEN 0 ELSE prefill_lane
              /\ pending' = pending \ gone
              /\ protection' = ClearProtectionIfHead(gone)
    /\ pc' = AfterBoundary(slots', pending', prefill_lane')
    /\ UNCHANGED <<requestVars, next_epoch, previous_unit_was_decode, scanVars>>

(* One prefill step on lane l, then resolve_prefill_step: a cancelled      *)
(* request is aborted; at the end of the prompt the first token is         *)
(* committed, which may already end the request.                           *)
PrefillStep(l) ==
    LET r    == slots[l].id
        next == NextCursor(r, slots[l].cursor)
        full == next = shape[r].prompt
        step == [slots EXCEPT ![l].work = @ - 1, ![l].cursor = next,
                              ![l].budget = IF full THEN @ - 1 ELSE @, ![l].ready = full]
    IN  /\ \/ r \in cancelled /\ Settle(step, {l}, {}, {})
           \/ r \notin cancelled /\ ~full /\ Settle(step, {}, {}, {})
           \/ /\ r \notin cancelled /\ full
              /\ step[l].budget # 0 /\ Settle(step, {}, {}, {})
           \/ r \notin cancelled /\ full /\ Settle(step, {}, {l}, {})
        /\ prefill_lane' = IF prefill_lane = l /\ (full \/ r \in cancelled)
                           THEN 0 ELSE prefill_lane

RunPrefillStep ==
    /\ pc = "prefill"
    /\ PrefillStep(prefill_lane)
    /\ previous_unit_was_decode' = FALSE
    /\ pc' = "boundary"
    /\ UNCHANGED <<requestVars, pending, policyVars, scanVars>>

(* run_decode_round: every ready lane commits at least one of the licensed *)
(* tokens; a stop condition or the budget ends a request; a row cancelled  *)
(* during the round is dropped.                                            *)
RunDecodeRound ==
    /\ pc = "decode"
    /\ \E accepted \in [Membership -> 1 .. DraftWindow + 1], stopped \in SUBSET Membership :
          LET dead == {l \in Membership : slots[l].id \in cancelled}
              live == Membership \ dead
              done == {l \in live : l \in stopped \/ accepted[l] = slots[l].budget}
          IN  /\ stopped \subseteq live
              /\ \A l \in live : accepted[l] <= slots[l].budget
              /\ \A l \in dead : accepted[l] = 1
              /\ Settle([l \in Lanes |->
                           IF l \in live
                           THEN [slots[l] EXCEPT !.work = @ - accepted[l],
                                                 !.budget = @ - accepted[l]]
                           ELSE slots[l]], dead, done, {})
    /\ previous_unit_was_decode' = TRUE
    /\ pc' = "boundary"
    /\ UNCHANGED <<requestVars, pending, prefill_lane, policyVars, scanVars>>

-----------------------------------------------------------------------------
(* try_admit_one.  The snapshot `queued` is a prefix of pending_, because  *)
(* only the worker removes requests.                                       *)

QueueHead == Min(pending)
NextQueued == Min(queued)

(* Cancelled, expired, impossible to plan or larger than the whole pool.   *)
MustDrop(r) ==
    \/ r \in cancelled
    \/ ~ Plannable(r)
    \/ ~ Fits(Need(r), AdmissionCapacity)

MayDrop(r) == MustDrop(r) \/ r \in Hurried

AdmitNobody ==
    /\ pc = "admit" /\ pending = {}
    /\ protection' = NoProtection
    /\ pc' = AfterAdmission
    /\ UNCHANGED <<requestVars, cancelled, pending, laneVars, lane_plans, prefill_lane,
                   next_epoch, previous_unit_was_decode, scanVars>>

DropHead ==
    /\ pc = "admit" /\ pending # {}
    /\ MayDrop(QueueHead)
    /\ LeaveQueue({QueueHead})
    /\ lane_plans' = With(lane_plans, {QueueHead}, NoPlans)
    /\ protection' = NoProtection
    /\ UNCHANGED <<pc, requestVars, laneVars, prefill_lane, next_epoch,
                   previous_unit_was_decode, scanVars>>

ChooseHead ==
    /\ pc = "admit" /\ pending # {}
    /\ ~ MustDrop(QueueHead) /\ HasLane(QueueHead)
    /\ LET found == FindAdmissionLane(QueueHead)
       IN  choice' = [id |-> QueueHead, lane |-> found.lane, evict |-> found.evict,
                      class |-> "None", epoch |-> 0]
    /\ EnsureLanePlans(QueueHead)
    /\ protection' = IF protection.head = QueueHead THEN protection ELSE NoProtection
    /\ pc' = "admitting"
    /\ UNCHANGED <<requestVars, cancelled, pending, laneVars, prefill_lane, next_epoch,
                   previous_unit_was_decode, queued>>

(* The head does not fit: freeze the active requests (once per head) and,  *)
(* unless the head only waits for temporal borrowers, look for backfill.   *)
ProtectHead ==
    /\ pc = "admit" /\ pending # {}
    /\ ~ MustDrop(QueueHead) /\ ~ HasLane(QueueHead)
    /\ \E p \in {IF protection.head = QueueHead THEN protection
                ELSE MakeAdmissionProtection(next_epoch, QueueHead, Need(QueueHead),
                                             ActiveSet, AdmissionCapacity)} :
          LET drain == \/ p.phase = "Drain"
                       \/ ProtectedHeadSafeWithoutTemporal(p, ActiveSet, AdmissionCapacity)
          IN  /\ protection' = IF drain THEN [p EXCEPT !.phase = "Drain"] ELSE p
              /\ pc' = IF drain THEN AfterAdmission ELSE "scan"
              /\ queued' = IF drain THEN {} ELSE pending \ {QueueHead}
    /\ next_epoch' = IF protection.head = QueueHead THEN next_epoch ELSE next_epoch + 1
    /\ EnsureLanePlans(QueueHead)
    /\ UNCHANGED <<requestVars, cancelled, pending, laneVars, prefill_lane,
                   previous_unit_was_decode, choice>>

DropCandidate ==
    /\ pc = "scan" /\ queued # {}
    /\ MayDrop(NextQueued)
    /\ LeaveQueue({NextQueued})
    /\ lane_plans' = With(lane_plans, {NextQueued}, NoPlans)
    /\ queued' = queued \ {NextQueued}
    /\ UNCHANGED <<pc, requestVars, laneVars, prefill_lane, policyVars,
                   previous_unit_was_decode, choice>>

BackfillClass(r, l) ==
    LET work == ProjectedServiceWork(r, Planned(r)[l])
    IN  IF PersistentBackfillIsSafe(protection, ActiveSet, Need(r), AdmissionCapacity)
        THEN "Persistent"
        ELSE IF /\ work <= ProtectionFrontierDistance(protection, ActiveSet)
                /\ work <= protection.credit
        THEN "Temporal" ELSE "None"

ScanCandidate ==
    /\ pc = "scan" /\ queued # {}
    /\ ~ MustDrop(NextQueued)
    /\ LET r     == NextQueued
           found == FindAdmissionLane(r)
           class == IF HasLane(r) THEN BackfillClass(r, found.lane) ELSE "None"
       IN  /\ EnsureLanePlans(r)
           /\ IF class = "None"
              THEN /\ queued' = queued \ {NextQueued}
                   /\ UNCHANGED <<pc, choice>>
              ELSE /\ choice' = [id |-> r, lane |-> found.lane, evict |-> found.evict,
                                 class |-> class, epoch |-> protection.epoch]
                   /\ queued' = {}
                   /\ pc' = "admitting"
    /\ UNCHANGED <<requestVars, cancelled, pending, laneVars, prefill_lane, policyVars,
                   previous_unit_was_decode>>

ScanEnds ==
    /\ pc = "scan" /\ queued = {}
    /\ pc' = AfterAdmission
    /\ UNCHANGED <<requestVars, cancelled, pending, laneVars, lane_plans, prefill_lane,
                   policyVars, previous_unit_was_decode, scanVars>>

-----------------------------------------------------------------------------
(* admit_planned_request.                                                  *)

(* The request was cancelled or expired after it had been chosen.          *)
AdmitTooLate ==
    /\ pc = "admitting"
    /\ choice.id \in cancelled \cup Hurried
    /\ LeaveQueue({choice.id})
    /\ lane_plans' = With(lane_plans, {choice.id}, NoPlans)
    /\ protection' = ClearProtectionIfHead({choice.id})
    /\ choice' = NoChoice
    /\ pc' = AfterAdmission
    /\ UNCHANGED <<requestVars, laneVars, prefill_lane, next_epoch,
                   previous_unit_was_decode, queued>>

(* The lane is given to the request; an exact hit on the retained prompt   *)
(* needs no staged prefill.                                                *)
AdmitOn(r, l, base, evicted) ==
    /\ pending' = pending \ {r}
    /\ slots' = [slots EXCEPT ![l] =
          [id |-> r, work |-> ProjectedServiceWork(r, base), budget |-> EffectiveOutput(r),
           cursor |-> base, ready |-> FALSE, checkpoint |-> CheckpointAfter(r, l, base),
           epoch |-> choice.epoch, class |-> choice.class]]
    /\ retained' = With(retained, evicted \cup {l}, NoSequence)
    /\ entitled' = With(With(entitled, evicted, NoPages), {l}, [k \in PageKinds |-> Need(r)[k]])
    /\ lane_plans' = With(InvalidateLanePlans(lane_plans, evicted \cup {l}), {r}, NoPlans)
    /\ prefill_lane' = IF base < shape[r].prompt THEN l ELSE 0

AdmitPlannedRequest ==
    /\ pc = "admitting"
    /\ choice.id \notin cancelled
    /\ LET r    == choice.id
           l    == choice.lane
           base == lane_plans[r][l]
           work == ProjectedServiceWork(r, base)
       IN  /\ AdmitOn(r, l, base, IF choice.evict THEN EvictedFor(r, l) ELSE {})
           /\ protection' = IF choice.class = "Temporal"
                            THEN [protection EXCEPT !.credit = @ - work]
                            ELSE ClearProtectionIfHead({r})
    /\ pc' = "first_step"
    /\ UNCHANGED <<requestVars, cancelled, next_epoch, previous_unit_was_decode, scanVars>>

(* start_prefill_lane ends with the first prefill step of the request.     *)
FirstPrefillStep ==
    /\ pc = "first_step"
    /\ PrefillStep(choice.lane)
    /\ previous_unit_was_decode' = FALSE
    /\ choice' = NoChoice
    /\ pc' = "boundary"
    /\ UNCHANGED <<requestVars, pending, policyVars, queued>>

(* A unit throws: fail_all ends every request and the worker returns.      *)
UnitFails ==
    /\ pc \in {"prefill", "first_step", "decode"}
    /\ pc' = "failed"
    /\ pending' = {} /\ cancelled' = {}
    /\ slots' = [l \in Lanes |-> EmptySlot]
    /\ retained' = With(retained, ActiveLanes, NoSequence)
    /\ entitled' = With(entitled, ActiveLanes, NoPages)
    /\ lane_plans' = [r \in Requests |-> NoPlans]
    /\ prefill_lane' = 0 /\ protection' = NoProtection
    /\ choice' = NoChoice
    /\ UNCHANGED <<requestVars, next_epoch, previous_unit_was_decode, queued>>

WorkerStep ==
    \/ Boundary \/ RunPrefillStep \/ RunDecodeRound
    \/ AdmitNobody \/ DropHead \/ ChooseHead \/ ProtectHead
    \/ DropCandidate \/ ScanCandidate \/ ScanEnds
    \/ AdmitTooLate \/ AdmitPlannedRequest \/ FirstPrefillStep

(* Nothing left to do: the worker has failed or sleeps on queue_cv_.       *)
Quiescent ==
    /\ submitted = NumRequests \/ pc = "failed"
    /\ pending = {} /\ ActiveLanes = {}
    /\ UNCHANGED vars

Next ==
    \/ Submit
    \/ \E r \in Requests : Cancel(r)
    \/ WorkerStep
    \/ UnitFails
    \/ Quiescent

Spec == Init /\ [][Next]_vars

(* The worker is a thread that never blocks while there is work to do.     *)
FairSpec == Spec /\ WF_vars(WorkerStep)

-----------------------------------------------------------------------------
(* Properties.                                                             *)

Classes == {"None", "Persistent", "Temporal"}

SlotRecords ==
    [id : 0 .. submitted, work : Nat, budget : Nat, cursor : Nat, ready : BOOLEAN,
     checkpoint : Nat, epoch : Nat, class : Classes]

ProtectionRecords ==
    [epoch : Nat, head : 0 .. submitted, resources : [Kinds -> Nat],
     incumbents : SUBSET (1 .. submitted), donors : SUBSET (1 .. submitted),
     credit : Nat, phase : {"Open", "Drain"}]

ChoiceRecords ==
    [id : 0 .. submitted, lane : {0} \cup Lanes, evict : BOOLEAN, class : Classes, epoch : Nat]

TypeOK ==
    /\ pc \in {"boundary", "prefill", "decode", "admit", "scan", "admitting",
               "first_step", "failed"}
    /\ submitted \in 0 .. NumRequests /\ shape \in Seq(Shapes) /\ Len(shape) = submitted
    /\ pending \subseteq 1 .. submitted /\ queued \subseteq pending
    /\ cancelled \subseteq pending \cup ActiveIds
    /\ slots \in [Lanes -> SlotRecords]
    /\ retained \in [Lanes -> [id : 0 .. submitted, frontier : Nat, checkpoint : Nat]]
    /\ entitled \in [Lanes -> [PageKinds -> Nat]]
    /\ lane_plans \in [Requests -> [Lanes -> Nat \cup {NoPlan}]]
    /\ prefill_lane \in {0} \cup Lanes
    /\ protection \in ProtectionRecords /\ protection.donors \subseteq protection.incumbents
    /\ next_epoch \in Nat \ {0} /\ previous_unit_was_decode \in BOOLEAN
    /\ choice \in ChoiceRecords

(* The pools are never promised beyond their size: the entitlements of all *)
(* lanes, active and retained, fit together, and an active lane owns the   *)
(* full reservation of its request (can_admit_lane, eviction, retirement). *)
PoolsNeverOvercommitted ==
    /\ \A k \in PageKinds :
          Total([l \in Lanes |-> entitled[l][k]]) <= AdmissionCapacity[k]
    /\ \A l \in ActiveLanes : \A k \in PageKinds : entitled[l][k] = Need(slots[l].id)[k]
    /\ \A l \in FreeLanes : retained[l].id = 0 => entitled[l] = NoPages

(* A request is in one place only, and at most one lane is between its     *)
(* first and its last prefill step: every other active lane decodes.       *)
OneStagedPrefill ==
    /\ \A l, m \in ActiveLanes : slots[l].id = slots[m].id => l = m
    /\ pending \cap ActiveIds = {}
    /\ \A l \in ActiveLanes :
          ~ slots[l].ready <=> \/ l = prefill_lane
                               \/ pc = "first_step" /\ l = choice.lane
    /\ prefill_lane # 0 => slots[prefill_lane].id # 0

(* A cached lane plan that would be used describes what the lane holds     *)
(* now, although lanes were evicted, reused and retired since it was made. *)
PlansMatchLanes ==
    \A r \in Requests : \A l \in FreeLanes :
        lane_plans[r][l] # NoPlan => lane_plans[r][l] = ReuseBase(r, l)

(* What the worker keeps between its units agrees: the variables have      *)
(* their types, one prefill at most is staged, no request is in two places *)
(* and no cached plan is stale (worker_loop, advance_lane_version).        *)
SchedulerStateAgrees == TypeOK /\ OneStagedPrefill /\ PlansMatchLanes

(* None of the std::logic_error and std::invalid_argument checks of the    *)
(* admission path can fire: a blocked head always has incumbents that can  *)
(* release it, and a chosen request still fits, with its credit, when it   *)
(* is admitted.                                                            *)
AdmissionNeverFaults ==
    /\ pc = "admit" /\ pending # {} /\ ~ MustDrop(QueueHead) /\ ~ HasLane(QueueHead)
          => IF protection.head = QueueHead THEN ActiveIds # {}
             ELSE ProtectionAllowed(Need(QueueHead), ActiveSet, AdmissionCapacity)
    /\ pc = "admitting" =>
          LET r == choice.id
              l == choice.lane
          IN  /\ r \in pending /\ l \in FreeLanes /\ lane_plans[r][l] # NoPlan
              /\ CanAdmitWithout(r, l, IF choice.evict THEN EvictedFor(r, l) ELSE {})
              /\ choice.class = "Temporal" =>
                    /\ protection.epoch = choice.epoch
                    /\ ProjectedServiceWork(r, lane_plans[r][l]) <= protection.credit

(* The protected head stays first in the queue and the room it was         *)
(* promised stays free: with its donors gone it fits beside the other      *)
(* incumbents and every persistent backfill, and once the temporal         *)
(* borrowers have left too it fits beside whatever is active.              *)
HeadKeepsItsReservation ==
    protection.head # 0 =>
        /\ pending # {} /\ QueueHead = protection.head
        /\ Fits(AddResources(protection.resources,
                   TotalOf(ActiveSet, Keepers(protection, ActiveSet))), AdmissionCapacity)
        /\ (\A r \in ActiveIds : /\ r \notin protection.donors
                                 /\ ActiveSet[r].class = "Temporal" =>
                                       ActiveSet[r].epoch # protection.epoch)
              => Fits(AddResources(protection.resources, TotalOf(ActiveSet, ActiveIds)),
                      AdmissionCapacity)

(* Prefill steps still to come from a cursor.                              *)
StepsLeft(r, cursor) ==
    LET cp    == shape[r].checkpoint
        steps == IF cp \in cursor + 1 .. shape[r].prompt - 1
                 THEN CeilDiv(cp - cursor, PrefillChunk)
                      + CeilDiv(shape[r].prompt - cp, PrefillChunk)
                 ELSE CeilDiv(shape[r].prompt - cursor, PrefillChunk)
    IN  IF cursor = shape[r].prompt THEN 1 ELSE steps

(* The service work projected at admission covers every step the request   *)
(* can still take, so consume_service_work never throws and every active   *)
(* request has remaining work.                                             *)
ServiceWorkSuffices ==
    \A l \in ActiveLanes :
        IF slots[l].ready
        THEN slots[l].budget >= 1 /\ slots[l].work >= slots[l].budget
        ELSE slots[l].work >= StepsLeft(slots[l].id, slots[l].cursor) + slots[l].budget - 1

(* docs/serving.md: "A later request waits in FIFO order": requests enter  *)
(* lanes in the order in which they were submitted.                        *)
AdmittedInFifoOrder ==
    [][\A l \in Lanes : slots[l].id = 0 /\ slots'[l].id # 0 => slots'[l].id = QueueHead]_vars

(* make_admission_protection returns the earliest sufficient frontier: for *)
(* the lanes as they stand and any head they block, the head fits once the *)
(* donors are gone, and no other set of active requests that makes room    *)
(* for it would be gone before the last donor.                             *)
FrontierIsEarliest ==
    pc = "admit" => \A pages \in 1 .. MainPages :
        LET head == [active_lanes |-> 1, main_kv_pages |-> pages,
                     backend_kv_pages |-> Min({pages, BackendPages})]
            p    == MakeAdmissionProtection(next_epoch, NumRequests + 1, head, ActiveSet,
                                            AdmissionCapacity)
            Releases(D) ==
                Fits(AddResources(head, TotalOf(ActiveSet, ActiveIds \ D)), AdmissionCapacity)
        IN  ProtectionAllowed(head, ActiveSet, AdmissionCapacity) =>
                /\ Releases(p.donors)
                /\ \A D \in SUBSET ActiveIds :
                      Releases(D) => \E d \in D : ActiveSet[d].work >= p.credit

(* Every request that was submitted ends: it is admitted and finishes, or  *)
(* it is rejected, however many later requests overtake it.  No request is *)
(* submitted twice, so it is enough that in the end none waits or is       *)
(* active.                                                                 *)
EveryRequestEnds == <>[](pending \cup ActiveIds = {})
=============================================================================
