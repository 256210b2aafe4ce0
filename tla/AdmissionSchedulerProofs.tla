----------------------- MODULE AdmissionSchedulerProofs -----------------------
(***************************************************************************)
(* The six invariants of AdmissionScheduler, for any number of requests    *)
(* and lanes, any shapes, pools and draft window.                          *)
(***************************************************************************)
EXTENDS AdmissionScheduler, CommonLemmas

-----------------------------------------------------------------------------
(* The inductive invariant.                                                *)

(* Where the worker stands decides what it has at hand.                    *)
ControlState ==
    /\ pc = "prefill" => prefill_lane # 0
    /\ pc \in {"admit", "scan", "admitting"} => prefill_lane = 0
    /\ pc \notin {"admitting", "first_step"} => choice = NoChoice
    /\ pc # "scan" => queued = {}
    /\ pc = "scan" => pending # {} /\ protection.head = QueueHead /\ QueueHead \notin queued
    /\ pc = "first_step" =>
          /\ choice.lane \in ActiveLanes /\ ~ slots[choice.lane].ready
          /\ prefill_lane \in {0, choice.lane}
          /\ slots[choice.lane].cursor # shape[slots[choice.lane].id].prompt
                => prefill_lane = choice.lane

(* A request that can be run: it passes the checks of plan_request_base    *)
(* and fits the empty pools.                                               *)
Runnable(r) == r \in 1 .. submitted /\ Plannable(r) /\ Fits(Need(r), AdmissionCapacity)

(* The progress of an active lane.                                         *)
ProgressOf(slot) ==
    /\ Runnable(slot.id)
    /\ slot.cursor <= shape[slot.id].prompt
    /\ slot.budget \in 1 .. EffectiveOutput(slot.id)
    /\ ~ slot.ready => slot.budget = EffectiveOutput(slot.id)

LaneProgress == \A l \in ActiveLanes : ProgressOf(slots[l])

(* A request that is not submitted yet has no plans.                       *)
NoEarlyPlans == \A r \in Requests : r > submitted => lane_plans[r] = NoPlans

(* What was found when a request was chosen still holds while clients      *)
(* submit and cancel: the second half of AdmissionNeverFaults, that a      *)
(* choice without a class is the head's, and that one with a class was     *)
(* made for the current protection.                                        *)
ChoiceStands ==
    pc = "admitting" =>
        /\ choice.id \in pending /\ choice.lane \in FreeLanes
        /\ lane_plans[choice.id][choice.lane] # NoPlan
        /\ Runnable(choice.id)
        /\ CanAdmitWithout(choice.id, choice.lane,
                           IF choice.evict THEN EvictedFor(choice.id, choice.lane) ELSE {})
        /\ choice.class = "None" => choice.id = QueueHead
        /\ choice.class # "None" =>
              /\ protection.head # 0 /\ choice.id # protection.head
              /\ choice.epoch = protection.epoch
        /\ choice.class = "Temporal" =>
              ProjectedServiceWork(choice.id, lane_plans[choice.id][choice.lane])
                  <= protection.credit
        /\ choice.class = "Persistent" =>
              PersistentBackfillIsSafe(protection, ActiveSet, Need(choice.id),
                                       AdmissionCapacity)

(* The protected head is the head of the queue; whoever became active      *)
(* since the protection was made is a backfill of its epoch.               *)
HeadProtected ==
    /\ protection.incumbents \cap pending = {}
    /\ protection.head # 0 =>
          /\ pending # {} /\ QueueHead = protection.head
          /\ \A l \in ActiveLanes : slots[l].id \notin protection.incumbents =>
                slots[l].epoch = protection.epoch /\ slots[l].class # "None"
          /\ Fits(AddResources(protection.resources,
                     TotalOf(ActiveSet, Keepers(protection, ActiveSet))), AdmissionCapacity)

IInv ==
    /\ TypeOK /\ OneStagedPrefill /\ PlansMatchLanes /\ NoEarlyPlans
    /\ ControlState /\ LaneProgress /\ ServiceWorkSuffices
    /\ PoolsNeverOvercommitted /\ ChoiceStands /\ HeadProtected

-----------------------------------------------------------------------------
(* Arithmetic: divisions that round up, and the lesser of two numbers.     *)

(* Division that rounds up stays in the naturals.                          *)
LEMMA CeilDivType ==
  ASSUME NEW n \in Nat, NEW d \in Nat \ {0}
  PROVE  CeilDiv(n, d) \in Nat /\ (n # 0 => CeilDiv(n, d) >= 1)
BY DEF CeilDiv

(* One divisor more is one more.                                           *)
LEMMA CeilDivStep ==
  ASSUME NEW n \in Nat, NEW d \in Nat \ {0}
  PROVE  CeilDiv(n + d, d) = CeilDiv(n, d) + 1
BY DEF CeilDiv

(* More to divide is at least as many parts.                               *)
LEMMA CeilDivMonotone ==
  ASSUME NEW n \in Nat, NEW m \in Nat, n <= m, NEW d \in Nat \ {0}
  PROVE  CeilDiv(n, d) <= CeilDiv(m, d)
BY DEF CeilDiv

(* Cutting a number in two costs at most one more.                         *)
LEMMA CeilDivSplit ==
  ASSUME NEW n \in Nat, NEW m \in Nat, NEW d \in Nat \ {0}
  PROVE  CeilDiv(n, d) + CeilDiv(m, d) <= CeilDiv(n + m, d) + 1
BY DEF CeilDiv

-----------------------------------------------------------------------------
(* What a request needs.                                                   *)

(* A submitted request has a shape with a prompt and an output.            *)
LEMMA ShapeOf ==
  ASSUME TypeOK, NEW r \in 1 .. submitted
  PROVE  /\ shape[r] \in Shapes
         /\ shape[r].prompt \in Nat \ {0} /\ shape[r].output \in Nat \ {0}
         /\ shape[r].checkpoint \in 0 .. shape[r].prompt
BY SchedulerAssumption DEF TypeOK

(* The output that the context leaves room for is at least one token, and  *)
(* what is reserved fits the context.                                      *)
LEMMA Reservation ==
  ASSUME TypeOK, NEW r \in 1 .. submitted, Plannable(r)
  PROVE  /\ EffectiveOutput(r) \in Nat \ {0}
         /\ ReservedTokens(shape[r]) \in Nat
         /\ shape[r].prompt <= ReservedTokens(shape[r]) /\ ReservedTokens(shape[r]) <= MaxContext
<1> DEFINE left == MaxContext - shape[r].prompt + 1
<1>1. shape[r].prompt \in Nat \ {0} /\ shape[r].output \in Nat \ {0}
  BY ShapeOf
<1>2. left \in Nat \ {0}
  BY <1>1, SchedulerAssumption DEF Plannable
<1>3. EffectiveOutput(r) = IF shape[r].output <= left THEN shape[r].output ELSE left
  <2> HIDE DEF left
  <2>1. Min({shape[r].output, left}) = IF shape[r].output <= left THEN shape[r].output ELSE left
    BY <1>1, <1>2, MinOfTwo
  <2> QED BY <2>1 DEF EffectiveOutput, PlannedOutput, left
<1> QED
  BY <1>1, <1>2, <1>3, SchedulerAssumption DEF ReservedTokens, EffectiveOutput

(* Page counts are naturals.                                               *)
LEMMA PagesType ==
  ASSUME NEW n \in Nat
  PROVE  PagesForTokens(n) \in Nat
BY CeilDivType, SchedulerAssumption DEF PagesForTokens

(* More tokens need at least as many pages.                                *)
LEMMA PagesMonotone ==
  ASSUME NEW n \in Nat, NEW m \in Nat, n <= m
  PROVE  PagesForTokens(n) <= PagesForTokens(m)
BY CeilDivMonotone, SchedulerAssumption DEF PagesForTokens

(* The entitlement of a request, and that it covers every token the        *)
(* request can ever execute, in both pools.                                *)
LEMMA NeedOf ==
  ASSUME TypeOK, NEW r \in 1 .. submitted, Plannable(r)
  PROVE  /\ Need(r) \in [Kinds -> Nat] /\ Need(r)["active_lanes"] = 1
         /\ \A n \in 0 .. ReservedTokens(shape[r]) :
               /\ PagesForTokens(n) <= Need(r)["main_kv_pages"]
               /\ BackendPages # 0 => PagesForTokens(n) <= Need(r)["backend_kv_pages"]
<1> DEFINE main  == ReservedTokens(shape[r])
           draft == BackendTokens(shape[r])
           need  == [active_lanes |-> 1, main_kv_pages |-> PagesForTokens(main),
                     backend_kv_pages |-> IF BackendPages = 0 THEN 0 ELSE PagesForTokens(draft)]
<1>1. main \in Nat /\ main <= MaxContext
  BY Reservation
<1>2. draft \in Nat /\ main <= draft
  <2>1. CASE SpeculativeBackend = "Mtp"
    <3> DEFINE ahead == main + DraftWindow - 1
    <3>1. draft = Min({MaxContext, ahead})
      BY <2>1 DEF BackendTokens
    <3> HIDE DEF main, draft
    <3>2. ahead \in Int /\ MaxContext \in Int /\ main <= ahead
      BY <1>1, <2>1, SchedulerAssumption
    <3> HIDE DEF ahead
    <3>3. draft = IF MaxContext <= ahead THEN MaxContext ELSE ahead
      BY <3>1, <3>2, MinOfTwo
    <3> QED BY <1>1, <3>2, <3>3
  <2>2. CASE SpeculativeBackend # "Mtp"
    BY <1>1, <2>2 DEF BackendTokens
  <2> QED BY <2>1, <2>2
<1>3. Need(r) = need
  BY ShapeOf DEF Need, PlannedResources
<1> HIDE DEF main, draft
<1>4. PagesForTokens(main) \in Nat /\ PagesForTokens(draft) \in Nat
  BY <1>1, <1>2, PagesType
<1>5. need \in [Kinds -> Nat] /\ need["active_lanes"] = 1
  BY <1>4 DEF Kinds
<1>6. ASSUME NEW n \in 0 .. main
      PROVE  /\ PagesForTokens(n) <= need["main_kv_pages"]
             /\ BackendPages # 0 => PagesForTokens(n) <= need["backend_kv_pages"]
  BY <1>1, <1>2, PagesMonotone
<1> HIDE DEF need
<1> QED BY <1>3, <1>5, <1>6 DEF main

(* The capacity is a vector of naturals.                                   *)
LEMMA CapacityType == AdmissionCapacity \in [Kinds -> Nat]
BY SchedulerAssumption DEF AdmissionCapacity, Kinds

-----------------------------------------------------------------------------
(* The active requests, seen through active_admission_set.                 *)

(* A lane is active when its slot names a submitted request.               *)
LEMMA ActiveIffId ==
  TypeOK => /\ \A l \in Lanes : l \in ActiveLanes <=> slots[l].id # 0
            /\ FreeLanes \subseteq Lanes /\ ActiveLanes \subseteq Lanes
            /\ \A l \in ActiveLanes : slots[l].id \in 1 .. submitted /\ slots[l].id \in ActiveIds
            /\ ActiveIds \subseteq 1 .. submitted
<1> SUFFICES ASSUME TypeOK
             PROVE  /\ \A l \in Lanes : l \in ActiveLanes <=> slots[l].id # 0
                    /\ FreeLanes \subseteq Lanes /\ ActiveLanes \subseteq Lanes
                    /\ \A l \in ActiveLanes : /\ slots[l].id \in 1 .. submitted
                                               /\ slots[l].id \in ActiveIds
                    /\ ActiveIds \subseteq 1 .. submitted
  OBVIOUS
<1>1. submitted \in Nat /\ \A l \in Lanes : slots[l].id \in 0 .. submitted
  BY SchedulerAssumption DEF TypeOK, SlotRecords
<1>2. /\ FreeLanes \subseteq Lanes /\ ActiveLanes \subseteq Lanes
      /\ \A l \in Lanes : l \in ActiveLanes <=> slots[l].id # 0
  BY DEF ActiveLanes, FreeLanes
<1> QED BY <1>1, <1>2 DEF ActiveIds

(* There are MaxConcurrency lanes.                                         *)
LEMMA LanesFinite == IsFiniteSet(Lanes) /\ Cardinality(Lanes) = MaxConcurrency
BY FS_Interval, SchedulerAssumption DEF Lanes

(* Sets of submitted requests are finite.                                  *)
LEMMA IdsFinite ==
  ASSUME NEW n \in Nat, NEW ids \in SUBSET (1 .. n)
  PROVE  IsFiniteSet(ids)
<1>1. IsFiniteSet(1 .. n)
  BY FS_Interval
<1> QED BY <1>1, FS_Subset

(* The snapshot of an active request is that of its lane.                  *)
LEMMA SnapshotOf ==
  TypeOK /\ OneStagedPrefill =>
      /\ DOMAIN ActiveSet = ActiveIds
      /\ \A r \in ActiveIds : ActiveSet[r].resources = Need(r)
      /\ \A l \in ActiveLanes : /\ ActiveSet[slots[l].id].work = slots[l].work
                                /\ ActiveSet[slots[l].id].epoch = slots[l].epoch
                                /\ ActiveSet[slots[l].id].class = slots[l].class
<1> SUFFICES ASSUME TypeOK, OneStagedPrefill
             PROVE  /\ DOMAIN ActiveSet = ActiveIds
                    /\ \A r \in ActiveIds : ActiveSet[r].resources = Need(r)
                    /\ \A l \in ActiveLanes : /\ ActiveSet[slots[l].id].work = slots[l].work
                                              /\ ActiveSet[slots[l].id].epoch = slots[l].epoch
                                              /\ ActiveSet[slots[l].id].class = slots[l].class
  OBVIOUS
<1>1. ASSUME NEW l \in ActiveLanes PROVE LaneOf(slots[l].id) = l
  <2>1. l \in Lanes /\ slots[l].id # 0
    BY ActiveIffId
  <2>2. \A m \in Lanes : slots[m].id = slots[l].id => m = l
    BY <2>1, ActiveIffId DEF OneStagedPrefill
  <2> QED BY <2>1, <2>2 DEF LaneOf
<1>2. \A l \in ActiveLanes : slots[l].id \in ActiveIds
  BY ActiveIffId
<1> QED BY <1>1, <1>2 DEF ActiveSet

(* The demand of a set of requests.                                        *)
NeedOver(ids) == [k \in Kinds |-> Total([i \in ids |-> Need(i)[k]])]

(* The resources of active requests add up to what they need.              *)
LEMMA TotalOfActive ==
  TypeOK /\ OneStagedPrefill =>
      \A ids \in SUBSET ActiveIds : TotalOf(ActiveSet, ids) = NeedOver(ids)
<1> SUFFICES ASSUME TypeOK, OneStagedPrefill, NEW ids \in SUBSET ActiveIds
             PROVE  TotalOf(ActiveSet, ids) = NeedOver(ids)
  OBVIOUS
<1>1. \A k \in Kinds : [i \in ids |-> ActiveSet[i].resources[k]] = [i \in ids |-> Need(i)[k]]
  BY SnapshotOf
<1> QED BY <1>1 DEF TotalOf, NeedOver

(* The demand of requests that can be planned is a vector of naturals.     *)
LEMMA NeedOverType ==
  ASSUME TypeOK, NEW ids \in SUBSET (1 .. submitted), \A i \in ids : Plannable(i)
  PROVE  /\ IsFiniteSet(ids)
         /\ \A k \in Kinds : /\ [i \in ids |-> Need(i)[k]] \in [ids -> Nat]
                             /\ NeedOver(ids)[k] \in Nat
                             /\ NeedOver(ids)[k] = Total([i \in ids |-> Need(i)[k]])
<1>1. IsFiniteSet(ids)
  <2>1. submitted \in Nat
    BY SchedulerAssumption DEF TypeOK
  <2> QED BY <2>1, IdsFinite
<1>2. ASSUME NEW k \in Kinds
      PROVE  [i \in ids |-> Need(i)[k]] \in [ids -> Nat] /\ NeedOver(ids)[k] \in Nat
  <2>1. [i \in ids |-> Need(i)[k]] \in [ids -> Nat]
    BY NeedOf
  <2>2. Total([i \in ids |-> Need(i)[k]]) \in Nat
    <3> DEFINE f == [i \in ids |-> Need(i)[k]]
    <3>1. f \in [ids -> Nat]
      BY <2>1
    <3> HIDE DEF f
    <3>2. Total(f) \in Nat
      BY <1>1, <3>1, TotalIsNat
    <3> QED BY <3>2 DEF f
  <2> QED BY <2>1, <2>2 DEF NeedOver
<1>3. \A k \in Kinds : NeedOver(ids)[k] = Total([i \in ids |-> Need(i)[k]])
  BY DEF NeedOver
<1> QED BY <1>1, <1>2, <1>3

(* Fewer requests need no more.                                            *)
LEMMA NeedOverPart ==
  ASSUME TypeOK, NEW jds \in SUBSET (1 .. submitted), \A i \in jds : Plannable(i),
         NEW ids \in SUBSET jds
  PROVE  \A k \in Kinds : NeedOver(ids)[k] <= NeedOver(jds)[k]
<1> SUFFICES ASSUME NEW k \in Kinds PROVE NeedOver(ids)[k] <= NeedOver(jds)[k]
  OBVIOUS
<1> DEFINE f == [i \in ids |-> Need(i)[k]]
           g == [i \in jds |-> Need(i)[k]]
<1>1. /\ f \in [ids -> Nat] /\ g \in [jds -> Nat] /\ IsFiniteSet(jds)
      /\ \A i \in ids : f[i] = g[i]
  BY NeedOverType
<1>2. NeedOver(ids)[k] = Total(f) /\ NeedOver(jds)[k] = Total(g)
  BY DEF NeedOver
<1> HIDE DEF f, g
<1>3. ids \subseteq jds
  OBVIOUS
<1>4. Total(f) <= Total(g)
  BY <1>1, <1>3, TotalOfPart, Zenon
<1> QED BY <1>2, <1>4

(* One request more needs its own entitlement more.                        *)
LEMMA NeedOverMore ==
  ASSUME TypeOK, NEW ids \in SUBSET (1 .. submitted), NEW r \in 1 .. submitted, r \notin ids,
         \A i \in ids \cup {r} : Plannable(i)
  PROVE  \A k \in Kinds : NeedOver(ids \cup {r})[k] = NeedOver(ids)[k] + Need(r)[k]
<1> SUFFICES ASSUME NEW k \in Kinds
             PROVE  NeedOver(ids \cup {r})[k] = NeedOver(ids)[k] + Need(r)[k]
  OBVIOUS
<1> DEFINE jds == ids \cup {r}
           f == [i \in ids |-> Need(i)[k]]
           g == [i \in jds |-> Need(i)[k]]
<1>1. jds \in SUBSET (1 .. submitted) /\ \A i \in jds : Plannable(i)
  OBVIOUS
<1>2. /\ f \in [ids -> Nat] /\ g \in [jds -> Nat] /\ IsFiniteSet(ids)
      /\ \A i \in ids : f[i] = g[i]
      /\ g[r] = Need(r)[k]
  <2> HIDE DEF jds
  <2> QED BY <1>1, NeedOverType DEF jds
<1>3. NeedOver(ids)[k] = Total(f) /\ NeedOver(jds)[k] = Total(g) /\ jds = ids \cup {r}
  BY DEF NeedOver
<1> HIDE DEF f, g, jds
<1>4. \A a \in [ids -> Nat], b \in [ids \cup {r} -> Nat] :
         (\A i \in ids : b[i] = a[i]) => Total(b) = Total(a) + b[r]
  BY <1>2, TotalAdds
<1>5. Total(g) = Total(f) + g[r]
  BY <1>2, <1>3, <1>4
<1> QED BY <1>2, <1>3, <1>5

(* Room for `more` beside the requests `ids`.                              *)
RoomBeside(more, ids) ==
    \A k \in Kinds : more[k] + NeedOver(ids)[k] <= AdmissionCapacity[k]

(* The policy's Fits over the snapshot is room beside those requests.      *)
LEMMA FitsIsRoom ==
  TypeOK /\ OneStagedPrefill =>
      \A more, ids : ids \subseteq ActiveIds =>
          (Fits(AddResources(more, TotalOf(ActiveSet, ids)), AdmissionCapacity)
              <=> RoomBeside(more, ids))
BY TotalOfActive DEF Fits, AddResources, RoomBeside, NeedOver

(* A slot whose request is still there when the donors are gone.           *)
KeptBy(p, slot) ==
    \/ slot.id \in p.incumbents \ p.donors
    \/ slot.id \notin p.incumbents /\ slot.epoch = p.epoch /\ slot.class = "Persistent"

KeptIds(p) == {slots[l].id : l \in {m \in ActiveLanes : KeptBy(p, slots[m])}}

(* The keepers of the policy, read off the slots.                          *)
LEMMA KeepersAreKept ==
  TypeOK /\ OneStagedPrefill => /\ Keepers(protection, ActiveSet) = KeptIds(protection)
                                /\ KeptIds(protection) \subseteq ActiveIds
<1> SUFFICES ASSUME TypeOK, OneStagedPrefill
             PROVE  /\ Keepers(protection, ActiveSet) = KeptIds(protection)
                    /\ KeptIds(protection) \subseteq ActiveIds
  OBVIOUS
<1>1. KeptIds(protection) \subseteq ActiveIds
  BY DEF KeptIds, ActiveIds
<1>2. ASSUME NEW l \in ActiveLanes
      PROVE  slots[l].id \in Keepers(protection, ActiveSet) <=> KeptBy(protection, slots[l])
  <2>1. slots[l].id \in DOMAIN ActiveSet
    BY SnapshotOf DEF ActiveIds
  <2> QED BY <2>1, SnapshotOf DEF Keepers, KeptBy
<1>3. Keepers(protection, ActiveSet) \subseteq ActiveIds
  BY SnapshotOf DEF Keepers
<1> QED BY <1>1, <1>2, <1>3 DEF KeptIds, ActiveIds

-----------------------------------------------------------------------------
(* A step keeps the shapes of the requests it finds.                       *)

RequestsStay == \A r \in 1 .. submitted : r \in 1 .. submitted' /\ shape'[r] = shape[r]

(* Submit appends a shape; every other step leaves the shapes alone.       *)
LEMMA ShapesStay ==
  ASSUME TypeOK, Submit \/ UNCHANGED requestVars
  PROVE  RequestsStay
<1>1. CASE Submit
  <2>1. PICK s \in Shapes : shape' = Append(shape, s)
    BY <1>1 DEF Submit
  <2> QED BY <1>1, <2>1, SchedulerAssumption DEF Submit, TypeOK, RequestsStay
<1>2. CASE UNCHANGED requestVars
  BY <1>2 DEF requestVars, RequestsStay
<1> QED BY <1>1, <1>2

(* What depends on the shape of one request only stays too.                *)
LEMMA PlanStays ==
  ASSUME NEW r, shape'[r] = shape[r]
  PROVE  /\ Plannable(r)' = Plannable(r)
         /\ EffectiveOutput(r)' = EffectiveOutput(r)
         /\ Need(r)' = Need(r)
         /\ \A c : /\ ProjectedServiceWork(r, c)' = ProjectedServiceWork(r, c)
                   /\ StepsLeft(r, c)' = StepsLeft(r, c)
<1>1. Plannable(r)' = Plannable(r)
  BY DEF Plannable
<1>2. EffectiveOutput(r)' = EffectiveOutput(r)
  BY DEF EffectiveOutput, PlannedOutput
<1>3. PlannedResources' = PlannedResources
  BY DEF PlannedResources, BackendTokens, ReservedTokens, PlannedOutput, PagesForTokens, CeilDiv
<1>4. Need(r)' = Need(r)
  BY <1>3 DEF Need
<1>5. ASSUME NEW c
      PROVE  /\ ProjectedServiceWork(r, c)' = ProjectedServiceWork(r, c)
             /\ StepsLeft(r, c)' = StepsLeft(r, c)
  BY <1>2 DEF ProjectedServiceWork, StepsLeft
<1> QED BY <1>1, <1>2, <1>3, <1>4, <1>5

(* What a request needs never changes after its submission.                *)
LEMMA NeedStays ==
  ASSUME RequestsStay
  PROVE  /\ \A r \in 1 .. submitted : Need(r)' = Need(r) /\ (Runnable(r) => Runnable(r)')
         /\ \A ids \in SUBSET (1 .. submitted) : NeedOver(ids)' = NeedOver(ids)
<1>1. \A r \in 1 .. submitted : Need(r)' = Need(r) /\ Plannable(r)' = Plannable(r)
  BY PlanStays DEF RequestsStay
<1>2. ASSUME NEW r \in 1 .. submitted, Runnable(r) PROVE Runnable(r)'
  <2>1. AdmissionCapacity' = AdmissionCapacity
    BY DEF AdmissionCapacity
  <2> QED BY <1>1, <1>2, <2>1 DEF Runnable, RequestsStay, Fits
<1>3. ASSUME NEW ids \in SUBSET (1 .. submitted) PROVE NeedOver(ids)' = NeedOver(ids)
  <2>1. \A k \in Kinds : [i \in ids |-> Need(i)[k]]' = [i \in ids |-> Need(i)[k]]
    BY <1>1
  <2> QED BY <2>1 DEF NeedOver
<1> QED BY <1>1, <1>2, <1>3

(* While lanes only become free, the room promised to the head stays.      *)
LanesOnlyLeave ==
    /\ ActiveLanes' \subseteq ActiveLanes
    /\ \A l \in ActiveLanes' : /\ slots'[l].id = slots[l].id
                               /\ slots'[l].epoch = slots[l].epoch
                               /\ slots'[l].class = slots[l].class

SameReservation ==
    /\ protection'.epoch = protection.epoch /\ protection'.resources = protection.resources
    /\ protection'.incumbents = protection.incumbents
    /\ protection'.donors = protection.donors

Reserved ==
    Fits(AddResources(protection.resources,
             TotalOf(ActiveSet, Keepers(protection, ActiveSet))), AdmissionCapacity)

(* The reservation of the head as room beside the keepers.                 *)
LEMMA ReservedIsRoom ==
  TypeOK /\ OneStagedPrefill =>
      (Reserved <=> RoomBeside(protection.resources, KeptIds(protection)))
BY FitsIsRoom, KeepersAreKept DEF Reserved

(* Lanes that only become free leave the reservation intact.               *)
LEMMA ReservedStays ==
  ASSUME TypeOK, OneStagedPrefill, LaneProgress, RequestsStay, TypeOK', OneStagedPrefill',
         LanesOnlyLeave, SameReservation, Reserved
  PROVE  Reserved'
<1> DEFINE old == KeptIds(protection)
           new == KeptIds(protection)'
<1>1. RoomBeside(protection.resources, old)
  BY ReservedIsRoom
<1>2. new \subseteq old
  BY DEF LanesOnlyLeave, SameReservation, KeptIds, KeptBy
<1>3. old \subseteq 1 .. submitted /\ \A i \in old : Plannable(i)
  BY DEF KeptIds, LaneProgress, ProgressOf, Runnable
<1>4. \A k \in Kinds : NeedOver(old)[k] \in Nat /\ NeedOver(new)[k] \in Nat
                       /\ NeedOver(new)[k] <= NeedOver(old)[k]
  <2> HIDE DEF old, new
  <2>1. new \in SUBSET old /\ old \in SUBSET (1 .. submitted) /\ new \in SUBSET (1 .. submitted)
    BY <1>2, <1>3
  <2>2. \A i \in new : Plannable(i)
    BY <1>2, <1>3
  <2> QED BY <1>3, <2>1, <2>2, NeedOverType, NeedOverPart
<1>5. NeedOver(KeptIds(protection))' = NeedOver(new)
  <2> HIDE DEF old
  <2>1. new \in SUBSET (1 .. submitted)
    BY <1>2, <1>3
  <2>2. \A i \in new : Need(i)' = Need(i)
    BY <2>1, NeedStays
  <2>3. \A k \in Kinds : [i \in new |-> Need(i)'[k]] = [i \in new |-> Need(i)[k]]
    BY <2>2
  <2> QED BY <2>3 DEF NeedOver
<1>6. \A k \in Kinds : protection.resources[k] \in Nat /\ AdmissionCapacity[k] \in Nat
  BY CapacityType DEF TypeOK, ProtectionRecords
<1>7. RoomBeside(protection.resources, KeptIds(protection))'
  <2>1. AdmissionCapacity' = AdmissionCapacity
    BY DEF AdmissionCapacity
  <2> HIDE DEF old, new
  <2> QED BY <1>1, <1>4, <1>5, <1>6, <2>1 DEF RoomBeside, SameReservation, Kinds
<1>8. (Reserved <=> RoomBeside(protection.resources, KeptIds(protection)))'
  BY ReservedIsRoom, PTL
<1> QED BY <1>7, <1>8

-----------------------------------------------------------------------------
(* Service work.                                                           *)

(* At least one prefill step is left at any cursor.                        *)
LEMMA StepsLeftType ==
  ASSUME TypeOK, NEW r \in 1 .. submitted, NEW c \in 0 .. shape[r].prompt
  PROVE  StepsLeft(r, c) \in Nat \ {0}
<1> DEFINE p == shape[r].prompt
           cp == shape[r].checkpoint
<1>1. p \in Nat /\ cp \in Nat /\ c \in Nat /\ c <= p /\ PrefillChunk \in Nat \ {0}
  BY ShapeOf, SchedulerAssumption
<1>2. StepsLeft(r, c) = IF c = p THEN 1
                        ELSE IF cp \in c + 1 .. p - 1
                             THEN CeilDiv(cp - c, PrefillChunk) + CeilDiv(p - cp, PrefillChunk)
                             ELSE CeilDiv(p - c, PrefillChunk)
  BY DEF StepsLeft
<1> HIDE DEF p, cp
<1>3. c # p => p - c \in Nat \ {0}
  BY <1>1
<1>4. cp \in c + 1 .. p - 1 => cp - c \in Nat \ {0} /\ p - cp \in Nat \ {0}
  BY <1>1
<1>5. ASSUME NEW n \in Nat \ {0} PROVE CeilDiv(n, PrefillChunk) \in Nat \ {0}
  BY <1>1, CeilDivType
<1> QED BY <1>2, <1>3, <1>4, <1>5

(* The work projected at admission is enough for the steps that follow:    *)
(* the one split at a checkpoint costs at most one step more.              *)
LEMMA ProjectionSuffices ==
  ASSUME TypeOK, NEW r \in 1 .. submitted, Plannable(r), NEW base \in 0 .. shape[r].prompt
  PROVE  /\ ProjectedServiceWork(r, base) \in Nat
         /\ ProjectedServiceWork(r, base) >= StepsLeft(r, base) + EffectiveOutput(r) - 1
<1> DEFINE p == shape[r].prompt
           cp == shape[r].checkpoint
           eo == EffectiveOutput(r)
           inside == cp \in base + 1 .. p - 1
           whole == CeilDiv(p - base, PrefillChunk)
           first == CeilDiv(cp - base, PrefillChunk)
           second == CeilDiv(p - cp, PrefillChunk)
<1>1. p \in Nat /\ cp \in Nat /\ base \in Nat /\ base <= p /\ PrefillChunk \in Nat \ {0}
  BY ShapeOf, SchedulerAssumption
<1>2. eo \in Nat \ {0}
  BY Reservation
<1>3. StepsLeft(r, base) = IF base = p THEN 1 ELSE IF inside THEN first + second ELSE whole
  BY DEF StepsLeft
<1>4. ProjectedServiceWork(r, base) =
        (IF p - base = 0 THEN 1 ELSE whole + (IF inside THEN 1 ELSE 0)) + eo - 1
  BY DEF ProjectedServiceWork
<1> HIDE DEF p, cp, eo
<1>5. whole \in Nat
  BY <1>1, CeilDivType
<1>6. inside => first \in Nat /\ second \in Nat /\ first + second <= whole + 1
  <2> SUFFICES ASSUME inside
               PROVE  first \in Nat /\ second \in Nat /\ first + second <= whole + 1
    OBVIOUS
  <2>1. cp - base \in Nat /\ p - cp \in Nat /\ (cp - base) + (p - cp) = p - base
    BY <1>1
  <2> QED BY <1>1, <2>1, CeilDivType, CeilDivSplit
<1> HIDE DEF inside, whole, first, second
<1>7. CASE base = p
  BY <1>1, <1>2, <1>3, <1>4, <1>7 DEF eo
<1>8. CASE base # p /\ inside
  BY <1>1, <1>2, <1>3, <1>4, <1>5, <1>6, <1>8 DEF eo
<1>9. CASE base # p /\ ~ inside
  BY <1>1, <1>2, <1>3, <1>4, <1>5, <1>9 DEF eo
<1> QED BY <1>7, <1>8, <1>9

(* A prefill step that does not end the prompt leaves one step less.       *)
LEMMA CursorAdvances ==
  ASSUME TypeOK, NEW r \in 1 .. submitted, NEW c \in 0 .. shape[r].prompt
  PROVE  /\ NextCursor(r, c) \in 0 .. shape[r].prompt
         /\ NextCursor(r, c) # shape[r].prompt =>
               StepsLeft(r, NextCursor(r, c)) + 1 <= StepsLeft(r, c)
         /\ c = shape[r].prompt => NextCursor(r, c) = shape[r].prompt
<1> DEFINE p == shape[r].prompt
           cp == shape[r].checkpoint
           d == PrefillChunk
           end == IF c + d <= p THEN c + d ELSE p
           n == NextCursor(r, c)
           Steps(x) == IF x = p THEN 1
                       ELSE IF cp \in x + 1 .. p - 1 THEN CeilDiv(cp - x, d) + CeilDiv(p - cp, d)
                       ELSE CeilDiv(p - x, d)
<1>1. p \in Nat /\ cp \in Nat /\ c \in Nat /\ c <= p /\ d \in Nat \ {0}
  BY ShapeOf, SchedulerAssumption
<1>2. n = IF cp \in c + 1 .. end - 1 THEN cp ELSE end
  <2>1. Min({c + d, p}) = end
    BY <1>1, MinOfTwo
  <2> QED BY <2>1 DEF NextCursor
<1>3. \A x : StepsLeft(r, x) = Steps(x)
  BY DEF StepsLeft
<1> HIDE DEF p, cp, d, n
<1>4. n \in 0 .. p /\ (c = p => n = p)
  BY <1>1, <1>2
<1>5. ASSUME n # p PROVE Steps(n) + 1 <= Steps(c)
  <2>0. c < p /\ n < p
    BY <1>1, <1>2, <1>4, <1>5
  <2>1. CASE cp \in c + 1 .. end - 1
    <3>1. n = cp /\ cp \in c + 1 .. p - 1 /\ cp - c \in Nat \ {0} /\ p - cp \in Nat
      BY <1>1, <1>2, <2>1
    <3>2. CeilDiv(cp - c, d) \in Nat \ {0} /\ CeilDiv(p - cp, d) \in Nat
      BY <1>1, <3>1, CeilDivType
    <3>3. Steps(n) = CeilDiv(p - cp, d)
      BY <1>1, <2>0, <3>1
    <3>4. Steps(c) = CeilDiv(cp - c, d) + CeilDiv(p - cp, d)
      BY <2>0, <3>1
    <3> QED BY <3>2, <3>3, <3>4
  <2>2. CASE cp \notin c + 1 .. end - 1 /\ cp \in c + 1 .. p - 1
    <3>1. n = c + d /\ cp >= n
      BY <1>1, <1>2, <1>5, <2>2
    <3>2. CeilDiv(p - cp, d) \in Nat
      BY <1>1, <2>2, CeilDivType
    <3>3. Steps(c) = CeilDiv(cp - c, d) + CeilDiv(p - cp, d)
      BY <2>0, <2>2
    <3>4. cp - n \in Nat /\ (cp - n) + d = cp - c
      BY <1>1, <3>1
    <3>5. CeilDiv(cp - c, d) = CeilDiv(cp - n, d) + 1 /\ CeilDiv(cp - n, d) \in Nat
      BY <1>1, <3>4, CeilDivStep, CeilDivType
    <3>6. CASE cp = n
      <4>1. Steps(n) = CeilDiv(p - cp, d)
        BY <1>1, <2>0, <3>6
      <4> QED BY <3>2, <3>3, <3>5, <4>1
    <3>7. CASE cp # n
      <4>1. cp \in n + 1 .. p - 1
        BY <1>1, <2>2, <3>1, <3>7
      <4>2. Steps(n) = CeilDiv(cp - n, d) + CeilDiv(p - cp, d)
        BY <1>1, <1>4, <2>0, <4>1
      <4> QED BY <3>2, <3>3, <3>5, <4>2
    <3> QED BY <3>6, <3>7
  <2>3. CASE cp \notin c + 1 .. p - 1
    <3>1. n = c + d /\ cp \notin n + 1 .. p - 1
      BY <1>1, <1>2, <1>5, <2>3
    <3>2. Steps(c) = CeilDiv(p - c, d) /\ Steps(n) = CeilDiv(p - n, d)
      BY <2>0, <2>3, <3>1
    <3>3. p - n \in Nat /\ (p - n) + d = p - c
      BY <1>1, <2>0, <3>1
    <3>4. CeilDiv(p - c, d) = CeilDiv(p - n, d) + 1 /\ CeilDiv(p - n, d) \in Nat
      BY <1>1, <3>3, CeilDivStep, CeilDivType
    <3> QED BY <3>2, <3>4
  <2> QED BY <2>1, <2>2, <2>3
<1> HIDE DEF Steps
<1> QED BY <1>3, <1>4, <1>5 DEF p, n

-----------------------------------------------------------------------------
(* Lane plans and the search for a lane.                                   *)

(* A prompt never reuses more than its own length.                         *)
LEMMA ReuseBaseType ==
  ASSUME TypeOK, NEW r \in 1 .. submitted, NEW l \in Lanes
  PROVE  ReuseBase(r, l) \in 0 .. shape[r].prompt /\ ReuseBase(r, l) # NoPlan
<1>1. shape[r].prompt \in Nat
  BY ShapeOf
<1>2. retained[l].frontier \in Nat /\ retained[l].checkpoint \in Nat
  BY DEF TypeOK
<1> QED BY <1>1, <1>2 DEF ReuseBase, NoPlan

(* ensure_lane_plan gives every free lane its current reuse base.          *)
LEMMA PlannedOf ==
  ASSUME TypeOK, PlansMatchLanes, NEW r \in 1 .. submitted
  PROVE  /\ Planned(r) \in [Lanes -> Nat \cup {NoPlan}]
         /\ \A l \in FreeLanes : /\ Planned(r)[l] = ReuseBase(r, l)
                                 /\ Planned(r)[l] \in 0 .. shape[r].prompt
                                 /\ Planned(r)[l] # NoPlan
<1>1. r \in Requests /\ shape[r].prompt \in Nat
  BY ShapeOf, SchedulerAssumption DEF Requests, TypeOK
<1>2. \A l \in Lanes : lane_plans[r][l] \in Nat \cup {NoPlan}
  BY <1>1 DEF TypeOK
<1>3. \A l \in Lanes : ReuseBase(r, l) \in 0 .. shape[r].prompt /\ ReuseBase(r, l) # NoPlan
  BY ReuseBaseType
<1>4. \A l \in FreeLanes : l \in Lanes
  BY DEF FreeLanes
<1> QED BY <1>1, <1>2, <1>3, <1>4 DEF Planned, PlansMatchLanes

(* There is a best lane: the longest reuse, then the lowest number.        *)
LEMMA BestLaneExists ==
  ASSUME TypeOK, PlansMatchLanes, NEW r \in 1 .. submitted,
         NEW lanes \in SUBSET FreeLanes, lanes # {}
  PROVE  BestLane(r, lanes) \in lanes
<1> DEFINE reuse == {Planned(r)[l] : l \in lanes}
<1>1. shape[r].prompt \in Nat
  BY ShapeOf
<1>2. reuse \subseteq 0 .. shape[r].prompt /\ reuse # {}
  BY PlannedOf
<1>3. PICK g \in reuse : \A h \in reuse : h <= g
  <2> HIDE DEF reuse
  <2> QED BY <1>1, <1>2, GreatestExists
<1> DEFINE best == {l \in lanes : Planned(r)[l] = g}
<1>4. best \subseteq Nat /\ best # {}
  <2>1. lanes \subseteq Nat
    BY SchedulerAssumption DEF FreeLanes, Lanes
  <2> QED BY <2>1, <1>3
<1>5. Min(best) \in best /\ \A m \in best : Min(best) <= m
  <2> HIDE DEF best
  <2> QED BY <1>4, LeastExists
<1>6. Min(best) \in lanes /\ Planned(r)[Min(best)] = g
  BY <1>5
<1>7. ASSUME NEW m \in lanes
      PROVE  \/ Planned(r)[Min(best)] > Planned(r)[m]
             \/ Planned(r)[Min(best)] = Planned(r)[m] /\ Min(best) <= m
  <2>1. Planned(r)[m] \in reuse /\ g \in Nat /\ Planned(r)[m] \in Nat
    BY <1>1, <1>2
  <2>2. Planned(r)[m] <= g
    BY <1>3, <2>1
  <2>3. CASE Planned(r)[m] = g
    <3>1. m \in best
      BY <2>3
    <3> QED BY <1>5, <1>6, <2>3, <3>1
  <2>4. CASE Planned(r)[m] # g
    <3> HIDE DEF reuse, best
    <3> QED BY <1>6, <2>1, <2>2, <2>4
  <2> QED BY <2>3, <2>4
<1> HIDE DEF best, reuse
<1> QED BY <1>6, <1>7 DEF BestLane

(* Entitlements of any set of lanes add up to a natural.                   *)
LEMMA EntitledType ==
  ASSUME TypeOK, NEW S \in SUBSET Lanes, NEW k \in PageKinds
  PROVE  /\ IsFiniteSet(S) /\ [l \in S |-> entitled[l][k]] \in [S -> Nat]
         /\ Total([l \in S |-> entitled[l][k]]) \in Nat
<1> DEFINE f == [l \in S |-> entitled[l][k]]
<1>1. IsFiniteSet(S)
  BY LanesFinite, FS_Subset
<1>2. f \in [S -> Nat]
  BY DEF TypeOK
<1> HIDE DEF f
<1>3. Total(f) \in Nat
  BY <1>1, <1>2, TotalIsNat
<1> QED BY <1>1, <1>2, <1>3 DEF f

(* Evicting more lanes leaves no less room.                                *)
LEMMA EvictionHelps ==
  ASSUME TypeOK, NEW r \in 1 .. submitted, Plannable(r), NEW l \in Lanes,
         NEW some \in SUBSET Lanes, NEW more \in SUBSET Lanes,
         some \subseteq more \cup {l}, CanAdmitWithout(r, l, some)
  PROVE  CanAdmitWithout(r, l, more)
<1> SUFFICES ASSUME NEW k \in PageKinds
             PROVE  Need(r)[k] + EntitledBut(more \cup {l}, k) <= PoolSize(k)
  BY DEF CanAdmitWithout
<1> DEFINE big == Lanes \ (some \cup {l})
           small == Lanes \ (more \cup {l})
           f == [m \in small |-> entitled[m][k]]
           g == [m \in big |-> entitled[m][k]]
<1>1. small \subseteq big /\ big \in SUBSET Lanes /\ small \in SUBSET Lanes
  OBVIOUS
<1>2. /\ IsFiniteSet(big) /\ f \in [small -> Nat] /\ g \in [big -> Nat]
      /\ Total(f) \in Nat /\ Total(g) \in Nat
      /\ \A m \in small : f[m] = g[m]
  <2> HIDE DEF big, small
  <2> QED BY <1>1, EntitledType
<1>3. EntitledBut(more \cup {l}, k) = Total(f) /\ EntitledBut(some \cup {l}, k) = Total(g)
  BY DEF EntitledBut
<1> HIDE DEF big, small, f, g
<1>4. Total(f) <= Total(g)
  BY <1>1, <1>2, TotalOfPart, Zenon
<1>5. Need(r)[k] + Total(g) <= PoolSize(k)
  BY <1>3 DEF CanAdmitWithout
<1>6. k \in Kinds /\ Need(r)[k] \in Nat /\ PoolSize(k) \in Nat
  BY NeedOf, CapacityType DEF PoolSize, Kinds, PageKinds
<1> QED BY <1>2, <1>3, <1>4, <1>5, <1>6

(* The loop of admit_planned_request evicts enough when all retained       *)
(* lanes together would be enough: it stops at the first lane before which *)
(* the request fits, or it has evicted them all.                           *)
LEMMA EvictionSuffices ==
  ASSUME TypeOK, NEW r \in 1 .. submitted, Plannable(r), NEW l \in FreeLanes,
         CanAdmitAfterEviction(r, l)
  PROVE  CanAdmitWithout(r, l, EvictedFor(r, l))
<1> DEFINE others == RetainedLanes \ {l}
           gone == EvictedFor(r, l)
           left == others \ gone
<1>1. others \subseteq Lanes /\ gone \subseteq others /\ l \in Lanes /\ RetainedLanes \subseteq Lanes
  BY DEF RetainedLanes, FreeLanes, EvictedFor
<1>2. \A o \in others : o \notin gone => CanAdmitWithout(r, l, {p \in others : p < o})
  BY DEF EvictedFor
<1>3. CASE left = {}
  <2>1. RetainedLanes \subseteq gone \cup {l}
    BY <1>3
  <2> HIDE DEF gone
  <2> QED BY <1>1, <2>1, EvictionHelps DEF CanAdmitAfterEviction, gone
<1>4. CASE left # {}
  <2>1. left \subseteq Nat
    <3>1. Lanes \subseteq Nat
      BY SchedulerAssumption DEF Lanes
    <3> HIDE DEF others, gone
    <3> QED BY <1>1, <3>1
  <2> DEFINE o == Min(left)
             before == {p \in others : p < o}
  <2>2. o \in left /\ \A p \in left : o <= p
    <3> HIDE DEF left
    <3> QED BY <1>4, <2>1, LeastExists
  <2>3. before \subseteq gone
    <3>1. \A p \in others : p \in Nat
      BY <1>1, SchedulerAssumption DEF Lanes
    <3> HIDE DEF o, gone, others
    <3> QED BY <2>1, <2>2, <3>1
  <2>4. CanAdmitWithout(r, l, before)
    BY <1>2, <2>2
  <2>5. before \in SUBSET Lanes /\ gone \in SUBSET Lanes /\ before \subseteq gone \cup {l}
    BY <1>1, <2>3
  <2> HIDE DEF before, gone
  <2> QED BY <1>1, <2>4, <2>5, EvictionHelps DEF gone
<1> QED BY <1>3, <1>4

(* find_admission_lane returns a free lane with a plan on which the        *)
(* request fits once the retained lanes it asks for are evicted.           *)
LEMMA LaneFound ==
  ASSUME TypeOK, PlansMatchLanes, NEW r \in 1 .. submitted, Plannable(r), HasLane(r)
  PROVE  LET f == FindAdmissionLane(r)
         IN  /\ f.lane \in FreeLanes /\ f.evict \in BOOLEAN
             /\ CanAdmitWithout(r, f.lane, IF f.evict THEN EvictedFor(r, f.lane) ELSE {})
<1>1. CASE FittingLanes(r) # {}
  <2> DEFINE l == BestLane(r, FittingLanes(r))
  <2>1. l \in FittingLanes(r)
    BY <1>1, BestLaneExists DEF FittingLanes
  <2>2. l \in FreeLanes /\ CanAdmitWithout(r, l, {})
    BY <2>1 DEF FittingLanes, CanAdmitLane
  <2>3. FindAdmissionLane(r) = [lane |-> l, evict |-> FALSE]
    BY <1>1 DEF FindAdmissionLane
  <2> HIDE DEF l
  <2> QED BY <2>2, <2>3
<1>2. CASE FittingLanes(r) = {}
  <2> DEFINE l == BestLane(r, EvictingLanes(r))
  <2>1. l \in EvictingLanes(r)
    BY <1>2, BestLaneExists DEF EvictingLanes, HasLane
  <2>2. l \in FreeLanes /\ CanAdmitAfterEviction(r, l)
    BY <2>1 DEF EvictingLanes
  <2>3. FindAdmissionLane(r) = [lane |-> l, evict |-> TRUE]
    BY <1>2 DEF FindAdmissionLane
  <2> HIDE DEF l
  <2>4. CanAdmitWithout(r, l, EvictedFor(r, l))
    BY <2>2, EvictionSuffices
  <2> QED BY <2>2, <2>3, <2>4
<1> QED BY <1>1, <1>2

-----------------------------------------------------------------------------
(* The order of completion, and the last donor.                            *)

(* Some request of a finite set finishes first and some finishes last.     *)
LEMMA FirstAndLastFinisher ==
  ASSUME NEW active, NEW n \in Nat, NEW D \in SUBSET (1 .. n), D # {},
         \A i \in D : active[i].work \in Nat
  PROVE  /\ \E d \in D : \A e \in D : FinishesBy(active, d, e)
         /\ \E d \in D : \A e \in D : FinishesBy(active, e, d)
<1> DEFINE f == [i \in D |-> active[i].work]
           works == {f[i] : i \in D}
<1>1. IsFiniteSet(D)
  BY IdsFinite
<1>2. f \in [D -> Nat]
  OBVIOUS
<1>3. \A i \in D : f[i] = active[i].work
  OBVIOUS
<1> HIDE DEF f
<1>4. works \subseteq 0 .. Total(f) /\ works # {} /\ Total(f) \in Nat
  <2>1. Total(f) \in Nat
    BY <1>1, <1>2, TotalIsNat
  <2>2. \A i \in D : f[i] <= Total(f)
    BY <1>1, <1>2, ValueWithinTotal
  <2>3. \A i \in D : f[i] \in 0 .. Total(f)
    BY <1>2, <2>1, <2>2
  <2> QED BY <2>1, <2>3
<1>5. \E d \in D : \A e \in D : FinishesBy(active, d, e)
  <2> DEFINE w == Min(works)
             least == {i \in D : f[i] = w}
  <2>1. w \in works /\ \A v \in works : w <= v
    <3>1. works \subseteq Nat
      BY <1>2
    <3> HIDE DEF works
    <3> QED BY <1>4, <3>1, LeastExists
  <2>2. least \subseteq Nat /\ least # {}
    <3>1. PICK i \in D : w = f[i]
      BY <2>1
    <3>2. i \in least /\ least \subseteq D /\ D \subseteq 0 .. n
      BY <3>1
    <3> HIDE DEF least
    <3> QED BY <3>2
  <2>3. Min(least) \in least /\ \A i \in least : Min(least) <= i
    <3> HIDE DEF least
    <3> QED BY <2>2, LeastExists
  <2>4. ASSUME NEW e \in D PROVE FinishesBy(active, Min(least), e)
    <3>1. Min(least) \in D /\ f[Min(least)] = w
      BY <2>3
    <3>2. f[e] \in Nat /\ w <= f[e] /\ w \in Nat
      BY <1>2, <2>1
    <3>3. f[e] = w => e \in least
      OBVIOUS
    <3>4. active[e].work = f[e] /\ active[Min(least)].work = w
      BY <1>3, <3>1
    <3>5. f[e] = w => Min(least) <= e
      BY <2>3, <3>3
    <3> HIDE DEF least, w
    <3> QED BY <3>2, <3>4, <3>5 DEF FinishesBy
  <2>5. Min(least) \in D
    BY <2>3
  <2> QED BY <2>4, <2>5
<1>6. \E d \in D : \A e \in D : FinishesBy(active, e, d)
  <2>1. PICK w \in works : \A v \in works : v <= w
    <3> HIDE DEF works
    <3> QED BY <1>4, GreatestExists
  <2> DEFINE most == {i \in D : f[i] = w}
  <2>2. most \subseteq 0 .. n /\ most # {}
    <3>1. PICK i \in D : w = f[i]
      BY <2>1
    <3>2. i \in most /\ most \subseteq D /\ D \subseteq 0 .. n
      BY <3>1
    <3> HIDE DEF most
    <3> QED BY <3>2
  <2>3. PICK d \in most : \A i \in most : i <= d
    <3> HIDE DEF most
    <3> QED BY <2>2, GreatestExists
  <2>4. ASSUME NEW e \in D PROVE FinishesBy(active, e, d)
    <3>1. d \in D /\ f[d] = w
      BY <2>3
    <3>2. f[e] \in Nat /\ f[e] <= w /\ w \in Nat
      BY <1>2, <2>1
    <3>3. f[e] = w => e \in most
      OBVIOUS
    <3> HIDE DEF most
    <3> QED BY <1>3, <2>3, <3>1, <3>2, <3>3 DEF FinishesBy
  <2>5. d \in D
    BY <2>3
  <2> QED BY <2>4, <2>5
<1> QED BY <1>5, <1>6

(* Nobody needs nothing.                                                   *)
LEMMA NeedOverNobody == \A k \in Kinds : NeedOver({})[k] = 0
<1>1. \A k \in Kinds : Units([i \in {} |-> Need(i)[k]]) = {}
  BY DEF Units
<1>2. \A k \in Kinds : Total([i \in {} |-> Need(i)[k]]) = 0
  BY <1>1, FS_EmptySet DEF Total
<1> QED BY <1>2 DEF NeedOver

(* The projected work of active requests is a natural.                     *)
LEMMA WorkOfActive ==
  TypeOK /\ OneStagedPrefill =>
      /\ \A r \in ActiveIds : ActiveSet[r].work \in Nat
      /\ submitted \in Nat /\ ActiveIds \in SUBSET (1 .. submitted)
<1> SUFFICES ASSUME TypeOK, OneStagedPrefill
             PROVE  /\ \A r \in ActiveIds : ActiveSet[r].work \in Nat
                    /\ submitted \in Nat /\ ActiveIds \in SUBSET (1 .. submitted)
  OBVIOUS
<1>1. submitted \in Nat /\ \A l \in Lanes : slots[l].work \in Nat
  BY SchedulerAssumption DEF TypeOK, SlotRecords
<1>2. ActiveIds \in SUBSET (1 .. submitted) /\ ActiveLanes \subseteq Lanes
  BY ActiveIffId
<1> QED BY <1>1, <1>2, SnapshotOf DEF ActiveIds

(* make_admission_protection finds a donor whose release, with all who     *)
(* finish before, makes room for a head that fits alone; it is the first.  *)
LEMMA LastDonorExists ==
  ASSUME TypeOK, OneStagedPrefill, ActiveIds # {},
         NEW head \in [Kinds -> Nat], Fits(head, AdmissionCapacity)
  PROVE  LET last == LastDonor(head, ActiveSet, AdmissionCapacity)
         IN  /\ last \in ActiveIds
             /\ RoomBeside(head, ActiveIds \ FrontierUpTo(ActiveSet, last))
             /\ \A e \in ActiveIds :
                   RoomBeside(head, ActiveIds \ FrontierUpTo(ActiveSet, e)) =>
                       FinishesBy(ActiveSet, last, e)
<1> DEFINE enough == {d \in ActiveIds :
                        RoomBeside(head, ActiveIds \ FrontierUpTo(ActiveSet, d))}
           sufficient == {d \in DOMAIN ActiveSet :
                            Fits(AddResources(head,
                                   TotalOf(ActiveSet,
                                           DOMAIN ActiveSet \ FrontierUpTo(ActiveSet, d))),
                                 AdmissionCapacity)}
<1>1. DOMAIN ActiveSet = ActiveIds
  BY SnapshotOf
<1>2. enough = sufficient
  <2>1. ASSUME NEW d
        PROVE  Fits(AddResources(head, TotalOf(ActiveSet,
                                          ActiveIds \ FrontierUpTo(ActiveSet, d))),
                    AdmissionCapacity)
                 <=> RoomBeside(head, ActiveIds \ FrontierUpTo(ActiveSet, d))
    BY FitsIsRoom
  <2> QED BY <1>1, <2>1
<1>3. enough # {}
  <2>1. PICK d \in ActiveIds : \A e \in ActiveIds : FinishesBy(ActiveSet, e, d)
    BY WorkOfActive, FirstAndLastFinisher
  <2>2. ActiveIds \ FrontierUpTo(ActiveSet, d) = {}
    BY <1>1, <2>1 DEF FrontierUpTo
  <2>3. RoomBeside(head, {})
    <3>1. \A k \in Kinds : head[k] + NeedOver({})[k] = head[k]
      BY NeedOverNobody
    <3> QED BY <3>1 DEF RoomBeside, Fits
  <2> QED BY <2>2, <2>3
<1>4. \E d \in enough : \A e \in enough : FinishesBy(ActiveSet, d, e)
  <2>1. enough \subseteq ActiveIds
    OBVIOUS
  <2> HIDE DEF enough
  <2>2. enough \in SUBSET (1 .. submitted) /\ \A i \in enough : ActiveSet[i].work \in Nat
    BY <2>1, WorkOfActive
  <2> QED BY <1>3, <2>2, WorkOfActive, FirstAndLastFinisher
<1> DEFINE last == LastDonor(head, ActiveSet, AdmissionCapacity)
<1>5. last = CHOOSE d \in sufficient : \A e \in sufficient : FinishesBy(ActiveSet, d, e)
  BY DEF LastDonor
<1> HIDE DEF enough, sufficient, last
<1>6. last \in enough /\ \A e \in enough : FinishesBy(ActiveSet, last, e)
  BY <1>2, <1>4, <1>5
<1> QED BY <1>6 DEF enough, last

(* A projected completion order that no set of donors can beat: the        *)
(* greatest member of any sufficient set is a sufficient frontier itself.  *)
LEMMA NoEarlierFrontier ==
  ASSUME TypeOK, OneStagedPrefill, LaneProgress, NEW head \in [Kinds -> Nat],
         ProtectionAllowed(head, ActiveSet, AdmissionCapacity),
         NEW D \in SUBSET ActiveIds, RoomBeside(head, ActiveIds \ D)
  PROVE  \E d \in D :
            ActiveSet[d].work >= ActiveSet[LastDonor(head, ActiveSet, AdmissionCapacity)].work
<1> DEFINE last == LastDonor(head, ActiveSet, AdmissionCapacity)
<1>1. DOMAIN ActiveSet = ActiveIds /\ \A i \in ActiveIds : Plannable(i)
  BY SnapshotOf DEF LaneProgress, ProgressOf, Runnable, ActiveIds
<1>2. ActiveIds # {} /\ Fits(head, AdmissionCapacity) /\ ~ RoomBeside(head, ActiveIds)
  BY <1>1, FitsIsRoom DEF ProtectionAllowed
<1>3. D # {}
  <2>1. ActiveIds \ {} = ActiveIds
    OBVIOUS
  <2> QED BY <1>2, <2>1
<1>4. PICK d \in D : \A e \in D : FinishesBy(ActiveSet, e, d)
  <2>1. D \in SUBSET (1 .. submitted) /\ \A i \in D : ActiveSet[i].work \in Nat
    BY WorkOfActive
  <2> QED BY <1>3, <2>1, WorkOfActive, FirstAndLastFinisher
<1> DEFINE few == ActiveIds \ FrontierUpTo(ActiveSet, d)
           many == ActiveIds \ D
<1>5. few \subseteq many /\ many \subseteq ActiveIds
  BY <1>1, <1>4 DEF FrontierUpTo
<1>6. RoomBeside(head, few)
  <2>1. RoomBeside(head, many)
    OBVIOUS
  <2> HIDE DEF few, many
  <2>2. /\ many \in SUBSET (1 .. submitted) /\ few \in SUBSET many
        /\ few \in SUBSET (1 .. submitted)
        /\ \A i \in many : Plannable(i)
    BY <1>1, <1>5, WorkOfActive
  <2>3. \A k \in Kinds : /\ NeedOver(few)[k] \in Nat /\ NeedOver(many)[k] \in Nat
                         /\ NeedOver(few)[k] <= NeedOver(many)[k]
    BY <1>5, <2>2, NeedOverPart, NeedOverType
  <2>4. \A k \in Kinds : head[k] \in Nat /\ AdmissionCapacity[k] \in Nat
    BY CapacityType
  <2> QED BY <2>1, <2>3, <2>4 DEF RoomBeside
<1>7. FinishesBy(ActiveSet, last, d) /\ last \in ActiveIds
  BY <1>2, <1>6, LastDonorExists
<1>8. ActiveSet[d].work \in Nat /\ ActiveSet[last].work \in Nat
  BY <1>7, WorkOfActive
<1> HIDE DEF last
<1>9. ActiveSet[d].work >= ActiveSet[last].work
  BY <1>7, <1>8 DEF FinishesBy
<1> QED BY <1>9 DEF last

-----------------------------------------------------------------------------
(* What follows from the inductive invariant.                              *)

(* The earliest sufficient frontier.                                       *)
LEMMA FrontierFollows == IInv => FrontierIsEarliest
<1> SUFFICES ASSUME TypeOK, OneStagedPrefill, LaneProgress, NEW pages \in 1 .. MainPages,
                    NEW head, head = [active_lanes |-> 1, main_kv_pages |-> pages,
                                      backend_kv_pages |-> Min({pages, BackendPages})],
                    ProtectionAllowed(head, ActiveSet, AdmissionCapacity)
             PROVE  LET last == LastDonor(head, ActiveSet, AdmissionCapacity)
                        Releases(D) ==
                          Fits(AddResources(head, TotalOf(ActiveSet, ActiveIds \ D)),
                               AdmissionCapacity)
                    IN  /\ Releases(FrontierUpTo(ActiveSet, last))
                        /\ \A D \in SUBSET ActiveIds :
                              Releases(D) => \E d \in D : ActiveSet[d].work >= ActiveSet[last].work
  BY DEF IInv, FrontierIsEarliest, MakeAdmissionProtection
<1>1. head \in [Kinds -> Nat]
  <2>1. pages \in Nat /\ BackendPages \in Nat
    BY SchedulerAssumption
  <2>2. Min({pages, BackendPages}) \in Nat
    BY <2>1, MinOfTwo
  <2> QED BY <2>1, <2>2 DEF Kinds
<1>2. ActiveIds # {} /\ Fits(head, AdmissionCapacity)
  BY SnapshotOf DEF ProtectionAllowed
<1>3. ASSUME NEW D
      PROVE  Fits(AddResources(head, TotalOf(ActiveSet, ActiveIds \ D)), AdmissionCapacity)
               <=> RoomBeside(head, ActiveIds \ D)
  BY FitsIsRoom
<1> QED BY <1>1, <1>2, <1>3, LastDonorExists, NoEarlierFrontier

(* If the free resources that the policy computes from the requests are    *)
(* enough for r, the target finds it a lane: the two accounts agree.       *)
LEMMA RoomMeansLane ==
  ASSUME TypeOK, OneStagedPrefill, LaneProgress, PoolsNeverOvercommitted,
         NEW r \in 1 .. submitted, Runnable(r), RoomBeside(Need(r), ActiveIds)
  PROVE  HasLane(r)
<1> DEFINE idOf == [l \in ActiveLanes |-> slots[l].id]
<1>1. /\ ActiveLanes \subseteq Lanes /\ IsFiniteSet(ActiveIds)
      /\ idOf \in [ActiveLanes -> ActiveIds]
      /\ \A l, m \in ActiveLanes : idOf[l] = idOf[m] => l = m
  <2>1. IsFiniteSet(ActiveIds)
    BY WorkOfActive, IdsFinite
  <2> QED BY <2>1, ActiveIffId DEF OneStagedPrefill
<1>2. ActiveIds \in SUBSET (1 .. submitted) /\ \A i \in ActiveIds : Plannable(i)
  BY WorkOfActive DEF LaneProgress, ProgressOf, Runnable, ActiveIds
<1>3. Need(r) \in [Kinds -> Nat] /\ Need(r)["active_lanes"] = 1
  BY NeedOf DEF Runnable
<1>4. PICK l \in FreeLanes : TRUE
  <2> SUFFICES ASSUME FreeLanes = {} PROVE FALSE
    OBVIOUS
  <2>1. ActiveLanes = Lanes
    BY DEF ActiveLanes
  <2>2. idOf \in Injection(Lanes, ActiveIds)
    BY <1>1, <2>1 DEF Injection, IsInjective
  <2> DEFINE f == [i \in ActiveIds |-> Need(i)["active_lanes"]]
  <2>3. "active_lanes" \in Kinds
    BY DEF Kinds
  <2>4. f \in [ActiveIds -> Nat] /\ \A i \in ActiveIds : f[i] >= 1
    BY <1>2, <2>3, NeedOf
  <2>5. NeedOver(ActiveIds)["active_lanes"] = Total(f)
    BY <2>3 DEF NeedOver
  <2> HIDE DEF idOf, f
  <2>6. Cardinality(Lanes) <= Cardinality(ActiveIds)
    BY <1>1, <2>2, FS_Injection
  <2>7. Cardinality(ActiveIds) <= Total(f)
    BY <1>1, <2>4, CountWithinTotal
  <2>8. 1 + Total(f) <= MaxConcurrency
    <3>1. AdmissionCapacity["active_lanes"] = MaxConcurrency
      BY DEF AdmissionCapacity
    <3> QED BY <1>3, <2>3, <2>5, <3>1 DEF RoomBeside
  <2>9. Total(f) \in Nat /\ Cardinality(ActiveIds) \in Nat
    BY <1>1, <2>4, TotalIsNat, FS_CardinalityType
  <2> QED BY <2>6, <2>7, <2>8, <2>9, LanesFinite, SchedulerAssumption
<1>5. ASSUME NEW k \in PageKinds
      PROVE  Need(r)[k] + EntitledBut(RetainedLanes \cup {l}, k) <= PoolSize(k)
  <2> DEFINE rest == Lanes \ (RetainedLanes \cup {l})
             all == [m \in rest |-> entitled[m][k]]
             busy == [m \in ActiveLanes |-> entitled[m][k]]
             need == [i \in ActiveIds |-> Need(i)[k]]
  <2>1. ActiveLanes \subseteq rest /\ rest \in SUBSET Lanes
    BY DEF ActiveLanes, FreeLanes, RetainedLanes
  <2>2. \A m \in rest \ ActiveLanes : entitled[m][k] = 0
    BY DEF ActiveLanes, RetainedLanes, PoolsNeverOvercommitted, NoPages
  <2>3. /\ all \in [rest -> Nat] /\ Total(all) \in Nat
        /\ busy \in [ActiveLanes -> Nat] /\ Total(busy) \in Nat
    <3> HIDE DEF rest
    <3> QED BY <1>1, <2>1, EntitledType
  <2>4. /\ \A m \in ActiveLanes : busy[m] = all[m]
        /\ \A m \in rest \ ActiveLanes : all[m] = 0
    <3> HIDE DEF rest
    <3> QED BY <2>1, <2>2
  <2>5. k \in Kinds
    BY DEF PageKinds, Kinds
  <2>6. need \in [ActiveIds -> Nat] /\ Total(need) = NeedOver(ActiveIds)[k] /\ Total(need) \in Nat
    BY <1>2, <2>5, NeedOverType
  <2>7. \A m \in ActiveLanes : busy[m] <= need[idOf[m]]
    <3>1. ASSUME NEW m \in ActiveLanes PROVE busy[m] <= need[idOf[m]]
      <4>1. entitled[m][k] = Need(slots[m].id)[k] /\ slots[m].id \in ActiveIds
        BY DEF PoolsNeverOvercommitted, ActiveIds
      <4>2. busy[m] = entitled[m][k] /\ need[idOf[m]] = Need(slots[m].id)[k]
        BY <4>1
      <4> QED BY <2>3, <4>1, <4>2
    <3> QED BY <3>1
  <2>8. EntitledBut(RetainedLanes \cup {l}, k) = Total(all)
    BY DEF EntitledBut
  <2> HIDE DEF rest, all, busy, need, idOf
  <2>9. Total(busy) = Total(all)
    BY <2>1, <2>3, <2>4, TotalSupport
  <2>10. Total(busy) <= Total(need)
    BY <1>1, <2>3, <2>6, <2>7, TotalInjected
  <2>11. Need(r)[k] + Total(need) <= PoolSize(k) /\ Need(r)[k] \in Nat /\ PoolSize(k) \in Nat
    BY <1>3, <2>5, <2>6, CapacityType DEF RoomBeside, PoolSize
  <2> QED BY <2>3, <2>6, <2>8, <2>9, <2>10, <2>11
<1>6. CanAdmitAfterEviction(r, l)
  BY <1>5 DEF CanAdmitAfterEviction, CanAdmitWithout
<1> QED BY <1>4, <1>6 DEF HasLane, EvictingLanes

(* A blocked head waits for somebody, and not for its own account.         *)
LEMMA BlockedBySomebody ==
  ASSUME TypeOK, OneStagedPrefill, LaneProgress, PoolsNeverOvercommitted,
         NEW r \in 1 .. submitted, Runnable(r), ~ HasLane(r)
  PROVE  ActiveIds # {} /\ ~ RoomBeside(Need(r), ActiveIds)
<1>1. ~ RoomBeside(Need(r), ActiveIds)
  BY RoomMeansLane
<1>2. RoomBeside(Need(r), {})
  <2>1. \A k \in Kinds : Need(r)[k] + NeedOver({})[k] = Need(r)[k]
    BY NeedOf, NeedOverNobody DEF Runnable
  <2> QED BY <2>1 DEF Runnable, RoomBeside, Fits
<1> QED BY <1>1, <1>2

(* The least waiting request is one of them.                               *)
LEMMA HeadWaits ==
  TypeOK /\ pending # {} =>
      /\ QueueHead \in pending /\ QueueHead \in 1 .. submitted
      /\ \A q \in pending : QueueHead <= q
<1> SUFFICES ASSUME TypeOK, pending # {}
             PROVE  /\ QueueHead \in pending /\ QueueHead \in 1 .. submitted
                    /\ \A q \in pending : QueueHead <= q
  OBVIOUS
<1>1. pending \subseteq 1 .. submitted /\ pending \subseteq Nat
  BY SchedulerAssumption DEF TypeOK
<1> QED BY <1>1, LeastExists DEF QueueHead

(* The next candidate of the scan is a waiting request.                    *)
LEMMA NextQueuedWaits ==
  TypeOK /\ queued # {} => NextQueued \in queued /\ NextQueued \in pending
                           /\ NextQueued \in 1 .. submitted
<1> SUFFICES ASSUME TypeOK, queued # {}
             PROVE  /\ NextQueued \in queued /\ NextQueued \in pending
                    /\ NextQueued \in 1 .. submitted
  OBVIOUS
<1>1. queued \subseteq pending /\ pending \subseteq 1 .. submitted /\ queued \subseteq Nat
  BY SchedulerAssumption DEF TypeOK
<1> QED BY <1>1, LeastExists DEF NextQueued

(* A request that try_admit_one does not drop can be run.                  *)
LEMMA RunnableIffKept ==
  ASSUME NEW r \in 1 .. submitted, ~ MustDrop(r)
  PROVE  Runnable(r)
BY DEF MustDrop, Runnable

(* The checks of the admission path hold wherever IInv does.               *)
LEMMA NoFaultFollows == IInv => AdmissionNeverFaults
<1> SUFFICES ASSUME IInv PROVE AdmissionNeverFaults
  OBVIOUS
<1> USE DEF IInv
<1>1. ASSUME pc = "admit", pending # {}, ~ MustDrop(QueueHead), ~ HasLane(QueueHead)
      PROVE  /\ ActiveIds # {}
             /\ ProtectionAllowed(Need(QueueHead), ActiveSet, AdmissionCapacity)
  <2> DEFINE r == QueueHead
  <2>1. r \in 1 .. submitted /\ Runnable(r)
    BY <1>1, HeadWaits, RunnableIffKept
  <2> HIDE DEF r
  <2>2. ActiveIds # {} /\ ~ RoomBeside(Need(r), ActiveIds)
    BY <1>1, <2>1, BlockedBySomebody DEF r
  <2>3. DOMAIN ActiveSet = ActiveIds
    BY SnapshotOf
  <2>4. ASSUME NEW i \in ActiveIds PROVE ActiveSet[i].work > 0
    <3>1. PICK l \in ActiveLanes : i = slots[l].id
      BY DEF ActiveIds
    <3>2. slots[l].ready
      <4>1. prefill_lane = 0 /\ l # 0
        BY <1>1, ActiveIffId DEF ControlState, Lanes
      <4> QED BY <1>1, <4>1 DEF OneStagedPrefill
    <3>3. slots[l].budget \in Nat /\ slots[l].work \in Nat
      BY ActiveIffId DEF TypeOK, SlotRecords
    <3>4. slots[l].work > 0
      BY <3>2, <3>3 DEF ServiceWorkSuffices
    <3> QED BY <3>1, <3>4, SnapshotOf
  <2>5. ~ Fits(AddResources(Need(r), TotalOf(ActiveSet, ActiveIds)), AdmissionCapacity)
    BY <2>2, FitsIsRoom
  <2>6. Fits(Need(r), AdmissionCapacity)
    BY <2>1 DEF Runnable
  <2> QED BY <2>2, <2>3, <2>4, <2>5, <2>6 DEF ProtectionAllowed, r
<1>2. ASSUME pc = "admitting"
      PROVE  LET r == choice.id
                 l == choice.lane
             IN  /\ r \in pending /\ l \in FreeLanes /\ lane_plans[r][l] # NoPlan
                 /\ CanAdmitWithout(r, l, IF choice.evict THEN EvictedFor(r, l) ELSE {})
                 /\ choice.class = "Temporal" =>
                       /\ protection.epoch = choice.epoch
                       /\ ProjectedServiceWork(r, lane_plans[r][l]) <= protection.credit
  BY <1>2 DEF ChoiceStands
<1> QED BY <1>1, <1>2 DEF AdmissionNeverFaults

(* With the donors gone and no temporal borrower left, whoever is active   *)
(* is a keeper.                                                            *)
LEMMA ReservationFollows == IInv => HeadKeepsItsReservation
<1> SUFFICES ASSUME IInv, protection.head # 0
             PROVE  /\ pending # {} /\ QueueHead = protection.head /\ Reserved
                    /\ (\A r \in ActiveIds :
                           /\ r \notin protection.donors
                           /\ ActiveSet[r].class = "Temporal" =>
                                 ActiveSet[r].epoch # protection.epoch)
                          => Fits(AddResources(protection.resources,
                                     TotalOf(ActiveSet, ActiveIds)), AdmissionCapacity)
  BY DEF HeadKeepsItsReservation, Reserved
<1> USE DEF IInv
<1>1. pending # {} /\ QueueHead = protection.head /\ Reserved
  BY DEF HeadProtected, Reserved
<1>2. ASSUME \A r \in ActiveIds : /\ r \notin protection.donors
                                  /\ ActiveSet[r].class = "Temporal" =>
                                        ActiveSet[r].epoch # protection.epoch
      PROVE  Keepers(protection, ActiveSet) = ActiveIds
  <2>1. ASSUME NEW l \in ActiveLanes PROVE KeptBy(protection, slots[l])
    <3>1. slots[l].id \in ActiveIds /\ l \in Lanes
      BY ActiveIffId
    <3>2. slots[l].class \in Classes
      BY <3>1 DEF TypeOK, SlotRecords
    <3>3. slots[l].id \notin protection.incumbents =>
             slots[l].epoch = protection.epoch /\ slots[l].class # "None"
      BY DEF HeadProtected
    <3> QED BY <1>2, <3>1, <3>2, <3>3, SnapshotOf DEF KeptBy, Classes
  <2>2. KeptIds(protection) = ActiveIds
    BY <2>1 DEF KeptIds, ActiveIds
  <2> QED BY <2>2, KeepersAreKept
<1> QED BY <1>1, <1>2 DEF Reserved

-----------------------------------------------------------------------------
(* What a step has to keep, part by part.                                  *)

(* Requests are numbered by naturals.                                      *)
LEMMA SubmittedIsNat == TypeOK => submitted \in Nat /\ Requests \subseteq Nat
BY SchedulerAssumption DEF TypeOK, Requests

(* Plans may be dropped, and filled in for free lanes that stay as they    *)
(* are.                                                                    *)
LEMMA PlansKept ==
  ASSUME TypeOK, PlansMatchLanes, NoEarlyPlans, RequestsStay, submitted' \in Nat,
         submitted <= submitted',
         lane_plans' \in [Requests -> [Lanes -> Nat \cup {NoPlan}]],
         \A r \in Requests, l \in Lanes :
             \/ lane_plans'[r][l] = NoPlan
             \/ /\ \/ lane_plans'[r][l] = lane_plans[r][l]
                   \/ r \in 1 .. submitted /\ lane_plans'[r][l] = ReuseBase(r, l)
                /\ l \in FreeLanes' => l \in FreeLanes /\ retained'[l] = retained[l]
  PROVE  PlansMatchLanes' /\ NoEarlyPlans'
<1>0. submitted \in Nat /\ Requests \subseteq Nat
  BY SubmittedIsNat
<1>1. ASSUME NEW r \in Requests, r > submitted, NEW l \in Lanes
      PROVE  lane_plans'[r][l] = NoPlan
  <2>1. lane_plans[r][l] = NoPlan /\ r \notin 1 .. submitted
    BY <1>0, <1>1 DEF NoEarlyPlans, NoPlans
  <2> QED BY <2>1
<1>2. NoEarlyPlans'
  <2> SUFFICES ASSUME NEW r \in Requests, r > submitted' PROVE lane_plans'[r] = NoPlans'
    BY DEF NoEarlyPlans
  <2>1. r > submitted
    BY <1>0
  <2>2. \A l \in Lanes : lane_plans'[r][l] = NoPlan
    BY <1>1, <2>1
  <2>3. lane_plans'[r] = [l \in Lanes |-> lane_plans'[r][l]]
    OBVIOUS
  <2> QED BY <2>2, <2>3 DEF NoPlans
<1>3. ASSUME NEW r \in Requests, NEW l \in FreeLanes', lane_plans'[r][l] # NoPlan
      PROVE  lane_plans'[r][l] = ReuseBase(r, l)'
  <2>1. l \in Lanes
    BY DEF FreeLanes
  <2>2. r \in 1 .. submitted
    <3>1. ~ (r > submitted)
      BY <1>1, <1>3, <2>1
    <3> QED BY <1>0, <3>1 DEF Requests
  <2>3. l \in FreeLanes /\ retained'[l] = retained[l]
    BY <1>3, <2>1
  <2>4. lane_plans'[r][l] = ReuseBase(r, l)
    BY <1>3, <2>1, <2>3 DEF PlansMatchLanes
  <2>5. shape'[r] = shape[r]
    BY <2>2 DEF RequestsStay
  <2> QED BY <2>3, <2>4, <2>5 DEF ReuseBase
<1>4. PlansMatchLanes'
  BY <1>3 DEF PlansMatchLanes
<1> QED BY <1>2, <1>4

(* A step that leaves the lanes alone.                                     *)
LEMMA LanesAlone ==
  ASSUME UNCHANGED laneVars
  PROVE  /\ FreeLanes' = FreeLanes /\ ActiveLanes' = ActiveLanes /\ ActiveIds' = ActiveIds
         /\ RetainedLanes' = RetainedLanes /\ Membership' = Membership
         /\ LanesOnlyLeave
BY DEF laneVars, FreeLanes, ActiveLanes, ActiveIds, RetainedLanes, Membership, MembershipIn,
       LanesOnlyLeave

(* A step that leaves the lanes alone keeps what is said of them.          *)
LEMMA LanesAloneKeep ==
  ASSUME TypeOK, LaneProgress, ServiceWorkSuffices, PoolsNeverOvercommitted,
         RequestsStay, UNCHANGED laneVars
  PROVE  LaneProgress' /\ ServiceWorkSuffices' /\ PoolsNeverOvercommitted'
<1>1. ActiveLanes' = ActiveLanes /\ FreeLanes' = FreeLanes
  BY LanesAlone
<1>2. ASSUME NEW l \in ActiveLanes
      PROVE  LET r == slots[l].id
             IN  /\ r \in 1 .. submitted /\ shape'[r] = shape[r] /\ Need(r)' = Need(r)
                 /\ EffectiveOutput(r)' = EffectiveOutput(r)
                 /\ Runnable(r)'
                 /\ \A c : StepsLeft(r, c)' = StepsLeft(r, c)
  <2>1. slots[l].id \in 1 .. submitted /\ Runnable(slots[l].id)
    BY ActiveIffId DEF LaneProgress, ProgressOf
  <2>2. shape'[slots[l].id] = shape[slots[l].id]
    BY <2>1 DEF RequestsStay
  <2>3. ASSUME NEW r \in 1 .. submitted, Runnable(r), shape'[r] = shape[r]
        PROVE  /\ Need(r)' = Need(r) /\ EffectiveOutput(r)' = EffectiveOutput(r)
               /\ Runnable(r)' /\ \A c : StepsLeft(r, c)' = StepsLeft(r, c)
    BY <2>3, PlanStays, NeedStays
  <2>4. slots' = slots
    BY DEF laneVars
  <2> QED BY <2>1, <2>2, <2>3, <2>4
<1>3. slots' = slots /\ retained' = retained /\ entitled' = entitled
  BY DEF laneVars
<1>4. LaneProgress'
  <2> SUFFICES ASSUME NEW l \in ActiveLanes PROVE ProgressOf(slots[l])'
    BY <1>1 DEF LaneProgress
  <2>1. ProgressOf(slots[l])
    BY DEF LaneProgress
  <2> QED BY <1>2, <1>3, <2>1 DEF ProgressOf
<1>5. ServiceWorkSuffices'
  BY <1>1, <1>2, <1>3 DEF ServiceWorkSuffices
<1>6. PoolsNeverOvercommitted'
  <2>1. AdmissionCapacity' = AdmissionCapacity
    BY DEF AdmissionCapacity
  <2>2. \A l \in ActiveLanes' : \A k \in PageKinds : entitled'[l][k] = Need(slots[l].id)'[k]
    BY <1>1, <1>2, <1>3 DEF PoolsNeverOvercommitted
  <2> QED BY <1>1, <1>3, <2>1, <2>2 DEF PoolsNeverOvercommitted, NoPages
<1> QED BY <1>4, <1>5, <1>6

(* The head of the queue stays when it stays in the queue and nobody is    *)
(* put before it.                                                          *)
LEMMA HeadStays ==
  ASSUME TypeOK, TypeOK', pending # {}, QueueHead \in pending',
         \A q \in pending' : q \in pending \/ q > submitted
  PROVE  pending' # {} /\ QueueHead' = QueueHead
<1>1. QueueHead \in 1 .. submitted /\ \A q \in pending : QueueHead <= q
  BY HeadWaits
<1>2. submitted \in Nat
  BY SubmittedIsNat
<1>3. (TypeOK /\ pending # {} => /\ QueueHead \in pending /\ QueueHead \in 1 .. submitted
                                 /\ \A q \in pending : QueueHead <= q)'
  BY HeadWaits, PTL
<1>4. QueueHead' \in pending' /\ QueueHead' <= QueueHead /\ QueueHead' \in Int
  BY <1>3
<1>5. QueueHead <= QueueHead'
  BY <1>1, <1>2, <1>4
<1> QED BY <1>1, <1>4, <1>5

(* Without a protection nothing is promised.                               *)
LEMMA ProtectionCleared ==
  ASSUME protection' = NoProtection
  PROVE  HeadProtected'
BY DEF HeadProtected, NoProtection

(* A protection survives a step in which lanes only become free.           *)
LEMMA ProtectionStays ==
  ASSUME IInv, RequestsStay, TypeOK', OneStagedPrefill', LanesOnlyLeave, SameReservation,
         protection'.head = protection.head, protection.incumbents \cap pending' = {},
         protection.head # 0 => pending' # {} /\ QueueHead' = QueueHead
  PROVE  HeadProtected'
<1> USE DEF IInv
<1>1. CASE protection.head = 0
  BY <1>1 DEF HeadProtected, SameReservation
<1>2. CASE protection.head # 0
  <2>1. Reserved /\ QueueHead = protection.head
    BY <1>2 DEF HeadProtected, Reserved
  <2>2. Reserved'
    BY <2>1, ReservedStays
  <2>3. \A l \in ActiveLanes' : slots'[l].id \notin protection'.incumbents =>
           slots'[l].epoch = protection'.epoch /\ slots'[l].class # "None"
    BY <1>2 DEF HeadProtected, LanesOnlyLeave, SameReservation
  <2> QED BY <1>2, <2>1, <2>2, <2>3 DEF HeadProtected, Reserved, SameReservation
<1> QED BY <1>1, <1>2

(* A persistent backfill is safe if the head and the candidate fit beside  *)
(* the keepers.                                                            *)
LEMMA SafeIsRoom ==
  TypeOK /\ OneStagedPrefill =>
      \A more : PersistentBackfillIsSafe(protection, ActiveSet, more, AdmissionCapacity)
                  <=> \A k \in Kinds : protection.resources[k] +
                          (more[k] + NeedOver(KeptIds(protection))[k]) <= AdmissionCapacity[k]
BY KeepersAreKept, TotalOfActive
DEF PersistentBackfillIsSafe, Fits, AddResources, NeedOver

(* A choice stands while the lanes, the plans and the protection do.       *)
LEMMA ChoiceStays ==
  ASSUME IInv, RequestsStay, TypeOK', OneStagedPrefill',
         UNCHANGED <<pc, laneVars, lane_plans, policyVars, choice>>,
         pending \subseteq pending', pending # {} => QueueHead' = QueueHead
  PROVE  ChoiceStands'
<1> USE DEF IInv
<1> SUFFICES ASSUME pc = "admitting" PROVE ChoiceStands'
  BY DEF ChoiceStands
<1> DEFINE r == choice.id
           l == choice.lane
<1>1. /\ r \in pending /\ l \in FreeLanes /\ lane_plans[r][l] # NoPlan /\ Runnable(r)
      /\ r \in 1 .. submitted
  BY DEF ChoiceStands, Runnable
<1>2. /\ Need(r)' = Need(r) /\ Runnable(r)' /\ shape'[r] = shape[r]
      /\ \A c : ProjectedServiceWork(r, c)' = ProjectedServiceWork(r, c)
  <2>1. ASSUME NEW q \in 1 .. submitted, Runnable(q)
        PROVE  /\ Need(q)' = Need(q) /\ Runnable(q)' /\ shape'[q] = shape[q]
               /\ \A c : ProjectedServiceWork(q, c)' = ProjectedServiceWork(q, c)
    <3>1. shape'[q] = shape[q]
      BY DEF RequestsStay
    <3> QED BY <2>1, <3>1, NeedStays, PlanStays
  <2>2. choice' = choice
    OBVIOUS
  <2> QED BY <1>1, <2>1, <2>2
<1>3. choice' = choice /\ lane_plans' = lane_plans /\ protection' = protection /\ pc' = pc
  BY DEF policyVars
<1>4. FreeLanes' = FreeLanes /\ RetainedLanes' = RetainedLanes /\ entitled' = entitled
  BY LanesAlone DEF laneVars
<1>5. \A S : CanAdmitWithout(r, l, S)' = CanAdmitWithout(r, l, S)
  <2>1. \A k : PoolSize(k)' = PoolSize(k)
    BY DEF PoolSize, AdmissionCapacity
  <2>2. \A S, k : EntitledBut(S, k)' = EntitledBut(S, k)
    BY <1>4 DEF EntitledBut
  <2> QED BY <1>2, <1>3, <2>1, <2>2 DEF CanAdmitWithout
<1>6. EvictedFor(r, l)' = EvictedFor(r, l)
  BY <1>3, <1>4, <1>5 DEF EvictedFor
<1>7. CanAdmitWithout(r, l, IF choice.evict THEN EvictedFor(r, l) ELSE {})'
  <2>1. CanAdmitWithout(r, l, IF choice.evict THEN EvictedFor(r, l) ELSE {})
    BY DEF ChoiceStands
  <2> QED BY <1>3, <1>5, <1>6, <2>1
<1>8. choice.class = "Persistent" =>
         PersistentBackfillIsSafe(protection, ActiveSet, Need(r), AdmissionCapacity)'
  <2> SUFFICES ASSUME choice.class = "Persistent"
               PROVE  PersistentBackfillIsSafe(protection, ActiveSet, Need(r),
                                               AdmissionCapacity)'
    OBVIOUS
  <2> DEFINE kept == KeptIds(protection)
  <2>1. \A k \in Kinds : protection.resources[k] + (Need(r)[k] + NeedOver(kept)[k])
                           <= AdmissionCapacity[k]
    BY SafeIsRoom DEF ChoiceStands
  <2>2. KeptIds(protection)' = kept /\ kept \in SUBSET (1 .. submitted)
    BY <1>3, LanesAlone, ActiveIffId DEF KeptIds, laneVars
  <2>3. NeedOver(KeptIds(protection))' = NeedOver(kept)
    <3>1. \A i \in kept : Need(i)' = Need(i)
      BY <2>2, NeedStays
    <3> HIDE DEF kept
    <3>2. \A k \in Kinds : [i \in kept |-> Need(i)'[k]] = [i \in kept |-> Need(i)[k]]
      BY <3>1
    <3> QED BY <2>2, <3>2 DEF NeedOver
  <2>4. (TypeOK /\ OneStagedPrefill =>
            \A more : PersistentBackfillIsSafe(protection, ActiveSet, more, AdmissionCapacity)
               <=> \A k \in Kinds : protection.resources[k] +
                      (more[k] + NeedOver(KeptIds(protection))[k]) <= AdmissionCapacity[k])'
    BY SafeIsRoom, PTL
  <2>5. AdmissionCapacity' = AdmissionCapacity
    BY DEF AdmissionCapacity
  <2> QED BY <1>2, <1>3, <2>1, <2>3, <2>4, <2>5
<1>9. /\ choice.class = "None" => r = QueueHead
      /\ choice.class # "None" => /\ protection.head # 0 /\ r # protection.head
                                  /\ choice.epoch = protection.epoch
      /\ choice.class = "Temporal" =>
            ProjectedServiceWork(r, lane_plans[r][l]) <= protection.credit
  BY DEF ChoiceStands
<1> QED BY <1>1, <1>2, <1>3, <1>4, <1>7, <1>8, <1>9 DEF ChoiceStands

-----------------------------------------------------------------------------
(* The steps that leave the lanes alone.                                   *)

(* The places of the requests stay disjoint when nobody moves into a lane. *)
LEMMA PlacesKept ==
  ASSUME IInv, TypeOK', UNCHANGED <<laneVars, prefill_lane>>,
         \A q \in pending' : q \in pending \/ q > submitted,
         \/ pc # "first_step" /\ pc' # "first_step"
         \/ pc' = pc /\ choice' = choice
  PROVE  OneStagedPrefill'
<1> USE DEF IInv
<1>1. /\ ActiveLanes' = ActiveLanes /\ ActiveIds' = ActiveIds /\ slots' = slots
      /\ prefill_lane' = prefill_lane
  BY LanesAlone DEF laneVars
<1>2. pending' \cap ActiveIds = {}
  <2>1. submitted \in Nat /\ ActiveIds \subseteq 1 .. submitted
    BY SubmittedIsNat, ActiveIffId
  <2>2. \A q \in pending : q \notin ActiveIds
    BY DEF OneStagedPrefill
  <2>3. \A q \in ActiveIds : ~ (q > submitted)
    BY <2>1
  <2> QED BY <2>2, <2>3
<1> QED BY <1>1, <1>2 DEF OneStagedPrefill

(* A submission changes nothing for the requests before it.                *)
LEMMA SubmitKeeps ==
  ASSUME IInv, Submit
  PROVE  IInv'
<1> USE DEF IInv
<1>1. PICK s \in Shapes : shape' = Append(shape, s)
  BY DEF Submit
<1>2. /\ submitted' = submitted + 1 /\ submitted < NumRequests
      /\ pending' = pending \cup {submitted + 1}
      /\ UNCHANGED <<pc, cancelled, laneVars, lane_plans, prefill_lane, policyVars,
                     previous_unit_was_decode, scanVars>>
  BY DEF Submit
<1>3. /\ UNCHANGED <<pc, cancelled, slots, retained, entitled, lane_plans, prefill_lane,
                     protection, next_epoch, previous_unit_was_decode, queued, choice>>
  BY <1>2 DEF laneVars, policyVars, scanVars
<1>4. submitted \in Nat /\ NumRequests \in Nat
  BY SubmittedIsNat, SchedulerAssumption
<1>5. RequestsStay
  BY ShapesStay
<1>6. TypeOK'
  <2>1. submitted' \in 0 .. NumRequests /\ shape' \in Seq(Shapes) /\ Len(shape') = submitted'
    BY <1>1, <1>2, <1>4 DEF TypeOK
  <2>2. 0 .. submitted \subseteq 0 .. submitted' /\ 1 .. submitted \subseteq 1 .. submitted'
    BY <1>2, <1>4
  <2>3. slots' \in [Lanes -> SlotRecords']
    BY <1>3, <2>2 DEF TypeOK, SlotRecords
  <2>4. retained' \in [Lanes -> [id : 0 .. submitted', frontier : Nat, checkpoint : Nat]]
    BY <1>3, <2>2 DEF TypeOK
  <2>5. protection' \in ProtectionRecords'
    BY <1>3, <2>2 DEF TypeOK, ProtectionRecords
  <2>6. choice' \in ChoiceRecords'
    BY <1>3, <2>2 DEF TypeOK, ChoiceRecords
  <2>7. pending' \subseteq 1 .. submitted' /\ queued' \subseteq pending'
    <3>1. pending \subseteq 1 .. submitted /\ queued \subseteq pending
      BY DEF TypeOK
    <3>2. submitted + 1 \in 1 .. submitted'
      BY <1>2, <1>4
    <3> QED BY <1>2, <1>3, <2>2, <3>1, <3>2
  <2>8. cancelled' \subseteq pending' \cup ActiveIds'
    BY <1>2, <1>3, LanesAlone DEF TypeOK
  <2> QED BY <1>3, <2>1, <2>3, <2>4, <2>5, <2>6, <2>7, <2>8 DEF TypeOK
<1>7. \A q \in pending' : q \in pending \/ q > submitted
  BY <1>2, <1>4
<1>8. OneStagedPrefill'
  BY <1>2, <1>3, <1>6, <1>7, PlacesKept
<1>9. pending # {} => pending' # {} /\ QueueHead' = QueueHead
  BY <1>2, <1>6, <1>7, HeadStays, HeadWaits
<1>10. PlansMatchLanes' /\ NoEarlyPlans'
  <2>1. submitted' \in Nat /\ submitted <= submitted'
    BY <1>2, <1>4
  <2>2. FreeLanes' = FreeLanes /\ lane_plans' = lane_plans /\ retained' = retained
    BY <1>2, <1>3, LanesAlone
  <2>3. lane_plans' \in [Requests -> [Lanes -> Nat \cup {NoPlan}]]
    BY <2>2 DEF TypeOK
  <2> QED BY <1>5, <2>1, <2>2, <2>3, PlansKept
<1>11. LaneProgress' /\ ServiceWorkSuffices' /\ PoolsNeverOvercommitted'
  BY <1>2, <1>5, LanesAloneKeep
<1>12. ChoiceStands'
  BY <1>2, <1>3, <1>5, <1>6, <1>8, <1>9, ChoiceStays
<1>13. HeadProtected'
  <2>1. protection.incumbents \cap pending' = {}
    BY <1>2, <1>4 DEF HeadProtected, TypeOK, ProtectionRecords
  <2>2. LanesOnlyLeave /\ SameReservation
    BY <1>2, <1>3, LanesAlone DEF SameReservation
  <2>3. protection.head # 0 => pending # {}
    BY DEF HeadProtected
  <2> QED BY <1>3, <1>5, <1>6, <1>8, <1>9, <2>1, <2>2, <2>3, ProtectionStays
<1>14. ControlState'
  <2>1. pc = "first_step" => shape'[slots[choice.lane].id] = shape[slots[choice.lane].id]
    BY <1>5, ActiveIffId DEF ControlState, RequestsStay
  <2>2. ActiveLanes' = ActiveLanes
    BY <1>2, LanesAlone
  <2>3. pc = "scan" => pending # {}
    BY DEF ControlState
  <2> QED BY <1>3, <1>9, <2>1, <2>2, <2>3 DEF ControlState, NoChoice
<1> QED BY <1>6, <1>8, <1>10, <1>11, <1>12, <1>13, <1>14

(* A cancellation is only noted until the worker looks at it.              *)
LEMMA CancelKeeps ==
  ASSUME IInv, NEW r \in Requests, Cancel(r)
  PROVE  IInv'
<1> USE DEF IInv
<1>1. /\ cancelled' = cancelled \cup {r} /\ r \in pending \cup ActiveIds
      /\ UNCHANGED <<pc, submitted, shape, pending, slots, retained, entitled, lane_plans,
                     prefill_lane, protection, next_epoch, previous_unit_was_decode, queued,
                     choice>>
  BY DEF Cancel, requestVars, laneVars, policyVars, scanVars
<1>2. UNCHANGED laneVars /\ UNCHANGED policyVars
  BY <1>1 DEF laneVars, policyVars
<1>3. RequestsStay
  BY <1>1, ShapesStay DEF requestVars
<1>4. TypeOK'
  <2>1. ActiveIds' = ActiveIds
    BY <1>2, LanesAlone
  <2>2. SlotRecords' = SlotRecords /\ ProtectionRecords' = ProtectionRecords /\ ChoiceRecords' = ChoiceRecords
    BY <1>1 DEF SlotRecords, ProtectionRecords, ChoiceRecords
  <2> QED BY <1>1, <2>1, <2>2 DEF TypeOK
<1>5. OneStagedPrefill'
  BY <1>1, <1>2, <1>4, PlacesKept
<1>6. QueueHead' = QueueHead
  BY <1>1 DEF QueueHead
<1>7. PlansMatchLanes' /\ NoEarlyPlans'
  BY <1>1 DEF PlansMatchLanes, NoEarlyPlans, FreeLanes, ReuseBase, NoPlans
<1>8. LaneProgress' /\ ServiceWorkSuffices' /\ PoolsNeverOvercommitted'
  BY <1>2, <1>3, LanesAloneKeep
<1>9. ChoiceStands'
  BY <1>1, <1>2, <1>3, <1>4, <1>5, <1>6, ChoiceStays
<1>10. HeadProtected'
  <2>1. LanesOnlyLeave /\ SameReservation
    BY <1>1, <1>2, LanesAlone DEF SameReservation
  <2>2. protection.incumbents \cap pending' = {} /\ (protection.head # 0 => pending' # {})
    BY <1>1 DEF HeadProtected
  <2> QED BY <1>1, <1>3, <1>4, <1>5, <1>6, <2>1, <2>2, ProtectionStays
<1>11. ControlState'
  <2>1. ActiveLanes' = ActiveLanes
    BY <1>2, LanesAlone
  <2> QED BY <1>1, <1>6, <2>1 DEF ControlState, NoChoice
<1> QED BY <1>4, <1>5, <1>7, <1>8, <1>9, <1>10, <1>11

(* A step of try_admit_one between two units: it may take requests from    *)
(* the queue, drop plans and make plans for free lanes.                    *)
PlansFilled ==
    /\ lane_plans' \in [Requests -> [Lanes -> Nat \cup {NoPlan}]]
    /\ \A r \in Requests, l \in Lanes :
          \/ lane_plans'[r][l] = NoPlan
          \/ lane_plans'[r][l] = lane_plans[r][l]
          \/ r \in 1 .. submitted /\ lane_plans'[r][l] = ReuseBase(r, l)

QuietStep ==
    /\ UNCHANGED <<requestVars, laneVars, prefill_lane, previous_unit_was_decode>>
    /\ pending' \subseteq pending /\ queued' \subseteq pending'
    /\ cancelled' \subseteq pending' \cup ActiveIds
    /\ pc # "first_step" /\ pc' \in {"boundary", "decode", "admit", "scan", "admitting"}
    /\ PlansFilled
    /\ protection' \in ProtectionRecords /\ protection'.donors \subseteq protection'.incumbents
    /\ next_epoch' \in Nat \ {0} /\ choice' \in ChoiceRecords

QuietlyKept ==
    /\ TypeOK' /\ OneStagedPrefill' /\ PlansMatchLanes' /\ NoEarlyPlans'
    /\ LaneProgress' /\ ServiceWorkSuffices' /\ PoolsNeverOvercommitted'
    /\ RequestsStay /\ LanesOnlyLeave

(* Steps of try_admit_one that admit nobody leave the lanes alone.         *)
LEMMA QuietStepKeeps ==
  ASSUME IInv, QuietStep
  PROVE  QuietlyKept
<1> USE DEF IInv
<1>1. /\ UNCHANGED <<submitted, shape, slots, retained, entitled, prefill_lane,
                     previous_unit_was_decode>>
      /\ UNCHANGED laneVars /\ UNCHANGED requestVars
  BY DEF QuietStep, requestVars, laneVars
<1>2. RequestsStay
  BY <1>1, ShapesStay
<1>3. TypeOK'
  <2>1. ActiveIds' = ActiveIds
    BY <1>1, LanesAlone
  <2>2. SlotRecords' = SlotRecords /\ ProtectionRecords' = ProtectionRecords /\ ChoiceRecords' = ChoiceRecords
    BY <1>1 DEF SlotRecords, ProtectionRecords, ChoiceRecords
  <2>3. pending' \subseteq 1 .. submitted
    BY DEF TypeOK, QuietStep
  <2>4. pc' \in {"boundary", "prefill", "decode", "admit", "scan", "admitting", "first_step",
                 "failed"}
    BY DEF QuietStep
  <2> QED BY <1>1, <2>1, <2>2, <2>3, <2>4 DEF TypeOK, QuietStep, PlansFilled
<1>4. OneStagedPrefill'
  BY <1>1, <1>3, PlacesKept DEF QuietStep
<1>5. PlansMatchLanes' /\ NoEarlyPlans'
  <2>1. submitted' \in Nat /\ submitted <= submitted'
    BY <1>1, SubmittedIsNat
  <2>2. FreeLanes' = FreeLanes /\ retained' = retained
    BY <1>1, LanesAlone
  <2>3. /\ lane_plans' \in [Requests -> [Lanes -> Nat \cup {NoPlan}]]
        /\ \A r \in Requests, l \in Lanes :
              \/ lane_plans'[r][l] = NoPlan
              \/ lane_plans'[r][l] = lane_plans[r][l]
              \/ r \in 1 .. submitted /\ lane_plans'[r][l] = ReuseBase(r, l)
    BY DEF QuietStep, PlansFilled
  <2> QED BY <1>2, <2>1, <2>2, <2>3, PlansKept
<1>6. LaneProgress' /\ ServiceWorkSuffices' /\ PoolsNeverOvercommitted'
  BY <1>1, <1>2, LanesAloneKeep
<1> QED BY <1>1, <1>2, <1>3, <1>4, <1>5, <1>6, LanesAlone DEF QuietlyKept

(* The three things such a step does with the plans.                       *)
LEMMA PlansSame ==
  ASSUME TypeOK, lane_plans' = lane_plans
  PROVE  PlansFilled
BY DEF PlansFilled, TypeOK

(* A request that leaves the queue drops its plans.                        *)
LEMMA PlansDropped ==
  ASSUME TypeOK, NEW r, lane_plans' = With(lane_plans, {r}, NoPlans)
  PROVE  PlansFilled
<1>1. lane_plans \in [Requests -> [Lanes -> Nat \cup {NoPlan}]]
  BY DEF TypeOK
<1>2. lane_plans' = [q \in Requests |-> IF q = r THEN NoPlans ELSE lane_plans[q]]
  BY <1>1 DEF With
<1>3. NoPlans \in [Lanes -> Nat \cup {NoPlan}] /\ \A l \in Lanes : NoPlans[l] = NoPlan
  BY DEF NoPlans
<1> HIDE DEF NoPlans
<1> QED BY <1>1, <1>2, <1>3 DEF PlansFilled

(* ensure_lane_plan fills in plans that describe the lanes.                *)
LEMMA PlansEnsured ==
  ASSUME TypeOK, PlansMatchLanes, NEW r \in 1 .. submitted, EnsureLanePlans(r)
  PROVE  PlansFilled /\ lane_plans'[r] = Planned(r)
<1>1. lane_plans \in [Requests -> [Lanes -> Nat \cup {NoPlan}]] /\ r \in Requests
  BY SchedulerAssumption DEF TypeOK, Requests
<1>2. lane_plans' = [lane_plans EXCEPT ![r] = Planned(r)]
  BY DEF EnsureLanePlans
<1>3. Planned(r) \in [Lanes -> Nat \cup {NoPlan}]
  BY PlannedOf
<1>4. \A l \in Lanes : Planned(r)[l] = ReuseBase(r, l) \/ Planned(r)[l] = lane_plans[r][l]
  BY DEF Planned
<1>5. lane_plans' \in [Requests -> [Lanes -> Nat \cup {NoPlan}]]
  BY <1>1, <1>2, <1>3
<1>6. ASSUME NEW q \in Requests, NEW l \in Lanes
      PROVE  \/ lane_plans'[q][l] = lane_plans[q][l]
             \/ q \in 1 .. submitted /\ lane_plans'[q][l] = ReuseBase(q, l)
  <2>1. CASE q = r
    BY <1>1, <1>2, <1>4, <2>1
  <2>2. CASE q # r
    BY <1>1, <1>2, <2>2
  <2> QED BY <2>1, <2>2
<1> QED BY <1>1, <1>2, <1>5, <1>6 DEF PlansFilled

(* The blank protection and choice have their types.                       *)
LEMMA BlankTypes ==
  TypeOK => NoProtection \in ProtectionRecords /\ NoChoice \in ChoiceRecords
BY SchedulerAssumption DEF TypeOK, NoProtection, ProtectionRecords, NoChoice, ChoiceRecords, Classes, Kinds

(* try_admit_one on an empty queue.                                        *)
LEMMA AdmitNobodyKeeps ==
  ASSUME IInv, AdmitNobody
  PROVE  IInv'
<1> USE DEF IInv
<1>1. /\ pc = "admit" /\ pending = {} /\ protection' = NoProtection /\ pc' \in {"decode", "boundary"}
      /\ UNCHANGED <<requestVars, cancelled, pending, laneVars, lane_plans, prefill_lane,
                     next_epoch, previous_unit_was_decode, queued, choice>>
  BY DEF AdmitNobody, scanVars, AfterAdmission
<1>2. protection' \in ProtectionRecords /\ protection'.donors \subseteq protection'.incumbents
  BY <1>1, BlankTypes DEF NoProtection
<1>3. QuietStep
  BY <1>1, <1>2, PlansSame DEF TypeOK, QuietStep
<1>4. QuietlyKept
  BY <1>3, QuietStepKeeps
<1>5. ControlState' /\ ChoiceStands'
  BY <1>1 DEF ControlState, ChoiceStands, NoChoice
<1> QED BY <1>1, <1>4, <1>5, ProtectionCleared DEF QuietlyKept

(* The head is dropped, with its protection.                               *)
LEMMA DropHeadKeeps ==
  ASSUME IInv, DropHead
  PROVE  IInv'
<1> USE DEF IInv
<1>1. /\ pc = "admit" /\ pending' = pending \ {QueueHead} /\ cancelled' = cancelled \ {QueueHead}
      /\ lane_plans' = With(lane_plans, {QueueHead}, NoPlans) /\ protection' = NoProtection
      /\ UNCHANGED <<pc, requestVars, laneVars, prefill_lane, next_epoch,
                     previous_unit_was_decode, queued, choice>>
  BY DEF DropHead, LeaveQueue, scanVars
<1>2. protection' \in ProtectionRecords /\ protection'.donors \subseteq protection'.incumbents
  BY <1>1, BlankTypes DEF NoProtection
<1>3. queued = {} /\ choice = NoChoice /\ prefill_lane = 0
  BY <1>1 DEF ControlState
<1>4. PlansFilled
  BY <1>1, PlansDropped
<1>5. cancelled' \subseteq pending' \cup ActiveIds /\ choice' \in ChoiceRecords /\ next_epoch' \in Nat \ {0}
  BY <1>1 DEF TypeOK
<1>6. QuietStep
  BY <1>1, <1>2, <1>3, <1>4, <1>5 DEF QuietStep
<1>7. QuietlyKept
  BY <1>6, QuietStepKeeps
<1>8. ControlState' /\ ChoiceStands'
  BY <1>1, <1>3 DEF ControlState, ChoiceStands, NoChoice
<1> QED BY <1>1, <1>7, <1>8, ProtectionCleared DEF QuietlyKept

(* What the search for a lane and the policy look at.                      *)
LEMMA SearchSame ==
  ASSUME UNCHANGED requestVars, UNCHANGED laneVars
  PROVE  /\ \A r : Need(r)' = Need(r) /\ Runnable(r)' = Runnable(r)
         /\ \A r, c : ProjectedServiceWork(r, c)' = ProjectedServiceWork(r, c)
         /\ \A r, l, S : CanAdmitWithout(r, l, S)' = CanAdmitWithout(r, l, S)
         /\ \A r, l : EvictedFor(r, l)' = EvictedFor(r, l)
         /\ ActiveSet' = ActiveSet
         /\ AdmissionCapacity' = AdmissionCapacity
<1>1. shape' = shape /\ slots' = slots /\ entitled' = entitled /\ submitted' = submitted
  BY DEF requestVars, laneVars
<1>2. \A r : Need(r)' = Need(r)
  BY <1>1, PlanStays
<1>3. \A r, c : ProjectedServiceWork(r, c)' = ProjectedServiceWork(r, c)
  BY <1>1, PlanStays
<1>4. AdmissionCapacity' = AdmissionCapacity
  BY DEF AdmissionCapacity
<1>5. \A r, l, S : CanAdmitWithout(r, l, S)' = CanAdmitWithout(r, l, S)
  <2>1. \A S, k : EntitledBut(S, k)' = EntitledBut(S, k) /\ PoolSize(k)' = PoolSize(k)
    BY <1>1, <1>4 DEF EntitledBut, PoolSize
  <2> QED BY <1>2, <2>1 DEF CanAdmitWithout
<1>6. \A r, l : EvictedFor(r, l)' = EvictedFor(r, l)
  BY <1>5, LanesAlone DEF EvictedFor
<1>7. ActiveSet' = ActiveSet
  <2>1. ActiveIds' = ActiveIds /\ \A r : LaneOf(r)' = LaneOf(r)
    BY <1>1, LanesAlone DEF LaneOf
  <2> QED BY <1>1, <1>2, <2>1 DEF ActiveSet
<1>8. \A r : Runnable(r)' = Runnable(r)
  BY <1>1, <1>2, <1>4 DEF Runnable, Plannable, Fits
<1> QED BY <1>2, <1>3, <1>4, <1>5, <1>6, <1>7, <1>8

(* The head fits: what was found about its lane is what is checked later.  *)
LEMMA ChooseHeadKeeps ==
  ASSUME IInv, ChooseHead
  PROVE  IInv'
<1> USE DEF IInv
<1> DEFINE found == FindAdmissionLane(QueueHead)
<1>1. /\ pc = "admit" /\ pending # {} /\ ~ MustDrop(QueueHead) /\ HasLane(QueueHead)
      /\ choice' = [id |-> QueueHead, lane |-> found.lane, evict |-> found.evict,
                    class |-> "None", epoch |-> 0]
      /\ EnsureLanePlans(QueueHead) /\ pc' = "admitting"
      /\ protection' = IF protection.head = QueueHead THEN protection ELSE NoProtection
      /\ UNCHANGED <<requestVars, cancelled, pending, laneVars, prefill_lane, next_epoch,
                     previous_unit_was_decode, queued>>
  BY DEF ChooseHead
<1>2. QueueHead \in pending /\ QueueHead \in 1 .. submitted /\ QueueHead' = QueueHead
  BY <1>1, HeadWaits DEF QueueHead
<1>3. Runnable(QueueHead) /\ Plannable(QueueHead)
  BY <1>1, <1>2, RunnableIffKept DEF Runnable
<1>4. /\ found.lane \in FreeLanes /\ found.evict \in BOOLEAN
      /\ CanAdmitWithout(QueueHead, found.lane,
                         IF found.evict THEN EvictedFor(QueueHead, found.lane) ELSE {})
  BY <1>1, <1>2, <1>3, LaneFound
<1>5. PlansFilled /\ lane_plans'[QueueHead] = Planned(QueueHead)
  BY <1>1, <1>2, PlansEnsured
<1>6. Planned(QueueHead)[found.lane] # NoPlan
  BY <1>2, <1>4, PlannedOf
<1> HIDE DEF found
<1>7. choice' \in ChoiceRecords
  BY <1>1, <1>2, <1>4 DEF ChoiceRecords, Classes, FreeLanes
<1>8. protection' \in ProtectionRecords /\ protection'.donors \subseteq protection'.incumbents
  BY <1>1, BlankTypes DEF NoProtection, TypeOK
<1>9. queued = {} /\ prefill_lane = 0
  BY <1>1 DEF ControlState
<1>10. QuietStep
  BY <1>1, <1>5, <1>7, <1>8, <1>9 DEF QuietStep, TypeOK
<1>11. QuietlyKept
  BY <1>10, QuietStepKeeps
<1>12. ControlState'
  BY <1>1, <1>9 DEF ControlState
<1>13. ChoiceStands'
  <2>1. FreeLanes' = FreeLanes
    BY <1>1, LanesAlone
  <2>2. choice'.id = QueueHead /\ choice'.lane = found.lane /\ choice'.evict = found.evict
        /\ choice'.class = "None"
    BY <1>1
  <2>3. CanAdmitWithout(choice.id, choice.lane,
                        IF choice.evict THEN EvictedFor(choice.id, choice.lane) ELSE {})'
    BY <1>1, <1>4, <2>2, SearchSame
  <2>4. Runnable(choice.id)'
    BY <1>1, <1>3, <2>2, SearchSame
  <2> QED BY <1>1, <1>2, <1>4, <1>5, <1>6, <2>1, <2>2, <2>3, <2>4 DEF ChoiceStands
<1>14. HeadProtected'
  <2>1. CASE protection.head = QueueHead
    <3>1. protection' = protection
      BY <1>1, <2>1
    <3>2. SameReservation /\ protection.incumbents \cap pending' = {}
      BY <1>1, <3>1 DEF SameReservation, HeadProtected
    <3> QED BY <1>1, <1>2, <1>11, <3>1, <3>2, ProtectionStays DEF QuietlyKept
  <2>2. CASE protection.head # QueueHead
    BY <1>1, <2>2, ProtectionCleared
  <2> QED BY <2>1, <2>2
<1> QED BY <1>11, <1>12, <1>13, <1>14 DEF QuietlyKept

(* A fresh protection: whoever is active is an incumbent, and the head     *)
(* fits beside those that are not donors.                                  *)
LEMMA FreshProtection ==
  ASSUME IInv, NEW r \in 1 .. submitted, Runnable(r), ActiveIds # {}
  PROVE  LET p == MakeAdmissionProtection(next_epoch, r, Need(r), ActiveSet, AdmissionCapacity)
         IN  /\ p \in ProtectionRecords /\ p.donors \subseteq p.incumbents
             /\ p.head = r /\ p.incumbents = ActiveIds /\ p.resources = Need(r)
             /\ RoomBeside(Need(r), ActiveIds \ p.donors)
<1> USE DEF IInv
<1> DEFINE last == LastDonor(Need(r), ActiveSet, AdmissionCapacity)
           donors == FrontierUpTo(ActiveSet, last)
<1>1. Need(r) \in [Kinds -> Nat] /\ Fits(Need(r), AdmissionCapacity)
  BY NeedOf DEF Runnable
<1>2. last \in ActiveIds /\ RoomBeside(Need(r), ActiveIds \ donors)
  BY <1>1, LastDonorExists
<1>3. donors \subseteq ActiveIds /\ DOMAIN ActiveSet = ActiveIds
  BY SnapshotOf DEF FrontierUpTo
<1>4. ActiveSet[last].work \in Nat /\ ActiveIds \subseteq 1 .. submitted
  BY <1>2, WorkOfActive
<1>5. MakeAdmissionProtection(next_epoch, r, Need(r), ActiveSet, AdmissionCapacity) =
        [epoch |-> next_epoch, head |-> r, resources |-> Need(r), incumbents |-> ActiveIds,
         donors |-> donors, credit |-> ActiveSet[last].work, phase |-> "Open"]
  BY <1>3 DEF MakeAdmissionProtection
<1>6. next_epoch \in Nat /\ r \in 0 .. submitted
  BY SubmittedIsNat DEF TypeOK
<1> HIDE DEF last, donors
<1> QED BY <1>1, <1>2, <1>3, <1>4, <1>5, <1>6 DEF ProtectionRecords

(* The head does not fit: its donors are frozen or kept.                   *)
LEMMA ProtectHeadKeeps ==
  ASSUME IInv, ProtectHead
  PROVE  IInv'
<1> USE DEF IInv
<1> DEFINE h == QueueHead
           fresh == MakeAdmissionProtection(next_epoch, h, Need(h), ActiveSet, AdmissionCapacity)
           p == IF protection.head = h THEN protection ELSE fresh
<1>1. /\ pc = "admit" /\ pending # {} /\ ~ MustDrop(h) /\ ~ HasLane(h)
      /\ EnsureLanePlans(h)
      /\ UNCHANGED <<requestVars, cancelled, pending, laneVars, prefill_lane,
                     previous_unit_was_decode, choice>>
  BY DEF ProtectHead
<1>2. /\ \/ protection' = p /\ pc' = "scan" /\ queued' = pending \ {h}
         \/ protection' = [p EXCEPT !.phase = "Drain"] /\ pc' \in {"boundary", "decode"}
            /\ queued' = {}
      /\ next_epoch' \in {next_epoch, next_epoch + 1}
  BY DEF ProtectHead, AfterAdmission
<1>3. h \in pending /\ h \in 1 .. submitted /\ QueueHead' = QueueHead /\ Runnable(h) /\ h # 0
  BY <1>1, HeadWaits, RunnableIffKept DEF QueueHead
<1> HIDE DEF h
<1>4. ActiveIds # {}
  BY <1>1, <1>3, BlockedBySomebody
<1>5. /\ fresh \in ProtectionRecords /\ fresh.donors \subseteq fresh.incumbents
      /\ fresh.head = h /\ fresh.incumbents = ActiveIds /\ fresh.resources = Need(h)
      /\ RoomBeside(Need(h), ActiveIds \ fresh.donors)
  BY <1>3, <1>4, FreshProtection
<1> HIDE DEF fresh
<1>6. /\ p \in ProtectionRecords /\ p.donors \subseteq p.incumbents /\ p.head = h
  BY <1>5 DEF TypeOK
<1>7. /\ protection' \in ProtectionRecords
      /\ protection'.head = h /\ protection'.incumbents = p.incumbents
      /\ protection'.donors = p.donors /\ protection'.resources = p.resources
      /\ protection'.epoch = p.epoch
  <2> HIDE DEF p
  <2> QED BY <1>2, <1>6 DEF ProtectionRecords
<1>8. PlansFilled
  BY <1>1, <1>3, PlansEnsured
<1>9. choice = NoChoice /\ prefill_lane = 0
  BY <1>1 DEF ControlState
<1>10. next_epoch' \in Nat \ {0} /\ queued' \subseteq pending /\ choice \in ChoiceRecords
       /\ cancelled \subseteq pending \cup ActiveIds
  BY <1>2 DEF TypeOK
<1>11. QuietStep
  BY <1>1, <1>2, <1>6, <1>7, <1>8, <1>10 DEF QuietStep
<1>12. QuietlyKept
  BY <1>11, QuietStepKeeps
<1>13. ControlState'
  BY <1>1, <1>2, <1>3, <1>7, <1>9 DEF ControlState, NoChoice, h
<1>14. ChoiceStands'
  BY <1>2 DEF ChoiceStands
<1>15. HeadProtected'
  <2>1. CASE protection.head = h
    <3>1. SameReservation /\ protection'.head = protection.head
      BY <1>7, <2>1 DEF SameReservation
    <3>2. protection.incumbents \cap pending' = {}
      BY <1>1 DEF HeadProtected
    <3> QED BY <1>1, <1>3, <1>12, <3>1, <3>2, ProtectionStays DEF QuietlyKept
  <2>2. CASE protection.head # h
    <3>1. /\ protection'.incumbents = ActiveIds /\ protection'.donors = fresh.donors
          /\ protection'.resources = Need(h)
      BY <1>5, <1>7, <2>2
    <3>2. ActiveIds' = ActiveIds /\ ActiveLanes' = ActiveLanes /\ slots' = slots
      BY <1>1, LanesAlone DEF laneVars
    <3>3. KeptIds(protection)' = ActiveIds \ fresh.donors
      <4>1. \A l \in ActiveLanes : slots[l].id \in ActiveIds
        BY ActiveIffId
      <4> QED BY <3>1, <3>2, <4>1 DEF KeptIds, KeptBy, ActiveIds
    <3>4. NeedOver(KeptIds(protection))' = NeedOver(ActiveIds \ fresh.donors)
      <4>1. \A i : Need(i)' = Need(i)
        BY <1>1, SearchSame
      <4> QED BY <3>3, <4>1 DEF NeedOver
    <3>5. RoomBeside(protection.resources, KeptIds(protection))'
      <4>1. AdmissionCapacity' = AdmissionCapacity
        BY DEF AdmissionCapacity
      <4> QED BY <1>5, <3>1, <3>4, <4>1 DEF RoomBeside
    <3>6. (TypeOK /\ OneStagedPrefill =>
              (Reserved <=> RoomBeside(protection.resources, KeptIds(protection))))'
      BY ReservedIsRoom, PTL
    <3>7. Reserved'
      BY <1>12, <3>5, <3>6 DEF QuietlyKept
    <3>8. protection'.incumbents \cap pending' = {}
      BY <1>1, <3>1 DEF OneStagedPrefill
    <3>9. \A l \in ActiveLanes' : slots'[l].id \in protection'.incumbents
      BY <3>1, <3>2, ActiveIffId
    <3> QED BY <1>1, <1>3, <1>7, <3>7, <3>8, <3>9 DEF HeadProtected, Reserved, h
  <2> QED BY <2>1, <2>2
<1> QED BY <1>12, <1>13, <1>14, <1>15 DEF QuietlyKept

(* While the worker scans, a protection survives that keeps its head.      *)
LEMMA DropCandidateKeeps ==
  ASSUME IInv, DropCandidate
  PROVE  IInv'
<1> USE DEF IInv
<1> DEFINE c == NextQueued
<1>1. /\ pc = "scan" /\ queued # {} /\ pending' = pending \ {c} /\ cancelled' = cancelled \ {c}
      /\ lane_plans' = With(lane_plans, {c}, NoPlans) /\ queued' = queued \ {c}
      /\ UNCHANGED <<pc, requestVars, laneVars, prefill_lane, protection, next_epoch,
                     previous_unit_was_decode, choice>>
  BY DEF DropCandidate, LeaveQueue, policyVars
<1>2. c \in queued /\ c \in pending
  BY <1>1, NextQueuedWaits
<1> HIDE DEF c
<1>3. /\ pending # {} /\ protection.head = QueueHead /\ QueueHead \notin queued
      /\ choice = NoChoice /\ prefill_lane = 0
  BY <1>1 DEF ControlState
<1>4. PlansFilled
  BY <1>1, PlansDropped
<1>5. /\ cancelled' \subseteq pending' \cup ActiveIds /\ queued' \subseteq pending'
      /\ choice' \in ChoiceRecords /\ next_epoch' \in Nat \ {0}
      /\ protection' \in ProtectionRecords /\ protection'.donors \subseteq protection'.incumbents
  BY <1>1 DEF TypeOK
<1>6. QuietStep
  BY <1>1, <1>4, <1>5 DEF QuietStep
<1>7. QuietlyKept
  BY <1>6, QuietStepKeeps
<1>8. QueueHead \in pending /\ QueueHead \in pending'
  BY <1>1, <1>2, <1>3, HeadWaits
<1>9. pending' # {} /\ QueueHead' = QueueHead
  BY <1>1, <1>3, <1>7, <1>8, HeadStays DEF QuietlyKept
<1>10. ControlState'
  BY <1>1, <1>3, <1>9 DEF ControlState, NoChoice
<1>11. ChoiceStands'
  BY <1>1 DEF ChoiceStands
<1>12. HeadProtected'
  <2>1. SameReservation /\ protection.incumbents \cap pending' = {}
    BY <1>1 DEF SameReservation, HeadProtected
  <2> QED BY <1>1, <1>7, <1>9, <2>1, ProtectionStays DEF QuietlyKept
<1> QED BY <1>7, <1>10, <1>11, <1>12 DEF QuietlyKept

(* A candidate is passed over or chosen as a backfill.                     *)
LEMMA ScanCandidateKeeps ==
  ASSUME IInv, ScanCandidate
  PROVE  IInv'
<1> USE DEF IInv
<1> DEFINE c == NextQueued
           found == FindAdmissionLane(c)
           class == IF HasLane(c) THEN BackfillClass(c, found.lane) ELSE "None"
<1>1. /\ pc = "scan" /\ queued # {} /\ ~ MustDrop(c) /\ EnsureLanePlans(c)
      /\ UNCHANGED <<requestVars, cancelled, pending, laneVars, prefill_lane, policyVars,
                     protection, next_epoch, previous_unit_was_decode>>
  BY DEF ScanCandidate, policyVars
<1>2. \/ class = "None" /\ queued' = queued \ {c} /\ UNCHANGED <<pc, choice>>
      \/ /\ class # "None" /\ queued' = {} /\ pc' = "admitting"
         /\ choice' = [id |-> c, lane |-> found.lane, evict |-> found.evict, class |-> class,
                       epoch |-> protection.epoch]
  BY DEF ScanCandidate
<1>3. c \in queued /\ c \in pending /\ c \in 1 .. submitted
  BY <1>1, NextQueuedWaits
<1> HIDE DEF c
<1>4. /\ pending # {} /\ protection.head = QueueHead /\ QueueHead \notin queued
      /\ choice = NoChoice /\ prefill_lane = 0
  BY <1>1 DEF ControlState
<1>5. Runnable(c) /\ Plannable(c)
  BY <1>1, <1>3, RunnableIffKept DEF Runnable
<1>6. class # "None" =>
         /\ found.lane \in FreeLanes /\ found.evict \in BOOLEAN
         /\ CanAdmitWithout(c, found.lane, IF found.evict THEN EvictedFor(c, found.lane) ELSE {})
  BY <1>3, <1>5, LaneFound
<1>7. /\ class \in Classes
      /\ class = "Persistent" =>
            PersistentBackfillIsSafe(protection, ActiveSet, Need(c), AdmissionCapacity)
      /\ class = "Temporal" =>
            ProjectedServiceWork(c, Planned(c)[found.lane]) <= protection.credit
  BY DEF BackfillClass, Classes
<1>8. PlansFilled /\ lane_plans'[c] = Planned(c)
  BY <1>1, <1>3, PlansEnsured
<1>9. class # "None" => Planned(c)[found.lane] # NoPlan
  BY <1>3, <1>6, PlannedOf
<1> HIDE DEF found, class
<1>10. /\ protection' \in ProtectionRecords /\ protection'.donors \subseteq protection'.incumbents
       /\ next_epoch' \in Nat \ {0} /\ queued' \subseteq pending' /\ choice' \in ChoiceRecords
       /\ cancelled' \subseteq pending' \cup ActiveIds
  <2>1. protection.epoch \in Nat /\ choice \in ChoiceRecords /\ submitted \in Nat
    BY SubmittedIsNat DEF TypeOK, ProtectionRecords
  <2>2. choice' \in ChoiceRecords
    BY <1>2, <1>3, <1>6, <1>7, <2>1 DEF ChoiceRecords, FreeLanes
  <2> QED BY <1>1, <1>2, <2>2 DEF TypeOK
<1>11. QuietStep
  BY <1>1, <1>2, <1>8, <1>10 DEF QuietStep
<1>12. QuietlyKept
  BY <1>11, QuietStepKeeps
<1>13. QueueHead' = QueueHead /\ QueueHead \in 1 .. submitted
  BY <1>1, <1>4, HeadWaits DEF QueueHead
<1>14. ControlState'
  BY <1>1, <1>2, <1>4, <1>13 DEF ControlState, NoChoice
<1>15. ChoiceStands'
  <2>1. CASE class = "None"
    BY <1>1, <1>2, <2>1 DEF ChoiceStands
  <2>2. CASE class # "None"
    <3>1. /\ choice'.id = c /\ choice'.lane = found.lane /\ choice'.evict = found.evict
          /\ choice'.class = class /\ choice'.epoch = protection.epoch
      BY <1>2, <2>2
    <3>2. FreeLanes' = FreeLanes
      BY <1>1, LanesAlone
    <3>3. CanAdmitWithout(choice.id, choice.lane,
                          IF choice.evict THEN EvictedFor(choice.id, choice.lane) ELSE {})'
      BY <1>1, <1>6, <2>2, <3>1, SearchSame
    <3>4. Runnable(choice.id)'
      BY <1>1, <1>5, <3>1, SearchSame
    <3>5. class = "Persistent" =>
            PersistentBackfillIsSafe(protection, ActiveSet, Need(choice.id), AdmissionCapacity)'
      <4>1. Need(choice.id)' = Need(c) /\ ActiveSet' = ActiveSet /\ protection' = protection
            /\ AdmissionCapacity' = AdmissionCapacity
        BY <1>1, <3>1, SearchSame
      <4> QED BY <1>7, <4>1 DEF PersistentBackfillIsSafe, Keepers
    <3>6. class = "Temporal" =>
            (ProjectedServiceWork(choice.id, lane_plans[choice.id][choice.lane])
                <= protection.credit)'
      BY <1>1, <1>7, <1>8, <3>1, SearchSame
    <3>7. choice'.id # protection'.head /\ protection'.head # 0
      BY <1>1, <1>3, <1>4, <1>13, <3>1
    <3>8. choice'.id \in pending' /\ choice'.lane \in FreeLanes'
          /\ lane_plans'[choice'.id][choice'.lane] # NoPlan
      BY <1>1, <1>3, <1>6, <1>8, <1>9, <2>2, <3>1, <3>2
    <3> QED BY <1>1, <2>2, <3>1, <3>3, <3>4, <3>5, <3>6, <3>7, <3>8 DEF ChoiceStands
  <2> QED BY <2>1, <2>2
<1>16. HeadProtected'
  <2>1. SameReservation /\ protection.incumbents \cap pending' = {} /\ pending' # {}
    BY <1>1, <1>4 DEF SameReservation, HeadProtected
  <2> QED BY <1>1, <1>12, <1>13, <2>1, ProtectionStays DEF QuietlyKept
<1> QED BY <1>12, <1>14, <1>15, <1>16 DEF QuietlyKept

(* The scan ends without a candidate.                                      *)
LEMMA ScanEndsKeeps ==
  ASSUME IInv, ScanEnds
  PROVE  IInv'
<1> USE DEF IInv
<1>1. /\ pc = "scan" /\ queued = {} /\ pc' \in {"decode", "boundary"}
      /\ UNCHANGED <<requestVars, cancelled, pending, laneVars, lane_plans, prefill_lane,
                     protection, next_epoch, previous_unit_was_decode, queued, choice>>
  BY DEF ScanEnds, AfterAdmission, scanVars, policyVars
<1>2. QuietStep
  BY <1>1, PlansSame DEF QuietStep, TypeOK
<1>3. QuietlyKept
  BY <1>2, QuietStepKeeps
<1>4. ControlState' /\ ChoiceStands'
  BY <1>1 DEF ControlState, ChoiceStands, NoChoice
<1>5. HeadProtected'
  <2>1. /\ SameReservation /\ protection.incumbents \cap pending' = {} /\ QueueHead' = QueueHead
        /\ protection.head # 0 => pending' # {}
    BY <1>1 DEF SameReservation, HeadProtected, QueueHead
  <2> QED BY <1>1, <1>3, <2>1, ProtectionStays DEF QuietlyKept
<1> QED BY <1>3, <1>4, <1>5 DEF QuietlyKept

(* The chosen request was cancelled or expired in the meantime.            *)
LEMMA AdmitTooLateKeeps ==
  ASSUME IInv, AdmitTooLate
  PROVE  IInv'
<1> USE DEF IInv
<1> DEFINE c == choice.id
<1>1. /\ pc = "admitting" /\ pending' = pending \ {c} /\ cancelled' = cancelled \ {c}
      /\ lane_plans' = With(lane_plans, {c}, NoPlans)
      /\ protection' = ClearProtectionIfHead({c}) /\ choice' = NoChoice
      /\ pc' \in {"decode", "boundary"}
      /\ UNCHANGED <<requestVars, laneVars, prefill_lane, next_epoch,
                     previous_unit_was_decode, queued>>
  BY DEF AdmitTooLate, LeaveQueue, AfterAdmission
<1> HIDE DEF c
<1>2. queued = {} /\ prefill_lane = 0
  BY <1>1 DEF ControlState
<1>3. PlansFilled
  BY <1>1, PlansDropped
<1>4. protection' = IF protection.head = c THEN NoProtection ELSE protection
  BY <1>1 DEF ClearProtectionIfHead
<1>5. /\ cancelled' \subseteq pending' \cup ActiveIds /\ queued' \subseteq pending'
      /\ choice' \in ChoiceRecords /\ next_epoch' \in Nat \ {0}
      /\ protection' \in ProtectionRecords /\ protection'.donors \subseteq protection'.incumbents
  <2>1. /\ cancelled \subseteq pending \cup ActiveIds /\ next_epoch \in Nat \ {0}
        /\ protection \in ProtectionRecords /\ protection.donors \subseteq protection.incumbents
    BY DEF TypeOK
  <2>2. protection' \in ProtectionRecords /\ protection'.donors \subseteq protection'.incumbents
    <3>1. NoProtection \in ProtectionRecords /\ NoProtection.donors \subseteq NoProtection.incumbents
      BY BlankTypes DEF NoProtection
    <3> QED BY <1>4, <2>1, <3>1
  <2> QED BY <1>1, <1>2, <2>1, <2>2, BlankTypes
<1>6. QuietStep
  BY <1>1, <1>3, <1>5 DEF QuietStep
<1>7. QuietlyKept
  BY <1>6, QuietStepKeeps
<1>8. ControlState' /\ ChoiceStands'
  BY <1>1, <1>2 DEF ControlState, ChoiceStands
<1>9. HeadProtected'
  <2>1. CASE protection.head = c
    BY <1>4, <2>1, ProtectionCleared
  <2>2. CASE protection.head # c
    <3>1. SameReservation /\ protection' = protection /\ protection.incumbents \cap pending' = {}
      BY <1>1, <1>4, <2>2 DEF SameReservation, HeadProtected
    <3>2. ASSUME protection.head # 0 PROVE pending' # {} /\ QueueHead' = QueueHead
      <4>1. pending # {} /\ QueueHead = protection.head
        BY <3>2 DEF HeadProtected
      <4>2. QueueHead \in pending'
        BY <1>1, <2>2, <4>1, HeadWaits
      <4> QED BY <1>1, <1>7, <4>1, <4>2, HeadStays DEF QuietlyKept
    <3> QED BY <1>7, <3>1, <3>2, ProtectionStays DEF QuietlyKept
  <2> QED BY <2>1, <2>2
<1> QED BY <1>7, <1>8, <1>9 DEF QuietlyKept

-----------------------------------------------------------------------------
(* The steps that settle lanes: boundaries, prefill steps, decode rounds.  *)

WorkCovers(slot) ==
    IF slot.ready
    THEN slot.budget >= 1 /\ slot.work >= slot.budget
    ELSE slot.work >= StepsLeft(slot.id, slot.cursor) + slot.budget - 1

(* The page entitlement that a finished lane keeps is within the one it    *)
(* was admitted with.                                                      *)
LEMMA MappedWithinNeed ==
  ASSUME TypeOK, NEW slot, slot.id \in 1 .. submitted, Plannable(slot.id),
         slot.budget \in 0 .. EffectiveOutput(slot.id)
  PROVE  /\ Frontier(slot) \in Nat
         /\ MappedPages(slot) \in [PageKinds -> Nat]
         /\ \A k \in PageKinds : MappedPages(slot)[k] <= Need(slot.id)[k]
<1> DEFINE r == slot.id
           f == Frontier(slot)
<1>1. shape[r].prompt \in Nat \ {0}
  BY ShapeOf
<1>2. EffectiveOutput(r) \in Nat
  BY Reservation
<1>3. f \in 0 .. ReservedTokens(shape[r])
  BY <1>1, <1>2 DEF Frontier, ReservedTokens, EffectiveOutput
<1>4. ReservedTokens(shape[r]) \in Nat
  BY Reservation
<1>5. /\ Need(r) \in [Kinds -> Nat]
      /\ PagesForTokens(f) <= Need(r)["main_kv_pages"]
      /\ BackendPages # 0 => PagesForTokens(f) <= Need(r)["backend_kv_pages"]
  BY <1>3, NeedOf
<1>6. PagesForTokens(f) \in Nat
  BY <1>3, <1>4, PagesType
<1>7. MappedPages(slot) = [main_kv_pages |-> PagesForTokens(f),
                           backend_kv_pages |-> IF BackendPages = 0 THEN 0 ELSE PagesForTokens(f)]
  BY DEF MappedPages
<1> HIDE DEF f
<1>8. "main_kv_pages" \in Kinds /\ "backend_kv_pages" \in Kinds
  BY DEF Kinds
<1> HIDE DEF r
<1>9. /\ MappedPages(slot) \in [PageKinds -> Nat]
      /\ \A k \in PageKinds : MappedPages(slot)[k] <= Need(r)[k]
  BY <1>5, <1>6, <1>7, <1>8 DEF PageKinds
<1> QED BY <1>3, <1>4, <1>9 DEF f, r

(* The pools hold while entitlements only shrink.                          *)
LEMMA EntitlementsShrink ==
  ASSUME TypeOK, PoolsNeverOvercommitted, entitled' \in [Lanes -> [PageKinds -> Nat]],
         NEW k \in PageKinds, \A l \in Lanes : entitled'[l][k] <= entitled[l][k]
  PROVE  Total([l \in Lanes |-> entitled'[l][k]]) <= AdmissionCapacity'[k]
<1> DEFINE now == [l \in Lanes |-> entitled'[l][k]]
           old == [l \in Lanes |-> entitled[l][k]]
           same == [l \in Lanes |-> l]
<1>1. now \in [Lanes -> Nat] /\ old \in [Lanes -> Nat] /\ \A l \in Lanes : now[l] <= old[l]
  BY DEF TypeOK
<1>2. same \in [Lanes -> Lanes] /\ \A l \in Lanes : same[l] = l
  OBVIOUS
<1>3. Total(old) <= AdmissionCapacity[k]
  BY DEF PoolsNeverOvercommitted
<1>4. AdmissionCapacity[k] \in Nat /\ AdmissionCapacity' = AdmissionCapacity
  BY CapacityType DEF AdmissionCapacity, Kinds, PageKinds
<1> HIDE DEF now, old, same
<1>5. Total(now) <= Total(old) /\ Total(now) \in Nat /\ Total(old) \in Nat
  <2>1. \A l \in Lanes : now[l] <= old[same[l]]
    BY <1>1, <1>2
  <2>2. \A x, y \in Lanes : same[x] = same[y] => x = y
    BY <1>2
  <2>3. Total(now) <= Total(old)
    BY <1>1, <1>2, <2>1, <2>2, LanesFinite, TotalInjected
  <2> QED BY <1>1, <2>3, LanesFinite, TotalIsNat
<1>6. Total(now) <= AdmissionCapacity'[k]
  BY <1>3, <1>4, <1>5
<1> QED BY <1>6 DEF now

(* What TypeOK says of the lanes and the plans.                            *)
LaneTypes ==
    /\ slots \in [Lanes -> SlotRecords]
    /\ retained \in [Lanes -> [id : 0 .. submitted, frontier : Nat, checkpoint : Nat]]
    /\ entitled \in [Lanes -> [PageKinds -> Nat]]
    /\ lane_plans \in [Requests -> [Lanes -> Nat \cup {NoPlan}]]
    /\ cancelled \subseteq pending \cup ActiveIds

(* Settle keeps the lanes, the plans and the pools in order.               *)
LEMMA SettleKeeps ==
  ASSUME IInv, NEW s \in [Lanes -> SlotRecords], NEW dead \in SUBSET ActiveLanes,
         NEW done \in SUBSET ActiveLanes, NEW gone \in SUBSET pending,
         Settle(s, dead, done, gone), pending' = pending \ gone, UNCHANGED requestVars,
         \A l \in Lanes : /\ s[l].id = slots[l].id /\ s[l].epoch = slots[l].epoch
                          /\ s[l].class = slots[l].class,
         \A l \in ActiveLanes \ (dead \cup done) : ProgressOf(s[l]) /\ WorkCovers(s[l]),
         \A l \in done : s[l].budget \in 0 .. EffectiveOutput(s[l].id)
  PROVE  /\ LaneTypes'
         /\ ActiveLanes' = ActiveLanes \ (dead \cup done)
         /\ \A l \in ActiveLanes' : slots'[l] = s[l]
         /\ RequestsStay /\ LanesOnlyLeave
         /\ PlansMatchLanes' /\ NoEarlyPlans'
         /\ LaneProgress' /\ ServiceWorkSuffices' /\ PoolsNeverOvercommitted'
<1> USE DEF IInv
<1> DEFINE left == dead \cup done
<1>0. /\ submitted' = submitted /\ shape' = shape /\ submitted \in Nat
      /\ ActiveLanes \subseteq Lanes /\ FreeLanes \subseteq Lanes
      /\ \A l \in Lanes : l \in ActiveLanes <=> slots[l].id # 0
  BY SubmittedIsNat, ActiveIffId DEF requestVars
<1>1. /\ slots' = [l \in Lanes |-> IF l \in left THEN EmptySlot ELSE s[l]]
      /\ retained' = [l \in Lanes |->
            IF l \in dead THEN NoSequence
            ELSE IF l \in done THEN [id |-> s[l].id, frontier |-> Frontier(s[l]),
                                     checkpoint |-> s[l].checkpoint]
            ELSE retained[l]]
      /\ entitled' = [l \in Lanes |->
            IF l \in dead THEN NoPages
            ELSE IF l \in done THEN MappedPages(s[l]) ELSE entitled[l]]
      /\ cancelled' = cancelled \ (gone \cup {s[l].id : l \in left})
  BY DEF Settle, With
<1>2. lane_plans' = [r \in Requests |->
         IF r \in gone THEN NoPlans
         ELSE [l \in Lanes |-> IF l \in left THEN NoPlan ELSE lane_plans[r][l]]]
  BY DEF Settle, With, InvalidateLanePlans
<1>3. EmptySlot \in SlotRecords /\ EmptySlot.id = 0
  BY <1>0 DEF EmptySlot, SlotRecords, Classes
<1>4. \A l \in Lanes : slots'[l].id # 0 <=> l \in ActiveLanes /\ l \notin left
  <2> HIDE DEF EmptySlot, left
  <2> QED BY <1>0, <1>1, <1>3
<1>5. ActiveLanes' = ActiveLanes \ left /\ FreeLanes' = FreeLanes \cup left
  BY <1>0, <1>4 DEF ActiveLanes, FreeLanes
<1>6. \A l \in ActiveLanes' : slots'[l] = s[l]
  BY <1>0, <1>1, <1>5
<1>7. RequestsStay
  BY ShapesStay
<1>8. LanesOnlyLeave
  BY <1>0, <1>5, <1>6 DEF LanesOnlyLeave
<1>9. ASSUME NEW l \in done
      PROVE  /\ l \in Lanes /\ s[l].id \in 1 .. submitted
             /\ Frontier(s[l]) \in Nat /\ MappedPages(s[l]) \in [PageKinds -> Nat]
             /\ \A k \in PageKinds : MappedPages(s[l])[k] <= entitled[l][k]
  <2>1. l \in Lanes /\ l \in ActiveLanes /\ s[l].id = slots[l].id
    BY <1>0
  <2>2. slots[l].id \in 1 .. submitted /\ Plannable(slots[l].id)
    BY <2>1 DEF LaneProgress, ProgressOf, Runnable
  <2>3. \A k \in PageKinds : entitled[l][k] = Need(s[l].id)[k]
    BY <2>1 DEF PoolsNeverOvercommitted
  <2> QED BY <2>1, <2>2, <2>3, MappedWithinNeed
<1>10. LaneTypes'
  <2>1. slots' \in [Lanes -> SlotRecords'] /\ SlotRecords' = SlotRecords
    <3>1. SlotRecords' = SlotRecords
      BY <1>0 DEF SlotRecords
    <3> HIDE DEF EmptySlot
    <3> QED BY <1>1, <1>3, <3>1
  <2>2. retained' \in [Lanes -> [id : 0 .. submitted, frontier : Nat, checkpoint : Nat]]
    <3> DEFINE kind == [id : 0 .. submitted, frontier : Nat, checkpoint : Nat]
    <3>1. \A l \in Lanes : retained[l] \in kind
      BY DEF TypeOK
    <3>2. NoSequence \in kind
      BY <1>0 DEF NoSequence
    <3>3. \A l \in done : [id |-> s[l].id, frontier |-> Frontier(s[l]),
                           checkpoint |-> s[l].checkpoint] \in kind
      BY <1>0, <1>9 DEF SlotRecords
    <3> HIDE DEF kind
    <3>4. retained' \in [Lanes -> kind]
      BY <1>1, <3>1, <3>2, <3>3
    <3> QED BY <3>4 DEF kind
  <2>3. entitled' \in [Lanes -> [PageKinds -> Nat]]
    <3>1. \A l \in Lanes : entitled[l] \in [PageKinds -> Nat]
      BY DEF TypeOK
    <3>2. NoPages \in [PageKinds -> Nat]
      BY DEF NoPages
    <3> HIDE DEF NoPages
    <3> QED BY <1>1, <1>9, <3>1, <3>2
  <2>4. lane_plans' \in [Requests -> [Lanes -> Nat \cup {NoPlan}]]
    BY <1>2 DEF NoPlans, TypeOK
  <2>5. cancelled' \subseteq pending' \cup ActiveIds'
    <3> SUFFICES ASSUME NEW c \in cancelled' PROVE c \in pending' \cup ActiveIds'
      OBVIOUS
    <3>1. c \in cancelled /\ c \notin gone /\ \A l \in left : c # s[l].id
      BY <1>1
    <3>2. c \in pending \cup ActiveIds
      BY <3>1 DEF TypeOK
    <3>3. CASE c \in pending
      BY <3>1, <3>3
    <3>4. CASE c \in ActiveIds
      <4>1. PICK l \in ActiveLanes : c = slots[l].id
        BY <3>4 DEF ActiveIds
      <4>2. l \notin left
        BY <1>0, <3>1, <4>1
      <4>3. l \in ActiveLanes' /\ slots'[l].id = c
        BY <1>0, <1>5, <1>6, <4>1, <4>2
      <4> QED BY <4>3 DEF ActiveIds
    <3> QED BY <3>2, <3>3, <3>4
  <2> QED BY <1>0, <2>1, <2>2, <2>3, <2>4, <2>5 DEF LaneTypes
<1>11. PlansMatchLanes' /\ NoEarlyPlans'
  <2>1. ASSUME NEW r \in Requests, NEW l \in Lanes
        PROVE  \/ lane_plans'[r][l] = NoPlan
               \/ /\ lane_plans'[r][l] = lane_plans[r][l]
                  /\ l \in FreeLanes' => l \in FreeLanes /\ retained'[l] = retained[l]
    <3>1. CASE r \in gone \/ l \in left
      BY <1>2, <3>1 DEF NoPlans
    <3>2. CASE r \notin gone /\ l \notin left
      BY <1>1, <1>2, <1>5, <3>2
    <3> QED BY <3>1, <3>2
  <2>2. submitted' \in Nat /\ submitted <= submitted'
    BY <1>0
  <2>3. lane_plans' \in [Requests -> [Lanes -> Nat \cup {NoPlan}]]
    BY <1>10 DEF LaneTypes
  <2> QED BY <1>7, <2>1, <2>2, <2>3, PlansKept
<1>12. LaneProgress'
  <2> SUFFICES ASSUME NEW l \in ActiveLanes' PROVE ProgressOf(slots[l])'
    BY DEF LaneProgress
  <2>1. slots'[l] = s[l] /\ ProgressOf(s[l])
    BY <1>5, <1>6
  <2>2. AdmissionCapacity' = AdmissionCapacity
    BY DEF AdmissionCapacity
  <2>3. \A r : /\ Need(r)' = Need(r) /\ Plannable(r)' = Plannable(r)
               /\ EffectiveOutput(r)' = EffectiveOutput(r)
    BY <1>0, PlanStays
  <2> QED BY <1>0, <2>1, <2>2, <2>3 DEF ProgressOf, Runnable, Fits
<1>13. ServiceWorkSuffices'
  <2> SUFFICES ASSUME NEW l \in ActiveLanes' PROVE WorkCovers(slots[l])'
    BY DEF ServiceWorkSuffices, WorkCovers
  <2>1. slots'[l] = s[l] /\ WorkCovers(s[l])
    BY <1>5, <1>6
  <2>2. \A r, c : StepsLeft(r, c)' = StepsLeft(r, c)
    BY <1>0, PlanStays
  <2> QED BY <2>1, <2>2 DEF WorkCovers
<1>14. PoolsNeverOvercommitted'
  <2>1. ASSUME NEW k \in PageKinds
        PROVE  Total([l \in Lanes |-> entitled'[l][k]]) <= AdmissionCapacity'[k]
    <3>1. ASSUME NEW l \in Lanes PROVE entitled'[l][k] <= entitled[l][k]
      <4>1. entitled[l][k] \in Nat /\ entitled'[l][k] \in Nat
        BY <1>10 DEF TypeOK, LaneTypes
      <4>2. CASE l \in dead
        BY <1>1, <4>1, <4>2 DEF NoPages
      <4>3. CASE l \notin dead /\ l \in done
        <5>1. entitled'[l] = MappedPages(s[l])
          BY <1>1, <4>3
        <5>2. MappedPages(s[l])[k] <= entitled[l][k]
          BY <1>9, <4>3
        <5> QED BY <4>1, <5>1, <5>2
      <4>4. CASE l \notin dead /\ l \notin done
        BY <1>1, <4>1, <4>4
      <4> QED BY <4>1, <4>2, <4>3, <4>4
    <3> QED BY <1>10, <3>1, EntitlementsShrink DEF LaneTypes
  <2>2. ASSUME NEW l \in ActiveLanes', NEW k \in PageKinds
        PROVE  entitled'[l][k] = Need(slots[l].id)'[k]
    <3>1. l \in ActiveLanes /\ l \notin left /\ slots'[l].id = slots[l].id /\ l \in Lanes
      BY <1>0, <1>5, <1>6
    <3>2. entitled'[l] = entitled[l]
      BY <1>1, <3>1
    <3>3. \A r : Need(r)' = Need(r)
      BY <1>0, PlanStays
    <3> QED BY <3>1, <3>2, <3>3 DEF PoolsNeverOvercommitted
  <2>3. ASSUME NEW l \in FreeLanes', retained'[l].id = 0
        PROVE  entitled'[l] = NoPages
    <3>1. l \in Lanes
      BY DEF FreeLanes
    <3>2. CASE l \in dead
      BY <1>1, <3>1, <3>2
    <3>3. CASE l \notin dead /\ l \in done
      <4>1. retained'[l].id = s[l].id
        BY <1>1, <3>1, <3>3
      <4>2. s[l].id \in 1 .. submitted
        BY <1>9, <3>3
      <4> QED BY <1>0, <2>3, <4>1, <4>2
    <3>4. CASE l \notin dead /\ l \notin done
      <4>1. l \in FreeLanes /\ retained'[l] = retained[l] /\ entitled'[l] = entitled[l]
        BY <1>1, <1>5, <3>1, <3>4
      <4> QED BY <2>3, <4>1 DEF PoolsNeverOvercommitted
    <3> QED BY <3>2, <3>3, <3>4
  <2> QED BY <2>1, <2>2, <2>3 DEF PoolsNeverOvercommitted, NoPages
<1> QED BY <1>5, <1>6, <1>7, <1>8, <1>10, <1>11, <1>12, <1>13, <1>14

(* What SettleKeeps gives, and how a step that settles lanes ends: the     *)
(* worker is back at a boundary or goes on to its next unit, with nothing  *)
(* chosen.                                                                 *)
Settled ==
    /\ LaneTypes' /\ RequestsStay /\ LanesOnlyLeave
    /\ PlansMatchLanes' /\ NoEarlyPlans'
    /\ LaneProgress' /\ ServiceWorkSuffices' /\ PoolsNeverOvercommitted'

UnitEnds ==
    /\ UNCHANGED <<requestVars, next_epoch>>
    /\ pc' \in {"boundary", "decode", "prefill", "admit"}
    /\ pending' \subseteq pending /\ queued' = {} /\ choice' = NoChoice
    /\ previous_unit_was_decode' \in BOOLEAN
    /\ prefill_lane' \in {0} \cup ActiveLanes'
    /\ \A l \in ActiveLanes' : ~ slots'[l].ready <=> l = prefill_lane'
    /\ pc' = "prefill" => prefill_lane' # 0
    /\ pc' = "admit" => prefill_lane' = 0
    /\ \/ protection' = NoProtection
       \/ protection' = protection /\ (protection.head # 0 => protection.head \in pending')

(* A step that settles lanes and ends like that keeps IInv.                *)
LEMMA UnitEndsKeeps ==
  ASSUME IInv, Settled, UnitEnds
  PROVE  IInv'
<1> USE DEF IInv
<1>1. submitted' = submitted /\ shape' = shape /\ next_epoch' = next_epoch /\ submitted \in Nat
  BY SubmittedIsNat DEF UnitEnds, requestVars
<1>2. ActiveLanes' \subseteq Lanes /\ ActiveLanes' \subseteq ActiveLanes
  BY DEF Settled, LanesOnlyLeave, ActiveLanes
<1>3. TypeOK'
  <2>1. ProtectionRecords' = ProtectionRecords /\ ChoiceRecords' = ChoiceRecords
    BY <1>1 DEF ProtectionRecords, ChoiceRecords
  <2>2. protection' \in ProtectionRecords /\ protection'.donors \subseteq protection'.incumbents
    <3>1. NoProtection \in ProtectionRecords /\ NoProtection.donors \subseteq NoProtection.incumbents
      BY BlankTypes DEF NoProtection
    <3>2. protection \in ProtectionRecords /\ protection.donors \subseteq protection.incumbents
      BY DEF TypeOK
    <3> QED BY <3>1, <3>2 DEF UnitEnds
  <2>3. pending' \subseteq 1 .. submitted /\ queued' \subseteq pending'
    BY DEF TypeOK, UnitEnds
  <2>4. pc' \in {"boundary", "prefill", "decode", "admit", "scan", "admitting", "first_step",
                 "failed"}
    BY DEF UnitEnds
  <2>5. choice' \in ChoiceRecords
    BY BlankTypes DEF UnitEnds
  <2>6. prefill_lane' \in {0} \cup Lanes /\ previous_unit_was_decode' \in BOOLEAN
    BY <1>2 DEF UnitEnds
  <2>7. /\ next_epoch \in Nat \ {0} /\ submitted \in 0 .. NumRequests
        /\ shape \in Seq(Shapes) /\ Len(shape) = submitted
    BY DEF TypeOK
  <2>8. LaneTypes'
    BY DEF Settled
  <2> QED BY <1>1, <2>1, <2>2, <2>3, <2>4, <2>5, <2>6, <2>7, <2>8 DEF TypeOK, LaneTypes
<1>4. OneStagedPrefill'
  <2>1. \A l \in ActiveLanes' : slots'[l].id = slots[l].id
    BY DEF Settled, LanesOnlyLeave
  <2>2. ActiveIds' \subseteq ActiveIds
    BY <1>2, <2>1 DEF ActiveIds
  <2>3. pending' \cap ActiveIds' = {}
    BY <2>2 DEF OneStagedPrefill, UnitEnds
  <2>4. \A l, m \in ActiveLanes' : slots'[l].id = slots'[m].id => l = m
    BY <1>2, <2>1 DEF OneStagedPrefill
  <2>5. prefill_lane' # 0 => slots'[prefill_lane'].id # 0
    BY DEF UnitEnds, ActiveLanes, FreeLanes
  <2>6. pc' # "first_step"
    BY DEF UnitEnds
  <2> QED BY <2>3, <2>4, <2>5, <2>6 DEF OneStagedPrefill, UnitEnds
<1>5. ControlState' /\ ChoiceStands'
  BY DEF UnitEnds, ControlState, ChoiceStands
<1>6. HeadProtected'
  <2>1. CASE protection' = NoProtection
    BY <2>1, ProtectionCleared
  <2>2. CASE protection' = protection /\ (protection.head # 0 => protection.head \in pending')
    <3>1. SameReservation /\ protection.incumbents \cap pending' = {}
      BY <2>2 DEF SameReservation, HeadProtected, UnitEnds
    <3>2. ASSUME protection.head # 0 PROVE pending' # {} /\ QueueHead' = QueueHead
      <4>1. pending # {} /\ QueueHead = protection.head
        BY <3>2 DEF HeadProtected
      <4> QED BY <1>3, <2>2, <3>2, <4>1, HeadStays DEF UnitEnds
    <3> QED BY <1>3, <1>4, <2>2, <3>1, <3>2, ProtectionStays DEF Settled
  <2> QED BY <2>1, <2>2 DEF UnitEnds
<1> QED BY <1>3, <1>4, <1>5, <1>6 DEF Settled

(* The top of the loop: cancelled lanes and late or cancelled requests go. *)
LEMMA BoundaryKeeps ==
  ASSUME IInv, Boundary
  PROVE  IInv'
<1> USE DEF IInv
<1> DEFINE dead == {l \in ActiveLanes : slots[l].id \in cancelled}
<1>1. PICK late \in SUBSET ((pending \cap Hurried) \ cancelled) :
         /\ Settle(slots, dead, {}, (pending \cap cancelled) \cup late)
         /\ prefill_lane' = IF prefill_lane \in dead THEN 0 ELSE prefill_lane
         /\ pending' = pending \ ((pending \cap cancelled) \cup late)
         /\ protection' = ClearProtectionIfHead((pending \cap cancelled) \cup late)
  BY DEF Boundary
<1> DEFINE gone == (pending \cap cancelled) \cup late
<1>2. /\ pc = "boundary" /\ pc' = AfterBoundary(slots', pending', prefill_lane')
      /\ UNCHANGED <<requestVars, next_epoch, previous_unit_was_decode, scanVars>>
  BY DEF Boundary
<1>3. dead \in SUBSET ActiveLanes /\ gone \in SUBSET pending
  OBVIOUS
<1>4. /\ Settle(slots, dead, {}, gone) /\ pending' = pending \ gone
      /\ prefill_lane' = IF prefill_lane \in dead THEN 0 ELSE prefill_lane
      /\ protection' = ClearProtectionIfHead(gone)
  BY <1>1
<1> HIDE DEF dead, gone
<1>5. slots \in [Lanes -> SlotRecords]
  BY DEF TypeOK
<1>6. \A l \in ActiveLanes \ (dead \cup {}) : ProgressOf(slots[l]) /\ WorkCovers(slots[l])
  BY DEF LaneProgress, ServiceWorkSuffices, WorkCovers
<1>7. /\ Settled /\ ActiveLanes' = ActiveLanes \ dead
      /\ \A l \in ActiveLanes' : slots'[l] = slots[l]
  <2>1. {} \in SUBSET ActiveLanes /\ \A l \in {} : slots[l].budget \in 0 .. EffectiveOutput(slots[l].id)
    OBVIOUS
  <2>2. UNCHANGED requestVars
    BY <1>2
  <2>3. ActiveLanes \ (dead \cup {}) = ActiveLanes \ dead
    OBVIOUS
  <2> QED BY <1>3, <1>4, <1>5, <1>6, <2>1, <2>2, <2>3, SettleKeeps DEF Settled
<1>8. /\ prefill_lane \in {0} \cup ActiveLanes
      /\ \A l \in ActiveLanes : ~ slots[l].ready <=> l = prefill_lane
  <2>1. prefill_lane \in {0} \cup Lanes
    BY DEF TypeOK
  <2> QED BY <1>2, <2>1, ActiveIffId DEF OneStagedPrefill
<1>9. /\ prefill_lane' \in {0} \cup ActiveLanes'
      /\ \A l \in ActiveLanes' : ~ slots'[l].ready <=> l = prefill_lane'
  <2>1. 0 \notin Lanes /\ ActiveLanes \subseteq Lanes
    BY DEF Lanes, ActiveLanes
  <2> QED BY <1>4, <1>7, <1>8, <2>1
<1>10. /\ pc' \in {"boundary", "decode", "prefill", "admit"}
       /\ pc' = "prefill" => prefill_lane' # 0
       /\ pc' = "admit" => prefill_lane' = 0
  BY <1>2 DEF AfterBoundary
<1>11. \/ protection' = NoProtection
       \/ protection' = protection /\ (protection.head # 0 => protection.head \in pending')
  <2>1. CASE protection.head \in gone
    BY <1>4, <2>1 DEF ClearProtectionIfHead
  <2>2. CASE protection.head \notin gone
    <3>1. protection' = protection
      BY <1>4, <2>2 DEF ClearProtectionIfHead
    <3>2. protection.head # 0 => protection.head \in pending
      BY HeadWaits DEF HeadProtected
    <3> QED BY <1>4, <2>2, <3>1, <3>2
  <2> QED BY <2>1, <2>2
<1>12. queued' = {} /\ choice' = NoChoice /\ previous_unit_was_decode' \in BOOLEAN
  BY <1>2 DEF ControlState, scanVars, TypeOK
<1>13. UnitEnds
  BY <1>2, <1>4, <1>9, <1>10, <1>11, <1>12 DEF UnitEnds
<1> QED BY <1>7, <1>13, UnitEndsKeeps

(* One prefill step.  A lane that is not ready after it is the staged one. *)
LEMMA PrefillStepKeeps ==
  ASSUME IInv, NEW l \in ActiveLanes, ~ slots[l].ready, PrefillStep(l),
         \A m \in ActiveLanes : ~ slots[m].ready => m = l,
         prefill_lane \in {0, l},
         slots[l].cursor # shape[slots[l].id].prompt => prefill_lane = l,
         UNCHANGED <<requestVars, pending, policyVars>>,
         pc' = "boundary", queued' = {}, choice' = NoChoice,
         previous_unit_was_decode' = FALSE
  PROVE  IInv'
<1> USE DEF IInv
<1> DEFINE r    == slots[l].id
           next == NextCursor(r, slots[l].cursor)
           full == next = shape[r].prompt
           left == IF full THEN slots[l].budget - 1 ELSE slots[l].budget
           new  == [id |-> r, work |-> slots[l].work - 1, budget |-> left, cursor |-> next,
                    ready |-> full, checkpoint |-> slots[l].checkpoint,
                    epoch |-> slots[l].epoch, class |-> slots[l].class]
           step == [m \in Lanes |-> IF m = l THEN new ELSE slots[m]]
           old  == [slots EXCEPT ![l].work = @ - 1, ![l].cursor = next,
                                 ![l].budget = IF full THEN @ - 1 ELSE @, ![l].ready = full]
<1>1. l \in Lanes /\ 0 \notin Lanes /\ ActiveLanes \subseteq Lanes
  BY DEF ActiveLanes, Lanes
<1>2. slots \in [Lanes -> SlotRecords] /\ slots[l] \in SlotRecords
  BY <1>1 DEF TypeOK
<1>3. old = step
  <2>1. old[l] = new
    BY <1>1, <1>2 DEF SlotRecords
  <2>2. old = [slots EXCEPT ![l] = old[l]]
    BY <1>1, <1>2
  <2> HIDE DEF old, new
  <2> QED BY <1>1, <1>2, <2>1, <2>2
<1>4. /\ r \in 1 .. submitted /\ Plannable(r) /\ EffectiveOutput(r) \in Nat \ {0}
      /\ slots[l].cursor \in 0 .. shape[r].prompt /\ shape[r].prompt \in Nat
      /\ slots[l].budget = EffectiveOutput(r)
      /\ Runnable(r)
  <2>1. ProgressOf(slots[l])
    BY DEF LaneProgress
  <2>2. r \in 1 .. submitted /\ Plannable(r) /\ Runnable(r)
    BY <2>1 DEF ProgressOf, Runnable
  <2>3. shape[r].prompt \in Nat
    BY <2>2, ShapeOf
  <2>4. slots[l].cursor \in Nat /\ slots[l].cursor <= shape[r].prompt
    BY <1>2, <2>1 DEF SlotRecords, ProgressOf
  <2>5. slots[l].budget = EffectiveOutput(r)
    BY <2>1 DEF ProgressOf
  <2> HIDE DEF r
  <2>6. EffectiveOutput(r) \in Nat \ {0}
    BY <2>2, Reservation
  <2> QED BY <2>2, <2>3, <2>4, <2>5, <2>6
<1>5. /\ slots[l].work \in Nat
      /\ slots[l].work >= StepsLeft(r, slots[l].cursor) + slots[l].budget - 1
      /\ StepsLeft(r, slots[l].cursor) \in Nat \ {0}
  <2>1. slots[l].work \in Nat
    BY <1>2 DEF SlotRecords
  <2>2. slots[l].work >= StepsLeft(r, slots[l].cursor) + slots[l].budget - 1
    BY DEF ServiceWorkSuffices
  <2> QED BY <1>4, <2>1, <2>2, StepsLeftType
<1>6. /\ next \in 0 .. shape[r].prompt
      /\ ~ full => StepsLeft(r, next) + 1 <= StepsLeft(r, slots[l].cursor)
      /\ ~ full => prefill_lane = l
  BY <1>4, CursorAdvances
<1>7. /\ new.id = r /\ new.work = slots[l].work - 1 /\ new.budget = left /\ new.cursor = next
      /\ new.ready = full /\ new.epoch = slots[l].epoch /\ new.class = slots[l].class
      /\ new.checkpoint = slots[l].checkpoint
  OBVIOUS
<1>8. left \in 0 .. EffectiveOutput(r) /\ (~ full => left = EffectiveOutput(r))
  BY <1>4
<1>9. new \in SlotRecords
  <2>1. /\ slots[l].checkpoint \in Nat /\ slots[l].epoch \in Nat /\ slots[l].class \in Classes
        /\ slots[l].id \in 0 .. submitted
    BY <1>2 DEF SlotRecords
  <2>2. left \in Nat /\ slots[l].work - 1 \in Nat /\ next \in Nat
    BY <1>4, <1>5, <1>6, <1>8
  <2>3. full \in BOOLEAN
    OBVIOUS
  <2> HIDE DEF next, full, left
  <2> QED BY <2>1, <2>2, <2>3 DEF SlotRecords
<1>10. /\ \/ r \in cancelled /\ Settle(step, {l}, {}, {})
          \/ r \notin cancelled /\ ~ full /\ Settle(step, {}, {}, {})
          \/ r \notin cancelled /\ full /\ step[l].budget # 0 /\ Settle(step, {}, {}, {})
          \/ r \notin cancelled /\ full /\ Settle(step, {}, {l}, {})
       /\ prefill_lane' = IF prefill_lane = l /\ (full \/ r \in cancelled)
                          THEN 0 ELSE prefill_lane
  <2>1. /\ \/ r \in cancelled /\ Settle(old, {l}, {}, {})
           \/ r \notin cancelled /\ ~ full /\ Settle(old, {}, {}, {})
           \/ r \notin cancelled /\ full /\ old[l].budget # 0 /\ Settle(old, {}, {}, {})
           \/ r \notin cancelled /\ full /\ Settle(old, {}, {l}, {})
        /\ prefill_lane' = IF prefill_lane = l /\ (full \/ r \in cancelled)
                           THEN 0 ELSE prefill_lane
    BY DEF PrefillStep
  <2> HIDE DEF old, step, full
  <2> QED BY <1>3, <2>1
<1>11. /\ step \in [Lanes -> SlotRecords] /\ step[l] = new
       /\ \A m \in Lanes \ {l} : step[m] = slots[m]
       /\ \A m \in Lanes : /\ step[m].id = slots[m].id /\ step[m].epoch = slots[m].epoch
                           /\ step[m].class = slots[m].class
  <2> HIDE DEF new
  <2> QED BY <1>1, <1>2, <1>7, <1>9
<1>12. ASSUME NEW m \in ActiveLanes, m # l
       PROVE  ProgressOf(step[m]) /\ WorkCovers(step[m]) /\ step[m].ready
  <2>1. step[m] = slots[m]
    BY <1>1, <1>11, <1>12
  <2> QED BY <1>12, <2>1 DEF LaneProgress, ServiceWorkSuffices, WorkCovers
<1>13. ASSUME left # 0 PROVE ProgressOf(new) /\ WorkCovers(new)
  <2>1. ProgressOf(new)
    <3>1. left \in 1 .. EffectiveOutput(r)
      BY <1>4, <1>8, <1>13
    <3>2. next <= shape[r].prompt
      BY <1>4, <1>6
    <3>3. new.ready \/ new.budget = EffectiveOutput(r)
      BY <1>7, <1>8
    <3> HIDE DEF new, left, next, full
    <3> QED BY <1>4, <1>7, <3>1, <3>2, <3>3 DEF ProgressOf
  <2>2. CASE full
    <3>1. left >= 1 /\ slots[l].work - 1 >= left
      BY <1>4, <1>5, <1>13, <2>2
    <3> HIDE DEF new, left, next
    <3> QED BY <1>7, <2>1, <2>2, <3>1 DEF WorkCovers
  <2>3. CASE ~ full
    <3>1. StepsLeft(r, next) \in Nat
      BY <1>4, <1>6, StepsLeftType
    <3>2. slots[l].work - 1 >= StepsLeft(r, next) + left - 1
      BY <1>4, <1>5, <1>6, <2>3, <3>1
    <3> HIDE DEF new, left, next
    <3> QED BY <1>7, <2>1, <2>3, <3>2 DEF WorkCovers
  <2> QED BY <2>2, <2>3
<1>14. ASSUME NEW dead \in SUBSET {l}, NEW done \in SUBSET {l},
              Settle(step, dead, done, {}), l \notin dead \cup done => left # 0,
              l \in dead <=> r \in cancelled, l \in done => full
       PROVE  IInv'
  <2>1. dead \in SUBSET ActiveLanes /\ done \in SUBSET ActiveLanes /\ {} \in SUBSET pending
    OBVIOUS
  <2>2. pending' = pending \ {} /\ UNCHANGED requestVars /\ pending' = pending
    OBVIOUS
  <2>3. \A m \in ActiveLanes \ (dead \cup done) : ProgressOf(step[m]) /\ WorkCovers(step[m])
    <3> HIDE DEF step, new, left
    <3> QED BY <1>11, <1>12, <1>13, <1>14
  <2>4. \A m \in done : step[m].budget \in 0 .. EffectiveOutput(step[m].id)
    <3> HIDE DEF step, new, left
    <3> QED BY <1>7, <1>8, <1>11
  <2>5. /\ Settled /\ ActiveLanes' = ActiveLanes \ (dead \cup done)
        /\ \A m \in ActiveLanes' : slots'[m] = step[m]
    <3> HIDE DEF step
    <3> QED BY <1>11, <1>14, <2>1, <2>2, <2>3, <2>4, SettleKeeps DEF Settled
  <2>6. /\ prefill_lane' \in {0} \cup ActiveLanes'
        /\ \A m \in ActiveLanes' : ~ slots'[m].ready <=> m = prefill_lane'
    <3> HIDE DEF step, new, full, left
    <3>1. CASE full \/ r \in cancelled
      <4>1. prefill_lane' = 0
        BY <1>10, <3>1
      <4>2. ASSUME NEW m \in ActiveLanes' PROVE slots'[m].ready
        <5>1. CASE m = l
          BY <1>7, <1>11, <1>14, <2>5, <3>1, <5>1
        <5>2. CASE m # l
          BY <1>12, <2>5, <5>2
        <5> QED BY <5>1, <5>2
      <4> QED BY <1>1, <2>5, <4>1, <4>2
    <3>2. CASE ~ full /\ r \notin cancelled
      <4>1. prefill_lane' = l
        BY <1>6, <1>10, <3>2 DEF full
      <4>2. l \in ActiveLanes' /\ ~ slots'[l].ready
        BY <1>7, <1>11, <1>14, <2>5, <3>2
      <4> QED BY <1>12, <2>5, <4>1, <4>2
    <3> QED BY <3>1, <3>2
  <2>7. \/ protection' = NoProtection
        \/ protection' = protection /\ (protection.head # 0 => protection.head \in pending')
    BY HeadWaits DEF HeadProtected, policyVars
  <2>8. UnitEnds
    <3> HIDE DEF step, new, full, left
    <3> QED BY <2>6, <2>7 DEF UnitEnds, policyVars
  <2> QED BY <2>5, <2>8, UnitEndsKeeps
<1> HIDE DEF step, new, old
<1>15. CASE r \in cancelled /\ Settle(step, {l}, {}, {})
  BY <1>14, <1>15
<1>16. CASE r \notin cancelled /\ ~ full /\ Settle(step, {}, {}, {})
  <2>1. left # 0
    BY <1>4, <1>16
  <2>2. r \notin cancelled /\ Settle(step, {}, {}, {})
    BY <1>16
  <2> HIDE DEF left, full
  <2> QED BY <1>14, <2>1, <2>2
<1>17. CASE r \notin cancelled /\ full /\ step[l].budget # 0 /\ Settle(step, {}, {}, {})
  <2>1. left # 0
    BY <1>7, <1>11, <1>17
  <2> HIDE DEF left, full
  <2> QED BY <1>14, <1>17, <2>1
<1>18. CASE r \notin cancelled /\ full /\ Settle(step, {}, {l}, {})
  <2> HIDE DEF left, full
  <2> QED BY <1>14, <1>18
<1> QED BY <1>10, <1>15, <1>16, <1>17, <1>18

(* The prefill step of the staged lane.                                    *)
LEMMA RunPrefillStepKeeps ==
  ASSUME IInv, RunPrefillStep
  PROVE  IInv'
<1> USE DEF IInv
<1>1. /\ pc = "prefill" /\ PrefillStep(prefill_lane) /\ previous_unit_was_decode' = FALSE
      /\ pc' = "boundary" /\ UNCHANGED <<requestVars, pending, policyVars, scanVars>>
  BY DEF RunPrefillStep
<1>2. prefill_lane # 0 /\ prefill_lane \in Lanes /\ queued = {} /\ choice = NoChoice
  BY <1>1 DEF ControlState, TypeOK
<1>3. prefill_lane \in ActiveLanes
  BY <1>2, ActiveIffId DEF OneStagedPrefill
<1>4. \A m \in ActiveLanes : ~ slots[m].ready <=> m = prefill_lane
  BY <1>1 DEF OneStagedPrefill
<1>5. queued' = {} /\ choice' = NoChoice
  BY <1>1, <1>2 DEF scanVars
<1> QED BY <1>1, <1>3, <1>4, <1>5, PrefillStepKeeps

(* The first prefill step of a request that was just admitted.             *)
LEMMA FirstPrefillStepKeeps ==
  ASSUME IInv, FirstPrefillStep
  PROVE  IInv'
<1> USE DEF IInv
<1>1. /\ pc = "first_step" /\ PrefillStep(choice.lane) /\ previous_unit_was_decode' = FALSE
      /\ pc' = "boundary" /\ choice' = NoChoice
      /\ UNCHANGED <<requestVars, pending, policyVars, queued>>
  BY DEF FirstPrefillStep
<1>2. /\ choice.lane \in ActiveLanes /\ ~ slots[choice.lane].ready /\ queued = {}
      /\ prefill_lane \in {0, choice.lane}
      /\ slots[choice.lane].cursor # shape[slots[choice.lane].id].prompt
            => prefill_lane = choice.lane
  BY <1>1 DEF ControlState
<1>3. 0 \notin ActiveLanes
  BY DEF ActiveLanes, Lanes
<1>4. \A m \in ActiveLanes : ~ slots[m].ready => m = choice.lane
  BY <1>1, <1>2, <1>3 DEF OneStagedPrefill
<1> QED BY <1>1, <1>2, <1>4, PrefillStepKeeps

(* A decode round leaves the staged lane alone.                            *)
LEMMA RunDecodeRoundKeeps ==
  ASSUME IInv, RunDecodeRound
  PROVE  IInv'
<1> USE DEF IInv
<1> DEFINE dead == {l \in Membership : slots[l].id \in cancelled}
           live == Membership \ dead
<1>1. PICK accepted \in [Membership -> 1 .. DraftWindow + 1], stopped \in SUBSET Membership :
         LET done == {l \in live : l \in stopped \/ accepted[l] = slots[l].budget}
         IN  /\ \A l \in live : accepted[l] <= slots[l].budget
             /\ Settle([l \in Lanes |->
                          IF l \in live
                          THEN [slots[l] EXCEPT !.work = @ - accepted[l],
                                                !.budget = @ - accepted[l]]
                          ELSE slots[l]], dead, done, {})
  BY DEF RunDecodeRound
<1> DEFINE done == {l \in live : l \in stopped \/ accepted[l] = slots[l].budget}
           step == [l \in Lanes |->
                      IF l \in live
                      THEN [slots[l] EXCEPT !.work = @ - accepted[l],
                                            !.budget = @ - accepted[l]]
                      ELSE slots[l]]
<1>2. Settle(step, dead, done, {}) /\ \A l \in live : accepted[l] <= slots[l].budget
  BY <1>1
<1>3. /\ pc = "decode" /\ pc' = "boundary" /\ previous_unit_was_decode' = TRUE
      /\ UNCHANGED <<requestVars, pending, prefill_lane, policyVars, scanVars>>
  BY DEF RunDecodeRound
<1>4. /\ ActiveLanes \subseteq Lanes /\ Membership \subseteq ActiveLanes
      /\ \A l \in ActiveLanes : l \in Membership <=> slots[l].ready
  BY ActiveIffId DEF Membership, MembershipIn
<1>5. /\ dead \in SUBSET ActiveLanes /\ done \in SUBSET ActiveLanes
      /\ dead \subseteq Membership /\ done \subseteq live /\ live \subseteq Membership
      /\ Membership = dead \cup live
      /\ \A l \in live \ done : accepted[l] # slots[l].budget
  BY <1>4
<1>6. ASSUME NEW l \in live
      PROVE  /\ step[l] \in SlotRecords
             /\ step[l].id = slots[l].id /\ step[l].epoch = slots[l].epoch
             /\ step[l].class = slots[l].class /\ step[l].ready
             /\ step[l].budget \in 0 .. EffectiveOutput(step[l].id)
             /\ l \notin done => ProgressOf(step[l]) /\ WorkCovers(step[l])
  <2>1. l \in Lanes /\ l \in ActiveLanes /\ slots[l].ready /\ l \in Membership
    BY <1>4, <1>5
  <2>2. slots[l] \in SlotRecords
    BY <2>1 DEF TypeOK
  <2>3. accepted[l] \in Nat /\ accepted[l] >= 1 /\ accepted[l] <= slots[l].budget
    <3>1. accepted[l] <= slots[l].budget
      BY <1>2
    <3>2. accepted[l] \in 1 .. DraftWindow + 1
      BY <2>1
    <3> QED BY <3>1, <3>2, SchedulerAssumption
  <2>4. /\ slots[l].work >= slots[l].budget /\ ProgressOf(slots[l])
        /\ slots[l].work \in Nat /\ slots[l].budget \in Nat
    BY <2>1, <2>2 DEF ServiceWorkSuffices, LaneProgress, SlotRecords
  <2>5. Runnable(slots[l].id) /\ EffectiveOutput(slots[l].id) \in Nat
    BY <2>4, Reservation DEF ProgressOf, Runnable
  <2> DEFINE work == slots[l].work - accepted[l]
             budget == slots[l].budget - accepted[l]
  <2>6. /\ step[l].work = work /\ step[l].budget = budget /\ step[l].id = slots[l].id
        /\ step[l].cursor = slots[l].cursor
        /\ step[l].ready = slots[l].ready /\ step[l].epoch = slots[l].epoch
        /\ step[l].class = slots[l].class
        /\ step[l] = [slots[l] EXCEPT !.work = work, !.budget = budget]
    BY <2>1, <2>2 DEF SlotRecords
  <2>7. work \in Nat /\ budget \in Nat /\ work >= budget
    BY <2>3, <2>4
  <2>8. budget <= EffectiveOutput(slots[l].id)
    BY <2>3, <2>4, <2>5 DEF ProgressOf
  <2>9. l \notin done => budget >= 1
    BY <1>5, <2>3, <2>4
  <2>10. step[l] \in SlotRecords
    <3> HIDE DEF step, work, budget
    <3> QED BY <2>2, <2>6, <2>7 DEF SlotRecords
  <2> HIDE DEF step, work, budget
  <2>11. l \notin done => ProgressOf(step[l]) /\ WorkCovers(step[l])
    BY <2>1, <2>4, <2>5, <2>6, <2>7, <2>8, <2>9 DEF ProgressOf, WorkCovers
  <2> QED BY <2>1, <2>5, <2>6, <2>7, <2>8, <2>10, <2>11
<1>7. \A l \in Lanes \ live : step[l] = slots[l]
  OBVIOUS
<1>8. slots \in [Lanes -> SlotRecords] /\ DOMAIN step = Lanes
      /\ step = [l \in Lanes |-> step[l]]
  BY DEF TypeOK
<1> HIDE DEF step, live, dead, done
<1>9. step \in [Lanes -> SlotRecords]
  BY <1>6, <1>7, <1>8
<1>10. \A l \in Lanes : /\ step[l].id = slots[l].id /\ step[l].epoch = slots[l].epoch
                        /\ step[l].class = slots[l].class
  BY <1>6, <1>7
<1>11. ASSUME NEW l \in ActiveLanes \ (dead \cup done)
       PROVE  ProgressOf(step[l]) /\ WorkCovers(step[l]) /\ (step[l].ready <=> slots[l].ready)
  <2>1. CASE l \in live
    <3>1. l \in ActiveLanes /\ l \notin done /\ slots[l].ready
      BY <1>4, <1>5, <2>1
    <3> QED BY <1>6, <2>1, <3>1
  <2>2. CASE l \notin live
    <3>1. step[l] = slots[l]
      BY <1>4, <1>7, <2>2
    <3> QED BY <3>1 DEF LaneProgress, ServiceWorkSuffices, WorkCovers
  <2> QED BY <2>1, <2>2
<1>12. \A l \in done : step[l].budget \in 0 .. EffectiveOutput(step[l].id)
  BY <1>5, <1>6
<1>13. /\ Settled /\ ActiveLanes' = ActiveLanes \ (dead \cup done)
       /\ \A l \in ActiveLanes' : slots'[l] = step[l]
  <2>1. {} \in SUBSET pending /\ pending' = pending \ {} /\ UNCHANGED requestVars
    BY <1>3
  <2>2. Settle(step, dead, done, {})
    BY <1>2
  <2>3. dead \in SUBSET ActiveLanes /\ done \in SUBSET ActiveLanes
    BY <1>5
  <2>4. \A l \in ActiveLanes \ (dead \cup done) : ProgressOf(step[l]) /\ WorkCovers(step[l])
    BY <1>11
  <2> QED BY <1>9, <1>10, <1>12, <2>1, <2>2, <2>3, <2>4, SettleKeeps DEF Settled
<1>14. /\ prefill_lane \in {0} \cup ActiveLanes
       /\ \A l \in ActiveLanes : ~ slots[l].ready <=> l = prefill_lane
  <2>1. prefill_lane \in {0} \cup Lanes
    BY DEF TypeOK
  <2> QED BY <1>3, <2>1, ActiveIffId DEF OneStagedPrefill
<1>15. /\ prefill_lane' \in {0} \cup ActiveLanes'
       /\ \A l \in ActiveLanes' : ~ slots'[l].ready <=> l = prefill_lane'
  <2>1. prefill_lane \notin Membership
    BY <1>4, <1>14
  <2>2. prefill_lane \in {0} \cup ActiveLanes'
    BY <1>5, <1>13, <1>14, <2>1
  <2> QED BY <1>3, <1>11, <1>13, <1>14, <2>2
<1>16. \/ protection' = NoProtection
       \/ protection' = protection /\ (protection.head # 0 => protection.head \in pending')
  BY <1>3, HeadWaits DEF HeadProtected, policyVars
<1>17. queued' = {} /\ choice' = NoChoice
  BY <1>3 DEF ControlState, scanVars
<1>18. UnitEnds
  BY <1>3, <1>15, <1>16, <1>17 DEF UnitEnds, policyVars
<1> QED BY <1>13, <1>18, UnitEndsKeeps

(* A unit that throws leaves the scheduler empty.                          *)
LEMMA UnitFailsKeeps ==
  ASSUME IInv, UnitFails
  PROVE  IInv'
<1> USE DEF IInv
<1>1. /\ pc' = "failed" /\ pending' = {} /\ cancelled' = {}
      /\ slots' = [l \in Lanes |-> EmptySlot]
      /\ retained' = [l \in Lanes |-> IF l \in ActiveLanes THEN NoSequence ELSE retained[l]]
      /\ entitled' = [l \in Lanes |-> IF l \in ActiveLanes THEN NoPages ELSE entitled[l]]
      /\ lane_plans' = [r \in Requests |-> NoPlans]
      /\ prefill_lane' = 0 /\ protection' = NoProtection /\ choice' = NoChoice
      /\ UNCHANGED <<submitted, shape, next_epoch, previous_unit_was_decode, queued>>
  BY DEF UnitFails, With, TypeOK, requestVars
<1>2. queued' = {}
  BY <1>1 DEF UnitFails, ControlState
<1>3. /\ ActiveLanes' = {} /\ FreeLanes' = Lanes /\ ActiveIds' = {}
      /\ ActiveLanes \subseteq Lanes /\ FreeLanes = Lanes \ ActiveLanes
  BY <1>1 DEF ActiveLanes, FreeLanes, ActiveIds, EmptySlot
<1>4. TypeOK'
  <2>1. SlotRecords' = SlotRecords /\ ProtectionRecords' = ProtectionRecords /\ ChoiceRecords' = ChoiceRecords
    BY <1>1 DEF SlotRecords, ProtectionRecords, ChoiceRecords
  <2>2. EmptySlot \in SlotRecords
    BY SubmittedIsNat DEF EmptySlot, SlotRecords, Classes
  <2>3. slots' \in [Lanes -> SlotRecords]
    BY <1>1, <2>2
  <2>4. retained' \in [Lanes -> [id : 0 .. submitted, frontier : Nat, checkpoint : Nat]]
    <3> DEFINE kind == [id : 0 .. submitted, frontier : Nat, checkpoint : Nat]
    <3>1. NoSequence \in kind
      BY SubmittedIsNat DEF NoSequence
    <3>2. \A l \in Lanes : retained[l] \in kind
      BY DEF TypeOK
    <3> HIDE DEF kind
    <3>3. retained' \in [Lanes -> kind]
      BY <1>1, <3>1, <3>2
    <3> QED BY <3>3 DEF kind
  <2>5. entitled' \in [Lanes -> [PageKinds -> Nat]]
    <3>1. NoPages \in [PageKinds -> Nat]
      BY DEF NoPages
    <3>2. \A l \in Lanes : entitled[l] \in [PageKinds -> Nat]
      BY DEF TypeOK
    <3> QED BY <1>1, <3>1, <3>2
  <2>6. lane_plans' \in [Requests -> [Lanes -> Nat \cup {NoPlan}]]
    BY <1>1 DEF NoPlans
  <2>7. /\ protection' \in ProtectionRecords /\ protection'.donors \subseteq protection'.incumbents
        /\ choice' \in ChoiceRecords
    BY <1>1, BlankTypes DEF NoProtection
  <2>8. /\ submitted \in 0 .. NumRequests /\ shape \in Seq(Shapes) /\ Len(shape) = submitted
        /\ next_epoch \in Nat \ {0} /\ previous_unit_was_decode \in BOOLEAN
    BY DEF TypeOK
  <2> QED BY <1>1, <1>2, <2>1, <2>3, <2>4, <2>5, <2>6, <2>7, <2>8 DEF TypeOK
<1>5. OneStagedPrefill' /\ LaneProgress' /\ ServiceWorkSuffices'
  BY <1>1, <1>3 DEF OneStagedPrefill, LaneProgress, ServiceWorkSuffices
<1>6. PlansMatchLanes' /\ NoEarlyPlans'
  BY <1>1, <1>3 DEF PlansMatchLanes, NoEarlyPlans, NoPlans
<1>7. ControlState' /\ ChoiceStands' /\ HeadProtected'
  BY <1>1, <1>2, ProtectionCleared DEF ControlState, ChoiceStands
<1>8. PoolsNeverOvercommitted'
  <2>1. ASSUME NEW k \in PageKinds
        PROVE  Total([l \in Lanes |-> entitled'[l][k]]) <= AdmissionCapacity'[k]
    <3>1. ASSUME NEW l \in Lanes PROVE entitled'[l][k] <= entitled[l][k]
      <4>1. entitled'[l][k] \in Nat /\ entitled[l][k] \in Nat
        BY <1>4 DEF TypeOK
      <4>2. entitled'[l] = NoPages \/ entitled'[l] = entitled[l]
        BY <1>1
      <4> QED BY <4>1, <4>2 DEF NoPages
    <3>2. entitled' \in [Lanes -> [PageKinds -> Nat]]
      BY <1>4 DEF TypeOK
    <3> QED BY <3>1, <3>2, EntitlementsShrink
  <2>2. ASSUME NEW l \in Lanes, retained'[l].id = 0 PROVE entitled'[l] = NoPages
    <3>1. CASE l \in ActiveLanes
      BY <1>1, <3>1
    <3>2. CASE l \notin ActiveLanes
      <4>1. retained'[l] = retained[l] /\ entitled'[l] = entitled[l] /\ l \in FreeLanes
        BY <1>1, <1>3, <3>2
      <4> QED BY <2>2, <4>1 DEF PoolsNeverOvercommitted
    <3> QED BY <3>1, <3>2
  <2> QED BY <1>3, <2>1, <2>2 DEF PoolsNeverOvercommitted, NoPages
<1> QED BY <1>4, <1>5, <1>6, <1>7, <1>8

-----------------------------------------------------------------------------
(* admit_planned_request.                                                  *)

(* The entitlements fit when lane l takes the reservation of r and the     *)
(* lanes in `evicted` give up theirs.                                      *)
LEMMA AdmissionFitsPools ==
  ASSUME TypeOK, NEW r \in 1 .. submitted, Plannable(r), NEW l \in Lanes,
         NEW evicted \in SUBSET Lanes, l \notin evicted, CanAdmitWithout(r, l, evicted),
         NEW k \in PageKinds, NEW all \in [Lanes -> Nat], all[l] = Need(r)[k],
         \A m \in evicted : all[m] = 0,
         \A m \in Lanes \ (evicted \cup {l}) : all[m] = entitled[m][k]
  PROVE  Total(all) <= AdmissionCapacity[k]
<1> DEFINE stay == Lanes \ (evicted \cup {l})
           held == [m \in stay |-> entitled[m][k]]
<1>1. held \in [stay -> Nat]
  BY DEF TypeOK
<1>2. (\A m \in stay : held[m] = all[m]) /\ \A m \in Lanes \ (stay \cup {l}) : all[m] = 0
  OBVIOUS
<1>3. Need(r)[k] + Total(held) <= AdmissionCapacity[k]
  BY DEF CanAdmitWithout, EntitledBut, PoolSize
<1>4. stay \in SUBSET (Lanes \ {l}) /\ IsFiniteSet(Lanes) /\ IsFiniteSet(stay)
  <2>1. stay \subseteq Lanes /\ stay \in SUBSET (Lanes \ {l})
    OBVIOUS
  <2> QED BY <2>1, LanesFinite, FS_Subset
<1> HIDE DEF held, stay
<1>5. Total(all) = Total(held) + all[l]
  BY <1>1, <1>2, <1>4, TotalReplaced
<1>6. Total(held) \in Nat
  BY <1>1, <1>4, TotalIsNat
<1>7. Need(r)[k] \in Nat /\ AdmissionCapacity[k] \in Nat
  BY NeedOf, CapacityType DEF PageKinds, Kinds
<1> QED BY <1>3, <1>5, <1>6, <1>7

(* The chosen request takes its lane, whatever happened since the choice.  *)
LEMMA AdmitPlannedRequestKeeps ==
  ASSUME IInv, AdmitPlannedRequest
  PROVE  IInv'
<1> USE DEF IInv
<1> DEFINE r    == choice.id
           l    == choice.lane
           base == lane_plans[r][l]
           work == ProjectedServiceWork(r, base)
           evicted == IF choice.evict THEN EvictedFor(r, l) ELSE {}
           new  == [id |-> r, work |-> work, budget |-> EffectiveOutput(r),
                    cursor |-> base, ready |-> FALSE, checkpoint |-> CheckpointAfter(r, l, base),
                    epoch |-> choice.epoch, class |-> choice.class]
           pages == [k \in PageKinds |-> Need(r)[k]]
<1>1. /\ pc = "admitting" /\ pc' = "first_step" /\ r \notin cancelled
      /\ UNCHANGED <<requestVars, cancelled, next_epoch, previous_unit_was_decode, scanVars>>
      /\ AdmitOn(r, l, base, evicted)
      /\ protection' = IF choice.class = "Temporal"
                       THEN [protection EXCEPT !.credit = @ - work]
                       ELSE ClearProtectionIfHead({r})
  BY DEF AdmitPlannedRequest
<1>2. /\ r \in pending /\ l \in FreeLanes /\ base # NoPlan /\ Runnable(r)
      /\ CanAdmitWithout(r, l, evicted)
      /\ choice.class = "None" => r = QueueHead
      /\ choice.class # "None" => /\ protection.head # 0 /\ r # protection.head
                                  /\ choice.epoch = protection.epoch
      /\ choice.class = "Temporal" => work <= protection.credit
      /\ choice.class = "Persistent" =>
            PersistentBackfillIsSafe(protection, ActiveSet, Need(r), AdmissionCapacity)
  BY <1>1 DEF ChoiceStands
<1>3. /\ submitted' = submitted /\ shape' = shape /\ submitted \in Nat
      /\ cancelled' = cancelled /\ next_epoch' = next_epoch
      /\ previous_unit_was_decode' = previous_unit_was_decode
      /\ queued' = queued /\ choice' = choice /\ queued = {} /\ prefill_lane = 0
  BY <1>1, SubmittedIsNat DEF requestVars, scanVars, ControlState
<1>4. /\ r \in 1 .. submitted /\ Plannable(r) /\ r \in Requests /\ r \notin ActiveIds
      /\ l \in Lanes /\ l \notin ActiveLanes /\ 0 \notin Lanes
      /\ ActiveLanes \subseteq Lanes /\ FreeLanes = Lanes \ ActiveLanes
  <2>1. r \in 1 .. submitted /\ Plannable(r)
    BY <1>2 DEF Runnable
  <2>2. r \in Requests
    BY <2>1, SchedulerAssumption DEF TypeOK, Requests
  <2>3. r \notin ActiveIds
    BY <1>2 DEF OneStagedPrefill
  <2>4. l \in Lanes /\ l \notin ActiveLanes /\ 0 \notin Lanes
        /\ ActiveLanes \subseteq Lanes /\ FreeLanes = Lanes \ ActiveLanes
    BY <1>2 DEF ActiveLanes, FreeLanes, Lanes
  <2> QED BY <2>1, <2>2, <2>3, <2>4
<1>5. evicted \subseteq FreeLanes \ {l}
  BY DEF EvictedFor, RetainedLanes
<1>6. base \in 0 .. shape[r].prompt /\ shape[r].prompt \in Nat
  <2>1. base = ReuseBase(r, l)
    BY <1>2, <1>4 DEF PlansMatchLanes
  <2> HIDE DEF base, r, l
  <2> QED BY <1>4, <2>1, ReuseBaseType, ShapeOf
<1>7. /\ EffectiveOutput(r) \in Nat \ {0} /\ work \in Nat
      /\ work >= StepsLeft(r, base) + EffectiveOutput(r) - 1
  <2> HIDE DEF base, r
  <2> QED BY <1>4, <1>6, Reservation, ProjectionSuffices
<1>8. choice \in ChoiceRecords /\ choice.class \in Classes /\ choice.epoch \in Nat
  BY DEF TypeOK, ChoiceRecords
<1>9. /\ new \in SlotRecords /\ new.id = r /\ new.work = work /\ new.budget = EffectiveOutput(r)
      /\ new.cursor = base /\ new.ready = FALSE /\ new.epoch = choice.epoch
      /\ new.class = choice.class
  <2>1. CheckpointAfter(r, l, base) \in Nat
    <3>1. shape[r].checkpoint \in Nat
      BY <1>4, <1>6, ShapeOf
    <3>2. retained[l].checkpoint \in Nat
      BY <1>4 DEF TypeOK
    <3> QED BY <3>1, <3>2 DEF CheckpointAfter
  <2>2. r \in 0 .. submitted /\ base \in Nat
    BY <1>3, <1>4, <1>6
  <2> HIDE DEF base, r, l, work
  <2> QED BY <1>7, <1>8, <2>1, <2>2 DEF SlotRecords
<1>10. /\ pending' = pending \ {r}
       /\ slots' = [m \in Lanes |-> IF m = l THEN new ELSE slots[m]]
       /\ retained' = [m \in Lanes |-> IF m \in evicted \cup {l} THEN NoSequence
                                       ELSE retained[m]]
       /\ entitled' = [m \in Lanes |-> IF m = l THEN pages
                                       ELSE IF m \in evicted THEN NoPages ELSE entitled[m]]
       /\ lane_plans' = [q \in Requests |->
             IF q = r THEN NoPlans
             ELSE [m \in Lanes |-> IF m \in evicted \cup {l} THEN NoPlan ELSE lane_plans[q][m]]]
       /\ prefill_lane' = IF base < shape[r].prompt THEN l ELSE 0
  <2>1. DOMAIN slots = Lanes /\ DOMAIN retained = Lanes /\ DOMAIN entitled = Lanes
        /\ slots = [m \in Lanes |-> slots[m]]
    BY DEF TypeOK
  <2> HIDE DEF evicted, base, r, l, work
  <2>2. slots' = [slots EXCEPT ![l] = new]
    BY <1>1 DEF AdmitOn, work
  <2>3. retained' = With(retained, evicted \cup {l}, NoSequence)
    BY <1>1 DEF AdmitOn
  <2>4. entitled' = With(With(entitled, evicted, NoPages), {l}, pages)
    BY <1>1 DEF AdmitOn
  <2>5. lane_plans' = With(InvalidateLanePlans(lane_plans, evicted \cup {l}), {r}, NoPlans)
    BY <1>1 DEF AdmitOn
  <2>6. slots' = [m \in Lanes |-> IF m = l THEN new ELSE slots[m]]
    <3> HIDE DEF new
    <3> QED BY <2>1, <2>2
  <2>7. retained' = [m \in Lanes |-> IF m \in evicted \cup {l} THEN NoSequence ELSE retained[m]]
    BY <2>1, <2>3 DEF With
  <2>8. entitled' = [m \in Lanes |-> IF m = l THEN pages
                                     ELSE IF m \in evicted THEN NoPages ELSE entitled[m]]
    <3> HIDE DEF pages, NoPages
    <3> QED BY <2>1, <2>4 DEF With
  <2>9. lane_plans' = [q \in Requests |->
             IF q = r THEN NoPlans
             ELSE [m \in Lanes |-> IF m \in evicted \cup {l} THEN NoPlan ELSE lane_plans[q][m]]]
    BY <2>5 DEF With, InvalidateLanePlans
  <2> QED BY <1>1, <2>6, <2>7, <2>8, <2>9 DEF AdmitOn
<1> HIDE DEF evicted, base, r, l, work, new, pages
<1>11. /\ slots'[l] = new /\ \A m \in Lanes \ {l} : slots'[m] = slots[m]
       /\ ActiveLanes' = ActiveLanes \cup {l} /\ FreeLanes' = FreeLanes \ {l}
  <2>1. slots'[l] = new /\ \A m \in Lanes \ {l} : slots'[m] = slots[m]
    BY <1>4, <1>10
  <2>2. \A m \in Lanes : slots'[m].id # 0 <=> m \in ActiveLanes \cup {l}
    BY <1>3, <1>4, <1>9, <2>1, ActiveIffId
  <2> QED BY <1>4, <2>1, <2>2 DEF ActiveLanes, FreeLanes
<1>12. ActiveIds' = ActiveIds \cup {r} /\ \A m \in ActiveLanes : slots'[m] = slots[m]
  <2>1. \A m \in ActiveLanes : slots'[m] = slots[m]
    BY <1>4, <1>11
  <2> QED BY <1>9, <1>11, <2>1 DEF ActiveIds
<1>13. /\ protection' \in ProtectionRecords /\ protection'.donors \subseteq protection'.incumbents
       /\ protection' = NoProtection \/ (SameReservation /\ protection'.head = protection.head)
       /\ protection.head # r => SameReservation /\ protection'.head = protection.head
       /\ choice.class = "None" /\ protection.head = r => protection' = NoProtection
  <2>1. protection \in ProtectionRecords /\ protection.donors \subseteq protection.incumbents
    BY DEF TypeOK
  <2>2. CASE choice.class = "Temporal"
    <3> DEFINE rest == protection.credit - work
    <3>1. rest \in Nat
      BY <1>2, <1>7, <2>1, <2>2 DEF ProtectionRecords
    <3>2. protection' = [protection EXCEPT !.credit = rest]
      BY <1>1, <2>2
    <3> HIDE DEF rest
    <3> QED BY <1>2, <2>1, <2>2, <3>1, <3>2 DEF ProtectionRecords, SameReservation
  <2>3. CASE choice.class # "Temporal"
    <3>1. protection' = IF protection.head = r THEN NoProtection ELSE protection
      BY <1>1, <2>3 DEF ClearProtectionIfHead
    <3>2. NoProtection \in ProtectionRecords /\ NoProtection.donors \subseteq NoProtection.incumbents
      BY BlankTypes DEF NoProtection
    <3> QED BY <2>1, <3>1, <3>2 DEF SameReservation
  <2> QED BY <2>2, <2>3
<1>14. entitled' \in [Lanes -> [PageKinds -> Nat]]
  <2>1. pages \in [PageKinds -> Nat]
    BY <1>4, NeedOf DEF pages, PageKinds, Kinds
  <2>2. NoPages \in [PageKinds -> Nat] /\ \A m \in Lanes : entitled[m] \in [PageKinds -> Nat]
    BY DEF NoPages, TypeOK
  <2> HIDE DEF NoPages
  <2> QED BY <1>10, <2>1, <2>2
<1>15. TypeOK'
  <2>1. SlotRecords' = SlotRecords /\ ProtectionRecords' = ProtectionRecords /\ ChoiceRecords' = ChoiceRecords
    BY <1>3 DEF SlotRecords, ProtectionRecords, ChoiceRecords
  <2>2. slots' \in [Lanes -> SlotRecords]
    <3>1. \A m \in Lanes : slots[m] \in SlotRecords
      BY DEF TypeOK
    <3> QED BY <1>9, <1>10, <3>1
  <2>3. retained' \in [Lanes -> [id : 0 .. submitted, frontier : Nat, checkpoint : Nat]]
    <3> DEFINE kind == [id : 0 .. submitted, frontier : Nat, checkpoint : Nat]
    <3>1. NoSequence \in kind
      BY <1>3 DEF NoSequence
    <3>2. \A m \in Lanes : retained[m] \in kind
      BY DEF TypeOK
    <3> HIDE DEF kind
    <3>3. retained' \in [Lanes -> kind]
      BY <1>10, <3>1, <3>2
    <3> QED BY <3>3 DEF kind
  <2>4. lane_plans' \in [Requests -> [Lanes -> Nat \cup {NoPlan}]]
    <3>1. \A q \in Requests, m \in Lanes : lane_plans[q][m] \in Nat \cup {NoPlan}
      BY DEF TypeOK
    <3> QED BY <1>10, <3>1 DEF NoPlans
  <2>5. cancelled' \subseteq pending' \cup ActiveIds'
    BY <1>3, <1>10, <1>12 DEF TypeOK
  <2>6. /\ pending' \subseteq 1 .. submitted /\ queued' \subseteq pending'
        /\ submitted \in 0 .. NumRequests /\ shape \in Seq(Shapes) /\ Len(shape) = submitted
        /\ next_epoch \in Nat \ {0} /\ previous_unit_was_decode \in BOOLEAN
    BY <1>3, <1>10 DEF TypeOK
  <2>7. prefill_lane' \in {0} \cup Lanes
    BY <1>4, <1>10
  <2> QED BY <1>1, <1>3, <1>8, <1>13, <1>14, <2>1, <2>2, <2>3, <2>4, <2>5, <2>6, <2>7 DEF TypeOK
<1>16. OneStagedPrefill'
  <2>1. ASSUME NEW m \in ActiveLanes
        PROVE  slots[m].id # r /\ slots[m].ready /\ m # l
    BY <1>1, <1>3, <1>4 DEF ActiveIds, OneStagedPrefill
  <2>2. \A a, b \in ActiveLanes' : slots'[a].id = slots'[b].id => a = b
    BY <1>9, <1>11, <1>12, <2>1 DEF OneStagedPrefill
  <2>3. pending' \cap ActiveIds' = {}
    BY <1>10, <1>12 DEF OneStagedPrefill
  <2>4. prefill_lane' \in {0, l} /\ (prefill_lane' # 0 => slots'[prefill_lane'].id # 0)
    BY <1>3, <1>4, <1>9, <1>10, <1>11
  <2>5. ASSUME NEW m \in ActiveLanes'
        PROVE  ~ slots'[m].ready <=> m = prefill_lane' \/ (pc' = "first_step" /\ m = choice'.lane)
    <3>1. CASE m = l
      BY <1>1, <1>3, <1>9, <1>11, <3>1 DEF l
    <3>2. CASE m # l
      <4>1. m \in ActiveLanes /\ m # 0
        BY <1>4, <1>11, <3>2
      <4> QED BY <1>3, <1>12, <2>1, <2>4, <3>2, <4>1 DEF l
    <3> QED BY <3>1, <3>2
  <2> QED BY <2>2, <2>3, <2>4, <2>5 DEF OneStagedPrefill
<1>17. RequestsStay
  BY <1>1, ShapesStay
<1>18. PlansMatchLanes' /\ NoEarlyPlans'
  <2>1. ASSUME NEW q \in Requests, NEW m \in Lanes
        PROVE  \/ lane_plans'[q][m] = NoPlan
               \/ /\ lane_plans'[q][m] = lane_plans[q][m]
                  /\ m \in FreeLanes' => m \in FreeLanes /\ retained'[m] = retained[m]
    <3>1. CASE q = r \/ m \in evicted \cup {l}
      BY <1>10, <3>1 DEF NoPlans
    <3>2. CASE q # r /\ m \notin evicted \cup {l}
      BY <1>10, <1>11, <3>2
    <3> QED BY <3>1, <3>2
  <2>2. submitted' \in Nat /\ submitted <= submitted'
    BY <1>3
  <2>3. lane_plans' \in [Requests -> [Lanes -> Nat \cup {NoPlan}]]
    BY <1>15 DEF TypeOK
  <2> QED BY <1>17, <2>1, <2>2, <2>3, PlansKept
<1>19. /\ AdmissionCapacity' = AdmissionCapacity
       /\ \A q : /\ Need(q)' = Need(q) /\ Plannable(q)' = Plannable(q)
                 /\ EffectiveOutput(q)' = EffectiveOutput(q)
                 /\ \A c : StepsLeft(q, c)' = StepsLeft(q, c)
  <2>1. AdmissionCapacity' = AdmissionCapacity
    BY DEF AdmissionCapacity
  <2> QED BY <1>3, <2>1, PlanStays
<1>20. LaneProgress' /\ ServiceWorkSuffices'
  <2>1. ProgressOf(new) /\ WorkCovers(new)
    BY <1>2, <1>6, <1>7, <1>9 DEF ProgressOf, WorkCovers
  <2>2. ASSUME NEW m \in ActiveLanes' PROVE ProgressOf(slots'[m]) /\ WorkCovers(slots'[m])
    <3>1. CASE m = l
      BY <1>11, <2>1, <3>1
    <3>2. CASE m # l
      <4>1. m \in ActiveLanes /\ slots'[m] = slots[m]
        BY <1>11, <1>12, <3>2
      <4> QED BY <4>1 DEF LaneProgress, ServiceWorkSuffices, WorkCovers
    <3> QED BY <3>1, <3>2
  <2>3. \A m \in ActiveLanes' : ProgressOf(slots[m])'
    BY <1>3, <1>19, <2>2 DEF ProgressOf, Runnable, Fits
  <2>4. \A m \in ActiveLanes' : WorkCovers(slots[m])'
    BY <1>19, <2>2 DEF WorkCovers
  <2> QED BY <2>3, <2>4 DEF LaneProgress, ServiceWorkSuffices, WorkCovers
<1>21. PoolsNeverOvercommitted'
  <2>1. ASSUME NEW k \in PageKinds
        PROVE  Total([m \in Lanes |-> entitled'[m][k]]) <= AdmissionCapacity'[k]
    <3> DEFINE all == [m \in Lanes |-> entitled'[m][k]]
    <3>1. all \in [Lanes -> Nat]
      BY <1>14
    <3>2. evicted \in SUBSET Lanes /\ l \notin evicted
      BY <1>4, <1>5
    <3>3. all[l] = Need(r)[k]
      BY <1>4, <1>10 DEF pages
    <3>4. \A m \in evicted : all[m] = 0
      BY <1>10, <3>2 DEF NoPages
    <3>5. \A m \in Lanes \ (evicted \cup {l}) : all[m] = entitled[m][k]
      BY <1>10
    <3> HIDE DEF all
    <3>6. Total(all) <= AdmissionCapacity[k]
      BY <1>2, <1>4, <3>1, <3>2, <3>3, <3>4, <3>5, AdmissionFitsPools
    <3> QED BY <1>19, <3>6 DEF all
  <2>2. ASSUME NEW m \in ActiveLanes', NEW k \in PageKinds
        PROVE  entitled'[m][k] = Need(slots[m].id)'[k]
    <3>1. CASE m = l
      BY <1>4, <1>9, <1>10, <1>11, <1>19, <3>1 DEF pages
    <3>2. CASE m # l
      <4>1. m \in ActiveLanes /\ m \in Lanes /\ m \notin evicted /\ slots'[m] = slots[m]
        BY <1>4, <1>5, <1>11, <1>12, <3>2
      <4>2. entitled'[m] = entitled[m]
        BY <1>10, <3>2, <4>1
      <4> QED BY <1>19, <4>1, <4>2 DEF PoolsNeverOvercommitted
    <3> QED BY <3>1, <3>2
  <2>3. ASSUME NEW m \in FreeLanes', retained'[m].id = 0 PROVE entitled'[m] = NoPages
    <3>1. m \in FreeLanes /\ m # l /\ m \in Lanes
      BY <1>4, <1>11
    <3>2. CASE m \in evicted
      BY <1>10, <3>1, <3>2
    <3>3. CASE m \notin evicted
      <4>1. retained'[m] = retained[m] /\ entitled'[m] = entitled[m]
        BY <1>10, <3>1, <3>3
      <4> QED BY <2>3, <3>1, <4>1 DEF PoolsNeverOvercommitted
    <3> QED BY <3>2, <3>3
  <2> QED BY <2>1, <2>2, <2>3 DEF PoolsNeverOvercommitted, NoPages
<1>22. ControlState' /\ ChoiceStands'
  <2>1. /\ choice'.lane = l /\ l \in ActiveLanes' /\ ~ slots'[l].ready
        /\ prefill_lane' \in {0, l} /\ slots'[l].cursor = base /\ slots'[l].id = r
    BY <1>3, <1>9, <1>10, <1>11 DEF l
  <2>2. base # shape'[r].prompt => prefill_lane' = l
    BY <1>3, <1>6, <1>10
  <2> QED BY <1>1, <1>3, <2>1, <2>2 DEF ControlState, ChoiceStands
<1>23. HeadProtected'
  <2>1. protection.incumbents \cap pending' = {} /\ r \notin protection.incumbents
    BY <1>2, <1>10 DEF HeadProtected
  <2>2. CASE choice.class = "None"
    <3>1. CASE protection.head = r
      BY <1>13, <2>2, <3>1, ProtectionCleared
    <3>2. CASE protection.head # r
      <4>1. protection.head = 0
        BY <1>2, <2>2, <3>2 DEF HeadProtected
      <4> QED BY <1>13, <2>1, <3>2, <4>1 DEF HeadProtected, SameReservation
    <3> QED BY <3>1, <3>2
  <2>3. CASE choice.class # "None"
    <3>1. /\ protection.head # 0 /\ protection.head # r /\ choice.epoch = protection.epoch
          /\ SameReservation /\ protection'.head = protection.head
      BY <1>2, <1>13, <2>3
    <3>2. pending # {} /\ QueueHead = protection.head /\ Reserved
      BY <3>1 DEF HeadProtected, Reserved
    <3>3. pending' # {} /\ QueueHead' = QueueHead
      <4>1. QueueHead \in pending'
        BY <1>10, <3>1, <3>2, HeadWaits
      <4> QED BY <1>10, <1>15, <3>2, <4>1, HeadStays
    <3>4. ASSUME NEW m \in ActiveLanes', slots'[m].id \notin protection'.incumbents
          PROVE  slots'[m].epoch = protection'.epoch /\ slots'[m].class # "None"
      <4>1. CASE m = l
        BY <1>9, <1>11, <2>3, <3>1, <4>1 DEF SameReservation
      <4>2. CASE m # l
        BY <1>11, <1>12, <3>1, <3>4, <4>2 DEF HeadProtected, SameReservation
      <4> QED BY <4>1, <4>2
    <3>5. KeptIds(protection)' = IF choice.class = "Persistent" THEN KeptIds(protection) \cup {r}
                                 ELSE KeptIds(protection)
      <4>1. \A m \in ActiveLanes : KeptBy(protection, slots[m])' <=> KeptBy(protection, slots[m])
        BY <1>12, <3>1 DEF KeptBy, SameReservation
      <4>2. ASSUME NEW n, n = l
            PROVE  KeptBy(protection, slots[n])' <=> choice.class = "Persistent"
        BY <4>2, <1>3, <1>9, <1>11, <2>1, <3>1 DEF KeptBy, SameReservation, l
      <4>3. slots'[l].id = r /\ \A m \in ActiveLanes : slots'[m].id = slots[m].id
        BY <1>9, <1>11, <1>12
      <4> DEFINE before == {n \in ActiveLanes : KeptBy(protection, slots[n])}
                 after  == {n \in ActiveLanes' : KeptBy(protection, slots[n])'}
      <4>4. KeptIds(protection)' = {slots'[m].id : m \in after}
        BY DEF KeptIds
      <4>5. ASSUME NEW n PROVE n \in after <=> n \in before \/ (n = l /\ choice.class = "Persistent")
        <5>1. CASE n = l
          <6>1. l \in ActiveLanes' /\ l \notin ActiveLanes
            BY <1>4, <1>11
          <6> QED BY <4>2, <5>1, <6>1
        <5>2. CASE n # l
          BY <1>11, <4>1, <5>2
        <5> QED BY <5>1, <5>2
      <4>6. before \subseteq ActiveLanes
        OBVIOUS
      <4> HIDE DEF before, after
      <4>7. {slots'[m].id : m \in after} = {slots[m].id : m \in before}
               \cup (IF choice.class = "Persistent" THEN {r} ELSE {})
        <5>1. CASE choice.class = "Persistent"
          <6>1. after = before \cup {l}
            BY <4>5, <5>1
          <6> QED BY <4>3, <4>6, <5>1, <6>1
        <5>2. CASE choice.class # "Persistent"
          <6>1. after = before
            BY <4>5, <5>2
          <6> QED BY <4>3, <4>6, <5>2, <6>1
        <5> QED BY <5>1, <5>2
      <4> QED BY <4>4, <4>7 DEF KeptIds, before
    <3>6. /\ KeptIds(protection) \in SUBSET (1 .. submitted) /\ r \notin KeptIds(protection)
          /\ \A i \in KeptIds(protection) \cup {r} : Plannable(i)
      <4>1. KeptIds(protection) \subseteq ActiveIds
        BY KeepersAreKept
      <4> QED BY <1>4, <4>1 DEF ActiveIds, LaneProgress, ProgressOf, Runnable
    <3> DEFINE kept == KeptIds(protection)
               now  == KeptIds(protection)'
    <3>7. \A k \in Kinds : protection.resources[k] + NeedOver(now)[k] <= AdmissionCapacity[k]
      <4>1. CASE choice.class = "Persistent"
        <5>1. \A k \in Kinds : NeedOver(kept \cup {r})[k] = NeedOver(kept)[k] + Need(r)[k]
          BY <1>4, <3>6, NeedOverMore
        <5>2. \A k \in Kinds : protection.resources[k] + (Need(r)[k] + NeedOver(kept)[k])
                                  <= AdmissionCapacity[k]
          BY <1>2, <4>1, SafeIsRoom
        <5>3. \A k \in Kinds : Need(r)[k] \in Nat /\ NeedOver(kept)[k] \in Nat
          BY <1>4, <3>6, NeedOf, NeedOverType
        <5>4. now = kept \cup {r}
          BY <3>5, <4>1
        <5>5. \A k \in Kinds : protection.resources[k] \in Nat /\ AdmissionCapacity[k] \in Nat
          BY CapacityType DEF TypeOK, ProtectionRecords
        <5>6. NeedOver(now) = NeedOver(kept \cup {r})
          BY <5>4
        <5> HIDE DEF now, kept
        <5>7. ASSUME NEW k \in Kinds
              PROVE  protection.resources[k] + NeedOver(now)[k] <= AdmissionCapacity[k]
          <6> DEFINE a == protection.resources[k]
                     b == NeedOver(kept)[k]
                     c == Need(r)[k]
                     d == AdmissionCapacity[k]
          <6>1. a \in Nat /\ b \in Nat /\ c \in Nat /\ d \in Nat /\ a + (c + b) <= d
            BY <5>2, <5>3, <5>5
          <6>2. NeedOver(now)[k] = b + c
            BY <5>1, <5>6
          <6> HIDE DEF a, b, c, d
          <6>3. a + (b + c) <= d
            BY <6>1
          <6> QED BY <6>2, <6>3 DEF a, d
        <5> QED BY <5>7
      <4>2. CASE choice.class # "Persistent"
        BY <3>2, <3>5, <4>2, ReservedIsRoom DEF RoomBeside
      <4> QED BY <4>1, <4>2
    <3>8. NeedOver(KeptIds(protection))' = NeedOver(now)
      <4>1. \A k \in Kinds : [i \in now |-> Need(i)'[k]] = [i \in now |-> Need(i)[k]]
        BY <1>19
      <4> QED BY <4>1 DEF NeedOver
    <3>9. RoomBeside(protection.resources, KeptIds(protection))'
      <4> HIDE DEF now
      <4> QED BY <1>19, <3>1, <3>7, <3>8 DEF RoomBeside, SameReservation
    <3>10. (Reserved <=> RoomBeside(protection.resources, KeptIds(protection)))'
      BY <1>15, <1>16, ReservedIsRoom, PTL
    <3>11. Reserved'
      BY <3>9, <3>10
    <3> QED BY <2>1, <3>1, <3>2, <3>3, <3>4, <3>11 DEF HeadProtected, Reserved, SameReservation
  <2> QED BY <2>2, <2>3
<1> QED BY <1>15, <1>16, <1>18, <1>20, <1>21, <1>22, <1>23

-----------------------------------------------------------------------------
(* The theorems.                                                           *)

(* The empty scheduler satisfies the invariant.                            *)
LEMMA InitHolds == Init => IInv
<1> SUFFICES ASSUME Init PROVE IInv
  OBVIOUS
<1>1. /\ pc = "boundary" /\ submitted = 0 /\ shape = <<>> /\ cancelled = {} /\ pending = {}
      /\ slots = [l \in Lanes |-> EmptySlot] /\ retained = [l \in Lanes |-> NoSequence]
      /\ entitled = [l \in Lanes |-> NoPages] /\ lane_plans = [r \in Requests |-> NoPlans]
      /\ prefill_lane = 0 /\ protection = NoProtection /\ next_epoch = 1
      /\ previous_unit_was_decode = FALSE /\ queued = {} /\ choice = NoChoice
  BY DEF Init
<1>2. ActiveLanes = {} /\ FreeLanes = Lanes /\ ActiveIds = {}
  BY <1>1 DEF ActiveLanes, FreeLanes, ActiveIds, EmptySlot
<1>3. TypeOK
  <2>1. EmptySlot \in SlotRecords
    BY <1>1 DEF EmptySlot, SlotRecords, Classes
  <2>2. NoSequence \in [id : 0 .. submitted, frontier : Nat, checkpoint : Nat]
    BY <1>1 DEF NoSequence
  <2>3. NoPages \in [PageKinds -> Nat] /\ NoPlans \in [Lanes -> Nat \cup {NoPlan}]
    BY DEF NoPages, NoPlans
  <2>4. NoProtection \in ProtectionRecords /\ NoProtection.donors \subseteq NoProtection.incumbents
    BY <1>1 DEF NoProtection, ProtectionRecords, Kinds
  <2>5. NoChoice \in ChoiceRecords
    BY <1>1 DEF NoChoice, ChoiceRecords, Classes
  <2>6. <<>> \in Seq(Shapes) /\ Len(<<>>) = 0 /\ 0 \in 0 .. NumRequests
    BY SchedulerAssumption
  <2> HIDE DEF EmptySlot, NoSequence, NoPages, NoPlans, NoProtection, NoChoice
  <2>7. /\ slots \in [Lanes -> SlotRecords]
        /\ retained \in [Lanes -> [id : 0 .. submitted, frontier : Nat, checkpoint : Nat]]
        /\ entitled \in [Lanes -> [PageKinds -> Nat]]
        /\ lane_plans \in [Requests -> [Lanes -> Nat \cup {NoPlan}]]
    BY <1>1, <2>1, <2>2, <2>3
  <2>8. /\ shape \in Seq(Shapes) /\ Len(shape) = submitted /\ submitted \in 0 .. NumRequests
        /\ protection \in ProtectionRecords /\ protection.donors \subseteq protection.incumbents
        /\ choice \in ChoiceRecords
    BY <1>1, <2>4, <2>5, <2>6
  <2>9. /\ pending \subseteq 1 .. submitted /\ queued \subseteq pending
        /\ cancelled \subseteq pending \cup ActiveIds
    BY <1>1
  <2>10. prefill_lane \in {0} \cup Lanes /\ next_epoch \in Nat \ {0}
    BY <1>1
  <2>11. previous_unit_was_decode \in BOOLEAN
    BY <1>1
  <2> QED BY <1>1, <2>7, <2>8, <2>9, <2>10, <2>11 DEF TypeOK
<1>4. OneStagedPrefill /\ LaneProgress /\ ServiceWorkSuffices
  BY <1>1, <1>2 DEF OneStagedPrefill, LaneProgress, ServiceWorkSuffices
<1>5. PlansMatchLanes /\ NoEarlyPlans
  BY <1>1, <1>2 DEF PlansMatchLanes, NoEarlyPlans, NoPlans
<1>6. ControlState /\ ChoiceStands /\ HeadProtected
  BY <1>1 DEF ControlState, ChoiceStands, HeadProtected, NoProtection
<1>7. PoolsNeverOvercommitted
  <2>1. ASSUME NEW k \in PageKinds
        PROVE  Total([l \in Lanes |-> entitled[l][k]]) <= AdmissionCapacity[k]
    <3> DEFINE all == [l \in Lanes |-> entitled[l][k]]
    <3>1. \A l \in Lanes : all[l] = 0
      BY <1>1 DEF NoPages
    <3>2. AdmissionCapacity[k] \in Nat
      BY CapacityType DEF PageKinds, Kinds
    <3>3. DOMAIN all = Lanes /\ 1 .. 0 = {}
      OBVIOUS
    <3> HIDE DEF all
    <3>4. Units(all) = {}
      BY <3>1, <3>3 DEF Units
    <3>5. Total(all) <= AdmissionCapacity[k]
      BY <3>2, <3>4, FS_EmptySet DEF Total
    <3> QED BY <3>5 DEF all
  <2> QED BY <1>1, <1>2, <2>1 DEF PoolsNeverOvercommitted, NoPages
<1> QED BY <1>3, <1>4, <1>5, <1>6, <1>7 DEF IInv

(* A step that changes nothing keeps everything.                           *)
LEMMA StutterKeeps ==
  ASSUME IInv, UNCHANGED vars
  PROVE  IInv'
<1>1. /\ UNCHANGED <<pc, submitted, shape, cancelled, pending, slots, retained, entitled>>
      /\ UNCHANGED <<lane_plans, prefill_lane, protection, next_epoch>>
      /\ UNCHANGED <<previous_unit_was_decode, queued, choice>>
  BY DEF vars, requestVars, laneVars, policyVars, scanVars
<1> USE DEF IInv
<1>2. /\ UNCHANGED requestVars /\ UNCHANGED laneVars /\ RequestsStay
      /\ pc' \in {pc} /\ submitted' = submitted
  BY <1>1, ShapesStay DEF requestVars, laneVars
<1>3. /\ FreeLanes' = FreeLanes /\ ActiveLanes' = ActiveLanes /\ ActiveIds' = ActiveIds
      /\ LanesOnlyLeave /\ QueueHead' = QueueHead
  BY <1>1, <1>2, LanesAlone DEF QueueHead
<1>4. TypeOK'
  <2>1. SlotRecords' = SlotRecords /\ ProtectionRecords' = ProtectionRecords /\ ChoiceRecords' = ChoiceRecords
    BY <1>1 DEF SlotRecords, ProtectionRecords, ChoiceRecords
  <2> QED BY <1>1, <1>3, <2>1 DEF TypeOK
<1>5. OneStagedPrefill'
  BY <1>1, <1>3 DEF OneStagedPrefill
<1>6. PlansMatchLanes' /\ NoEarlyPlans'
  BY <1>1, <1>3 DEF PlansMatchLanes, NoEarlyPlans, ReuseBase
<1>7. LaneProgress' /\ ServiceWorkSuffices' /\ PoolsNeverOvercommitted'
  BY <1>2, LanesAloneKeep
<1>8. ControlState'
  BY <1>1, <1>3 DEF ControlState
<1>9. ChoiceStands'
  BY <1>1, <1>2, <1>3, <1>4, <1>5, ChoiceStays DEF policyVars
<1>10. HeadProtected'
  <2>1. /\ SameReservation /\ protection'.head = protection.head
        /\ protection.incumbents \cap pending' = {}
        /\ protection.head # 0 => pending' # {} /\ QueueHead' = QueueHead
    BY <1>1, <1>3 DEF SameReservation, HeadProtected
  <2> QED BY <1>2, <1>3, <1>4, <1>5, <2>1, ProtectionStays
<1> QED BY <1>4, <1>5, <1>6, <1>7, <1>8, <1>9, <1>10

(* Every step of Next keeps the inductive invariant.                       *)
LEMMA StepKeeps == IInv /\ [Next]_vars => IInv'
<1> SUFFICES ASSUME IInv, [Next]_vars PROVE IInv'
  OBVIOUS
<1>1. CASE Submit
  BY <1>1, SubmitKeeps
<1>2. CASE \E r \in Requests : Cancel(r)
  BY <1>2, CancelKeeps
<1>3. CASE WorkerStep
  <2>1. CASE Boundary
    BY <2>1, BoundaryKeeps
  <2>2. CASE RunPrefillStep
    BY <2>2, RunPrefillStepKeeps
  <2>3. CASE RunDecodeRound
    BY <2>3, RunDecodeRoundKeeps
  <2>4. CASE AdmitNobody
    BY <2>4, AdmitNobodyKeeps
  <2>5. CASE DropHead
    BY <2>5, DropHeadKeeps
  <2>6. CASE ChooseHead
    BY <2>6, ChooseHeadKeeps
  <2>7. CASE ProtectHead
    BY <2>7, ProtectHeadKeeps
  <2>8. CASE DropCandidate
    BY <2>8, DropCandidateKeeps
  <2>9. CASE ScanCandidate
    BY <2>9, ScanCandidateKeeps
  <2>10. CASE ScanEnds
    BY <2>10, ScanEndsKeeps
  <2>11. CASE AdmitTooLate
    BY <2>11, AdmitTooLateKeeps
  <2>12. CASE AdmitPlannedRequest
    BY <2>12, AdmitPlannedRequestKeeps
  <2>13. CASE FirstPrefillStep
    BY <2>13, FirstPrefillStepKeeps
  <2> QED BY <1>3, <2>1, <2>2, <2>3, <2>4, <2>5, <2>6, <2>7, <2>8, <2>9, <2>10, <2>11, <2>12,
             <2>13 DEF WorkerStep
<1>4. CASE UnitFails
  BY <1>4, UnitFailsKeeps
<1>5. CASE Quiescent \/ UNCHANGED vars
  BY <1>5, StutterKeeps DEF Quiescent
<1> QED BY <1>1, <1>2, <1>3, <1>4, <1>5 DEF Next

(* The inductive invariant holds in every reachable state of the worker    *)
(* loop, for any number of requests and lanes, any pools and shapes.       *)
THEOREM SchedulerInvariant == Spec => []IInv
BY InitHolds, StepKeeps, PTL DEF Spec

(* What worker_loop keeps between its units agrees: types, at most one     *)
(* staged prefill, every request in one place, no stale cached lane plan   *)
(* (advance_lane_version, ensure_lane_plan).                               *)
THEOREM StateAgreesHolds == Spec => []SchedulerStateAgrees
<1>1. IInv => SchedulerStateAgrees
  BY DEF IInv, SchedulerStateAgrees
<1> QED BY <1>1, SchedulerInvariant, PTL

(* The entitlements of active and retained lanes never exceed a KV pool,   *)
(* and an active lane owns the whole reservation of its request            *)
(* (can_admit_lane, the evictions of admit_planned_request, retirement).   *)
THEOREM PoolsHold == Spec => []PoolsNeverOvercommitted
<1>1. IInv => PoolsNeverOvercommitted
  BY DEF IInv
<1> QED BY <1>1, SchedulerInvariant, PTL

(* projected_service_work covers every prefill step and token a request    *)
(* can still take: consume_service_work never throws.                      *)
THEOREM WorkSuffices == Spec => []ServiceWorkSuffices
<1>1. IInv => ServiceWorkSuffices
  BY DEF IInv
<1> QED BY <1>1, SchedulerInvariant, PTL

(* No logic_error or invalid_argument of try_admit_one,                    *)
(* make_admission_protection or admit_planned_request can be thrown.       *)
THEOREM AdmissionIsSafe == Spec => []AdmissionNeverFaults
BY NoFaultFollows, SchedulerInvariant, PTL

(* However many requests are let past a protected head, the room promised  *)
(* to it in make_admission_protection stays free for it.                   *)
THEOREM ReservationHolds == Spec => []HeadKeepsItsReservation
BY ReservationFollows, SchedulerInvariant, PTL

(* make_admission_protection waits for no more than it must: no other set  *)
(* of active requests would let the head in before its last donor is gone. *)
THEOREM FrontierHolds == Spec => []FrontierIsEarliest
BY FrontierFollows, SchedulerInvariant, PTL
=============================================================================
