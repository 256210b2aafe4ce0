---------------------------- MODULE AdmissionPolicy ----------------------------
(***************************************************************************)
(* runtime/engine/admission_policy.cpp: the pure decisions behind the      *)
(* scheduler.  When the oldest waiting request (the head) does not fit,    *)
(* the active requests are frozen and the ones that will finish first and  *)
(* make room for it become its donors.  Later requests may overtake the    *)
(* head only if they do not use the room it will get (persistent) or if    *)
(* they will be gone before the last donor (temporal).                     *)
(*                                                                         *)
(* Resources are vectors over Kinds; `active` maps the id of every active  *)
(* request to its ActiveAdmissionSnapshot.  Sums are 64-bit in the code    *)
(* and cannot wrap for at most eight 32-bit addends.                       *)
(***************************************************************************)
EXTENDS Naturals, FiniteSets, FiniteSetsExt, Totals

Kinds == {"active_lanes", "main_kv_pages", "backend_kv_pages"}

AddResources(a, b) == [k \in Kinds |-> a[k] + b[k]]

TotalOf(active, ids) ==
    [k \in Kinds |-> Total([i \in ids |-> active[i].resources[k]])]

Fits(used, capacity) == \A k \in Kinds : used[k] <= capacity[k]

-----------------------------------------------------------------------------
(* Faulty variant: the comparison is the wrong way round.                  *)
FinishesAfter(active, i, j) ==
    \/ active[i].work > active[j].work
    \/ active[i].work = active[j].work /\ i <= j

(* The order in which the active requests are projected to finish.         *)
FinishesBy(active, i, j) ==
    \/ active[i].work < active[j].work
    \/ active[i].work = active[j].work /\ i <= j

FrontierUpTo(active, d) == {i \in DOMAIN active : FinishesBy(active, i, d)}

(* What make_admission_protection demands of its arguments, and throws     *)
(* invalid_argument without.                                               *)
ProtectionAllowed(head, active, capacity) ==
    /\ DOMAIN active # {}
    /\ Fits(head, capacity)
    /\ \A i \in DOMAIN active : active[i].work > 0
    /\ ~ Fits(AddResources(head, TotalOf(active, DOMAIN active)), capacity)

(* The first donor, in the order of completion, whose release (together    *)
(* with all before it) lets the head in.                                   *)
LastDonor(head, active, capacity) ==
    LET sufficient == {d \in DOMAIN active :
                         Fits(AddResources(head,
                                TotalOf(active, DOMAIN active \ FrontierUpTo(active, d))),
                              capacity)}
    IN  CHOOSE d \in sufficient : \A e \in sufficient : FinishesBy(active, d, e)

MakeAdmissionProtection(epoch, id, head, active, capacity) ==
    LET last == LastDonor(head, active, capacity)
    IN  [epoch      |-> epoch,
         head       |-> id,
         resources  |-> head,
         incumbents |-> DOMAIN active,
         donors     |-> FrontierUpTo(active, last),
         credit     |-> active[last].work,
         phase      |-> "Open"]

-----------------------------------------------------------------------------
(* The requests that will still hold resources when the donors are gone.   *)
Keepers(p, active) ==
    {i \in DOMAIN active :
        \/ i \in p.incumbents \ p.donors
        \/ /\ i \notin p.incumbents
           /\ active[i].epoch = p.epoch /\ active[i].class = "Persistent"}

(* Faulty variant: the persistent backfills already admitted are forgotten.*)
PersistentBackfillForgetful(p, active, candidate, capacity) ==
    LET keep == DOMAIN active \cap (p.incumbents \ p.donors)
    IN  Fits(AddResources(p.resources, AddResources(candidate, TotalOf(active, keep))),
             capacity)

PersistentBackfillIsSafe(p, active, candidate, capacity) ==
    Fits(AddResources(p.resources,
             AddResources(candidate, TotalOf(active, Keepers(p, active)))), capacity)

ProtectionFrontierDistance(p, active) ==
    LET waiting == {active[i].work : i \in DOMAIN active \cap p.donors}
    IN  IF waiting = {} THEN 0 ELSE Max(waiting)

(* The active requests that a drained head still has to live with.         *)
NotBorrowing(p, active) ==
    {i \in DOMAIN active :
        \/ i \in p.incumbents
        \/ active[i].epoch # p.epoch
        \/ active[i].class # "Temporal"}

ProtectedHeadSafeWithoutTemporal(p, active, capacity) ==
    Fits(AddResources(p.resources, TotalOf(active, NotBorrowing(p, active))), capacity)
=============================================================================
