----------------------------- MODULE ResponseStore -----------------------------
(***************************************************************************)
(* serve/response_store.cpp and the Responses handlers that use it         *)
(* (serve/responses_http.cpp): a bounded least-recently-used store of      *)
(* terminal responses whose conversation contexts share nodes.             *)
(*                                                                         *)
(* A response appends its input and output turns to the context of the     *)
(* response it continues, so a context is the sequence of responses whose  *)
(* turns it chains; contexts that went through the same response share its *)
(* nodes, and those bytes are counted once.  Each handler has a thread.    *)
(***************************************************************************)
EXTENDS Naturals, Sequences, FiniteSets, FiniteSetsExt, SequencesExt, Totals

CONSTANTS
    Responses,      \* one id per request; new_response_id never repeats
    Unstored,       \* requests with store:false
    EnvelopeBytes,  \* EnvelopeBytes[r]: record_envelope_bytes
    NodeBytes,      \* NodeBytes[r]: owned_bytes of its input and output nodes
    MaxRecords,
    MaxBytes,
    MaxUses         \* bound: touches of the store that are remembered

ASSUME LimitsAssumption == MaxRecords \in Nat \ {0} /\ MaxBytes \in Nat \ {0}
ASSUME BytesAssumption ==
    EnvelopeBytes \in [Responses -> Nat] /\ NodeBytes \in [Responses -> Nat]

VARIABLES
    stage,          \* stage[r]: where the handler of r is
    context,        \* context[r]: the chained turns, oldest first
    lru,            \* lru_ and records_: ids, most recently used first
    current_bytes,  \* current_bytes_
    uses,           \* history: ids in the order they were touched
    removed         \* history: ids evicted or deleted

vars == <<stage, context, lru, current_bytes, uses, removed>>

Init ==
    /\ stage = [r \in Responses |-> "new"]
    /\ context = [r \in Responses |-> << >>]
    /\ lru = << >>
    /\ current_bytes = 0
    /\ uses = << >>
    /\ removed = {}

-----------------------------------------------------------------------------
EnvelopesOf(S) == Total([r \in S |-> EnvelopeBytes[r]])
NodesOf(S) == Total([r \in S |-> NodeBytes[r]])

RecomputeBytes(ids) ==
    EnvelopesOf(Range(ids)) + NodesOf(UNION {Range(context[r]) : r \in Range(ids)})

StandaloneBytes(r) == EnvelopeBytes[r] + NodesOf(Range(context[r]))

WithinLimits(ids) == Len(ids) <= MaxRecords /\ RecomputeBytes(ids) <= MaxBytes

(* Faulty variant: at most one record makes room for the new one.          *)
EvictedOnce(ids) == IF WithinLimits(ids) THEN ids ELSE Front(ids)

(* The loop of put: the oldest records go until the limits hold; the new   *)
(* record, at the front, is never a victim.                                *)
EvictedUntilWithin(ids) ==
    SubSeq(ids, 1, Max({n \in 1..Len(ids) : n = 1 \/ WithinLimits(SubSeq(ids, 1, n))}))

(* The iterator into the list that the record of r keeps.                  *)
PlaceOf(ids, r) == CHOOSE i \in DOMAIN ids : ids[i] = r

(* Faulty variant: get leaves the order alone.                             *)
TouchedNot(ids, r) == ids

(* lru_.splice to the front.                                               *)
Touched(ids, r) == <<ids[PlaceOf(ids, r)]>> \o RemoveAt(ids, PlaceOf(ids, r))

Stored == Range(lru)
Used(r) == uses' = Append(uses, r) /\ Len(uses) < MaxUses

-----------------------------------------------------------------------------
(* handle_responses: without previous_response_id, with one that is        *)
(* stored, and with one that is not (404).                                 *)
StartFresh(r) ==
    /\ stage[r] = "new"
    /\ stage' = [stage EXCEPT ![r] = "generating"]
    /\ context' = [context EXCEPT ![r] = <<r>>]
    /\ UNCHANGED <<lru, current_bytes, uses, removed>>

Continue(r, q) ==
    /\ stage[r] = "new"
    /\ q \in Stored
    /\ stage' = [stage EXCEPT ![r] = "generating"]
    /\ context' = [context EXCEPT ![r] = Append(context[q], r)]
    /\ lru' = Touched(lru, q)
    /\ Used(q)
    /\ UNCHANGED <<current_bytes, removed>>

ContinueUnknown(r, q) ==
    /\ stage[r] = "new"
    /\ q \notin Stored
    /\ stage' = [stage EXCEPT ![r] = "failed"]
    /\ UNCHANGED <<context, lru, current_bytes, uses, removed>>

(* prepare or run throws, or the client is gone.                           *)
GenerationFails(r) ==
    /\ stage[r] = "generating"
    /\ stage' = [stage EXCEPT ![r] = "failed"]
    /\ UNCHANGED <<context, lru, current_bytes, uses, removed>>

(* terminal_context chains the turns of r to the context it captured; the  *)
(* standalone size counts every ancestor's nodes, stored still or not.     *)
Put(r) ==
    /\ stage[r] = "generating"
    /\ r \notin Unstored
    /\ StandaloneBytes(r) <= MaxBytes
    /\ LET ids == <<r>> \o lru
       IN  /\ lru' = EvictedUntilWithin(ids)
           /\ current_bytes' = RecomputeBytes(lru')
           /\ removed' = removed \union (Range(ids) \ Range(lru'))
    /\ Used(r)
    /\ stage' = [stage EXCEPT ![r] = "stored"]
    /\ UNCHANGED context

PutTooLarge(r) ==
    /\ stage[r] = "generating"
    /\ r \notin Unstored
    /\ StandaloneBytes(r) > MaxBytes
    /\ stage' = [stage EXCEPT ![r] = "failed"]
    /\ UNCHANGED <<context, lru, current_bytes, uses, removed>>

(* Faulty variant: the terminal event is sent first and the record stored  *)
(* afterwards.                                                             *)
AnswerAtOnce(r) ==
    /\ stage[r] \in {"generating", "stored"}
    /\ stage' = [stage EXCEPT ![r] = "answered"]
    /\ UNCHANGED <<context, lru, current_bytes, uses, removed>>

(* The body, or the terminal event of a stream, reaches the client.        *)
Answer(r) ==
    /\ stage[r] = IF r \in Unstored THEN "generating" ELSE "stored"
    /\ stage' = [stage EXCEPT ![r] = "answered"]
    /\ UNCHANGED <<context, lru, current_bytes, uses, removed>>

(* The client disconnects after the record was stored.                     *)
AnswerLost(r) ==
    /\ stage[r] = "stored"
    /\ stage' = [stage EXCEPT ![r] = "lost"]
    /\ UNCHANGED <<context, lru, current_bytes, uses, removed>>

(* handle_response_get, _input_items and _cancel of a stored id.           *)
Get(r) ==
    /\ r \in Stored
    /\ lru' = Touched(lru, r)
    /\ Used(r)
    /\ UNCHANGED <<stage, context, current_bytes, removed>>

Delete(r) ==
    /\ r \in Stored
    /\ lru' = RemoveAt(lru, PlaceOf(lru, r))
    /\ current_bytes' = RecomputeBytes(lru')
    /\ removed' = removed \union {r}
    /\ UNCHANGED <<stage, context, uses>>

Next ==
    \E r \in Responses :
      \/ StartFresh(r)
      \/ \E q \in Responses \ {r} : Continue(r, q) \/ ContinueUnknown(r, q)
      \/ GenerationFails(r)
      \/ Put(r) \/ PutTooLarge(r)
      \/ Answer(r) \/ AnswerLost(r)
      \/ Get(r) \/ Delete(r)

Spec == Init /\ [][Next]_vars

-----------------------------------------------------------------------------
(* Every variable has its type, and no id is listed twice.                 *)
TypeOK ==
    /\ stage \in [Responses -> {"new", "generating", "stored", "answered", "lost", "failed"}]
    /\ context \in [Responses -> Seq(Responses)]
    /\ lru \in Seq(Responses) /\ IsInjective(lru)
    /\ current_bytes \in Nat
    /\ uses \in Seq(Responses)
    /\ removed \subseteq Responses

(* Both limits hold whenever the mutex is free, and the byte total is      *)
(* exactly what the stored records and the distinct context nodes they     *)
(* reach occupy, deleted and evicted ancestors included: however many      *)
(* continuations share or outlive a context, after any mixture of put,     *)
(* eviction and delete.                                                    *)
StoreWithinLimits ==
    /\ TypeOK
    /\ Len(lru) <= MaxRecords
    /\ current_bytes <= MaxBytes
    /\ current_bytes = EnvelopesOf(Stored)
                     + NodesOf({n \in Responses : \E r \in Stored : n \in Range(context[r])})

LastUse(r) == Max({i \in DOMAIN uses : uses[i] = r})

(* A client that has seen the end of a storing response can retrieve and   *)
(* continue it until it is evicted or deleted: put comes before the        *)
(* terminal event.                                                         *)
AnsweredIsStored ==
    \A r \in Responses \ Unstored :
      stage[r] = "answered" => r \in Stored \union removed

(* put makes room only when it is needed, and by recency of use: whatever  *)
(* it evicts was used (stored, continued or read) before every record that *)
(* stays, and keeping the most recent of the victims as well would have    *)
(* broken a limit.                                                         *)
EvictsByNeedAndRecency ==
    [][\A r \in Responses :
         stage[r] = "generating" /\ stage'[r] = "stored" =>
           LET victims == Stored \ Range(lru')
           IN  /\ \A v \in victims, k \in Stored \ victims : LastUse(v) < LastUse(k)
               /\ victims # {} =>
                    LET v == CHOOSE x \in victims : \A y \in victims : LastUse(x) >= LastUse(y)
                    IN  ~ WithinLimits(lru' \o <<v>>)]_vars

-----------------------------------------------------------------------------
(* Every record belongs to a response that was put, and a response that    *)
(* was put keeps its record until it is removed.                           *)
StagesAgree ==
    \A r \in Responses :
      /\ r \in Stored => stage[r] \in {"stored", "answered", "lost"}
      /\ stage[r] \in {"stored", "answered", "lost"} /\ r \notin Unstored =>
           r \in Stored \union removed

(* The list is ordered by the last use of its records.                     *)
ListedByRecency ==
    /\ Stored \subseteq Range(uses)
    /\ \A i, j \in DOMAIN lru : i < j => LastUse(lru[j]) < LastUse(lru[i])

(* The inductive invariant.                                                *)
StoreInv == StoreWithinLimits /\ StagesAgree /\ ListedByRecency
=============================================================================
