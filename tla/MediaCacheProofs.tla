--------------------------- MODULE MediaCacheProofs ---------------------------
(***************************************************************************)
(* The media cache, proved for every finite load, every size and every     *)
(* limit: facts about parts and bytes, what a step leaves alone, then one  *)
(* lemma for each kind of step.                                            *)
(***************************************************************************)
EXTENDS MediaCache, CommonLemmas

-----------------------------------------------------------------------------
(* Parts and bytes.                                                        *)

(* What the assumptions say of the load that was chosen.                   *)
LEMMA LoadFacts ==
    ASSUME setup \in Setups
    PROVE  /\ IsFiniteSet(Requests)
           /\ LiveBytes \in Nat /\ MaxRequestBytes \in Nat /\ MaxRequestBytes <= LiveBytes
           /\ \A r \in Requests :
                /\ Parts[r] \in Seq(Keys) /\ Len(Parts[r]) \in Nat \ {0}
                /\ DOMAIN Parts[r] = 1 .. Len(Parts[r])
                /\ \A i \in 1 .. Len(Parts[r]) : Parts[r][i] \in Keys
                /\ Signals[r] \subseteq {"cancelled", "expired"}
<1>1. IsFiniteSet(Requests) /\ LiveBytes \in Nat /\ MaxRequestBytes \in Nat /\ MaxRequestBytes <= LiveBytes
  BY BytesAssumption, PartsAssumption DEF Requests, LiveBytes
<1>2. ASSUME NEW r \in Requests
      PROVE  /\ Parts[r] \in Seq(Keys) /\ Len(Parts[r]) \in Nat \ {0}
             /\ DOMAIN Parts[r] = 1 .. Len(Parts[r])
             /\ \A i \in 1 .. Len(Parts[r]) : Parts[r][i] \in Keys
             /\ Signals[r] \subseteq {"cancelled", "expired"}
  <2>1. /\ setup.parts[r] \in Seq(Keys) /\ setup.parts[r] # << >>
        /\ setup.signals[r] \subseteq {"cancelled", "expired"}
    BY PartsAssumption DEF Requests
  <2> QED BY <2>1 DEF Parts, Signals
<1> QED BY <1>1, <1>2

(* A part is a request and a position.                                     *)
LEMMA PartFacts ==
    ASSUME setup \in Setups
    PROVE  /\ \A p \in MediaParts :
                /\ p[1] \in Requests /\ p[2] \in 1 .. Len(Parts[p[1]]) /\ p = <<p[1], p[2]>>
                /\ KeyOf(p) \in Keys /\ BytesOf(p) \in Nat \ {0}
           /\ \A r \in Requests : \A i \in 1 .. Len(Parts[r]) : <<r, i>> \in MediaParts
           /\ IsFiniteSet(MediaParts)
<1>1. ASSUME NEW p \in MediaParts
      PROVE  /\ p[1] \in Requests /\ p[2] \in 1 .. Len(Parts[p[1]]) /\ p = <<p[1], p[2]>>
             /\ KeyOf(p) \in Keys /\ BytesOf(p) \in Nat \ {0}
  <2>1. p[1] \in Requests /\ p[2] \in DOMAIN Parts[p[1]] /\ p = <<p[1], p[2]>>
    BY DEF MediaParts
  <2>2. p[2] \in 1 .. Len(Parts[p[1]]) /\ KeyOf(p) \in Keys
    BY <2>1, LoadFacts DEF KeyOf
  <2> QED BY <2>1, <2>2, BytesAssumption DEF BytesOf
<1>2. ASSUME NEW r \in Requests, NEW i \in 1 .. Len(Parts[r]) PROVE <<r, i>> \in MediaParts
  BY LoadFacts DEF MediaParts
<1>3. IsFiniteSet(MediaParts)
  <2> DEFINE f == [r \in Requests |-> Len(Parts[r])]
  <2>1. f \in [Requests -> Nat]
    BY LoadFacts
  <2>2. MediaParts = Units(f)
    BY LoadFacts DEF MediaParts, Units
  <2> HIDE DEF f
  <2> QED BY <2>1, <2>2, LoadFacts, TotalIsNat
<1> QED BY <1>1, <1>2, <1>3

(* The load never changes, and what is read from it neither.               *)
LEMMA LoadStays ==
    ASSUME setup' = setup
    PROVE  /\ Requests' = Requests /\ Parts' = Parts /\ Signals' = Signals
           /\ LiveBytes' = LiveBytes /\ MediaParts' = MediaParts
           /\ \A p : KeyOf(p)' = KeyOf(p) /\ BytesOf(p)' = BytesOf(p)
           /\ \A S : BytesIn(S)' = BytesIn(S)
BY DEF Requests, Parts, Signals, LiveBytes, MediaParts, KeyOf, BytesOf, BytesIn

(* Bytes of a set of parts.                                                *)
LEMMA BytesOfSets ==
    ASSUME setup \in Setups, NEW T, T \subseteq MediaParts
    PROVE  /\ BytesIn(T) \in Nat
           /\ \A S : S \subseteq T => BytesIn(S) <= BytesIn(T)
           /\ \A p \in MediaParts : BytesIn(T \cup {p}) <= BytesIn(T) + BytesOf(p)
<1> DEFINE Of(S) == [p \in S |-> BytesOf(p)]
<1>1. ASSUME NEW S, S \subseteq MediaParts
      PROVE  Of(S) \in [S -> Nat] /\ IsFiniteSet(S) /\ BytesIn(S) = Total(Of(S)) /\ BytesIn(S) \in Nat
  <2>1. Of(S) \in [S -> Nat]
    BY <1>1, PartFacts
  <2>2. IsFiniteSet(S)
    BY <1>1, PartFacts, FS_Subset
  <2>3. BytesIn(S) = Total(Of(S))
    BY DEF BytesIn
  <2> HIDE DEF Of
  <2> QED BY <2>1, <2>2, <2>3, TotalIsNat
<1>2. ASSUME NEW S, S \subseteq T PROVE BytesIn(S) <= BytesIn(T)
  <2>1. \A p \in S : Of(S)[p] = Of(T)[p]
    BY <1>2
  <2>2. Of(S) \in [S -> Nat] /\ Of(T) \in [T -> Nat] /\ IsFiniteSet(T)
    BY <1>1, <1>2
  <2>3. BytesIn(S) = Total(Of(S)) /\ BytesIn(T) = Total(Of(T))
    BY <1>1, <1>2
  <2> HIDE DEF Of
  <2> QED BY <1>2, <2>1, <2>2, <2>3, TotalOfPart
<1>3. ASSUME NEW p \in MediaParts PROVE BytesIn(T \cup {p}) <= BytesIn(T) + BytesOf(p)
  <2>1. CASE p \in T
    <3>1. T \cup {p} = T
      BY <2>1
    <3>2. BytesIn(T) \in Nat /\ BytesOf(p) \in Nat
      BY <1>1, PartFacts
    <3>3. BytesIn(T \cup {p}) = BytesIn(T)
      BY <3>1, Zenon
    <3> QED BY <3>2, <3>3
  <2>2. CASE p \notin T
    <3>1. T \cup {p} \subseteq MediaParts
      OBVIOUS
    <3>2. /\ Of(T) \in [T -> Nat] /\ Of(T \cup {p}) \in [T \cup {p} -> Nat] /\ IsFiniteSet(T)
          /\ BytesIn(T) = Total(Of(T)) /\ BytesIn(T \cup {p}) = Total(Of(T \cup {p}))
          /\ BytesIn(T) \in Nat /\ BytesIn(T \cup {p}) \in Nat
      BY <1>1, <3>1
    <3>3. /\ \A q \in T : Of(T \cup {p})[q] = Of(T)[q]
          /\ Of(T \cup {p})[p] = BytesOf(p)
      OBVIOUS
    <3>4. BytesOf(p) \in Nat
      BY PartFacts
    <3> HIDE DEF Of
    <3>5. Total(Of(T \cup {p})) = Total(Of(T)) + Of(T \cup {p})[p]
      BY <2>2, <3>2, <3>3, TotalExtended
    <3> QED BY <3>2, <3>3, <3>4, <3>5
  <2> QED BY <2>1, <2>2
<1> QED BY <1>1, <1>2, <1>3

-----------------------------------------------------------------------------
(* What a step leaves alone.                                               *)

SameRequest(q) ==
    /\ stage'[q] = stage[q] /\ index'[q] = index[q] /\ error'[q] = error[q]
    /\ pending'[q] = pending[q] /\ output'[q] = output[q] /\ total'[q] = total[q]

SamePart(p) ==
    flight'[p] = flight[p] /\ task'[p] = task[p] /\ (p \in built' <=> p \in built)

(* No step frees a settled payload or forgets that a flight was started.   *)
KeepsPayloads ==
    \A p \in MediaParts : /\ Settled(p) => Settled(p)'
                          /\ flight[p] # "none" => flight'[p] # "none"

(* Types of the sequences.                                                 *)
LEMMA SequenceTypes ==
    ASSUME TypeOK
    PROVE  /\ \A r \in Requests :
                /\ Len(pending[r]) \in Nat /\ DOMAIN pending[r] = 1 .. Len(pending[r])
                /\ \A i \in 1 .. Len(pending[r]) :
                     pending[r][i].hit \in BOOLEAN /\ pending[r][i].flight \in MediaParts
                /\ Len(output[r]) \in Nat /\ DOMAIN output[r] = 1 .. Len(output[r])
                /\ \A i \in 1 .. Len(output[r]) : output[r][i] \in MediaParts
           /\ Len(lru) \in Nat /\ DOMAIN lru = 1 .. Len(lru)
           /\ \A i \in 1 .. Len(lru) : lru[i] \in MediaParts
           /\ Len(queue) \in Nat /\ DOMAIN queue = 1 .. Len(queue)
           /\ \A i \in 1 .. Len(queue) : queue[i] \in MediaParts
<1> DEFINE Item0 == [hit : BOOLEAN, flight : MediaParts]
<1>1. ASSUME NEW r \in Requests
      PROVE  /\ Len(pending[r]) \in Nat /\ DOMAIN pending[r] = 1 .. Len(pending[r])
             /\ \A i \in 1 .. Len(pending[r]) :
                  pending[r][i].hit \in BOOLEAN /\ pending[r][i].flight \in MediaParts
             /\ Len(output[r]) \in Nat /\ DOMAIN output[r] = 1 .. Len(output[r])
             /\ \A i \in 1 .. Len(output[r]) : output[r][i] \in MediaParts
  <2>1. pending[r] \in Seq(Item0) /\ output[r] \in Seq(MediaParts)
    BY DEF TypeOK
  <2>2. \A i \in 1 .. Len(pending[r]) : pending[r][i] \in Item0
    <3> HIDE DEF Item0
    <3> QED BY <2>1, ElementOfSeq
  <2>3. \A i \in 1 .. Len(output[r]) : output[r][i] \in MediaParts
    BY <2>1, ElementOfSeq
  <2>4. /\ Len(pending[r]) \in Nat /\ DOMAIN pending[r] = 1 .. Len(pending[r])
        /\ Len(output[r]) \in Nat /\ DOMAIN output[r] = 1 .. Len(output[r])
    <3> HIDE DEF Item0
    <3> QED BY <2>1, LenProperties
  <2>5. \A i \in 1 .. Len(pending[r]) :
          pending[r][i].hit \in BOOLEAN /\ pending[r][i].flight \in MediaParts
    BY <2>2
  <2> QED BY <2>3, <2>4, <2>5
<1>2. lru \in Seq(MediaParts) /\ queue \in Seq(MediaParts)
  BY DEF TypeOK
<1>3. /\ Len(lru) \in Nat /\ DOMAIN lru = 1 .. Len(lru)
      /\ \A i \in 1 .. Len(lru) : lru[i] \in MediaParts
      /\ Len(queue) \in Nat /\ DOMAIN queue = 1 .. Len(queue)
      /\ \A i \in 1 .. Len(queue) : queue[i] \in MediaParts
  BY <1>2, LenProperties, ElementOfSeq
<1> QED BY <1>1, <1>3

(* A request that a step does not touch keeps its share of the invariant.  *)
LEMMA RequestUndisturbed ==
    ASSUME TypeOK, setup' = setup, KeepsPayloads,
           NEW q \in Requests, SameRequest(q), LoopOf(q), HoldingsOf(q)
    PROVE  LoopOf(q)' /\ HoldingsOf(q)'
<1>1. LoopOf(q)'
  BY DEF LoopOf, SameRequest, Parts
<1>2. HoldingsOf(q)'
  BY SequenceTypes DEF HoldingsOf, SameRequest, KeepsPayloads, Parts, KeyOf, BytesOf
<1> QED BY <1>1, <1>2

(* So does a part.                                                         *)
LEMMA PartUndisturbed ==
    ASSUME TypeOK, setup' = setup, NEW p \in MediaParts,
           SamePart(p), SameRequest(p[1]), FlightOf(p), AwaitedOf(p)
    PROVE  FlightOf(p)' /\ AwaitedOf(p)'
BY DEF SamePart, SameRequest, FlightOf, AwaitedOf, PartOf, Settled

-----------------------------------------------------------------------------
(* Limits.                                                                 *)

(* The live account does not grow when nothing is built and nothing that   *)
(* was free to go is referred to again.                                    *)
LEMMA LiveStays ==
    ASSUME TypeOK, setup' = setup, WithinLimits,
           \A p \in built' : p \in built /\ (Referenced(p)' => Referenced(p))
    PROVE  BytesIn(LivePayloads)' <= LiveBytes'
<1>1. LivePayloads' \subseteq LivePayloads
  BY DEF LivePayloads
<1>2. LivePayloads \subseteq MediaParts /\ setup \in Setups
  BY DEF LivePayloads, TypeOK
<1>3. BytesIn(LivePayloads') <= BytesIn(LivePayloads)
  BY <1>1, <1>2, BytesOfSets
<1>4. BytesIn(LivePayloads) \in Nat /\ BytesIn(LivePayloads') \in Nat /\ LiveBytes \in Nat
  BY <1>1, <1>2, BytesOfSets, LoadFacts
<1>5. BytesIn(LivePayloads)' = BytesIn(LivePayloads')
  BY DEF BytesIn, BytesOf, KeyOf, Parts
<1>6. BytesIn(LivePayloads) <= LiveBytes /\ LiveBytes' = LiveBytes
  BY DEF WithinLimits, LiveBytes
<1>7. BytesIn(LivePayloads') <= LiveBytes
  BY <1>3, <1>4, <1>6
<1> QED BY <1>5, <1>6, <1>7

(* The retained bytes do not grow when no other payload is retained.       *)
LEMMA RetainedStays ==
    ASSUME TypeOK, setup' = setup, WithinLimits, Range(lru') \subseteq Range(lru)
    PROVE  BytesIn(Range(lru))' <= CapacityBytes
<1>1. Range(lru) \subseteq MediaParts /\ setup \in Setups
  BY SequenceTypes DEF Range, TypeOK
<1>2. BytesIn(Range(lru')) <= BytesIn(Range(lru))
  BY <1>1, BytesOfSets
<1>3. BytesIn(Range(lru)) \in Nat /\ BytesIn(Range(lru')) \in Nat /\ CapacityBytes \in Nat
  BY <1>1, BytesOfSets, BytesAssumption
<1>4. BytesIn(Range(lru))' = BytesIn(Range(lru'))
  BY DEF BytesIn, BytesOf, KeyOf, Parts, Range
<1>5. BytesIn(Range(lru)) <= CapacityBytes
  BY DEF WithinLimits
<1>6. BytesIn(Range(lru')) <= CapacityBytes
  BY <1>2, <1>3, <1>5
<1> QED BY <1>4, <1>6

(* No more threads are busy when no other task runs.                       *)
LEMMA RunningStays ==
    ASSUME TypeOK, setup' = setup, WithinLimits, Running' \subseteq Running
    PROVE  Cardinality(Running') <= Threads
<1>1. Running \subseteq MediaParts /\ setup \in Setups
  BY DEF Running, TypeOK
<1>2. IsFiniteSet(Running)
  BY <1>1, PartFacts, FS_Subset
<1>3. /\ Cardinality(Running') <= Cardinality(Running)
      /\ Cardinality(Running') \in Nat /\ Cardinality(Running) \in Nat
  BY <1>2, FS_Subset, FS_CardinalityType
<1>4. Cardinality(Running) <= Threads /\ Threads \in Nat
  BY PoolAssumption DEF WithinLimits
<1> QED BY <1>3, <1>4

-----------------------------------------------------------------------------
(* Steps of a request that leave the cache and the pool alone.             *)

CacheStill == UNCHANGED <<flight, inflight, lru, queue, task, built, claimed>>

(* Such a step keeps the invariant if it does for the request and its      *)
(* parts, and refers to no payload that was free to go.                    *)
LEMMA QuietRequestStep ==
    ASSUME CacheInv, setup' = setup, NEW r \in Requests, TypeOK', CacheStill,
           \A q \in Requests : q # r => SameRequest(q),
           LoopOf(r)', HoldingsOf(r)',
           \A p \in MediaParts : p[1] = r => FlightOf(p)' /\ AwaitedOf(p)',
           stage[r] = "unlist" \/ stage'[r] = "unlist" =>
             stage'[r] = stage[r] /\ index'[r] = index[r],
           \A p \in built : p \in HeldBy(r)' => Referenced(p)
    PROVE  CacheInv'
<1> USE DEF CacheInv
<1>1. KeepsPayloads
  BY DEF KeepsPayloads, CacheStill, Settled
<1>2. \A q \in Requests : LoopOf(q)' /\ HoldingsOf(q)'
  BY <1>1, RequestUndisturbed
<1>3. setup \in Setups
  BY DEF TypeOK
<1>4. ASSUME NEW p \in MediaParts, p[1] # r PROVE FlightOf(p)' /\ AwaitedOf(p)'
  <2>1. p[1] \in Requests
    BY <1>3, PartFacts
  <2>2. SamePart(p) /\ SameRequest(p[1])
    BY <1>4, <2>1 DEF SamePart, CacheStill
  <2> QED BY <2>2, PartUndisturbed
<1>5. MediaParts' = MediaParts /\ Requests' = Requests
  BY LoadStays
<1>6. MapInv'
  <2>1. \A p \in MediaParts : stage'[p[1]] = "unlist" /\ PartOf(p[1])' = p
                          <=> stage[p[1]] = "unlist" /\ PartOf(p[1]) = p
    <3>1. ASSUME NEW p \in MediaParts, p[1] # r PROVE stage'[p[1]] = stage[p[1]] /\ index'[p[1]] = index[p[1]]
      BY <1>3, <3>1, PartFacts DEF SameRequest
    <3> QED BY <3>1 DEF PartOf
  <2>2. inflight' = {p \in MediaParts : \/ flight'[p] = "open"
                                        \/ task'[p] = "erasing"
                                        \/ stage'[p[1]] = "unlist" /\ PartOf(p[1])' = p}
    BY <2>1 DEF MapInv, CacheStill
  <2>3. \A p, q \in inflight' : KeyOf(p)' = KeyOf(q)' => p = q
    BY LoadStays DEF MapInv, CacheStill
  <2>4. /\ \A i \in DOMAIN lru' : Settled(lru[i])'
        /\ \A i, j \in DOMAIN lru' : KeyOf(lru[i])' = KeyOf(lru[j])' => i = j
        /\ \A p \in inflight', i \in DOMAIN lru' :
             KeyOf(p)' = KeyOf(lru[i])' => task'[p] \in {"publishing", "erasing"}
    BY DEF MapInv, CacheStill, KeyOf, Parts, Settled
  <2> QED BY <1>5, <2>2, <2>3, <2>4 DEF MapInv
<1>7. QueueInv'
  BY DEF QueueInv, CacheStill
<1>8. WithinLimits'
  <2>1. ASSUME NEW p \in built' PROVE p \in built /\ (Referenced(p)' => Referenced(p))
    <3>1. \A q \in Requests : q # r => HeldBy(q)' = HeldBy(q)
      BY DEF SameRequest, HeldBy, Range
    <3> QED BY <1>5, <3>1 DEF CacheStill, Referenced
  <2>2. BytesIn(LivePayloads)' <= LiveBytes'
    BY <2>1, LiveStays
  <2>3. BytesIn(Range(lru))' <= CapacityBytes
    BY RetainedStays DEF CacheStill
  <2>4. Cardinality(Running') <= Threads
    BY <1>5, RunningStays DEF Running, CacheStill
  <2>5. \A q \in Requests : index'[q] <= Len(Parts'[q]) + 1
    BY <1>2 DEF LoopOf
  <2> QED BY <1>5, <2>2, <2>3, <2>4, <2>5 DEF WithinLimits, CacheStill
<1> QED BY <1>2, <1>4, <1>5, <1>6, <1>7, <1>8

(* What is known of the entries of one request.                            *)
LEMMA EntryTypes ==
    ASSUME TypeOK, NEW r \in Requests
    PROVE  /\ stage[r] \in InProcess \cup {"new", "failed", "prompt", "released"}
           /\ index[r] \in Nat \ {0} /\ signal[r] \in {"none", "cancelled", "expired"}
           /\ error[r] \in Errors \cup {"none"}
           /\ total[r] \in Nat /\ claimed[r] \in Nat
           /\ pending[r] \in Seq([hit : BOOLEAN, flight : MediaParts])
           /\ output[r] \in Seq(MediaParts)
           /\ Len(pending[r]) \in Nat /\ Len(output[r]) \in Nat
           /\ DOMAIN pending[r] = 1 .. Len(pending[r]) /\ DOMAIN output[r] = 1 .. Len(output[r])
           /\ Len(Parts[r]) \in Nat \ {0}
BY SequenceTypes, LoadFacts DEF TypeOK

(* The entries of a request that moves on with what it holds: how stage,   *)
(* index and error may change.                                             *)
MovesOn(r) ==
    /\ pending'[r] = pending[r] /\ output'[r] = output[r]
    /\ total'[r] = total[r] \/ (error'[r] # "none" /\ stage'[r] = "await")
    /\ \/ /\ index'[r] = index[r] /\ error'[r] = error[r]
          /\ \/ stage'[r] = stage[r]
             \/ stage[r] = "new" /\ stage'[r] = "gate"
             \/ stage[r] = "gate" /\ stage'[r] = "begin"
             \/ stage[r] = "await" /\ stage'[r] = "waiting"
             \/ /\ stage[r] = "await" /\ stage'[r] = "encoding"
                /\ index[r] > Len(pending[r]) /\ error[r] = "none"
       \/ /\ error'[r] # "none"
          /\ \/ stage[r] = "gate" /\ stage'[r] = "failed" /\ index'[r] = index[r]
             \/ stage[r] = "begin" /\ stage'[r] = "await" /\ index'[r] = 1
             \/ stage[r] \in {"await", "waiting"} /\ stage'[r] = "await" /\ index'[r] = index[r]
             \/ /\ stage[r] \in {"await", "waiting"} /\ stage'[r] = "await"
                /\ index[r] <= Len(pending[r]) /\ index'[r] = index[r] + 1
                /\ task[pending[r][index[r]].flight] \notin UsesFrame

(* Moving on keeps the invariant.                                          *)
LEMMA MovesOnKeeps ==
    ASSUME CacheInv, setup' = setup, NEW r \in Requests, TypeOK', CacheStill,
           \A q \in Requests : q # r => SameRequest(q), MovesOn(r)
    PROVE  CacheInv'
<1>1. TypeOK /\ LoopOf(r) /\ HoldingsOf(r)
  BY DEF CacheInv
<1>2. setup \in Setups /\ MediaParts' = MediaParts /\ Requests' = Requests /\ Parts'[r] = Parts[r]
  BY <1>1, LoadStays DEF TypeOK
<1>3. LoopOf(r)'
  <2>1. Len(pending[r]) <= Len(Parts[r])
    BY <1>1 DEF HoldingsOf
  <2> QED BY <1>1, <1>2, <2>1, EntryTypes DEF LoopOf, MovesOn
<1>4. HoldingsOf(r)'
  <2>1. stage'[r] \in InProcess => stage[r] \in InProcess \/ output[r] = << >>
    BY <1>1 DEF MovesOn, LoopOf, InProcess, Preparing
  <2>2. error'[r] = "none" /\ stage'[r] # "released" => error[r] = "none" /\ stage[r] # "released"
    BY DEF MovesOn
  <2>3. UNCHANGED <<setup, flight, task, built>>
    BY DEF CacheStill
  <2>4. /\ pending'[r] = pending[r] /\ output'[r] = output[r]
        /\ error'[r] = "none" => total'[r] = total[r]
    BY DEF MovesOn
  <2>5. \A i \in DOMAIN pending[r] :
          /\ KeyOf(pending[r][i].flight)' = Parts'[r][i]
          /\ pending'[r][i].hit => Settled(pending[r][i].flight)'
          /\ flight'[pending'[r][i].flight] # "none"
    BY <1>1, <2>3, <2>4 DEF HoldingsOf, KeyOf, Parts, Settled
  <2>6. \A i \in DOMAIN output[r] :
          /\ i <= Len(Parts'[r]) /\ KeyOf(output[r][i])' = Parts'[r][i] /\ Settled(output[r][i])'
          /\ stage'[r] \in InProcess => i <= Len(pending[r]) /\ output[r][i] = pending[r][i].flight
    <3>1. output[r] = << >> => DOMAIN output[r] = {}
      OBVIOUS
    <3> QED BY <1>1, <2>1, <2>3, <2>4, <3>1 DEF HoldingsOf, KeyOf, Parts, Settled
  <2>7. error'[r] = "none" /\ stage'[r] # "released" =>
          /\ total'[r] = Total([i \in DOMAIN output'[r] |-> BytesOf(output[r][i])'])
          /\ total'[r] <= MaxRequestBytes
    BY <1>1, <2>2, <2>3, <2>4 DEF HoldingsOf, BytesOf, KeyOf, Parts
  <2> QED BY <1>1, <1>2, <2>4, <2>5, <2>6, <2>7 DEF HoldingsOf
<1>5. ASSUME NEW p \in MediaParts, p[1] = r PROVE FlightOf(p)' /\ AwaitedOf(p)'
  <2>1. FlightOf(p) /\ AwaitedOf(p) /\ SamePart(p)
    BY DEF CacheInv, CacheStill, SamePart
  <2>2. FlightOf(p)'
    BY <1>1, <1>2, <1>5, <2>1, EntryTypes, PartFacts
       DEF FlightOf, SamePart, MovesOn, PartOf, Settled, LoopOf
  <2>3. ASSUME task[p] \in UsesFrame
        PROVE  /\ stage'[r] \in Preparing
               /\ \E i \in DOMAIN pending[r] :
                    /\ ~ pending[r][i].hit /\ pending[r][i].flight = p
                    /\ stage'[r] \in {"await", "waiting"} => index'[r] <= i
    <3>1. /\ stage[r] \in Preparing /\ index[r] \in Nat
          /\ DOMAIN pending[r] = 1 .. Len(pending[r]) /\ Len(pending[r]) \in Nat
      BY <1>1, <1>5, <2>1, <2>3, EntryTypes DEF AwaitedOf
    <3>2. PICK i \in DOMAIN pending[r] :
            /\ ~ pending[r][i].hit /\ pending[r][i].flight = p
            /\ stage[r] \in {"await", "waiting"} => index[r] <= i
      BY <1>5, <2>1, <2>3 DEF AwaitedOf
    <3>3. i \in Nat /\ 1 <= i /\ i <= Len(pending[r])
      BY <3>1, <3>2
    <3>4. index[r] = i => task[pending[r][index[r]].flight] \in UsesFrame
      BY <2>3, <3>2
    <3>5. /\ stage'[r] \in Preparing
          /\ stage'[r] \in {"await", "waiting"} => index'[r] <= i
      BY <3>1, <3>2, <3>3, <3>4 DEF MovesOn, Preparing
    <3> QED BY <3>2, <3>5
  <2>4. AwaitedOf(p)'
    BY <1>5, <2>1, <2>3 DEF AwaitedOf, SamePart, MovesOn
  <2> QED BY <2>2, <2>4
<1>6. stage[r] = "unlist" \/ stage'[r] = "unlist" => stage'[r] = stage[r] /\ index'[r] = index[r]
  BY DEF MovesOn
<1>7. \A p \in built : p \in HeldBy(r)' => Referenced(p)
  <2>1. HeldBy(r)' = HeldBy(r)
    BY DEF HeldBy, Range, MovesOn
  <2> QED BY <2>1 DEF Referenced
<1> QED BY <1>3, <1>4, <1>5, <1>6, <1>7, QuietRequestStep

(* The steps that only move on, or record an error and move on.            *)
LEMMA MovingStepsKeep ==
    ASSUME CacheInv, setup' = setup, NEW r \in Requests,
           \/ Arrive(r) \/ AcquirePermit(r) \/ GateThrows(r) \/ BeginThrows(r) \/ AwaitEnters(r)
           \/ AwaitRethrows(r) \/ AwaitThrows(r) \/ ReturnPermit(r) \/ Raise(r)
    PROVE  CacheInv'
<1>1. TypeOK /\ HoldingsOf(r) /\ LoopOf(r)
  BY DEF CacheInv
<1>2. setup \in Setups /\ MediaParts' = MediaParts /\ Requests' = Requests
  BY <1>1, LoadStays DEF TypeOK
<1>3. CASE Arrive(r)
  <2>1. CacheStill
    BY <1>3 DEF Arrive, CacheStill, cacheVars, poolVars
  <2>2. (\A q \in Requests : q # r => SameRequest(q)) /\ MovesOn(r)
    BY <1>1, <1>3, EntryTypes DEF TypeOK, SameRequest, MovesOn, Arrive
  <2>3. TypeOK'
    BY <1>1, <1>2, <1>3, <2>1, EntryTypes DEF TypeOK, CacheStill, InProcess, Preparing, Errors, Arrive
  <2> QED BY <2>1, <2>2, <2>3, MovesOnKeeps
<1>4. CASE AcquirePermit(r)
  <2>1. CacheStill
    BY <1>4 DEF AcquirePermit, CacheStill, cacheVars, poolVars
  <2>2. (\A q \in Requests : q # r => SameRequest(q)) /\ MovesOn(r)
    BY <1>1, <1>4, EntryTypes DEF TypeOK, SameRequest, MovesOn, AcquirePermit
  <2>3. TypeOK'
    BY <1>1, <1>2, <1>4, <2>1, EntryTypes DEF TypeOK, CacheStill, InProcess, Preparing, Errors, AcquirePermit
  <2> QED BY <2>1, <2>2, <2>3, MovesOnKeeps
<1>5. CASE GateThrows(r)
  <2>1. CacheStill
    BY <1>5 DEF GateThrows, CacheStill, cacheVars, poolVars
  <2>2. (\A q \in Requests : q # r => SameRequest(q)) /\ MovesOn(r)
    BY <1>1, <1>5, EntryTypes DEF TypeOK, SameRequest, MovesOn, GateThrows
  <2>3. TypeOK'
    BY <1>1, <1>2, <1>5, <2>1, EntryTypes DEF TypeOK, CacheStill, InProcess, Preparing, Errors, GateThrows
  <2> QED BY <2>1, <2>2, <2>3, MovesOnKeeps
<1>6. CASE BeginThrows(r)
  <2>1. CacheStill
    BY <1>6 DEF BeginThrows, CacheStill, cacheVars, poolVars
  <2>2. (\A q \in Requests : q # r => SameRequest(q)) /\ MovesOn(r)
    BY <1>1, <1>6, EntryTypes DEF TypeOK, SameRequest, MovesOn, BeginThrows, StopBeginning
  <2>3. TypeOK'
    <3>1. /\ stage' \in [Requests -> InProcess \cup {"new", "failed", "prompt", "released"}]
          /\ index' \in [Requests -> Nat \ {0}]
      BY <1>1, <1>6 DEF TypeOK, BeginThrows, StopBeginning, InProcess, Preparing
    <3>2. error' \in [Requests -> Errors \cup {"none"}]
      BY <1>1, <1>6, EntryTypes DEF TypeOK, BeginThrows, StopBeginning, Errors
    <3>3. UNCHANGED <<signal, pending, output, total>>
      BY <1>6 DEF BeginThrows
    <3> QED BY <1>1, <1>2, <2>1, <3>1, <3>2, <3>3 DEF TypeOK, CacheStill
  <2> QED BY <2>1, <2>2, <2>3, MovesOnKeeps
<1>7. CASE AwaitEnters(r)
  <2>1. CacheStill
    BY <1>7 DEF AwaitEnters, CacheStill, cacheVars, poolVars
  <2>2. (\A q \in Requests : q # r => SameRequest(q)) /\ MovesOn(r)
    BY <1>1, <1>7, EntryTypes DEF TypeOK, SameRequest, MovesOn, AwaitEnters, AtItem
  <2>3. TypeOK'
    BY <1>1, <1>2, <1>7, <2>1, EntryTypes DEF TypeOK, CacheStill, InProcess, Preparing, Errors, AwaitEnters, AtItem
  <2> QED BY <2>1, <2>2, <2>3, MovesOnKeeps
<1>8. CASE AwaitRethrows(r)
  <2>1. CacheStill
    BY <1>8 DEF AwaitRethrows, CacheStill, cacheVars, poolVars
  <2>a. Item(r).flight \in MediaParts /\ flight[Item(r).flight] \in Errors
    <3>1. index[r] \in 1 .. Len(pending[r])
      BY <1>1, <1>8, EntryTypes DEF AwaitRethrows, AtItem
    <3>2. Item(r).flight \in MediaParts /\ flight[Item(r).flight] # "none"
      BY <1>1, <3>1, SequenceTypes DEF Item, HoldingsOf
    <3> QED BY <1>1, <1>8, <3>2 DEF AwaitRethrows, TypeOK
  <2>2. (\A q \in Requests : q # r => SameRequest(q)) /\ MovesOn(r)
    <3>1. /\ stage[r] = "waiting" /\ stage' = [stage EXCEPT ![r] = "await"]
          /\ index[r] <= Len(pending[r]) /\ index' = [index EXCEPT ![r] = @ + 1]
          /\ UNCHANGED <<pending, output, total>>
      BY <1>8 DEF AwaitRethrows, AtItem, Advance
    <3>2. /\ error' = [error EXCEPT ![r] = IF @ = "none" THEN flight[Item(r).flight] ELSE @]
          /\ flight[Item(r).flight] # "open"
      BY <1>8 DEF AwaitRethrows
    <3>3. error'[r] # "none" /\ \A q \in Requests : q # r => error'[q] = error[q]
      BY <1>1, <2>a, <3>2 DEF Errors, TypeOK
    <3>4. task[Item(r).flight] \notin UsesFrame
      BY <2>a, <3>2 DEF CacheInv, FlightOf
    <3> QED BY <1>1, <3>1, <3>3, <3>4 DEF TypeOK, SameRequest, MovesOn, Item
  <2>3. TypeOK'
    <3>1. /\ stage' \in [Requests -> InProcess \cup {"new", "failed", "prompt", "released"}]
          /\ index' \in [Requests -> Nat \ {0}]
      BY <1>1, <1>8 DEF TypeOK, AwaitRethrows, Advance, InProcess, Preparing
    <3>2. error' \in [Requests -> Errors \cup {"none"}]
      BY <1>1, <1>8, <2>a DEF TypeOK, AwaitRethrows
    <3>3. UNCHANGED <<signal, pending, output, total>>
      BY <1>8 DEF AwaitRethrows
    <3> QED BY <1>1, <1>2, <2>1, <3>1, <3>2, <3>3 DEF TypeOK, CacheStill
  <2> QED BY <2>1, <2>2, <2>3, MovesOnKeeps
<1>9. CASE AwaitThrows(r)
  <2>1. CacheStill
    BY <1>9 DEF AwaitThrows, CacheStill, cacheVars, poolVars
  <2>2. (\A q \in Requests : q # r => SameRequest(q)) /\ MovesOn(r)
    BY <1>1, <1>9, EntryTypes DEF TypeOK, SameRequest, MovesOn, AwaitThrows, AtItem
  <2>3. TypeOK'
    BY <1>1, <1>2, <1>9, <2>1, EntryTypes DEF TypeOK, CacheStill, InProcess, Preparing, Errors, AwaitThrows, AtItem
  <2> QED BY <2>1, <2>2, <2>3, MovesOnKeeps
<1>10. CASE ReturnPermit(r)
  <2>1. CacheStill
    BY <1>10 DEF ReturnPermit, CacheStill, cacheVars, poolVars
  <2>2. (\A q \in Requests : q # r => SameRequest(q)) /\ MovesOn(r)
    BY <1>1, <1>10, EntryTypes DEF TypeOK, SameRequest, MovesOn, ReturnPermit
  <2>3. TypeOK'
    BY <1>1, <1>2, <1>10, <2>1, EntryTypes DEF TypeOK, CacheStill, InProcess, Preparing, Errors, ReturnPermit
  <2> QED BY <2>1, <2>2, <2>3, MovesOnKeeps
<1>11. CASE Raise(r)
  <2>1. CacheStill
    BY <1>11 DEF Raise, CacheStill, cacheVars, poolVars
  <2>2. (\A q \in Requests : q # r => SameRequest(q)) /\ MovesOn(r)
    BY <1>1, <1>11, EntryTypes DEF TypeOK, SameRequest, MovesOn, Raise
  <2>3. TypeOK'
    <3>1. signal' \in [Requests -> {"none", "cancelled", "expired"}]
      BY <1>1, <1>2, <1>11, LoadFacts DEF TypeOK, Raise
    <3>2. UNCHANGED <<stage, index, error, pending, output, total>>
      BY <1>11 DEF Raise
    <3> QED BY <1>1, <1>2, <2>1, <3>1, <3>2 DEF TypeOK, CacheStill
  <2> QED BY <2>1, <2>2, <2>3, MovesOnKeeps
<1> QED BY <1>3, <1>4, <1>5, <1>6, <1>7, <1>8, <1>9, <1>10, <1>11

(* The entries of a request that leaves process(), or whose prompt is      *)
(* released: it drops its items, its payloads, or both.                    *)
Drops(r) ==
    /\ index'[r] = index[r] /\ total'[r] = total[r]
    /\ pending'[r] \in {pending[r], << >>} /\ output'[r] \in {output[r], << >>}
    /\ \/ stage[r] = "await" /\ index[r] > Len(pending[r]) /\ stage'[r] = "failed" /\ error'[r] # "none"
       \/ /\ stage[r] = "encoding" /\ stage'[r] = "prompt"
          /\ output'[r] = output[r] /\ error'[r] = error[r]
       \/ stage[r] = "encoding" /\ stage'[r] = "failed" /\ error'[r] # "none"
       \/ stage[r] = "prompt" /\ stage'[r] = "released"

(* Dropping keeps it too: a task that uses the frame would still be awaited. *)
LEMMA DropsKeeps ==
    ASSUME CacheInv, setup' = setup, NEW r \in Requests, TypeOK', CacheStill,
           \A q \in Requests : q # r => SameRequest(q), Drops(r)
    PROVE  CacheInv'
<1>1. TypeOK /\ LoopOf(r) /\ HoldingsOf(r)
  BY DEF CacheInv
<1>2. setup \in Setups /\ MediaParts' = MediaParts /\ Requests' = Requests /\ Parts'[r] = Parts[r]
  BY <1>1, LoadStays DEF TypeOK
<1>3. LoopOf(r)'
  BY <1>1, <1>2, EntryTypes DEF LoopOf, Drops
<1>4. HoldingsOf(r)'
  <2>1. stage'[r] \notin InProcess
    BY DEF Drops, InProcess, Preparing
  <2>2. error'[r] = "none" /\ stage'[r] # "released" =>
          error[r] = "none" /\ stage[r] # "released" /\ output'[r] = output[r]
    BY DEF Drops
  <2>3. UNCHANGED <<setup, flight, task, built>>
    BY DEF CacheStill
  <2>4. Len(pending'[r]) <= Len(Parts[r]) /\ \A i \in DOMAIN pending'[r] : i \in DOMAIN pending[r] /\ pending'[r][i] = pending[r][i]
    BY <1>1, EntryTypes DEF Drops, HoldingsOf
  <2>5. \A i \in DOMAIN output'[r] : i \in DOMAIN output[r] /\ output'[r][i] = output[r][i]
    BY DEF Drops
  <2>6. \A i \in DOMAIN pending'[r] :
          /\ KeyOf(pending[r][i].flight)' = Parts'[r][i]
          /\ pending'[r][i].hit => Settled(pending[r][i].flight)'
          /\ flight'[pending'[r][i].flight] # "none"
    BY <1>1, <2>3, <2>4 DEF HoldingsOf, KeyOf, Parts, Settled
  <2>7. \A i \in DOMAIN output'[r] :
          i <= Len(Parts'[r]) /\ KeyOf(output[r][i])' = Parts'[r][i] /\ Settled(output[r][i])'
    BY <1>1, <2>3, <2>5 DEF HoldingsOf, KeyOf, Parts, Settled
  <2>8. error'[r] = "none" /\ stage'[r] # "released" =>
          /\ total'[r] = Total([i \in DOMAIN output'[r] |-> BytesOf(output[r][i])'])
          /\ total'[r] <= MaxRequestBytes
    BY <1>1, <2>2, <2>3 DEF HoldingsOf, BytesOf, KeyOf, Parts, Drops
  <2> QED BY <1>2, <2>1, <2>4, <2>6, <2>7, <2>8 DEF HoldingsOf
<1>5. ASSUME NEW p \in MediaParts, p[1] = r PROVE FlightOf(p)' /\ AwaitedOf(p)'
  <2>1. FlightOf(p) /\ AwaitedOf(p) /\ SamePart(p)
    BY DEF CacheInv, CacheStill, SamePart
  <2>2. FlightOf(p)'
    BY <1>5, <2>1 DEF FlightOf, SamePart, Drops, PartOf, Settled
  <2>3. task[p] \notin UsesFrame
    BY <1>1, <1>5, <2>1, EntryTypes DEF AwaitedOf, Drops, Preparing
  <2> QED BY <2>1, <2>2, <2>3 DEF AwaitedOf, SamePart
<1>6. stage[r] = "unlist" \/ stage'[r] = "unlist" => stage'[r] = stage[r] /\ index'[r] = index[r]
  BY DEF Drops
<1>7. \A p \in built : p \in HeldBy(r)' => Referenced(p)
  <2>1. HeldBy(r)' \subseteq HeldBy(r)
    BY DEF HeldBy, Range, Drops
  <2> QED BY <2>1 DEF Referenced
<1> QED BY <1>3, <1>4, <1>5, <1>6, <1>7, QuietRequestStep

(* The steps that leave process() or release the prompt.                   *)
LEMMA DroppingStepsKeep ==
    ASSUME CacheInv, setup' = setup, NEW r \in Requests,
           LeaveFailed(r) \/ ProcessReturns(r) \/ EncodingThrows(r) \/ ReleasePrompt(r)
    PROVE  CacheInv'
<1>1. TypeOK
  BY DEF CacheInv
<1>2. setup \in Setups /\ MediaParts' = MediaParts /\ Requests' = Requests
  BY <1>1, LoadStays DEF TypeOK
<1> DEFINE Items0 == [Requests -> Seq([hit : BOOLEAN, flight : MediaParts])]
<1>3. << >> \in Seq([hit : BOOLEAN, flight : MediaParts]) /\ << >> \in Seq(MediaParts)
  OBVIOUS
<1>4. CASE LeaveFailed(r)
  <2>1. CacheStill
    BY <1>4 DEF LeaveFailed, CacheStill, cacheVars, poolVars
  <2>2. (\A q \in Requests : q # r => SameRequest(q)) /\ Drops(r)
    BY <1>1, <1>4, EntryTypes DEF TypeOK, SameRequest, Drops, LeaveFailed
  <2>3. TypeOK'
    <3>1. stage' \in [Requests -> InProcess \cup {"new", "failed", "prompt", "released"}]
      BY <1>1, <1>4 DEF TypeOK, LeaveFailed
    <3>2. error' \in [Requests -> Errors \cup {"none"}]
      BY <1>1, <1>4, EntryTypes DEF TypeOK, LeaveFailed, Errors
    <3>3. pending' \in Items0 /\ output' \in [Requests -> Seq(MediaParts)]
      BY <1>1, <1>3, <1>4 DEF TypeOK, LeaveFailed
    <3>4. UNCHANGED <<index, signal, total>>
      BY <1>4 DEF LeaveFailed
    <3> QED BY <1>1, <1>2, <2>1, <3>1, <3>2, <3>3, <3>4 DEF TypeOK, CacheStill
  <2> QED BY <2>1, <2>2, <2>3, DropsKeeps
<1>5. CASE ProcessReturns(r)
  <2>1. CacheStill
    BY <1>5 DEF ProcessReturns, CacheStill, cacheVars, poolVars
  <2>2. (\A q \in Requests : q # r => SameRequest(q)) /\ Drops(r)
    BY <1>1, <1>5, EntryTypes DEF TypeOK, SameRequest, Drops, ProcessReturns
  <2>3. TypeOK'
    <3>1. stage' \in [Requests -> InProcess \cup {"new", "failed", "prompt", "released"}]
      BY <1>1, <1>5 DEF TypeOK, ProcessReturns
    <3>2. error' \in [Requests -> Errors \cup {"none"}]
      BY <1>1, <1>5, EntryTypes DEF TypeOK, ProcessReturns, Errors
    <3>3. pending' \in Items0 /\ output' \in [Requests -> Seq(MediaParts)]
      BY <1>1, <1>3, <1>5 DEF TypeOK, ProcessReturns
    <3>4. UNCHANGED <<index, signal, total>>
      BY <1>5 DEF ProcessReturns
    <3> QED BY <1>1, <1>2, <2>1, <3>1, <3>2, <3>3, <3>4 DEF TypeOK, CacheStill
  <2> QED BY <2>1, <2>2, <2>3, DropsKeeps
<1>6. CASE EncodingThrows(r)
  <2>1. CacheStill
    BY <1>6 DEF EncodingThrows, CacheStill, cacheVars, poolVars
  <2>2. (\A q \in Requests : q # r => SameRequest(q)) /\ Drops(r)
    BY <1>1, <1>6, EntryTypes DEF TypeOK, SameRequest, Drops, EncodingThrows
  <2>3. TypeOK'
    <3>1. stage' \in [Requests -> InProcess \cup {"new", "failed", "prompt", "released"}]
      BY <1>1, <1>6 DEF TypeOK, EncodingThrows
    <3>2. error' \in [Requests -> Errors \cup {"none"}]
      BY <1>1, <1>6, EntryTypes DEF TypeOK, EncodingThrows, Errors
    <3>3. pending' \in Items0 /\ output' \in [Requests -> Seq(MediaParts)]
      BY <1>1, <1>3, <1>6 DEF TypeOK, EncodingThrows
    <3>4. UNCHANGED <<index, signal, total>>
      BY <1>6 DEF EncodingThrows
    <3> QED BY <1>1, <1>2, <2>1, <3>1, <3>2, <3>3, <3>4 DEF TypeOK, CacheStill
  <2> QED BY <2>1, <2>2, <2>3, DropsKeeps
<1>7. CASE ReleasePrompt(r)
  <2>1. CacheStill
    BY <1>7 DEF ReleasePrompt, CacheStill, cacheVars, poolVars
  <2>2. (\A q \in Requests : q # r => SameRequest(q)) /\ Drops(r)
    BY <1>1, <1>7, EntryTypes DEF TypeOK, SameRequest, Drops, ReleasePrompt
  <2>3. TypeOK'
    <3>1. stage' \in [Requests -> InProcess \cup {"new", "failed", "prompt", "released"}]
      BY <1>1, <1>7 DEF TypeOK, ReleasePrompt
    <3>2. error' \in [Requests -> Errors \cup {"none"}]
      BY <1>1, <1>7, EntryTypes DEF TypeOK, ReleasePrompt, Errors
    <3>3. pending' \in Items0 /\ output' \in [Requests -> Seq(MediaParts)]
      BY <1>1, <1>3, <1>7 DEF TypeOK, ReleasePrompt
    <3>4. UNCHANGED <<index, signal, total>>
      BY <1>7 DEF ReleasePrompt
    <3> QED BY <1>1, <1>2, <2>1, <3>1, <3>2, <3>3, <3>4 DEF TypeOK, CacheStill
  <2> QED BY <2>1, <2>2, <2>3, DropsKeeps
<1> QED BY <1>4, <1>5, <1>6, <1>7

(* An item whose payload is settled is collected: it is appended, or the   *)
(* request goes on with an error.                                          *)
LEMMA CollectKeeps ==
    ASSUME CacheInv, setup' = setup, NEW r \in Requests, CacheStill, UNCHANGED <<signal, pending>>,
           stage[r] \in {"await", "waiting"}, index[r] <= Len(pending[r]),
           Settled(Item(r).flight), Collect(r, Item(r).flight)
    PROVE  CacheInv'
<1> DEFINE p == Item(r).flight
<1>1. TypeOK /\ LoopOf(r) /\ HoldingsOf(r)
  BY DEF CacheInv
<1>2. setup \in Setups /\ MediaParts' = MediaParts /\ Requests' = Requests /\ Parts'[r] = Parts[r]
  BY <1>1, LoadStays DEF TypeOK
<1>3. index[r] \in 1 .. Len(pending[r]) /\ p = pending[r][index[r]].flight /\ p \in MediaParts
  BY <1>1, EntryTypes, SequenceTypes DEF Item
<1>4. BytesOf(p) \in Nat /\ KeyOf(p) = Parts[r][index[r]] /\ task[p] \notin UsesFrame
  <2>1. BytesOf(p) \in Nat
    BY <1>2, <1>3, PartFacts
  <2>2. KeyOf(p) = Parts[r][index[r]]
    BY <1>1, <1>3, EntryTypes DEF HoldingsOf
  <2>3. task[p] \notin UsesFrame
    BY DEF Settled, UsesFrame
  <2> QED BY <2>1, <2>2, <2>3
<1>5. /\ stage' = [stage EXCEPT ![r] = "await"] /\ index' = [index EXCEPT ![r] = @ + 1]
      /\ stage' \in [Requests -> InProcess \cup {"new", "failed", "prompt", "released"}]
      /\ index' \in [Requests -> Nat \ {0}]
  BY <1>1 DEF Collect, Advance, TypeOK, InProcess, Preparing
<1> HIDE DEF p
<1>6. CASE error[r] # "none" /\ UNCHANGED <<error, output, total>>
  <2>1. TypeOK'
    BY <1>1, <1>2, <1>5, <1>6 DEF TypeOK, CacheStill
  <2>2. (\A q \in Requests : q # r => SameRequest(q)) /\ MovesOn(r)
    BY <1>1, <1>3, <1>4, <1>5, <1>6 DEF TypeOK, SameRequest, MovesOn
  <2> QED BY <2>1, <2>2, MovesOnKeeps
<1>7. CASE /\ error[r] = "none" /\ total' = [total EXCEPT ![r] = @ + BytesOf(p)]
           /\ error' = [error EXCEPT ![r] = "budget"] /\ UNCHANGED output
  <2>1. TypeOK'
    <3>1. error' \in [Requests -> Errors \cup {"none"}] /\ total' \in [Requests -> Nat]
      BY <1>1, <1>4, <1>7 DEF TypeOK, Errors
    <3> QED BY <1>1, <1>2, <1>5, <1>7, <3>1 DEF TypeOK, CacheStill
  <2>2. (\A q \in Requests : q # r => SameRequest(q)) /\ MovesOn(r)
    BY <1>1, <1>3, <1>4, <1>5, <1>7 DEF TypeOK, SameRequest, MovesOn
  <2> QED BY <2>1, <2>2, MovesOnKeeps
<1>8. CASE /\ error[r] = "none" /\ total' = [total EXCEPT ![r] = @ + BytesOf(p)]
           /\ total[r] + BytesOf(p) <= MaxRequestBytes
           /\ output' = [output EXCEPT ![r] = Append(@, p)] /\ UNCHANGED error
  <2> DEFINE n == Len(output[r])
  <2>1. /\ output'[r] = Append(output[r], p) /\ Len(output'[r]) = n + 1 /\ n \in Nat
        /\ DOMAIN output[r] = 1 .. n /\ DOMAIN output'[r] = 1 .. n + 1
        /\ output'[r][n + 1] = p /\ \A i \in 1 .. n : output'[r][i] = output[r][i]
        /\ output' \in [Requests -> Seq(MediaParts)]
    BY <1>1, <1>3, <1>8, EntryTypes DEF TypeOK
  <2>2. n = index[r] - 1 /\ Len(pending[r]) = Len(Parts[r])
    BY <1>1, <1>8 DEF LoopOf
  <2>3. TypeOK'
    <3>1. total' \in [Requests -> Nat]
      BY <1>1, <1>4, <1>8 DEF TypeOK
    <3> QED BY <1>1, <1>2, <1>5, <1>8, <2>1, <3>1 DEF TypeOK, CacheStill
  <2>4. \A q \in Requests : q # r => SameRequest(q)
    BY <1>1, <1>5, <1>8 DEF TypeOK, SameRequest
  <2>5. stage'[r] = "await" /\ index'[r] = index[r] + 1 /\ error'[r] = "none" /\ pending'[r] = pending[r]
    BY <1>1, <1>5, <1>8 DEF TypeOK
  <2>6. LoopOf(r)'
    BY <1>1, <1>2, <1>3, <2>1, <2>2, <2>5, EntryTypes DEF LoopOf
  <2>7. UNCHANGED <<setup, flight, task, built>>
    BY DEF CacheStill
  <2>8. \A i \in DOMAIN pending[r] :
          /\ KeyOf(pending[r][i].flight)' = Parts'[r][i]
          /\ pending'[r][i].hit => Settled(pending[r][i].flight)'
          /\ flight'[pending'[r][i].flight] # "none"
    BY <1>1, <2>7, <2>5 DEF HoldingsOf, KeyOf, Parts, Settled
  <2>9. ASSUME NEW i \in DOMAIN output'[r]
        PROVE  /\ i <= Len(Parts'[r]) /\ KeyOf(output[r][i])' = Parts'[r][i] /\ Settled(output[r][i])'
               /\ i <= Len(pending'[r]) /\ output'[r][i] = pending'[r][i].flight
    <3>1. CASE i \in 1 .. n
      <4>1. /\ i <= Len(Parts[r]) /\ KeyOf(output[r][i]) = Parts[r][i] /\ Settled(output[r][i])
            /\ i <= Len(pending[r]) /\ output[r][i] = pending[r][i].flight
        BY <1>1, <2>1, <3>1 DEF HoldingsOf, InProcess, Preparing
      <4> QED BY <2>1, <2>5, <2>7, <3>1, <4>1 DEF KeyOf, Parts, Settled
    <3>2. CASE i = n + 1
      <4>1. i = index[r] /\ output'[r][i] = p /\ Settled(p)
        BY <1>1, <2>1, <2>2, <3>2, EntryTypes DEF p
      <4> QED BY <1>3, <1>4, <2>2, <2>5, <2>7, <4>1, <1>1, EntryTypes DEF KeyOf, Parts, Settled
    <3> QED BY <2>1, <3>1, <3>2
  <2>10. total'[r] = Total([i \in DOMAIN output'[r] |-> BytesOf(output[r][i])'])
    <3> DEFINE Of(i) == IF i = n + 1 THEN BytesOf(p) ELSE BytesOf(output[r][i])
               f == [i \in 1 .. n |-> BytesOf(output[r][i])]
               g == [i \in 1 .. (n + 1) |-> Of(i)]
    <3>1. \A i \in 1 .. n : BytesOf(output[r][i]) \in Nat
      BY <1>1, <1>2, SequenceTypes, PartFacts
    <3>2. \A i \in 1 .. (n + 1) : Of(i) \in Nat
      BY <1>4, <2>1, <3>1
    <3>3. f \in [1 .. n -> Nat]
      BY <3>1
    <3>4. g \in [1 .. (n + 1) -> Nat]
      <4> HIDE DEF Of
      <4> QED BY <3>2
    <3>5. (\A i \in 1 .. n : g[i] = f[i]) /\ g[n + 1] = BytesOf(p)
      BY <2>1
    <3>6. n \in Nat
      BY <2>1
    <3>7. Total(g) = Total(f) + g[n + 1]
      <4> HIDE DEF f, g, n
      <4> QED BY <3>3, <3>4, <3>5, <3>6, TotalAppended
    <3>8. [i \in DOMAIN output'[r] |-> BytesOf(output[r][i])'] = g
      <4>1. ASSUME NEW i \in 1 .. (n + 1) PROVE BytesOf(output[r][i])' = Of(i)
        <5>1. CASE i = n + 1
          BY <2>1, <2>7, <5>1 DEF BytesOf, KeyOf, Parts
        <5>2. CASE i # n + 1
          <6>1. output'[r][i] = output[r][i]
            BY <2>1, <5>2
          <6> QED BY <2>7, <5>2, <6>1 DEF BytesOf, KeyOf, Parts
        <5> QED BY <5>1, <5>2
      <4>2. DOMAIN output'[r] = 1 .. (n + 1)
        BY <2>1
      <4> HIDE DEF Of, n
      <4> QED BY <4>1, <4>2
    <3>9. total[r] = Total(f)
      BY <1>1, <1>8, <2>1 DEF HoldingsOf
    <3>10. total'[r] = total[r] + BytesOf(p)
      BY <1>1, <1>8 DEF TypeOK
    <3> HIDE DEF g, n
    <3> QED BY <3>5, <3>7, <3>8, <3>9, <3>10
  <2>11. total'[r] <= MaxRequestBytes
    BY <1>1, <1>8 DEF TypeOK
  <2>12. HoldingsOf(r)'
    BY <1>1, <1>2, <2>5, <2>8, <2>9, <2>10, <2>11 DEF HoldingsOf
  <2>13. ASSUME NEW q \in MediaParts, q[1] = r PROVE FlightOf(q)' /\ AwaitedOf(q)'
    <3>1. FlightOf(q) /\ AwaitedOf(q) /\ SamePart(q)
      BY DEF CacheInv, CacheStill, SamePart
    <3>2. FlightOf(q)'
      BY <2>5, <2>13, <3>1 DEF FlightOf, SamePart, PartOf, Settled
    <3>3. AwaitedOf(q)'
      BY <1>1, <1>3, <1>4, <2>5, <2>13, <3>1, EntryTypes DEF AwaitedOf, SamePart, Preparing
    <3> QED BY <3>2, <3>3
  <2>14. \A q \in built : q \in HeldBy(r)' => Referenced(q)
    <3>1. HeldBy(r)' \subseteq HeldBy(r)
      <4>1. Range(output'[r]) \subseteq Range(output[r]) \cup {p}
        BY <2>1 DEF Range
      <4>2. p \in {pending[r][i].flight : i \in DOMAIN pending[r]}
        BY <1>1, <1>3, EntryTypes
      <4> QED BY <2>5, <4>1, <4>2 DEF HeldBy
    <3> QED BY <3>1 DEF Referenced
  <2> QED BY <2>3, <2>4, <2>5, <2>6, <2>12, <2>13, <2>14, QuietRequestStep
<1> QED BY <1>6, <1>7, <1>8 DEF Collect, p

(* The two ways an item is got: a hit, and a flight that ended well.       *)
LEMMA CollectingStepsKeep ==
    ASSUME CacheInv, setup' = setup, NEW r \in Requests, AwaitHit(r) \/ AwaitReturns(r)
    PROVE  CacheInv'
<1>1. TypeOK /\ HoldingsOf(r)
  BY DEF CacheInv
<1>2. /\ CacheStill /\ UNCHANGED <<signal, pending>> /\ Collect(r, Item(r).flight)
      /\ stage[r] \in {"await", "waiting"} /\ index[r] <= Len(pending[r])
      /\ Item(r).hit \/ flight[Item(r).flight] = "ok"
  BY DEF AwaitHit, AwaitReturns, AtItem, CacheStill, cacheVars, poolVars
<1>3. index[r] \in 1 .. Len(pending[r]) /\ Item(r).flight \in MediaParts
  BY <1>1, <1>2, EntryTypes, SequenceTypes DEF Item
<1>4. Settled(Item(r).flight)
  BY <1>1, <1>2, <1>3, EntryTypes DEF Item, HoldingsOf, CacheInv, FlightOf
<1> QED BY <1>2, <1>4, CollectKeeps

-----------------------------------------------------------------------------
(* Steps that begin a part.                                                *)

(* A step keeps the invariant if it does for the request and the parts it  *)
(* touches, the map, the queue and the limits.                             *)
LEMMA StepKeeps ==
    ASSUME CacheInv, setup' = setup, NEW r \in Requests, TypeOK', KeepsPayloads,
           \A q \in Requests : q # r => SameRequest(q),
           LoopOf(r)', HoldingsOf(r)',
           \A p \in MediaParts : p[1] # r => SamePart(p),
           \A p \in MediaParts : p[1] = r => FlightOf(p)' /\ AwaitedOf(p)',
           MapInv', QueueInv', WithinLimits'
    PROVE  CacheInv'
<1>1. TypeOK /\ setup \in Setups /\ MediaParts' = MediaParts /\ Requests' = Requests
  BY LoadStays DEF CacheInv, TypeOK
<1>2. \A q \in Requests : LoopOf(q)' /\ HoldingsOf(q)'
  BY <1>1, RequestUndisturbed DEF CacheInv
<1>3. ASSUME NEW p \in MediaParts, p[1] # r PROVE FlightOf(p)' /\ AwaitedOf(p)'
  <2>1. p[1] \in Requests
    BY <1>1, PartFacts
  <2>2. SamePart(p) /\ SameRequest(p[1]) /\ FlightOf(p) /\ AwaitedOf(p)
    BY <1>3, <2>1 DEF CacheInv
  <2> QED BY <1>1, <2>2, PartUndisturbed
<1> QED BY <1>1, <1>2, <1>3 DEF CacheInv

(* The entries of a request that has begun a part.                         *)
Begun(r, item) ==
    /\ pending'[r] = Append(pending[r], item)
    /\ output'[r] = output[r] /\ total'[r] = total[r] /\ error'[r] = error[r]
    /\ \/ index[r] = Len(Parts[r]) /\ stage'[r] = "await" /\ index'[r] = 1
       \/ index[r] # Len(Parts[r]) /\ stage'[r] = "begin" /\ index'[r] = index[r] + 1

(* What Pend and NextPart do to the entries.                               *)
LEMMA BegunEntries ==
    ASSUME TypeOK, setup' = setup, NEW r \in Requests, NEW hit \in BOOLEAN, NEW p \in MediaParts,
           Pend(r, hit, p), NextPart(r), UNCHANGED <<error, output, total>>
    PROVE  /\ Begun(r, [hit |-> hit, flight |-> p])
           /\ \A q \in Requests : q # r => SameRequest(q)
           /\ stage' \in [Requests -> InProcess \cup {"new", "failed", "prompt", "released"}]
           /\ index' \in [Requests -> Nat \ {0}]
           /\ pending' \in [Requests -> Seq([hit : BOOLEAN, flight : MediaParts])]
<1> DEFINE item == [hit |-> hit, flight |-> p]
           Items0 == [hit : BOOLEAN, flight : MediaParts]
<1>1. item \in Items0 /\ pending \in [Requests -> Seq(Items0)]
  BY DEF TypeOK
<1>2. pending' = [pending EXCEPT ![r] = Append(@, item)]
  BY DEF Pend
<1> HIDE DEF item, Items0
<1>3. /\ pending'[r] = Append(pending[r], item) /\ pending' \in [Requests -> Seq(Items0)]
      /\ \A q \in Requests : q # r => pending'[q] = pending[q]
  BY <1>1, <1>2
<1>4. /\ \/ index[r] = Len(Parts[r]) /\ stage'[r] = "await" /\ index'[r] = 1
         \/ index[r] # Len(Parts[r]) /\ stage'[r] = "begin" /\ index'[r] = index[r] + 1
      /\ \A q \in Requests : q # r => stage'[q] = stage[q] /\ index'[q] = index[q]
      /\ stage' \in [Requests -> InProcess \cup {"new", "failed", "prompt", "released"}]
      /\ index' \in [Requests -> Nat \ {0}]
  <2>1. \/ /\ index[r] = Len(Parts[r])
           /\ stage' = [stage EXCEPT ![r] = "await"] /\ index' = [index EXCEPT ![r] = 1]
        \/ /\ index[r] # Len(Parts[r])
           /\ stage' = [stage EXCEPT ![r] = "begin"] /\ index' = [index EXCEPT ![r] = @ + 1]
    BY DEF NextPart
  <2>2. /\ stage \in [Requests -> InProcess \cup {"new", "failed", "prompt", "released"}]
        /\ index \in [Requests -> Nat \ {0}]
        /\ {"await", "begin"} \subseteq InProcess
    BY DEF TypeOK, InProcess, Preparing
  <2> QED BY <2>1, <2>2
<1> QED BY <1>3, <1>4 DEF Begun, SameRequest, item, Items0

(* The loops and the holdings of a request that has begun a part.          *)
LEMMA ItemBegun ==
    ASSUME TypeOK, setup' = setup, KeepsPayloads, NEW r \in Requests, LoopOf(r), HoldingsOf(r),
           stage[r] \in {"begin", "enqueue"},
           NEW item \in [hit : BOOLEAN, flight : MediaParts], Begun(r, item),
           KeyOf(item.flight) = Parts[r][index[r]],
           item.hit => Settled(item.flight)', flight'[item.flight] # "none"
    PROVE  LoopOf(r)' /\ HoldingsOf(r)'
<1> DEFINE n == Len(pending[r])
<1>1. /\ Len(pending'[r]) = n + 1 /\ n \in Nat /\ DOMAIN pending[r] = 1 .. n
      /\ DOMAIN pending'[r] = 1 .. (n + 1)
      /\ pending'[r][n + 1] = item /\ \A i \in 1 .. n : pending'[r][i] = pending[r][i]
  BY EntryTypes DEF Begun
<1>2. n = index[r] - 1 /\ index[r] <= Len(Parts[r]) /\ output[r] = << >> /\ error[r] = "none"
      /\ total[r] = 0
  BY DEF LoopOf
<1>3. Parts'[r] = Parts[r] /\ output'[r] = << >> /\ DOMAIN output'[r] = {} /\ Len(output'[r]) = 0
  BY <1>2, LoadStays DEF Begun
<1>4. LoopOf(r)'
  <2>1. /\ index[r] \in Nat /\ Len(Parts[r]) \in Nat /\ output'[r] = << >> /\ total'[r] = 0
        /\ error'[r] = "none"
    BY <1>2, EntryTypes DEF Begun
  <2>2. CASE index[r] = Len(Parts[r]) /\ stage'[r] = "await" /\ index'[r] = 1
    BY <1>1, <1>2, <1>3, <2>1, <2>2 DEF LoopOf
  <2>3. CASE index[r] # Len(Parts[r]) /\ stage'[r] = "begin" /\ index'[r] = index[r] + 1
    BY <1>1, <1>2, <1>3, <2>1, <2>3 DEF LoopOf
  <2> QED BY <2>2, <2>3 DEF Begun
<1>5. ASSUME NEW i \in DOMAIN pending'[r]
      PROVE  /\ KeyOf(pending[r][i].flight)' = Parts'[r][i]
             /\ pending'[r][i].hit => Settled(pending[r][i].flight)'
             /\ flight'[pending'[r][i].flight] # "none"
  <2>1. CASE i \in 1 .. n
    <3>1. /\ KeyOf(pending[r][i].flight) = Parts[r][i] /\ pending[r][i].flight \in MediaParts
          /\ pending[r][i].hit => Settled(pending[r][i].flight)
          /\ flight[pending[r][i].flight] # "none"
      BY <1>1, <2>1, SequenceTypes DEF HoldingsOf
    <3>2. pending'[r][i] = pending[r][i]
      BY <1>1, <2>1
    <3> QED BY <3>1, <3>2 DEF KeepsPayloads, KeyOf, Parts, Settled
  <2>2. CASE i = n + 1
    <3>1. pending'[r][i] = item /\ i = index[r]
      BY <1>1, <1>2, <2>2, EntryTypes
    <3> QED BY <3>1 DEF KeyOf, Parts, Settled
  <2> QED BY <1>1, <2>1, <2>2
<1>6. total'[r] = Total([i \in DOMAIN output'[r] |-> BytesOf(output[r][i])']) /\ total'[r] <= MaxRequestBytes
  <2>1. /\ total[r] = Total([i \in DOMAIN output[r] |-> BytesOf(output[r][i])])
        /\ total[r] <= MaxRequestBytes
    BY <1>2 DEF HoldingsOf
  <2> QED BY <2>1 DEF Begun, BytesOf, KeyOf, Parts
<1> QED BY <1>1, <1>2, <1>3, <1>4, <1>5, <1>6, EntryTypes DEF HoldingsOf

(* The parts of that request which the step itself does not touch.         *)
LEMMA PartsOfBegun ==
    ASSUME TypeOK, setup' = setup, NEW r \in Requests, NEW item, Begun(r, item), LoopOf(r),
           stage[r] \in {"begin", "enqueue"}, NEW p \in MediaParts, p[1] = r, SamePart(p),
           stage[r] = "enqueue" => p # PartOf(r), FlightOf(p), AwaitedOf(p)
    PROVE  FlightOf(p)' /\ AwaitedOf(p)'
<1>1. FlightOf(p)'
  <2>1. p[2] \in Nat /\ index[r] \in Nat /\ p = <<p[1], p[2]>>
    BY EntryTypes, PartFacts, LoadFacts DEF TypeOK
  <2>2. stage'[r] \in {"await", "begin"} /\ (stage'[r] = "begin" => index'[r] = index[r] + 1)
    BY DEF Begun
  <2>3. stage'[r] = "begin" /\ p[2] >= index'[r] => flight[p] = "none"
    BY <2>1, <2>2 DEF FlightOf
  <2>4. ~ (task[p] = "none" /\ flight[p] = "open")
    BY DEF FlightOf
  <2> QED BY <2>2, <2>3, <2>4 DEF FlightOf, SamePart, Settled
<1>2. AwaitedOf(p)'
  <2>1. SUFFICES ASSUME task[p] \in UsesFrame PROVE AwaitedOf(p)'
    BY DEF AwaitedOf, SamePart
  <2>2. PICK i \in DOMAIN pending[r] : ~ pending[r][i].hit /\ pending[r][i].flight = p
    BY <2>1 DEF AwaitedOf
  <2>3. i \in DOMAIN pending'[r] /\ pending'[r][i] = pending[r][i] /\ 1 <= i
    BY <2>2, EntryTypes DEF Begun
  <2> QED BY <2>2, <2>3 DEF AwaitedOf, Begun, Preparing
<1> QED BY <1>1, <1>2

(* The request holds its new item besides what it held.                    *)
LEMMA HeldOfBegun ==
    ASSUME TypeOK, NEW r \in Requests, NEW item \in [hit : BOOLEAN, flight : MediaParts], Begun(r, item)
    PROVE  HeldBy(r)' \subseteq HeldBy(r) \cup {item.flight}
<1>1. ASSUME NEW i \in DOMAIN pending'[r]
      PROVE  pending'[r][i].flight \in {pending[r][j].flight : j \in DOMAIN pending[r]} \cup {item.flight}
  BY EntryTypes DEF Begun
<1>2. Range(output'[r]) = Range(output[r])
  BY DEF Begun
<1> QED BY <1>1, <1>2 DEF HeldBy, Range

(* Which part is about to leave the map because submit threw.              *)
LEMMA UnlistingStays ==
    ASSUME TypeOK, NEW r \in Requests, \A q \in Requests : q # r => SameRequest(q),
           stage[r] = "unlist" \/ stage'[r] = "unlist" =>
             stage'[r] = stage[r] /\ index'[r] = index[r],
           NEW p \in MediaParts
    PROVE  stage'[p[1]] = "unlist" /\ PartOf(p[1])' = p <=> stage[p[1]] = "unlist" /\ PartOf(p[1]) = p
<1>1. p[1] \in Requests
  BY PartFacts DEF TypeOK
<1>2. CASE p[1] = r
  BY <1>2 DEF PartOf
<1>3. CASE p[1] # r
  BY <1>1, <1>3 DEF PartOf, SameRequest
<1> QED BY <1>2, <1>3

(* An entry of the map: how its flight and task are.                       *)
LEMMA ListedFlight ==
    ASSUME CacheInv, NEW p \in inflight
    PROVE  p \in MediaParts /\ flight[p] # "none" /\ (p \in built => Referenced(p))
<1>1. /\ p \in MediaParts /\ FlightOf(p) /\ task[p] \in UsesFrame \cup {"none", "publishing", "erasing", "ended"}
      /\ \/ flight[p] = "open" \/ task[p] = "erasing"
         \/ stage[p[1]] = "unlist" /\ PartOf(p[1]) = p
  BY DEF CacheInv, MapInv, TypeOK
<1> QED BY <1>1 DEF FlightOf, Referenced

(* The key is being prepared: the request waits for that flight.           *)
LEMMA BeginWaiterKeeps ==
    ASSUME CacheInv, setup' = setup, NEW r \in Requests, BeginWaiter(r)
    PROVE  CacheInv'
<1>1. TypeOK /\ LoopOf(r) /\ HoldingsOf(r) /\ stage[r] = "begin"
  BY DEF CacheInv, BeginWaiter
<1>2. CacheStill /\ NextPart(r) /\ UNCHANGED <<signal, error, output, total>>
  BY DEF BeginWaiter, CacheStill, cacheVars, poolVars
<1>3. PICK p \in inflight : KeyOf(p) = KeyOf(PartOf(r)) /\ Pend(r, FALSE, p)
  BY DEF BeginWaiter
<1>4. p \in MediaParts /\ flight[p] # "none" /\ (p \in built => Referenced(p))
  BY ListedFlight
<1> DEFINE item == [hit |-> FALSE, flight |-> p]
<1>5. /\ Begun(r, item) /\ (\A q \in Requests : q # r => SameRequest(q))
      /\ stage' \in [Requests -> InProcess \cup {"new", "failed", "prompt", "released"}]
      /\ index' \in [Requests -> Nat \ {0}]
      /\ pending' \in [Requests -> Seq([hit : BOOLEAN, flight : MediaParts])]
  BY <1>1, <1>2, <1>3, <1>4, BegunEntries
<1>6. TypeOK'
  <2>1. MediaParts' = MediaParts /\ Requests' = Requests
    BY LoadStays
  <2> QED BY <1>1, <1>2, <1>5, <2>1 DEF TypeOK, CacheStill
<1>7. item \in [hit : BOOLEAN, flight : MediaParts] /\ ~ item.hit /\ item.flight = p
  BY <1>4
<1>8. KeepsPayloads
  BY <1>2 DEF KeepsPayloads, CacheStill, Settled
<1>9. KeyOf(p) = Parts[r][index[r]] /\ flight'[p] # "none"
  BY <1>2, <1>3, <1>4 DEF KeyOf, PartOf, CacheStill
<1> HIDE DEF item
<1>10. LoopOf(r)' /\ HoldingsOf(r)'
  BY <1>1, <1>5, <1>7, <1>8, <1>9, ItemBegun
<1>11. ASSUME NEW q \in MediaParts, q[1] = r PROVE FlightOf(q)' /\ AwaitedOf(q)'
  <2>1. FlightOf(q) /\ AwaitedOf(q) /\ SamePart(q)
    BY <1>2 DEF CacheInv, CacheStill, SamePart
  <2> QED BY <1>1, <1>5, <1>11, <2>1, PartsOfBegun
<1>12. \A q \in built : q \in HeldBy(r)' => Referenced(q)
  <2>1. HeldBy(r)' \subseteq HeldBy(r) \cup {p}
    BY <1>1, <1>5, <1>7, HeldOfBegun
  <2> QED BY <1>4, <2>1 DEF Referenced
<1>13. stage[r] # "unlist" /\ stage'[r] # "unlist"
  BY <1>1, <1>5 DEF Begun
<1> QED BY <1>2, <1>5, <1>6, <1>10, <1>11, <1>12, <1>13, QuietRequestStep

(* The key is retained: its payload is used again and moves to the front.  *)
LEMMA BeginHitKeeps ==
    ASSUME CacheInv, setup' = setup, NEW r \in Requests, BeginHit(r)
    PROVE  CacheInv'
<1>1. TypeOK /\ LoopOf(r) /\ HoldingsOf(r) /\ MapInv /\ WithinLimits /\ stage[r] = "begin"
  BY DEF CacheInv, BeginHit
<1>2. NextPart(r) /\ UNCHANGED <<signal, error, output, total, flight, inflight, queue, task, built, claimed>>
  BY DEF BeginHit, poolVars
<1>3. PICK j \in DOMAIN lru : /\ KeyOf(lru[j]) = KeyOf(PartOf(r))
                              /\ lru' = <<lru[j]>> \o RemoveAt(lru, j)
                              /\ Pend(r, TRUE, lru[j])
  BY DEF BeginHit
<1>a. PICK p \in MediaParts : p = lru[j]
  BY <1>1, <1>3, SequenceTypes
<1> DEFINE item == [hit |-> TRUE, flight |-> p]
<1>4. j \in 1 .. Len(lru) /\ Settled(p) /\ p \in Range(lru) /\ lru \in Seq(MediaParts)
  BY <1>1, <1>3, <1>a, SequenceTypes DEF MapInv, Range, TypeOK
<1>5. /\ lru' \in Seq(MediaParts) /\ Len(lru') = Len(lru)
      /\ \A k \in 1 .. Len(lru) :
           lru'[k] = IF k = 1 THEN lru[j] ELSE IF k <= j THEN lru[k - 1] ELSE lru[k]
  <2>1. lru \in Seq(MediaParts) /\ j \in 1 .. Len(lru)
    BY <1>4
  <2> DEFINE t == <<lru[j]>> \o RemoveAt(lru, j)
  <2>2. /\ t \in Seq(MediaParts) /\ Len(t) = Len(lru)
        /\ \A k \in 1 .. Len(lru) :
             t[k] = IF k = 1 THEN lru[j] ELSE IF k <= j THEN lru[k - 1] ELSE lru[k]
    BY <2>1, MovedToFront, Zenon
  <2>3. lru' = t
    BY <1>3
  <2> HIDE DEF t
  <2> QED BY <2>2, <2>3
<1>6. DOMAIN lru' = 1 .. Len(lru) /\ Range(lru') \subseteq Range(lru)
  <2>1. DOMAIN lru' = 1 .. Len(lru)
    BY <1>5, LenProperties
  <2>2. ASSUME NEW k \in 1 .. Len(lru) PROVE \E i \in 1 .. Len(lru) : lru'[k] = lru[i]
    <3>1. Len(lru) \in Nat /\ lru'[k] = IF k = 1 THEN lru[j] ELSE IF k <= j THEN lru[k - 1] ELSE lru[k]
      BY <1>1, <1>5, SequenceTypes
    <3>2. CASE k = 1
      BY <1>4, <3>1, <3>2
    <3>3. CASE k # 1 /\ k <= j
      <4>1. k - 1 \in 1 .. Len(lru) /\ lru'[k] = lru[k - 1]
        BY <1>4, <3>1, <3>3
      <4> QED BY <4>1
    <3>4. CASE k # 1 /\ ~ (k <= j)
      BY <1>4, <3>1, <3>4
    <3> QED BY <3>2, <3>3, <3>4
  <2> QED BY <1>1, <2>1, <2>2, SequenceTypes DEF Range
<1>7. /\ Begun(r, item) /\ (\A q \in Requests : q # r => SameRequest(q))
      /\ stage' \in [Requests -> InProcess \cup {"new", "failed", "prompt", "released"}]
      /\ index' \in [Requests -> Nat \ {0}]
      /\ pending' \in [Requests -> Seq([hit : BOOLEAN, flight : MediaParts])]
  BY <1>1, <1>2, <1>3, <1>a, BegunEntries
<1>8. MediaParts' = MediaParts /\ Requests' = Requests
  BY LoadStays
<1>9. TypeOK'
  BY <1>1, <1>2, <1>5, <1>7, <1>8 DEF TypeOK
<1>10. item \in [hit : BOOLEAN, flight : MediaParts] /\ item.flight = p
  BY <1>4
<1>11. KeepsPayloads /\ Settled(p)'
  BY <1>2, <1>4 DEF KeepsPayloads, Settled
<1>12. KeyOf(p) = Parts[r][index[r]] /\ flight'[p] # "none"
  <2>1. flight[p] # "none"
    BY <1>4 DEF CacheInv, FlightOf, Settled
  <2> QED BY <1>2, <1>3, <1>a, <2>1 DEF KeyOf, PartOf
<1> HIDE DEF item
<1>13. LoopOf(r)' /\ HoldingsOf(r)'
  BY <1>1, <1>7, <1>10, <1>11, <1>12, ItemBegun
<1>14. ASSUME NEW q \in MediaParts PROVE SamePart(q) /\ (q[1] = r => FlightOf(q)' /\ AwaitedOf(q)')
  <2>1. FlightOf(q) /\ AwaitedOf(q) /\ SamePart(q)
    BY <1>2 DEF CacheInv, SamePart
  <2> QED BY <1>1, <1>7, <2>1, PartsOfBegun
<1>15. stage[r] # "unlist" /\ stage'[r] # "unlist"
  BY <1>1, <1>7 DEF Begun
<1>16. MapInv'
  <2>1. inflight' = {q \in MediaParts : \/ flight'[q] = "open"
                                        \/ task'[q] = "erasing"
                                        \/ stage'[q[1]] = "unlist" /\ PartOf(q[1])' = q}
    BY <1>1, <1>2, <1>7, <1>15, UnlistingStays DEF MapInv
  <2>2. \A q, o \in inflight' : KeyOf(q)' = KeyOf(o)' => q = o
    BY <1>1, <1>2, LoadStays DEF MapInv
  <2>3. ASSUME NEW k \in DOMAIN lru'
        PROVE  \E i \in DOMAIN lru : lru'[k] = lru[i]
    BY <1>6 DEF Range
  <2>4. \A k \in DOMAIN lru' : Settled(lru[k])'
    <3>1. \A k \in DOMAIN lru' : Settled(lru'[k])
      BY <1>1, <2>3 DEF MapInv
    <3> QED BY <1>2, <3>1 DEF Settled
  <2>5. \A q \in inflight', k \in DOMAIN lru' : KeyOf(q)' = KeyOf(lru[k])' => task'[q] \in {"publishing", "erasing"}
    BY <1>1, <1>2, <2>3 DEF MapInv, KeyOf, Parts
  <2>6. ASSUME NEW k \in DOMAIN lru', NEW l \in DOMAIN lru', KeyOf(lru[k])' = KeyOf(lru[l])'
        PROVE  k = l
    <3> DEFINE Was(x) == IF x = 1 THEN j ELSE IF x <= j THEN x - 1 ELSE x
    <3>1. \A x \in 1 .. Len(lru) : Was(x) \in 1 .. Len(lru) /\ lru'[x] = lru[Was(x)]
      BY <1>1, <1>4, <1>5, SequenceTypes
    <3>2. \A x, y \in 1 .. Len(lru) : Was(x) = Was(y) => x = y
      BY <1>1, <1>4, SequenceTypes
    <3>3. KeyOf(lru'[k]) = KeyOf(lru'[l])
      BY <2>6 DEF KeyOf, Parts
    <3> HIDE DEF Was
    <3>4. Was(k) = Was(l)
      BY <1>1, <1>6, <3>1, <3>3, SequenceTypes DEF MapInv
    <3> QED BY <1>6, <3>2, <3>4
  <2> QED BY <1>8, <2>1, <2>2, <2>4, <2>5, <2>6 DEF MapInv
<1>17. QueueInv'
  BY <1>2 DEF QueueInv, CacheInv
<1>18. WithinLimits'
  <2>1. HeldBy(r)' \subseteq HeldBy(r) \cup {p}
    BY <1>1, <1>7, <1>10, HeldOfBegun
  <2>2. \A q \in Requests : q # r => HeldBy(q)' = HeldBy(q)
    BY <1>7 DEF SameRequest, HeldBy, Range
  <2>3. ASSUME NEW q \in built' PROVE q \in built /\ (Referenced(q)' => Referenced(q))
    BY <1>2, <1>4, <1>6, <1>8, <2>1, <2>2 DEF Referenced
  <2>4. BytesIn(LivePayloads)' <= LiveBytes'
    BY <1>1, <2>3, LiveStays
  <2>5. BytesIn(Range(lru))' <= CapacityBytes
    BY <1>1, <1>6, RetainedStays
  <2>6. Cardinality(Running') <= Threads
    BY <1>1, <1>2, <1>8, RunningStays DEF Running
  <2>7. \A q \in Requests : index'[q] <= Len(Parts'[q]) + 1
    BY <1>1, <1>7, <1>13, LoadStays DEF LoopOf, WithinLimits, SameRequest
  <2> QED BY <1>1, <1>2, <1>8, <2>4, <2>5, <2>6, <2>7 DEF WithinLimits
<1> QED BY <1>7, <1>9, <1>11, <1>13, <1>14, <1>16, <1>17, <1>18, StepKeeps

(* The limits hold after a step that builds, runs, retains and refers to   *)
(* nothing more.                                                           *)
LEMMA LimitsStay ==
    ASSUME TypeOK, WithinLimits, setup' = setup, Len(queue') <= QueueCapacity,
           Range(lru') \subseteq Range(lru), Running' \subseteq Running,
           \A p \in built' : p \in built /\ (Referenced(p)' => Referenced(p)),
           \A q \in Requests : index'[q] <= Len(Parts[q]) + 1
    PROVE  WithinLimits'
<1>1. BytesIn(LivePayloads)' <= LiveBytes'
  BY LiveStays
<1>2. BytesIn(Range(lru))' <= CapacityBytes
  BY RetainedStays
<1>3. Cardinality(Running') <= Threads
  BY RunningStays
<1> QED BY <1>1, <1>2, <1>3, LoadStays DEF WithinLimits

(* A request that has collected nothing and holds what it held.            *)
LEMMA HoldingsStay ==
    ASSUME TypeOK, setup' = setup, KeepsPayloads, NEW r \in Requests, HoldingsOf(r), output[r] = << >>,
           pending'[r] = pending[r], output'[r] = output[r], total'[r] = total[r],
           error'[r] = "none" /\ stage'[r] # "released" => error[r] = "none" /\ stage[r] # "released"
    PROVE  HoldingsOf(r)'
<1>1. DOMAIN output'[r] = {}
  OBVIOUS
<1>2. \A i \in DOMAIN pending[r] :
        /\ KeyOf(pending[r][i].flight)' = Parts'[r][i]
        /\ pending'[r][i].hit => Settled(pending[r][i].flight)'
        /\ flight'[pending'[r][i].flight] # "none"
  BY SequenceTypes DEF HoldingsOf, KeepsPayloads, KeyOf, Parts
<1>3. error'[r] = "none" /\ stage'[r] # "released" =>
        /\ total'[r] = Total([i \in DOMAIN output'[r] |-> BytesOf(output[r][i])'])
        /\ total'[r] <= MaxRequestBytes
  BY DEF HoldingsOf, BytesOf, KeyOf, Parts
<1> QED BY <1>1, <1>2, <1>3, LoadStays DEF HoldingsOf

(* The part a request is at is one of its parts.                           *)
LEMMA PartAtHand ==
    ASSUME TypeOK, NEW r \in Requests, LoopOf(r), stage[r] \in {"begin", "enqueue", "unlist"}
    PROVE  PartOf(r) \in MediaParts /\ PartOf(r)[1] = r /\ PartOf(r)[2] = index[r]
<1>1. index[r] \in 1 .. Len(Parts[r])
  BY EntryTypes DEF LoopOf
<1> QED BY <1>1, PartFacts DEF PartOf, TypeOK

(* The key is neither retained nor being prepared: a flight is opened.     *)
LEMMA BeginProducerKeeps ==
    ASSUME CacheInv, setup' = setup, NEW r \in Requests, BeginProducer(r)
    PROVE  CacheInv'
<1>1. TypeOK /\ LoopOf(r) /\ HoldingsOf(r) /\ MapInv /\ WithinLimits /\ stage[r] = "begin"
  BY DEF CacheInv, BeginProducer
<1>2. PICK p \in MediaParts : p = PartOf(r) /\ p[1] = r /\ p[2] = index[r]
  BY <1>1, PartAtHand
<1>3. /\ UNCHANGED <<index, signal, error, pending, output, total, lru, queue, task, built, claimed>>
      /\ flight' = [flight EXCEPT ![p] = "open"] /\ inflight' = inflight \cup {p}
      /\ stage' = [stage EXCEPT ![r] = "enqueue"]
      /\ \A q \in Range(lru) : KeyOf(q) # KeyOf(p)
      /\ \A q \in inflight : KeyOf(q) # KeyOf(p)
  BY <1>2 DEF BeginProducer, poolVars, NotReady
<1>4. MediaParts' = MediaParts /\ Requests' = Requests /\ Parts'[r] = Parts[r]
  BY LoadStays
<1>5. TypeOK'
  BY <1>1, <1>3, <1>4 DEF TypeOK, InProcess, Preparing
<1>6. /\ flight'[p] = "open" /\ (\A q \in MediaParts : q # p => flight'[q] = flight[q])
      /\ stage'[r] = "enqueue" /\ (\A q \in Requests : q # r => SameRequest(q))
  BY <1>1, <1>3 DEF TypeOK, SameRequest
<1>7. flight[p] = "none" /\ task[p] = "none" /\ p \notin built
  <2>1. FlightOf(p) /\ task[p] \in UsesFrame \cup {"none", "publishing", "erasing", "ended"} /\ index[r] \in Nat
    BY <1>1, EntryTypes DEF CacheInv, TypeOK
  <2>2. flight[p] = "none"
    BY <1>1, <1>2, <2>1 DEF FlightOf
  <2> QED BY <2>1, <2>2 DEF FlightOf, UsesFrame
<1>8. KeepsPayloads
  BY <1>3, <1>6 DEF KeepsPayloads, Settled
<1>9. LoopOf(r)'
  BY <1>1, <1>3, <1>4, <1>6, EntryTypes DEF LoopOf
<1>10. HoldingsOf(r)'
  BY <1>1, <1>3, <1>6, <1>8, HoldingsStay DEF LoopOf
<1>11. ASSUME NEW q \in MediaParts, q # p PROVE SamePart(q)
  BY <1>3, <1>6, <1>11 DEF SamePart
<1>12. ASSUME NEW q \in MediaParts, q[1] # r PROVE SamePart(q)
  BY <1>2, <1>11, <1>12
<1>13. ASSUME NEW q \in MediaParts, q[1] = r PROVE FlightOf(q)' /\ AwaitedOf(q)'
  <2>1. FlightOf(q) /\ AwaitedOf(q) /\ q[2] \in Nat /\ q = <<q[1], q[2]>> /\ index[r] \in Nat /\ p = <<p[1], p[2]>>
    BY <1>1, <1>2, EntryTypes, PartFacts, LoadFacts DEF CacheInv, TypeOK
  <2>2. index'[r] = index[r] /\ pending'[r] = pending[r] /\ PartOf(r)' = p
    BY <1>2, <1>3 DEF PartOf
  <2>3. task'[q] = task[q] /\ (q \in built' <=> q \in built)
    BY <1>3
  <2>4. CASE q = p
    BY <1>2, <1>3, <1>6, <1>7, <1>13, <2>1, <2>2, <2>3, <2>4 DEF FlightOf, AwaitedOf, Settled, UsesFrame
  <2>5. CASE q # p
    <3>1. flight'[q] = flight[q] /\ (q[2] > index[r] => flight[q] = "none")
      BY <1>1, <1>6, <1>13, <2>1, <2>5 DEF FlightOf
    <3>2. FlightOf(q)'
      BY <1>1, <1>6, <1>13, <2>1, <2>2, <2>3, <2>5, <3>1 DEF FlightOf, Settled
    <3>3. AwaitedOf(q)'
      BY <1>1, <1>6, <1>13, <2>1, <2>2, <2>3 DEF AwaitedOf, Preparing
    <3> QED BY <3>2, <3>3
  <2> QED BY <2>4, <2>5
<1>14. MapInv'
  <2>1. stage[r] # "unlist" /\ stage'[r] # "unlist"
    BY <1>1, <1>6
  <2>2. inflight' = {q \in MediaParts : \/ flight'[q] = "open"
                                        \/ task'[q] = "erasing"
                                        \/ stage'[q[1]] = "unlist" /\ PartOf(q[1])' = q}
    <3>1. \A q \in MediaParts : stage'[q[1]] = "unlist" /\ PartOf(q[1])' = q
                            <=> stage[q[1]] = "unlist" /\ PartOf(q[1]) = q
      BY <1>1, <1>6, <2>1, UnlistingStays
    <3> QED BY <1>1, <1>3, <1>6, <3>1 DEF MapInv
  <2>3. \A q, o \in inflight' : KeyOf(q)' = KeyOf(o)' => q = o
    BY <1>1, <1>3, LoadStays DEF MapInv
  <2>4. /\ \A i \in DOMAIN lru' : Settled(lru[i])'
        /\ \A i, j \in DOMAIN lru' : KeyOf(lru[i])' = KeyOf(lru[j])' => i = j
    BY <1>1, <1>3 DEF MapInv, KeyOf, Parts, Settled
  <2>5. \A q \in inflight', i \in DOMAIN lru' :
             KeyOf(q)' = KeyOf(lru[i])' => task'[q] \in {"publishing", "erasing"}
    BY <1>1, <1>3 DEF MapInv, KeyOf, Parts, Range
  <2> QED BY <1>4, <2>2, <2>3, <2>4, <2>5 DEF MapInv
<1>15. QueueInv'
  BY <1>3 DEF QueueInv, CacheInv
<1>16. WithinLimits'
  <2>1. \A q \in built' : q \in built /\ (Referenced(q)' => Referenced(q))
    BY <1>3, <1>4 DEF Referenced, HeldBy, Range
  <2>2. Running' = Running /\ Range(lru') = Range(lru) /\ Len(queue') <= QueueCapacity
    BY <1>1, <1>3, <1>4 DEF Running, Range, WithinLimits
  <2>3. \A q \in Requests : index'[q] <= Len(Parts[q]) + 1
    BY <1>1, <1>3 DEF WithinLimits
  <2> QED BY <1>1, <2>1, <2>2, <2>3, LimitsStay
<1> QED BY <1>5, <1>6, <1>8, <1>9, <1>10, <1>12, <1>13, <1>14, <1>15, <1>16, StepKeeps

(* The task of the new flight is queued.                                   *)
LEMMA SubmitPushesKeeps ==
    ASSUME CacheInv, setup' = setup, NEW r \in Requests, SubmitPushes(r)
    PROVE  CacheInv'
<1>1. TypeOK /\ LoopOf(r) /\ HoldingsOf(r) /\ MapInv /\ WithinLimits /\ QueueInv /\ stage[r] = "enqueue"
  BY DEF CacheInv, SubmitPushes
<1>2. PICK p \in MediaParts : p = PartOf(r) /\ p[1] = r /\ p[2] = index[r]
  BY <1>1, PartAtHand
<1>3. /\ UNCHANGED <<signal, error, output, total, built, claimed, flight, inflight, lru>>
      /\ queue' = Append(queue, p) /\ task' = [task EXCEPT ![p] = "queued"]
      /\ Len(queue) < QueueCapacity /\ Pend(r, FALSE, p) /\ NextPart(r)
  BY <1>2 DEF SubmitPushes, cacheVars
<1> DEFINE item == [hit |-> FALSE, flight |-> p]
<1>4. /\ Begun(r, item) /\ (\A q \in Requests : q # r => SameRequest(q))
      /\ stage' \in [Requests -> InProcess \cup {"new", "failed", "prompt", "released"}]
      /\ index' \in [Requests -> Nat \ {0}]
      /\ pending' \in [Requests -> Seq([hit : BOOLEAN, flight : MediaParts])]
  BY <1>1, <1>3, BegunEntries
<1>5. MediaParts' = MediaParts /\ Requests' = Requests /\ Parts'[r] = Parts[r]
  BY LoadStays
<1>6. /\ task'[p] = "queued" /\ (\A q \in MediaParts : q # p => task'[q] = task[q])
      /\ task' \in [MediaParts -> UsesFrame \cup {"none", "publishing", "erasing", "ended"}]
  BY <1>1, <1>3 DEF TypeOK, UsesFrame
<1>7. /\ queue' \in Seq(MediaParts) /\ Len(queue') = Len(queue) + 1 /\ Len(queue) \in Nat
      /\ DOMAIN queue = 1 .. Len(queue) /\ DOMAIN queue' = 1 .. (Len(queue) + 1)
      /\ queue'[Len(queue) + 1] = p /\ \A i \in 1 .. Len(queue) : queue'[i] = queue[i]
  BY <1>1, <1>3, SequenceTypes DEF TypeOK
<1>8. TypeOK'
  BY <1>1, <1>3, <1>4, <1>5, <1>6, <1>7 DEF TypeOK
<1>9. item \in [hit : BOOLEAN, flight : MediaParts] /\ ~ item.hit /\ item.flight = p
  OBVIOUS
<1>10. flight[p] = "open" /\ task[p] = "none" /\ p \notin built
  <2>1. FlightOf(p)
    BY DEF CacheInv
  <2>2. flight[p] = "open" /\ task[p] = "none"
    BY <1>1, <1>2, <2>1 DEF FlightOf
  <2> QED BY <2>1, <2>2 DEF FlightOf
<1>11. KeepsPayloads
  BY <1>3, <1>6, <1>10 DEF KeepsPayloads, Settled
<1>12. KeyOf(p) = Parts[r][index[r]] /\ flight'[p] = "open"
  BY <1>2, <1>3, <1>10 DEF KeyOf
<1> HIDE DEF item
<1>13. LoopOf(r)' /\ HoldingsOf(r)'
  <2>1. flight'[item.flight] # "none" /\ KeyOf(item.flight) = Parts[r][index[r]]
    BY <1>9, <1>12
  <2> QED BY <1>1, <1>4, <1>9, <1>11, <2>1, ItemBegun
<1>14. ASSUME NEW q \in MediaParts, q # p PROVE SamePart(q)
  BY <1>3, <1>6, <1>14 DEF SamePart
<1>15. ASSUME NEW q \in MediaParts, q[1] # r PROVE SamePart(q)
  BY <1>2, <1>14, <1>15
<1>16. FlightOf(p)' /\ AwaitedOf(p)'
  <2>1. p[1] = r /\ p[2] = index[r] /\ index[r] \in Nat /\ p \notin built'
    BY <1>1, <1>2, <1>3, <1>10, EntryTypes
  <2>2. stage'[r] \in {"await", "begin"} /\ (stage'[r] = "begin" => index'[r] = index[r] + 1)
        /\ (stage'[r] = "await" => index'[r] = 1)
    BY <1>4 DEF Begun
  <2>3. FlightOf(p)'
    BY <1>6, <1>12, <2>1, <2>2 DEF FlightOf, Settled
  <2> DEFINE i == Len(pending[r]) + 1
  <2>4. i \in DOMAIN pending'[r] /\ pending'[r][i] = item /\ 1 <= i
    BY <1>1, <1>4, EntryTypes DEF Begun
  <2>5. AwaitedOf(p)'
    <3> HIDE DEF i
    <3> QED BY <1>6, <1>9, <2>1, <2>2, <2>4 DEF AwaitedOf, Preparing
  <2> QED BY <2>3, <2>5
<1>17. ASSUME NEW q \in MediaParts, q[1] = r PROVE FlightOf(q)' /\ AwaitedOf(q)'
  <2>1. CASE q # p
    <3>1. FlightOf(q) /\ AwaitedOf(q) /\ SamePart(q)
      BY <1>14, <2>1 DEF CacheInv
    <3> QED BY <1>1, <1>2, <1>4, <1>17, <2>1, <3>1, PartsOfBegun
  <2> QED BY <1>16, <2>1
<1>18. MapInv'
  <2>1. stage[r] # "unlist" /\ stage'[r] # "unlist"
    BY <1>1, <1>4 DEF Begun
  <2>2. inflight' = {q \in MediaParts : \/ flight'[q] = "open"
                                        \/ task'[q] = "erasing"
                                        \/ stage'[q[1]] = "unlist" /\ PartOf(q[1])' = q}
    <3>1. \A q \in MediaParts : stage'[q[1]] = "unlist" /\ PartOf(q[1])' = q
                            <=> stage[q[1]] = "unlist" /\ PartOf(q[1]) = q
      BY <1>1, <1>4, <2>1, UnlistingStays
    <3>2. \A q \in MediaParts : task'[q] = "erasing" <=> task[q] = "erasing"
      BY <1>6, <1>10
    <3> QED BY <1>1, <1>3, <3>1, <3>2 DEF MapInv
  <2>3. \A q, o \in inflight' : KeyOf(q)' = KeyOf(o)' => q = o
    BY <1>1, <1>3, LoadStays DEF MapInv
  <2>4. \A i \in DOMAIN lru' : Settled(lru[i])'
    <3>1. \A i \in DOMAIN lru : Settled(lru[i]) /\ lru[i] \in MediaParts
      BY <1>1, SequenceTypes DEF MapInv
    <3> QED BY <1>3, <1>11, <3>1 DEF KeepsPayloads, Settled
  <2>5. \A i, j \in DOMAIN lru' : KeyOf(lru[i])' = KeyOf(lru[j])' => i = j
    BY <1>1, <1>3 DEF MapInv, KeyOf, Parts
  <2>6. \A q \in inflight', i \in DOMAIN lru' :
             KeyOf(q)' = KeyOf(lru[i])' => task'[q] \in {"publishing", "erasing"}
    <3>1. inflight' = inflight /\ lru' = lru /\ inflight \subseteq MediaParts
      BY <1>1, <1>3 DEF TypeOK
    <3>2. \A q \in inflight, i \in DOMAIN lru : KeyOf(q) = KeyOf(lru[i]) => q # p /\ task[q] \in {"publishing", "erasing"}
      BY <1>1, <1>10 DEF MapInv
    <3> QED BY <1>6, <3>1, <3>2 DEF KeyOf, Parts
  <2> QED BY <1>5, <2>2, <2>3, <2>4, <2>5, <2>6 DEF MapInv
<1>19. QueueInv'
  <2>1. \A i \in 1 .. Len(queue) : queue[i] # p /\ queue[i] \in MediaParts /\ task[queue[i]] = "queued"
    BY <1>1, <1>7, <1>10, SequenceTypes DEF QueueInv
  <2>2. \A i \in DOMAIN queue' : task'[queue'[i]] = "queued"
    BY <1>6, <1>7, <2>1
  <2>3. \A i, j \in DOMAIN queue' : queue'[i] = queue'[j] => i = j
    BY <1>1, <1>7, <2>1 DEF QueueInv
  <2> QED BY <2>2, <2>3 DEF QueueInv
<1>20. WithinLimits'
  <2>1. HeldBy(r)' \subseteq HeldBy(r) \cup {p}
    BY <1>1, <1>4, <1>9, HeldOfBegun
  <2>2. \A q \in Requests : q # r => HeldBy(q)' = HeldBy(q)
    BY <1>4 DEF SameRequest, HeldBy, Range
  <2>3. ASSUME NEW q \in built' PROVE q \in built /\ (Referenced(q)' => Referenced(q))
    <3>1. q \in built /\ q # p /\ q \in MediaParts
      BY <1>1, <1>3, <1>10 DEF TypeOK
    <3>2. task'[q] = task[q] /\ lru' = lru
      BY <1>3, <1>6, <3>1
    <3> QED BY <1>5, <2>1, <2>2, <3>1, <3>2 DEF Referenced
  <2>4. Running' = Running
    BY <1>5, <1>6, <1>10 DEF Running, UsesFrame
  <2>5. Range(lru') = Range(lru) /\ Len(queue') <= QueueCapacity
    BY <1>3, <1>7, PoolAssumption DEF Range
  <2>6. \A q \in Requests : index'[q] <= Len(Parts[q]) + 1
    BY <1>1, <1>4, <1>5, <1>13 DEF LoopOf, WithinLimits, SameRequest
  <2> QED BY <1>1, <2>3, <2>4, <2>5, <2>6, LimitsStay
<1> QED BY <1>4, <1>8, <1>11, <1>13, <1>15, <1>17, <1>18, <1>19, <1>20, StepKeeps

(* The deadline passed in submit: the flight ends with an error but is     *)
(* still listed.                                                           *)
LEMMA SubmitThrowsKeeps ==
    ASSUME CacheInv, setup' = setup, NEW r \in Requests, SubmitThrows(r)
    PROVE  CacheInv'
<1>1. TypeOK /\ LoopOf(r) /\ HoldingsOf(r) /\ MapInv /\ WithinLimits /\ stage[r] = "enqueue"
  BY DEF CacheInv, SubmitThrows
<1>2. PICK p \in MediaParts : p = PartOf(r) /\ p[1] = r /\ p[2] = index[r]
  BY <1>1, PartAtHand
<1>3. /\ UNCHANGED <<index, signal, error, pending, output, total, inflight, lru, queue, task, built, claimed>>
      /\ flight' = [flight EXCEPT ![p] = "expired"] /\ stage' = [stage EXCEPT ![r] = "unlist"]
  BY <1>2 DEF SubmitThrows, poolVars
<1>4. MediaParts' = MediaParts /\ Requests' = Requests /\ Parts'[r] = Parts[r]
  BY LoadStays
<1>5. TypeOK'
  BY <1>1, <1>3, <1>4 DEF TypeOK, InProcess, Preparing, Errors
<1>6. /\ flight'[p] = "expired" /\ (\A q \in MediaParts : q # p => flight'[q] = flight[q])
      /\ stage'[r] = "unlist" /\ (\A q \in Requests : q # r => SameRequest(q))
  BY <1>1, <1>3 DEF TypeOK, SameRequest
<1>7. flight[p] = "open" /\ task[p] = "none" /\ p \notin built
  <2>1. FlightOf(p)
    BY DEF CacheInv
  <2>2. flight[p] = "open" /\ task[p] = "none"
    BY <1>1, <1>2, <2>1 DEF FlightOf
  <2> QED BY <2>1, <2>2 DEF FlightOf
<1>8. KeepsPayloads
  BY <1>3, <1>6 DEF KeepsPayloads, Settled
<1>9. LoopOf(r)'
  BY <1>1, <1>3, <1>4, <1>6, EntryTypes DEF LoopOf
<1>10. HoldingsOf(r)'
  BY <1>1, <1>3, <1>6, <1>8, HoldingsStay DEF LoopOf
<1>11. ASSUME NEW q \in MediaParts, q # p PROVE SamePart(q)
  BY <1>3, <1>6, <1>11 DEF SamePart
<1>12. ASSUME NEW q \in MediaParts, q[1] # r PROVE SamePart(q)
  BY <1>2, <1>11, <1>12
<1>13. ASSUME NEW q \in MediaParts, q[1] = r PROVE FlightOf(q)' /\ AwaitedOf(q)'
  <2>1. FlightOf(q) /\ AwaitedOf(q) /\ q[2] \in Nat /\ q = <<q[1], q[2]>> /\ index[r] \in Nat /\ p = <<p[1], p[2]>>
    BY <1>1, <1>2, EntryTypes, PartFacts, LoadFacts DEF CacheInv, TypeOK
  <2>2. index'[r] = index[r] /\ pending'[r] = pending[r] /\ PartOf(r)' = p
    BY <1>2, <1>3 DEF PartOf
  <2>3. task'[q] = task[q] /\ (q \in built' <=> q \in built)
    BY <1>3
  <2>4. CASE q = p
    BY <1>2, <1>3, <1>6, <1>7, <1>13, <2>1, <2>2, <2>3, <2>4 DEF FlightOf, AwaitedOf, Settled, UsesFrame
  <2>5. CASE q # p
    <3>1. flight'[q] = flight[q] /\ (q[2] > index[r] => flight[q] = "none")
          /\ ~ (task[q] = "none" /\ flight[q] = "open")
      BY <1>1, <1>2, <1>6, <1>13, <2>1, <2>5 DEF FlightOf
    <3>2. FlightOf(q)'
      BY <1>1, <1>6, <1>13, <2>1, <2>2, <2>3, <2>5, <3>1 DEF FlightOf, Settled
    <3>3. AwaitedOf(q)'
      BY <1>1, <1>6, <1>13, <2>1, <2>2, <2>3 DEF AwaitedOf, Preparing
    <3> QED BY <3>2, <3>3
  <2> QED BY <2>4, <2>5
<1>14. MapInv'
  <2>1. ASSUME NEW q \in MediaParts
        PROVE  (\/ flight'[q] = "open" \/ task'[q] = "erasing"
                \/ stage'[q[1]] = "unlist" /\ PartOf(q[1])' = q) <=> q \in inflight
    <3>1. q[1] \in Requests /\ (q \in inflight <=> \/ flight[q] = "open" \/ task[q] = "erasing"
                                                   \/ stage[q[1]] = "unlist" /\ PartOf(q[1]) = q)
      BY <1>1, PartFacts DEF MapInv, TypeOK
    <3>2. CASE q = p
      BY <1>2, <1>3, <1>6, <1>7, <3>1, <3>2 DEF PartOf
    <3>3. CASE q # p /\ q[1] = r
      BY <1>1, <1>2, <1>3, <1>6, <3>1, <3>3 DEF PartOf
    <3>4. CASE q # p /\ q[1] # r
      BY <1>3, <1>6, <3>1, <3>4 DEF PartOf, SameRequest
    <3> QED BY <3>2, <3>3, <3>4
  <2>2. inflight' = {q \in MediaParts : \/ flight'[q] = "open"
                                        \/ task'[q] = "erasing"
                                        \/ stage'[q[1]] = "unlist" /\ PartOf(q[1])' = q}
    BY <1>1, <1>3, <2>1 DEF TypeOK
  <2>3. \A q, o \in inflight' : KeyOf(q)' = KeyOf(o)' => q = o
    BY <1>1, <1>3, LoadStays DEF MapInv
  <2>4. /\ \A i \in DOMAIN lru' : Settled(lru[i])'
        /\ \A i, j \in DOMAIN lru' : KeyOf(lru[i])' = KeyOf(lru[j])' => i = j
        /\ \A q \in inflight', i \in DOMAIN lru' :
             KeyOf(q)' = KeyOf(lru[i])' => task'[q] \in {"publishing", "erasing"}
    BY <1>1, <1>3 DEF MapInv, KeyOf, Parts, Settled
  <2> QED BY <1>4, <2>2, <2>3, <2>4 DEF MapInv
<1>15. QueueInv'
  BY <1>3 DEF QueueInv, CacheInv
<1>16. WithinLimits'
  <2>1. \A q \in built' : q \in built /\ (Referenced(q)' => Referenced(q))
    BY <1>3, <1>4 DEF Referenced, HeldBy, Range
  <2>2. Running' = Running /\ Range(lru') = Range(lru) /\ Len(queue') <= QueueCapacity
    BY <1>1, <1>3, <1>4 DEF Running, Range, WithinLimits
  <2>3. \A q \in Requests : index'[q] <= Len(Parts[q]) + 1
    BY <1>1, <1>3 DEF WithinLimits
  <2> QED BY <1>1, <2>1, <2>2, <2>3, LimitsStay
<1> QED BY <1>5, <1>6, <1>8, <1>9, <1>10, <1>12, <1>13, <1>14, <1>15, <1>16, StepKeeps

(* The failed flight leaves the map and the request goes on to await what  *)
(* it has begun.                                                           *)
LEMMA SubmitUnlistsKeeps ==
    ASSUME CacheInv, setup' = setup, NEW r \in Requests, SubmitUnlists(r)
    PROVE  CacheInv'
<1>1. TypeOK /\ LoopOf(r) /\ HoldingsOf(r) /\ MapInv /\ WithinLimits /\ stage[r] = "unlist"
  BY DEF CacheInv, SubmitUnlists
<1>2. PICK p \in MediaParts : p = PartOf(r) /\ p[1] = r /\ p[2] = index[r]
  BY <1>1, PartAtHand
<1>3. /\ UNCHANGED <<signal, pending, output, total, flight, lru, queue, task, built, claimed>>
      /\ inflight' = inflight \ {p} /\ stage' = [stage EXCEPT ![r] = "await"]
      /\ error' = [error EXCEPT ![r] = "expired"] /\ index' = [index EXCEPT ![r] = 1]
  BY <1>2 DEF SubmitUnlists, StopBeginning, poolVars
<1>4. MediaParts' = MediaParts /\ Requests' = Requests /\ Parts'[r] = Parts[r]
  BY LoadStays
<1>5. TypeOK'
  <2>1. /\ stage' \in [Requests -> InProcess \cup {"new", "failed", "prompt", "released"}]
        /\ index' \in [Requests -> Nat \ {0}] /\ error' \in [Requests -> Errors \cup {"none"}]
    BY <1>1, <1>3 DEF TypeOK, InProcess, Preparing, Errors
  <2> QED BY <1>1, <1>3, <1>4, <2>1 DEF TypeOK
<1>6. /\ stage'[r] = "await" /\ index'[r] = 1 /\ error'[r] = "expired"
      /\ \A q \in Requests : q # r => SameRequest(q)
  BY <1>1, <1>3 DEF TypeOK, SameRequest
<1>7. flight[p] = "expired" /\ task[p] = "none"
  BY <1>1, <1>2 DEF CacheInv, FlightOf
<1>8. KeepsPayloads
  BY <1>3 DEF KeepsPayloads, Settled
<1>9. LoopOf(r)'
  BY <1>1, <1>3, <1>4, <1>6, EntryTypes DEF LoopOf
<1>10. HoldingsOf(r)'
  BY <1>1, <1>3, <1>6, <1>8, HoldingsStay DEF LoopOf
<1>11. ASSUME NEW q \in MediaParts PROVE SamePart(q)
  BY <1>3 DEF SamePart
<1>12. ASSUME NEW q \in MediaParts, q[1] = r PROVE FlightOf(q)' /\ AwaitedOf(q)'
  <2>1. FlightOf(q) /\ AwaitedOf(q) /\ SamePart(q)
    BY <1>11 DEF CacheInv
  <2>2. pending'[r] = pending[r] /\ DOMAIN pending[r] = 1 .. Len(pending[r])
    BY <1>1, <1>3, EntryTypes
  <2>3. FlightOf(q)'
    BY <1>1, <1>6, <1>12, <2>1 DEF FlightOf, SamePart, Settled
  <2>4. AwaitedOf(q)'
    BY <1>1, <1>6, <1>12, <2>1, <2>2, EntryTypes DEF AwaitedOf, SamePart, Preparing
  <2> QED BY <2>3, <2>4
<1>13. MapInv'
  <2>1. ASSUME NEW q \in MediaParts
        PROVE  (\/ flight'[q] = "open" \/ task'[q] = "erasing"
                \/ stage'[q[1]] = "unlist" /\ PartOf(q[1])' = q) <=> q \in inflight /\ q # p
    <3>1. q[1] \in Requests /\ (q \in inflight <=> \/ flight[q] = "open" \/ task[q] = "erasing"
                                                   \/ stage[q[1]] = "unlist" /\ PartOf(q[1]) = q)
      BY <1>1, PartFacts DEF MapInv, TypeOK
    <3>2. CASE q = p
      BY <1>2, <1>3, <1>6, <1>7, <3>1, <3>2 DEF PartOf
    <3>3. CASE q # p /\ q[1] = r
      BY <1>1, <1>2, <1>3, <1>6, <3>1, <3>3 DEF PartOf
    <3>4. CASE q # p /\ q[1] # r
      BY <1>3, <1>6, <3>1, <3>4 DEF PartOf, SameRequest
    <3> QED BY <3>2, <3>3, <3>4
  <2>2. inflight' = {q \in MediaParts : \/ flight'[q] = "open"
                                        \/ task'[q] = "erasing"
                                        \/ stage'[q[1]] = "unlist" /\ PartOf(q[1])' = q}
    BY <1>1, <1>3, <2>1 DEF TypeOK
  <2>3. \A q, o \in inflight' : KeyOf(q)' = KeyOf(o)' => q = o
    BY <1>1, <1>3, LoadStays DEF MapInv
  <2>4. /\ \A i \in DOMAIN lru' : Settled(lru[i])'
        /\ \A i, j \in DOMAIN lru' : KeyOf(lru[i])' = KeyOf(lru[j])' => i = j
        /\ \A q \in inflight', i \in DOMAIN lru' :
             KeyOf(q)' = KeyOf(lru[i])' => task'[q] \in {"publishing", "erasing"}
    BY <1>1, <1>3 DEF MapInv, KeyOf, Parts, Settled
  <2> QED BY <1>4, <2>2, <2>3, <2>4 DEF MapInv
<1>14. QueueInv'
  BY <1>3 DEF QueueInv, CacheInv
<1>15. WithinLimits'
  <2>1. \A q \in built' : q \in built /\ (Referenced(q)' => Referenced(q))
    BY <1>3, <1>4 DEF Referenced, HeldBy, Range
  <2>2. Running' = Running /\ Range(lru') = Range(lru) /\ Len(queue') <= QueueCapacity
    BY <1>1, <1>3, <1>4 DEF Running, Range, WithinLimits
  <2>3. \A q \in Requests : index'[q] <= Len(Parts[q]) + 1
    BY <1>1, <1>4, <1>6, <1>9 DEF WithinLimits, LoopOf, SameRequest
  <2> QED BY <1>1, <2>1, <2>2, <2>3, LimitsStay
<1> QED BY <1>5, <1>6, <1>8, <1>9, <1>10, <1>11, <1>12, <1>13, <1>14, <1>15, StepKeeps

-----------------------------------------------------------------------------
(* Steps of the task of a part.                                            *)

(* Such a step keeps the invariant if it does for the part, the map, the   *)
(* queue and the limits.                                                   *)
LEMMA TaskStepKeeps ==
    ASSUME CacheInv, setup' = setup, UNCHANGED requestVars, TypeOK', KeepsPayloads,
           NEW p \in MediaParts, \A q \in MediaParts : q # p => SamePart(q),
           FlightOf(p)', AwaitedOf(p)', MapInv', QueueInv', WithinLimits'
    PROVE  CacheInv'
<1>1. TypeOK /\ setup \in Setups /\ p[1] \in Requests
  BY PartFacts DEF CacheInv, TypeOK
<1>2. \A q \in Requests : SameRequest(q)
  BY DEF SameRequest, requestVars
<1>3. LoopOf(p[1])' /\ HoldingsOf(p[1])'
  BY <1>1, <1>2, RequestUndisturbed DEF CacheInv
<1>4. ASSUME NEW q \in MediaParts, q # p PROVE FlightOf(q)' /\ AwaitedOf(q)'
  <2>1. q[1] \in Requests /\ FlightOf(q) /\ AwaitedOf(q) /\ SamePart(q)
    BY <1>1, <1>4, PartFacts DEF CacheInv
  <2> QED BY <1>1, <1>2, <2>1, PartUndisturbed
<1>5. \A q \in MediaParts : FlightOf(q)' /\ AwaitedOf(q)'
  BY <1>4
<1>6. \A q \in MediaParts : q[1] # p[1] => SamePart(q)
  OBVIOUS
<1> QED BY <1>1, <1>2, <1>3, <1>5, <1>6, StepKeeps

(* The part itself, from how its flight, task and payload are afterwards.  *)
LEMMA TaskStepPart ==
    ASSUME CacheInv, setup' = setup, UNCHANGED requestVars, NEW p \in MediaParts,
           task[p] # "none", task'[p] # "none", flight'[p] # "none",
           task'[p] \in UsesFrame => task[p] \in UsesFrame,
           task'[p] \in UsesFrame \cup {"publishing"} => flight'[p] = "open",
           task'[p] \in {"erasing", "ended"} => flight'[p] # "open",
           flight'[p] = "ok" => p \in built' /\ task'[p] \in {"publishing", "erasing", "ended"},
           p \in built' => task'[p] \in {"packing", "inserting", "publishing", "erasing", "ended"},
           task'[p] \in {"packing", "inserting", "publishing"} => p \in built'
    PROVE  FlightOf(p)' /\ AwaitedOf(p)'
<1>1. FlightOf(p) /\ AwaitedOf(p) /\ task[p] \in UsesFrame \cup {"none", "publishing", "erasing", "ended"}
  BY DEF CacheInv, TypeOK
<1>2. UNCHANGED <<stage, index, pending>>
  BY DEF requestVars
<1>3. flight[p] # "none"
  BY <1>1 DEF FlightOf
<1>4. FlightOf(p)'
  BY <1>1, <1>2, <1>3 DEF FlightOf, PartOf, Settled
<1>5. AwaitedOf(p)'
  BY <1>1, <1>2 DEF AwaitedOf
<1> QED BY <1>4, <1>5

(* The map, when no entry joins or leaves it.                              *)
LEMMA TaskStepMap ==
    ASSUME CacheInv, setup' = setup, UNCHANGED requestVars, UNCHANGED inflight, KeepsPayloads,
           \A q \in MediaParts : (flight'[q] = "open" \/ task'[q] = "erasing")
                              <=> (flight[q] = "open" \/ task[q] = "erasing"),
           \A q \in MediaParts : task[q] \in {"publishing", "erasing"} => task'[q] \in {"publishing", "erasing"},
           \A i \in DOMAIN lru' : i \in DOMAIN lru /\ lru'[i] = lru[i]
    PROVE  MapInv'
<1>1. TypeOK /\ MapInv /\ MediaParts' = MediaParts
  BY LoadStays DEF CacheInv
<1>2. UNCHANGED <<stage, index>>
  BY DEF requestVars
<1>3. inflight' = {q \in MediaParts : \/ flight'[q] = "open"
                                      \/ task'[q] = "erasing"
                                      \/ stage'[q[1]] = "unlist" /\ PartOf(q[1])' = q}
  BY <1>1, <1>2 DEF MapInv, PartOf
<1>4. \A q, o \in inflight' : KeyOf(q)' = KeyOf(o)' => q = o
  BY <1>1, LoadStays DEF MapInv
<1>5. \A i \in DOMAIN lru' : Settled(lru[i])'
  <2>1. \A i \in DOMAIN lru' : Settled(lru'[i]) /\ lru'[i] \in MediaParts
    BY <1>1, SequenceTypes DEF MapInv
  <2> QED BY <2>1 DEF KeepsPayloads, Settled
<1>6. \A i, j \in DOMAIN lru' : KeyOf(lru[i])' = KeyOf(lru[j])' => i = j
  BY <1>1 DEF MapInv, KeyOf, Parts
<1>7. \A q \in inflight', i \in DOMAIN lru' :
        KeyOf(q)' = KeyOf(lru[i])' => task'[q] \in {"publishing", "erasing"}
  <2>1. inflight \subseteq MediaParts
    BY <1>1 DEF TypeOK
  <2>2. \A q \in inflight, i \in DOMAIN lru' : KeyOf(q) = KeyOf(lru'[i]) => task[q] \in {"publishing", "erasing"}
    BY <1>1 DEF MapInv
  <2> QED BY <2>1, <2>2 DEF KeyOf, Parts
<1> QED BY <1>1, <1>3, <1>4, <1>5, <1>6, <1>7 DEF MapInv

(* The queue, when the part is not in it.                                  *)
LEMMA TaskStepQueue ==
    ASSUME CacheInv, queue' = queue, NEW p \in MediaParts, task[p] # "queued",
           \A q \in MediaParts : q # p => task'[q] = task[q]
    PROVE  QueueInv'
<1>1. QueueInv /\ \A i \in DOMAIN queue : queue[i] \in MediaParts
  BY SequenceTypes DEF CacheInv
<1> QED BY <1>1 DEF QueueInv

(* What is referred to, when the requests and the part keep what they have.*)
LEMMA TaskStepReferences ==
    ASSUME CacheInv, setup' = setup, UNCHANGED requestVars, NEW p \in MediaParts,
           \A q \in MediaParts : q # p => task'[q] = task[q],
           Range(lru') \subseteq Range(lru), built' \subseteq built,
           p \in built' /\ task'[p] \in {"packing", "inserting", "publishing", "erasing"} =>
             task[p] \in {"packing", "inserting", "publishing", "erasing"}
    PROVE  \A q \in built' : q \in built /\ (Referenced(q)' => Referenced(q))
<1>1. built \subseteq MediaParts /\ Requests' = Requests
  BY LoadStays DEF CacheInv, TypeOK
<1>2. \A r \in Requests : HeldBy(r)' = HeldBy(r)
  BY DEF HeldBy, Range, requestVars
<1> QED BY <1>1, <1>2 DEF Referenced

(* A task goes on: its stage changes and nothing else that is shared.      *)
LEMMA TaskMovesKeeps ==
    ASSUME CacheInv, setup' = setup, UNCHANGED requestVars,
           UNCHANGED <<flight, inflight, lru, queue, built>>, claimed' \in [Requests -> Nat],
           NEW p \in MediaParts, NEW to, SetTask(p, to),
           \/ task[p] = "decoding" /\ to = "allocating"
           \/ task[p] = "allocating" /\ to = "evicting"
           \/ task[p] = "packing" /\ to = "inserting"
    PROVE  CacheInv'
<1>1. TypeOK /\ WithinLimits /\ FlightOf(p) /\ MediaParts' = MediaParts /\ Requests' = Requests
  BY LoadStays DEF CacheInv
<1>2. /\ task'[p] = to /\ (\A q \in MediaParts : q # p => task'[q] = task[q])
      /\ task' \in [MediaParts -> UsesFrame \cup {"none", "publishing", "erasing", "ended"}]
  BY <1>1 DEF SetTask, TypeOK, UsesFrame
<1>3. TypeOK'
  BY <1>1, <1>2 DEF TypeOK, requestVars
<1>4. KeepsPayloads
  BY <1>2 DEF KeepsPayloads, Settled
<1>5. \A q \in MediaParts : q # p => SamePart(q)
  BY <1>2 DEF SamePart
<1>6. FlightOf(p)' /\ AwaitedOf(p)'
  BY <1>1, <1>2, TaskStepPart DEF FlightOf, UsesFrame
<1>7. MapInv'
  BY <1>2, <1>4, TaskStepMap
<1>8. QueueInv'
  BY <1>2, TaskStepQueue
<1>9. WithinLimits'
  <2>1. \A q \in built' : q \in built /\ (Referenced(q)' => Referenced(q))
    <3>1. p \in built' /\ task'[p] \in {"packing", "inserting", "publishing", "erasing"} =>
             task[p] \in {"packing", "inserting", "publishing", "erasing"}
      BY <1>2
    <3> QED BY <1>2, <3>1, TaskStepReferences
  <2>2. Running' = Running
    BY <1>1, <1>2 DEF Running, UsesFrame
  <2>3. Len(queue') <= QueueCapacity /\ Range(lru') = Range(lru)
        /\ \A q \in Requests : index'[q] <= Len(Parts[q]) + 1
    BY <1>1 DEF WithinLimits, requestVars, Range
  <2> QED BY <1>1, <2>1, <2>2, <2>3, LimitsStay
<1> QED BY <1>3, <1>4, <1>5, <1>6, <1>7, <1>8, <1>9, TaskStepKeeps

(* A flight ends, with its payload or with an error.                       *)
LEMMA FlightEndsKeeps ==
    ASSUME CacheInv, setup' = setup, UNCHANGED requestVars, UNCHANGED <<inflight, lru, queue>>,
           claimed' \in [Requests -> Nat], NEW p \in MediaParts, SetTask(p, "erasing"),
           NEW why \in Errors \cup {"ok"}, flight' = [flight EXCEPT ![p] = why],
           task[p] \in {"decoding", "allocating", "packing", "publishing"},
           built' \in {built, built \ {p}}, why = "ok" => p \in built',
           task[p] = "publishing" => built' = built
    PROVE  CacheInv'
<1>1. TypeOK /\ WithinLimits /\ FlightOf(p) /\ MediaParts' = MediaParts /\ Requests' = Requests
  BY LoadStays DEF CacheInv
<1>2. /\ task'[p] = "erasing" /\ (\A q \in MediaParts : q # p => task'[q] = task[q])
      /\ task' \in [MediaParts -> UsesFrame \cup {"none", "publishing", "erasing", "ended"}]
  BY <1>1 DEF SetTask, TypeOK
<1>3. /\ flight'[p] = why /\ (\A q \in MediaParts : q # p => flight'[q] = flight[q])
      /\ flight' \in [MediaParts -> Errors \cup {"none", "open", "ok"}]
      /\ why \notin {"none", "open"}
  BY <1>1 DEF TypeOK, Errors
<1>4. TypeOK'
  BY <1>1, <1>2, <1>3 DEF TypeOK, requestVars
<1>5. KeepsPayloads
  BY <1>2, <1>3 DEF KeepsPayloads, Settled
<1>6. \A q \in MediaParts : q # p => SamePart(q)
  BY <1>2, <1>3 DEF SamePart
<1>7. FlightOf(p)' /\ AwaitedOf(p)'
  BY <1>2, <1>3, TaskStepPart DEF UsesFrame
<1>8. MapInv'
  <2>1. flight[p] = "open"
    BY <1>1 DEF FlightOf, UsesFrame
  <2> QED BY <1>2, <1>3, <1>5, <2>1, TaskStepMap
<1>9. QueueInv'
  BY <1>2, TaskStepQueue
<1>10. WithinLimits'
  <2>1. \A q \in built' : q \in built /\ (Referenced(q)' => Referenced(q))
    <3>1. /\ built' \subseteq built
          /\ p \in built' /\ task'[p] \in {"packing", "inserting", "publishing", "erasing"} =>
               task[p] \in {"packing", "inserting", "publishing", "erasing"}
      BY <1>1, <1>2 DEF FlightOf
    <3> QED BY <1>2, <3>1, TaskStepReferences
  <2>2. Running' = Running
    BY <1>1, <1>2 DEF Running, UsesFrame
  <2>3. Len(queue') <= QueueCapacity /\ Range(lru') = Range(lru)
        /\ \A q \in Requests : index'[q] <= Len(Parts[q]) + 1
    BY <1>1 DEF WithinLimits, requestVars, Range
  <2> QED BY <1>1, <2>1, <2>2, <2>3, LimitsStay
<1> QED BY <1>4, <1>5, <1>6, <1>7, <1>8, <1>9, <1>10, TaskStepKeeps

(* What stops a builder is one of the errors.                              *)
LEMMA WorkerStopIsError ==
    ASSUME NEW r, WorkerStop(r) # "none"
    PROVE  WorkerStop(r) \in Errors
BY DEF WorkerStop, Errors

(* The steps of a task that only go on or end its flight.                  *)
LEMMA PlainTaskStepsKeep ==
    ASSUME CacheInv, setup' = setup, NEW p \in MediaParts,
           \/ TaskStopped(p) \/ TaskStoppedLate(p) \/ TaskClaims(p) \/ TaskCannotDecode(p)
           \/ TaskFindsNoRoom(p) \/ TaskPacks(p) \/ TaskPublishes(p)
    PROVE  CacheInv'
<1>1. TypeOK /\ FlightOf(p) /\ p[1] \in Requests /\ BytesOf(p) \in Nat /\ claimed \in [Requests -> Nat]
  BY PartFacts DEF CacheInv, TypeOK
<1>2. CASE TaskStopped(p)
  <2>1. /\ UNCHANGED requestVars /\ UNCHANGED <<inflight, lru, queue, claimed>>
        /\ SetTask(p, "erasing") /\ flight' = [flight EXCEPT ![p] = WorkerStop(p[1])]
        /\ task[p] \in {"decoding", "allocating", "packing"} /\ built' = built \ {p}
    BY <1>2 DEF TaskStopped, TaskThrows, Stoppable
  <2>2. PICK why \in Errors : why = WorkerStop(p[1])
    BY <1>2, WorkerStopIsError DEF TaskStopped
  <2> QED BY <1>1, <2>1, <2>2, FlightEndsKeeps DEF Errors
<1>3. CASE TaskStoppedLate(p)
  <2>1. /\ UNCHANGED requestVars /\ UNCHANGED <<inflight, lru, queue, claimed, built>>
        /\ SetTask(p, "erasing") /\ flight' = [flight EXCEPT ![p] = WorkerStop(p[1])]
        /\ task[p] = "packing"
    BY <1>3 DEF TaskStoppedLate
  <2>2. PICK why \in Errors : why = WorkerStop(p[1])
    BY <1>3, WorkerStopIsError DEF TaskStoppedLate
  <2> QED BY <1>1, <2>1, <2>2, FlightEndsKeeps DEF Errors
<1>4. CASE TaskClaims(p)
  <2>1. /\ UNCHANGED requestVars /\ UNCHANGED <<inflight, lru, queue>> /\ task[p] = "decoding"
        /\ claimed' = [claimed EXCEPT ![p[1]] = @ + BytesOf(p)]
        /\ \/ TaskThrows(p, "budget")
           \/ SetTask(p, "allocating") /\ UNCHANGED <<flight, built>>
    BY <1>4 DEF TaskClaims
  <2>2. claimed' \in [Requests -> Nat]
    BY <1>1, <2>1
  <2>3. CASE TaskThrows(p, "budget")
    <3>1. /\ flight' = [flight EXCEPT ![p] = "budget"] /\ built' = built \ {p} /\ SetTask(p, "erasing")
      BY <2>3 DEF TaskThrows
    <3> QED BY <2>1, <2>2, <3>1, FlightEndsKeeps DEF Errors
  <2>4. CASE SetTask(p, "allocating") /\ UNCHANGED <<flight, built>>
    BY <2>1, <2>2, <2>4, TaskMovesKeeps
  <2> QED BY <2>1, <2>3, <2>4
<1>5. CASE TaskCannotDecode(p)
  <2>1. /\ UNCHANGED requestVars /\ UNCHANGED <<inflight, lru, queue, claimed>> /\ task[p] = "decoding"
        /\ flight' = [flight EXCEPT ![p] = "broken"] /\ built' = built \ {p} /\ SetTask(p, "erasing")
    BY <1>5 DEF TaskCannotDecode, TaskThrows
  <2> QED BY <1>1, <2>1, FlightEndsKeeps DEF Errors
<1>6. CASE TaskFindsNoRoom(p)
  <2>1. /\ UNCHANGED requestVars /\ UNCHANGED <<flight, inflight, lru, queue, built, claimed>>
        /\ task[p] = "allocating" /\ SetTask(p, "evicting")
    BY <1>6 DEF TaskFindsNoRoom, cacheVars
  <2> QED BY <1>1, <2>1, TaskMovesKeeps
<1>7. CASE TaskPacks(p)
  <2>1. /\ UNCHANGED requestVars /\ UNCHANGED <<flight, inflight, lru, queue, built, claimed>>
        /\ task[p] = "packing" /\ SetTask(p, "inserting")
    BY <1>7 DEF TaskPacks, cacheVars
  <2> QED BY <1>1, <2>1, TaskMovesKeeps
<1>8. CASE TaskPublishes(p)
  <2>1. /\ UNCHANGED requestVars /\ UNCHANGED <<inflight, lru, queue, built, claimed>>
        /\ task[p] = "publishing" /\ SetTask(p, "erasing") /\ flight' = [flight EXCEPT ![p] = "ok"]
    BY <1>8 DEF TaskPublishes
  <2>2. p \in built'
    BY <1>1, <2>1 DEF FlightOf
  <2> QED BY <1>1, <2>1, <2>2, FlightEndsKeeps
<1> QED BY <1>2, <1>3, <1>4, <1>5, <1>6, <1>7, <1>8

(* allocate_payload finds room: the account grows by the payload.          *)
LEMMA TaskReservesKeeps ==
    ASSUME CacheInv, setup' = setup, NEW p \in MediaParts, TaskReserves(p)
    PROVE  CacheInv'
<1>1. TypeOK /\ WithinLimits /\ FlightOf(p) /\ setup \in Setups
      /\ MediaParts' = MediaParts /\ Requests' = Requests
  BY LoadStays DEF CacheInv, TypeOK
<1>2. /\ UNCHANGED requestVars /\ UNCHANGED <<flight, inflight, lru, queue, claimed>>
      /\ task[p] = "allocating" /\ SetTask(p, "packing") /\ built' = built \cup {p}
      /\ BytesIn(LivePayloads) + BytesOf(p) <= LiveBytes
  BY DEF TaskReserves, cacheVars, Fits
<1>3. /\ task'[p] = "packing" /\ (\A q \in MediaParts : q # p => task'[q] = task[q])
      /\ task' \in [MediaParts -> UsesFrame \cup {"none", "publishing", "erasing", "ended"}]
  BY <1>1, <1>2 DEF SetTask, TypeOK, UsesFrame
<1>4. TypeOK'
  BY <1>1, <1>2, <1>3 DEF TypeOK, requestVars
<1>5. KeepsPayloads
  BY <1>2, <1>3 DEF KeepsPayloads, Settled
<1>6. \A q \in MediaParts : q # p => SamePart(q)
  BY <1>2, <1>3 DEF SamePart
<1>7. FlightOf(p)' /\ AwaitedOf(p)'
  BY <1>1, <1>2, <1>3, TaskStepPart DEF FlightOf, UsesFrame
<1>8. MapInv'
  BY <1>2, <1>3, <1>5, TaskStepMap
<1>9. QueueInv'
  BY <1>2, <1>3, TaskStepQueue
<1>10. WithinLimits'
  <2>1. LivePayloads \subseteq MediaParts /\ LivePayloads' \subseteq LivePayloads \cup {p}
    <3>1. \A r \in Requests : HeldBy(r)' = HeldBy(r)
      BY <1>2 DEF HeldBy, Range, requestVars
    <3>2. built \subseteq MediaParts
      BY <1>1 DEF TypeOK
    <3>3. \A q \in built : q # p /\ Referenced(q)' => Referenced(q)
      BY <1>1, <1>2, <1>3, <3>1, <3>2 DEF Referenced
    <3> QED BY <1>2, <3>2, <3>3 DEF LivePayloads
  <2> DEFINE live == LivePayloads
             after == LivePayloads'
  <2>2. BytesIn(live \cup {p}) <= BytesIn(live) + BytesOf(p) /\ BytesIn(live) \in Nat
    BY <1>1, <2>1, BytesOfSets
  <2>3. live \cup {p} \subseteq MediaParts /\ after \subseteq live \cup {p}
    BY <2>1
  <2> HIDE DEF live, after
  <2>4. BytesIn(after) <= BytesIn(live \cup {p}) /\ BytesIn(live \cup {p}) \in Nat
    BY <1>1, <2>3, BytesOfSets
  <2>5. BytesIn(after) \in Nat /\ BytesOf(p) \in Nat /\ LiveBytes \in Nat
    <3>1. after \subseteq MediaParts
      BY <2>3
    <3> QED BY <1>1, <3>1, BytesOfSets, PartFacts, LoadFacts
  <2>6. BytesIn(after) <= LiveBytes
    BY <1>2, <2>2, <2>4, <2>5 DEF live
  <2>7. BytesIn(LivePayloads)' = BytesIn(LivePayloads') /\ LiveBytes' = LiveBytes
    BY DEF BytesIn, BytesOf, KeyOf, Parts, LiveBytes
  <2>8. BytesIn(LivePayloads)' <= LiveBytes'
    BY <2>6, <2>7 DEF after
  <2>9. Running' = Running
    BY <1>1, <1>2, <1>3 DEF Running, UsesFrame
  <2>10. Len(queue') <= QueueCapacity /\ Cardinality(Running') <= Threads
         /\ \A q \in Requests : index'[q] <= Len(Parts'[q]) + 1
    BY <1>1, <1>2, <2>9, LoadStays DEF WithinLimits, requestVars
  <2>11. BytesIn(Range(lru))' <= CapacityBytes
    BY <1>1, <1>2, RetainedStays
  <2> QED BY <1>1, <2>8, <2>10, <2>11 DEF WithinLimits
<1> QED BY <1>2, <1>4, <1>5, <1>6, <1>7, <1>8, <1>9, <1>10, TaskStepKeeps

(* The last entry is evicted, or there is none.                            *)
LEMMA TaskEvictsKeeps ==
    ASSUME CacheInv, setup' = setup, NEW p \in MediaParts, TaskEvicts(p)
    PROVE  CacheInv'
<1>1. TypeOK /\ WithinLimits /\ FlightOf(p) /\ MediaParts' = MediaParts /\ Requests' = Requests
  BY LoadStays DEF CacheInv
<1>2. /\ UNCHANGED requestVars /\ UNCHANGED <<flight, inflight, queue, built, claimed>>
      /\ task[p] = "evicting" /\ SetTask(p, "allocating") /\ lru' = EvictOne(lru)
  BY DEF TaskEvicts
<1>3. /\ task'[p] = "allocating" /\ (\A q \in MediaParts : q # p => task'[q] = task[q])
      /\ task' \in [MediaParts -> UsesFrame \cup {"none", "publishing", "erasing", "ended"}]
  BY <1>1, <1>2 DEF SetTask, TypeOK, UsesFrame
<1>4. lru' \in Seq(MediaParts) /\ \A i \in DOMAIN lru' : i \in DOMAIN lru /\ lru'[i] = lru[i]
  <2>1. CASE lru = << >>
    BY <1>1, <1>2, <2>1 DEF EvictOne, TypeOK
  <2>2. CASE lru # << >>
    <3>1. lru' = SubSeq(lru, 1, Len(lru) - 1) /\ lru \in Seq(MediaParts) /\ Len(lru) \in Nat /\ Len(lru) # 0
      BY <1>1, <1>2, <2>2, SequenceTypes DEF EvictOne, Front, TypeOK
    <3> QED BY <3>1
  <2> QED BY <2>1, <2>2
<1>5. TypeOK'
  BY <1>1, <1>2, <1>3, <1>4 DEF TypeOK, requestVars
<1>6. KeepsPayloads
  BY <1>2, <1>3 DEF KeepsPayloads, Settled
<1>7. \A q \in MediaParts : q # p => SamePart(q)
  BY <1>2, <1>3 DEF SamePart
<1>8. FlightOf(p)' /\ AwaitedOf(p)'
  BY <1>1, <1>2, <1>3, TaskStepPart DEF FlightOf, UsesFrame
<1>9. MapInv'
  BY <1>2, <1>3, <1>4, <1>6, TaskStepMap
<1>10. QueueInv'
  BY <1>2, <1>3, TaskStepQueue
<1>11. WithinLimits'
  <2>1. Range(lru') \subseteq Range(lru)
    BY <1>4 DEF Range
  <2>2. \A q \in built' : q \in built /\ (Referenced(q)' => Referenced(q))
    BY <1>2, <1>3, <2>1, TaskStepReferences
  <2>3. Running' = Running
    BY <1>1, <1>2, <1>3 DEF Running, UsesFrame
  <2>4. Len(queue') <= QueueCapacity /\ \A q \in Requests : index'[q] <= Len(Parts[q]) + 1
    BY <1>1, <1>2 DEF WithinLimits, requestVars
  <2> QED BY <1>1, <2>1, <2>2, <2>3, <2>4, LimitsStay
<1> QED BY <1>2, <1>5, <1>6, <1>7, <1>8, <1>9, <1>10, <1>11, TaskStepKeeps

(* The flight leaves the map and the task ends.                            *)
LEMMA TaskErasesKeeps ==
    ASSUME CacheInv, setup' = setup, NEW p \in MediaParts, TaskErases(p)
    PROVE  CacheInv'
<1>1. TypeOK /\ WithinLimits /\ MapInv /\ FlightOf(p) /\ MediaParts' = MediaParts /\ Requests' = Requests
  BY LoadStays DEF CacheInv
<1>2. /\ UNCHANGED requestVars /\ UNCHANGED <<flight, lru, queue, built, claimed>>
      /\ task[p] = "erasing" /\ SetTask(p, "ended")
      /\ inflight' = {q \in inflight : KeyOf(q) # KeyOf(p)}
  BY DEF TaskErases
<1>3. /\ task'[p] = "ended" /\ (\A q \in MediaParts : q # p => task'[q] = task[q])
      /\ task' \in [MediaParts -> UsesFrame \cup {"none", "publishing", "erasing", "ended"}]
  BY <1>1, <1>2 DEF SetTask, TypeOK
<1>4. inflight' = inflight \ {p}
  BY <1>1, <1>2 DEF MapInv
<1>5. TypeOK'
  BY <1>1, <1>2, <1>3, <1>4 DEF TypeOK, requestVars
<1>6. KeepsPayloads
  BY <1>2, <1>3 DEF KeepsPayloads, Settled
<1>7. \A q \in MediaParts : q # p => SamePart(q)
  BY <1>2, <1>3 DEF SamePart
<1>8. FlightOf(p)' /\ AwaitedOf(p)'
  BY <1>1, <1>2, <1>3, TaskStepPart DEF FlightOf, Settled, UsesFrame
<1>9. MapInv'
  <2>1. UNCHANGED <<stage, index>>
    BY <1>2 DEF requestVars
  <2>2. flight[p] # "open" /\ ~ (stage[p[1]] = "unlist" /\ PartOf(p[1]) = p)
    BY <1>1, <1>2 DEF FlightOf
  <2>3. inflight' = {q \in MediaParts : \/ flight'[q] = "open"
                                        \/ task'[q] = "erasing"
                                        \/ stage'[q[1]] = "unlist" /\ PartOf(q[1])' = q}
    BY <1>1, <1>2, <1>3, <1>4, <2>1, <2>2 DEF MapInv, PartOf
  <2>4. \A q, o \in inflight' : KeyOf(q)' = KeyOf(o)' => q = o
    BY <1>1, <1>4, LoadStays DEF MapInv
  <2>5. \A i \in DOMAIN lru' : Settled(lru[i])'
    <3>1. \A i \in DOMAIN lru : Settled(lru[i]) /\ lru[i] \in MediaParts
      BY <1>1, SequenceTypes DEF MapInv
    <3> QED BY <1>2, <1>6, <3>1 DEF KeepsPayloads, Settled
  <2>6. \A i, j \in DOMAIN lru' : KeyOf(lru[i])' = KeyOf(lru[j])' => i = j
    BY <1>1, <1>2 DEF MapInv, KeyOf, Parts
  <2>7. \A q \in inflight', i \in DOMAIN lru' :
          KeyOf(q)' = KeyOf(lru[i])' => task'[q] \in {"publishing", "erasing"}
    <3>1. inflight \subseteq MediaParts
      BY <1>1 DEF TypeOK
    <3> QED BY <1>1, <1>2, <1>3, <1>4, <3>1 DEF MapInv, KeyOf, Parts
  <2> QED BY <1>1, <2>3, <2>4, <2>5, <2>6, <2>7 DEF MapInv
<1>10. QueueInv'
  BY <1>2, <1>3, TaskStepQueue
<1>11. WithinLimits'
  <2>1. Range(lru') \subseteq Range(lru)
    BY <1>2 DEF Range
  <2>2. \A q \in built' : q \in built /\ (Referenced(q)' => Referenced(q))
    BY <1>2, <1>3, <2>1, TaskStepReferences
  <2>3. Running' \subseteq Running
    BY <1>1, <1>2, <1>3 DEF Running, UsesFrame
  <2>4. Len(queue') <= QueueCapacity /\ \A q \in Requests : index'[q] <= Len(Parts[q]) + 1
    BY <1>1, <1>2 DEF WithinLimits, requestVars
  <2> QED BY <1>1, <2>1, <2>2, <2>3, <2>4, LimitsStay
<1> QED BY <1>2, <1>5, <1>6, <1>7, <1>8, <1>9, <1>10, <1>11, TaskStepKeeps

(* The oldest task gets an idle thread.                                    *)
LEMMA TaskStartsKeeps ==
    ASSUME CacheInv, setup' = setup, TaskStarts
    PROVE  CacheInv'
<1>1. TypeOK /\ WithinLimits /\ QueueInv /\ setup \in Setups
      /\ MediaParts' = MediaParts /\ Requests' = Requests
  BY LoadStays DEF CacheInv, TypeOK
<1>2. queue # << >> /\ queue \in Seq(MediaParts) /\ Len(queue) \in Nat /\ DOMAIN queue = 1 .. Len(queue)
  BY <1>1, SequenceTypes DEF TaskStarts, TypeOK
<1>3. Len(queue) # 0 /\ Head(queue) = queue[1]
  BY <1>2, EmptySeq
<1>4. PICK p \in MediaParts : p = queue[1] /\ task[p] = "queued"
  BY <1>1, <1>2, <1>3, SequenceTypes DEF QueueInv
<1>5. /\ UNCHANGED requestVars /\ UNCHANGED <<flight, inflight, lru, built, claimed>>
      /\ SetTask(p, "decoding") /\ queue' = Tail(queue) /\ Cardinality(Running) < Threads
  BY <1>3, <1>4 DEF TaskStarts, cacheVars
<1>6. /\ task'[p] = "decoding" /\ (\A q \in MediaParts : q # p => task'[q] = task[q])
      /\ task' \in [MediaParts -> UsesFrame \cup {"none", "publishing", "erasing", "ended"}]
  BY <1>1, <1>5 DEF SetTask, TypeOK, UsesFrame
<1>7. /\ queue' \in Seq(MediaParts) /\ Len(queue') = Len(queue) - 1 /\ DOMAIN queue' = 1 .. (Len(queue) - 1)
      /\ \A i \in 1 .. (Len(queue) - 1) : queue'[i] = queue[i + 1]
  BY <1>2, <1>3, <1>5
<1>8. TypeOK'
  BY <1>1, <1>5, <1>6, <1>7 DEF TypeOK, requestVars
<1>9. KeepsPayloads
  BY <1>4, <1>5, <1>6 DEF KeepsPayloads, Settled
<1>10. \A q \in MediaParts : q # p => SamePart(q)
  BY <1>5, <1>6 DEF SamePart
<1>11. FlightOf(p)' /\ AwaitedOf(p)'
  <2>1. FlightOf(p)
    BY DEF CacheInv
  <2> QED BY <1>4, <1>5, <1>6, <2>1, TaskStepPart DEF FlightOf, UsesFrame
<1>12. MapInv'
  BY <1>4, <1>5, <1>6, <1>9, TaskStepMap
<1>13. QueueInv'
  <2>1. ASSUME NEW i \in DOMAIN queue' PROVE task'[queue'[i]] = "queued"
    <3>1. i + 1 \in DOMAIN queue /\ i + 1 # 1 /\ 1 \in DOMAIN queue /\ queue'[i] = queue[i + 1]
      BY <1>2, <1>7
    <3>2. queue[i + 1] # p /\ queue[i + 1] \in MediaParts /\ task[queue[i + 1]] = "queued"
      BY <1>1, <1>2, <1>4, <3>1, SequenceTypes DEF QueueInv
    <3> QED BY <1>6, <3>1, <3>2
  <2>2. ASSUME NEW i \in DOMAIN queue', NEW j \in DOMAIN queue', queue'[i] = queue'[j] PROVE i = j
    <3>1. i + 1 \in DOMAIN queue /\ j + 1 \in DOMAIN queue /\ queue[i + 1] = queue[j + 1] /\ i \in Nat /\ j \in Nat
      BY <1>2, <1>7, <2>2
    <3>2. i + 1 = j + 1
      BY <1>1, <3>1 DEF QueueInv
    <3> QED BY <3>1, <3>2
  <2> QED BY <2>1, <2>2 DEF QueueInv
<1>14. WithinLimits'
  <2>1. \A q \in built' : q \in built /\ (Referenced(q)' => Referenced(q))
    BY <1>4, <1>5, <1>6, TaskStepReferences
  <2>2. BytesIn(LivePayloads)' <= LiveBytes'
    BY <1>1, <2>1, LiveStays
  <2>3. BytesIn(Range(lru))' <= CapacityBytes
    BY <1>1, <1>5, RetainedStays
  <2>4. Cardinality(Running') <= Threads
    <3>1. Running' = Running \cup {p} /\ p \notin Running
      BY <1>1, <1>4, <1>6 DEF Running, UsesFrame
    <3>2. IsFiniteSet(Running)
      BY <1>1, PartFacts, FS_Subset DEF Running
    <3>3. Cardinality(Running \cup {p}) = Cardinality(Running) + 1 /\ Cardinality(Running) \in Nat
      BY <3>1, <3>2, FS_AddElement, FS_CardinalityType
    <3> QED BY <1>5, <3>1, <3>3, PoolAssumption
  <2>5. Len(queue') <= QueueCapacity /\ \A q \in Requests : index'[q] <= Len(Parts'[q]) + 1
    BY <1>1, <1>2, <1>5, <1>7, LoadStays, PoolAssumption DEF WithinLimits, requestVars
  <2> QED BY <1>1, <2>2, <2>3, <2>4, <2>5 DEF WithinLimits
<1> QED BY <1>5, <1>8, <1>9, <1>10, <1>11, <1>12, <1>13, <1>14, TaskStepKeeps

(* What the insertion of a payload retains.                                *)
LEMMA RetainedEntries ==
    ASSUME setup \in Setups, NEW s \in Seq(MediaParts), NEW p \in MediaParts,
           BytesIn(Range(s)) <= CapacityBytes
    PROVE  LET t == Retain(s, p)
           IN  /\ t \in Seq(MediaParts) /\ BytesIn(Range(t)) <= CapacityBytes
               /\ \/ t = s
                  \/ \E k \in 0 .. Len(s) :
                       Len(t) = k + 1 /\ t[1] = p /\ \A i \in 1 .. k : t[i + 1] = s[i]
<1> DEFINE Good(n) == BytesIn(Range(SubSeq(s, 1, n))) + BytesOf(p) <= CapacityBytes
           G == {n \in 0 .. Len(s) : Good(n)}
           Longest(n) ==
               /\ Good(n)
               /\ \A m \in (n + 1) .. Len(s) :
                    BytesIn(Range(SubSeq(s, 1, m))) + BytesOf(p) > CapacityBytes
           kept == CHOOSE n \in 0 .. Len(s) : Longest(n)
<1>1. CASE BytesOf(p) > CapacityBytes
  BY <1>1 DEF Retain
<1>2. CASE ~ (BytesOf(p) > CapacityBytes)
  <2>1. BytesOf(p) \in Nat /\ CapacityBytes \in Nat /\ Len(s) \in Nat
    BY PartFacts, BytesAssumption
  <2>2. ASSUME NEW n \in 0 .. Len(s)
        PROVE  /\ SubSeq(s, 1, n) \in Seq(MediaParts) /\ Len(SubSeq(s, 1, n)) = n
               /\ \A i \in 1 .. n : SubSeq(s, 1, n)[i] = s[i]
               /\ Range(SubSeq(s, 1, n)) \subseteq MediaParts
    <3>1. /\ SubSeq(s, 1, n) \in Seq(MediaParts) /\ Len(SubSeq(s, 1, n)) = n
          /\ \A i \in 1 .. n : SubSeq(s, 1, n)[i] = s[i]
      BY <2>1
    <3> DEFINE u == SubSeq(s, 1, n)
    <3>2. u \in Seq(MediaParts)
      BY <3>1
    <3> HIDE DEF u
    <3>3. Range(u) \subseteq MediaParts
      BY <3>2, ElementOfSeq DEF Range
    <3> QED BY <3>1, <3>3 DEF u
  <2>3. 0 \in G
    <3>1. SubSeq(s, 1, 0) = << >>
      BY <2>2, EmptySeq
    <3>2. Range(<< >>) = {}
      BY DEF Range
    <3>3. BytesIn({}) = 0
      <4>1. Units([q \in {} |-> BytesOf(q)]) = {}
        BY DEF Units
      <4> QED BY <4>1, FS_EmptySet DEF BytesIn, Total
    <3>4. BytesIn(Range(SubSeq(s, 1, 0))) = 0
      BY <3>1, <3>2, <3>3
    <3> QED BY <1>2, <2>1, <3>4
  <2>4. PICK n \in G : \A h \in G : h <= n
    <3>1. G \subseteq 0 .. Len(s) /\ G # {}
      BY <2>3
    <3> HIDE DEF G
    <3> QED BY <2>1, <3>1, GreatestExists
  <2>5. Longest(n)
    <3>1. ASSUME NEW m \in (n + 1) .. Len(s) PROVE BytesIn(Range(SubSeq(s, 1, m))) + BytesOf(p) > CapacityBytes
      <4>1. m \in 0 .. Len(s) /\ ~ (m <= n)
        BY <2>1, <2>4
      <4>2. ~ Good(m)
        BY <2>4, <4>1
      <4>3. BytesIn(Range(SubSeq(s, 1, m))) \in Nat
        BY <2>2, <4>1, BytesOfSets
      <4> QED BY <2>1, <4>2, <4>3
    <3> QED BY <2>4, <3>1
  <2>6. kept \in 0 .. Len(s) /\ Longest(kept)
    <3>1. n \in 0 .. Len(s)
      BY <2>4
    <3> HIDE DEF Longest
    <3> QED BY <2>5, <3>1
  <2>7. Retain(s, p) = <<p>> \o SubSeq(s, 1, kept)
    BY <1>2 DEF Retain
  <2> DEFINE c == SubSeq(s, 1, kept)
  <2>8. /\ c \in Seq(MediaParts) /\ Len(c) = kept /\ (\A i \in 1 .. kept : c[i] = s[i])
        /\ Range(c) \subseteq MediaParts
    BY <2>2, <2>6
  <2>9. BytesIn(Range(c)) + BytesOf(p) <= CapacityBytes
    BY <2>6
  <2> HIDE DEF c, kept, Longest, Good, G
  <2> DEFINE t == <<p>> \o c
  <2>10. t \in Seq(MediaParts) /\ Len(t) = kept + 1 /\ t[1] = p /\ \A i \in 1 .. kept : t[i + 1] = c[i]
    BY <2>8, Prepended
  <2> HIDE DEF t
  <2>11. Range(t) \subseteq Range(c) \cup {p}
    <3>1. ASSUME NEW i \in DOMAIN t PROVE t[i] \in Range(c) \cup {p}
      <4>1. i \in 1 .. (kept + 1) /\ kept \in Nat
        BY <2>6, <2>10
      <4>2. CASE i = 1
        BY <2>10, <4>2
      <4>3. CASE i # 1
        <5>1. i - 1 \in 1 .. kept /\ (i - 1) + 1 = i
          BY <4>1, <4>3
        <5>2. t[i] = c[i - 1] /\ i - 1 \in DOMAIN c
          BY <2>8, <2>10, <5>1
        <5> QED BY <5>2 DEF Range
      <4> QED BY <4>2, <4>3
    <3> QED BY <3>1 DEF Range
  <2>12. BytesIn(Range(t)) <= CapacityBytes
    <3> DEFINE old == Range(c)
               all == Range(c) \cup {p}
    <3>1. BytesIn(all) <= BytesIn(old) + BytesOf(p) /\ BytesIn(old) \in Nat
      BY <2>8, BytesOfSets
    <3>2. all \subseteq MediaParts /\ Range(t) \subseteq all
      BY <2>8, <2>11
    <3>3. BytesIn(Range(t)) <= BytesIn(all) /\ BytesIn(all) \in Nat
      <4> HIDE DEF all
      <4> QED BY <3>2, BytesOfSets
    <3>4. BytesIn(Range(t)) \in Nat
      <4>1. Range(t) \subseteq MediaParts
        BY <3>2
      <4> QED BY <4>1, BytesOfSets
    <3> QED BY <2>1, <2>9, <3>1, <3>3, <3>4
  <2>13. Retain(s, p) = t
    BY <2>7 DEF t, c
  <2> QED BY <2>6, <2>8, <2>10, <2>12, <2>13
<1> QED BY <1>1, <1>2

(* The payload is retained, and what no longer fits is dropped.            *)
LEMMA TaskInsertsKeeps ==
    ASSUME CacheInv, setup' = setup, NEW p \in MediaParts, TaskInserts(p)
    PROVE  CacheInv'
<1>1. TypeOK /\ WithinLimits /\ MapInv /\ FlightOf(p) /\ setup \in Setups
      /\ MediaParts' = MediaParts /\ Requests' = Requests
  BY LoadStays DEF CacheInv, TypeOK
<1>2. /\ UNCHANGED requestVars /\ UNCHANGED <<flight, inflight, queue, built, claimed>>
      /\ task[p] = "inserting" /\ SetTask(p, "publishing") /\ lru' = Retain(lru, p)
  BY DEF TaskInserts
<1>3. /\ task'[p] = "publishing" /\ (\A q \in MediaParts : q # p => task'[q] = task[q])
      /\ task' \in [MediaParts -> UsesFrame \cup {"none", "publishing", "erasing", "ended"}]
  BY <1>1, <1>2 DEF SetTask, TypeOK
<1>4. /\ lru' \in Seq(MediaParts) /\ BytesIn(Range(lru')) <= CapacityBytes
      /\ \/ lru' = lru
         \/ \E k \in 0 .. Len(lru) :
              Len(lru') = k + 1 /\ lru'[1] = p /\ \A i \in 1 .. k : lru'[i + 1] = lru[i]
  <2>1. lru \in Seq(MediaParts) /\ BytesIn(Range(lru)) <= CapacityBytes
    BY <1>1 DEF TypeOK, WithinLimits
  <2> DEFINE t == Retain(lru, p)
  <2>2. /\ t \in Seq(MediaParts) /\ BytesIn(Range(t)) <= CapacityBytes
        /\ \/ t = lru
           \/ \E k \in 0 .. Len(lru) :
                Len(t) = k + 1 /\ t[1] = p /\ \A i \in 1 .. k : t[i + 1] = lru[i]
    BY <1>1, <2>1, RetainedEntries, Zenon
  <2> HIDE DEF t
  <2>3. lru' = t
    BY <1>2 DEF t
  <2> QED BY <2>2, <2>3
<1>5. p \in built /\ flight[p] = "open" /\ p \in inflight /\ \A i \in DOMAIN lru : KeyOf(lru[i]) # KeyOf(p)
  <2>1. p \in built /\ flight[p] = "open"
    BY <1>1, <1>2 DEF FlightOf, UsesFrame
  <2> QED BY <1>1, <1>2, <2>1 DEF MapInv
<1>6. TypeOK'
  BY <1>1, <1>2, <1>3, <1>4 DEF TypeOK, requestVars
<1>7. KeepsPayloads /\ Settled(p)'
  BY <1>2, <1>3, <1>5 DEF KeepsPayloads, Settled
<1>8. \A q \in MediaParts : q # p => SamePart(q)
  BY <1>2, <1>3 DEF SamePart
<1>9. FlightOf(p)' /\ AwaitedOf(p)'
  BY <1>1, <1>2, <1>3, <1>5, TaskStepPart DEF FlightOf, UsesFrame
<1>10. ASSUME NEW j \in DOMAIN lru', lru' # lru
       PROVE  \/ j = 1 /\ lru'[j] = p
              \/ j # 1 /\ j \in Nat /\ j - 1 \in DOMAIN lru /\ lru'[j] = lru[j - 1]
  <2>1. PICK k \in 0 .. Len(lru) : Len(lru') = k + 1 /\ lru'[1] = p /\ \A i \in 1 .. k : lru'[i + 1] = lru[i]
    BY <1>4, <1>10
  <2>2. j \in 1 .. (k + 1) /\ DOMAIN lru = 1 .. Len(lru) /\ Len(lru) \in Nat
    BY <1>1, <1>4, <2>1, SequenceTypes, LenProperties
  <2>3. CASE j # 1
    <3>1. j - 1 \in 1 .. k /\ (j - 1) + 1 = j /\ j - 1 \in DOMAIN lru
      BY <2>2, <2>3
    <3>2. lru'[j] = lru[j - 1]
      BY <2>1, <3>1
    <3> QED BY <2>2, <2>3, <3>1, <3>2
  <2> QED BY <2>1, <2>3
<1>11. ASSUME NEW j \in DOMAIN lru' PROVE lru'[j] = p \/ \E i \in DOMAIN lru : lru'[j] = lru[i]
  BY <1>10
<1>12. MapInv'
  <2>1. UNCHANGED <<stage, index>>
    BY <1>2 DEF requestVars
  <2>2. inflight' = {q \in MediaParts : \/ flight'[q] = "open"
                                        \/ task'[q] = "erasing"
                                        \/ stage'[q[1]] = "unlist" /\ PartOf(q[1])' = q}
    BY <1>1, <1>2, <1>3, <2>1 DEF MapInv, PartOf
  <2>3. \A q, o \in inflight' : KeyOf(q)' = KeyOf(o)' => q = o
    BY <1>1, <1>2, LoadStays DEF MapInv
  <2>4. ASSUME NEW j \in DOMAIN lru' PROVE Settled(lru[j])'
    <3>1. ASSUME NEW q \in MediaParts, Settled(q), q = lru'[j] PROVE Settled(lru[j])'
      BY <1>7, <3>1 DEF KeepsPayloads, Settled
    <3>2. CASE lru'[j] = p
      BY <1>7, <3>2 DEF Settled
    <3>3. CASE \E i \in DOMAIN lru : lru'[j] = lru[i]
      BY <1>1, <3>1, <3>3, SequenceTypes DEF MapInv
    <3> QED BY <1>11, <3>2, <3>3
  <2>5. ASSUME NEW j \in DOMAIN lru', NEW l \in DOMAIN lru', KeyOf(lru[j])' = KeyOf(lru[l])' PROVE j = l
    <3>1. KeyOf(lru'[j]) = KeyOf(lru'[l])
      BY <2>5 DEF KeyOf, Parts
    <3>2. CASE lru' = lru
      BY <1>1, <3>1, <3>2 DEF MapInv
    <3>3. CASE lru' # lru
      <4>0. \/ j = 1 /\ lru'[j] = p
            \/ j # 1 /\ j \in Nat /\ j - 1 \in DOMAIN lru /\ lru'[j] = lru[j - 1]
        BY <1>10, <3>3
      <4>1. \/ l = 1 /\ lru'[l] = p
            \/ l # 1 /\ l \in Nat /\ l - 1 \in DOMAIN lru /\ lru'[l] = lru[l - 1]
        BY <1>10, <3>3
      <4>2. CASE j = 1 \/ l = 1
        BY <1>5, <3>1, <4>0, <4>1, <4>2
      <4>3. CASE j # 1 /\ l # 1
        <5>1. j - 1 = l - 1
          BY <1>1, <3>1, <4>0, <4>1, <4>3 DEF MapInv
        <5> QED BY <4>0, <4>1, <4>3, <5>1
      <4> QED BY <4>2, <4>3
    <3> QED BY <3>2, <3>3
  <2>6. ASSUME NEW q \in inflight', NEW j \in DOMAIN lru', KeyOf(q)' = KeyOf(lru[j])'
        PROVE  task'[q] \in {"publishing", "erasing"}
    <3>1. KeyOf(q) = KeyOf(lru'[j]) /\ q \in inflight /\ q \in MediaParts
      BY <1>1, <1>2, <2>6 DEF KeyOf, Parts, TypeOK
    <3>2. CASE q = p
      BY <1>3, <3>2
    <3>3. CASE q # p
      <4>1. lru'[j] # p
        BY <1>1, <1>5, <3>1, <3>3 DEF MapInv
      <4>2. PICK i \in DOMAIN lru : lru'[j] = lru[i]
        BY <1>11, <4>1
      <4>3. task[q] \in {"publishing", "erasing"}
        BY <1>1, <3>1, <4>2 DEF MapInv
      <4> QED BY <1>3, <3>1, <3>3, <4>3
    <3> QED BY <3>2, <3>3
  <2> QED BY <1>1, <2>2, <2>3, <2>4, <2>5, <2>6 DEF MapInv
<1>13. QueueInv'
  BY <1>2, <1>3, TaskStepQueue
<1>14. WithinLimits'
  <2>1. Range(lru') \subseteq Range(lru) \cup {p}
    BY <1>11 DEF Range
  <2>2. \A r \in Requests : HeldBy(r)' = HeldBy(r)
    BY <1>2 DEF HeldBy, Range, requestVars
  <2>3. ASSUME NEW q \in built' PROVE q \in built /\ (Referenced(q)' => Referenced(q))
    <3>1. q \in built /\ q \in MediaParts
      BY <1>1, <1>2 DEF TypeOK
    <3> QED BY <1>1, <1>2, <1>3, <2>1, <2>2, <3>1 DEF Referenced
  <2>4. BytesIn(LivePayloads)' <= LiveBytes'
    BY <1>1, <2>3, LiveStays
  <2>5. BytesIn(Range(lru))' <= CapacityBytes
    <3>1. BytesIn(Range(lru))' = BytesIn(Range(lru'))
      BY DEF BytesIn, BytesOf, KeyOf, Parts, Range
    <3> QED BY <1>4, <3>1
  <2>6. Running' = Running
    BY <1>1, <1>2, <1>3 DEF Running, UsesFrame
  <2>7. Cardinality(Running') <= Threads /\ Len(queue') <= QueueCapacity
        /\ \A q \in Requests : index'[q] <= Len(Parts'[q]) + 1
    BY <1>1, <1>2, <2>6, LoadStays DEF WithinLimits, requestVars
  <2> QED BY <1>1, <2>4, <2>5, <2>7 DEF WithinLimits
<1> QED BY <1>2, <1>6, <1>7, <1>8, <1>9, <1>12, <1>13, <1>14, TaskStepKeeps

-----------------------------------------------------------------------------
(* The invariant.                                                          *)

(* It holds when the frontend starts.                                      *)
LEMMA CacheInitially == Init => CacheInv
<1> SUFFICES ASSUME Init PROVE CacheInv
  OBVIOUS
<1>1. setup \in Setups
  BY DEF Init
<1>2. /\ \A r \in Requests : stage[r] = "new" /\ index[r] = 1 /\ error[r] = "none" /\ pending[r] = << >>
                             /\ output[r] = << >> /\ total[r] = 0
      /\ \A p \in MediaParts : flight[p] = "none" /\ task[p] = "none"
      /\ inflight = {} /\ lru = << >> /\ queue = << >> /\ built = {}
  BY DEF Init
<1>3. TypeOK
  BY DEF Init, TypeOK, InProcess, Preparing
<1>4. Units([x \in {} |-> 0]) = {} /\ Cardinality({}) = 0
  BY FS_EmptySet DEF Units
<1>5. BytesIn({}) = 0
  <2>1. Units([q \in {} |-> BytesOf(q)]) = {}
    BY DEF Units
  <2> QED BY <1>4, <2>1 DEF BytesIn, Total
<1>6. WithinLimits
  <2>1. Running = {} /\ LivePayloads = {} /\ Range(lru) = {}
    BY <1>2 DEF Running, LivePayloads, Range, UsesFrame
  <2>2. Len(queue) = 0 /\ \A r \in Requests : index[r] <= Len(Parts[r]) + 1
    BY <1>1, <1>2, LoadFacts
  <2>3. LiveBytes \in Nat /\ CapacityBytes \in Nat /\ Threads \in Nat /\ QueueCapacity \in Nat
    BY <1>1, LoadFacts, BytesAssumption, PoolAssumption
  <2> QED BY <1>4, <1>5, <2>1, <2>2, <2>3 DEF WithinLimits
<1>7. MapInv /\ QueueInv
  <2>1. \A p \in MediaParts : stage[p[1]] = "new"
    BY <1>1, <1>2, PartFacts
  <2> QED BY <1>2, <2>1 DEF MapInv, QueueInv
<1>8. ASSUME NEW r \in Requests PROVE LoopOf(r) /\ HoldingsOf(r)
  <2>1. Len(Parts[r]) \in Nat \ {0} /\ MaxRequestBytes \in Nat
    BY <1>1, LoadFacts
  <2>2. Total([i \in DOMAIN output[r] |-> BytesOf(output[r][i])]) = 0
    <3>0. DOMAIN output[r] = {}
      BY <1>2
    <3>1. Units([i \in DOMAIN output[r] |-> BytesOf(output[r][i])]) = {}
      BY <3>0 DEF Units
    <3> QED BY <1>4, <3>1 DEF Total
  <2>3. LoopOf(r)
    BY <1>2, <2>1 DEF LoopOf
  <2>4. HoldingsOf(r)
    BY <1>2, <2>1, <2>2 DEF HoldingsOf
  <2> QED BY <2>3, <2>4
<1>9. ASSUME NEW p \in MediaParts PROVE FlightOf(p) /\ AwaitedOf(p)
  <2>1. stage[p[1]] = "new" /\ flight[p] = "none" /\ task[p] = "none" /\ p \notin built
    BY <1>1, <1>2, PartFacts
  <2> QED BY <2>1 DEF FlightOf, AwaitedOf, UsesFrame
<1> QED BY <1>3, <1>6, <1>7, <1>8, <1>9 DEF CacheInv

(* Every step keeps it.                                                    *)
LEMMA CacheStep == CacheInv /\ [Next]_<<setup, vars>> => CacheInv'
<1> SUFFICES ASSUME CacheInv, [Next]_<<setup, vars>> PROVE CacheInv'
  OBVIOUS
<1>1. CASE UNCHANGED <<setup, vars>>
  <2>1. UNCHANGED <<setup, stage, index, signal, error, pending, output, total, claimed,
                    flight, inflight, lru, queue, task, built>>
    BY <1>1 DEF vars
  <2>2. TypeOK /\ WithinLimits /\ MapInv /\ QueueInv /\ Requests' = Requests /\ MediaParts' = MediaParts
    BY <2>1, LoadStays DEF CacheInv
  <2>3. TypeOK'
    BY <2>1, <2>2 DEF TypeOK
  <2>4. KeepsPayloads /\ (\A q \in Requests : SameRequest(q)) /\ (\A p \in MediaParts : SamePart(p))
    BY <2>1 DEF KeepsPayloads, Settled, SameRequest, SamePart
  <2>5. \A q \in Requests : LoopOf(q)' /\ HoldingsOf(q)'
    BY <2>1, <2>2, <2>4, RequestUndisturbed DEF CacheInv
  <2>6. ASSUME NEW p \in MediaParts PROVE FlightOf(p)' /\ AwaitedOf(p)'
    <3>1. p[1] \in Requests
      BY <2>2, PartFacts DEF TypeOK
    <3> QED BY <2>1, <2>2, <2>4, <3>1, PartUndisturbed DEF CacheInv
  <2>7. MapInv'
    BY <2>1, <2>4, TaskStepMap DEF requestVars
  <2>8. QueueInv'
    BY <2>1, <2>2 DEF QueueInv
  <2>9. WithinLimits'
    <3>1. \A p \in built' : p \in built /\ (Referenced(p)' => Referenced(p))
      BY <2>1, <2>2 DEF Referenced, HeldBy, Range
    <3>2. Running' = Running /\ Range(lru') = Range(lru) /\ Len(queue') <= QueueCapacity
          /\ \A q \in Requests : index'[q] <= Len(Parts[q]) + 1
      BY <2>1, <2>2 DEF Running, Range, WithinLimits
    <3> QED BY <2>1, <2>2, <3>1, <3>2, LimitsStay
  <2> QED BY <2>2, <2>3, <2>5, <2>6, <2>7, <2>8, <2>9 DEF CacheInv
<1>2. CASE Next
  <2>1. setup' = setup
    BY <1>2 DEF Next
  <2>2. ASSUME NEW r \in Requests, Arrive(r) \/ RequestStep(r) \/ ReleasePrompt(r) \/ Raise(r) PROVE CacheInv'
    BY <2>1, <2>2, MovingStepsKeep, DroppingStepsKeep, CollectingStepsKeep, BeginWaiterKeeps, BeginHitKeeps,
       BeginProducerKeeps, SubmitPushesKeeps, SubmitThrowsKeeps, SubmitUnlistsKeeps DEF RequestStep
  <2>3. ASSUME NEW p \in MediaParts, TaskStep(p) PROVE CacheInv'
    BY <2>1, <2>3, PlainTaskStepsKeep, TaskReservesKeeps, TaskEvictsKeeps, TaskInsertsKeeps, TaskErasesKeeps
       DEF TaskStep
  <2>4. CASE TaskStarts
    BY <2>1, <2>4, TaskStartsKeeps
  <2>5. CASE Finished
    BY <1>1, <2>1, <2>5 DEF Finished
  <2> QED BY <1>2, <2>2, <2>3, <2>4, <2>5 DEF Next
<1> QED BY <1>1, <1>2

(* The invariant of the media cache: where every request, flight, task and *)
(* payload is, in every interleaving of begin, insert, publish, erase,     *)
(* eviction, cancellation and deadline.                                    *)
THEOREM CacheInvariant == Spec => []CacheInv
<1> QED BY CacheInitially, CacheStep, PTL DEF Spec

-----------------------------------------------------------------------------
(* What follows from it.                                                   *)

(* A task that is queued or building finds its request still in process(). *)
THEOREM TasksOutlived == Spec => []FrameOutlivesTasks
<1>1. CacheInv => FrameOutlivesTasks
  BY DEF CacheInv, AwaitedOf, FrameOutlivesTasks
<1> QED BY <1>1, CacheInvariant, PTL

(* A prompt that process() returned holds one settled payload per part, in *)
(* order and within the limit.                                             *)
THEOREM PromptsComplete == Spec => []PromptIsComplete
<1>1. CacheInv => PromptIsComplete
  <2> SUFFICES ASSUME CacheInv, NEW r \in Requests, stage[r] = "prompt"
               PROVE  /\ Len(output[r]) = Len(Parts[r])
                      /\ \A i \in DOMAIN output[r] :
                           KeyOf(output[r][i]) = Parts[r][i] /\ output[r][i] \in built
                      /\ Total([i \in DOMAIN output[r] |-> BytesOf(output[r][i])]) <= MaxRequestBytes
    BY DEF PromptIsComplete
  <2>1. LoopOf(r) /\ HoldingsOf(r)
    BY DEF CacheInv
  <2>2. error[r] = "none" /\ Len(output[r]) = Len(Parts[r])
    BY <2>1 DEF LoopOf
  <2>3. \A i \in DOMAIN output[r] : KeyOf(output[r][i]) = Parts[r][i] /\ output[r][i] \in built
    BY <2>1 DEF HoldingsOf, Settled
  <2>4. total[r] = Total([i \in DOMAIN output[r] |-> BytesOf(output[r][i])]) /\ total[r] <= MaxRequestBytes
    BY <2>1, <2>2 DEF HoldingsOf
  <2> QED BY <2>2, <2>3, <2>4
<1> QED BY <1>1, CacheInvariant, PTL

(* One flight per key, and none for a retained key.                        *)
LEMMA FlightsAreSingle == CacheInv => SingleFlight
<1> SUFFICES ASSUME CacheInv PROVE SingleFlight
  OBVIOUS
<1>1. TypeOK /\ MapInv /\ \A p \in MediaParts : FlightOf(p)
  BY DEF CacheInv
<1>2. \A p \in MediaParts : flight[p] = "open" => p \in inflight
  BY <1>1 DEF MapInv
<1>3. \A p, q \in MediaParts : KeyOf(p) = KeyOf(q) /\ flight[p] = "open" /\ flight[q] = "open" => p = q
  BY <1>1, <1>2 DEF MapInv
<1>4. \A p, q \in Range(lru) : KeyOf(p) = KeyOf(q) => p = q
  BY <1>1 DEF MapInv, Range
<1>5. ASSUME NEW p \in MediaParts, task[p] \in UsesFrame
      PROVE  p \in inflight /\ \A q \in Range(lru) : KeyOf(p) # KeyOf(q)
  <2>1. p \in inflight /\ task[p] \notin {"publishing", "erasing"}
    BY <1>1, <1>2, <1>5 DEF FlightOf, UsesFrame
  <2> QED BY <1>1, <2>1 DEF MapInv, Range
<1>6. inflight = {p \in MediaParts : \/ flight[p] = "open"
                                     \/ task[p] = "erasing"
                                     \/ stage[p[1]] = "unlist" /\ PartOf(p[1]) = p}
  BY <1>1 DEF MapInv
<1> QED BY <1>3, <1>4, <1>5, <1>6 DEF SingleFlight

(* A part that is not counted yet adds all its bytes.                      *)
LEMMA BytesOfOneMore ==
    ASSUME setup \in Setups, NEW T, T \subseteq MediaParts, NEW p \in MediaParts, p \notin T
    PROVE  BytesIn(T \cup {p}) = BytesIn(T) + BytesOf(p)
<1> DEFINE f == [q \in T |-> BytesOf(q)]
           U == T \cup {p}
           g == [q \in U |-> BytesOf(q)]
<1>1. f \in [T -> Nat] /\ g \in [U -> Nat]
  BY PartFacts
<1>2. IsFiniteSet(T)
  BY PartFacts, FS_Subset
<1>3. (\A q \in T : g[q] = f[q]) /\ g[p] = BytesOf(p) /\ U = T \cup {p}
  OBVIOUS
<1>4. BytesIn(T) = Total(f) /\ BytesIn(U) = Total(g)
  BY DEF BytesIn
<1> HIDE DEF f, g, U
<1>5. Total(g) = Total(f) + g[p]
  BY <1>1, <1>2, <1>3, TotalExtended
<1> QED BY <1>3, <1>4, <1>5

(* The payloads a request holds while one of its tasks waits for bytes are *)
(* those of different parts of it, and so is the one it waits for: all of  *)
(* them fit when the request is within the limit.                          *)
LEMMA NoSelfWait == CacheInv => NoWaitForOwnBytes
<1> SUFFICES ASSUME CacheInv, NEW p \in MediaParts, task[p] \in {"allocating", "evicting"}, FitsLimit(p[1])
             PROVE  OwnBytes(p[1]) + BytesOf(p) <= LiveBytes
  BY DEF NoWaitForOwnBytes
<1>1. TypeOK /\ setup \in Setups /\ FlightOf(p) /\ AwaitedOf(p)
  BY DEF CacheInv, TypeOK
<1>2. PICK r \in Requests : r = p[1]
  BY <1>1, PartFacts
<1>3. LoopOf(r) /\ HoldingsOf(r) /\ stage[r] \in Preparing
  BY <1>1, <1>2 DEF CacheInv, AwaitedOf, UsesFrame
<1> DEFINE Mine(q) == q \in HeldBy(r) \/ (q[1] = r /\ task[q] \in UsesFrame)
           S == {q \in LivePayloads : Mine(q)}
           U == S \cup {p}
           At(q, i) == i \in DOMAIN pending[r] /\ pending[r][i].flight = q
<1>4. S \subseteq MediaParts /\ p \notin S
  <2>1. p \notin built
    BY <1>1 DEF FlightOf
  <2> QED BY <1>1, <2>1 DEF LivePayloads, TypeOK
<1>5. ASSUME NEW q \in U PROVE \E i \in 1 .. Len(pending[r]) : At(q, i)
  <2>1. DOMAIN pending[r] = 1 .. Len(pending[r])
    BY <1>1, EntryTypes
  <2>2. CASE \E i \in DOMAIN pending[r] : pending[r][i].flight = q
    BY <2>1, <2>2
  <2>3. CASE q \in Range(output[r])
    <3>1. PICK i \in DOMAIN output[r] : q = output[r][i]
      BY <2>3 DEF Range
    <3>2. i \in 1 .. Len(output[r]) /\ i <= Len(pending[r]) /\ q = pending[r][i].flight
      BY <1>1, <1>3, <3>1, EntryTypes DEF HoldingsOf, InProcess
    <3>3. i \in 1 .. Len(pending[r])
      BY <1>1, <3>2, EntryTypes
    <3> QED BY <2>1, <3>2, <3>3
  <2>4. CASE q \in MediaParts /\ q[1] = r /\ task[q] \in UsesFrame
    <3>1. AwaitedOf(q)
      BY <2>4 DEF CacheInv
    <3> QED BY <2>1, <2>4, <3>1 DEF AwaitedOf
  <2>5. q = p => q[1] = r /\ task[q] \in UsesFrame
    BY <1>2 DEF UsesFrame
  <2> QED BY <1>4, <2>2, <2>3, <2>4, <2>5 DEF HeldBy
<1> DEFINE k == [q \in U |-> CHOOSE i \in 1 .. Len(pending[r]) : At(q, i)]
           f == [q \in U |-> BytesOf(q)]
           T == DOMAIN Parts[r]
           g == [i \in T |-> Bytes[Parts[r][i]]]
<1>6. T = 1 .. Len(Parts[r]) /\ Len(Parts[r]) \in Nat /\ Len(pending[r]) \in Nat /\ Len(pending[r]) <= Len(Parts[r])
  BY <1>1, <1>3, LoadFacts, EntryTypes DEF HoldingsOf
<1>7. ASSUME NEW q \in U
      PROVE  k[q] \in T /\ pending[r][k[q]].flight = q /\ f[q] = g[k[q]] /\ f[q] \in Nat
  <2> DEFINE c == CHOOSE i \in 1 .. Len(pending[r]) : At(q, i)
  <2>1. c \in 1 .. Len(pending[r]) /\ At(q, c)
    <3> HIDE DEF At
    <3> QED BY <1>5
  <2>2. k[q] = c
    OBVIOUS
  <2> HIDE DEF c, k
  <2>3. k[q] \in T /\ pending[r][k[q]].flight = q
    BY <1>6, <2>1, <2>2
  <2>4. KeyOf(q) = Parts[r][k[q]]
    BY <1>3, <2>1, <2>2 DEF HoldingsOf
  <2>5. f[q] = BytesOf(q) /\ g[k[q]] = Bytes[Parts[r][k[q]]]
    BY <2>3
  <2>6. BytesOf(q) \in Nat
    BY <1>1, <1>4, PartFacts
  <2> QED BY <2>3, <2>4, <2>5, <2>6 DEF BytesOf
<1>8. g \in [T -> Nat]
  BY <1>1, <1>6, LoadFacts, BytesAssumption
<1>9. IsFiniteSet(T)
  BY <1>6, FS_Interval
<1>10. Total(g) <= MaxRequestBytes
  BY <1>2 DEF FitsLimit
<1>11. BytesIn(U) = Total(f) /\ BytesIn(U) = BytesIn(S) + BytesOf(p) /\ BytesIn(U) \in Nat
  <2>1. BytesIn(U) = Total(f)
    BY DEF BytesIn
  <2>2. BytesIn(U) = BytesIn(S) + BytesOf(p)
    <3> HIDE DEF S
    <3> QED BY <1>1, <1>4, BytesOfOneMore
  <2>3. U \subseteq MediaParts
    BY <1>4
  <2>4. BytesIn(U) \in Nat
    <3> HIDE DEF U
    <3> QED BY <1>1, <2>3, BytesOfSets
  <2> QED BY <2>1, <2>2, <2>4
<1>12. OwnBytes(p[1]) = BytesIn(S)
  BY <1>2 DEF OwnBytes
<1>13. k \in [U -> T] /\ f \in [U -> Nat]
  <2>1. (\A q \in U : k[q] \in T) /\ (\A q \in U : f[q] \in Nat)
    BY <1>7
  <2>2. k = [q \in U |-> k[q]] /\ f = [q \in U |-> f[q]]
    <3> HIDE DEF U, At
    <3> QED OBVIOUS
  <2> HIDE DEF k, f, U, T
  <2> QED BY <2>1, <2>2
<1> HIDE DEF S, U, k, f, g, T, Mine, At
<1>14. \A q, o \in U : k[q] = k[o] => q = o
  <2>1. ASSUME NEW q \in U, NEW o \in U, k[q] = k[o] PROVE q = o
    BY <1>7, <2>1
  <2> QED BY <2>1
<1>15. \A q \in U : f[q] <= g[k[q]]
  BY <1>7
<1>16. Total(f) <= Total(g)
  BY <1>8, <1>9, <1>13, <1>14, <1>15, TotalInjected
<1>17. Total(g) \in Nat
  BY <1>8, <1>9, TotalIsNat
<1>18. MaxRequestBytes \in Nat /\ LiveBytes \in Nat /\ MaxRequestBytes <= LiveBytes
  BY <1>1, LoadFacts
<1> QED BY <1>10, <1>11, <1>12, <1>16, <1>17, <1>18

(* The cache, its map of flights and the account of live bytes agree, for  *)
(* every load, every size and every limit.                                 *)
THEOREM CacheAgrees == Spec => []CacheStateAgrees
<1>1. CacheInv => TypeOK /\ WithinLimits
  BY DEF CacheInv
<1>2. CacheInv => CacheStateAgrees
  BY <1>1, FlightsAreSingle, NoSelfWait DEF CacheStateAgrees
<1> QED BY <1>2, CacheInvariant, PTL
=============================================================================
