--------------------------- MODULE ResponseStoreProofs ---------------------------
(***************************************************************************)
(* Proofs about ResponseStore: the limits and the byte total with shared   *)
(* contexts, storing before answering, and eviction by need and recency.   *)
(***************************************************************************)
EXTENDS ResponseStore, CommonLemmas

(* What the records of S occupy when ctx gives their contexts.             *)
NodesReached(S, ctx) == {n \in Responses : \E r \in S : n \in Range(ctx[r])}
BytesFor(S, ctx) == EnvelopesOf(S) + NodesOf(NodesReached(S, ctx))

-----------------------------------------------------------------------------
(* The bytes of a finite set of responses are a number, and fewer          *)
(* responses have no more of them.                                         *)
LEMMA EnvelopesMonotone ==
    ASSUME NEW T, IsFiniteSet(T), T \subseteq Responses, NEW S, S \subseteq T
    PROVE  EnvelopesOf(S) \in Nat /\ EnvelopesOf(T) \in Nat /\ EnvelopesOf(S) <= EnvelopesOf(T)
<1> DEFINE f == [r \in S |-> EnvelopeBytes[r]]
           g == [r \in T |-> EnvelopeBytes[r]]
<1>1. f \in [S -> Nat] /\ g \in [T -> Nat] /\ \A x \in S : f[x] = g[x]
  BY BytesAssumption
<1>2. IsFiniteSet(S)
  BY FS_Subset
<1> HIDE DEF f, g
<1>3. Total(f) \in Nat /\ Total(g) \in Nat /\ Total(f) <= Total(g)
  BY <1>1, <1>2, TotalIsNat, TotalOfPart
<1> QED BY <1>3 DEF f, g, EnvelopesOf

(* The same for the nodes of their turns.                                  *)
LEMMA NodesMonotone ==
    ASSUME NEW T, IsFiniteSet(T), T \subseteq Responses, NEW S, S \subseteq T
    PROVE  NodesOf(S) \in Nat /\ NodesOf(T) \in Nat /\ NodesOf(S) <= NodesOf(T)
<1> DEFINE f == [r \in S |-> NodeBytes[r]]
           g == [r \in T |-> NodeBytes[r]]
<1>1. f \in [S -> Nat] /\ g \in [T -> Nat] /\ \A x \in S : f[x] = g[x]
  BY BytesAssumption
<1>2. IsFiniteSet(S)
  BY FS_Subset
<1> HIDE DEF f, g
<1>3. Total(f) \in Nat /\ Total(g) \in Nat /\ Total(f) <= Total(g)
  BY <1>1, <1>2, TotalIsNat, TotalOfPart
<1> QED BY <1>3 DEF f, g, NodesOf

(* Finitely many records reach finitely many nodes.                        *)
LEMMA NodesFinite ==
    ASSUME NEW S, IsFiniteSet(S), S \subseteq Responses, NEW ctx \in [Responses -> Seq(Responses)]
    PROVE  /\ IsFiniteSet(NodesReached(S, ctx)) /\ NodesReached(S, ctx) \subseteq Responses
           /\ NodesReached(S, ctx) = UNION {Range(ctx[r]) : r \in S}
<1> DEFINE all == {Range(ctx[r]) : r \in S}
           g == [r \in S |-> Range(ctx[r])]
<1>1. g \in Surjection(S, all)
  BY DEF Surjection
<1>2. IsFiniteSet(all)
  <2> HIDE DEF g, all
  <2> QED BY <1>1, FS_Surjection
<1>3. \A r \in S : IsFiniteSet(Range(ctx[r])) /\ Range(ctx[r]) \subseteq Responses
  BY RangeFinite
<1>4. \A T \in all : IsFiniteSet(T)
  BY <1>3
<1>5. IsFiniteSet(UNION all)
  <2> HIDE DEF all
  <2> QED BY <1>2, <1>4, FS_UNION
<1>6. NodesReached(S, ctx) = UNION all
  BY <1>3 DEF NodesReached
<1> QED BY <1>5, <1>6 DEF NodesReached

(* Fewer records occupy no more.                                           *)
LEMMA BytesMonotone ==
    ASSUME NEW T, IsFiniteSet(T), T \subseteq Responses, NEW S, S \subseteq T,
           NEW ctx \in [Responses -> Seq(Responses)]
    PROVE  BytesFor(S, ctx) \in Nat /\ BytesFor(T, ctx) \in Nat /\ BytesFor(S, ctx) <= BytesFor(T, ctx)
<1>1. IsFiniteSet(NodesReached(T, ctx)) /\ NodesReached(T, ctx) \subseteq Responses
  BY NodesFinite
<1>2. NodesReached(S, ctx) \subseteq NodesReached(T, ctx)
  BY DEF NodesReached
<1>3. /\ NodesOf(NodesReached(S, ctx)) \in Nat /\ NodesOf(NodesReached(T, ctx)) \in Nat
      /\ NodesOf(NodesReached(S, ctx)) <= NodesOf(NodesReached(T, ctx))
  BY <1>1, <1>2, NodesMonotone
<1>4. EnvelopesOf(S) \in Nat /\ EnvelopesOf(T) \in Nat /\ EnvelopesOf(S) <= EnvelopesOf(T)
  BY EnvelopesMonotone
<1> QED BY <1>3, <1>4 DEF BytesFor

(* recompute_bytes_locked counts what the listed records occupy.           *)
LEMMA RecomputedBytes ==
    ASSUME NEW ids \in Seq(Responses), context \in [Responses -> Seq(Responses)]
    PROVE  RecomputeBytes(ids) = BytesFor(Range(ids), context) /\ RecomputeBytes(ids) \in Nat
<1>1. IsFiniteSet(Range(ids)) /\ Range(ids) \subseteq Responses
  BY RangeFinite
<1>2. NodesReached(Range(ids), context) = UNION {Range(context[r]) : r \in Range(ids)}
  BY <1>1, NodesFinite
<1>3. BytesFor(Range(ids), context) \in Nat
  BY <1>1, BytesMonotone
<1> QED BY <1>2, <1>3 DEF RecomputeBytes, BytesFor

(* A record alone occupies its standalone size.                            *)
LEMMA BytesOfOne ==
    ASSUME NEW r \in Responses, context \in [Responses -> Seq(Responses)]
    PROVE  BytesFor({r}, context) = StandaloneBytes(r)
<1> DEFINE one == [x \in {r} |-> EnvelopeBytes[x]]
<1>1. DOMAIN one = {r} /\ one[r] = EnvelopeBytes[r] /\ EnvelopeBytes[r] \in Nat
  BY BytesAssumption
<1> HIDE DEF one
<1>2. Units(one) = {r} \X (1 .. EnvelopeBytes[r])
  BY <1>1 DEF Units
<1>3. Total(one) = EnvelopeBytes[r]
  BY <1>1, <1>2, UnitsOfOne DEF Total
<1>4. EnvelopesOf({r}) = EnvelopeBytes[r]
  BY <1>3 DEF EnvelopesOf, one
<1>5. NodesReached({r}, context) = Range(context[r])
  <2>1. Range(context[r]) \subseteq Responses
    BY RangeFinite
  <2> QED BY <2>1 DEF NodesReached
<1> QED BY <1>4, <1>5 DEF BytesFor, StandaloneBytes

-----------------------------------------------------------------------------
(* The place a record keeps is where its id is listed.                     *)
LEMMA PlaceOfListed ==
    ASSUME NEW ids \in Seq(Responses), NEW r \in Range(ids)
    PROVE  PlaceOf(ids, r) \in 1 .. Len(ids) /\ ids[PlaceOf(ids, r)] = r
<1>1. DOMAIN ids = 1 .. Len(ids)
  OBVIOUS
<1>2. \E i \in DOMAIN ids : ids[i] = r
  BY DEF Range
<1> QED BY <1>1, <1>2 DEF PlaceOf

(* A touched id comes to the front and the others keep their order.        *)
LEMMA TouchedList ==
    ASSUME NEW ids \in Seq(Responses), IsInjective(ids), NEW r \in Range(ids)
    PROVE  /\ Touched(ids, r) \in Seq(Responses) /\ Len(Touched(ids, r)) = Len(ids)
           /\ IsInjective(Touched(ids, r)) /\ Range(Touched(ids, r)) = Range(ids)
           /\ \A i, j \in 1 .. Len(ids) : i < j =>
                LET t == Touched(ids, r)
                IN  /\ t[j] # r
                    /\ \/ t[i] = r
                       \/ \E a, b \in 1 .. Len(ids) : a < b /\ t[i] = ids[a] /\ t[j] = ids[b]
<1> DEFINE p == PlaceOf(ids, r)
           t == Touched(ids, r)
<1>1. p \in 1 .. Len(ids) /\ ids[p] = r
  BY PlaceOfListed
<1>2. Len(ids) \in Nat /\ DOMAIN ids = 1 .. Len(ids)
  OBVIOUS
<1>3. t = <<ids[p]>> \o RemoveAt(ids, p)
  BY DEF Touched
<1> HIDE DEF p, t
<1>4. /\ t \in Seq(Responses) /\ Len(t) = Len(ids)
      /\ \A k \in 1 .. Len(ids) :
           t[k] = IF k = 1 THEN ids[p] ELSE IF k <= p THEN ids[k - 1] ELSE ids[k]
  BY <1>1, <1>3, MovedToFront
<1> DEFINE From(k) == IF k = 1 THEN p ELSE IF k <= p THEN k - 1 ELSE k
<1>5. ASSUME NEW k \in 1 .. Len(ids)
      PROVE  From(k) \in 1 .. Len(ids) /\ t[k] = ids[From(k)]
  BY <1>1, <1>2, <1>4
<1>6. ASSUME NEW i \in 1 .. Len(ids), NEW j \in 1 .. Len(ids), i < j
      PROVE  From(j) # p /\ (i = 1 \/ From(i) < From(j))
  BY <1>1, <1>2, <1>6
<1>7. \A a, b \in 1 .. Len(ids) : ids[a] = ids[b] => a = b
  BY <1>2 DEF IsInjective
<1>8. DOMAIN t = 1 .. Len(ids)
  BY <1>4
<1>9. IsInjective(t)
  <2>1. ASSUME NEW a \in 1 .. Len(ids), NEW b \in 1 .. Len(ids), a < b PROVE t[a] # t[b]
    <3>1. From(a) # From(b)
      BY <1>1, <1>2, <2>1
    <3> HIDE DEF From
    <3> QED BY <1>5, <1>7, <3>1
  <2>2. ASSUME NEW a \in 1 .. Len(ids), NEW b \in 1 .. Len(ids), t[a] = t[b] PROVE a = b
    <3>1. ~ (a < b) /\ ~ (b < a)
      BY <2>1, <2>2
    <3> QED BY <3>1
  <2> QED BY <1>8, <2>2 DEF IsInjective
<1>10. Range(t) = Range(ids)
  <2>1. Range(t) \subseteq Range(ids)
    <3> HIDE DEF From
    <3> QED BY <1>2, <1>5, <1>8 DEF Range
  <2>2. ASSUME NEW a \in 1 .. Len(ids) PROVE \E k \in 1 .. Len(ids) : From(k) = a
    <3>1. CASE a = p
      <4>1. 1 \in 1 .. Len(ids) /\ From(1) = a
        BY <1>1, <1>2, <3>1
      <4> QED BY <4>1
    <3>2. CASE a < p
      <4>1. a + 1 \in 1 .. Len(ids) /\ From(a + 1) = a
        BY <1>1, <1>2, <3>2
      <4> QED BY <4>1
    <3>3. CASE a > p
      <4>1. From(a) = a
        BY <1>1, <1>2, <3>3
      <4> QED BY <4>1
    <3> QED BY <1>1, <3>1, <3>2, <3>3
  <2>3. Range(ids) \subseteq Range(t)
    <3> HIDE DEF From
    <3> QED BY <1>2, <1>5, <1>8, <2>2 DEF Range
  <2> QED BY <2>1, <2>3
<1>11. ASSUME NEW i \in 1 .. Len(ids), NEW j \in 1 .. Len(ids), i < j
       PROVE  /\ t[j] # r
              /\ \/ t[i] = r
                 \/ \E a, b \in 1 .. Len(ids) : a < b /\ t[i] = ids[a] /\ t[j] = ids[b]
  <2>1. From(j) # p /\ (i = 1 \/ From(i) < From(j))
    BY <1>6, <1>11
  <2>2. i = 1 => t[i] = r
    BY <1>1, <1>4
  <2>3. /\ From(i) \in 1 .. Len(ids) /\ t[i] = ids[From(i)]
        /\ From(j) \in 1 .. Len(ids) /\ t[j] = ids[From(j)]
    BY <1>5
  <2> HIDE DEF From
  <2> QED BY <1>1, <1>7, <2>1, <2>2, <2>3
<1> QED BY <1>4, <1>9, <1>10, <1>11 DEF t

(* A deleted id leaves the list and the others keep their order.           *)
LEMMA DeletedList ==
    ASSUME NEW ids \in Seq(Responses), IsInjective(ids), NEW r \in Range(ids)
    PROVE  LET t == RemoveAt(ids, PlaceOf(ids, r))
           IN  /\ t \in Seq(Responses) /\ Len(t) = Len(ids) - 1
               /\ IsInjective(t) /\ Range(t) = Range(ids) \ {r}
               /\ \A i, j \in 1 .. Len(t) : i < j =>
                    \E a, b \in 1 .. Len(ids) : a < b /\ t[i] = ids[a] /\ t[j] = ids[b]
<1> DEFINE p == PlaceOf(ids, r)
           t == RemoveAt(ids, p)
           From(k) == IF k <= p - 1 THEN k ELSE k + 1
<1>1. p \in 1 .. Len(ids) /\ ids[p] = r
  BY PlaceOfListed
<1>2. Len(ids) \in Nat /\ DOMAIN ids = 1 .. Len(ids)
  OBVIOUS
<1> HIDE DEF p
<1>4. /\ t \in Seq(Responses) /\ Len(t) = Len(ids) - 1
      /\ \A k \in 1 .. (Len(ids) - 1) : t[k] = IF k <= p - 1 THEN ids[k] ELSE ids[k + 1]
  BY <1>1, EntryRemoved
<1> HIDE DEF t
<1>5. ASSUME NEW k \in 1 .. Len(t)
      PROVE  From(k) \in 1 .. Len(ids) /\ From(k) # p /\ t[k] = ids[From(k)]
  BY <1>1, <1>2, <1>4
<1>6. ASSUME NEW i \in 1 .. Len(t), NEW j \in 1 .. Len(t), i < j
      PROVE  From(i) < From(j)
  BY <1>1, <1>2, <1>4, <1>6
<1>7. \A a, b \in 1 .. Len(ids) : ids[a] = ids[b] => a = b
  BY <1>2 DEF IsInjective
<1>8. DOMAIN t = 1 .. Len(t) /\ Len(t) \in Nat
  BY <1>4
<1>9. ASSUME NEW i \in 1 .. Len(t), NEW j \in 1 .. Len(t), i < j
      PROVE  \E a, b \in 1 .. Len(ids) : a < b /\ t[i] = ids[a] /\ t[j] = ids[b]
  <2>1. From(i) < From(j)
    BY <1>6, <1>9
  <2> HIDE DEF From
  <2> QED BY <1>5, <2>1
<1>10. IsInjective(t)
  <2>1. ASSUME NEW a \in 1 .. Len(t), NEW b \in 1 .. Len(t), a < b PROVE t[a] # t[b]
    <3>1. PICK c \in 1 .. Len(ids), d \in 1 .. Len(ids) : c < d /\ t[a] = ids[c] /\ t[b] = ids[d]
      BY <1>9, <2>1
    <3>2. c # d
      BY <3>1
    <3> QED BY <1>7, <3>1, <3>2
  <2>2. ASSUME NEW a \in 1 .. Len(t), NEW b \in 1 .. Len(t), t[a] = t[b] PROVE a = b
    <3>1. ~ (a < b) /\ ~ (b < a)
      BY <2>1, <2>2
    <3> QED BY <1>8, <3>1
  <2> QED BY <1>8, <2>2 DEF IsInjective
<1>11. Range(t) = Range(ids) \ {r}
  <2>1. ASSUME NEW k \in 1 .. Len(t) PROVE t[k] \in Range(ids) \ {r}
    <3> HIDE DEF From
    <3> QED BY <1>1, <1>2, <1>5, <1>7 DEF Range
  <2>2. ASSUME NEW a \in 1 .. Len(ids), a # p PROVE \E k \in 1 .. Len(t) : From(k) = a
    <3>1. CASE a < p
      <4>1. a \in 1 .. Len(t) /\ From(a) = a
        BY <1>1, <1>2, <1>4, <3>1
      <4> QED BY <4>1
    <3>2. CASE a > p
      <4>1. a - 1 \in 1 .. Len(t) /\ From(a - 1) = a
        BY <1>1, <1>2, <1>4, <3>2
      <4> QED BY <4>1
    <3> QED BY <1>1, <2>2, <3>1, <3>2
  <2>3. ASSUME NEW a \in 1 .. Len(ids), ids[a] # r PROVE ids[a] \in Range(t)
    <3>1. a # p
      BY <1>1, <2>3
    <3>2. PICK k \in 1 .. Len(t) : From(k) = a
      BY <2>2, <3>1
    <3> HIDE DEF From
    <3>3. t[k] = ids[a]
      BY <1>5, <3>2
    <3> QED BY <1>8, <3>3 DEF Range
  <2> QED BY <1>2, <1>8, <2>1, <2>3 DEF Range
<1> QED BY <1>4, <1>9, <1>10, <1>11 DEF t, p

-----------------------------------------------------------------------------
(* The last use of a response that was used.                               *)
LEMMA LastUseFound ==
    ASSUME NEW u \in Seq(Responses), NEW r \in Range(u)
    PROVE  LET n == Max({i \in DOMAIN u : u[i] = r})
           IN  n \in 1 .. Len(u) /\ u[n] = r /\ \A i \in 1 .. Len(u) : u[i] = r => i <= n
<1> DEFINE G == {i \in DOMAIN u : u[i] = r}
<1>1. Len(u) \in Nat /\ DOMAIN u = 1 .. Len(u)
  OBVIOUS
<1>2. G \subseteq 0 .. Len(u) /\ G # {}
  BY <1>1 DEF Range
<1>3. \A i \in G : i \in 1 .. Len(u) /\ i \in Nat /\ u[i] = r
  BY <1>1
<1>4. \A i \in 1 .. Len(u) : u[i] = r => i \in G
  BY <1>1
<1> HIDE DEF G
<1>5. \E g \in G : \A h \in G : h <= g
  BY <1>1, <1>2, GreatestExists
<1>6. \E g \in G : \A h \in G : g >= h
  BY <1>3, <1>5
<1>7. Max(G) \in G /\ \A h \in G : Max(G) >= h
  BY <1>6 DEF Max
<1>8. /\ Max(G) \in 1 .. Len(u) /\ u[Max(G)] = r
      /\ \A i \in 1 .. Len(u) : u[i] = r => i <= Max(G)
  BY <1>3, <1>4, <1>7
<1> QED BY <1>8 DEF G

(* A use of r is its last one, and leaves the others' as they were.        *)
LEMMA LastUseAfter ==
    ASSUME NEW u \in Seq(Responses), NEW r \in Responses
    PROVE  LET After(x) == Max({i \in DOMAIN Append(u, r) : Append(u, r)[i] = x})
               Before(x) == Max({i \in DOMAIN u : u[i] = x})
           IN  /\ Append(u, r) \in Seq(Responses) /\ Range(Append(u, r)) = Range(u) \cup {r}
               /\ \A x \in Range(u) : x # r => After(x) = Before(x) /\ Before(x) \in Nat /\ Before(x) < After(r)
<1> DEFINE v == Append(u, r)
           After(x) == Max({i \in DOMAIN v : v[i] = x})
           Before(x) == Max({i \in DOMAIN u : u[i] = x})
<1>1. Len(u) \in Nat /\ DOMAIN u = 1 .. Len(u)
  OBVIOUS
<1>2. /\ v \in Seq(Responses) /\ Len(v) = Len(u) + 1 /\ v[Len(u) + 1] = r
      /\ \A i \in 1 .. Len(u) : v[i] = u[i]
  OBVIOUS
<1> HIDE DEF v
<1>3. DOMAIN v = 1 .. Len(u) + 1
  BY <1>1, <1>2
<1>4. Range(v) = Range(u) \cup {r}
  <2>1. Range(v) \subseteq Range(u) \cup {r}
    <3>1. ASSUME NEW i \in 1 .. Len(u) + 1 PROVE v[i] \in Range(u) \cup {r}
      <4>1. CASE i = Len(u) + 1
        BY <1>2, <4>1
      <4>2. CASE i \in 1 .. Len(u)
        BY <1>1, <1>2, <4>2 DEF Range
      <4> QED BY <1>1, <4>1, <4>2
    <3> QED BY <1>3, <3>1 DEF Range
  <2>2. Range(u) \subseteq Range(v)
    <3>1. ASSUME NEW i \in 1 .. Len(u) PROVE u[i] \in Range(v)
      <4>1. i \in DOMAIN v /\ v[i] = u[i]
        BY <1>1, <1>2, <1>3
      <4> QED BY <4>1 DEF Range
    <3> QED BY <1>1, <3>1 DEF Range
  <2>3. r \in Range(v)
    <3>1. Len(u) + 1 \in DOMAIN v
      BY <1>1, <1>3
    <3> QED BY <1>2, <3>1 DEF Range
  <2> QED BY <2>1, <2>2, <2>3
<1>5. ASSUME NEW x \in Range(v)
      PROVE  /\ After(x) \in 1 .. Len(u) + 1 /\ v[After(x)] = x
             /\ \A i \in 1 .. Len(u) + 1 : v[i] = x => i <= After(x)
  BY <1>2, LastUseFound
<1>6. ASSUME NEW x \in Range(u)
      PROVE  /\ Before(x) \in 1 .. Len(u) /\ u[Before(x)] = x
             /\ \A i \in 1 .. Len(u) : u[i] = x => i <= Before(x)
  BY LastUseFound
<1> HIDE DEF After, Before
<1>7. After(r) = Len(u) + 1
  <2>1. After(r) \in 1 .. Len(u) + 1 /\ Len(u) + 1 <= After(r)
    BY <1>1, <1>2, <1>4, <1>5
  <2> QED BY <1>1, <2>1
<1>8. ASSUME NEW x \in Range(u), x # r
      PROVE  After(x) = Before(x) /\ Before(x) \in Nat /\ Before(x) < After(r)
  <2>1. x \in Range(v)
    BY <1>4
  <2>2. After(x) # Len(u) + 1
    BY <1>2, <1>5, <1>8, <2>1
  <2>3. After(x) \in 1 .. Len(u) /\ u[After(x)] = x
    BY <1>1, <1>2, <1>5, <2>1, <2>2
  <2>4. Before(x) \in 1 .. Len(u) + 1 /\ v[Before(x)] = x
    BY <1>1, <1>2, <1>6
  <2>5. After(x) <= Before(x) /\ Before(x) <= After(x)
    BY <1>5, <1>6, <2>1, <2>3, <2>4
  <2> QED BY <1>1, <1>6, <1>7, <2>3, <2>5
<1> QED BY <1>2, <1>4, <1>8 DEF v, After, Before

(* The loop of put keeps the longest part of the list, newest first, that  *)
(* is within the limits, and at least the new record.                      *)
LEMMA EvictedList ==
    ASSUME NEW ids \in Seq(Responses), Len(ids) >= 1
    PROVE  \E n \in 1 .. Len(ids) :
             /\ EvictedUntilWithin(ids) = SubSeq(ids, 1, n)
             /\ n = 1 \/ WithinLimits(SubSeq(ids, 1, n))
             /\ \A m \in n + 1 .. Len(ids) : ~ WithinLimits(SubSeq(ids, 1, m))
<1> DEFINE Fits(n) == WithinLimits(SubSeq(ids, 1, n))
           G == {n \in 1 .. Len(ids) : n = 1 \/ Fits(n)}
<1>1. Len(ids) \in Nat
  OBVIOUS
<1> HIDE DEF Fits
<1>2. G \subseteq 0 .. Len(ids) /\ 1 \in G
  BY <1>1
<1>3. \A n \in G : n \in 1 .. Len(ids) /\ n \in Nat /\ (n = 1 \/ Fits(n))
  BY <1>1
<1>4. \A n \in 1 .. Len(ids) : n \notin G => ~ Fits(n)
  OBVIOUS
<1> HIDE DEF G
<1>5. \E g \in G : \A h \in G : h <= g
  BY <1>1, <1>2, GreatestExists
<1>6. \E g \in G : \A h \in G : g >= h
  BY <1>3, <1>5
<1>7. Max(G) \in G /\ \A h \in G : Max(G) >= h
  BY <1>6 DEF Max
<1>8. Max(G) \in 1 .. Len(ids) /\ (Max(G) = 1 \/ Fits(Max(G)))
  BY <1>3, <1>7
<1>9. ASSUME NEW m \in Max(G) + 1 .. Len(ids) PROVE ~ Fits(m)
  <2>1. m \in 1 .. Len(ids) /\ ~ (Max(G) >= m)
    BY <1>1, <1>8
  <2> QED BY <1>4, <1>7, <2>1
<1>10. EvictedUntilWithin(ids) = SubSeq(ids, 1, Max(G))
  BY DEF EvictedUntilWithin, G, Fits
<1> QED BY <1>8, <1>9, <1>10 DEF Fits

-----------------------------------------------------------------------------
Terminal == {"stored", "answered", "lost"}

(* The byte total as BytesFor states it.                                   *)
LEMMA LimitsRestated ==
    StoreWithinLimits <=>
      /\ TypeOK /\ Len(lru) <= MaxRecords /\ current_bytes <= MaxBytes
      /\ current_bytes = BytesFor(Stored, context)
BY DEF StoreWithinLimits, BytesFor, NodesReached

(* A step that lists the same records, leaves their contexts alone and     *)
(* puts nothing keeps the limits and the agreement of the stages.          *)
LEMMA SameRecordsKeep ==
    ASSUME StoreInv, TypeOK', Range(lru') = Range(lru), Len(lru') = Len(lru),
           UNCHANGED <<current_bytes, removed>>,
           \A x \in Stored : context'[x] = context[x],
           \A x \in Responses : stage[x] \in Terminal => stage'[x] \in Terminal,
           \A x \in Responses \ Unstored : stage'[x] \in Terminal => stage[x] \in Terminal
    PROVE  StoreWithinLimits' /\ StagesAgree'
<1>1. /\ TypeOK /\ Len(lru) <= MaxRecords /\ current_bytes <= MaxBytes
      /\ current_bytes = BytesFor(Stored, context)
  BY LimitsRestated DEF StoreInv
<1>2. Stored' = Stored
  BY DEF Stored
<1>3. NodesReached(Stored, context') = NodesReached(Stored, context)
  BY DEF NodesReached
<1>4. BytesFor(Stored, context') = BytesFor(Stored, context)
  BY <1>3 DEF BytesFor
<1>5. StoreWithinLimits'
  <2>1. current_bytes' = BytesFor(Stored, context')
    BY <1>1, <1>4
  <2>2. current_bytes' = EnvelopesOf(Stored')
                     + NodesOf({n \in Responses : \E r \in Stored' : n \in Range(context'[r])})
    BY <1>2, <2>1 DEF BytesFor, NodesReached
  <2> QED BY <1>1, <2>2 DEF StoreWithinLimits, EnvelopesOf, NodesOf
<1>6. StagesAgree'
  BY <1>2 DEF StoreInv, StagesAgree, Terminal
<1> QED BY <1>5, <1>6

(* The last uses after a step that uses r.                                 *)
LEMMA UsedLast ==
    ASSUME uses \in Seq(Responses), NEW r \in Responses, uses' = Append(uses, r)
    PROVE  LET After(x) == Max({i \in DOMAIN uses' : uses'[i] = x})
           IN  /\ uses' \in Seq(Responses) /\ Range(uses') = Range(uses) \cup {r}
               /\ \A x \in Range(uses) : x # r =>
                    After(x) = LastUse(x) /\ LastUse(x) \in Nat /\ LastUse(x) < After(r)
<1> DEFINE After(x) == Max({i \in DOMAIN uses' : uses'[i] = x})
           u == uses
           New(x) == Max({i \in DOMAIN Append(u, r) : Append(u, r)[i] = x})
           Old(x) == Max({i \in DOMAIN u : u[i] = x})
<1>1. u \in Seq(Responses)
  OBVIOUS
<1> HIDE DEF u
<1>2. /\ Append(u, r) \in Seq(Responses) /\ Range(Append(u, r)) = Range(u) \cup {r}
      /\ \A x \in Range(u) : x # r => New(x) = Old(x) /\ Old(x) \in Nat /\ Old(x) < New(r)
  BY <1>1, LastUseAfter
<1>3. uses' = Append(u, r) /\ uses = u
  BY DEF u
<1>4. \A x : New(x) = After(x) /\ Old(x) = LastUse(x)
  BY <1>3 DEF LastUse
<1> HIDE DEF New, Old, After
<1>5. /\ uses' \in Seq(Responses) /\ Range(uses') = Range(uses) \cup {r}
      /\ \A x \in Range(uses) : x # r =>
           After(x) = LastUse(x) /\ LastUse(x) \in Nat /\ LastUse(x) < After(r)
  BY <1>2, <1>3, <1>4
<1> QED BY <1>5 DEF After

(* A use of a stored record keeps the order by recency.                    *)
LEMMA TouchKeepsRecency ==
    ASSUME TypeOK, ListedByRecency, NEW q \in Stored, lru' = Touched(lru, q), Used(q)
    PROVE  ListedByRecency'
<1> DEFINE After(x) == Max({i \in DOMAIN uses' : uses'[i] = x})
<1>1. /\ lru \in Seq(Responses) /\ IsInjective(lru) /\ uses \in Seq(Responses)
      /\ q \in Range(lru) /\ q \in Responses
  <2>1. lru \in Seq(Responses) /\ IsInjective(lru) /\ uses \in Seq(Responses) /\ q \in Range(lru)
    BY DEF TypeOK, Stored
  <2> QED BY <2>1, RangeFinite
<1>2. uses' = Append(uses, q)
  BY DEF Used
<1>3. /\ lru' \in Seq(Responses) /\ Len(lru') = Len(lru) /\ Range(lru') = Range(lru)
      /\ \A i, j \in 1 .. Len(lru) : i < j =>
           /\ lru'[j] # q
           /\ \/ lru'[i] = q
              \/ \E a, b \in 1 .. Len(lru) : a < b /\ lru'[i] = lru[a] /\ lru'[j] = lru[b]
  BY <1>1, TouchedList
<1>4. /\ uses' \in Seq(Responses) /\ Range(uses') = Range(uses) \cup {q}
      /\ \A x \in Range(uses) : x # q =>
           After(x) = LastUse(x) /\ LastUse(x) \in Nat /\ LastUse(x) < After(q)
  BY <1>1, <1>2, UsedLast
<1> HIDE DEF After
<1>5. DOMAIN lru = 1 .. Len(lru) /\ DOMAIN lru' = 1 .. Len(lru)
  BY <1>1, <1>3
<1>6. \A i \in 1 .. Len(lru) : lru[i] \in Range(uses)
  BY <1>5 DEF ListedByRecency, Stored, Range
<1>7. Stored' \subseteq Range(uses')
  BY <1>3, <1>4 DEF ListedByRecency, Stored
<1>8. ASSUME NEW i \in 1 .. Len(lru), NEW j \in 1 .. Len(lru), i < j
      PROVE  After(lru'[j]) < After(lru'[i])
  <2>1. lru'[j] # q /\ lru'[j] \in Range(uses)
    <3>1. lru'[j] \in Range(lru')
      BY <1>5 DEF Range
    <3> QED BY <1>3, <1>8, <3>1 DEF ListedByRecency, Stored
  <2>2. After(lru'[j]) = LastUse(lru'[j]) /\ LastUse(lru'[j]) < After(q)
    BY <1>4, <2>1
  <2>3. CASE lru'[i] = q
    BY <2>2, <2>3
  <2>4. CASE lru'[i] # q
    <3>1. PICK a \in 1 .. Len(lru), b \in 1 .. Len(lru) :
            a < b /\ lru'[i] = lru[a] /\ lru'[j] = lru[b]
      BY <1>3, <1>8, <2>4
    <3>2. LastUse(lru[b]) < LastUse(lru[a])
      BY <1>5, <3>1 DEF ListedByRecency
    <3>3. After(lru'[i]) = LastUse(lru'[i])
      BY <1>4, <1>6, <2>4, <3>1
    <3> QED BY <2>2, <3>1, <3>2, <3>3
  <2> QED BY <2>3, <2>4
<1> QED BY <1>5, <1>7, <1>8 DEF ListedByRecency, LastUse, After

-----------------------------------------------------------------------------
(* What put leaves in the list: the new record, then the most recently     *)
(* used ones, as many as fit.                                              *)
LEMMA PutList ==
    ASSUME StoreInv, NEW r \in Responses, Put(r)
    PROVE  /\ r \notin Stored /\ WithinLimits(lru')
           /\ \E n \in 1 .. Len(lru) + 1 :
                /\ lru' \in Seq(Responses) /\ Len(lru') = n /\ lru'[1] = r
                /\ \A k \in 1 .. n - 1 : lru'[k + 1] = lru[k]
                /\ n <= Len(lru) => ~ WithinLimits(lru' \o <<lru[n]>>)
<1> DEFINE ids == <<r>> \o lru
<1>1. /\ lru \in Seq(Responses) /\ context \in [Responses -> Seq(Responses)] /\ Len(lru) \in Nat
      /\ MaxRecords \in Nat /\ MaxRecords >= 1 /\ MaxBytes \in Nat
  BY LimitsAssumption DEF StoreInv, StoreWithinLimits, TypeOK
<1>2. /\ ids \in Seq(Responses) /\ Len(ids) = Len(lru) + 1 /\ ids[1] = r
      /\ \A k \in 1 .. Len(lru) : ids[k + 1] = lru[k]
  BY <1>1, Prepended
<1>3. lru' = EvictedUntilWithin(ids)
  BY DEF Put
<1>4. StandaloneBytes(r) <= MaxBytes /\ r \notin Stored
  BY DEF Put, StoreInv, StagesAgree
<1> HIDE DEF ids
<1>5. PICK n \in 1 .. Len(ids) :
        /\ lru' = SubSeq(ids, 1, n)
        /\ n = 1 \/ WithinLimits(SubSeq(ids, 1, n))
        /\ \A m \in n + 1 .. Len(ids) : ~ WithinLimits(SubSeq(ids, 1, m))
  <2>1. Len(ids) >= 1
    BY <1>1, <1>2
  <2>2. \E n \in 1 .. Len(ids) :
          /\ EvictedUntilWithin(ids) = SubSeq(ids, 1, n)
          /\ n = 1 \/ WithinLimits(SubSeq(ids, 1, n))
          /\ \A m \in n + 1 .. Len(ids) : ~ WithinLimits(SubSeq(ids, 1, m))
    BY <1>2, <2>1, EvictedList
  <2> QED BY <1>3, <2>2
<1>6. n \in 1 .. Len(lru) + 1
  BY <1>2
<1>7. /\ lru' \in Seq(Responses) /\ Len(lru') = n
      /\ \A k \in 1 .. n : lru'[k] = ids[k]
  BY <1>1, <1>2, <1>5, <1>6
<1>8. lru'[1] = r /\ \A k \in 1 .. n - 1 : lru'[k + 1] = lru[k]
  <2>1. lru'[1] = r
    BY <1>1, <1>2, <1>6, <1>7
  <2>2. ASSUME NEW k \in 1 .. n - 1 PROVE lru'[k + 1] = lru[k]
    <3>1. k \in 1 .. Len(lru) /\ k + 1 \in 1 .. n
      BY <1>1, <1>6
    <3> QED BY <1>2, <1>7, <3>1
  <2> QED BY <2>1, <2>2
<1>9. WithinLimits(lru')
  <2>1. CASE n # 1
    BY <1>5, <2>1
  <2>2. CASE n = 1
    <3>1. DOMAIN lru' = 1 .. 1
      BY <1>7, <2>2
    <3>2. Range(lru') = {r}
      BY <1>8, <3>1 DEF Range
    <3>3. RecomputeBytes(lru') = BytesFor({r}, context)
      BY <1>1, <1>7, <3>2, RecomputedBytes
    <3>4. RecomputeBytes(lru') = StandaloneBytes(r)
      BY <1>1, <3>3, BytesOfOne
    <3> QED BY <1>1, <1>4, <1>7, <2>2, <3>4 DEF WithinLimits
  <2> QED BY <2>1, <2>2
<1>10. ASSUME n <= Len(lru) PROVE ~ WithinLimits(lru' \o <<lru[n]>>)
  <2> DEFINE s == lru' \o <<lru[n]>>
             t == SubSeq(ids, 1, n + 1)
  <2>1. n + 1 \in n + 1 .. Len(ids) /\ n \in 1 .. Len(lru) /\ n + 1 <= Len(ids)
    BY <1>1, <1>2, <1>6, <1>10
  <2>2. lru[n] \in Responses
    BY <1>1, <2>1, ElementOfSeq
  <2>3. <<lru[n]>> \in Seq(Responses) /\ Len(<<lru[n]>>) = 1 /\ <<lru[n]>>[1] = lru[n]
    BY <2>2
  <2> DEFINE o == <<lru[n]>>
  <2> HIDE DEF o
  <2>4. /\ lru' \o o \in Seq(Responses) /\ Len(lru' \o o) = Len(lru') + Len(o)
        /\ \A i \in 1 .. Len(lru') + Len(o) :
             (lru' \o o)[i] = IF i <= Len(lru') THEN lru'[i] ELSE o[i - Len(lru')]
    BY <1>7, <2>3, ConcatProperties, Zenon DEF o
  <2>5. /\ s \in Seq(Responses) /\ Len(s) = n + 1
        /\ \A i \in 1 .. n : s[i] = lru'[i]
        /\ s[n + 1] = lru[n]
    BY <1>6, <1>7, <2>3, <2>4 DEF o
  <2>6. t \in Seq(Responses) /\ Len(t) = n + 1 /\ \A i \in 1 .. n + 1 : t[i] = ids[i]
    BY <1>2, <1>6, <2>1
  <2>7. ASSUME NEW i \in 1 .. n + 1 PROVE s[i] = t[i]
    <3> HIDE DEF s, t
    <3>1. CASE i \in 1 .. n
      BY <1>7, <2>5, <2>6, <3>1
    <3>2. CASE i = n + 1
      BY <1>2, <2>1, <2>5, <2>6, <3>2
    <3> QED BY <1>6, <3>1, <3>2
  <2>8. s = t
    <3> HIDE DEF s, t
    <3> QED BY <2>5, <2>6, <2>7, SeqEqual
  <2> QED BY <1>5, <2>1, <2>8
<1> QED BY <1>4, <1>6, <1>7, <1>8, <1>9, <1>10

(* put keeps the invariant.                                                *)
LEMMA PutKeeps ==
    ASSUME StoreInv, NEW r \in Responses, Put(r)
    PROVE  StoreInv'
<1>1. PICK n \in 1 .. Len(lru) + 1 :
        /\ lru' \in Seq(Responses) /\ Len(lru') = n /\ lru'[1] = r
        /\ \A k \in 1 .. n - 1 : lru'[k + 1] = lru[k]
  BY PutList
<1>2. WithinLimits(lru') /\ r \notin Stored
  BY PutList
<1>3. /\ TypeOK /\ lru \in Seq(Responses) /\ Len(lru) \in Nat /\ uses \in Seq(Responses)
      /\ \A a, b \in 1 .. Len(lru) : lru[a] = lru[b] => a = b
      /\ context \in [Responses -> Seq(Responses)]
  BY DEF StoreInv, StoreWithinLimits, TypeOK, IsInjective
<1>4. DOMAIN lru = 1 .. Len(lru) /\ DOMAIN lru' = 1 .. n
  BY <1>1, <1>3
<1>5. ASSUME NEW k \in 1 .. n
      PROVE  \/ k = 1 /\ lru'[k] = r
             \/ k # 1 /\ k - 1 \in 1 .. Len(lru) /\ lru'[k] = lru[k - 1]
  <2>1. CASE k = 1
    BY <1>1, <2>1
  <2>2. CASE k # 1
    <3>1. k - 1 \in 1 .. n - 1 /\ k - 1 \in 1 .. Len(lru) /\ (k - 1) + 1 = k
      BY <1>1, <1>3, <2>2
    <3> QED BY <1>1, <2>2, <3>1
  <2> QED BY <2>1, <2>2
<1>6. \A k \in 1 .. Len(lru) : lru[k] \in Stored /\ lru[k] # r
  BY <1>2, <1>4 DEF Stored, Range
<1>7. IsInjective(lru')
  <2>1. ASSUME NEW a \in 1 .. n, NEW b \in 1 .. n, lru'[a] = lru'[b] PROVE a = b
    <3>1. CASE lru'[a] = r
      BY <1>5, <1>6, <2>1, <3>1
    <3>2. CASE lru'[a] # r
      <4>1. a - 1 \in 1 .. Len(lru) /\ lru'[a] = lru[a - 1]
        BY <1>5, <3>2
      <4>2. b - 1 \in 1 .. Len(lru) /\ lru'[b] = lru[b - 1]
        BY <1>5, <2>1, <3>2
      <4>3. a - 1 = b - 1
        BY <1>3, <2>1, <4>1, <4>2
      <4> QED BY <1>1, <4>3
    <3> QED BY <3>1, <3>2
  <2> QED BY <1>4, <2>1 DEF IsInjective
<1>8. RecomputeBytes(lru') = BytesFor(Range(lru'), context) /\ RecomputeBytes(lru') \in Nat
  BY <1>1, <1>3, RecomputedBytes
<1>9. UNCHANGED context /\ current_bytes' = RecomputeBytes(lru') /\ uses' = Append(uses, r)
  BY DEF Put, Used
<1>10. /\ stage' = [stage EXCEPT ![r] = "stored"]
       /\ removed' = removed \cup (Range(<<r>> \o lru) \ Range(lru'))
  BY DEF Put
<1>11. Range(<<r>> \o lru) = {r} \cup Range(lru)
  <2> DEFINE ids == <<r>> \o lru
  <2>1. /\ ids \in Seq(Responses) /\ Len(ids) = Len(lru) + 1 /\ ids[1] = r
        /\ \A k \in 1 .. Len(lru) : ids[k + 1] = lru[k]
    BY <1>3, Prepended
  <2> HIDE DEF ids
  <2>2. DOMAIN ids = 1 .. Len(lru) + 1
    BY <2>1
  <2>3. ASSUME NEW k \in 1 .. Len(lru) + 1 PROVE ids[k] \in {r} \cup Range(lru)
    <3>1. CASE k = 1
      BY <2>1, <3>1
    <3>2. CASE k # 1
      <4>1. k - 1 \in 1 .. Len(lru) /\ (k - 1) + 1 = k
        BY <1>3, <3>2
      <4>2. ids[k] = lru[k - 1]
        BY <2>1, <4>1
      <4> QED BY <1>4, <4>1, <4>2 DEF Range
    <3> QED BY <3>1, <3>2
  <2>4. ASSUME NEW k \in 1 .. Len(lru) PROVE lru[k] \in Range(ids)
    <3>1. k + 1 \in DOMAIN ids /\ ids[k + 1] = lru[k]
      BY <1>3, <2>1, <2>2
    <3> QED BY <3>1 DEF Range
  <2>5. r \in Range(ids)
    <3>1. 1 \in DOMAIN ids
      BY <1>3, <2>2
    <3> QED BY <2>1, <3>1 DEF Range
  <2>6. Range(ids) = {r} \cup Range(lru)
    <3>1. Range(ids) \subseteq {r} \cup Range(lru)
      BY <2>2, <2>3 DEF Range
    <3>2. Range(lru) \subseteq Range(ids)
      BY <1>4, <2>4 DEF Range
    <3> QED BY <2>5, <3>1, <3>2
  <2> QED BY <2>6 DEF ids
<1>12. TypeOK'
  <2>1. Range(lru) \subseteq Responses
    BY <1>3, RangeFinite
  <2>2. removed' \subseteq Responses
    BY <1>3, <1>10, <1>11, <2>1 DEF TypeOK
  <2>3. uses' \in Seq(Responses)
    BY <1>3, <1>9
  <2>4. stage' \in [Responses -> {"new", "generating", "stored", "answered", "lost", "failed"}]
    BY <1>3, <1>10 DEF TypeOK
  <2>5. current_bytes' \in Nat /\ context' \in [Responses -> Seq(Responses)]
    BY <1>3, <1>8, <1>9
  <2> QED BY <1>1, <1>7, <2>2, <2>3, <2>4, <2>5 DEF TypeOK
<1>13. StoreWithinLimits'
  <2>1. Len(lru') <= MaxRecords /\ current_bytes' <= MaxBytes
    BY <1>2, <1>9 DEF WithinLimits
  <2>2. current_bytes' = BytesFor(Range(lru'), context')
    BY <1>8, <1>9
  <2>3. current_bytes' = EnvelopesOf(Stored')
                     + NodesOf({x \in Responses : \E y \in Stored' : x \in Range(context'[y])})
    BY <2>2 DEF BytesFor, NodesReached, Stored
  <2> QED BY <1>12, <2>1, <2>3 DEF StoreWithinLimits, EnvelopesOf, NodesOf
<1>14. StagesAgree'
  <2>1. Stored' \subseteq {r} \cup Stored
    <3>1. \A k \in 1 .. n : lru'[k] \in {r} \cup Stored
      BY <1>5, <1>6
    <3> QED BY <1>4, <3>1 DEF Stored, Range
  <2>2. {r} \cup Stored \cup removed \subseteq Stored' \cup removed'
    BY <1>10, <1>11 DEF Stored
  <2>3. stage'[r] = "stored" /\ \A x \in Responses : x # r => stage'[x] = stage[x]
    BY <1>3, <1>10 DEF TypeOK
  <2> QED BY <2>1, <2>2, <2>3 DEF StagesAgree, StoreInv
<1>15. ListedByRecency'
  <2> DEFINE After(x) == Max({i \in DOMAIN uses' : uses'[i] = x})
  <2>1. /\ Range(uses') = Range(uses) \cup {r}
        /\ \A x \in Range(uses) : x # r =>
             After(x) = LastUse(x) /\ LastUse(x) \in Nat /\ LastUse(x) < After(r)
    BY <1>3, <1>9, UsedLast
  <2> HIDE DEF After
  <2>2. \A k \in 1 .. Len(lru) : lru[k] \in Range(uses) /\ lru[k] # r
    BY <1>6 DEF StoreInv, ListedByRecency
  <2>3. Stored' \subseteq Range(uses')
    <3>1. \A k \in 1 .. n : lru'[k] \in Range(uses')
      BY <1>5, <2>1, <2>2
    <3> QED BY <1>4, <3>1 DEF Stored, Range
  <2>4. ASSUME NEW i \in 1 .. n, NEW j \in 1 .. n, i < j PROVE After(lru'[j]) < After(lru'[i])
    <3>1. j # 1 /\ j - 1 \in 1 .. Len(lru) /\ lru'[j] = lru[j - 1]
      BY <1>5, <2>4
    <3>2. After(lru'[j]) = LastUse(lru'[j]) /\ LastUse(lru'[j]) < After(r)
      BY <2>1, <2>2, <3>1
    <3>3. CASE i = 1
      BY <1>1, <3>2, <3>3
    <3>4. CASE i # 1
      <4>1. i - 1 \in 1 .. Len(lru) /\ lru'[i] = lru[i - 1] /\ i - 1 < j - 1
        BY <1>5, <2>4, <3>4
      <4>2. LastUse(lru[j - 1]) < LastUse(lru[i - 1])
        BY <1>4, <3>1, <4>1 DEF StoreInv, ListedByRecency
      <4>3. After(lru'[i]) = LastUse(lru'[i])
        BY <2>1, <2>2, <4>1
      <4> QED BY <3>1, <3>2, <4>1, <4>2, <4>3
    <3> QED BY <3>3, <3>4
  <2> QED BY <1>4, <2>3, <2>4 DEF ListedByRecency, LastUse, After
<1> QED BY <1>13, <1>14, <1>15 DEF StoreInv

(* A step of a handler that puts, reads and deletes nothing keeps the      *)
(* invariant.                                                              *)
LEMMA HandlerKeeps ==
    ASSUME StoreInv, NEW r \in Responses,
           \/ StartFresh(r) \/ GenerationFails(r) \/ PutTooLarge(r) \/ Answer(r) \/ AnswerLost(r)
           \/ \E q \in Responses : ContinueUnknown(r, q)
    PROVE  StoreInv'
<1>1. TypeOK /\ ListedByRecency /\ StagesAgree
  BY DEF StoreInv, StoreWithinLimits
<1>2. UNCHANGED <<lru, current_bytes, uses, removed>>
  BY DEF StartFresh, GenerationFails, PutTooLarge, Answer, AnswerLost, ContinueUnknown
<1>3. /\ context' \in [Responses -> Seq(Responses)]
      /\ \A x \in Stored : context'[x] = context[x]
  <2>1. CASE StartFresh(r)
    <3>1. r \notin Stored /\ context' = [context EXCEPT ![r] = <<r>>]
      BY <1>1, <2>1 DEF StartFresh, StagesAgree
    <3>2. <<r>> \in Seq(Responses) /\ Stored \subseteq Responses
      BY <1>1, RangeFinite DEF TypeOK, Stored
    <3> QED BY <1>1, <3>1, <3>2 DEF TypeOK
  <2>2. CASE ~ StartFresh(r)
    <3>1. context' = context
      BY <2>2 DEF GenerationFails, PutTooLarge, Answer, AnswerLost, ContinueUnknown
    <3> QED BY <1>1, <3>1 DEF TypeOK
  <2> QED BY <2>1, <2>2
<1>4. /\ stage' \in [Responses -> {"new", "generating", "stored", "answered", "lost", "failed"}]
      /\ \A x \in Responses : stage[x] \in Terminal => stage'[x] \in Terminal
      /\ \A x \in Responses \ Unstored : stage'[x] \in Terminal => stage[x] \in Terminal
  <2>1. stage \in [Responses -> {"new", "generating", "stored", "answered", "lost", "failed"}]
    BY <1>1 DEF TypeOK
  <2>2. \E s \in {"generating", "answered", "lost", "failed"} :
          /\ stage' = [stage EXCEPT ![r] = s]
          /\ stage[r] \in Terminal => s \in Terminal
          /\ s \in Terminal /\ r \notin Unstored => stage[r] \in Terminal
    BY DEF StartFresh, GenerationFails, PutTooLarge, Answer, AnswerLost, ContinueUnknown, Terminal
  <2>3. PICK s \in {"generating", "answered", "lost", "failed"} :
          /\ stage' = [stage EXCEPT ![r] = s]
          /\ stage[r] \in Terminal => s \in Terminal
          /\ s \in Terminal /\ r \notin Unstored => stage[r] \in Terminal
    BY <2>2
  <2>4. stage'[r] = s /\ \A x \in Responses : x # r => stage'[x] = stage[x]
    BY <2>1, <2>3
  <2> QED BY <2>1, <2>3, <2>4
<1>5. TypeOK'
  BY <1>1, <1>2, <1>3, <1>4 DEF TypeOK
<1>6. StoreWithinLimits' /\ StagesAgree'
  <2>1. Range(lru') = Range(lru) /\ Len(lru') = Len(lru)
    BY <1>2
  <2> QED BY <1>2, <1>3, <1>4, <1>5, <2>1, SameRecordsKeep
<1>7. ListedByRecency'
  BY <1>1, <1>2 DEF ListedByRecency, Stored, LastUse
<1> QED BY <1>6, <1>7 DEF StoreInv

(* A continuation reads the record it continues and captures its context.  *)
LEMMA ContinueKeeps ==
    ASSUME StoreInv, NEW r \in Responses, NEW q \in Responses, Continue(r, q)
    PROVE  StoreInv'
<1>1. /\ TypeOK /\ ListedByRecency /\ StagesAgree
      /\ lru \in Seq(Responses) /\ IsInjective(lru) /\ uses \in Seq(Responses)
  BY DEF StoreInv, StoreWithinLimits, TypeOK
<1>2. /\ q \in Stored /\ q \in Range(lru) /\ lru' = Touched(lru, q) /\ Used(q)
      /\ uses' = Append(uses, q) /\ UNCHANGED <<current_bytes, removed>>
  BY DEF Continue, Used, Stored
<1>3. /\ lru' \in Seq(Responses) /\ Len(lru') = Len(lru)
      /\ IsInjective(lru') /\ Range(lru') = Range(lru)
  BY <1>1, <1>2, TouchedList
<1>4. /\ context' \in [Responses -> Seq(Responses)]
      /\ \A x \in Stored : context'[x] = context[x]
  <2>1. r \notin Stored /\ context' = [context EXCEPT ![r] = Append(context[q], r)]
    BY <1>1 DEF Continue, StagesAgree
  <2>2. Append(context[q], r) \in Seq(Responses) /\ Stored \subseteq Responses
    BY <1>1, RangeFinite DEF TypeOK, Stored
  <2> QED BY <1>1, <2>1, <2>2 DEF TypeOK
<1>5. /\ stage' \in [Responses -> {"new", "generating", "stored", "answered", "lost", "failed"}]
      /\ \A x \in Responses : stage[x] \in Terminal => stage'[x] \in Terminal
      /\ \A x \in Responses \ Unstored : stage'[x] \in Terminal => stage[x] \in Terminal
  BY <1>1 DEF Continue, TypeOK, Terminal
<1>6. uses' \in Seq(Responses)
  BY <1>1, <1>2
<1>7. TypeOK'
  BY <1>1, <1>2, <1>3, <1>4, <1>5, <1>6 DEF TypeOK
<1>8. StoreWithinLimits' /\ StagesAgree'
  BY <1>2, <1>3, <1>4, <1>5, <1>7, SameRecordsKeep
<1>9. ListedByRecency'
  BY <1>1, <1>2, TouchKeepsRecency
<1> QED BY <1>8, <1>9 DEF StoreInv

(* So does a retrieval.                                                    *)
LEMMA GetKeeps ==
    ASSUME StoreInv, NEW r \in Responses, Get(r)
    PROVE  StoreInv'
<1>1. /\ TypeOK /\ ListedByRecency /\ StagesAgree
      /\ lru \in Seq(Responses) /\ IsInjective(lru) /\ uses \in Seq(Responses)
  BY DEF StoreInv, StoreWithinLimits, TypeOK
<1>2. /\ r \in Stored /\ r \in Range(lru) /\ lru' = Touched(lru, r) /\ Used(r)
      /\ uses' = Append(uses, r) /\ UNCHANGED <<stage, context, current_bytes, removed>>
  BY DEF Get, Used, Stored
<1>3. /\ lru' \in Seq(Responses) /\ Len(lru') = Len(lru)
      /\ IsInjective(lru') /\ Range(lru') = Range(lru)
  BY <1>1, <1>2, TouchedList
<1>4. uses' \in Seq(Responses)
  BY <1>1, <1>2
<1>5. TypeOK'
  BY <1>1, <1>2, <1>3, <1>4 DEF TypeOK
<1>6. StoreWithinLimits' /\ StagesAgree'
  BY <1>2, <1>3, <1>5, SameRecordsKeep
<1>7. ListedByRecency'
  BY <1>1, <1>2, TouchKeepsRecency
<1> QED BY <1>6, <1>7 DEF StoreInv

(* A deletion gives back what no other record still reaches.               *)
LEMMA DeleteKeeps ==
    ASSUME StoreInv, NEW r \in Responses, Delete(r)
    PROVE  StoreInv'
<1>1. /\ TypeOK /\ ListedByRecency /\ StagesAgree
      /\ lru \in Seq(Responses) /\ IsInjective(lru) /\ uses \in Seq(Responses)
      /\ context \in [Responses -> Seq(Responses)] /\ Len(lru) \in Nat
      /\ Len(lru) <= MaxRecords /\ current_bytes <= MaxBytes
      /\ current_bytes = BytesFor(Range(lru), context)
      /\ MaxRecords \in Nat /\ MaxBytes \in Nat
  BY LimitsRestated, LimitsAssumption DEF StoreInv, TypeOK, Stored
<1>2. /\ r \in Range(lru) /\ lru' = RemoveAt(lru, PlaceOf(lru, r)) /\ removed' = removed \cup {r}
      /\ current_bytes' = RecomputeBytes(lru') /\ UNCHANGED <<stage, context, uses>>
  BY DEF Delete, Stored
<1>3. /\ lru' \in Seq(Responses) /\ Len(lru') = Len(lru) - 1
      /\ IsInjective(lru') /\ Range(lru') = Range(lru) \ {r}
      /\ \A i, j \in 1 .. Len(lru') : i < j =>
           \E a, b \in 1 .. Len(lru) : a < b /\ lru'[i] = lru[a] /\ lru'[j] = lru[b]
  <2> DEFINE t == RemoveAt(lru, PlaceOf(lru, r))
  <2>1. /\ t \in Seq(Responses) /\ Len(t) = Len(lru) - 1
        /\ IsInjective(t) /\ Range(t) = Range(lru) \ {r}
        /\ \A i, j \in 1 .. Len(t) : i < j =>
             \E a, b \in 1 .. Len(lru) : a < b /\ t[i] = lru[a] /\ t[j] = lru[b]
    BY <1>1, <1>2, DeletedList
  <2>2. lru' = t
    BY <1>2
  <2> HIDE DEF t
  <2> QED BY <2>1, <2>2
<1>4. RecomputeBytes(lru') = BytesFor(Range(lru'), context) /\ RecomputeBytes(lru') \in Nat
  BY <1>1, <1>3, RecomputedBytes
<1>5. /\ BytesFor(Range(lru'), context) <= BytesFor(Range(lru), context)
      /\ BytesFor(Range(lru), context) \in Nat
  <2>1. IsFiniteSet(Range(lru)) /\ Range(lru) \subseteq Responses
    BY <1>1, RangeFinite
  <2>2. Range(lru') \subseteq Range(lru)
    BY <1>3
  <2> QED BY <1>1, <2>1, <2>2, BytesMonotone
<1>6. TypeOK'
  BY <1>1, <1>2, <1>3, <1>4 DEF TypeOK
<1>7. StoreWithinLimits'
  <2>1. Len(lru') <= MaxRecords /\ current_bytes' <= MaxBytes
    BY <1>1, <1>2, <1>3, <1>4, <1>5
  <2>2. current_bytes' = BytesFor(Range(lru'), context')
    BY <1>2, <1>4
  <2>3. current_bytes' = EnvelopesOf(Stored')
                     + NodesOf({x \in Responses : \E y \in Stored' : x \in Range(context'[y])})
    BY <2>2 DEF BytesFor, NodesReached, Stored
  <2> QED BY <1>6, <2>1, <2>3 DEF StoreWithinLimits, EnvelopesOf, NodesOf
<1>8. StagesAgree'
  BY <1>1, <1>2, <1>3 DEF StagesAgree, Stored
<1>9. ListedByRecency'
  <2>1. DOMAIN lru = 1 .. Len(lru) /\ DOMAIN lru' = 1 .. Len(lru')
    BY <1>1, <1>3
  <2>2. Stored' \subseteq Range(uses')
    BY <1>1, <1>2, <1>3 DEF ListedByRecency, Stored
  <2>3. ASSUME NEW i \in 1 .. Len(lru'), NEW j \in 1 .. Len(lru'), i < j
        PROVE  LastUse(lru'[j]) < LastUse(lru'[i])
    <3>1. PICK a \in 1 .. Len(lru), b \in 1 .. Len(lru) :
            a < b /\ lru'[i] = lru[a] /\ lru'[j] = lru[b]
      BY <1>3, <2>3
    <3> QED BY <1>1, <2>1, <3>1 DEF ListedByRecency
  <2> QED BY <1>2, <2>1, <2>2, <2>3 DEF ListedByRecency, LastUse
<1> QED BY <1>7, <1>8, <1>9 DEF StoreInv

-----------------------------------------------------------------------------
(* The invariant holds initially.                                          *)
LEMMA InitStore == Init => StoreInv
<1> SUFFICES ASSUME Init PROVE StoreInv
  OBVIOUS
<1>1. lru = << >> /\ uses = << >> /\ current_bytes = 0 /\ Len(lru) = 0 /\ DOMAIN lru = {}
  BY DEF Init
<1>2. Stored = {}
  BY <1>1 DEF Stored, Range
<1>3. TypeOK
  BY <1>1 DEF Init, TypeOK, IsInjective
<1>4. EnvelopesOf({}) = 0 /\ NodesOf({}) = 0
  <2>1. Units([r \in {} |-> EnvelopeBytes[r]]) = {} /\ Units([r \in {} |-> NodeBytes[r]]) = {}
    BY DEF Units
  <2>2. Cardinality({}) = 0
    BY FS_EmptySet
  <2> QED BY <2>1, <2>2 DEF EnvelopesOf, NodesOf, Total
<1>5. NodesReached({}, context) = {}
  BY DEF NodesReached
<1>6. BytesFor(Stored, context) = 0
  BY <1>2, <1>4, <1>5 DEF BytesFor
<1>7. StoreWithinLimits
  BY <1>1, <1>3, <1>6, LimitsRestated, LimitsAssumption
<1>8. StagesAgree
  BY <1>2 DEF Init, StagesAgree
<1>9. ListedByRecency
  BY <1>1, <1>2 DEF ListedByRecency
<1> QED BY <1>7, <1>8, <1>9 DEF StoreInv

(* Every reachable state of the store satisfies the inductive invariant:   *)
(* the limits and the byte total, the stages of the handlers and the order *)
(* of the list by last use.                                                *)
THEOREM StoreInvariant == Spec => []StoreInv
<1>1. StoreInv /\ [Next]_vars => StoreInv'
  <2> SUFFICES ASSUME StoreInv, [Next]_vars PROVE StoreInv'
    OBVIOUS
  <2>1. CASE Next
    <3>1. PICK r \in Responses :
            \/ StartFresh(r)
            \/ \E q \in Responses \ {r} : Continue(r, q) \/ ContinueUnknown(r, q)
            \/ GenerationFails(r)
            \/ Put(r) \/ PutTooLarge(r)
            \/ Answer(r) \/ AnswerLost(r)
            \/ Get(r) \/ Delete(r)
      BY <2>1 DEF Next
    <3>2. CASE \E q \in Responses \ {r} : Continue(r, q)
      BY <3>2, ContinueKeeps
    <3>3. CASE Put(r)
      BY <3>3, PutKeeps
    <3>4. CASE Get(r)
      BY <3>4, GetKeeps
    <3>5. CASE Delete(r)
      BY <3>5, DeleteKeeps
    <3>6. CASE \/ StartFresh(r) \/ GenerationFails(r) \/ PutTooLarge(r) \/ Answer(r) \/ AnswerLost(r)
               \/ \E q \in Responses : ContinueUnknown(r, q)
      BY <3>6, HandlerKeeps
    <3> QED BY <3>1, <3>2, <3>3, <3>4, <3>5, <3>6
  <2>2. CASE UNCHANGED vars
    BY <2>2 DEF vars, StoreInv, StoreWithinLimits, TypeOK, StagesAgree, ListedByRecency, Stored, LastUse
  <2> QED BY <2>1, <2>2
<1> QED BY <1>1, InitStore, PTL DEF Spec

(* The record and byte limits of the store hold whenever its mutex is      *)
(* free, and current_bytes_ is what the stored records and the distinct    *)
(* context nodes they reach occupy, whatever was evicted or deleted.       *)
THEOREM LimitsHold == Spec => []StoreWithinLimits
<1>1. StoreInv => StoreWithinLimits
  BY DEF StoreInv
<1> QED BY <1>1, StoreInvariant, PTL

(* A storing response whose end the client has seen can be retrieved and   *)
(* continued until it is evicted or deleted.                               *)
THEOREM AnsweredStored == Spec => []AnsweredIsStored
<1>1. StoreInv => AnsweredIsStored
  BY DEF StoreInv, StagesAgree, AnsweredIsStored
<1> QED BY <1>1, StoreInvariant, PTL

(* put evicts by recency and by need: every victim was used before every   *)
(* record that stays, and the most recent victim would not have fitted.    *)
THEOREM EvictionByNeed == Spec => EvictsByNeedAndRecency
<1> DEFINE Evicts(r) ==
             stage[r] = "generating" /\ stage'[r] = "stored" =>
               LET victims == Stored \ Range(lru')
               IN  /\ \A v \in victims, k \in Stored \ victims : LastUse(v) < LastUse(k)
                   /\ victims # {} =>
                        LET v == CHOOSE x \in victims : \A y \in victims : LastUse(x) >= LastUse(y)
                        IN  ~ WithinLimits(lru' \o <<v>>)
<1>1. ASSUME StoreInv, [Next]_vars, NEW r \in Responses PROVE Evicts(r)
  <2> SUFFICES ASSUME stage[r] = "generating", stage'[r] = "stored" PROVE Evicts(r)!2
    OBVIOUS
  <2> DEFINE victims == Stored \ Range(lru')
             Newest(x) == \A y \in victims : LastUse(x) >= LastUse(y)
  <2>1. stage \in [Responses -> {"new", "generating", "stored", "answered", "lost", "failed"}]
    BY <1>1 DEF StoreInv, StoreWithinLimits, TypeOK
  <2>2. Put(r)
    BY <1>1, <2>1 DEF Next, vars, StartFresh, Continue, ContinueUnknown, GenerationFails, PutTooLarge,
                      Answer, AnswerLost, Get, Delete, Put
  <2>3. r \notin Stored
    BY <1>1, <2>2, PutList
  <2>4. PICK n \in 1 .. Len(lru) + 1 :
          /\ lru' \in Seq(Responses) /\ Len(lru') = n /\ lru'[1] = r
          /\ \A k \in 1 .. n - 1 : lru'[k + 1] = lru[k]
          /\ n <= Len(lru) => ~ WithinLimits(lru' \o <<lru[n]>>)
    BY <1>1, <2>2, PutList
  <2>5. /\ lru \in Seq(Responses) /\ Len(lru) \in Nat /\ DOMAIN lru = 1 .. Len(lru)
        /\ \A a, b \in 1 .. Len(lru) : lru[a] = lru[b] => a = b
        /\ uses \in Seq(Responses) /\ Stored \subseteq Range(uses)
        /\ \A a, b \in 1 .. Len(lru) : a < b => LastUse(lru[b]) < LastUse(lru[a])
    BY <1>1 DEF StoreInv, StoreWithinLimits, TypeOK, IsInjective, ListedByRecency
  <2>6. DOMAIN lru' = 1 .. n
    BY <2>4
  <2>7. \A k \in 1 .. Len(lru) : lru[k] \in Stored /\ lru[k] # r /\ LastUse(lru[k]) \in Nat
    <3>1. \A k \in 1 .. Len(lru) : lru[k] \in Stored /\ lru[k] # r
      BY <2>3, <2>5 DEF Stored, Range
    <3>2. \A x \in Stored : LastUse(x) \in Nat
      BY <2>5, LastUseFound DEF LastUse
    <3> QED BY <3>1, <3>2
  <2>8. ASSUME NEW k \in 1 .. Len(lru) PROVE lru[k] \in Range(lru') <=> k < n
    <3>1. ASSUME k < n PROVE lru[k] \in Range(lru')
      <4>1. k + 1 \in 1 .. n /\ lru'[k + 1] = lru[k]
        BY <2>4, <2>5, <3>1
      <4> QED BY <2>6, <4>1 DEF Range
    <3>2. ASSUME lru[k] \in Range(lru') PROVE k < n
      <4>1. PICK i \in 1 .. n : lru'[i] = lru[k]
        BY <2>6, <3>2 DEF Range
      <4>2. i # 1
        BY <2>4, <2>7, <4>1
      <4>3. i - 1 \in 1 .. n - 1 /\ i - 1 \in 1 .. Len(lru) /\ (i - 1) + 1 = i
        BY <2>4, <2>5, <4>2
      <4>4. lru[i - 1] = lru[k]
        BY <2>4, <4>1, <4>3
      <4>5. i - 1 = k
        BY <2>5, <4>3, <4>4
      <4> QED BY <2>4, <4>3, <4>5
    <3> QED BY <3>1, <3>2
  <2>9. \A x \in Stored : \E k \in 1 .. Len(lru) : x = lru[k]
    BY <2>5 DEF Stored, Range
  <2>10. \A x \in victims : \E k \in 1 .. Len(lru) : x = lru[k] /\ k >= n
    BY <2>4, <2>5, <2>8, <2>9
  <2>11. \A k \in 1 .. Len(lru) : k >= n => lru[k] \in victims
    BY <2>4, <2>5, <2>7, <2>8
  <2>12. ASSUME NEW v \in victims, NEW k \in Stored \ victims PROVE LastUse(v) < LastUse(k)
    <3>1. PICK b \in 1 .. Len(lru) : v = lru[b] /\ b >= n
      BY <2>10
    <3>2. PICK a \in 1 .. Len(lru) : k = lru[a]
      BY <2>9
    <3>3. a < n
      BY <2>8, <3>2
    <3>4. a < b
      BY <2>4, <2>5, <3>1, <3>3
    <3> QED BY <2>5, <3>1, <3>2, <3>4
  <2>13. ASSUME victims # {}
         PROVE  ~ WithinLimits(lru' \o <<CHOOSE x \in victims : Newest(x)>>)
    <3>1. n <= Len(lru) /\ n \in 1 .. Len(lru)
      BY <2>4, <2>5, <2>10, <2>13
    <3>2. lru[n] \in victims
      BY <2>4, <2>11, <3>1
    <3>3. Newest(lru[n])
      <4>1. ASSUME NEW y \in victims PROVE LastUse(lru[n]) >= LastUse(y)
        <5>1. PICK k \in 1 .. Len(lru) : y = lru[k] /\ k >= n
          BY <2>10
        <5>2. k = n \/ n < k
          BY <2>4, <2>5, <5>1
        <5> QED BY <2>5, <2>7, <3>1, <5>1, <5>2
      <4> QED BY <4>1
    <3>4. ASSUME NEW x \in victims, Newest(x) PROVE x = lru[n]
      <4>1. PICK k \in 1 .. Len(lru) : x = lru[k] /\ k >= n
        BY <2>10
      <4>2. LastUse(x) >= LastUse(lru[n])
        BY <3>2, <3>4
      <4>3. ~ (n < k)
        BY <2>5, <2>7, <3>1, <4>1, <4>2
      <4> QED BY <2>4, <2>5, <4>1, <4>3
    <3> HIDE DEF victims, Newest
    <3>5. (CHOOSE x \in victims : Newest(x)) = lru[n]
      BY <3>2, <3>3, <3>4
    <3> QED BY <2>4, <3>1, <3>5
  <2> QED BY <2>12, <2>13
<1>2. StoreInv /\ [Next]_vars => [\A r \in Responses : Evicts(r)]_vars
  BY <1>1
<1> QED BY <1>2, StoreInvariant, PTL DEF Spec, EvictsByNeedAndRecency
=============================================================================
