----------------------------- MODULE CommonLemmas -----------------------------
(***************************************************************************)
(* Facts that several proofs use: totals over any finite set, greatest     *)
(* elements, sequences.                                                    *)
(***************************************************************************)
EXTENDS Totals, SequencesExt, FiniteSetTheorems, FunctionTheorems, SequenceTheorems,
        WellFoundedInduction, TLAPS

(* The units of x are as many as f[x].                                     *)
LEMMA UnitsOfOne ==
    ASSUME NEW x, NEW n \in Nat
    PROVE  IsFiniteSet({x} \X (1 .. n)) /\ Cardinality({x} \X (1 .. n)) = n
<1> DEFINE one == {x}
           many == 1 .. n
<1>1. IsFiniteSet(one) /\ Cardinality(one) = 1
  BY FS_Singleton
<1>2. IsFiniteSet(many) /\ Cardinality(many) = n
  BY FS_Interval
<1> HIDE DEF one, many
<1>3. IsFiniteSet(one \X many) /\ Cardinality(one \X many) = Cardinality(one) * Cardinality(many)
  BY <1>1, <1>2, FS_Product
<1>4. IsFiniteSet(one \X many) /\ Cardinality(one \X many) = n
  BY <1>1, <1>2, <1>3
<1> QED BY <1>4 DEF one, many

(* A total over a finite set is a natural number.                          *)
LEMMA TotalIsNat ==
    ASSUME NEW S, IsFiniteSet(S), NEW f \in [S -> Nat]
    PROVE  IsFiniteSet(Units(f)) /\ Total(f) \in Nat
<1> DEFINE Of(x) == {x} \X (1 .. f[x])
           all == {Of(x) : x \in S}
           g == [x \in S |-> Of(x)]
<1>1. g \in Surjection(S, all)
  BY DEF Surjection
<1>2. IsFiniteSet(all)
  <2> HIDE DEF g, all
  <2> QED BY <1>1, FS_Surjection
<1>3. ASSUME NEW T \in all PROVE IsFiniteSet(T)
  <2>1. PICK x \in S : T = {x} \X (1 .. f[x])
    OBVIOUS
  <2>2. f[x] \in Nat
    OBVIOUS
  <2> QED BY <2>1, <2>2, UnitsOfOne
<1>4. IsFiniteSet(UNION all)
  <2> HIDE DEF all
  <2> QED BY <1>2, <1>3, FS_UNION
<1>5. Units(f) = UNION all
  BY DEF Units
<1> HIDE DEF all
<1> QED BY <1>4, <1>5, FS_CardinalityType DEF Total

(* One more element adds its own value.                                    *)
LEMMA TotalExtended ==
    ASSUME NEW S, IsFiniteSet(S), NEW f \in [S -> Nat], NEW x, x \notin S,
           NEW T, T = S \cup {x}, NEW g \in [T -> Nat], \A y \in S : g[y] = f[y]
    PROVE  Total(g) = Total(f) + g[x]
<1> DEFINE own == {x} \X (1 .. g[x])
           old == Units(f)
<1>1. Units(g) = old \cup own
  BY DEF Units
<1>2. old \cap own = {}
  BY DEF Units
<1>3. IsFiniteSet(old) /\ Total(f) \in Nat
  BY TotalIsNat
<1>4. g[x] \in Nat
  OBVIOUS
<1>5. IsFiniteSet(own) /\ Cardinality(own) = g[x]
  BY <1>4, UnitsOfOne
<1> HIDE DEF own, old
<1>6. Cardinality(old \cap own) = 0
  BY <1>2, FS_EmptySet
<1>7. Cardinality(old \cup own) = Cardinality(old) + Cardinality(own) - Cardinality(old \cap own)
  BY <1>3, <1>5, FS_Union
<1>8. Cardinality(old) = Total(f)
  BY DEF old, Total
<1>9. Cardinality(Units(g)) = Total(f) + g[x]
  BY <1>1, <1>3, <1>4, <1>5, <1>6, <1>7, <1>8
<1> QED BY <1>9 DEF Total

(* The same for all functions on the two sets.                             *)
LEMMA TotalAdds ==
    ASSUME NEW S, IsFiniteSet(S), NEW x, x \notin S
    PROVE  \A f \in [S -> Nat], g \in [S \cup {x} -> Nat] :
              (\A y \in S : g[y] = f[y]) => Total(g) = Total(f) + g[x]
<1> TAKE f \in [S -> Nat], g \in [S \cup {x} -> Nat]
<1> HAVE \A y \in S : g[y] = f[y]
<1> QED BY TotalExtended

(* The same for the values of a sequence that grows at its end.            *)
LEMMA TotalAppended ==
    ASSUME NEW n \in Nat, NEW f \in [1 .. n -> Nat], NEW g \in [1 .. (n + 1) -> Nat],
           \A i \in 1 .. n : g[i] = f[i]
    PROVE  Total(g) = Total(f) + g[n + 1]
<1> DEFINE own == {n + 1} \X (1 .. g[n + 1])
           old == Units(f)
<1>1. Units(g) = old \cup own
  BY DEF Units
<1>2. old \cap own = {}
  BY DEF Units
<1>3. IsFiniteSet(old) /\ Total(f) \in Nat
  <2>1. IsFiniteSet(1 .. n)
    BY FS_Interval
  <2> QED BY <2>1, TotalIsNat, Zenon
<1>4. g[n + 1] \in Nat
  OBVIOUS
<1>5. IsFiniteSet(own) /\ Cardinality(own) = g[n + 1]
  BY <1>4, UnitsOfOne
<1> HIDE DEF own, old
<1>6. Cardinality(old \cap own) = 0
  BY <1>2, FS_EmptySet
<1>7. Cardinality(old \cup own) = Cardinality(old) + Cardinality(own) - Cardinality(old \cap own)
  BY <1>3, <1>5, FS_Union
<1>8. Cardinality(old) = Total(f)
  BY DEF old, Total
<1>9. Cardinality(Units(g)) = Total(f) + g[n + 1]
  BY <1>1, <1>3, <1>4, <1>5, <1>6, <1>7, <1>8
<1> QED BY <1>9 DEF Total

(* No value exceeds the total.                                             *)
LEMMA ValueWithinTotal ==
    ASSUME NEW S, IsFiniteSet(S), NEW f \in [S -> Nat], NEW x \in S
    PROVE  f[x] <= Total(f)
<1> DEFINE own == {x} \X (1 .. f[x])
<1>1. own \subseteq Units(f)
  BY DEF Units
<1>2. IsFiniteSet(Units(f))
  BY TotalIsNat
<1>3. f[x] \in Nat
  OBVIOUS
<1>4. Cardinality(own) = f[x]
  BY <1>3, UnitsOfOne
<1> HIDE DEF own
<1> QED BY <1>1, <1>2, <1>4, FS_Subset DEF Total

(* A changed value changes the total by the difference.                    *)
LEMMA TotalChange ==
    ASSUME NEW S, IsFiniteSet(S), NEW f \in [S -> Nat], NEW x \in S, NEW n \in Nat
    PROVE  Total([f EXCEPT ![x] = n]) = Total(f) - f[x] + n
<1> DEFINE changed == [f EXCEPT ![x] = n]
           Own(k) == {x} \X (1 .. k)
           rest == {u \in Units(f) : u[1] # x}
<1>1. ASSUME NEW k \in Nat PROVE IsFiniteSet(Own(k)) /\ Cardinality(Own(k)) = k
  BY UnitsOfOne
<1>2. IsFiniteSet(rest) /\ Cardinality(rest) \in Nat
  BY TotalIsNat, FS_Subset, FS_CardinalityType
<1>3. ASSUME NEW k \in Nat
      PROVE  Cardinality(rest \cup Own(k)) = Cardinality(rest) + k
  <2>1. rest \cap Own(k) = {}
    OBVIOUS
  <2>2. Cardinality(rest \cap Own(k)) = 0
    BY <2>1, FS_EmptySet
  <2>3. IsFiniteSet(Own(k)) /\ Cardinality(Own(k)) = k
    BY <1>1
  <2> HIDE DEF rest, Own
  <2>4. Cardinality(rest \cup Own(k)) =
           Cardinality(rest) + Cardinality(Own(k)) - Cardinality(rest \cap Own(k))
    BY <2>3, <1>2, FS_Union
  <2> QED BY <2>2, <2>3, <2>4, <1>2
<1>4. Units(f) = rest \cup Own(f[x])
  BY DEF Units
<1>5. Units(changed) = rest \cup Own(n)
  <2>1. DOMAIN changed = S /\ changed[x] = n /\ \A m \in S : m # x => changed[m] = f[m]
    OBVIOUS
  <2>2. ASSUME NEW u \in Units(changed) PROVE u \in rest \cup Own(n)
    <3>1. PICK m \in S : u \in {m} \X (1 .. changed[m])
      BY DEF Units
    <3> HIDE DEF changed
    <3> QED BY <3>1, <2>1 DEF Units
  <2>3. ASSUME NEW u \in rest PROVE u \in Units(changed)
    <3>1. PICK m \in S : u \in {m} \X (1 .. f[m])
      BY DEF Units
    <3>2. m # x
      BY <3>1
    <3> HIDE DEF changed
    <3> QED BY <3>1, <3>2, <2>1 DEF Units
  <2>4. Own(n) \subseteq Units(changed)
    <3> HIDE DEF changed
    <3> QED BY <2>1 DEF Units
  <2> QED BY <2>2, <2>3, <2>4
<1> HIDE DEF rest, Own, changed
<1>6. f[x] \in Nat
  OBVIOUS
<1>7. Cardinality(Units(changed)) = Cardinality(rest) + n
  BY <1>3, <1>5
<1>8. Cardinality(Units(f)) = Cardinality(rest) + f[x]
  BY <1>3, <1>4, <1>6
<1>9. Cardinality(Units(changed)) = Cardinality(Units(f)) - f[x] + n
  BY <1>2, <1>6, <1>7, <1>8
<1> QED BY <1>9 DEF changed, Total

(* A total is no larger than one that it can be mapped into one to one.    *)
LEMMA TotalInjected ==
    ASSUME NEW S, NEW T, IsFiniteSet(T), NEW f \in [S -> Nat], NEW g \in [T -> Nat],
           NEW k \in [S -> T], \A x, y \in S : k[x] = k[y] => x = y,
           \A x \in S : f[x] <= g[k[x]]
    PROVE  Total(f) <= Total(g)
<1> DEFINE h == [u \in Units(f) |-> <<k[u[1]], u[2]>>]
<1>1. \A u \in Units(f) : u[1] \in S /\ u[2] \in 1 .. f[u[1]] /\ u = <<u[1], u[2]>>
  BY DEF Units
<1>2. \A y \in T, n \in Nat : n \in 1 .. g[y] => <<y, n>> \in Units(g)
  BY DEF Units
<1>3. ASSUME NEW u \in Units(f) PROVE <<k[u[1]], u[2]>> \in Units(g)
  <2>1. u[1] \in S /\ u[2] \in 1 .. f[u[1]] /\ f[u[1]] \in Nat
    BY <1>1
  <2>2. k[u[1]] \in T /\ g[k[u[1]]] \in Nat /\ f[u[1]] <= g[k[u[1]]]
    BY <2>1
  <2>3. u[2] \in 1 .. g[k[u[1]]]
    BY <2>1, <2>2
  <2> QED BY <1>2, <2>2, <2>3
<1>4. ASSUME NEW u \in Units(f), NEW v \in Units(f), <<k[u[1]], u[2]>> = <<k[v[1]], v[2]>>
      PROVE  u = v
  <2>1. k[u[1]] = k[v[1]] /\ u[2] = v[2]
    BY <1>4
  <2>2. u[1] = v[1]
    BY <1>1, <2>1
  <2> QED BY <1>1, <2>1, <2>2
<1>5. h \in Injection(Units(f), Units(g))
  BY <1>3, <1>4 DEF Injection, IsInjective
<1>6. IsFiniteSet(Units(g))
  BY TotalIsNat
<1> HIDE DEF h
<1> QED BY <1>5, <1>6, FS_Injection DEF Total

(* A part of the elements has no larger total.                             *)
LEMMA TotalOfPart ==
    ASSUME NEW S, NEW T, IsFiniteSet(T), S \subseteq T,
           NEW f \in [S -> Nat], NEW g \in [T -> Nat], \A x \in S : f[x] = g[x]
    PROVE  Total(f) <= Total(g)
<1> DEFINE k == [x \in S |-> x]
<1>1. k \in [S -> T] /\ \A x \in S : k[x] = x
  OBVIOUS
<1>2. \A x \in S : f[x] \in Nat /\ f[x] <= g[k[x]]
  BY <1>1
<1> HIDE DEF k
<1> QED BY <1>1, <1>2, TotalInjected

(* If everything counts, the total is at least the number of elements.     *)
LEMMA CountWithinTotal ==
    ASSUME NEW S, IsFiniteSet(S), NEW f \in [S -> Nat], \A x \in S : f[x] >= 1
    PROVE  Cardinality(S) <= Total(f)
<1> DEFINE h == [x \in S |-> <<x, 1>>]
<1>1. ASSUME NEW x \in S PROVE <<x, 1>> \in Units(f)
  <2>1. 1 \in 1 .. f[x]
    OBVIOUS
  <2> QED BY <2>1 DEF Units
<1>2. h \in Injection(S, Units(f))
  BY <1>1 DEF Injection, IsInjective
<1>3. IsFiniteSet(Units(f))
  BY TotalIsNat
<1> HIDE DEF h
<1> QED BY <1>2, <1>3, FS_Injection DEF Total

(* A bounded set of numbers that is not empty has a greatest element.      *)
LEMMA GreatestExists ==
    ASSUME NEW n \in Nat, NEW G, G \subseteq 0 .. n, G # {}
    PROVE  \E g \in G : \A h \in G : h <= g
<1> DEFINE below == {n - g : g \in G}
<1>1. below \subseteq Nat /\ below # {}
  <2>1. \A g \in G : n - g \in Nat
    OBVIOUS
  <2>2. PICK g \in G : TRUE
    OBVIOUS
  <2>3. n - g \in below
    OBVIOUS
  <2> QED BY <2>1, <2>3
<1>2. IsWellFoundedOn(OpToRel(<, Nat), Nat)
  BY NatLessThanWellFounded
<1> HIDE DEF below
<1>3. PICK m \in below : \A k \in below : ~ (<<k, m>> \in OpToRel(<, Nat))
  BY <1>1, <1>2, WFMin
<1>4. \A k \in below : ~ (k < m)
  BY <1>1, <1>3 DEF OpToRel
<1>5. PICK g \in G : m = n - g
  BY DEF below
<1>6. ASSUME NEW h \in G PROVE h <= g
  <2>1. n - h \in below /\ n - h \in Nat /\ h \in Nat /\ g \in Nat
    BY DEF below
  <2> QED BY <1>4, <1>5, <2>1
<1> QED BY <1>6

(* Min of a pair, as std::min computes it.                                 *)
LEMMA MinOfTwo ==
  ASSUME NEW a \in Int, NEW b \in Int
  PROVE  Min({a, b}) = IF a <= b THEN a ELSE b
<1>1. CASE a <= b
  BY <1>1 DEF Min
<1>2. CASE ~ (a <= b)
  BY <1>2 DEF Min
<1> QED BY <1>1, <1>2

(* Max of a pair, as std::max computes it.                                 *)
LEMMA MaxOfTwo ==
  ASSUME NEW a \in Int, NEW b \in Int
  PROVE  Max({a, b}) = IF a >= b THEN a ELSE b
<1>1. CASE a >= b
  BY <1>1 DEF Max
<1>2. CASE ~ (a >= b)
  BY <1>2 DEF Max
<1> QED BY <1>1, <1>2

(* Min of three numbers is one of them and below the others.               *)
LEMMA MinOfThree ==
  ASSUME NEW a \in Int, NEW b \in Int, NEW c \in Int
  PROVE  /\ Min({a, b, c}) \in {a, b, c}
         /\ Min({a, b, c}) <= a /\ Min({a, b, c}) <= b /\ Min({a, b, c}) <= c
<1>1. PICK x \in {a, b, c} : \A y \in {a, b, c} : x <= y
  <2>1. CASE a <= b /\ a <= c
    BY <2>1
  <2>2. CASE b <= a /\ b <= c
    BY <2>2
  <2>3. CASE c <= a /\ c <= b
    BY <2>3
  <2> QED BY <2>1, <2>2, <2>3
<1>2. Min({a, b, c}) \in {a, b, c} /\ \A y \in {a, b, c} : Min({a, b, c}) <= y
  BY <1>1, Zenon DEF Min
<1> QED BY <1>2

(* A set of numbers that is not empty has a least element, which Min is.   *)
LEMMA LeastExists ==
    ASSUME NEW G, G \subseteq Nat, G # {}
    PROVE  Min(G) \in G /\ \A h \in G : Min(G) <= h
<1>1. IsWellFoundedOn(OpToRel(<, Nat), Nat)
  BY NatLessThanWellFounded
<1>2. PICK m \in G : \A k \in G : ~ (<<k, m>> \in OpToRel(<, Nat))
  BY <1>1, WFMin
<1>3. \A k \in G : ~ (k < m)
  BY <1>2 DEF OpToRel
<1>4. \A k \in G : m <= k
  BY <1>3
<1> QED BY <1>4 DEF Min

(* Elements without a value do not count.                                  *)
LEMMA TotalSupport ==
    ASSUME NEW S, NEW T, S \subseteq T, NEW f \in [S -> Nat], NEW g \in [T -> Nat],
           \A x \in S : f[x] = g[x], \A x \in T \ S : g[x] = 0
    PROVE  Total(f) = Total(g)
<1>1. \A x \in T \ S : 1 .. g[x] = {}
  OBVIOUS
<1>2. Units(f) = Units(g)
  BY <1>1 DEF Units
<1> QED BY <1>2 DEF Total

(* The total of f, if outside x and S everything is 0.                     *)
LEMMA TotalReplaced ==
    ASSUME NEW T, IsFiniteSet(T), NEW x \in T, NEW S \in SUBSET (T \ {x}),
           NEW f \in [T -> Nat], NEW e \in [S -> Nat],
           \A y \in S : e[y] = f[y], \A y \in T \ (S \cup {x}) : f[y] = 0
    PROVE  Total(f) = Total(e) + f[x]
<1> DEFINE U == T \ {x}
           g == [y \in U |-> f[y]]
<1>1. g \in [U -> Nat] /\ \A y \in U : f[y] = g[y]
  OBVIOUS
<1>2. S \subseteq U /\ x \notin U /\ T = U \cup {x} /\ IsFiniteSet(U)
  BY FS_Subset
<1>3. (\A y \in S : e[y] = g[y]) /\ \A y \in U \ S : g[y] = 0
  OBVIOUS
<1> HIDE DEF U, g
<1>4. Total(f) = Total(g) + f[x]
  BY <1>1, <1>2, TotalExtended
<1>5. Total(e) = Total(g)
  BY <1>1, <1>2, <1>3, TotalSupport
<1> QED BY <1>4, <1>5

(* An element put in front of a sequence.                                  *)
LEMMA Prepended ==
    ASSUME NEW S, NEW x \in S, NEW c \in Seq(S)
    PROVE  /\ <<x>> \o c \in Seq(S) /\ Len(<<x>> \o c) = Len(c) + 1
           /\ (<<x>> \o c)[1] = x
           /\ \A k \in 1 .. Len(c) : (<<x>> \o c)[k + 1] = c[k]
<1>1. <<x>> \in Seq(S) /\ Len(<<x>>) = 1 /\ <<x>>[1] = x
  OBVIOUS
<1>2. Len(c) \in Nat
  OBVIOUS
<1> DEFINE d == <<x>>
<1> HIDE DEF d
<1>3. d \in Seq(S)
  BY <1>1 DEF d
<1>a. Len(d) = 1 /\ d[1] = x
  BY <1>1 DEF d
<1>4. /\ d \o c \in Seq(S) /\ Len(d \o c) = Len(d) + Len(c)
      /\ \A i \in 1 .. Len(d) + Len(c) : (d \o c)[i] = IF i <= Len(d) THEN d[i] ELSE c[i - Len(d)]
  BY <1>3, ConcatProperties, Zenon
<1>5. (d \o c)[1] = x
  BY <1>2, <1>a, <1>4
<1>6. ASSUME NEW k \in 1 .. Len(c) PROVE (d \o c)[k + 1] = c[k]
  <2>1. k + 1 \in 1 .. Len(d) + Len(c) /\ ~ (k + 1 <= Len(d)) /\ (k + 1) - Len(d) = k
    BY <1>2, <1>a
  <2>2. (d \o c)[k + 1] = c[(k + 1) - Len(d)]
    BY <2>1, <1>4, Zenon
  <2> QED BY <2>1, <2>2
<1>7. Len(d \o c) = Len(c) + 1
  BY <1>2, <1>4, <1>a
<1> QED BY <1>4, <1>5, <1>6, <1>7 DEF d

(* An entry taken out of a sequence.                                       *)
LEMMA EntryRemoved ==
    ASSUME NEW S, NEW s \in Seq(S), NEW i \in 1 .. Len(s)
    PROVE  /\ RemoveAt(s, i) \in Seq(S) /\ Len(RemoveAt(s, i)) = Len(s) - 1
           /\ \A k \in 1 .. (Len(s) - 1) :
                RemoveAt(s, i)[k] = IF k <= i - 1 THEN s[k] ELSE s[k + 1]
<1> DEFINE a == SubSeq(s, 1, i - 1)
           b == SubSeq(s, i + 1, Len(s))
           c == RemoveAt(s, i)
<1>1. /\ a \in Seq(S) /\ Len(a) = i - 1 /\ \A k \in 1 .. (i - 1) : a[k] = s[k]
      /\ b \in Seq(S) /\ Len(b) = Len(s) - i /\ \A k \in 1 .. (Len(s) - i) : b[k] = s[i + k]
  OBVIOUS
<1>2. c = a \o b
  BY DEF RemoveAt
<1> HIDE DEF a, b, c
<1>4. /\ c \in Seq(S) /\ Len(c) = Len(s) - 1
      /\ \A k \in 1 .. (Len(s) - 1) : c[k] = IF k <= i - 1 THEN s[k] ELSE s[k + 1]
  <2>1. a \in Seq(S) /\ b \in Seq(S) /\ Len(s) \in Nat
    BY <1>1
  <2>2. /\ c \in Seq(S) /\ Len(c) = Len(a) + Len(b)
        /\ \A k \in 1 .. Len(a) + Len(b) : c[k] = IF k <= Len(a) THEN a[k] ELSE b[k - Len(a)]
    BY <1>2, <2>1, ConcatProperties, Zenon
  <2>3. ASSUME NEW k \in 1 .. (Len(s) - 1) PROVE c[k] = IF k <= i - 1 THEN s[k] ELSE s[k + 1]
    <3>1. CASE k <= i - 1
      <4>1. k \in 1 .. Len(a) + Len(b) /\ k <= Len(a) /\ k \in 1 .. (i - 1)
        BY <1>1, <2>1, <3>1
      <4>2. c[k] = a[k]
        BY <2>2, <4>1
      <4>3. a[k] = s[k]
        BY <1>1, <4>1
      <4> QED BY <3>1, <4>2, <4>3
    <3>2. CASE ~ (k <= i - 1)
      <4>1. k \in 1 .. Len(a) + Len(b) /\ ~ (k <= Len(a)) /\ k - Len(a) \in 1 .. (Len(s) - i)
            /\ i + (k - Len(a)) = k + 1
        BY <1>1, <2>1, <3>2
      <4>2. c[k] = b[k - Len(a)]
        BY <2>2, <4>1
      <4>3. b[k - Len(a)] = s[i + (k - Len(a))]
        BY <1>1, <4>1
      <4> QED BY <3>2, <4>1, <4>2, <4>3
    <3> QED BY <3>1, <3>2
  <2> QED BY <1>1, <2>1, <2>2, <2>3
<1> QED BY <1>4 DEF c

(* An entry moved to the front of a sequence.                              *)
LEMMA MovedToFront ==
    ASSUME NEW S, NEW s \in Seq(S), NEW i \in 1 .. Len(s)
    PROVE  LET t == <<s[i]>> \o RemoveAt(s, i)
           IN  /\ t \in Seq(S) /\ Len(t) = Len(s)
               /\ \A k \in 1 .. Len(s) :
                    t[k] = IF k = 1 THEN s[i] ELSE IF k <= i THEN s[k - 1] ELSE s[k]
<1> DEFINE c == RemoveAt(s, i)
<1>3. s[i] \in S
  BY ElementOfSeq
<1>4. /\ c \in Seq(S) /\ Len(c) = Len(s) - 1
      /\ \A k \in 1 .. (Len(s) - 1) : c[k] = IF k <= i - 1 THEN s[k] ELSE s[k + 1]
  BY EntryRemoved
<1> HIDE DEF c
<1> DEFINE t == <<s[i]>> \o c
<1> HIDE DEF t
<1>5. t \in Seq(S) /\ Len(t) = Len(c) + 1 /\ t[1] = s[i] /\ \A k \in 1 .. Len(c) : t[k + 1] = c[k]
  BY <1>3, <1>4, Prepended DEF t
<1>6. Len(t) = Len(s) /\ \A k \in 2 .. Len(s) : t[k] = c[k - 1]
  <2>1. Len(t) = Len(s)
    BY <1>4, <1>5
  <2>2. ASSUME NEW k \in 2 .. Len(s) PROVE t[k] = c[k - 1]
    <3>1. k - 1 \in 1 .. Len(c) /\ (k - 1) + 1 = k
      BY <1>4
    <3> QED BY <1>5, <3>1
  <2> QED BY <2>1, <2>2
<1>7. ASSUME NEW k \in 1 .. Len(s)
      PROVE  t[k] = IF k = 1 THEN s[i] ELSE IF k <= i THEN s[k - 1] ELSE s[k]
  BY <1>4, <1>5, <1>6
<1> QED BY <1>5, <1>6, <1>7 DEF t, c

(* A sequence has finitely many entries.                                   *)
LEMMA RangeFinite ==
    ASSUME NEW S, NEW s \in Seq(S)
    PROVE  IsFiniteSet(Range(s)) /\ Range(s) \subseteq S
<1>1. DOMAIN s = 1 .. Len(s) /\ Len(s) \in Nat /\ \A i \in 1 .. Len(s) : s[i] \in S
  OBVIOUS
<1>2. IsFiniteSet(DOMAIN s)
  BY <1>1, FS_Interval
<1>3. s \in Surjection(DOMAIN s, Range(s))
  BY <1>1 DEF Surjection, Range
<1> QED BY <1>1, <1>2, <1>3, FS_Surjection DEF Range
=============================================================================
