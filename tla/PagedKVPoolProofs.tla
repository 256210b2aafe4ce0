--------------------------- MODULE PagedKVPoolProofs ---------------------------
(***************************************************************************)
(* The books of the paged KV pools, proved for every number of lanes and   *)
(* pages: counting lemmas, then what each kind of change (pages, promises, *)
(* rows) does to the books, then one step per operation.                   *)
(***************************************************************************)
EXTENDS PagedKVPool, CommonLemmas

-----------------------------------------------------------------------------
(* Counting.                                                               *)

(* The lanes are finitely many.                                            *)
LEMMA LanesFinite == IsFiniteSet(Lanes)
BY PoolAssumption

(* Where every page has one owner, the mapped units and the free pages     *)
(* together are the pages of the pool.                                     *)
LEMMA MappedAndFree ==
    ASSUME NEW held \in [Lanes -> Seq(Nat)], NEW free, NEW n \in Nat,
           OwnedOnce(free, held, 0 .. n - 1)
    PROVE  /\ free \subseteq 0 .. n - 1 /\ IsFiniteSet(free)
           /\ Cardinality(free) + Total(Lengths(held)) = n
           /\ Cardinality(free) \in Nat /\ Total(Lengths(held)) \in Nat
<1> DEFINE all == 0 .. n - 1
           U == Units(Lengths(held))
           mapped == all \ free
           f == [u \in U |-> held[u[1]][u[2]]]
<1>1. Lengths(held) \in [Lanes -> Nat]
  BY DEF Lengths
<1>2. IsFiniteSet(U) /\ Cardinality(U) \in Nat
  BY <1>1, LanesFinite, TotalIsNat DEF Total
<1>3. \A u \in U : u[1] \in Lanes /\ u[2] \in 1 .. Len(held[u[1]])
  BY DEF Units, Lengths
<1>4. \A m \in Lanes, i \in Nat : i \in 1 .. Len(held[m]) => <<m, i>> \in U
  BY DEF Units, Lengths
<1>5. \A u \in U : u = <<u[1], u[2]>>
  BY DEF Units
<1>6. f \in Bijection(U, mapped)
  <2>1. \A u \in U : held[u[1]][u[2]] \in PagesOf(held[u[1]])
    BY <1>3 DEF PagesOf
  <2>2. ASSUME NEW u \in U PROVE held[u[1]][u[2]] \in mapped
    BY <1>3, <2>1 DEF OwnedOnce
  <2>3. ASSUME NEW u \in U, NEW v \in U, held[u[1]][u[2]] = held[v[1]][v[2]]
        PROVE  u = v
    <3>1. u[1] = v[1]
      BY <1>3, <2>1, <2>3 DEF OwnedOnce
    <3>2. u[2] = v[2]
      BY <1>3, <2>3, <3>1 DEF OwnedOnce
    <3> QED BY <3>1, <3>2, <1>5
  <2>4. ASSUME NEW x \in mapped PROVE \E u \in U : held[u[1]][u[2]] = x
    <3>1. PICK m \in Lanes : x \in PagesOf(held[m])
      BY DEF OwnedOnce
    <3>2. PICK i \in 1 .. Len(held[m]) : x = held[m][i]
      BY <3>1 DEF PagesOf
    <3>3. <<m, i>> \in U
      BY <3>2, <1>4
    <3> QED BY <3>2, <3>3
  <2> HIDE DEF U, mapped
  <2> QED BY <2>2, <2>3, <2>4 DEF Bijection, Injection, Surjection, IsInjective
<1>7. Cardinality(mapped) = Cardinality(U)
  <2> HIDE DEF U, mapped, f
  <2> QED BY <1>2, <1>6, FS_Bijection DEF ExistsBijection
<1>8. IsFiniteSet(all) /\ Cardinality(all) = n
  BY FS_Interval
<1>9. free \subseteq all
  BY DEF OwnedOnce
<1>10. IsFiniteSet(free) /\ Cardinality(free) \in Nat
  BY <1>8, <1>9, FS_Subset, FS_CardinalityType
<1>11. Cardinality(mapped) = Cardinality(all) - Cardinality(free)
  <2>1. all \cap free = free
    BY <1>9
  <2> HIDE DEF all
  <2> QED BY <2>1, <1>8, FS_Difference
<1> QED
  <2> HIDE DEF U
  <2>1. Cardinality(U) = n - Cardinality(free)
    BY <1>7, <1>8, <1>11
  <2> QED BY <2>1, <1>2, <1>9, <1>10 DEF U, Total

-----------------------------------------------------------------------------
(* Pages change hands.                                                     *)

(* trim_pages and return_pages lose and share nothing.                     *)
LEMMA TrimKeepsOwnedOnce ==
    ASSUME NEW held \in [Lanes -> Seq(Nat)], NEW free, NEW all, OwnedOnce(free, held, all),
           NEW l \in Lanes, NEW n \in 0 .. Len(held[l])
    PROVE  LET kept == SubSeq(held[l], 1, n)
           IN  /\ kept \in Seq(Nat) /\ Len(kept) = n
               /\ OwnedOnce(free \cup (PagesOf(held[l]) \ PagesOf(kept)),
                            [held EXCEPT ![l] = kept], all)
<1> DEFINE kept == SubSeq(held[l], 1, n)
           cut == PagesOf(held[l]) \ PagesOf(kept)
           after == [held EXCEPT ![l] = kept]
<1>1. kept \in Seq(Nat) /\ Len(kept) = n /\ \A i \in 1 .. n : kept[i] = held[l][i]
  <2>1. held[l] \in Seq(Nat) /\ n \in Nat /\ n <= Len(held[l]) /\ Len(held[l]) \in Nat
    OBVIOUS
  <2>2. \A i \in 1 .. n : held[l][i] \in Nat
    BY <2>1, ElementOfSeq
  <2> QED BY <2>1, <2>2, SubSeqProperties
<1>2. PagesOf(kept) \subseteq PagesOf(held[l])
  <2> HIDE DEF kept
  <2> QED BY <1>1 DEF PagesOf
<1>3. after[l] = kept /\ \A m \in Lanes : m # l => after[m] = held[m]
  OBVIOUS
<1> HIDE DEF kept, after
<1>4. (free \cup cut) \cup UNION {PagesOf(after[m]) : m \in Lanes} = all
  <2>1. ASSUME NEW x \in all PROVE x \in (free \cup cut) \cup UNION {PagesOf(after[m]) : m \in Lanes}
    <3>1. CASE x \in free
      BY <3>1
    <3>2. CASE x \notin free
      <4>1. PICK m \in Lanes : x \in PagesOf(held[m])
        BY <3>2 DEF OwnedOnce
      <4> QED BY <4>1, <1>3
    <3> QED BY <3>1, <3>2
  <2>2. free \cup cut \subseteq all /\ \A m \in Lanes : PagesOf(held[m]) \subseteq all
    BY DEF OwnedOnce
  <2>3. ASSUME NEW m \in Lanes PROVE PagesOf(after[m]) \subseteq all
    BY <2>2, <1>2, <1>3
  <2> QED BY <2>1, <2>2, <2>3
<1>5. ASSUME NEW m \in Lanes PROVE PagesOf(after[m]) \cap (free \cup cut) = {}
  BY <1>2, <1>3 DEF OwnedOnce
<1>6. ASSUME NEW m \in Lanes, NEW k \in Lanes, m # k
      PROVE  PagesOf(after[m]) \cap PagesOf(after[k]) = {}
  BY <1>2, <1>3, <1>6 DEF OwnedOnce
<1>7. ASSUME NEW m \in Lanes, NEW i \in 1 .. Len(after[m]), NEW j \in 1 .. Len(after[m]),
             after[m][i] = after[m][j]
      PROVE  i = j
  <2>1. CASE m = l
    <3>1. i \in 1 .. n /\ j \in 1 .. n /\ held[l][i] = held[l][j]
      BY <2>1, <1>1, <1>3, <1>7
    <3>2. i \in 1 .. Len(held[l]) /\ j \in 1 .. Len(held[l])
      BY <3>1
    <3> QED BY <3>1, <3>2 DEF OwnedOnce
  <2>2. CASE m # l
    BY <2>2, <1>3, <1>7 DEF OwnedOnce
  <2> QED BY <2>1, <2>2
<1> QED BY <1>1, <1>4, <1>5, <1>6, <1>7 DEF OwnedOnce, kept, after

(* take_pages: ascending pages that were free are appended.                *)
LEMMA TakeKeepsOwnedOnce ==
    ASSUME NEW held \in [Lanes -> Seq(Nat)], NEW free \in SUBSET Nat, NEW all,
           OwnedOnce(free, held, all), NEW l \in Lanes, NEW n \in Nat,
           NEW acquired \in [1 .. n -> free],
           \A i, j \in 1 .. n : i < j => acquired[i] < acquired[j]
    PROVE  /\ Len(acquired) = n
           /\ held[l] \o acquired \in Seq(Nat) /\ Len(held[l] \o acquired) = Len(held[l]) + n
           /\ OwnedOnce(free \ PagesOf(acquired), [held EXCEPT ![l] = held[l] \o acquired], all)
<1> DEFINE s == held[l]
           more == s \o acquired
           after == [held EXCEPT ![l] = more]
<1>1. acquired \in Seq(Nat) /\ Len(acquired) = n
  <2>1. acquired \in [1 .. n -> Nat]
    OBVIOUS
  <2> QED BY <2>1, SeqDef, LenProperties
<1>2. s \in Seq(Nat) /\ Len(s) \in Nat
  OBVIOUS
<1>3. /\ more \in Seq(Nat) /\ Len(more) = Len(s) + n
      /\ \A i \in 1 .. Len(s) + n : more[i] = IF i <= Len(s) THEN s[i] ELSE acquired[i - Len(s)]
  BY <1>1, <1>2, ConcatProperties
<1>4. after[l] = more /\ \A m \in Lanes : m # l => after[m] = held[m]
  OBVIOUS
<1>5. PagesOf(acquired) \subseteq free
  BY <1>1 DEF PagesOf
<1> HIDE DEF more, after
<1>6. PagesOf(more) = PagesOf(s) \cup PagesOf(acquired)
  <2>1. ASSUME NEW i \in 1 .. Len(more) PROVE more[i] \in PagesOf(s) \cup PagesOf(acquired)
    <3>1. CASE i <= Len(s)
      BY <3>1, <1>2, <1>3 DEF PagesOf
    <3>2. CASE i > Len(s)
      <4>1. i - Len(s) \in 1 .. n /\ more[i] = acquired[i - Len(s)]
        BY <3>2, <1>2, <1>3
      <4> QED BY <4>1, <1>1 DEF PagesOf
    <3> QED BY <3>1, <3>2, <1>2
  <2>2. ASSUME NEW i \in 1 .. Len(s) PROVE s[i] \in PagesOf(more)
    <3>1. i \in 1 .. Len(more) /\ more[i] = s[i]
      BY <1>2, <1>3
    <3> QED BY <3>1 DEF PagesOf
  <2>3. ASSUME NEW i \in 1 .. n PROVE acquired[i] \in PagesOf(more)
    <3>1. PICK k \in 1 .. Len(s) + n : k = i + Len(s)
      BY <1>2
    <3>2. k - Len(s) = i /\ ~ (k <= Len(s))
      BY <3>1, <1>2
    <3>3. k \in 1 .. Len(more) /\ more[k] = acquired[i]
      BY <3>2, <1>2, <1>3
    <3> QED BY <3>3 DEF PagesOf
  <2> QED BY <2>1, <2>2, <2>3, <1>1 DEF PagesOf
<1>7. (free \ PagesOf(acquired)) \cup UNION {PagesOf(after[m]) : m \in Lanes} = all
  <2>1. ASSUME NEW x \in all
        PROVE  x \in (free \ PagesOf(acquired)) \cup UNION {PagesOf(after[m]) : m \in Lanes}
    <3>1. CASE x \in free
      BY <3>1, <1>4, <1>6
    <3>2. CASE x \notin free
      <4>1. PICK m \in Lanes : x \in PagesOf(held[m])
        BY <3>2 DEF OwnedOnce
      <4> QED BY <4>1, <1>4, <1>6
    <3> QED BY <3>1, <3>2
  <2>2. free \subseteq all /\ \A m \in Lanes : PagesOf(held[m]) \subseteq all
    BY DEF OwnedOnce
  <2>3. ASSUME NEW m \in Lanes PROVE PagesOf(after[m]) \subseteq all
    <3>1. CASE m = l
      BY <3>1, <2>2, <1>4, <1>5, <1>6
    <3>2. CASE m # l
      BY <3>2, <2>2, <1>4
    <3> QED BY <3>1, <3>2
  <2> QED BY <2>1, <2>2, <2>3
<1>8. ASSUME NEW m \in Lanes PROVE PagesOf(after[m]) \cap (free \ PagesOf(acquired)) = {}
  BY <1>4, <1>6 DEF OwnedOnce
<1>9. ASSUME NEW m \in Lanes, NEW k \in Lanes, m # k
      PROVE  PagesOf(after[m]) \cap PagesOf(after[k]) = {}
  BY <1>4, <1>5, <1>6, <1>9 DEF OwnedOnce
<1>10. ASSUME NEW i \in 1 .. n, NEW j \in 1 .. n, acquired[i] = acquired[j] PROVE i = j
  <2>1. acquired[i] \in Nat
    OBVIOUS
  <2> QED BY <1>10, <2>1
<1>11. \A i \in 1 .. Len(s) : s[i] \notin free
  BY DEF OwnedOnce, PagesOf
<1>12. ASSUME NEW i \in 1 .. Len(more), NEW j \in 1 .. Len(more), more[i] = more[j] PROVE i = j
  <2>1. CASE i <= Len(s) /\ j <= Len(s)
    <3>1. i \in 1 .. Len(s) /\ j \in 1 .. Len(s) /\ s[i] = s[j]
      BY <2>1, <1>2, <1>3, <1>12
    <3> QED BY <3>1 DEF OwnedOnce
  <2>2. CASE i > Len(s) /\ j > Len(s)
    <3>1. /\ i - Len(s) \in 1 .. n /\ j - Len(s) \in 1 .. n
          /\ acquired[i - Len(s)] = acquired[j - Len(s)]
      BY <2>2, <1>2, <1>3, <1>12
    <3>2. i - Len(s) = j - Len(s)
      BY <3>1, <1>10
    <3> QED BY <3>2, <1>2, <1>3
  <2>3. ASSUME NEW a \in 1 .. Len(more), NEW b \in 1 .. Len(more), a <= Len(s), b > Len(s)
        PROVE  more[a] # more[b]
    <3>1. a \in 1 .. Len(s) /\ b - Len(s) \in 1 .. n /\ more[a] = s[a] /\ more[b] = acquired[b - Len(s)]
      BY <2>3, <1>2, <1>3
    <3>2. acquired[b - Len(s)] \in free
      BY <3>1
    <3> QED BY <3>1, <3>2, <1>11
  <2>4. (i <= Len(s) \/ i > Len(s)) /\ (j <= Len(s) \/ j > Len(s))
    BY <1>2, <1>3
  <2> QED BY <2>1, <2>2, <2>3, <2>4, <1>12
<1>13. ASSUME NEW m \in Lanes, NEW i \in 1 .. Len(after[m]), NEW j \in 1 .. Len(after[m]),
              after[m][i] = after[m][j]
       PROVE  i = j
  BY <1>4, <1>12, <1>13 DEF OwnedOnce
<1> QED BY <1>1, <1>3, <1>7, <1>8, <1>9, <1>13 DEF OwnedOnce, more, after

(* take_pages selects free pages, whichever of its three ways it goes.     *)
LEMMA SelectedAreFree ==
    ASSUME NEW p \in Pools, NEW count \in Nat, NEW preferred, free_page_ids[p] \subseteq Nat
    PROVE  SelectedPages(p, count, preferred) \subseteq free_page_ids[p]
<1> DEFINE runs == {b \in free_page_ids[p] : RunAt(p, b, count)}
           Least(b) == b \in runs /\ \A c \in runs : b <= c
<1>1. CASE preferred \in runs
  BY <1>1 DEF SelectedPages, RunAt
<1>2. CASE preferred \notin runs /\ runs # {}
  <2>1. \E b \in runs : \A c \in runs : b <= c
    <3>1. IsWellFoundedOn(OpToRel(<, Nat), Nat)
      BY NatLessThanWellFounded
    <3>2. runs \subseteq Nat
      OBVIOUS
    <3> HIDE DEF runs
    <3>3. PICK b \in runs : \A c \in runs : ~ (<<c, b>> \in OpToRel(<, Nat))
      BY <1>2, <3>1, <3>2, WFMin
    <3>4. \A c \in runs : ~ (c < b)
      BY <3>2, <3>3 DEF OpToRel
    <3> QED BY <3>2, <3>4
  <2>2. (CHOOSE b \in runs : \A c \in runs : b <= c) \in runs
    BY <2>1
  <2> QED BY <1>2, <2>2 DEF SelectedPages, RunAt
<1>3. CASE preferred \notin runs /\ runs = {}
  BY <1>3 DEF SelectedPages
<1> QED BY <1>1, <1>2, <1>3

-----------------------------------------------------------------------------
(* The invariant has a side for each kind of state an operation may touch  *)
(* (pages, promises, rows) and a rest that relates the sides.              *)

PageSide ==
    /\ PageShape
    /\ free_page_ids \in [Pools -> SUBSET Nat] /\ mapped_pages \in [Pools -> Nat]
    /\ PagesOwnedOnce /\ MappedIsSum

PromiseSide ==
    /\ page_entitlement \in [Pools -> [Lanes -> Nat]] /\ entitled_pages \in [Pools -> Nat]
    /\ EntitledIsSum

RowSide ==
    /\ row_in_use \in [Pools -> SUBSET Lanes]
    /\ bound_row \in [Pools -> [Lanes -> Lanes \cup {NoRow}]]
    /\ RowsAreExclusive

Across ==
    /\ allocated \in [Pools -> SUBSET Lanes] /\ faulted \subseteq Lanes
    /\ InvalidHoldNothing /\ MappedWithinPromise /\ PromisesFit
    /\ TableShape /\ RowsAreCurrent

Operation == OpShape /\ UnderWay /\ OthersWhole /\ ValidatedBundleApplies

(* Every page group of a pool is free or mapped.                           *)
LEMMA FreeAndMapped ==
    ASSUME PageSide, NEW p \in Pools
    PROVE  /\ free_page_ids[p] \subseteq Pages(p)
           /\ Cardinality(free_page_ids[p]) \in Nat
           /\ Cardinality(free_page_ids[p]) + mapped_pages[p] = PageGroupCount[p]
<1>1. PageGroupCount[p] \in Nat
  BY PoolAssumption
<1>2. page_ids[p] \in [Lanes -> Seq(Nat)] /\ OwnedOnce(free_page_ids[p], page_ids[p], 0 .. PageGroupCount[p] - 1)
  BY DEF PageSide, PageShape, PagesOwnedOnce, Pages
<1>3. mapped_pages[p] = Total(Lengths(page_ids[p]))
  BY DEF PageSide, MappedIsSum
<1> QED BY <1>1, <1>2, <1>3, MappedAndFree DEF Pages

(* What has been promised and not mapped is free as soon as no pool        *)
(* promises more than it has; the sides make up the invariant.             *)
LEMMA SidesMakeInvariant ==
    PoolInv <=> PageSide /\ PromiseSide /\ RowSide /\ Across /\ Operation
<1> USE DEF PageSide, PromiseSide, RowSide, Across, Operation, PoolInv, PagesAreAccounted, TypeOK,
            TotalsAreSums, EntitlementIsBacked, TablesMatchMapping
<1>1. ASSUME PoolInv PROVE PageSide /\ PromiseSide /\ RowSide /\ Across /\ Operation
  <2>1. \A p \in Pools : free_page_ids[p] \subseteq Nat
    BY <1>1 DEF PagesOwnedOnce, OwnedOnce, Pages
  <2>2. free_page_ids \in [Pools -> SUBSET Nat]
    BY <1>1, <2>1
  <2> QED BY <1>1, <2>2
<1>2. ASSUME PageSide, PromiseSide, RowSide, Across, Operation PROVE PoolInv
  <2>1. free_page_ids \in [Pools -> SUBSET UNION {Pages(p) : p \in Pools}]
    BY <1>2, FreeAndMapped
  <2>2. ASSUME NEW p \in Pools
        PROVE  entitled_pages[p] - mapped_pages[p] <= Cardinality(free_page_ids[p])
    <3>1. /\ Cardinality(free_page_ids[p]) \in Nat
          /\ Cardinality(free_page_ids[p]) + mapped_pages[p] = PageGroupCount[p]
      BY <1>2, FreeAndMapped
    <3>2. entitled_pages[p] \in Nat /\ mapped_pages[p] \in Nat /\ PageGroupCount[p] \in Nat
      BY <1>2, PoolAssumption
    <3>3. entitled_pages[p] <= PageGroupCount[p]
      BY <1>2 DEF PromisesFit
    <3> QED BY <3>1, <3>2, <3>3
  <2> QED BY <1>2, <2>1, <2>2
<1> QED BY <1>1, <1>2

(* Sides that a step does not touch stay.                                  *)
LEMMA PageSideStays ==
    ASSUME PageSide, UNCHANGED <<free_page_ids, mapped_pages, page_ids>> PROVE PageSide'
<1>1. PagesOwnedOnce'
  BY DEF PageSide, PagesOwnedOnce
<1>2. MappedIsSum'
  BY DEF PageSide, MappedIsSum
<1> QED BY <1>1, <1>2 DEF PageSide, PageShape

(* The same for the promises.                                              *)
LEMMA PromiseSideStays ==
    ASSUME PromiseSide, UNCHANGED <<entitled_pages, page_entitlement>> PROVE PromiseSide'
BY DEF PromiseSide, EntitledIsSum, Units

(* The same for the rows.                                                  *)
LEMMA RowSideStays ==
    ASSUME RowSide, UNCHANGED <<row_in_use, bound_row>> PROVE RowSide'
BY DEF RowSide, RowsAreExclusive

(* The same for what relates them.                                         *)
LEMMA AcrossStays ==
    ASSUME Across, UNCHANGED <<poolVars, rowVars, handleVars, faulted>> PROVE Across'
BY DEF Across, InvalidHoldNothing, MappedWithinPromise, PromisesFit, TableShape, RowsAreCurrent,
       poolVars, rowVars, handleVars

(* trim_pages in the pools P: a prefix of every page list is kept.         *)
LEMMA TrimPagesStep ==
    ASSUME PageSide, NEW P \in SUBSET Pools, NEW l \in Lanes, NEW keep,
           \A p \in P : keep[p] \in 0 .. Len(page_ids[p][l]), TrimPages(P, l, keep)
    PROVE  /\ PageSide'
           /\ \A p \in P : /\ Len(page_ids'[p][l]) = keep[p]
                           /\ \A i \in 1 .. keep[p] : page_ids'[p][l][i] = page_ids[p][l][i]
           /\ \A p \in Pools, m \in Lanes :
                 (p \notin P \/ m # l) => page_ids'[p][m] = page_ids[p][m]
<1> DEFINE kept(p) == SubSeq(page_ids[p][l], 1, keep[p])
<1>1. ASSUME NEW p \in P
      PROVE  /\ kept(p) \in Seq(Nat) /\ Len(kept(p)) = keep[p]
             /\ \A i \in 1 .. keep[p] : kept(p)[i] = page_ids[p][l][i]
             /\ OwnedOnce(free_page_ids[p] \cup Cut(p, l, keep[p]),
                          [page_ids[p] EXCEPT ![l] = kept(p)], Pages(p))
  <2>1. /\ page_ids[p] \in [Lanes -> Seq(Nat)] /\ keep[p] \in 0 .. Len(page_ids[p][l])
        /\ OwnedOnce(free_page_ids[p], page_ids[p], Pages(p))
    BY DEF PageSide, PageShape, PagesOwnedOnce
  <2>2. /\ kept(p) \in Seq(Nat) /\ Len(kept(p)) = keep[p]
        /\ OwnedOnce(free_page_ids[p] \cup (PagesOf(page_ids[p][l]) \ PagesOf(kept(p))),
                     [page_ids[p] EXCEPT ![l] = kept(p)], Pages(p))
    BY <2>1, TrimKeepsOwnedOnce
  <2>3. \A i \in 1 .. keep[p] : kept(p)[i] = page_ids[p][l][i]
    <3>1. page_ids[p][l] \in Seq(Nat) /\ Len(page_ids[p][l]) \in Nat
      BY <2>1
    <3> QED BY <2>1, <3>1, SubSeqProperties
  <2> QED BY <2>2, <2>3 DEF Cut, Kept
<1>2. \A p \in P : page_ids'[p] = [page_ids[p] EXCEPT ![l] = kept(p)]
  BY DEF TrimPages, Kept
<1>3. \A p \in Pools \ P : /\ page_ids'[p] = page_ids[p] /\ free_page_ids'[p] = free_page_ids[p]
                           /\ mapped_pages'[p] = mapped_pages[p]
  BY DEF TrimPages
<1>4. PageShape'
  <2>1. \A p \in Pools : page_ids[p] \in [Lanes -> Seq(Nat)]
    BY DEF PageSide, PageShape
  <2>2. ASSUME NEW p \in Pools PROVE page_ids'[p] \in [Lanes -> Seq(Nat)]
    <3>1. CASE p \in P
      <4>1. kept(p) \in Seq(Nat)
        BY <3>1, <1>1
      <4>2. page_ids'[p] = [page_ids[p] EXCEPT ![l] = kept(p)]
        BY <3>1, <1>2
      <4> HIDE DEF kept
      <4> QED BY <4>1, <4>2, <2>1
    <3>2. CASE p \notin P
      BY <3>2, <1>3, <2>1
    <3> QED BY <3>1, <3>2
  <2>3. page_ids' = [p \in Pools |-> page_ids'[p]]
    BY DEF TrimPages
  <2> QED BY <2>2, <2>3 DEF PageShape
<1>5. PagesOwnedOnce'
  <2>1. ASSUME NEW p \in Pools PROVE OwnedOnce(free_page_ids'[p], page_ids'[p], Pages(p))
    <3>1. CASE p \in P
      <4>1. free_page_ids'[p] = free_page_ids[p] \cup Cut(p, l, keep[p])
        BY <3>1 DEF TrimPages
      <4> QED BY <3>1, <4>1, <1>1, <1>2
    <3>2. CASE p \notin P
      BY <3>2, <1>3 DEF PageSide, PagesOwnedOnce
    <3> QED BY <3>1, <3>2
  <2> QED BY <2>1 DEF PagesOwnedOnce, Pages
<1>6. ASSUME NEW p \in Pools
      PROVE  /\ mapped_pages'[p] = Total(Lengths(page_ids'[p]))
             /\ mapped_pages'[p] \in Nat
  <2>1. page_ids'[p] \in [Lanes -> Seq(Nat)]
    BY <1>4 DEF PageShape
  <2>2. Lengths(page_ids'[p]) \in [Lanes -> Nat]
    BY <2>1 DEF Lengths
  <2>3. Total(Lengths(page_ids'[p])) \in Nat
    BY <2>2, LanesFinite, TotalIsNat
  <2>4. mapped_pages[p] = Total(Lengths(page_ids[p]))
    BY DEF PageSide, MappedIsSum
  <2>5. CASE p \notin P
    BY <2>3, <2>4, <2>5, <1>3
  <2>6. CASE p \in P
    <3>1. page_ids[p] \in [Lanes -> Seq(Nat)]
      BY DEF PageSide, PageShape
    <3>2. Lengths(page_ids[p]) \in [Lanes -> Nat] /\ keep[p] \in Nat
          /\ Lengths(page_ids[p])[l] = Len(page_ids[p][l]) /\ Len(page_ids[p][l]) \in Nat
      BY <2>6, <3>1 DEF Lengths
    <3>3. Lengths(page_ids'[p]) = [Lengths(page_ids[p]) EXCEPT ![l] = keep[p]]
      <4>1. Len(kept(p)) = keep[p]
        BY <2>6, <1>1
      <4> HIDE DEF kept
      <4> QED BY <2>6, <4>1, <1>2, <3>1 DEF Lengths
    <3>4. Total(Lengths(page_ids'[p])) =
            Total(Lengths(page_ids[p])) - Len(page_ids[p][l]) + keep[p]
      BY <3>2, <3>3, LanesFinite, TotalChange
    <3>5. mapped_pages'[p] = mapped_pages[p] - (Len(page_ids[p][l]) - keep[p])
      BY <2>6 DEF TrimPages
    <3>6. mapped_pages[p] \in Nat
      BY DEF PageSide
    <3> QED BY <2>3, <2>4, <3>2, <3>4, <3>5, <3>6
  <2> QED BY <2>5, <2>6
<1>7. MappedIsSum' /\ mapped_pages' \in [Pools -> Nat]
  <2>1. mapped_pages' = [p \in Pools |-> mapped_pages'[p]]
    BY DEF TrimPages
  <2> QED BY <1>6, <2>1 DEF MappedIsSum
<1>8. free_page_ids' \in [Pools -> SUBSET Nat]
  <2>1. \A p \in Pools : free_page_ids'[p] \subseteq Nat
    BY <1>5 DEF PagesOwnedOnce, OwnedOnce, Pages
  <2>2. free_page_ids' = [p \in Pools |-> free_page_ids'[p]]
    BY DEF TrimPages
  <2> QED BY <2>1, <2>2
<1>9. PageSide'
  BY <1>4, <1>5, <1>7, <1>8 DEF PageSide
<1>10. \A p \in Pools : page_ids[p] \in [Lanes -> Seq(Nat)]
  BY DEF PageSide, PageShape
<1>11. ASSUME NEW p \in P
       PROVE  /\ Len(page_ids'[p][l]) = keep[p]
              /\ \A i \in 1 .. keep[p] : page_ids'[p][l][i] = page_ids[p][l][i]
  <2>1. page_ids'[p][l] = kept(p)
    BY <1>2, <1>10
  <2> QED BY <2>1, <1>1
<1>12. ASSUME NEW p \in Pools, NEW m \in Lanes, p \notin P \/ m # l
       PROVE  page_ids'[p][m] = page_ids[p][m]
  BY <1>12, <1>2, <1>3, <1>10
<1> QED BY <1>9, <1>11, <1>12

(* materialize_pages: the page list grows by pages that were free.         *)
LEMMA MaterializeStep ==
    ASSUME PageSide, NEW p \in Pools, NEW l \in Lanes, NEW pages \in Nat,
           Len(page_ids[p][l]) < pages, NEW acquired,
           acquired \in TakePages(p, pages - Len(page_ids[p][l]), PreferredPage(p, l)),
           MaterializeFrom(p, l, acquired)
    PROVE  /\ PageSide'
           /\ Len(page_ids'[p][l]) = pages
           /\ \A i \in 1 .. Len(page_ids[p][l]) : page_ids'[p][l][i] = page_ids[p][l][i]
           /\ \A q \in Pools, m \in Lanes : (q # p \/ m # l) => page_ids'[q][m] = page_ids[q][m]
<1> DEFINE s == page_ids[p][l]
           n == pages - Len(s)
           more == s \o acquired
<1>1. /\ page_ids[p] \in [Lanes -> Seq(Nat)] /\ free_page_ids[p] \in SUBSET Nat
      /\ OwnedOnce(free_page_ids[p], page_ids[p], Pages(p))
  BY DEF PageSide, PageShape, PagesOwnedOnce
<1>2. s \in Seq(Nat) /\ Len(s) \in Nat /\ n \in Nat
  BY <1>1
<1>3. /\ acquired \in [1 .. n -> free_page_ids[p]]
      /\ \A i, j \in 1 .. n : i < j => acquired[i] < acquired[j]
  <2> HIDE DEF n
  <2>1. SelectedPages(p, n, PreferredPage(p, l)) \subseteq free_page_ids[p]
    BY <1>1, <1>2, SelectedAreFree
  <2> QED BY <2>1 DEF TakePages, n
<1>4. /\ Len(acquired) = n /\ more \in Seq(Nat) /\ Len(more) = Len(s) + n
      /\ OwnedOnce(free_page_ids[p] \ PagesOf(acquired), [page_ids[p] EXCEPT ![l] = more], Pages(p))
  <2> DEFINE held == page_ids[p]
             free == free_page_ids[p]
             all == Pages(p)
  <2>1. held \in [Lanes -> Seq(Nat)] /\ free \in SUBSET Nat /\ OwnedOnce(free, held, all)
    BY <1>1
  <2>2. /\ n \in Nat /\ acquired \in [1 .. n -> free]
        /\ \A i, j \in 1 .. n : i < j => acquired[i] < acquired[j]
    BY <1>2, <1>3
  <2>3. /\ Len(acquired) = n
        /\ held[l] \o acquired \in Seq(Nat) /\ Len(held[l] \o acquired) = Len(held[l]) + n
        /\ OwnedOnce(free \ PagesOf(acquired), [held EXCEPT ![l] = held[l] \o acquired], all)
    <3> HIDE DEF n, held, free, all
    <3> QED BY <2>1, <2>2, TakeKeepsOwnedOnce
  <2> QED BY <2>3
<1>5. \A i \in 1 .. Len(s) : more[i] = s[i]
  <2>1. acquired \in [1 .. n -> Nat]
    BY <1>1, <1>3
  <2>2. acquired \in Seq(Nat)
    <3> HIDE DEF n
    <3> QED BY <2>1, <1>2, SeqDef
  <2>3. \A i \in 1 .. Len(s) + Len(acquired) :
           more[i] = IF i <= Len(s) THEN s[i] ELSE acquired[i - Len(s)]
    BY <1>2, <2>2, ConcatProperties
  <2>4. Len(acquired) \in Nat
    BY <2>2
  <2> HIDE DEF more, n
  <2> QED BY <1>2, <2>3, <2>4
<1>6. Len(more) = pages
  BY <1>2, <1>4
<1>7. /\ page_ids' = [page_ids EXCEPT ![p] = [page_ids[p] EXCEPT ![l] = more]]
      /\ free_page_ids' = [free_page_ids EXCEPT ![p] = free_page_ids[p] \ PagesOf(acquired)]
      /\ mapped_pages' = [mapped_pages EXCEPT ![p] = mapped_pages[p] + n]
  BY <1>4 DEF MaterializeFrom, PageSide, PageShape
<1> HIDE DEF n, more
<1>8. PageShape'
  BY <1>1, <1>4, <1>7 DEF PageSide, PageShape
<1>9. \A q \in Pools : /\ page_ids'[q] = IF q = p THEN [page_ids[p] EXCEPT ![l] = more] ELSE page_ids[q]
                       /\ free_page_ids'[q] = IF q = p THEN free_page_ids[p] \ PagesOf(acquired)
                                              ELSE free_page_ids[q]
                       /\ mapped_pages'[q] = IF q = p THEN mapped_pages[p] + n ELSE mapped_pages[q]
  BY <1>7 DEF PageSide, PageShape
<1>10. PagesOwnedOnce'
  <2>1. ASSUME NEW q \in Pools PROVE OwnedOnce(free_page_ids'[q], page_ids'[q], Pages(q))
    <3>1. CASE q = p
      BY <3>1, <1>4, <1>9
    <3>2. CASE q # p
      BY <3>2, <1>9 DEF PageSide, PagesOwnedOnce
    <3> QED BY <3>1, <3>2
  <2> QED BY <2>1 DEF PagesOwnedOnce, Pages
<1>11. MappedIsSum'
  <2>1. Lengths(page_ids[p]) \in [Lanes -> Nat] /\ Lengths(page_ids[p])[l] = Len(s)
    BY <1>1 DEF Lengths
  <2>2. Lengths(page_ids'[p]) = [Lengths(page_ids[p]) EXCEPT ![l] = pages]
    BY <1>1, <1>6, <1>9 DEF Lengths
  <2>3. Total(Lengths(page_ids'[p])) =
          Total(Lengths(page_ids[p])) - Len(s) + pages
    <3> DEFINE lengths == Lengths(page_ids[p])
    <3>1. lengths \in [Lanes -> Nat]
      BY <2>1
    <3>2. Total([lengths EXCEPT ![l] = pages]) = Total(lengths) - lengths[l] + pages
      <4> HIDE DEF lengths
      <4> QED BY <3>1, LanesFinite, TotalChange
    <3> QED BY <2>1, <2>2, <3>2
  <2>4. \A q \in Pools : mapped_pages[q] = Total(Lengths(page_ids[q]))
    BY DEF PageSide, MappedIsSum
  <2>5. mapped_pages[p] \in Nat
    BY DEF PageSide
  <2>6. mapped_pages'[p] = Total(Lengths(page_ids'[p]))
    <3>1. mapped_pages'[p] = mapped_pages[p] + n
      BY <1>9
    <3> QED BY <1>2, <2>3, <2>4, <2>5, <3>1 DEF n
  <2>7. \A q \in Pools : q # p => mapped_pages'[q] = Total(Lengths(page_ids'[q]))
    BY <1>9, <2>4
  <2> QED BY <2>6, <2>7 DEF MappedIsSum
<1>12. mapped_pages' \in [Pools -> Nat] /\ free_page_ids' \in [Pools -> SUBSET Nat]
  BY <1>1, <1>2, <1>7 DEF PageSide
<1>13. PageSide'
  BY <1>8, <1>10, <1>11, <1>12 DEF PageSide
<1>14. page_ids'[p][l] = more
  BY <1>1, <1>9
<1>15. \A q \in Pools, m \in Lanes : (q # p \/ m # l) => page_ids'[q][m] = page_ids[q][m]
  BY <1>1, <1>9
<1> QED BY <1>5, <1>6, <1>13, <1>14, <1>15

(* The total of a pool after replace_entitlement.                          *)
NewTotal(p, l, n) == entitled_pages[p] - page_entitlement[p][l] + n

(* replace_entitlement keeps the pool's total the sum of the promises.     *)
LEMMA SetEntitlementStep ==
    ASSUME PromiseSide, NEW P \in SUBSET Pools, NEW l \in Lanes, NEW pages,
           \A p \in P : pages[p] \in Nat, SetEntitlement(P, l, pages)
    PROVE  /\ PromiseSide'
           /\ \A p \in Pools, m \in Lanes :
                 page_entitlement'[p][m] = IF p \in P /\ m = l THEN pages[p] ELSE page_entitlement[p][m]
           /\ \A p \in P : entitled_pages'[p] = NewTotal(p, l, pages[p])
           /\ \A p \in Pools \ P : entitled_pages'[p] = entitled_pages[p]
<1>1. /\ page_entitlement' = [p \in Pools |-> page_entitlement'[p]]
      /\ entitled_pages' = [p \in Pools |-> entitled_pages'[p]]
  BY DEF SetEntitlement
<1>2. \A p \in Pools : page_entitlement[p] \in [Lanes -> Nat] /\ entitled_pages[p] \in Nat
  BY DEF PromiseSide
<1>3. /\ \A p \in P : entitled_pages'[p] = NewTotal(p, l, pages[p])
      /\ \A p \in Pools \ P : entitled_pages'[p] = entitled_pages[p]
  BY DEF SetEntitlement, NewTotal
<1>4. \A p \in Pools : page_entitlement'[p] =
         IF p \in P THEN [page_entitlement[p] EXCEPT ![l] = pages[p]] ELSE page_entitlement[p]
  BY DEF SetEntitlement
<1>5. ASSUME NEW p \in Pools
      PROVE  /\ page_entitlement'[p] \in [Lanes -> Nat]
             /\ entitled_pages'[p] = Total(page_entitlement'[p])
             /\ entitled_pages'[p] \in Nat
  <2>1. page_entitlement'[p] \in [Lanes -> Nat]
    BY <1>2, <1>4
  <2>2. Total(page_entitlement'[p]) \in Nat
    BY <2>1, LanesFinite, TotalIsNat
  <2>3. entitled_pages[p] = Total(page_entitlement[p])
    BY DEF PromiseSide, EntitledIsSum
  <2>4. CASE p \in P
    <3>1. pages[p] \in Nat /\ page_entitlement[p][l] \in Nat
      BY <2>4, <1>2
    <3>2. Total([page_entitlement[p] EXCEPT ![l] = pages[p]]) =
            Total(page_entitlement[p]) - page_entitlement[p][l] + pages[p]
      BY <3>1, <1>2, LanesFinite, TotalChange
    <3> QED BY <2>1, <2>2, <2>3, <2>4, <3>2, <1>3, <1>4 DEF NewTotal
  <2>5. CASE p \notin P
    BY <2>1, <2>2, <2>3, <2>5, <1>3, <1>4
  <2> QED BY <2>4, <2>5
<1>6. PromiseSide'
  BY <1>1, <1>5 DEF PromiseSide, EntitledIsSum
<1>7. ASSUME NEW p \in Pools, NEW m \in Lanes
      PROVE  page_entitlement'[p][m] = IF p \in P /\ m = l THEN pages[p] ELSE page_entitlement[p][m]
  BY <1>2, <1>4
<1> QED BY <1>3, <1>6, <1>7

(* unbind_row frees the one row that is bound.                             *)
LEMMA UnbindRowsStep ==
    ASSUME RowSide, NEW P \in SUBSET Pools, NEW l \in Lanes, UnbindRows(P, l)
    PROVE  /\ RowSide'
           /\ \A p \in Pools, m \in Lanes :
                 bound_row'[p][m] = IF p \in P /\ m = l THEN NoRow ELSE bound_row[p][m]
<1>1. \A p \in Pools, m \in Lanes :
         bound_row'[p][m] = IF p \in P /\ m = l THEN NoRow ELSE bound_row[p][m]
  BY DEF UnbindRows, RowSide
<1>2. bound_row' \in [Pools -> [Lanes -> Lanes \cup {NoRow}]]
  BY DEF UnbindRows, RowSide
<1>3. row_in_use' \in [Pools -> SUBSET Lanes]
  BY DEF UnbindRows, RowSide
<1>4. RowsAreExclusive'
  <2>1. ASSUME NEW p \in Pools
        PROVE  row_in_use'[p] = {m \in Lanes : bound_row'[p][m] # NoRow}
    <3>1. /\ row_in_use[p] = {m \in Lanes : bound_row[p][m] # NoRow}
          /\ bound_row[p][l] \in {l, NoRow}
      BY DEF RowSide, RowsAreExclusive
    <3>2. row_in_use'[p] = IF p \in P THEN row_in_use[p] \ {bound_row[p][l]} ELSE row_in_use[p]
      BY DEF UnbindRows
    <3> QED BY <1>1, <3>1, <3>2, NoRowAssumption
  <2>2. \A p \in Pools, m \in Lanes : bound_row'[p][m] \in {m, NoRow}
    BY <1>1 DEF RowSide, RowsAreExclusive
  <2> QED BY <2>1, <2>2 DEF RowsAreExclusive
<1> QED BY <1>1, <1>2, <1>3, <1>4 DEF RowSide

(* acquire_row binds the lane to its own row.                              *)
LEMMA AcquireRowStep ==
    ASSUME RowSide, NEW p \in Pools, NEW l \in Lanes, AcquireRow(p, l)
    PROVE  /\ RowSide'
           /\ \A q \in Pools, m \in Lanes :
                 bound_row'[q][m] = IF q = p /\ m = l THEN l ELSE bound_row[q][m]
<1>1. \A q \in Pools, m \in Lanes :
         bound_row'[q][m] = IF q = p /\ m = l THEN l ELSE bound_row[q][m]
  BY DEF AcquireRow, RowSide
<1>2. bound_row' \in [Pools -> [Lanes -> Lanes \cup {NoRow}]]
  BY DEF AcquireRow, RowSide
<1>3. row_in_use' \in [Pools -> SUBSET Lanes]
  BY DEF AcquireRow, RowSide
<1>4. RowsAreExclusive'
  <2>1. ASSUME NEW q \in Pools
        PROVE  row_in_use'[q] = {m \in Lanes : bound_row'[q][m] # NoRow}
    <3>1. row_in_use[q] = {m \in Lanes : bound_row[q][m] # NoRow}
      BY DEF RowSide, RowsAreExclusive
    <3>2. row_in_use'[q] = IF q = p THEN row_in_use[q] \cup {l} ELSE row_in_use[q]
      BY DEF AcquireRow, RowSide
    <3> QED BY <1>1, <3>1, <3>2, NoRowAssumption
  <2>2. \A q \in Pools, m \in Lanes : bound_row'[q][m] \in {m, NoRow}
    BY <1>1 DEF RowSide, RowsAreExclusive
  <2> QED BY <2>1, <2>2 DEF RowsAreExclusive
<1> QED BY <1>1, <1>2, <1>3, <1>4 DEF RowSide

-----------------------------------------------------------------------------
(* One lemma for each operation.                                           *)

Sides == PageSide /\ PromiseSide /\ RowSide /\ Across /\ Operation

(* The fields of an operation under way.                                   *)
LEMMA OperationFields ==
    ASSUME OpShape
    PROVE  /\ Idle <=> op.kind = "none"
           /\ op.kind \in {"none", "reserve", "resize", "bind"}
           /\ ~ Idle => op.lane \in Lanes
           /\ op.kind \in {"reserve", "resize"} =>
                 /\ op.next \in Pools
                 /\ \A p \in Pools : op.ask[p] \in Nat /\ op.keep[p] \in Nat
           /\ op.kind = "bind" => op.next \in 1 .. NumPools + 1
<1>1. \A e \in Extents : \A p \in Pools : e[p] \in Nat
  <2>1. \A p \in Pools : PageGroupCount[p] \in Nat
    BY PoolAssumption
  <2> QED BY <2>1 DEF Extents
<1> QED BY <1>1 DEF OpShape, NoOp, Idle

(* reserve_paged_kv_bundle asks every pool.                                *)
LEMMA ReserveBeginKeeps ==
    ASSUME Sides, NEW l \in Lanes, NEW ask \in Extents, ReserveBegin(l, ask)
    PROVE  Sides'
<1> USE DEF Sides
<1>1. PageSide' /\ PromiseSide' /\ RowSide' /\ Across'
  BY PageSideStays, PromiseSideStays, RowSideStays, AcrossStays
     DEF ReserveBegin, poolVars, rowVars, handleVars
<1>2. op' = [kind |-> "reserve", lane |-> l, keep |-> ask, ask |-> ask, next |-> 1]
  BY DEF ReserveBegin, Started
<1>3. 1 \in Pools
  BY PoolAssumption DEF Pools
<1>4. OpShape'
  BY <1>2, <1>3 DEF OpShape
<1>5. op'.kind = "reserve" /\ op'.lane = l /\ op'.next = 1 /\ op'.ask = ask /\ op' # NoOp
  BY <1>2 DEF NoOp
<1>6. /\ \A p \in Pools : l \notin allocated[p] /\ bound_row[p][l] = NoRow /\ CanReserve(p, ask[p])
      /\ l \notin faulted
  BY DEF ReserveBegin, Across, InvalidHoldNothing
<1>7. UNCHANGED <<allocated, bound_row, faulted, entitled_pages>>
  BY DEF ReserveBegin, poolVars, rowVars, handleVars
<1>8. UnderWay'
  BY <1>5, <1>6, <1>7 DEF UnderWay, ReserveProgress, ResizeProgress, BindProgress, Pools, Idle
<1>9. OthersWhole'
  BY <1>7 DEF OthersWhole, Operation, ReserveBegin, Idle
<1>10. ValidatedBundleApplies'
  BY <1>5, <1>6, <1>7 DEF ValidatedBundleApplies, CanReserve
<1> QED BY <1>1, <1>4, <1>8, <1>9, <1>10 DEF Operation

(* resize_paged_kv_bundle validates every pool.                            *)
LEMMA ResizeBeginKeeps ==
    ASSUME Sides, NEW l \in Lanes, NEW keep \in Extents, NEW ask \in Extents, ResizeBegin(l, keep, ask)
    PROVE  Sides'
<1> USE DEF Sides
<1>1. PageSide' /\ PromiseSide' /\ RowSide' /\ Across'
  BY PageSideStays, PromiseSideStays, RowSideStays, AcrossStays
     DEF ResizeBegin, poolVars, rowVars, handleVars
<1>2. op' = [kind |-> "resize", lane |-> l, keep |-> keep, ask |-> ask, next |-> 1]
  BY DEF ResizeBegin, Started
<1>3. 1 \in Pools
  BY PoolAssumption DEF Pools
<1>4. OpShape'
  BY <1>2, <1>3 DEF OpShape
<1>5. /\ op'.kind = "resize" /\ op'.lane = l /\ op'.next = 1 /\ op'.ask = ask /\ op'.keep = keep
      /\ op' # NoOp
  BY <1>2 DEF NoOp
<1>6. /\ op = NoOp /\ l \notin faulted /\ OwnsBundle(l)
      /\ \A p \in Pools : /\ keep[p] <= Len(page_ids[p][l]) /\ keep[p] <= ask[p]
                          /\ CanReplaceEntitlement(p, page_entitlement[p][l], ask[p])
  BY DEF ResizeBegin, Usable, Idle
<1>7. UNCHANGED <<allocated, bound_row, faulted, entitled_pages, page_ids, page_entitlement>>
  BY DEF ResizeBegin, poolVars, rowVars, handleVars
<1>8. UnderWay'
  BY <1>5, <1>6, <1>7
     DEF UnderWay, ReserveProgress, ResizeProgress, BindProgress, OwnsBundle, Idle, Operation, OthersWhole
<1>9. OthersWhole'
  BY <1>6, <1>7 DEF OthersWhole, Operation, Idle
<1>10. ValidatedBundleApplies'
  BY <1>5, <1>6, <1>7 DEF ValidatedBundleApplies, CanReplaceEntitlement
<1> QED BY <1>1, <1>4, <1>8, <1>9, <1>10 DEF Operation

(* bind_sequence_kv starts with a bundle that is bound nowhere.            *)
LEMMA BindBeginKeeps ==
    ASSUME Sides, NEW l \in Lanes, BindBegin(l)
    PROVE  Sides'
<1> USE DEF Sides
<1>1. PageSide' /\ PromiseSide' /\ RowSide' /\ Across'
  BY PageSideStays, PromiseSideStays, RowSideStays, AcrossStays
     DEF BindBegin, poolVars, rowVars, handleVars
<1>2. op' = [kind |-> "bind", lane |-> l, keep |-> <<>>, ask |-> <<>>, next |-> 1]
  BY DEF BindBegin, Started
<1>3. 1 \in 1 .. NumPools + 1
  BY PoolAssumption
<1>4. OpShape'
  BY <1>2, <1>3 DEF OpShape
<1>5. op'.kind = "bind" /\ op'.lane = l /\ op'.next = 1 /\ op' # NoOp
  BY <1>2 DEF NoOp
<1>6. /\ op = NoOp /\ l \notin faulted /\ OwnsBundle(l)
      /\ \A p \in Pools : bound_row[p][l] = NoRow
  BY DEF BindBegin, Usable, Idle
<1>7. UNCHANGED <<allocated, bound_row, faulted, row_in_use>>
  BY DEF BindBegin, poolVars, rowVars, handleVars
<1>8. UnderWay'
  BY <1>5, <1>6, <1>7
     DEF UnderWay, ReserveProgress, ResizeProgress, BindProgress, OwnsBundle, Idle, Pools
<1>9. OthersWhole'
  BY <1>6, <1>7 DEF OthersWhole, Operation, Idle
<1>10. ValidatedBundleApplies'
  BY <1>5, <1>6, <1>7 DEF ValidatedBundleApplies, RowSide, RowsAreExclusive
<1> QED BY <1>1, <1>4, <1>8, <1>9, <1>10 DEF Operation

(* The bundle is bound everywhere when bind_sequence_kv returns.           *)
LEMMA BindDoneKeeps ==
    ASSUME Sides, BindDone
    PROVE  Sides'
<1> USE DEF Sides
<1>1. PageSide' /\ PromiseSide' /\ RowSide' /\ Across'
  BY PageSideStays, PromiseSideStays, RowSideStays, AcrossStays
     DEF BindDone, poolVars, rowVars, handleVars
<1>2. op' = NoOp /\ op.kind = "bind" /\ op.next = NumPools + 1 /\ op'.kind = "none"
      /\ UNCHANGED <<allocated, bound_row, faulted>>
  BY DEF BindDone, NoOp, rowVars, handleVars
<1>3. \A p \in Pools : op.lane \in allocated[p] /\ bound_row[p][op.lane] # NoRow
  BY <1>2, PoolAssumption DEF Operation, UnderWay, BindProgress, OwnsBundle, Pools
<1>4. OpShape' /\ UnderWay' /\ ValidatedBundleApplies'
  BY <1>2 DEF OpShape, UnderWay, ReserveProgress, ResizeProgress, BindProgress,
              ValidatedBundleApplies, Idle
<1>5. OthersWhole'
  BY <1>2, <1>3 DEF OthersWhole, Operation, Idle
<1> QED BY <1>1, <1>4, <1>5 DEF Operation

(* PagedKVPool::reserve in the next pool: what it was asked still fits.    *)
LEMMA ReservePoolKeeps ==
    ASSUME Sides, ReservePool
    PROVE  Sides'
<1> USE DEF Sides
<1> DEFINE p == op.next
           l == op.lane
<1>1. op.kind = "reserve" /\ p \in Pools /\ l \in Lanes /\ (\A q \in Pools : op.ask[q] \in Nat)
      /\ ~ Idle /\ CanReserve(p, op.ask[p])
  BY OperationFields DEF Operation, ReservePool
<1>2. PageSide' /\ RowSide'
  BY PageSideStays, RowSideStays DEF ReservePool, rowVars
<1>3. SetEntitlement({p}, l, op.ask) /\ {p} \in SUBSET Pools
  BY <1>1 DEF ReservePool
<1>4. /\ PromiseSide'
      /\ \A q \in Pools, m \in Lanes :
            page_entitlement'[q][m] = IF q \in {p} /\ m = l THEN op.ask[q] ELSE page_entitlement[q][m]
      /\ \A q \in {p} : entitled_pages'[q] = NewTotal(q, l, op.ask[q])
      /\ \A q \in Pools \ {p} : entitled_pages'[q] = entitled_pages[q]
  <2> HIDE DEF p, l
  <2> QED BY <1>1, <1>3, SetEntitlementStep
<1>5. UNCHANGED <<page_ids, bound_row, row_in_use, block_tables, faulted>>
  BY DEF ReservePool, rowVars
<1>6. /\ allocated' \in [Pools -> SUBSET Lanes]
      /\ \A q \in Pools : allocated'[q] = IF q = p THEN allocated[q] \cup {l} ELSE allocated[q]
  BY <1>1 DEF ReservePool, Across
<1>7. /\ \A q \in Pools : bound_row[q][l] = NoRow /\ (l \in allocated[q] <=> q < p)
      /\ l \notin faulted
  BY <1>1 DEF Operation, UnderWay, ReserveProgress
<1>8. page_entitlement[p][l] = 0 /\ page_ids[p][l] = <<>> /\ entitled_pages[p] \in Nat
      /\ PageGroupCount[p] \in Nat
  BY <1>1, <1>7, PoolAssumption DEF Across, InvalidHoldNothing, Pools, PromiseSide
<1>9. Across'
  <2>1. InvalidHoldNothing'
    BY <1>1, <1>4, <1>5, <1>6, <1>7 DEF Across, InvalidHoldNothing
  <2>2. MappedWithinPromise'
    BY <1>1, <1>4, <1>5, <1>8 DEF Across, MappedWithinPromise
  <2>3. PromisesFit'
    <3>1. entitled_pages'[p] <= PageGroupCount[p] /\ op.ask[p] <= LogicalPageCapacity[p]
      BY <1>1, <1>4, <1>8 DEF CanReserve, NewTotal
    <3> HIDE DEF p, l
    <3> QED BY <1>1, <1>4, <3>1 DEF Across, PromisesFit
  <2>4. TableShape' /\ RowsAreCurrent'
    BY <1>5 DEF Across, TableShape, RowsAreCurrent
  <2> QED BY <1>5, <1>6, <2>1, <2>2, <2>3, <2>4 DEF Across
<1>10. CASE p = NumPools
  <2>1. op' = NoOp /\ op'.kind = "none"
    BY <1>10 DEF ReservePool, NextPool, NoOp
  <2>2. OpShape' /\ UnderWay' /\ ValidatedBundleApplies'
    BY <2>1 DEF OpShape, UnderWay, ReserveProgress, ResizeProgress, BindProgress,
                ValidatedBundleApplies, Idle
  <2>3. \A q \in Pools : l \in allocated'[q]
    BY <1>1, <1>6, <1>7, <1>10, PoolAssumption DEF Pools
  <2>4. OthersWhole'
    BY <1>1, <1>5, <1>6, <1>7, <2>3 DEF OthersWhole, Operation
  <2> QED BY <1>2, <1>4, <1>9, <2>2, <2>4 DEF Operation
<1>11. CASE p # NumPools
  <2>1. op' = [op EXCEPT !.next = p + 1] /\ p + 1 \in Pools
    BY <1>1, <1>11, PoolAssumption DEF ReservePool, NextPool, Pools
  <2>2. op \in [kind : {"reserve", "resize"}, lane : Lanes, keep : Extents, ask : Extents, next : Pools]
    BY <1>1 DEF Operation, OpShape, Idle
  <2>3. /\ op'.kind = "reserve" /\ op'.lane = l /\ op'.ask = op.ask /\ op'.next = p + 1
        /\ OpShape' /\ op' # NoOp
    BY <1>1, <2>1, <2>2 DEF OpShape, NoOp
  <2>4. UnderWay'
    BY <1>1, <1>5, <1>6, <1>7, <2>3
       DEF UnderWay, ReserveProgress, ResizeProgress, BindProgress, Idle, Pools
  <2>5. OthersWhole'
    BY <1>1, <1>5, <1>6, <2>3 DEF OthersWhole, Operation, Idle
  <2>6. ValidatedBundleApplies'
    <3>1. \A q \in Pools : q >= p + 1 => q # p /\ q >= p
      BY <1>1 DEF Pools
    <3> QED BY <1>1, <1>4, <2>3, <3>1 DEF ValidatedBundleApplies, CanReserve, Operation
  <2> QED BY <1>2, <1>4, <1>9, <2>3, <2>4, <2>5, <2>6 DEF Operation
<1> QED BY <1>10, <1>11

(* release in the pools P, while l is not the lane of an operation there.  *)
LEMMA ReleaseHandlesStep ==
    ASSUME PageSide, PromiseSide, RowSide, Across, NEW P \in SUBSET Pools, NEW l \in Lanes,
           ReleaseHandles(P, l), UNCHANGED block_tables, faulted' \in {faulted, faulted \ {l}},
           l \notin faulted \/ P = Pools
    PROVE  /\ PageSide' /\ PromiseSide' /\ RowSide' /\ Across'
           /\ \A p \in Pools : allocated'[p] = IF p \in P THEN allocated[p] \ {l} ELSE allocated[p]
           /\ \A p \in Pools, m \in Lanes :
                 bound_row'[p][m] = IF p \in P /\ m = l THEN NoRow ELSE bound_row[p][m]
<1> DEFINE zero == [p \in Pools |-> 0]
<1>1. \A p \in P : zero[p] = 0 /\ zero[p] \in Nat /\ zero[p] \in 0 .. Len(page_ids[p][l])
  BY DEF PageSide, PageShape
<1>2. TrimPages(P, l, zero) /\ SetEntitlement(P, l, zero) /\ UnbindRows(P, l)
  BY DEF ReleaseHandles
<1> HIDE DEF zero
<1>3. /\ PageSide'
      /\ \A p \in P : Len(page_ids'[p][l]) = zero[p]
      /\ \A p \in Pools, m \in Lanes : (p \notin P \/ m # l) => page_ids'[p][m] = page_ids[p][m]
  BY <1>1, <1>2, TrimPagesStep
<1>4. /\ PromiseSide'
      /\ \A p \in Pools, m \in Lanes :
            page_entitlement'[p][m] = IF p \in P /\ m = l THEN zero[p] ELSE page_entitlement[p][m]
      /\ \A p \in P : entitled_pages'[p] = NewTotal(p, l, zero[p])
      /\ \A p \in Pools \ P : entitled_pages'[p] = entitled_pages[p]
  BY <1>1, <1>2, SetEntitlementStep
<1>5. /\ RowSide'
      /\ \A p \in Pools, m \in Lanes :
            bound_row'[p][m] = IF p \in P /\ m = l THEN NoRow ELSE bound_row[p][m]
  BY <1>2, UnbindRowsStep
<1>6. \A p \in P : page_ids'[p][l] = <<>>
  <2>1. \A p \in P : page_ids'[p][l] \in Seq(Nat)
    BY <1>3 DEF PageSide, PageShape
  <2> QED BY <1>1, <1>3, <2>1, EmptySeq
<1>7. /\ allocated' \in [Pools -> SUBSET Lanes]
      /\ \A p \in Pools : allocated'[p] = IF p \in P THEN allocated[p] \ {l} ELSE allocated[p]
  BY DEF ReleaseHandles, Across
<1>8. InvalidHoldNothing'
  BY <1>1, <1>3, <1>4, <1>5, <1>6, <1>7 DEF Across, InvalidHoldNothing
<1>9. MappedWithinPromise'
  BY <1>1, <1>3, <1>4 DEF Across, MappedWithinPromise
<1>10. PromisesFit'
  <2>1. \A p \in Pools : LogicalPageCapacity[p] \in Nat /\ PageGroupCount[p] \in Nat
    BY PoolAssumption
  <2>2. \A p \in Pools : entitled_pages[p] \in Nat /\ page_entitlement[p][l] \in Nat
    BY DEF PromiseSide
  <2>3. \A p \in Pools : entitled_pages'[p] <= entitled_pages[p]
    BY <1>1, <1>4, <2>2 DEF NewTotal
  <2>4. \A p \in Pools : entitled_pages'[p] <= PageGroupCount[p]
    <3>1. \A p \in Pools : entitled_pages'[p] \in Nat
      BY <1>4 DEF PromiseSide
    <3> QED BY <2>1, <2>2, <2>3, <3>1 DEF Across, PromisesFit
  <2> QED BY <1>1, <1>4, <2>1, <2>4 DEF Across, PromisesFit
<1>11. RowsAreCurrent'
  <2>1. ASSUME NEW p \in Pools, NEW m \in Lanes \ faulted', bound_row'[p][m] # NoRow,
               NEW i \in 1 .. Len(page_ids'[p][m])
        PROVE  block_tables'[p][m][i] = page_ids'[p][m][i]
    <3>1. p \notin P \/ m # l
      BY <1>5, <2>1
    <3>2. bound_row[p][m] # NoRow /\ page_ids'[p][m] = page_ids[p][m]
      BY <1>3, <1>5, <2>1, <3>1
    <3>3. m \notin faulted
      BY <2>1, <3>1
    <3> QED BY <2>1, <3>2, <3>3 DEF Across, RowsAreCurrent
  <2> QED BY <2>1 DEF RowsAreCurrent
<1>12. Across'
  BY <1>7, <1>8, <1>9, <1>10, <1>11 DEF Across, TableShape
<1> QED BY <1>3, <1>4, <1>5, <1>7, <1>12

(* A reserve that fails gives back the handles it made.                    *)
LEMMA ReserveThrowsKeeps ==
    ASSUME Sides, ReserveThrows
    PROVE  Sides'
<1> USE DEF Sides
<1> DEFINE l == op.lane
           P == 1 .. op.next - 1
<1>1. op.kind = "reserve" /\ op.next \in Pools /\ l \in Lanes /\ ~ Idle /\ l \notin faulted
      /\ \A q \in Pools : bound_row[q][l] = NoRow /\ (l \in allocated[q] <=> q < op.next)
  BY OperationFields DEF Operation, ReserveThrows, UnderWay, ReserveProgress
<1>2. P \in SUBSET Pools /\ \A q \in Pools : q \in P <=> q < op.next
  BY <1>1, PoolAssumption DEF Pools
<1>3. ReleaseHandles(P, l) /\ UNCHANGED <<block_tables, faulted>> /\ op' = NoOp
  BY DEF ReserveThrows
<1>4. /\ PageSide' /\ PromiseSide' /\ RowSide' /\ Across'
      /\ \A p \in Pools : allocated'[p] = IF p \in P THEN allocated[p] \ {l} ELSE allocated[p]
      /\ \A p \in Pools, m \in Lanes :
            bound_row'[p][m] = IF p \in P /\ m = l THEN NoRow ELSE bound_row[p][m]
  <2> HIDE DEF P, l
  <2> QED BY <1>1, <1>2, <1>3, ReleaseHandlesStep
<1>5. OpShape' /\ UnderWay' /\ ValidatedBundleApplies'
  BY <1>3 DEF OpShape, UnderWay, ReserveProgress, ResizeProgress, BindProgress,
              ValidatedBundleApplies, Idle, NoOp
<1>6. \A p \in Pools : l \notin allocated'[p] /\ bound_row'[p][l] = NoRow
  <2> HIDE DEF P
  <2> QED BY <1>1, <1>2, <1>4
<1>7. OthersWhole'
  <2>1. \A p \in Pools, m \in Lanes : m # l =>
           (m \in allocated'[p] <=> m \in allocated[p]) /\ bound_row'[p][m] = bound_row[p][m]
    BY <1>4
  <2> QED BY <1>1, <1>3, <1>6, <2>1 DEF OthersWhole, Operation
<1> QED BY <1>4, <1>5, <1>7 DEF Operation

(* clear_lane: a bundle is given back in every pool.                       *)
LEMMA ReleaseKeeps ==
    ASSUME Sides, NEW l \in Lanes, Release(l)
    PROVE  Sides'
<1> USE DEF Sides
<1>1. ReleaseHandles(Pools, l) /\ UNCHANGED <<block_tables, op>> /\ faulted' = faulted \ {l} /\ op = NoOp
  BY DEF Release, Idle
<1>2. /\ PageSide' /\ PromiseSide' /\ RowSide' /\ Across'
      /\ \A p \in Pools : allocated'[p] = IF p \in Pools THEN allocated[p] \ {l} ELSE allocated[p]
      /\ \A p \in Pools, m \in Lanes :
            bound_row'[p][m] = IF p \in Pools /\ m = l THEN NoRow ELSE bound_row[p][m]
  BY <1>1, ReleaseHandlesStep
<1>3. OpShape' /\ UnderWay' /\ ValidatedBundleApplies'
  BY <1>1 DEF OpShape, UnderWay, ReserveProgress, ResizeProgress, BindProgress,
              ValidatedBundleApplies, Idle, NoOp
<1>4. OthersWhole'
  BY <1>1, <1>2 DEF OthersWhole, Operation, Idle
<1> QED BY <1>2, <1>3, <1>4 DEF Operation

(* set_page_entitlement and trim in the next pool of a resize.             *)
LEMMA ResizePoolKeeps ==
    ASSUME Sides, ResizePool
    PROVE  Sides'
<1> USE DEF Sides
<1> DEFINE p == op.next
           l == op.lane
<1>1. op.kind = "resize" /\ p \in Pools /\ l \in Lanes
      /\ (\A q \in Pools : op.ask[q] \in Nat /\ op.keep[q] \in Nat) /\ ~ Idle
  BY OperationFields DEF Operation, ResizePool
<1>2. \A q \in Pools : q >= p => /\ op.keep[q] <= Len(page_ids[q][l]) /\ op.keep[q] <= op.ask[q]
                                 /\ CanReplaceEntitlement(q, page_entitlement[q][l], op.ask[q])
  BY <1>1 DEF Operation, ValidatedBundleApplies
<1>3. p >= p /\ \A q \in Pools : q >= p + 1 => q # p /\ q >= p
  BY <1>1 DEF Pools
<1>4. \A q \in {p} : op.keep[q] \in 0 .. Len(page_ids[q][l])
  BY <1>1, <1>2, <1>3 DEF PageSide, PageShape
<1>5. TrimPages({p}, l, op.keep) /\ SetEntitlement({p}, l, op.ask) /\ {p} \in SUBSET Pools
  BY <1>1 DEF ResizePool
<1>6. /\ PageSide'
      /\ \A q \in {p} : /\ Len(page_ids'[q][l]) = op.keep[q]
                        /\ \A i \in 1 .. op.keep[q] : page_ids'[q][l][i] = page_ids[q][l][i]
      /\ \A q \in Pools, m \in Lanes :
            (q \notin {p} \/ m # l) => page_ids'[q][m] = page_ids[q][m]
  <2> HIDE DEF p, l
  <2> QED BY <1>1, <1>4, <1>5, TrimPagesStep
<1>7. /\ PromiseSide'
      /\ \A q \in Pools, m \in Lanes :
            page_entitlement'[q][m] = IF q \in {p} /\ m = l THEN op.ask[q] ELSE page_entitlement[q][m]
      /\ \A q \in {p} : entitled_pages'[q] = NewTotal(q, l, op.ask[q])
      /\ \A q \in Pools \ {p} : entitled_pages'[q] = entitled_pages[q]
  <2> HIDE DEF p, l
  <2> QED BY <1>1, <1>5, SetEntitlementStep
<1>8. UNCHANGED <<bound_row, row_in_use, block_tables, allocated, faulted>>
  BY DEF ResizePool, rowVars
<1>9. RowSide'
  BY <1>8, RowSideStays
<1>10. OwnsBundle(l) /\ l \notin faulted
       /\ \A q, r \in Pools : bound_row[q][l] = NoRow <=> bound_row[r][l] = NoRow
  BY <1>1 DEF Operation, UnderWay, ResizeProgress
<1>11. Across'
  <2>1. InvalidHoldNothing'
    BY <1>6, <1>7, <1>8, <1>10 DEF Across, InvalidHoldNothing, OwnsBundle
  <2>2. MappedWithinPromise'
    BY <1>1, <1>2, <1>3, <1>6, <1>7 DEF Across, MappedWithinPromise
  <2>3. PromisesFit'
    <3>1. /\ entitled_pages[p] \in Nat /\ page_entitlement[p][l] \in Nat /\ PageGroupCount[p] \in Nat
          /\ op.ask[p] \in Nat /\ CanReplaceEntitlement(p, page_entitlement[p][l], op.ask[p])
      BY <1>1, <1>2, <1>3, PoolAssumption DEF PromiseSide
    <3>2. entitled_pages'[p] <= PageGroupCount[p] /\ op.ask[p] <= LogicalPageCapacity[p]
      BY <1>1, <1>7, <3>1 DEF CanReplaceEntitlement, NewTotal
    <3> HIDE DEF p, l
    <3> QED BY <1>1, <1>7, <3>2 DEF Across, PromisesFit
  <2>4. RowsAreCurrent'
    <3>1. ASSUME NEW q \in Pools, NEW m \in Lanes \ faulted', bound_row'[q][m] # NoRow,
                 NEW i \in 1 .. Len(page_ids'[q][m])
          PROVE  block_tables'[q][m][i] = page_ids'[q][m][i]
      <4>1. block_tables'[q][m] = block_tables[q][m] /\ bound_row[q][m] # NoRow /\ m \notin faulted
        BY <1>8, <3>1
      <4>2. CASE q \notin {p} \/ m # l
        <5>1. page_ids'[q][m] = page_ids[q][m]
          BY <4>2, <1>6
        <5> QED BY <3>1, <4>1, <5>1 DEF Across, RowsAreCurrent
      <4>3. CASE q = p /\ m = l
        <5>1. i \in 1 .. op.keep[p] /\ op.keep[p] <= Len(page_ids[p][l]) /\ op.keep[p] \in Nat
          BY <3>1, <4>3, <1>1, <1>2, <1>3, <1>6
        <5>2. page_ids'[q][m][i] = page_ids[q][m][i]
          BY <4>3, <5>1, <1>6
        <5>3. Len(page_ids[q][m]) \in Nat
          BY DEF PageSide, PageShape
        <5>4. i \in 1 .. Len(page_ids[q][m])
          BY <4>3, <5>1, <5>3
        <5> QED BY <4>1, <5>2, <5>4 DEF Across, RowsAreCurrent
      <4> QED BY <4>2, <4>3
    <3> QED BY <3>1 DEF RowsAreCurrent
  <2> QED BY <1>8, <2>1, <2>2, <2>3, <2>4 DEF Across, TableShape
<1>12. CASE p = NumPools
  <2>1. op' = NoOp /\ op'.kind = "none"
    BY <1>12 DEF ResizePool, NextPool, NoOp
  <2>2. OpShape' /\ UnderWay' /\ ValidatedBundleApplies'
    BY <2>1 DEF OpShape, UnderWay, ReserveProgress, ResizeProgress, BindProgress,
                ValidatedBundleApplies, Idle
  <2>3. OthersWhole'
    BY <1>1, <1>8, <1>10 DEF OthersWhole, Operation, OwnsBundle
  <2> QED BY <1>6, <1>7, <1>9, <1>11, <2>2, <2>3 DEF Operation
<1>13. CASE p # NumPools
  <2>1. op' = [op EXCEPT !.next = p + 1] /\ p + 1 \in Pools
    BY <1>1, <1>13, PoolAssumption DEF ResizePool, NextPool, Pools
  <2>2. op \in [kind : {"reserve", "resize"}, lane : Lanes, keep : Extents, ask : Extents, next : Pools]
    BY <1>1 DEF Operation, OpShape, Idle
  <2>3. /\ op'.kind = "resize" /\ op'.lane = l /\ op'.ask = op.ask /\ op'.keep = op.keep
        /\ op'.next = p + 1 /\ OpShape' /\ op' # NoOp
    BY <1>1, <2>1, <2>2 DEF OpShape, NoOp
  <2>4. UnderWay'
    BY <1>8, <1>10, <2>3
       DEF UnderWay, ReserveProgress, ResizeProgress, BindProgress, Idle, OwnsBundle
  <2>5. OthersWhole'
    BY <1>1, <1>8, <2>3 DEF OthersWhole, Operation, Idle
  <2>6. ValidatedBundleApplies'
    <3>1. ASSUME NEW q \in Pools, q >= p + 1
          PROVE  /\ op.keep[q] <= Len(page_ids'[q][l]) /\ op.keep[q] <= op.ask[q]
                 /\ page_entitlement'[q][l] <= entitled_pages'[q]
                 /\ op.ask[q] <= LogicalPageCapacity[q]
                 /\ op.ask[q] <= PageGroupCount[q] - (entitled_pages'[q] - page_entitlement'[q][l])
      <4>1. q # p /\ q >= p
        BY <1>3, <3>1
      <4>2. /\ page_ids'[q][l] = page_ids[q][l] /\ page_entitlement'[q][l] = page_entitlement[q][l]
            /\ entitled_pages'[q] = entitled_pages[q]
        BY <4>1, <1>1, <1>6, <1>7
      <4>3. /\ op.keep[q] <= Len(page_ids[q][l]) /\ op.keep[q] <= op.ask[q]
            /\ CanReplaceEntitlement(q, page_entitlement[q][l], op.ask[q])
        BY <4>1, <1>2
      <4> QED BY <4>2, <4>3 DEF CanReplaceEntitlement
    <3> HIDE DEF p, l
    <3> QED BY <2>3, <3>1 DEF ValidatedBundleApplies, CanReplaceEntitlement
  <2> QED BY <1>6, <1>7, <1>9, <1>11, <2>3, <2>4, <2>5, <2>6 DEF Operation
<1> QED BY <1>12, <1>13

(* bind_row in the next pool: the whole mapping is published.              *)
LEMMA BindPoolKeeps ==
    ASSUME Sides, BindPool
    PROVE  Sides'
<1> USE DEF Sides
<1> DEFINE p == op.next
           l == op.lane
           s == page_ids[p][l]
<1>1. op.kind = "bind" /\ p \in Pools /\ l \in Lanes /\ ~ Idle
  BY OperationFields DEF Operation, BindPool
<1>2. /\ OwnsBundle(l) /\ l \notin faulted
      /\ \A q \in Pools : bound_row[q][l] # NoRow <=> q < p
  BY <1>1 DEF Operation, UnderWay, BindProgress
<1>3. UNCHANGED <<free_page_ids, entitled_pages, mapped_pages, allocated, page_ids,
                  page_entitlement, faulted>>
  BY DEF BindPool, poolVars, handleVars
<1>4. PageSide' /\ PromiseSide'
  BY <1>3, PageSideStays, PromiseSideStays
<1>5. AcquireRow(p, l)
  BY DEF BindPool
<1>6. /\ RowSide'
      /\ \A q \in Pools, m \in Lanes :
            bound_row'[q][m] = IF q = p /\ m = l THEN l ELSE bound_row[q][m]
  <2> HIDE DEF p, l
  <2> QED BY <1>1, <1>5, AcquireRowStep
<1>7. s \in Seq(Nat) /\ Len(s) \in Nat /\ Len(s) <= LogicalPageCapacity[p]
      /\ LogicalPageCapacity[p] \in Nat
  <2>1. s \in Seq(Nat) /\ Len(s) \in Nat /\ page_entitlement[p][l] \in Nat
    BY <1>1 DEF PageSide, PageShape, PromiseSide
  <2>2. Len(s) <= page_entitlement[p][l] /\ page_entitlement[p][l] <= LogicalPageCapacity[p]
    BY <1>1 DEF Across, MappedWithinPromise, PromisesFit
  <2>3. LogicalPageCapacity[p] \in Nat
    BY <1>1, PoolAssumption
  <2> HIDE DEF p, l, s
  <2> QED BY <2>1, <2>2, <2>3
<1> DEFINE row == [i \in 1 .. LogicalPageCapacity[p] |->
                      IF i \in 1 .. Len(s) THEN s[i] ELSE block_tables[p][l][i]]
<1>8. /\ row \in [1 .. LogicalPageCapacity[p] -> Int]
      /\ \A i \in 1 .. Len(s) : row[i] = s[i]
  <2>1. block_tables[p][l] \in [1 .. LogicalPageCapacity[p] -> Int]
    BY <1>1 DEF Across, TableShape
  <2>2. \A i \in 1 .. Len(s) : s[i] \in Int /\ i \in 1 .. LogicalPageCapacity[p]
    <3> HIDE DEF p, l, s
    <3> QED BY <1>7, ElementOfSeq
  <2> HIDE DEF s
  <2> QED BY <2>1, <2>2
<1>9. block_tables' = [block_tables EXCEPT ![p][l] = row]
  BY DEF BindPool, Published
<1>10. Across'
  <2> HIDE DEF row
  <2>1. TableShape'
    BY <1>1, <1>8, <1>9 DEF Across, TableShape
  <2>2. /\ block_tables'[p][l] = row
        /\ \A q \in Pools, m \in Lanes : (q # p \/ m # l) => block_tables'[q][m] = block_tables[q][m]
    BY <1>1, <1>9 DEF Across, TableShape
  <2>3. InvalidHoldNothing'
    BY <1>1, <1>2, <1>3, <1>6 DEF Across, InvalidHoldNothing, OwnsBundle
  <2>4. RowsAreCurrent'
    <3>1. ASSUME NEW q \in Pools, NEW m \in Lanes \ faulted', bound_row'[q][m] # NoRow,
                 NEW i \in 1 .. Len(page_ids'[q][m])
          PROVE  block_tables'[q][m][i] = page_ids'[q][m][i]
      <4>1. CASE q = p /\ m = l
        BY <3>1, <4>1, <1>3, <1>8, <2>2
      <4>2. CASE q # p \/ m # l
        <5>1. bound_row[q][m] # NoRow /\ block_tables'[q][m] = block_tables[q][m]
          BY <3>1, <4>2, <1>6, <2>2
        <5> QED BY <3>1, <5>1, <1>3 DEF Across, RowsAreCurrent
      <4> QED BY <4>1, <4>2
    <3> QED BY <3>1 DEF RowsAreCurrent
  <2>5. MappedWithinPromise' /\ PromisesFit'
    BY <1>3 DEF Across, MappedWithinPromise, PromisesFit
  <2> QED BY <1>3, <2>1, <2>3, <2>4, <2>5 DEF Across
<1>11. op \in [kind : {"bind"}, lane : Lanes, keep : {<<>>}, ask : {<<>>}, next : 1 .. NumPools + 1]
  BY <1>1 DEF Operation, OpShape, Idle
<1>12. op' = [op EXCEPT !.next = p + 1] /\ p + 1 \in 1 .. NumPools + 1
  BY <1>1, PoolAssumption DEF BindPool, Pools
<1>13. op'.kind = "bind" /\ op'.lane = l /\ op'.next = p + 1 /\ OpShape' /\ op' # NoOp
  BY <1>1, <1>11, <1>12 DEF OpShape, NoOp
<1>14. UnderWay'
  <2>1. \A q \in Pools : q < p + 1 <=> (q < p \/ q = p)
    BY <1>1 DEF Pools
  <2> HIDE DEF p, l
  <2> QED BY <1>1, <1>2, <1>3, <1>6, <1>13, <2>1, NoRowAssumption
          DEF UnderWay, ReserveProgress, ResizeProgress, BindProgress, Idle, OwnsBundle
<1>15. OthersWhole'
  BY <1>1, <1>3, <1>6, <1>13 DEF OthersWhole, Operation, Idle
<1>16. ValidatedBundleApplies'
  <2>1. ASSUME NEW q \in Pools, q >= p + 1 PROVE l \notin row_in_use'[q]
    <3>1. q # p /\ ~ (q < p)
      BY <1>1, <2>1 DEF Pools
    <3>2. bound_row'[q][l] = NoRow
      BY <3>1, <1>1, <1>2, <1>6
    <3> QED BY <3>2, <1>6 DEF RowSide, RowsAreExclusive
  <2> QED BY <1>13, <2>1 DEF ValidatedBundleApplies
<1> QED BY <1>4, <1>6, <1>10, <1>13, <1>14, <1>15, <1>16 DEF Operation

(* A bind that fails leaves a lane that must be cleared.                   *)
LEMMA BindThrowsKeeps ==
    ASSUME Sides, BindThrows
    PROVE  Sides'
<1> USE DEF Sides
<1> DEFINE l == op.lane
<1>1. op.kind = "bind" /\ l \in Lanes /\ ~ Idle /\ OwnsBundle(l)
  BY OperationFields DEF Operation, BindThrows, UnderWay, BindProgress
<1>2. /\ UNCHANGED <<free_page_ids, entitled_pages, mapped_pages, allocated, page_ids,
                     page_entitlement, block_tables>>
      /\ faulted' = faulted \cup {l} /\ op' = NoOp
  BY DEF BindThrows, poolVars, handleVars
<1>3. PageSide' /\ PromiseSide'
  BY <1>2, PageSideStays, PromiseSideStays
<1>4. RowSide' /\ \A q \in Pools, m \in Lanes : m # l => bound_row'[q][m] = bound_row[q][m]
  <2>1. CASE AcquireRow(Text, l)
    <3>1. Text \in Pools
      BY PoolAssumption DEF Pools, Text
    <3> HIDE DEF l
    <3> QED BY <1>1, <2>1, <3>1, AcquireRowStep
  <2>2. CASE UnbindRows(Pools, l)
    <3> HIDE DEF l
    <3> QED BY <1>1, <2>2, UnbindRowsStep
  <2> QED BY <2>1, <2>2 DEF BindThrows
<1>5. Across'
  <2>1. InvalidHoldNothing'
    BY <1>1, <1>2, <1>4 DEF Across, InvalidHoldNothing, OwnsBundle
  <2>2. RowsAreCurrent'
    BY <1>2, <1>4 DEF Across, RowsAreCurrent
  <2>3. MappedWithinPromise' /\ PromisesFit' /\ TableShape'
    BY <1>2 DEF Across, MappedWithinPromise, PromisesFit, TableShape
  <2> QED BY <1>1, <1>2, <2>1, <2>2, <2>3 DEF Across
<1>6. OpShape' /\ UnderWay' /\ ValidatedBundleApplies'
  BY <1>2 DEF OpShape, UnderWay, ReserveProgress, ResizeProgress, BindProgress,
              ValidatedBundleApplies, Idle, NoOp
<1>7. OthersWhole'
  BY <1>1, <1>2, <1>4 DEF OthersWhole, Operation, OwnsBundle
<1> QED BY <1>3, <1>4, <1>5, <1>6, <1>7 DEF Operation

(* Between operations the books of the operation under way are empty.      *)
LEMMA IdleStays ==
    ASSUME op = NoOp, UNCHANGED op
    PROVE  OpShape' /\ UnderWay' /\ ValidatedBundleApplies'
BY DEF OpShape, UnderWay, ReserveProgress, ResizeProgress, BindProgress,
       ValidatedBundleApplies, Idle, NoOp

(* What the page lists become when pages are taken.                        *)
LEMMA MaterializeTakes ==
    ASSUME Sides, NEW p \in Pools, NEW l \in Lanes, NEW pages \in Nat, CanMaterialize(p, l, pages),
           \E acquired \in TakePages(p, pages - Len(page_ids[p][l]), PreferredPage(p, l)) :
              MaterializeFrom(p, l, acquired),
           UNCHANGED <<entitled_pages, page_entitlement, allocated, bound_row>>
    PROVE  /\ PageSide' /\ PromiseSide' /\ InvalidHoldNothing' /\ MappedWithinPromise' /\ PromisesFit'
           /\ Len(page_ids'[p][l]) = pages /\ pages <= LogicalPageCapacity[p]
           /\ \A i \in 1 .. Len(page_ids[p][l]) : page_ids'[p][l][i] = page_ids[p][l][i]
           /\ \A q \in Pools, m \in Lanes : (q # p \/ m # l) => page_ids'[q][m] = page_ids[q][m]
<1> USE DEF Sides
<1>1. Len(page_ids[p][l]) < pages /\ pages <= page_entitlement[p][l] /\ l \in allocated[p]
  BY DEF CanMaterialize, Usable, OwnsBundle
<1>2. /\ PageSide' /\ Len(page_ids'[p][l]) = pages
      /\ \A i \in 1 .. Len(page_ids[p][l]) : page_ids'[p][l][i] = page_ids[p][l][i]
      /\ \A q \in Pools, m \in Lanes : (q # p \/ m # l) => page_ids'[q][m] = page_ids[q][m]
  <2>1. PICK acquired \in TakePages(p, pages - Len(page_ids[p][l]), PreferredPage(p, l)) :
           MaterializeFrom(p, l, acquired)
    OBVIOUS
  <2> QED BY <1>1, <2>1, MaterializeStep
<1>3. PromiseSide'
  BY PromiseSideStays
<1>4. InvalidHoldNothing'
  BY <1>1, <1>2 DEF Across, InvalidHoldNothing
<1>5. MappedWithinPromise' /\ PromisesFit'
  BY <1>1, <1>2 DEF Across, MappedWithinPromise, PromisesFit
<1>6. pages <= LogicalPageCapacity[p]
  <2>1. page_entitlement[p][l] <= LogicalPageCapacity[p] /\ page_entitlement[p][l] \in Nat
        /\ LogicalPageCapacity[p] \in Nat
    BY PoolAssumption DEF Across, PromisesFit, PromiseSide
  <2> QED BY <1>1, <2>1
<1> QED BY <1>2, <1>3, <1>4, <1>5, <1>6

(* materialize_pages publishes the new entries of a bound row.             *)
LEMMA MaterializeKeeps ==
    ASSUME Sides, NEW p \in Pools, NEW l \in Lanes, NEW pages \in Nat, Materialize(p, l, pages)
    PROVE  Sides'
<1> USE DEF Sides
<1> DEFINE s == page_ids[p][l]
           more == page_ids'[p][l]
<1>1. /\ CanMaterialize(p, l, pages) /\ op = NoOp
      /\ \E acquired \in TakePages(p, pages - Len(page_ids[p][l]), PreferredPage(p, l)) :
            MaterializeFrom(p, l, acquired)
      /\ UNCHANGED <<entitled_pages, page_entitlement, allocated, bound_row, row_in_use, faulted, op>>
  BY DEF Materialize, CanMaterialize, Usable, Idle
<1>2. /\ PageSide' /\ PromiseSide' /\ InvalidHoldNothing' /\ MappedWithinPromise' /\ PromisesFit'
      /\ Len(more) = pages /\ pages <= LogicalPageCapacity[p]
      /\ \A i \in 1 .. Len(s) : more[i] = s[i]
      /\ \A q \in Pools, m \in Lanes : (q # p \/ m # l) => page_ids'[q][m] = page_ids[q][m]
  BY <1>1, MaterializeTakes
<1>3. RowSide'
  BY <1>1, RowSideStays
<1>4. OpShape' /\ UnderWay' /\ ValidatedBundleApplies'
  BY <1>1, IdleStays
<1>5. OthersWhole'
  BY <1>1 DEF OthersWhole, Operation, Idle
<1>6. CASE bound_row[p][l] = NoRow
  <2>1. block_tables' = block_tables
    BY <1>6 DEF Materialize
  <2>2. RowsAreCurrent'
    BY <1>1, <1>2, <1>6, <2>1 DEF Across, RowsAreCurrent
  <2> QED BY <1>1, <1>2, <1>3, <1>4, <1>5, <2>1, <2>2 DEF Across, Operation, TableShape
<1>7. CASE bound_row[p][l] # NoRow
  <2> DEFINE row == [i \in 1 .. LogicalPageCapacity[p] |->
                        IF i \in Len(s) + 1 .. Len(more) THEN more[i] ELSE block_tables[p][l][i]]
  <2>1. bound_row[p][l] = l
    BY <1>7 DEF RowSide, RowsAreExclusive
  <2>2. block_tables' = [block_tables EXCEPT ![p][l] = row]
    BY <1>7, <2>1 DEF Materialize, Published
  <2>3. /\ more \in Seq(Nat) /\ Len(s) \in Nat /\ LogicalPageCapacity[p] \in Nat
        /\ block_tables[p][l] \in [1 .. LogicalPageCapacity[p] -> Int]
    BY <1>2, PoolAssumption DEF PageSide, PageShape, Across, TableShape
  <2>4. \A i \in 1 .. Len(more) : more[i] \in Int /\ i \in 1 .. LogicalPageCapacity[p]
    <3> HIDE DEF more
    <3> QED BY <1>2, <2>3, ElementOfSeq
  <2>5. row \in [1 .. LogicalPageCapacity[p] -> Int]
    <3> HIDE DEF more, s
    <3> QED BY <2>3, <2>4
  <2>6. l \notin faulted /\ \A i \in 1 .. Len(s) : block_tables[p][l][i] = s[i]
    BY <1>1, <1>7 DEF Across, RowsAreCurrent, CanMaterialize, Usable
  <2>7. \A i \in 1 .. Len(more) : row[i] = more[i]
    <3>1. ASSUME NEW i \in 1 .. Len(more) PROVE row[i] = more[i]
      <4>1. CASE i \in Len(s) + 1 .. Len(more)
        <5> HIDE DEF more, s
        <5> QED BY <4>1, <2>4
      <4>2. CASE i \notin Len(s) + 1 .. Len(more)
        <5>1. i \in 1 .. Len(s)
          <6> HIDE DEF more, s
          <6> QED BY <4>2, <2>3
        <5>2. more[i] = s[i] /\ block_tables[p][l][i] = s[i]
          BY <5>1, <1>2, <2>6
        <5>3. row[i] = block_tables[p][l][i]
          <6> HIDE DEF more, s
          <6> QED BY <4>2, <2>4
        <5> QED BY <5>2, <5>3
      <4> QED BY <4>1, <4>2
    <3> QED BY <3>1
  <2> HIDE DEF row
  <2>8. TableShape'
    BY <2>2, <2>5 DEF Across, TableShape
  <2>9. /\ block_tables'[p][l] = row
        /\ \A q \in Pools, m \in Lanes : (q # p \/ m # l) => block_tables'[q][m] = block_tables[q][m]
    BY <2>2 DEF Across, TableShape
  <2>10. RowsAreCurrent'
    <3>1. ASSUME NEW q \in Pools, NEW m \in Lanes \ faulted', bound_row'[q][m] # NoRow,
                 NEW i \in 1 .. Len(page_ids'[q][m])
          PROVE  block_tables'[q][m][i] = page_ids'[q][m][i]
      <4>1. CASE q = p /\ m = l
        BY <3>1, <4>1, <2>7, <2>9
      <4>2. CASE q # p \/ m # l
        <5>1. /\ bound_row[q][m] # NoRow /\ block_tables'[q][m] = block_tables[q][m]
              /\ page_ids'[q][m] = page_ids[q][m]
          BY <3>1, <4>2, <1>1, <1>2, <2>9
        <5> QED BY <3>1, <5>1, <1>1 DEF Across, RowsAreCurrent
      <4> QED BY <4>1, <4>2
    <3> QED BY <3>1 DEF RowsAreCurrent
  <2> QED BY <1>1, <1>2, <1>3, <1>4, <1>5, <2>8, <2>10 DEF Across, Operation
<1> QED BY <1>6, <1>7

(* A failed copy leaves a stale row, and a lane that must be cleared.      *)
LEMMA MaterializeThrowsKeeps ==
    ASSUME Sides, NEW p \in Pools, NEW l \in Lanes, NEW pages \in Nat, MaterializeThrows(p, l, pages)
    PROVE  Sides'
<1> USE DEF Sides
<1>1. /\ CanMaterialize(p, l, pages) /\ op = NoOp /\ faulted' = faulted \cup {l}
      /\ \E acquired \in TakePages(p, pages - Len(page_ids[p][l]), PreferredPage(p, l)) :
            MaterializeFrom(p, l, acquired)
      /\ UNCHANGED <<entitled_pages, page_entitlement, allocated, bound_row, row_in_use,
                     block_tables, op>>
  BY DEF MaterializeThrows, CanMaterialize, Usable, Idle, rowVars
<1>2. /\ PageSide' /\ PromiseSide' /\ InvalidHoldNothing' /\ MappedWithinPromise' /\ PromisesFit'
      /\ \A q \in Pools, m \in Lanes : (q # p \/ m # l) => page_ids'[q][m] = page_ids[q][m]
  BY <1>1, MaterializeTakes
<1>3. RowSide'
  BY <1>1, RowSideStays
<1>4. OpShape' /\ UnderWay' /\ ValidatedBundleApplies'
  BY <1>1, IdleStays
<1>5. OthersWhole'
  BY <1>1 DEF OthersWhole, Operation, Idle
<1>6. RowsAreCurrent'
  BY <1>1, <1>2 DEF Across, RowsAreCurrent
<1> QED BY <1>1, <1>2, <1>3, <1>4, <1>5, <1>6 DEF Across, Operation, TableShape

(* trim_sequence_kv keeps a prefix in every pool; the rows keep stale      *)
(* entries beyond it.                                                      *)
LEMMA TrimKeeps ==
    ASSUME Sides, NEW l \in Lanes, NEW keep \in Extents, Trim(l, keep)
    PROVE  Sides'
<1> USE DEF Sides
<1>1. /\ op = NoOp /\ OwnsBundle(l) /\ TrimPages(Pools, l, keep)
      /\ \A p \in Pools : keep[p] <= Len(page_ids[p][l])
      /\ UNCHANGED <<entitled_pages, page_entitlement, row_in_use, bound_row, block_tables,
                     allocated, faulted, op>>
  BY DEF Trim, Usable, Idle, rowVars
<1>2. \A p \in Pools : keep[p] \in Nat /\ Len(page_ids[p][l]) \in Nat
  <2>1. \A p \in Pools : PageGroupCount[p] \in Nat
    BY PoolAssumption
  <2>2. \A p \in Pools : keep[p] \in Nat
    BY <2>1 DEF Extents
  <2> QED BY <2>2 DEF PageSide, PageShape
<1>3. \A p \in Pools : keep[p] \in 0 .. Len(page_ids[p][l])
  BY <1>1, <1>2
<1>4. /\ PageSide'
      /\ \A p \in Pools : /\ Len(page_ids'[p][l]) = keep[p]
                          /\ \A i \in 1 .. keep[p] : page_ids'[p][l][i] = page_ids[p][l][i]
      /\ \A p \in Pools, m \in Lanes :
            (p \notin Pools \/ m # l) => page_ids'[p][m] = page_ids[p][m]
  BY <1>1, <1>3, TrimPagesStep
<1>5. PromiseSide' /\ RowSide'
  BY <1>1, PromiseSideStays, RowSideStays
<1>6. InvalidHoldNothing'
  BY <1>1, <1>4 DEF Across, InvalidHoldNothing, OwnsBundle
<1>7. MappedWithinPromise'
  <2>1. ASSUME NEW p \in Pools, NEW m \in Lanes PROVE Len(page_ids'[p][m]) <= page_entitlement[p][m]
    <3>1. Len(page_ids[p][m]) <= page_entitlement[p][m] /\ page_entitlement[p][m] \in Nat
      BY DEF Across, MappedWithinPromise, PromiseSide
    <3> QED BY <1>1, <1>2, <1>4, <3>1
  <2> QED BY <1>1, <2>1 DEF MappedWithinPromise
<1>8. RowsAreCurrent'
  <2>1. ASSUME NEW p \in Pools, NEW m \in Lanes \ faulted, bound_row[p][m] # NoRow,
               NEW i \in 1 .. Len(page_ids'[p][m])
        PROVE  block_tables[p][m][i] = page_ids'[p][m][i]
    <3>1. CASE m # l
      BY <2>1, <3>1, <1>4 DEF Across, RowsAreCurrent
    <3>2. CASE m = l
      <4>1. i \in 1 .. keep[p]
        BY <2>1, <3>2, <1>4
      <4>2. i \in 1 .. Len(page_ids[p][m])
        BY <3>2, <4>1, <1>1, <1>2
      <4> QED BY <2>1, <3>2, <4>1, <4>2, <1>4 DEF Across, RowsAreCurrent
    <3> QED BY <3>1, <3>2
  <2> QED BY <1>1, <2>1 DEF RowsAreCurrent
<1>9. OpShape' /\ UnderWay' /\ ValidatedBundleApplies'
  BY <1>1, IdleStays
<1>10. OthersWhole'
  BY <1>1 DEF OthersWhole, Operation, Idle
<1> QED BY <1>1, <1>4, <1>5, <1>6, <1>7, <1>8, <1>9, <1>10 DEF Across, Operation, TableShape, PromisesFit

(* release_sequence_growth_entitlement: a lane keeps what it has mapped.   *)
LEMMA CancelKeeps ==
    ASSUME Sides, NEW l \in Lanes, CancelUnmappedEntitlement(l)
    PROVE  Sides'
<1> USE DEF Sides
<1> DEFINE mapped == [p \in Pools |-> Len(page_ids[p][l])]
<1>1. /\ op = NoOp /\ OwnsBundle(l) /\ SetEntitlement(Pools, l, mapped)
      /\ UNCHANGED <<free_page_ids, mapped_pages, page_ids, row_in_use, bound_row, block_tables,
                     allocated, faulted, op>>
  BY DEF CancelUnmappedEntitlement, Usable, Idle, rowVars
<1>2. \A p \in Pools : mapped[p] = Len(page_ids[p][l]) /\ mapped[p] \in Nat
  BY DEF PageSide, PageShape
<1> HIDE DEF mapped
<1>3. /\ PromiseSide'
      /\ \A p \in Pools, m \in Lanes : page_entitlement'[p][m] =
            IF p \in Pools /\ m = l THEN mapped[p] ELSE page_entitlement[p][m]
      /\ \A p \in Pools : entitled_pages'[p] = NewTotal(p, l, mapped[p])
  <2> DEFINE P == Pools
  <2>1. SetEntitlement(P, l, mapped) /\ P \in SUBSET Pools /\ PromiseSide
    BY <1>1
  <2>2. \A p \in P : mapped[p] \in Nat
    BY <1>2
  <2>3. /\ PromiseSide'
        /\ \A p \in Pools, m \in Lanes : page_entitlement'[p][m] =
              IF p \in P /\ m = l THEN mapped[p] ELSE page_entitlement[p][m]
        /\ \A p \in P : entitled_pages'[p] = NewTotal(p, l, mapped[p])
    <3> HIDE DEF P
    <3> QED BY <2>1, <2>2, SetEntitlementStep
  <2> QED BY <2>3
<1>4. PageSide' /\ RowSide'
  BY <1>1, PageSideStays, RowSideStays
<1>5. InvalidHoldNothing'
  BY <1>1, <1>3 DEF Across, InvalidHoldNothing, OwnsBundle
<1>6. MappedWithinPromise'
  BY <1>1, <1>2, <1>3 DEF Across, MappedWithinPromise
<1>7. PromisesFit'
  <2>1. ASSUME NEW p \in Pools
        PROVE  entitled_pages'[p] <= PageGroupCount[p] /\ mapped[p] <= LogicalPageCapacity[p]
    <3>1. /\ entitled_pages[p] \in Nat /\ page_entitlement[p][l] \in Nat /\ PageGroupCount[p] \in Nat
          /\ LogicalPageCapacity[p] \in Nat
      BY PoolAssumption DEF PromiseSide
    <3>2. mapped[p] <= page_entitlement[p][l] /\ entitled_pages[p] <= PageGroupCount[p]
          /\ page_entitlement[p][l] <= LogicalPageCapacity[p]
      BY <1>2 DEF Across, MappedWithinPromise, PromisesFit
    <3> QED BY <1>2, <1>3, <3>1, <3>2 DEF NewTotal
  <2> QED BY <1>3, <2>1 DEF Across, PromisesFit
<1>8. RowsAreCurrent'
  BY <1>1 DEF Across, RowsAreCurrent
<1>9. OpShape' /\ UnderWay' /\ ValidatedBundleApplies'
  BY <1>1, IdleStays
<1>10. OthersWhole'
  BY <1>1 DEF OthersWhole, Operation, Idle
<1> QED BY <1>1, <1>3, <1>4, <1>5, <1>6, <1>7, <1>8, <1>9, <1>10 DEF Across, Operation, TableShape

(* unbind_sequence_kv unbinds the lane in every pool.                      *)
LEMMA UnbindKeeps ==
    ASSUME Sides, NEW l \in Lanes, Unbind(l)
    PROVE  Sides'
<1> USE DEF Sides
<1>1. /\ op = NoOp /\ UnbindRows(Pools, l)
      /\ UNCHANGED <<free_page_ids, mapped_pages, page_ids, entitled_pages, page_entitlement,
                     block_tables, allocated, faulted, op>>
  BY DEF Unbind, Usable, Idle, poolVars, handleVars
<1>2. /\ RowSide'
      /\ \A p \in Pools, m \in Lanes :
            bound_row'[p][m] = IF p \in Pools /\ m = l THEN NoRow ELSE bound_row[p][m]
  BY <1>1, UnbindRowsStep
<1>3. PageSide' /\ PromiseSide'
  BY <1>1, PageSideStays, PromiseSideStays
<1>4. InvalidHoldNothing'
  BY <1>1, <1>2 DEF Across, InvalidHoldNothing
<1>5. RowsAreCurrent'
  BY <1>1, <1>2 DEF Across, RowsAreCurrent
<1>6. MappedWithinPromise' /\ PromisesFit' /\ TableShape'
  BY <1>1 DEF Across, MappedWithinPromise, PromisesFit, TableShape
<1>7. OpShape' /\ UnderWay' /\ ValidatedBundleApplies'
  BY <1>1, IdleStays
<1>8. OthersWhole'
  BY <1>1, <1>2 DEF OthersWhole, Operation, Idle
<1> QED BY <1>1, <1>2, <1>3, <1>4, <1>5, <1>6, <1>7, <1>8 DEF Across, Operation

-----------------------------------------------------------------------------
(* The invariant of the pools.                                             *)

(* The initial pools: every page free, nothing promised, nothing bound.    *)
LEMMA InitSides == Init => Sides
<1> SUFFICES ASSUME Init PROVE Sides
  OBVIOUS
<1> USE DEF Init
<1>1. \A p \in Pools : PageGroupCount[p] \in Nat /\ LogicalPageCapacity[p] \in Nat
  BY PoolAssumption
<1>2. /\ \A p \in Pools, l \in Lanes : page_ids[p][l] = <<>> /\ Len(page_ids[p][l]) = 0
      /\ PageShape
  BY DEF PageShape
<1>3. \A p \in Pools, l \in Lanes : PagesOf(page_ids[p][l]) = {}
  BY <1>2 DEF PagesOf
<1>4. PagesOwnedOnce
  BY <1>2, <1>3 DEF PagesOwnedOnce, OwnedOnce
<1>5. ASSUME NEW lengths \in [Lanes -> {0}] PROVE Total(lengths) = 0
  <2>1. Units(lengths) = {}
    BY DEF Units
  <2> QED BY <2>1, FS_EmptySet DEF Total
<1>6. MappedIsSum
  <2>1. ASSUME NEW p \in Pools PROVE mapped_pages[p] = Total(Lengths(page_ids[p]))
    <3>1. Lengths(page_ids[p]) \in [Lanes -> {0}]
      BY <1>2 DEF Lengths
    <3> QED BY <3>1, <1>5
  <2> QED BY <2>1 DEF MappedIsSum
<1>7. EntitledIsSum
  <2>1. ASSUME NEW p \in Pools PROVE entitled_pages[p] = Total(page_entitlement[p])
    <3>1. page_entitlement[p] \in [Lanes -> {0}]
      OBVIOUS
    <3> QED BY <3>1, <1>5
  <2> QED BY <2>1 DEF EntitledIsSum
<1>8. PageSide
  BY <1>2, <1>4, <1>6 DEF PageSide, Pages
<1>9. PromiseSide
  BY <1>7 DEF PromiseSide
<1>10. RowSide
  BY DEF RowSide, RowsAreExclusive
<1>11. TableShape
  BY DEF TableShape, Unwritten
<1>12. InvalidHoldNothing /\ MappedWithinPromise /\ PromisesFit /\ RowsAreCurrent
  BY <1>1, <1>2 DEF InvalidHoldNothing, MappedWithinPromise, PromisesFit, RowsAreCurrent
<1>13. Across
  BY <1>11, <1>12 DEF Across
<1>14. OpShape /\ UnderWay /\ ValidatedBundleApplies
  BY DEF OpShape, UnderWay, ReserveProgress, ResizeProgress, BindProgress,
         ValidatedBundleApplies, Idle, NoOp
<1>15. OthersWhole
  BY DEF OthersWhole
<1> QED BY <1>8, <1>9, <1>10, <1>13, <1>14, <1>15 DEF Sides, Operation

(* The books balance after every operation, failed ones included.          *)
THEOREM PoolInvariant == Spec => []PoolInv
<1>1. Init => PoolInv
  BY InitSides, SidesMakeInvariant DEF Sides
<1>2. Sides' => PoolInv'
  <2>1. PoolInv <=> Sides
    BY SidesMakeInvariant DEF Sides
  <2> QED BY <2>1, PTL
<1>3. PoolInv /\ [Next]_vars => PoolInv'
  <2>1. SUFFICES ASSUME Sides, [Next]_vars PROVE Sides'
    BY <1>2, SidesMakeInvariant DEF Sides
  <2>2. CASE UNCHANGED vars
    <3>1. UNCHANGED <<poolVars, rowVars, handleVars, faulted, op>>
      BY <2>2 DEF vars
    <3>2. PageSide' /\ PromiseSide' /\ RowSide' /\ Across'
      BY <2>1, <3>1, PageSideStays, PromiseSideStays, RowSideStays, AcrossStays
         DEF Sides, poolVars, rowVars, handleVars
    <3>3. Operation'
      BY <2>1, <3>1 DEF Sides, Operation, OpShape, UnderWay, ReserveProgress, ResizeProgress,
                        BindProgress, OthersWhole, ValidatedBundleApplies, Idle, OwnsBundle,
                        CanReserve, CanReplaceEntitlement, poolVars, rowVars, handleVars
    <3> QED BY <3>2, <3>3 DEF Sides
  <2>3. CASE Next
    <3>1. CASE \E l \in Lanes, ask \in Extents : ReserveBegin(l, ask)
      BY <2>1, <3>1, ReserveBeginKeeps
    <3>2. CASE ReservePool
      BY <2>1, <3>2, ReservePoolKeeps
    <3>3. CASE ReserveThrows
      BY <2>1, <3>3, ReserveThrowsKeeps
    <3>4. CASE \E l \in Lanes :
                  Usable(l) /\ \E keep \in KeepableExtents(l) : \E ask \in Extents : ResizeBegin(l, keep, ask)
      BY <2>1, <3>4, ResizeBeginKeeps DEF KeepableExtents
    <3>5. CASE ResizePool
      BY <2>1, <3>5, ResizePoolKeeps
    <3>6. CASE \E l \in Lanes : BindBegin(l)
      BY <2>1, <3>6, BindBeginKeeps
    <3>7. CASE BindPool
      BY <2>1, <3>7, BindPoolKeeps
    <3>8. CASE BindDone
      BY <2>1, <3>8, BindDoneKeeps
    <3>9. CASE BindThrows
      BY <2>1, <3>9, BindThrowsKeeps
    <3>10. CASE \E p \in Pools, l \in Lanes : \E pages \in 1 .. LogicalPageCapacity[p] :
                   Materialize(p, l, pages) \/ MaterializeThrows(p, l, pages)
      <4>1. PICK p \in Pools, l \in Lanes : \E pages \in 1 .. LogicalPageCapacity[p] :
                   Materialize(p, l, pages) \/ MaterializeThrows(p, l, pages)
        BY <3>10
      <4>2. PICK pages \in 1 .. LogicalPageCapacity[p] :
                   Materialize(p, l, pages) \/ MaterializeThrows(p, l, pages)
        BY <4>1
      <4>3. pages \in Nat
        BY PoolAssumption
      <4> QED BY <2>1, <4>2, <4>3, MaterializeKeeps, MaterializeThrowsKeeps
    <3>11. CASE \E l \in Lanes : Usable(l) /\ \E keep \in KeepableExtents(l) : Trim(l, keep)
      BY <2>1, <3>11, TrimKeeps DEF KeepableExtents
    <3>12. CASE \E l \in Lanes : CancelUnmappedEntitlement(l) \/ Unbind(l) \/ Release(l)
      BY <2>1, <3>12, CancelKeeps, UnbindKeeps, ReleaseKeeps
    <3> QED BY <2>3, <3>1, <3>2, <3>3, <3>4, <3>5, <3>6, <3>7, <3>8, <3>9, <3>10, <3>11, <3>12
            DEF Next
  <2> QED BY <2>1, <2>2, <2>3
<1> QED BY <1>1, <1>3, PTL DEF Spec

(* take_pages, return_pages and replace_entitlement lose, share and        *)
(* overcommit no page, for any pool size and any number of lanes.          *)
THEOREM PagesAccounted == Spec => []PagesAreAccounted
BY PoolInvariant, PTL DEF PoolInv

(* A bound row shows exactly the pages of its lane, which is what kernels  *)
(* rely on, unless the lane's last device copy failed.                     *)
THEOREM TablesMatch == Spec => []TablesMatchMapping
BY PoolInvariant, PTL DEF PoolInv

(* An operation that was validated in every pool is refused in none.       *)
THEOREM ValidationSuffices == Spec => []ValidatedBundleApplies
BY PoolInvariant, PTL DEF PoolInv

(* Between operations a lane owns a whole bundle or none, also after       *)
(* reserve or bind has thrown half way.                                    *)
THEOREM BundlesAreWhole == Spec => []BundleAllOrNothing
<1>1. PoolInv => BundleAllOrNothing
  BY DEF PoolInv, OthersWhole, BundleAllOrNothing
<1> QED BY <1>1, PoolInvariant, PTL
=============================================================================
