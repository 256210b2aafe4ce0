------------------------------ MODULE PagedKVPool ------------------------------
(***************************************************************************)
(* core/paged_kv_cache.cpp and the bundle helpers of program_impl.h: the   *)
(* physical KV pages of one or two pools (the text cache and the cache of  *)
(* the speculative backend), the allocations that the request lanes own in *)
(* them, and the device block tables through which kernels find the pages. *)
(*                                                                         *)
(* A lane owns one allocation in every pool, or none: its bundle.  The     *)
(* operations of a bundle touch the pools one after the other, and a step  *)
(* may throw (host allocation, CUDA copy); `op` is the operation under     *)
(* way.  All calls come from the one worker thread, so operations do not   *)
(* interleave, but any legal sequence of them may occur.  The contents of  *)
(* the pages are not modelled.                                             *)
(***************************************************************************)
EXTENDS Integers, Sequences, FiniteSets, Totals

CONSTANTS
    Lanes,               \* request lanes; lane l uses row l of every block table
    NumPools,            \* 1: text only; 2: text and speculative backend
    PageGroupCount,      \* physical page groups of each pool
    LogicalPageCapacity  \* entries of a block-table row of each pool

Pools == 1 .. NumPools
Text == 1

ASSUME PoolAssumption ==
    /\ IsFiniteSet(Lanes)
    /\ NumPools \in {1, 2}
    /\ PageGroupCount \in [Pools -> Nat \ {0}]
    /\ LogicalPageCapacity \in [Pools -> Nat \ {0}]

VARIABLES
    free_page_ids,     \* PagedKVPool: the free pages; the vector is kept sorted
    row_in_use, entitled_pages, mapped_pages,
    block_tables,      \* the device copy, per pool and row
    allocated,         \* PagedKVAllocation: the lanes whose handle is valid()
    page_ids, page_entitlement, bound_row,
    faulted,           \* lanes whose last operation threw; they are cleared next
    op                 \* the bundle operation under way

poolVars   == <<free_page_ids, entitled_pages, mapped_pages>>
rowVars    == <<row_in_use, bound_row, block_tables>>
handleVars == <<allocated, page_ids, page_entitlement>>
vars == <<poolVars, rowVars, handleVars, faulted, op>>

NoRow     == "none"
Unwritten == -1
NoOp      == [kind |-> "none"]
Pages(p)  == 0 .. PageGroupCount[p] - 1

ASSUME NoRowAssumption == NoRow \notin Lanes

Init ==
    /\ free_page_ids = [p \in Pools |-> Pages(p)]
    /\ entitled_pages = [p \in Pools |-> 0] /\ mapped_pages = [p \in Pools |-> 0]
    /\ row_in_use = [p \in Pools |-> {}]
    /\ block_tables = [p \in Pools |->
                          [l \in Lanes |-> [i \in 1 .. LogicalPageCapacity[p] |-> Unwritten]]]
    /\ allocated = [p \in Pools |-> {}]
    /\ page_ids = [p \in Pools |-> [l \in Lanes |-> <<>>]]
    /\ page_entitlement = [p \in Pools |-> [l \in Lanes |-> 0]]
    /\ bound_row = [p \in Pools |-> [l \in Lanes |-> NoRow]]
    /\ faulted = {} /\ op = NoOp

-----------------------------------------------------------------------------
(* PagedKVPool.                                                            *)

CanReserve(p, pages) ==
    /\ pages # 0 /\ pages <= LogicalPageCapacity[p]
    /\ pages <= PageGroupCount[p] - entitled_pages[p]

(* Faulty variant: the old entitlement counts as free twice.               *)
CanReplaceLoosely(p, old, new) ==
    /\ old <= entitled_pages[p] /\ new <= LogicalPageCapacity[p]
    /\ new <= PageGroupCount[p] - (entitled_pages[p] - old) + old

CanReplaceEntitlement(p, old, new) ==
    /\ old <= entitled_pages[p] /\ new <= LogicalPageCapacity[p]
    /\ new <= PageGroupCount[p] - (entitled_pages[p] - old)

RunAt(p, first, count) == first .. first + count - 1 \subseteq free_page_ids[p]

(* The pages take_pages selects: the run that continues the allocation,    *)
(* else the first run that is long enough, else the lowest free pages.     *)
SelectedPages(p, count, preferred) ==
    LET runs == {b \in free_page_ids[p] : RunAt(p, b, count)}
    IN  IF preferred \in runs THEN preferred .. preferred + count - 1
        ELSE IF runs # {}
        THEN LET b == CHOOSE b \in runs : \A c \in runs : b <= c
             IN  b .. b + count - 1
        ELSE {x \in free_page_ids[p] :
                 Cardinality({y \in free_page_ids[p] : y < x}) < count}

(* take_pages returns them in ascending order (the one element of the set).*)
TakePages(p, count, preferred) ==
    {s \in [1 .. count -> SelectedPages(p, count, preferred)] :
        \A i, j \in 1 .. count : i < j => s[i] < s[j]}

PagesOf(s) == {s[i] : i \in 1 .. Len(s)}

(* The page a longer allocation would like to continue with.               *)
PreferredPage(p, l) ==
    LET s == page_ids[p][l] IN IF s = <<>> THEN -1 ELSE s[Len(s)] + 1

-----------------------------------------------------------------------------
(* What an operation does to the allocation of lane l in the pools P.      *)

Kept(p, l, n) == SubSeq(page_ids[p][l], 1, n)
Cut(p, l, n)  == PagesOf(page_ids[p][l]) \ PagesOf(Kept(p, l, n))

(* trim_pages and return_pages.                                            *)
TrimPages(P, l, keep) ==
    /\ free_page_ids' = [p \in Pools |-> IF p \in P THEN free_page_ids[p] \cup Cut(p, l, keep[p])
                                         ELSE free_page_ids[p]]
    /\ mapped_pages' = [p \in Pools |-> IF p \in P
                                        THEN mapped_pages[p] - (Len(page_ids[p][l]) - keep[p])
                                        ELSE mapped_pages[p]]
    /\ page_ids' = [p \in Pools |-> IF p \in P
                                    THEN [page_ids[p] EXCEPT ![l] = Kept(p, l, keep[p])]
                                    ELSE page_ids[p]]

(* replace_entitlement.                                                    *)
SetEntitlement(P, l, pages) ==
    /\ page_entitlement' = [p \in Pools |-> IF p \in P
                                            THEN [page_entitlement[p] EXCEPT ![l] = pages[p]]
                                            ELSE page_entitlement[p]]
    /\ entitled_pages' = [p \in Pools |-> IF p \in P
                                          THEN entitled_pages[p] - page_entitlement[p][l] + pages[p]
                                          ELSE entitled_pages[p]]

(* unbind_row: nothing happens to an allocation that is not bound.         *)
UnbindRows(P, l) ==
    /\ row_in_use' = [p \in Pools |-> IF p \in P THEN row_in_use[p] \ {bound_row[p][l]}
                                      ELSE row_in_use[p]]
    /\ bound_row' = [p \in Pools |-> IF p \in P THEN [bound_row[p] EXCEPT ![l] = NoRow]
                                     ELSE bound_row[p]]

(* publish_range: entries first .. Len(s) of the row are written.          *)
Published(p, row, first, s) ==
    [block_tables EXCEPT ![p][row] =
        [i \in 1 .. LogicalPageCapacity[p] |-> IF i \in first .. Len(s) THEN s[i] ELSE @[i]]]

(* release: the handle gives everything back and becomes invalid.          *)
ReleaseHandles(P, l) ==
    /\ UnbindRows(P, l)
    /\ TrimPages(P, l, [p \in Pools |-> 0])
    /\ SetEntitlement(P, l, [p \in Pools |-> 0])
    /\ allocated' = [p \in Pools |-> IF p \in P THEN allocated[p] \ {l} ELSE allocated[p]]

-----------------------------------------------------------------------------
(* reserve_sequence_kv and reserve_paged_kv_bundle.                        *)

Idle == op = NoOp
OwnsBundle(l) == \A p \in Pools : l \in allocated[p]
Usable(l) == Idle /\ OwnsBundle(l) /\ l \notin faulted

Started(kind, l, keep, ask) ==
    op' = [kind |-> kind, lane |-> l, keep |-> keep, ask |-> ask, next |-> 1]

NextPool == op' = IF op.next = NumPools THEN NoOp ELSE [op EXCEPT !.next = @ + 1]

(* Faulty variant: only the first pool is asked before the bundle is made. *)
ReserveBeginFirstOnly(l, ask) ==
    /\ Idle /\ l \notin faulted
    /\ \A p \in Pools : l \notin allocated[p]
    /\ CanReserve(Text, ask[Text])
    /\ Started("reserve", l, ask, ask)
    /\ UNCHANGED <<poolVars, rowVars, handleVars, faulted>>

(* Every pool is asked before any is changed.                              *)
ReserveBegin(l, ask) ==
    /\ Idle /\ l \notin faulted
    /\ \A p \in Pools : l \notin allocated[p]
    /\ \A p \in Pools : CanReserve(p, ask[p])
    /\ Started("reserve", l, ask, ask)
    /\ UNCHANGED <<poolVars, rowVars, handleVars, faulted>>

ReservePool ==
    /\ op.kind = "reserve"
    /\ CanReserve(op.next, op.ask[op.next])
    /\ SetEntitlement({op.next}, op.lane, op.ask)
    /\ allocated' = [allocated EXCEPT ![op.next] = @ \cup {op.lane}]
    /\ NextPool
    /\ UNCHANGED <<free_page_ids, mapped_pages, page_ids, rowVars, faulted>>

(* Faulty variant: the handles made so far are leaked.                     *)
ReserveThrowsLeaking ==
    /\ op.kind = "reserve"
    /\ op' = NoOp
    /\ UNCHANGED <<poolVars, rowVars, handleVars, faulted>>

(* PagedKVAllocation's constructor or reserve throws: the handles already  *)
(* in the vector are destroyed.                                            *)
ReserveThrows ==
    /\ op.kind = "reserve"
    /\ ReleaseHandles(1 .. op.next - 1, op.lane)
    /\ op' = NoOp
    /\ UNCHANGED <<block_tables, faulted>>

-----------------------------------------------------------------------------
(* resize_paged_kv_bundle: validate everything, then apply.                *)

ResizeBegin(l, keep, ask) ==
    /\ Usable(l)
    /\ \A p \in Pools :
          /\ ask[p] # 0
          /\ keep[p] <= Len(page_ids[p][l]) /\ keep[p] <= ask[p]
          /\ CanReplaceEntitlement(p, page_entitlement[p][l], ask[p])
    /\ Started("resize", l, keep, ask)
    /\ UNCHANGED <<poolVars, rowVars, handleVars, faulted>>

ResizePool ==
    /\ op.kind = "resize"
    /\ CanReplaceEntitlement(op.next, page_entitlement[op.next][op.lane], op.ask[op.next])
    /\ TrimPages({op.next}, op.lane, op.keep)
    /\ SetEntitlement({op.next}, op.lane, op.ask)
    /\ NextPool
    /\ UNCHANGED <<rowVars, allocated, faulted>>

-----------------------------------------------------------------------------
(* bind_sequence_kv: text, backend, then the row selectors on the device.  *)

BindBegin(l) ==
    /\ Usable(l)
    /\ \A p \in Pools : bound_row[p][l] = NoRow
    /\ Started("bind", l, <<>>, <<>>)
    /\ UNCHANGED <<poolVars, rowVars, handleVars, faulted>>

(* acquire_row refuses a row that is in use.                               *)
AcquireRow(p, l) ==
    /\ l \notin row_in_use[p]
    /\ row_in_use' = [row_in_use EXCEPT ![p] = @ \cup {l}]
    /\ bound_row' = [bound_row EXCEPT ![p][l] = l]

BindPool ==
    /\ op.kind = "bind" /\ op.next \in Pools
    /\ AcquireRow(op.next, op.lane)
    /\ block_tables' = Published(op.next, op.lane, 1, page_ids[op.next][op.lane])
    /\ op' = [op EXCEPT !.next = @ + 1]
    /\ UNCHANGED <<poolVars, handleVars, faulted>>

BindDone ==
    /\ op.kind = "bind" /\ op.next = NumPools + 1
    /\ op' = NoOp
    /\ UNCHANGED <<poolVars, rowVars, handleVars, faulted>>

(* A copy to the device fails.  The text row is bound outside the try      *)
(* block and stays bound; later failures unbind what was bound.            *)
BindThrows ==
    /\ op.kind = "bind"
    /\ \/ op.next = Text /\ AcquireRow(Text, op.lane)
       \/ op.next > Text /\ UnbindRows(Pools, op.lane)
    /\ faulted' = faulted \cup {op.lane}
    /\ op' = NoOp
    /\ UNCHANGED <<poolVars, block_tables, handleVars>>

-----------------------------------------------------------------------------
(* materialize_pages up to `pages`.                                        *)

MaterializeFrom(p, l, acquired) ==
    /\ free_page_ids' = [free_page_ids EXCEPT ![p] = @ \ PagesOf(acquired)]
    /\ mapped_pages' = [mapped_pages EXCEPT ![p] = @ + Len(acquired)]
    /\ page_ids' = [page_ids EXCEPT ![p][l] = @ \o acquired]

CanMaterialize(p, l, pages) ==
    /\ Usable(l)
    /\ Len(page_ids[p][l]) < pages /\ pages <= page_entitlement[p][l]
    /\ pages - Len(page_ids[p][l]) <= Cardinality(free_page_ids[p])

(* Faulty variant: new pages are not published in the block table.         *)
MaterializeUnpublished(p, l, pages) ==
    /\ CanMaterialize(p, l, pages)
    /\ \E acquired \in TakePages(p, pages - Len(page_ids[p][l]), PreferredPage(p, l)) :
          MaterializeFrom(p, l, acquired)
    /\ UNCHANGED <<entitled_pages, rowVars, allocated, page_entitlement, faulted, op>>

Materialize(p, l, pages) ==
    /\ CanMaterialize(p, l, pages)
    /\ \E acquired \in TakePages(p, pages - Len(page_ids[p][l]), PreferredPage(p, l)) :
          MaterializeFrom(p, l, acquired)
    /\ block_tables' = IF bound_row[p][l] = NoRow THEN block_tables
                       ELSE Published(p, bound_row[p][l], Len(page_ids[p][l]) + 1,
                                      page_ids'[p][l])
    /\ UNCHANGED <<entitled_pages, row_in_use, bound_row, allocated, page_entitlement,
                   faulted, op>>

(* The pages are taken, but the copy of the new table entries fails.       *)
MaterializeThrows(p, l, pages) ==
    /\ CanMaterialize(p, l, pages)
    /\ bound_row[p][l] # NoRow
    /\ \E acquired \in TakePages(p, pages - Len(page_ids[p][l]), PreferredPage(p, l)) :
          MaterializeFrom(p, l, acquired)
    /\ faulted' = faulted \cup {l}
    /\ UNCHANGED <<entitled_pages, rowVars, allocated, page_entitlement, op>>

-----------------------------------------------------------------------------
(* trim_sequence_kv, release_sequence_growth_entitlement,                  *)
(* unbind_sequence_kv and clear_lane.                                      *)

(* The backend never keeps more than the text cache.                       *)
Trim(l, keep) ==
    /\ Usable(l)
    /\ \A p \in Pools : keep[p] <= Len(page_ids[p][l]) /\ keep[p] <= keep[Text]
    /\ TrimPages(Pools, l, keep)
    /\ UNCHANGED <<entitled_pages, rowVars, allocated, page_entitlement, faulted, op>>

CancelUnmappedEntitlement(l) ==
    /\ Usable(l)
    /\ SetEntitlement(Pools, l, [p \in Pools |-> Len(page_ids[p][l])])
    /\ UNCHANGED <<free_page_ids, mapped_pages, rowVars, allocated, page_ids, faulted, op>>

Unbind(l) ==
    /\ Usable(l)
    /\ UnbindRows(Pools, l)
    /\ UNCHANGED <<poolVars, block_tables, handleVars, faulted, op>>

Release(l) ==
    /\ Idle /\ OwnsBundle(l)
    /\ ReleaseHandles(Pools, l)
    /\ faulted' = faulted \ {l}
    /\ UNCHANGED <<block_tables, op>>

-----------------------------------------------------------------------------
Extents == {e \in [Pools -> UNION {0 .. PageGroupCount[p] : p \in Pools}] :
               \A p \in Pools : e[p] <= PageGroupCount[p]}

(* What a lane may keep: at most the pages it has mapped.                  *)
KeepableExtents(l) == {e \in Extents : \A p \in Pools : e[p] <= Len(page_ids[p][l])}

Next ==
    \/ \E l \in Lanes, ask \in Extents : ReserveBegin(l, ask)
    \/ ReservePool \/ ReserveThrows
    \/ \E l \in Lanes :
          Usable(l) /\ \E keep \in KeepableExtents(l) : \E ask \in Extents : ResizeBegin(l, keep, ask)
    \/ ResizePool
    \/ \E l \in Lanes : BindBegin(l)
    \/ BindPool \/ BindDone \/ BindThrows
    \/ \E p \in Pools, l \in Lanes : \E pages \in 1 .. LogicalPageCapacity[p] :
          Materialize(p, l, pages) \/ MaterializeThrows(p, l, pages)
    \/ \E l \in Lanes : Usable(l) /\ \E keep \in KeepableExtents(l) : Trim(l, keep)
    \/ \E l \in Lanes : CancelUnmappedEntitlement(l) \/ Unbind(l) \/ Release(l)

Spec == Init /\ [][Next]_vars

-----------------------------------------------------------------------------
(* Properties.                                                             *)

TypeOK ==
    /\ free_page_ids \in [Pools -> SUBSET UNION {Pages(p) : p \in Pools}]
    /\ row_in_use \in [Pools -> SUBSET Lanes] /\ allocated \in [Pools -> SUBSET Lanes]
    /\ entitled_pages \in [Pools -> Nat] /\ mapped_pages \in [Pools -> Nat]
    /\ page_entitlement \in [Pools -> [Lanes -> Nat]]
    /\ bound_row \in [Pools -> [Lanes -> Lanes \cup {NoRow}]]
    /\ faulted \subseteq Lanes

(* Every physical page is free or mapped by exactly one place of one       *)
(* allocation, through every mixture of runs, fragments, trims and         *)
(* releases (take_pages, return_pages): no page is lost or shared.         *)
OwnedOnce(free, held, all) ==
    /\ free \cup UNION {PagesOf(held[l]) : l \in Lanes} = all
    /\ \A l \in Lanes : PagesOf(held[l]) \cap free = {}
    /\ \A l, m \in Lanes : l # m => PagesOf(held[l]) \cap PagesOf(held[m]) = {}
    /\ \A l \in Lanes : \A i, j \in 1 .. Len(held[l]) : held[l][i] = held[l][j] => i = j

PagesOwnedOnce == \A p \in Pools : OwnedOnce(free_page_ids[p], page_ids[p], Pages(p))

Lengths(held) == [l \in Lanes |-> Len(held[l])]

EntitledIsSum == \A p \in Pools : entitled_pages[p] = Total(page_entitlement[p])
MappedIsSum   == \A p \in Pools : mapped_pages[p] = Total(Lengths(page_ids[p]))

InvalidHoldNothing ==
    \A p \in Pools : \A l \in Lanes \ allocated[p] :
        page_entitlement[p][l] = 0 /\ page_ids[p][l] = <<>> /\ bound_row[p][l] = NoRow

(* The pool's running totals are the sums over its allocations; only a     *)
(* valid allocation holds anything.                                        *)
TotalsAreSums == EntitledIsSum /\ MappedIsSum /\ InvalidHoldNothing

MappedWithinPromise ==
    \A p \in Pools : \A l \in Lanes : Len(page_ids[p][l]) <= page_entitlement[p][l]

(* A granted entitlement can always be mapped: the pages promised to all   *)
(* allocations and not mapped yet are free, so take_pages never throws     *)
(* "Paged KV entitlement could not be materialized".                       *)
EntitlementIsBacked ==
    /\ MappedWithinPromise
    /\ \A p \in Pools : entitled_pages[p] - mapped_pages[p] <= Cardinality(free_page_ids[p])

(* The books of every pool balance: no page is lost or shared, the running *)
(* totals are the sums over the allocations, and what has been promised    *)
(* can be mapped (reserve, replace_entitlement, take_pages, return_pages). *)
PagesAreAccounted == TypeOK /\ PagesOwnedOnce /\ TotalsAreSums /\ EntitlementIsBacked

RowsAreExclusive ==
    \A p \in Pools :
        /\ row_in_use[p] = {l \in Lanes : bound_row[p][l] # NoRow}
        /\ \A l \in Lanes : bound_row[p][l] \in {l, NoRow}

RowsAreCurrent ==
    \A p \in Pools : \A l \in Lanes \ faulted :
        bound_row[p][l] # NoRow =>
           \A i \in 1 .. Len(page_ids[p][l]) : block_tables[p][l][i] = page_ids[p][l][i]

(* A kernel that reads a bound row finds exactly the pages the lane has    *)
(* mapped, although rows are reused and keep stale entries beyond them;    *)
(* a row in use belongs to the one allocation that is bound to it.         *)
TablesMatchMapping == RowsAreExclusive /\ RowsAreCurrent

(* "Reserves every requested pool or leaves all pools unchanged": between  *)
(* operations, failed ones included, a lane owns an allocation in every    *)
(* pool or in none and, unless the failure is being cleaned up, is bound   *)
(* in every pool or in none.                                               *)
BundleAllOrNothing ==
    Idle => \A l \in Lanes : \A p, q \in Pools :
        /\ l \in allocated[p] <=> l \in allocated[q]
        /\ l \notin faulted => (bound_row[p][l] = NoRow <=> bound_row[q][l] = NoRow)

(* A bundle operation that passed its validation cannot be refused by the  *)
(* pool it comes to second: reserve, set_page_entitlement and acquire_row  *)
(* repeat their checks and would throw with the bundle half changed.       *)
ValidatedBundleApplies ==
    LET Left == {p \in Pools : p >= op.next}
    IN  /\ op.kind = "reserve" => \A p \in Left : CanReserve(p, op.ask[p])
        /\ op.kind = "resize" => \A p \in Left :
              /\ op.keep[p] <= Len(page_ids[p][op.lane]) /\ op.keep[p] <= op.ask[p]
              /\ CanReplaceEntitlement(p, page_entitlement[p][op.lane], op.ask[p])
        /\ op.kind = "bind" => \A p \in Left : op.lane \notin row_in_use[p]

-----------------------------------------------------------------------------
(* The inductive invariant.                                                *)

(* What TypeOK leaves out: pages are numbers, tables have their width, and *)
(* an operation under way has a lane, a pool and, in a reserve or resize,  *)
(* the extents that were validated.                                        *)
OpShape ==
    \/ op = NoOp
    \/ op \in [kind : {"reserve", "resize"}, lane : Lanes, keep : Extents, ask : Extents,
              next : Pools]
    \/ op \in [kind : {"bind"}, lane : Lanes, keep : {<<>>}, ask : {<<>>}, next : 1 .. NumPools + 1]

PageShape  == page_ids \in [Pools -> [Lanes -> Seq(Nat)]]
TableShape ==
    /\ block_tables = [p \in Pools |-> block_tables[p]]
    /\ \A p \in Pools : block_tables[p] \in [Lanes -> [1 .. LogicalPageCapacity[p] -> Int]]

(* No pool promises more than it has, and no lane is promised more than    *)
(* its row of the block table can show.                                    *)
PromisesFit ==
    \A p \in Pools :
        /\ entitled_pages[p] <= PageGroupCount[p]
        /\ \A l \in Lanes : page_entitlement[p][l] <= LogicalPageCapacity[p]

(* How far the operation under way has come: the pools before op.next have *)
(* the new allocation (reserve) or the bound row (bind), the others not.   *)
ReserveProgress ==
    op.kind = "reserve" =>
        \A p \in Pools : bound_row[p][op.lane] = NoRow /\ (op.lane \in allocated[p] <=> p < op.next)
ResizeProgress ==
    op.kind = "resize" =>
        /\ OwnsBundle(op.lane)
        /\ \A p, q \in Pools : bound_row[p][op.lane] = NoRow <=> bound_row[q][op.lane] = NoRow
BindProgress ==
    op.kind = "bind" =>
        /\ OwnsBundle(op.lane)
        /\ \A p \in Pools : bound_row[p][op.lane] # NoRow <=> p < op.next
UnderWay ==
    /\ ~ Idle => op.lane \notin faulted
    /\ ReserveProgress /\ ResizeProgress /\ BindProgress

(* BundleAllOrNothing, kept during operations by every lane but op.lane.   *)
OthersWhole ==
    \A l \in Lanes : (Idle \/ op.lane # l) =>
        \A p, q \in Pools :
            /\ l \in allocated[p] <=> l \in allocated[q]
            /\ l \notin faulted => (bound_row[p][l] = NoRow <=> bound_row[q][l] = NoRow)

PoolInv ==
    /\ PagesAreAccounted /\ TablesMatchMapping /\ ValidatedBundleApplies
    /\ OpShape /\ PageShape /\ TableShape /\ PromisesFit /\ UnderWay /\ OthersWhole
=============================================================================
