----------------------------- MODULE MCPagedKVPool -----------------------------
(* Instances of PagedKVPool for TLC.                                       *)
EXTENDS PagedKVPool, TLC

(* Lanes are interchangeable: no operation compares them.                  *)
LaneSymmetry == Permutations(Lanes)

(* No operation reads the device's block tables, and a kernel reads only   *)
(* the mapped entries of a bound row: states that differ in other entries  *)
(* only are identified.                                                    *)
Readable ==
    [p \in Pools |-> [l \in Lanes |->
        IF bound_row[p][l] = NoRow THEN <<>>
        ELSE SubSeq(block_tables[p][l], 1, Len(page_ids[p][l]))]]

ReadableState == <<poolVars, row_in_use, bound_row, handleVars, faulted, op, Readable>>

(* A text pool of three pages whose rows hold two, so that the free pages  *)
(* fragment and a row is shorter than its pool, and a backend pool of two. *)
TwoPools == <<3, 2>>
TwoCapacities == <<2, 2>>
=============================================================================
