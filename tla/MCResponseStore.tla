--------------------------- MODULE MCResponseStore ---------------------------
(* Instances of ResponseStore for TLC.                                     *)
EXTENDS ResponseStore, TLC

CONSTANTS p, q, r, s, t

(* p, q and s are small and alike, r carries a long turn, t is not stored. *)
(* Three small records break the record limit and not the byte limit; with *)
(* r the byte limit binds first.                                           *)
MCEnvelopes == [x \in Responses |-> 1]
MCNodes == [x \in Responses |-> IF x = r THEN 4 ELSE 1]
SmallAlike == Permutations({p, q, s})
=============================================================================
