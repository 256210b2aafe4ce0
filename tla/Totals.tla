-------------------------------- MODULE Totals --------------------------------
(***************************************************************************)
(* The total of a function from a finite set to the naturals, counted:     *)
(* x contributes the units <<x, 1>> .. <<x, f[x]>>.                        *)
(***************************************************************************)
EXTENDS Naturals, FiniteSets

Units(f) == UNION {{x} \X (1 .. f[x]) : x \in DOMAIN f}

Total(f) == Cardinality(Units(f))
=============================================================================
