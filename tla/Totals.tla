-------------------------------- MODULE Totals --------------------------------
(* The sum of a function with natural numbers for values, over a finite    *)
(* domain: its units are counted.                                          *)
EXTENDS Integers, FiniteSets

Units(n) == UNION {{x} \X (1..n[x]) : x \in DOMAIN n}
TotalOf(n) == Cardinality(Units(n))
=============================================================================
