------------------------------- MODULE Totals -------------------------------
(***************************************************************************)
(* The sum of a function's values over a finite set of its domain, written *)
(* as the number of units in it: <<x, i>> for every i in 1..f[x].  The     *)
(* quota keys are sums of reservations (budget, tokens); stated this way   *)
(* they need no recursion, so what they add up to can be proved.           *)
(***************************************************************************)
EXTENDS Integers, FiniteSets

Units(f, S) == UNION {{x} \X (1 .. f[x]) : x \in S}

Total(f, S) == Cardinality(Units(f, S))
=============================================================================
