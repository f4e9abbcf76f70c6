-------------------------------- MODULE Sums --------------------------------
(***************************************************************************)
(* The total of a natural-valued function over a finite set, defined as     *)
(* the size of the disjoint union of its parts rather than by recursion, so *)
(* that facts about totals follow from facts about cardinalities.           *)
(***************************************************************************)
EXTENDS Naturals, FiniteSets

\* One element per unit that f gives to a member of S.
Units(f, S) == UNION { {x} \X (1 .. f[x]) : x \in S }

Total(f, S) == Cardinality(Units(f, S))
=============================================================================
