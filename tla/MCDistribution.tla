-------------------------- MODULE MCDistribution --------------------------
(***************************************************************************)
(* TLC instances of Distribution.                                           *)
(***************************************************************************)
EXTENDS Distribution, TLC

\* Creators and recipients are interchangeable.
Symmetry == Permutations(Creators) \cup Permutations(Recipients)
=============================================================================
