------------------------------ MODULE MCCustody ------------------------------
(***************************************************************************)
(* TLC instances of Custody.                                                *)
(***************************************************************************)
EXTENDS Custody, TLC

\* Owners are interchangeable.
OwnerSymmetry == Permutations(Owners)
=============================================================================
