-------------------------- MODULE MCInsurancePool --------------------------
(***************************************************************************)
(* TLC instances of InsurancePool and OwnVault.                             *)
(***************************************************************************)
EXTENDS OwnVault, TLC

\* Owners are interchangeable.
OwnerSymmetry == Permutations(Owners)
=============================================================================
