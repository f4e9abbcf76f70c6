--------------------------- MODULE MCGenesisVote ---------------------------
(***************************************************************************)
(* TLC instances of GenesisVote.                                            *)
(***************************************************************************)
EXTENDS GenesisVote, TLC

\* Owners are interchangeable.
OwnerSymmetry == Permutations(Owners)
=============================================================================
