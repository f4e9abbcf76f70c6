--------------------------- MODULE MCSurplusRounds ---------------------------
(***************************************************************************)
(* TLC instance of SurplusRounds.                                           *)
(***************************************************************************)
EXTENDS SurplusRounds, TLC
=============================================================================
