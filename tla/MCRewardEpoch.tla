---------------------------- MODULE MCRewardEpoch ----------------------------
(***************************************************************************)
(* TLC instances of RewardEpoch.                                            *)
(***************************************************************************)
EXTENDS RewardEpoch, TLC

\* The long division agrees with the exact quotient on all inputs of a small
\* width.
ASSUME SplitIsExact ==
  \A supply \in 0 .. 2^SupplyBits - 1 : \A total \in 1 .. PointLimit - 1 :
    \A points \in 0 .. total : LongDivision(supply, points, total) = (supply * points) \div total
=============================================================================
