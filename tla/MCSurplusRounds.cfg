\* Rounds, policies, handovers, and the pool's payouts and top-ups of every size,
\* however the domains are filled and reserved.
\* Bounds: insurance of 4 atoms, so that a third of a surplus leaves each remainder;
\* shares of thirds: the two routes alone, together and none of them.
SPECIFICATION RoundsSpec
CONSTANTS
  MaxInsurance = 4
  MaxReserved = 1
  Whole = 3
  MaxFloor = 5
  MaxBought = 1
  DefaultBurn = 1
  Burns = {0, 1, 3}
  Savings = {0, 1}
  Buybacks = {1}
INVARIANTS
  EveryMoveHasAPlan
  SharesArePaid
PROPERTIES
  MovesAreNeutral
CHECK_DEADLOCK FALSE
