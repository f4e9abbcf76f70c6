\* Two insurance positions that share a cohort, a backing position alone, and a
\* portfolio in each of the flow cohorts.  Products of supply and points overflow
\* from 16.
SPECIFICATION RewardSpec
CONSTANTS
  PointLimit = 16
  SupplyBits = 6
  InsurancePositions = {i1, i2}
  BackingPositions = {b1}
  Portfolios = {p1}
  Rosters = {{i1, i2}, {b1}, {p1, "lp"}, {p1, "trader"}, {p1, "funding"}}
  EpochStart = 0
  EpochEnd = 4
  FinalizeWindow = 4
  Bps = 5
  InsuranceBps = 1
  BackingBps = 1
  LpBps = 1
  FundingPayerBps = 1
  FeeBps = 2
  Supplies = {0, 45}
  MintSupply = 45
  MaxPrincipal = 2
  MaxFlow = 2
  MaxPortfolioId = 2
  Stride = 2
  MaxSlot = 8
INVARIANTS
  TotalsMatchStakes
  RewardsAreCovered
  RewardsAreEarned
PROPERTIES
  OnlyOwnersForfeit
CHECK_DEADLOCK FALSE
