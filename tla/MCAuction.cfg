\* Three bidders for two slots; and books of three slots, legs from a few sizes, with
\* two larger bids that compete with <<7, 5>>: every strategy for a partial fill has
\* something to find.
SPECIFICATION MCSpec
CONSTANTS
  Bidders = {b1, b2, b3}
  MaxBids = 2
  RoundLength = 1
  Fee = 1
  Offers <- MCOffers
  Reserves <- MCReserves
  Coins = 3
  MaxBudget = 2
  MaxExcess = 2
  MaxSteps = 10
  MaxSlot = 3
  BookSlots = {1, 2, 3}
  BookBids <- MCBids
  LeastRates <- MCReserves
  Funds = {2, 3, 5, 6, 7, 22}
INVARIANTS
  AccountsBackTheBook
  TradesAreFair
  LeftoverBuysNothing
  ExecutableBidsTrade
PROPERTIES
  RoundsRunInFull
  BidsAreCommitted
  CommitmentsAreUnique
  ImplementsOffers
  BiddersGetOut
CHECK_DEADLOCK FALSE
