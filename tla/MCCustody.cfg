\* Two owners, one of them a voter, with public cranks fair and governance and
\* owners not: handoffs, pulls, returns by governance, by the public and by
\* leaving owners, interleaved with losses and resolution.  Shares never run
\* short here: run principal halves them.  No symmetry: liveness.
SPECIFICATION FairCustodySpec
CONSTANTS
  Owners = {o1, o2}
  Policies = {"principal"}
  OwnVaults = {FALSE}
  DepositStart = 0
  DepositWindow = 1
  BootstrapDelay = 1
  MaxPrincipal = 2
  MaxInsurance = 3
  MaxEpoch = 1
  VirtualShares = 2
  MaxShares = 30
  MaxRescales = 0
  Voters = {o1}
  Sizes = {1}
  MarketMoves = {1}
  MaxSlot = 1
  MaxFloor = 6
INVARIANTS
  FloorCoversPrincipal
PROPERTIES
  PullsLeaveClaims
  ImplementsLedger
  AuctionResumes
  OwedArePaidOff
CHECK_DEADLOCK FALSE
