\* Two owners, a loss of everything, a late deposit and the resolution.
SPECIFICATION CustodySpec
CONSTANTS
  Owners = {o1, o2}
  Policies = {"principal"}
  OwnVaults = {FALSE}
  DepositStart = 0
  DepositWindow = 1
  BootstrapDelay = 1
  MaxPrincipal = 2
  MaxInsurance = 3
  MaxEpoch = 1
  VirtualShares = 2
  MaxShares = 12
  MaxRescales = 2
  Voters = {}
  Sizes = {1}
  MarketMoves = {1}
  MaxSlot = 1
  MaxFloor = 6
SYMMETRY OwnerSymmetry
INVARIANTS
  ReturnIsPermissionless
CHECK_DEADLOCK FALSE
