\* Three owners that put in 24 each, around a loss and a gain of 24.
SPECIFICATION InsuranceSpec
CONSTANTS
  Owners = {o1, o2, o3}
  Policies = {"principal"}
  OwnVaults = {FALSE}
  DepositStart = 0
  DepositWindow = 1
  BootstrapDelay = 1
  MaxPrincipal = 72
  MaxInsurance = 72
  MaxVault = 0
  VaultMoves = {}
  MaxEpoch = 0
  VirtualShares = 4
  MaxShares = 1000
  MaxRescales = 1
  Voters = {}
  Sizes = {24}
  MarketMoves = {24}
  MaxSlot = 1
SYMMETRY OwnerSymmetry
PROPERTIES
  ExitOrderIsIrrelevant
CHECK_DEADLOCK FALSE
