\* Two owners, either policy, either kind of pool: partial exits, total losses
\* (resets), halved shares, surplus and donations, with the roles anywhere; own
\* vaults with enough tokens sent to them for a deposit to mint nothing, or for a
\* share to be worth more than an atom.
SPECIFICATION PoolsSpec
CONSTANTS
  Owners = {o1, o2}
  Policies = {"principal", "with_surplus"}
  OwnVaults = {TRUE, FALSE}
  DepositStart = 0
  DepositWindow = 1
  BootstrapDelay = 1
  MaxPrincipal = 6
  MaxInsurance = 6
  MaxVault = 90
  VaultMoves = {1, 3, 80}
  MaxEpoch = 1
  VirtualShares = 8
  MaxShares = 64
  MaxRescales = 3
  Voters = {}
  Sizes = {3}
  MarketMoves = {2}
  MaxSlot = 1
SYMMETRY OwnerSymmetry
INVARIANTS
  ExitsAreAdmissible
  ClaimsAreCovered
PROPERTIES
  ExitsMoveNoValue
  DepositsKeepClaims
CHECK_DEADLOCK FALSE
