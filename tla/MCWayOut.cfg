\* Two owners, two proposals; time passes, and of the users only those are fair
\* that a property names.  No symmetry: liveness.
SPECIFICATION TimelySpec
CONSTANTS
  Null = Null
  Proposals = {p1, p2}
  Creators = {c1}
  Recipients = {r1}
  TotalSupply = 1
  ClaimWindow = 1
  MaxEntries = 1
  MaxBatch = 1
  Owners = {o1, o2}
  DepositStart = 0
  DepositWindow = 2
  BootstrapDelay = 2
  MaxPrincipal = 2
  MaxNonce = 1
  MaxWithheld = 1
  MaxSlot = 4
PROPERTIES
  RefundsComplete
  OwnersCanLeave
  WithheldVotesMatchIntent
CHECK_DEADLOCK FALSE
