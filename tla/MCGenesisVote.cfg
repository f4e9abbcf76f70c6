\* Three owners and two rival proposals: tallies, locks, quorum, the decision
\* and the refunds, in every order; proposals registered full, half full or not
\* at all.  No vote is withheld.
SPECIFICATION Spec
CONSTANTS
  Null = Null
  Proposals = {p1, p2}
  Creators = {c1}
  Recipients = {r1}
  TotalSupply = 2
  ClaimWindow = 1
  MaxEntries = 1
  MaxBatch = 1
  Owners = {o1, o2, o3}
  DepositStart = 0
  DepositWindow = 2
  BootstrapDelay = 2
  MaxPrincipal = 3
  MaxNonce = 1
  MaxWithheld = 0
  MaxSlot = 4
SYMMETRY OwnerSymmetry
INVARIANTS
  TalliesCountLiveBallots
  BallotsAreBackedByCapital
  RegisteredPaysWholeSupply
PROPERTIES
  SealedByCapital
  OneOutcome
CHECK_DEADLOCK FALSE
