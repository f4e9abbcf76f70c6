\* Two competing proposals, two recipients; windows inside the slot range and,
\* for late seals, past its end.
SPECIFICATION DistSpec
CONSTANTS
  Null = Null
  Proposals = {p1, p2}
  Creators = {c1}
  Recipients = {r1, r2}
  TotalSupply = 3
  ClaimWindow = 2
  MaxEntries = 2
  MaxBatch = 1
  MaxSlot = 4
INVARIANTS
  ClaimableWhileOpen
PROPERTIES
  ClaimsSettleEntries
  LeftoversAreBurned
CHECK_DEADLOCK FALSE
