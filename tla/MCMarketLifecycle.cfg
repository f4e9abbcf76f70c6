SPECIFICATION Spec
CONSTANTS
  Outsiders = {"creator", "provider"}
  Purses = {"provider", "traders"}
  Kinds = {"configure", "resolve"}
  MaxId = 3
  MaxSlab = 2
INVARIANTS
  EveryoneGetsTheirs
  InsuranceStaysConstrained
  ResolvedMoneyCanLeave
PROPERTIES
  ApprovalsMeetTheirAsset
CHECK_DEADLOCK FALSE
