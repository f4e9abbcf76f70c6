\* A creator that names another operator before it donates its market.
SPECIFICATION Spec
CONSTANTS
  Outsiders = {"creator", "provider"}
  Purses = {"provider", "traders"}
  Kinds = {"configure", "resolve"}
  MaxId = 3
  MaxSlab = 2
INVARIANTS
  NobodySkims
CHECK_DEADLOCK FALSE
