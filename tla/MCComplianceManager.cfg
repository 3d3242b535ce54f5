SPECIFICATION Spec
CONSTANTS
  Registries = {regA, regB}
  Accounts = {admin}
  Admin = admin
  Manager = manager
  Users = {user}
  Scores = {91, 92, 101}
  Hashes = {hash}
  NoHash = NoHash
  MAX_RISK_SCORE = 91
  REQUIRE_ATTESTATION = TRUE
  MIN_ATTESTATION_AGE = 1
  MaxTime = 3
  Implementations = {impl1, impl2}
  NoAddress = NoAddress
  MaxAdminCalls = 3
INVARIANTS
  TypeOK
  OfficersDecide
PROPERTIES
  AdminLossIsFinal
SYMMETRY Symmetry
CHECK_DEADLOCK FALSE
