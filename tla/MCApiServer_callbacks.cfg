SPECIFICATION Spec
CONSTANTS
  Requests = {r1, r2, r3}
  MintKeys = {}
  Refs = {ref1}
  Users = {user}
  Signer = user
  Coin = usd
  Token = kes
  MaxAttempts = 2
  Window = 1
  MaxClock = 2
  MaxFaults = 1
  MaxRefusals = 1
INVARIANTS
  TypeOK
  MintedExactlyOnce
  SequentialIdempotence
SYMMETRY Symmetry
CHECK_DEADLOCK FALSE
