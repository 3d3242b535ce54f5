SPECIFICATION Spec
CONSTANTS
  Requests = {r1, r2}
  MintKeys = {k1}
  Refs = {ref1, ref2}
  Users = {signer}
  Signer = signer
  Coin = usd
  Token = kes
  MaxAttempts = 1
  Window = 1
  MaxClock = 2
  MaxFaults = 0
  MaxRefusals = 0
INVARIANTS
  KeptUntilExpiry
CHECK_DEADLOCK FALSE
