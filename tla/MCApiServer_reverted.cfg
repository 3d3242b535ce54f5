SPECIFICATION Spec
CONSTANTS
  Requests = {r1}
  MintKeys = {}
  Refs = {ref1}
  Users = {user}
  Signer = user
  Coin = usd
  Token = kes
  MaxAttempts = 1
  Window = 1
  MaxClock = 0
  MaxFaults = 0
  MaxRefusals = 1
INVARIANTS
  RevertedIsParked
CHECK_DEADLOCK FALSE
