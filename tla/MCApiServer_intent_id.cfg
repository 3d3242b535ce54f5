SPECIFICATION Spec
CONSTANTS
  Requests = {r1}
  MintKeys = {k1}
  Refs = {ref1}
  Users = {signer, user}
  Signer = signer
  Coin = usd
  Token = kes
  MaxAttempts = 1
  Window = 1
  MaxClock = 0
  MaxFaults = 0
  MaxRefusals = 0
INVARIANTS
  ReturnedIntentExists
CHECK_DEADLOCK FALSE
