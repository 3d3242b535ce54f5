SPECIFICATION FairSpec
CONSTANTS
  Requests = {r1, r2}
  MintKeys = {k1}
  Refs = {ref1}
  Users = {signer, user}
  Signer = signer
  Coin = usd
  Token = kes
  MaxAttempts = 2
  Window = 1
  MaxClock = 0
  MaxFaults = 1
  MaxRefusals = 1
INVARIANTS
  AnswersAreForKey
  SequentialIdempotence
PROPERTIES
  RequestsEnd
  
CHECK_DEADLOCK FALSE
