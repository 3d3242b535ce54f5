SPECIFICATION Spec
CONSTANTS
  Second = 2
  Millisecond = 1
  DurationLimit = 16
  DefaultSkewSecs = 1
  Accounts = {"signer", "customer"}
  Signer = "signer"
  Width = 2
  AmountLimit = 8
  Envs <- MCEnvs
  Seeds <- MCSeeds
  Messages <- MCMessages
  DefaultBackoff = 1
  NameMax = 3
  MaxDelay = 2
  MaxDeliveries = 2
  MaxTime = 9
CHECK_DEADLOCK FALSE
INVARIANTS
  TypeOK
  
  SleepsFollowFormula
  ReturnedIdIsContracts
  ReferencesStayDistinct
  
