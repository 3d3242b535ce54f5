SPECIFICATION Spec
CONSTANTS
  Accounts = {admin}
  Admin = admin
  Executor = admin
  Stablecoins = {usdA, usdB}
  Registries = {reg}
  Tokens = {kesA, kesB}
  NoAddress = NoAddress
  Countries = {KE}
  TxRefs = {ref1, ref2}
  Zero = Zero
  Amounts = {1}
  MIN_MINT_AMOUNT = 1
  MAX_MINT_AMOUNT = 1
  DAILY_MINT_LIMIT = 2
  OneDay = 1
  MaxTime = 0
  MaxBalance = 1
  MaxAdminCalls = 3
INVARIANTS
  DepositsBacked
  PaidOncePerIntent
  AcceptedStaysConfigured
  HeldInKindInOneCoin
PROPERTIES
  ImplementsLedger
SYMMETRY Symmetry
CHECK_DEADLOCK FALSE
