SPECIFICATION Spec
CONSTANTS
  Accounts = {admin, user}
  Admin = admin
  Executor = admin
  Stablecoins = {usdA}
  Registries = {reg}
  Tokens = {kesA}
  NoAddress = NoAddress
  Countries = {KE}
  TxRefs = {ref1, ref2}
  Zero = Zero
  Amounts = {1, 2, 3}
  MIN_MINT_AMOUNT = 2
  MAX_MINT_AMOUNT = 3
  DAILY_MINT_LIMIT = 5
  OneDay = 2
  MaxTime = 2
  MaxBalance = 1
  MaxAdminCalls = 2
INVARIANTS
  TypeOK
  OneIntentPerTxRef
  DailyLimitHeld
  DailyMintedExact
SYMMETRY Symmetry
CHECK_DEADLOCK FALSE
