SPECIFICATION Spec
CONSTANTS
  Accounts = {admin, user}
  Admin = admin
  Executor = admin
  Stablecoins = {usdA, usdB}
  Registries = {reg}
  Tokens = {kesA}
  NoAddress = NoAddress
  Countries = {KE}
  TxRefs = {ref1, ref2}
  Zero = Zero
  Amounts = {1}
  MIN_MINT_AMOUNT = 1
  MAX_MINT_AMOUNT = 1
  DAILY_MINT_LIMIT = 2
  OneDay = 1
  MaxTime = 0
  MaxBalance = 0
  MaxAdminCalls = 1
INVARIANTS
  DepositsHeldInKind
SYMMETRY Symmetry
CHECK_DEADLOCK FALSE
