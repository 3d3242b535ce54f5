----------------------------- MODULE MintEscrow -----------------------------
(***************************************************************************)
(* The escrow contract, contracts/src/MintEscrow.sol: users deposit a USD  *)
(* stablecoin against a payment reference, and an executor either mints    *)
(* country tokens for the deposit or refunds it.                           *)
(*                                                                         *)
(* A transaction is one step: the EVM runs it to the end or reverts it,    *)
(* and a revert changes nothing, so a call that would revert is simply not *)
(* enabled.  What the contract reaches by address (the stablecoins, the    *)
(* country tokens, the user registries) appears as the part of its state   *)
(* the contract can observe, with the steps by which others change it.  A  *)
(* depositor's own balance and allowance are left out: when they are short *)
(* submitIntent reverts, so leaving them out only adds behaviours.         *)
(***************************************************************************)
EXTENDS Integers, FiniteSets, Functions

CONSTANTS
  Accounts,          \* externally owned accounts: users, admins, executors
  Admin, Executor,   \* the accounts Deploy.s.sol is run with
  Stablecoins, Registries, Tokens,   \* contracts the admin may point to
  NoAddress,         \* address(0)
  Countries, TxRefs, \* bytes32 values other than zero
  Zero,              \* bytes32(0)
  Amounts,           \* the amounts callers pass
  MIN_MINT_AMOUNT, MAX_MINT_AMOUNT, DAILY_MINT_LIMIT,
  OneDay,            \* "1 days", in units of block.timestamp
  MaxTime,           \* bound: last block.timestamp
  MaxBalance,        \* bound: what the escrow's balance may be donated up to
  MaxAdminCalls      \* bound: administrative calls in a behaviour

ASSUME EscrowAssumption ==
  /\ Admin \in Accounts /\ Executor \in Accounts
  /\ NoAddress \notin Stablecoins \cup Registries \cup Tokens
  /\ IsFiniteSet(Stablecoins) /\ IsFiniteSet(Tokens)   \* 20-byte addresses
  /\ Zero \notin Countries \cup TxRefs
  /\ Amounts \subseteq Nat
  /\ MIN_MINT_AMOUNT \in Nat /\ MAX_MINT_AMOUNT \in Nat
  /\ DAILY_MINT_LIMIT \in Nat
  /\ OneDay \in Nat \ {0}
  /\ MaxTime \in Nat /\ MaxBalance \in Nat /\ MaxAdminCalls \in Nat

VARIABLES
  \* storage of the contract
  roles, paused, stablecoin, userRegistry, countryTokens,
  intents, txRefConsumed, dailyMinted,
  \* the contracts it calls, and the block
  balance,      \* balance[c]: what the escrow holds of stablecoin c
  paidBack,     \* paidBack[c][a]: stablecoins c the escrow refunded to a
  issued,       \* issued[t][a]: country tokens t the escrow minted to a
  minter,       \* the country tokens whose MINTER_ROLE the escrow holds
  compliant,    \* compliant[r]: users registry r calls compliant
  now,          \* block.timestamp
  \* history
  deposit,      \* deposit[i]: the stablecoin intent i was paid in
  mintTime,     \* mintTime[i]: block.timestamp when intent i was executed
  adminCalls    \* administrative calls so far

config == <<stablecoin, userRegistry, countryTokens>>
book == <<intents, txRefConsumed, dailyMinted, deposit, mintTime>>
money == <<balance, paidBack, issued>>
outside == <<minter, compliant, now>>
vars == <<roles, paused, config, book, money, outside, adminCalls>>

-----------------------------------------------------------------------------
Roles == {"DEFAULT_ADMIN_ROLE", "ADMIN_ROLE", "EXECUTOR_ROLE"}
MintStatus == {"Pending", "Executed", "Refunded"}

(* keccak256 of the packed fixed-width fields: the tuple of the fields.    *)
IntentId(user, amount, countryCode, txRef) ==
  <<user, amount, countryCode, txRef>>
IntentIds == Accounts \X Amounts \X Countries \X TxRefs
IdUser(intentId) == intentId[1]
IdAmount(intentId) == intentId[2]
IdTxRef(intentId) == intentId[4]

MintIntent == [user : Accounts, amount : Amounts, countryCode : Countries,
               txRef : TxRefs, status : MintStatus]

AC == INSTANCE AccessControl WITH
        members <- roles,
        RoleAdmin <- [r \in Roles |-> "DEFAULT_ADMIN_ROLE"]

(* A mapping entry that is written for the first time or overwritten.      *)
Put(f, k, v) == [x \in DOMAIN f \cup {k} |-> IF x = k THEN v ELSE f[x]]

DayOffset(timestamp) == timestamp % OneDay

DayBucket(timestamp) == timestamp \div OneDay

(* dailyMinted[bucket]: a Solidity mapping reads zero where nothing was    *)
(* written.                                                                *)
DailyMinted(bucket) ==
  IF bucket \in DOMAIN dailyMinted THEN dailyMinted[bucket] ELSE 0

UnlimitedCapacity(bucket) == DAILY_MINT_LIMIT

AvailableMintingCapacity(bucket) ==
  IF DAILY_MINT_LIMIT <= DailyMinted(bucket)
  THEN 0
  ELSE DAILY_MINT_LIMIT - DailyMinted(bucket)

-----------------------------------------------------------------------------
(* The constructor, and the state Deploy.s.sol leaves the contract in when *)
(* its deployer is the admin.                                              *)

Constructed ==
  /\ roles = [r \in Roles |-> IF r = "EXECUTOR_ROLE" THEN {} ELSE {Admin}]
  /\ stablecoin = NoAddress
  /\ userRegistry = NoAddress
  /\ countryTokens = [c \in Countries \cup {Zero} |-> NoAddress]
  /\ minter = {}

Deployed ==
  /\ roles = [r \in Roles |->
                IF r = "EXECUTOR_ROLE" THEN {Executor} ELSE {Admin}]
  /\ stablecoin \in Stablecoins
  /\ userRegistry \in Registries
  /\ \E country \in Countries, token \in Tokens :
       /\ countryTokens = [c \in Countries \cup {Zero} |->
                             IF c = country THEN token ELSE NoAddress]
       /\ minter = {token}

Init ==
  /\ Constructed \/ Deployed
  /\ paused = FALSE
  /\ intents = [i \in {} |-> {}]
  /\ txRefConsumed = {}
  /\ dailyMinted = [d \in {} |-> 0]
  /\ balance = [c \in Stablecoins |-> 0]
  /\ paidBack = [c \in Stablecoins |-> [a \in Accounts |-> 0]]
  /\ issued = [t \in Tokens |-> [a \in Accounts |-> 0]]
  /\ compliant = [r \in Registries |-> {}]
  /\ now = 0
  /\ deposit = [i \in {} |-> {}]
  /\ mintTime = [i \in {} |-> 0]
  /\ adminCalls = 0

-----------------------------------------------------------------------------
(* The user and executor operations.                                       *)

AnyTxRef(txRef) == TRUE

ValidTxRef(txRef) == txRef # Zero

ForgetTxRef(txRef) == UNCHANGED txRefConsumed

ConsumeTxRef(txRef) == txRefConsumed' = txRefConsumed \cup {txRef}

SubmitIntent(sender, amount, countryCode, txRef) ==
  LET intentId == IntentId(sender, amount, countryCode, txRef) IN
  /\ ~paused
  /\ stablecoin # NoAddress
  /\ userRegistry # NoAddress
  /\ amount >= MIN_MINT_AMOUNT /\ amount <= MAX_MINT_AMOUNT
  /\ countryCode # Zero
  /\ countryTokens[countryCode] # NoAddress
  /\ ValidTxRef(txRef)
  /\ txRef \notin txRefConsumed
  /\ intentId \notin DOMAIN intents
  /\ balance' = [balance EXCEPT ![stablecoin] = @ + amount]
  /\ ConsumeTxRef(txRef)
  /\ intents' = Put(intents, intentId,
                    [user |-> sender, amount |-> amount,
                     countryCode |-> countryCode, txRef |-> txRef,
                     status |-> "Pending"])
  /\ deposit' = Put(deposit, intentId, stablecoin)
  /\ UNCHANGED <<roles, paused, config, dailyMinted, paidBack, issued,
                 outside, mintTime, adminCalls>>

ExistsOnly(intentId) == intentId \in DOMAIN intents

(* The checks both settlements start with: IntentNotFound and              *)
(* IntentAlreadyExecuted.                                                  *)
Settleable(intentId) ==
  /\ intentId \in DOMAIN intents
  /\ intents[intentId].status = "Pending"

NothingMinted(token, user, amount) == issued

Minted(token, user, amount) == [issued EXCEPT ![token][user] = @ + amount]

ExecuteMint(sender, intentId) ==
  LET intent == intents[intentId]
      token == countryTokens[intent.countryCode]
      bucket == DayBucket(now) IN
  /\ ~paused
  /\ AC!HasRole("EXECUTOR_ROLE", sender)
  /\ Settleable(intentId)
  /\ intent.user \in compliant[userRegistry]
  /\ token # NoAddress
  /\ intent.amount <= AvailableMintingCapacity(bucket)
  /\ token \in minter
  /\ intents' = [intents EXCEPT ![intentId].status = "Executed"]
  /\ dailyMinted' = Put(dailyMinted, bucket, DailyMinted(bucket) + intent.amount)
  /\ issued' = Minted(token, intent.user, intent.amount)
  /\ mintTime' = Put(mintTime, intentId, now)
  /\ UNCHANGED <<roles, paused, config, txRefConsumed, balance, paidBack,
                 outside, deposit, adminCalls>>

NothingTaken(coin, amount) == balance

TakenOut(coin, amount) == [balance EXCEPT ![coin] = @ - amount]

(* A refund is paid in the stablecoin configured now, and also while the   *)
(* contract is paused.                                                     *)
RefundIntent(sender, intentId) ==
  LET intent == intents[intentId] IN
  /\ AC!HasRole("EXECUTOR_ROLE", sender)
  /\ Settleable(intentId)
  /\ balance[stablecoin] >= intent.amount
  /\ intents' = [intents EXCEPT ![intentId].status = "Refunded"]
  /\ balance' = TakenOut(stablecoin, intent.amount)
  /\ paidBack' = [paidBack EXCEPT ![stablecoin][intent.user] = @ + intent.amount]
  /\ UNCHANGED <<roles, paused, config, txRefConsumed, dailyMinted, issued,
                 outside, deposit, mintTime, adminCalls>>

-----------------------------------------------------------------------------
(* The administrative operations.                                          *)

CountAdminCall ==
  /\ adminCalls < MaxAdminCalls
  /\ adminCalls' = adminCalls + 1

OnlyAdmin(sender) == AC!HasRole("ADMIN_ROLE", sender) /\ CountAdminCall

ClearableStablecoin(sender, token) ==
  /\ OnlyAdmin(sender)
  /\ stablecoin' = token
  /\ UNCHANGED <<roles, paused, userRegistry, countryTokens, book, money,
                 outside>>

SetStablecoin(sender, token) ==
  /\ OnlyAdmin(sender)
  /\ token # NoAddress
  /\ stablecoin' = token
  /\ UNCHANGED <<roles, paused, userRegistry, countryTokens, book, money,
                 outside>>

SetUserRegistry(sender, registry) ==
  /\ OnlyAdmin(sender)
  /\ registry # NoAddress
  /\ userRegistry' = registry
  /\ UNCHANGED <<roles, paused, stablecoin, countryTokens, book, money,
                 outside>>

SetCountryToken(sender, countryCode, token) ==
  /\ OnlyAdmin(sender)
  /\ token # NoAddress
  /\ countryTokens' = [countryTokens EXCEPT ![countryCode] = token]
  /\ UNCHANGED <<roles, paused, stablecoin, userRegistry, book, money,
                 outside>>

SetExecutor(sender, executor, granted) ==
  /\ OnlyAdmin(sender)
  /\ roles' = IF granted THEN AC!Granted("EXECUTOR_ROLE", executor)
                         ELSE AC!Revoked("EXECUTOR_ROLE", executor)
  /\ UNCHANGED <<paused, config, book, money, outside>>

Pause(sender) ==
  /\ OnlyAdmin(sender)
  /\ ~paused
  /\ paused' = TRUE
  /\ UNCHANGED <<roles, config, book, money, outside>>

Unpause(sender) ==
  /\ OnlyAdmin(sender)
  /\ paused
  /\ paused' = FALSE
  /\ UNCHANGED <<roles, config, book, money, outside>>

(* grantRole, revokeRole and renounceRole, inherited from AccessControl.   *)
ChangeRole(sender, role, account) ==
  /\ CountAdminCall
  /\ \/ AC!GrantRole(sender, role, account)
     \/ AC!RevokeRole(sender, role, account)
     \/ sender = account /\ AC!RenounceRole(sender, role)
  /\ UNCHANGED <<paused, config, book, money, outside>>

-----------------------------------------------------------------------------
(* What others do: the block clock, stablecoin transfers to the escrow,    *)
(* the registries and the country tokens' MINTER_ROLE.                     *)

Tick ==
  /\ now < MaxTime
  /\ now' = now + 1
  /\ UNCHANGED <<roles, paused, config, book, money, minter,
                 compliant, adminCalls>>

(* Anyone may send the escrow stablecoins outside submitIntent.            *)
Donate(coin, amount) ==
  /\ balance[coin] + amount <= MaxBalance
  /\ balance' = [balance EXCEPT ![coin] = @ + amount]
  /\ UNCHANGED <<roles, paused, config, book, paidBack, issued, outside,
                 adminCalls>>

ChangeCompliance(registry, users) ==
  /\ compliant' = [compliant EXCEPT ![registry] = users]
  /\ UNCHANGED <<roles, paused, config, book, money, minter, now,
                 adminCalls>>

ChangeMinter(tokens) ==
  /\ minter' = tokens
  /\ UNCHANGED <<roles, paused, config, book, money, compliant, now,
                 adminCalls>>

-----------------------------------------------------------------------------
UserOperation ==
  \/ \E sender \in Accounts, amount \in Amounts,
        country \in Countries \cup {Zero}, txRef \in TxRefs \cup {Zero} :
       SubmitIntent(sender, amount, country, txRef)
  \/ \E sender \in Accounts, intentId \in IntentIds :
       ExecuteMint(sender, intentId) \/ RefundIntent(sender, intentId)

AdminOperation ==
  \E sender \in Accounts :
    \/ \E token \in Stablecoins \cup {NoAddress} : SetStablecoin(sender, token)
    \/ \E registry \in Registries \cup {NoAddress} :
         SetUserRegistry(sender, registry)
    \/ \E country \in Countries \cup {Zero}, token \in Tokens \cup {NoAddress} :
         SetCountryToken(sender, country, token)
    \/ \E executor \in Accounts, granted \in BOOLEAN :
         SetExecutor(sender, executor, granted)
    \/ Pause(sender)
    \/ Unpause(sender)
    \/ \E role \in Roles, account \in Accounts :
         ChangeRole(sender, role, account)

Environment ==
  \/ Tick
  \/ \E coin \in Stablecoins, amount \in Amounts : Donate(coin, amount)
  \/ \E registry \in Registries, users \in SUBSET Accounts :
       ChangeCompliance(registry, users)
  \/ \E tokens \in SUBSET Tokens : ChangeMinter(tokens)

Next == UserOperation \/ AdminOperation \/ Environment

Spec == Init /\ [][Next]_vars

-----------------------------------------------------------------------------
(* Properties.                                                             *)

ControlType ==
  /\ roles \in [Roles -> SUBSET Accounts]
  /\ paused \in BOOLEAN
  /\ stablecoin \in Stablecoins \cup {NoAddress}
  /\ userRegistry \in Registries \cup {NoAddress}
  /\ countryTokens \in [Countries \cup {Zero} -> Tokens \cup {NoAddress}]
  /\ minter \subseteq Tokens
  /\ compliant \in [Registries -> SUBSET Accounts]
  /\ now \in Nat
  /\ adminCalls \in Nat

BookType ==
  /\ DOMAIN intents \subseteq IntentIds
  /\ intents \in [DOMAIN intents -> MintIntent]
  /\ txRefConsumed \subseteq TxRefs
  /\ DOMAIN dailyMinted \subseteq Nat
  /\ dailyMinted \in [DOMAIN dailyMinted -> Nat]
  /\ deposit \in [DOMAIN intents -> Stablecoins]
  /\ DOMAIN mintTime \subseteq DOMAIN intents
  /\ mintTime \in [DOMAIN mintTime -> Nat]

MoneyType ==
  /\ balance \in [Stablecoins -> Nat]
  /\ paidBack \in [Stablecoins -> [Accounts -> Nat]]
  /\ issued \in [Tokens -> [Accounts -> Nat]]

(* Type invariant: the storage of MintEscrow.sol and the balances it moves *)
(* stay in their types; no uint256 balance goes below zero.                *)
TypeOK == ControlType /\ BookType /\ MoneyType

WithStatus(statuses) == {i \in DOMAIN intents : intents[i].status \in statuses}

Sum(f, S) == SumFunctionOnSet(f, S)

Amount == [i \in DOMAIN intents |-> intents[i].amount]

ExecutedOn(bucket) ==
  {i \in WithStatus({"Executed"}) : mintTime[i] \div OneDay = bucket}

IntentsOf(user, statuses) ==
  {i \in WithStatus(statuses) : intents[i].user = user}

(* A payment reference pays for one intent, whoever submits it and with    *)
(* whatever amount and country: _txRefConsumed holds exactly the           *)
(* references of the stored intents, and no two intents share one          *)
(* (submitIntent checks the reference before it hashes the sender in).     *)
OneIntentPerTxRef ==
  /\ txRefConsumed = {intents[i].txRef : i \in DOMAIN intents}
  /\ \A i, j \in DOMAIN intents : intents[i].txRef = intents[j].txRef => i = j

(* dailyMinted never exceeds DAILY_MINT_LIMIT in any day bucket, whatever  *)
(* the order of executions around a change of day.                         *)
DailyLimitHeld ==
  \A bucket \in DOMAIN dailyMinted : dailyMinted[bucket] <= DAILY_MINT_LIMIT

(* dailyMinted is the sum of the amounts executeMint minted in that bucket *)
(* of block.timestamp (the days since the epoch): nothing else counts      *)
(* against the limit of a day, and nothing escapes it.                     *)
DailyMintedExact ==
  \A bucket \in DOMAIN dailyMinted :
    dailyMinted[bucket] = Sum(Amount, ExecutedOn(bucket))

(* The escrow keeps, over all stablecoins, at least the deposits of every  *)
(* intent that was not refunded: sum of mints <= sum of deposits held.     *)
(* It holds also when setStablecoin changes the coin between a deposit and *)
(* its refund.                                                             *)
DepositsBacked ==
  Sum(balance, Stablecoins)
    >= Sum(Amount, WithStatus({"Pending", "Executed"}))

(* Every user received, over all country tokens, exactly the amounts of    *)
(* the user's Executed intents, and over all stablecoins exactly those of  *)
(* the user's Refunded ones: no intent pays twice, or both ways, also when *)
(* setCountryToken or setStablecoin changed the contract paid from.        *)
PaidOncePerIntent ==
  \A u \in Accounts :
    /\ Sum([t \in Tokens |-> issued[t][u]], Tokens)
         = Sum(Amount, IntentsOf(u, {"Executed"}))
    /\ Sum([c \in Stablecoins |-> paidBack[c][u]], Stablecoins)
         = Sum(Amount, IntentsOf(u, {"Refunded"}))

(* An intent that was accepted can never run into an unset address later:  *)
(* the stablecoin, the registry and the token of its country stay set,     *)
(* because no setter takes address(0).  The CountryTokenNotConfigured      *)
(* revert of executeMint is unreachable.                                   *)
AcceptedStaysConfigured ==
  \A i \in DOMAIN intents :
    /\ stablecoin # NoAddress
    /\ userRegistry # NoAddress
    /\ countryTokens[intents[i].countryCode] # NoAddress

(* The key an intent is stored under is the hash of what it stores; the    *)
(* settlements, which look intents up by key, rely on it.                  *)
IntentsMatchIds ==
  \A i \in DOMAIN intents :
    i = IntentId(intents[i].user, intents[i].amount, intents[i].countryCode,
                 intents[i].txRef)

(* The inductive invariant the proofs use.                                 *)
IInv ==
  /\ TypeOK
  /\ IntentsMatchIds
  /\ OneIntentPerTxRef
  /\ DailyLimitHeld
  /\ AcceptedStaysConfigured

(* What is added to it for the sums: an executed intent has a time, in a   *)
(* day that dailyMinted has an entry for.                                  *)
SumsInv ==
  /\ IsFiniteSet(DOMAIN intents)
  /\ \A i \in WithStatus({"Executed"}) :
       i \in DOMAIN mintTime /\ mintTime[i] \div OneDay \in DOMAIN dailyMinted
  /\ DailyMintedExact
  /\ DepositsBacked
  /\ PaidOncePerIntent

(* The escrow holds each deposit in the stablecoin it was made in, until   *)
(* it refunds it ("holds USD stablecoin deposits", MintEscrow.sol:19).     *)
(* refundIntent pays from the stablecoin configured now, so this fails     *)
(* once setStablecoin has switched coins.                                  *)
DepositsHeldInKind ==
  \A c \in Stablecoins :
    balance[c]
      >= Sum(Amount,
             {i \in WithStatus({"Pending", "Executed"}) : deposit[i] = c})

(* Two deposits in different coins are needed for that: while all were     *)
(* made in one coin, every coin covers its own deposits, also after        *)
(* setStablecoin has switched away from it and refunds are paid in another.*)
HeldInKindInOneCoin ==
  (\A i, j \in DOMAIN intents : deposit[i] = deposit[j]) => DepositsHeldInKind

(* What makes it inductive: a coin that took all deposits backs what was   *)
(* not refunded.                                                           *)
CoinInv ==
  \A c \in Stablecoins :
    (\A i \in DOMAIN intents : deposit[i] = c) =>
      balance[c] >= Sum(Amount, WithStatus({"Pending", "Executed"}))

(* The ledger this contract implements.                                    *)
LedgerStatus ==
  [i \in IntentIds |->
     IF i \in DOMAIN intents THEN intents[i].status ELSE "Absent"]

Ledger == INSTANCE MintLedger WITH
  Intents <- IntentIds, Users <- Accounts, Coins <- Stablecoins,
  UserOf <- IdUser, AmountOf <- IdAmount, TxRefOf <- IdTxRef,
  state <- LedgerStatus, held <- balance, returned <- paidBack, supply <- issued

(* MintEscrow implements MintLedger: one intent per reference, one         *)
(* settlement per intent, for its own amount and user, and stablecoins     *)
(* leave the escrow only as a refund.                                      *)
ImplementsLedger == Ledger!LedgerSpec

=============================================================================
