-------------------------- MODULE MintEscrowProofs --------------------------
(***************************************************************************)
(* Proofs about MintEscrow, for every value of its constants.              *)
(***************************************************************************)
EXTENDS MintEscrow, TLAPS

(* Most leaves are first-order: Zenon tries them, and the ones that need    *)
(* arithmetic or the theory of functions cite SMT.                         *)
USE Zenon

(* DayBucket: block.timestamp / 1 days is a natural number.                *)
LEMMA DayBucketType == \A t \in Nat : DayBucket(t) \in Nat
BY EscrowAssumption, SMT DEF DayBucket, EscrowAssumption

(* _availableMintingCapacity never returns more than what is left of the   *)
(* limit, and a bucket within the limit stays so when at most that much is *)
(* added.                                                                  *)
LEMMA CapacityBound ==
  ASSUME TypeOK, NEW bucket \in Nat, NEW amount \in Nat,
         amount <= AvailableMintingCapacity(bucket),
         DailyMinted(bucket) <= DAILY_MINT_LIMIT
  PROVE  DailyMinted(bucket) + amount <= DAILY_MINT_LIMIT
BY EscrowAssumption, SMT DEF EscrowAssumption, AvailableMintingCapacity, DailyMinted,
  TypeOK, BookType

LEMMA InitTypeOK == Init => TypeOK
<1> SUFFICES ASSUME Init PROVE TypeOK
  OBVIOUS
<1> USE EscrowAssumption DEF EscrowAssumption, Init
<1>1. ControlType
  <2>1. CASE Constructed
    BY <2>1 DEF Constructed, ControlType, Roles
  <2>2. CASE Deployed
    BY <2>2 DEF Deployed, ControlType, Roles
  <2> QED
    BY <2>1, <2>2
<1>2. BookType
  BY DEF BookType
<1>3. MoneyType
  BY DEF MoneyType
<1> QED
  BY <1>1, <1>2, <1>3 DEF TypeOK

(* What writing one entry of a mapping does to the mapping's type.         *)
LEMMA PutIn ==
  ASSUME NEW D, NEW S, NEW f \in [D -> S], NEW k, NEW v \in S
  PROVE  /\ DOMAIN Put(f, k, v) = D \cup {k}
         /\ Put(f, k, v) \in [D \cup {k} -> S]
<1>1. f \in [DOMAIN f -> S] /\ DOMAIN f = D
  OBVIOUS
<1> QED
  BY <1>1 DEF Put

LEMMA SubmitIntentType ==
  ASSUME TypeOK, NEW sender \in Accounts, NEW amount \in Amounts,
         NEW country \in Countries \cup {Zero}, NEW txRef \in TxRefs \cup {Zero},
         SubmitIntent(sender, amount, country, txRef)
  PROVE  TypeOK'
<1> DEFINE id == IntentId(sender, amount, country, txRef)
           rec == [user |-> sender, amount |-> amount, countryCode |-> country,
                   txRef |-> txRef, status |-> "Pending"]
<1> USE DEF TypeOK, SubmitIntent
<1>1. ControlType'
  BY DEF ControlType, config, outside
<1>2. MoneyType'
  <2>1. amount \in Nat
    BY EscrowAssumption DEF EscrowAssumption
  <2>2. stablecoin \in Stablecoins
    BY DEF ControlType
  <2> QED
    BY <2>1, <2>2, SMT DEF MoneyType
<1>3. BookType'
  <2>1. id \in IntentIds /\ rec \in MintIntent /\ txRef \in TxRefs
    BY DEF IntentIds, IntentId, MintIntent, MintStatus, ValidTxRef
  <2>2. /\ DOMAIN intents' = DOMAIN intents \cup {id}
        /\ intents' \in [DOMAIN intents \cup {id} -> MintIntent]
    <3>1. intents' = Put(intents, id, rec)
      OBVIOUS
    <3>2. intents \in [DOMAIN intents -> MintIntent]
      BY DEF BookType
    <3> HIDE DEF id, rec, TypeOK, SubmitIntent
    <3>3. /\ DOMAIN Put(intents, id, rec) = DOMAIN intents \cup {id}
          /\ Put(intents, id, rec) \in [DOMAIN intents \cup {id} -> MintIntent]
      BY <2>1, <3>2, PutIn
    <3> QED
      BY <3>1, <3>3
  <2>3. deposit' \in [DOMAIN intents \cup {id} -> Stablecoins]
    <3>1. stablecoin \in Stablecoins /\ DOMAIN deposit = DOMAIN intents
      BY DEF ControlType, BookType
    <3>2. deposit' = Put(deposit, id, stablecoin)
      OBVIOUS
    <3>3. deposit \in [DOMAIN deposit -> Stablecoins]
      BY DEF BookType
    <3> HIDE DEF id, rec, TypeOK, SubmitIntent
    <3> QED
      BY <3>1, <3>2, <3>3, PutIn
  <2>4. txRefConsumed' \subseteq TxRefs
    BY <2>1 DEF BookType, ConsumeTxRef
  <2>5. DOMAIN dailyMinted' \subseteq Nat /\ dailyMinted' \in [DOMAIN dailyMinted' -> Nat]
    BY DEF BookType
  <2>6. mintTime' = mintTime
    OBVIOUS
  <2> HIDE DEF id, rec
  <2> QED
    BY <2>1, <2>2, <2>3, <2>4, <2>5, <2>6 DEF BookType
<1> QED
  BY <1>1, <1>2, <1>3

(* A stored intent has a natural amount and a user, and executeMint and    *)
(* refundIntent change nothing of it but its status.                       *)
LEMMA SettleIntents ==
  ASSUME BookType, NEW id \in DOMAIN intents, NEW st \in MintStatus,
         intents' = [intents EXCEPT ![id].status = st]
  PROVE  /\ intents[id].amount \in Nat /\ intents[id].user \in Accounts
         /\ intents[id].countryCode \in Countries
         /\ DOMAIN intents' = DOMAIN intents
         /\ intents' \in [DOMAIN intents -> MintIntent]
         /\ intents'[id].status = st
         /\ \A i \in DOMAIN intents \ {id} : intents'[i] = intents[i]
         /\ \A i \in DOMAIN intents :
              /\ intents'[i].user = intents[i].user
              /\ intents'[i].amount = intents[i].amount
              /\ intents'[i].countryCode = intents[i].countryCode
              /\ intents'[i].txRef = intents[i].txRef
<1>1. intents[id] \in MintIntent
  BY DEF BookType
<1>2. intents[id].amount \in Nat
  BY <1>1, EscrowAssumption DEF EscrowAssumption, MintIntent
<1> QED
  BY <1>1, <1>2 DEF BookType, MintIntent

LEMMA ExecuteMintType ==
  ASSUME TypeOK, NEW sender \in Accounts, NEW id \in IntentIds,
         ExecuteMint(sender, id)
  PROVE  TypeOK'
<1> DEFINE amount == intents[id].amount
           token == countryTokens[intents[id].countryCode]
           bucket == DayBucket(now)
<1>1. /\ id \in DOMAIN intents
      /\ intents' = [intents EXCEPT ![id].status = "Executed"]
      /\ token # NoAddress
      /\ dailyMinted' = Put(dailyMinted, bucket, DailyMinted(bucket) + amount)
      /\ issued' = [issued EXCEPT ![token][intents[id].user] = @ + amount]
      /\ mintTime' = Put(mintTime, id, now)
      /\ UNCHANGED <<roles, paused, config, txRefConsumed, balance, paidBack,
                     outside, deposit, adminCalls>>
  BY DEF ExecuteMint, Minted, Settleable
<1>2. "Executed" \in MintStatus
  BY DEF MintStatus
<1>3. /\ amount \in Nat /\ intents[id].user \in Accounts
      /\ intents[id].countryCode \in Countries
      /\ DOMAIN intents' = DOMAIN intents
      /\ intents' \in [DOMAIN intents -> MintIntent]
  BY <1>1, <1>2, SettleIntents DEF TypeOK
<1>4. token \in Tokens /\ bucket \in Nat /\ now \in Nat
  BY <1>1, <1>3, DayBucketType DEF TypeOK, ControlType
<1>5. DailyMinted(bucket) \in Nat
  BY <1>4 DEF DailyMinted, TypeOK, BookType
<1> HIDE DEF amount, token, bucket
<1>6. ControlType'
  BY <1>1 DEF TypeOK, ControlType, config, outside
<1>7. MoneyType'
  BY <1>1, <1>3, <1>4, SMT DEF TypeOK, MoneyType
<1>8. BookType'
  <2>1. /\ DOMAIN dailyMinted' = DOMAIN dailyMinted \cup {bucket}
        /\ dailyMinted' \in [DOMAIN dailyMinted \cup {bucket} -> Nat]
    <3>1. DailyMinted(bucket) + amount \in Nat
      BY <1>3, <1>5, SMT
    <3>2. dailyMinted \in [DOMAIN dailyMinted -> Nat]
      BY DEF TypeOK, BookType
    <3>3. dailyMinted' = Put(dailyMinted, bucket, DailyMinted(bucket) + amount)
      BY <1>1
    <3>4. /\ DOMAIN Put(dailyMinted, bucket, DailyMinted(bucket) + amount)
               = DOMAIN dailyMinted \cup {bucket}
          /\ Put(dailyMinted, bucket, DailyMinted(bucket) + amount)
               \in [DOMAIN dailyMinted \cup {bucket} -> Nat]
      BY <3>1, <3>2, PutIn
    <3> QED
      BY <3>3, <3>4
  <2>2. /\ DOMAIN mintTime' = DOMAIN mintTime \cup {id}
        /\ mintTime' \in [DOMAIN mintTime \cup {id} -> Nat]
    <3>1. mintTime \in [DOMAIN mintTime -> Nat]
      BY DEF TypeOK, BookType
    <3>2. mintTime' = Put(mintTime, id, now)
      BY <1>1
    <3>3. /\ DOMAIN Put(mintTime, id, now) = DOMAIN mintTime \cup {id}
          /\ Put(mintTime, id, now) \in [DOMAIN mintTime \cup {id} -> Nat]
      BY <1>4, <3>1, PutIn
    <3> QED
      BY <3>2, <3>3
  <2> QED
    BY <1>1, <1>3, <1>4, <2>1, <2>2 DEF TypeOK, BookType
<1> QED
  BY <1>6, <1>7, <1>8 DEF TypeOK

LEMMA RefundIntentType ==
  ASSUME TypeOK, NEW sender \in Accounts, NEW id \in IntentIds,
         stablecoin # NoAddress, RefundIntent(sender, id)
  PROVE  TypeOK'
<1> DEFINE amount == intents[id].amount
<1>1. /\ id \in DOMAIN intents
      /\ balance[stablecoin] >= amount
      /\ intents' = [intents EXCEPT ![id].status = "Refunded"]
      /\ balance' = [balance EXCEPT ![stablecoin] = @ - amount]
      /\ paidBack' = [paidBack EXCEPT ![stablecoin][intents[id].user] = @ + amount]
      /\ UNCHANGED <<roles, paused, config, txRefConsumed, dailyMinted, issued,
                     outside, deposit, mintTime, adminCalls>>
  BY DEF RefundIntent, TakenOut, Settleable
<1>2. "Refunded" \in MintStatus
  BY DEF MintStatus
<1>3. /\ amount \in Nat /\ intents[id].user \in Accounts
      /\ DOMAIN intents' = DOMAIN intents
      /\ intents' \in [DOMAIN intents -> MintIntent]
  BY <1>1, <1>2, SettleIntents DEF TypeOK
<1>4. stablecoin \in Stablecoins
  BY DEF TypeOK, ControlType
<1> HIDE DEF amount
<1>5. ControlType'
  BY <1>1 DEF TypeOK, ControlType, config, outside
<1>6. MoneyType'
  <2>1. balance[stablecoin] - amount \in Nat
    BY <1>1, <1>3, <1>4, SMT DEF TypeOK, MoneyType
  <2> QED
    BY <1>1, <1>3, <1>4, <2>1, SMT DEF TypeOK, MoneyType
<1>7. BookType'
  BY <1>1, <1>3 DEF TypeOK, BookType
<1> QED
  BY <1>5, <1>6, <1>7 DEF TypeOK

-----------------------------------------------------------------------------
(* Steps that touch neither the book of intents nor the money.             *)

LEMMA AdminOperationStep ==
  ASSUME ControlType, AcceptedStaysConfigured, BookType, AdminOperation
  PROVE  /\ ControlType' /\ AcceptedStaysConfigured'
         /\ UNCHANGED <<book, money, outside>>
<1> USE DEF ControlType, OnlyAdmin, CountAdminCall, config, outside, Roles
<1>1. PICK sender \in Accounts :
        \/ \E token \in Stablecoins \cup {NoAddress} : SetStablecoin(sender, token)
        \/ \E registry \in Registries \cup {NoAddress} :
             SetUserRegistry(sender, registry)
        \/ \E country \in Countries \cup {Zero}, token \in Tokens \cup {NoAddress} :
             SetCountryToken(sender, country, token)
        \/ \E executor \in Accounts, granted \in BOOLEAN :
             SetExecutor(sender, executor, granted)
        \/ Pause(sender)
        \/ Unpause(sender)
        \/ \E role \in Roles, account \in Accounts :
             ChangeRole(sender, role, account)
  BY DEF AdminOperation
<1>2. ASSUME NEW i \in DOMAIN intents
      PROVE  intents[i].countryCode \in Countries
  BY <1>2 DEF BookType, MintIntent
<1>3. ASSUME NEW token \in Stablecoins \cup {NoAddress}, SetStablecoin(sender, token)
      PROVE  /\ ControlType' /\ AcceptedStaysConfigured'
             /\ UNCHANGED <<book, money, outside>>
  BY <1>3, SMT DEF SetStablecoin, AcceptedStaysConfigured, book
<1>4. ASSUME NEW registry \in Registries \cup {NoAddress},
             SetUserRegistry(sender, registry)
      PROVE  /\ ControlType' /\ AcceptedStaysConfigured'
             /\ UNCHANGED <<book, money, outside>>
  BY <1>4, SMT DEF SetUserRegistry, AcceptedStaysConfigured, book
<1>5. ASSUME NEW country \in Countries \cup {Zero},
             NEW token \in Tokens \cup {NoAddress},
             SetCountryToken(sender, country, token)
      PROVE  /\ ControlType' /\ AcceptedStaysConfigured'
             /\ UNCHANGED <<book, money, outside>>
  BY <1>2, <1>5, SMT DEF SetCountryToken, AcceptedStaysConfigured, book
<1>6. ASSUME NEW executor \in Accounts, NEW granted \in BOOLEAN,
             SetExecutor(sender, executor, granted)
      PROVE  /\ ControlType' /\ AcceptedStaysConfigured'
             /\ UNCHANGED <<book, money, outside>>
  BY <1>6, SMT DEF SetExecutor, AcceptedStaysConfigured, book, AC!Granted, AC!Revoked
<1>7. ASSUME Pause(sender) \/ Unpause(sender)
      PROVE  /\ ControlType' /\ AcceptedStaysConfigured'
             /\ UNCHANGED <<book, money, outside>>
  <2>1. paused' \in BOOLEAN
    BY <1>7, Zenon DEF Pause, Unpause
  <2>2. /\ adminCalls \in Nat /\ adminCalls' = adminCalls + 1
        /\ UNCHANGED <<roles, config, book, money, outside>>
    BY <1>7 DEF Pause, Unpause
  <2> QED
    BY <2>1, <2>2, SMT DEF AcceptedStaysConfigured, book
<1>8. ASSUME NEW role \in Roles, NEW account \in Accounts,
             ChangeRole(sender, role, account)
      PROVE  /\ ControlType' /\ AcceptedStaysConfigured'
             /\ UNCHANGED <<book, money, outside>>
  BY <1>8, SMT DEF ChangeRole, AcceptedStaysConfigured, book, AC!GrantRole,
       AC!RevokeRole, AC!RenounceRole, AC!Granted, AC!Revoked
<1> QED
  BY <1>1, <1>3, <1>4, <1>5, <1>6, <1>7, <1>8

LEMMA EnvironmentStep ==
  ASSUME ControlType, MoneyType, AcceptedStaysConfigured, Environment
  PROVE  /\ ControlType' /\ MoneyType' /\ AcceptedStaysConfigured'
         /\ UNCHANGED <<book, config, paidBack, issued>>
<1> USE DEF AcceptedStaysConfigured, book, config
<1>1. CASE Tick
  BY <1>1, SMT DEF Tick, ControlType, MoneyType, money
<1>2. ASSUME NEW coin \in Stablecoins, NEW amount \in Amounts, Donate(coin, amount)
      PROVE  /\ ControlType' /\ MoneyType' /\ AcceptedStaysConfigured'
             /\ UNCHANGED <<book, config, paidBack, issued>>
  <2>1. amount \in Nat
    BY EscrowAssumption DEF EscrowAssumption
  <2> QED
    BY <1>2, <2>1, SMT DEF Donate, ControlType, MoneyType, outside
<1>3. ASSUME NEW registry \in Registries, NEW users \in SUBSET Accounts,
             ChangeCompliance(registry, users)
      PROVE  /\ ControlType' /\ MoneyType' /\ AcceptedStaysConfigured'
             /\ UNCHANGED <<book, config, paidBack, issued>>
  BY <1>3 DEF ChangeCompliance, ControlType, MoneyType, money
<1>4. ASSUME NEW tokens \in SUBSET Tokens, ChangeMinter(tokens)
      PROVE  /\ ControlType' /\ MoneyType' /\ AcceptedStaysConfigured'
             /\ UNCHANGED <<book, config, paidBack, issued>>
  BY <1>4 DEF ChangeMinter, ControlType, MoneyType, money
<1> QED
  BY <1>1, <1>2, <1>3, <1>4 DEF Environment

-----------------------------------------------------------------------------
(* The user and executor operations preserve the inductive invariant.      *)

LEMMA SubmitIntentInv ==
  ASSUME IInv, NEW sender \in Accounts, NEW amount \in Amounts,
         NEW country \in Countries \cup {Zero}, NEW txRef \in TxRefs \cup {Zero},
         SubmitIntent(sender, amount, country, txRef)
  PROVE  IInv'
<1> DEFINE id == IntentId(sender, amount, country, txRef)
           rec == [user |-> sender, amount |-> amount, countryCode |-> country,
                   txRef |-> txRef, status |-> "Pending"]
<1>1. TypeOK'
  BY SubmitIntentType DEF IInv
<1>2. /\ stablecoin # NoAddress /\ userRegistry # NoAddress
      /\ countryTokens[country] # NoAddress
      /\ txRef \notin txRefConsumed
      /\ intents' = Put(intents, id, rec)
      /\ txRefConsumed' = txRefConsumed \cup {txRef}
      /\ UNCHANGED <<config, dailyMinted>>
  BY DEF SubmitIntent, ValidTxRef, ConsumeTxRef
<1>3. /\ DOMAIN intents' = DOMAIN intents \cup {id}
      /\ intents'[id] = rec
      /\ \A i \in DOMAIN intents \ {id} : intents'[i] = intents[i]
  BY <1>2 DEF Put
<1>4. rec.user = sender /\ rec.amount = amount /\ rec.countryCode = country
        /\ rec.txRef = txRef
  OBVIOUS
<1>5. id \notin DOMAIN intents
  BY DEF SubmitIntent, ValidTxRef
<1>6. IntentsMatchIds'
  <2> SUFFICES ASSUME NEW i \in DOMAIN intents'
               PROVE  i = IntentId(intents'[i].user, intents'[i].amount,
                                   intents'[i].countryCode, intents'[i].txRef)
    BY DEF IntentsMatchIds, IntentId
  <2>1. CASE i = id
    BY <1>3, <1>4, <2>1
  <2>2. CASE i # id
    BY <1>3, <2>2 DEF IInv, IntentsMatchIds
  <2> QED
    BY <2>1, <2>2
<1> HIDE DEF rec, id
<1>7. OneIntentPerTxRef'
  BY <1>2, <1>3, <1>4, <1>5, SMT DEF IInv, OneIntentPerTxRef
<1>8. DailyLimitHeld'
  BY <1>2 DEF IInv, DailyLimitHeld
<1>9. AcceptedStaysConfigured'
  BY <1>2, <1>3, <1>4 DEF IInv, AcceptedStaysConfigured, config
<1> QED
  BY <1>1, <1>6, <1>7, <1>8, <1>9 DEF IInv

(* Settling an intent keeps what the invariant says about the book.        *)
LEMMA SettleInv ==
  ASSUME IInv, NEW id \in DOMAIN intents, NEW st \in MintStatus,
         intents' = [intents EXCEPT ![id].status = st],
         UNCHANGED <<config, txRefConsumed>>
  PROVE  IntentsMatchIds' /\ OneIntentPerTxRef' /\ AcceptedStaysConfigured'
<1>1. /\ DOMAIN intents' = DOMAIN intents
      /\ \A i \in DOMAIN intents :
              /\ intents'[i].user = intents[i].user
              /\ intents'[i].amount = intents[i].amount
              /\ intents'[i].countryCode = intents[i].countryCode
              /\ intents'[i].txRef = intents[i].txRef
  BY SettleIntents DEF IInv, TypeOK
<1>2. IntentsMatchIds'
  BY <1>1 DEF IInv, IntentsMatchIds, IntentId
<1>3. OneIntentPerTxRef'
  BY <1>1, SMT DEF IInv, OneIntentPerTxRef
<1>4. AcceptedStaysConfigured'
  BY <1>1, SMT DEF IInv, AcceptedStaysConfigured, config
<1> QED
  BY <1>2, <1>3, <1>4

LEMMA ExecuteMintInv ==
  ASSUME IInv, NEW sender \in Accounts, NEW id \in IntentIds,
         ExecuteMint(sender, id)
  PROVE  IInv'
<1> DEFINE amount == intents[id].amount
           bucket == DayBucket(now)
<1>1. /\ id \in DOMAIN intents
      /\ amount <= AvailableMintingCapacity(bucket)
      /\ intents' = [intents EXCEPT ![id].status = "Executed"]
      /\ dailyMinted' = Put(dailyMinted, bucket, DailyMinted(bucket) + amount)
      /\ UNCHANGED <<config, txRefConsumed>>
  BY DEF ExecuteMint, Minted, Settleable
<1>2. TypeOK'
  BY ExecuteMintType DEF IInv
<1>3. IntentsMatchIds' /\ OneIntentPerTxRef' /\ AcceptedStaysConfigured'
  <2>1. "Executed" \in MintStatus
    BY DEF MintStatus
  <2> QED
    BY <1>1, <2>1, SettleInv
<1>4. DailyLimitHeld'
  <2>1. amount \in Nat /\ bucket \in Nat
    BY <1>1, DayBucketType, EscrowAssumption
       DEF EscrowAssumption, IInv, TypeOK, ControlType, BookType, MintIntent
  <2>2. DailyMinted(bucket) <= DAILY_MINT_LIMIT
    BY EscrowAssumption, SMT DEF EscrowAssumption, DailyMinted, IInv, DailyLimitHeld
  <2>3. DailyMinted(bucket) + amount <= DAILY_MINT_LIMIT
    BY <1>1, <2>1, <2>2, CapacityBound DEF IInv
  <2> HIDE DEF amount, bucket
  <2> QED
    BY <1>1, <2>3 DEF Put, IInv, DailyLimitHeld
<1> QED
  BY <1>2, <1>3, <1>4 DEF IInv

LEMMA RefundIntentInv ==
  ASSUME IInv, NEW sender \in Accounts, NEW id \in IntentIds,
         RefundIntent(sender, id)
  PROVE  IInv'
<1>1. /\ id \in DOMAIN intents
      /\ intents' = [intents EXCEPT ![id].status = "Refunded"]
      /\ UNCHANGED <<config, txRefConsumed, dailyMinted>>
  BY DEF RefundIntent, TakenOut, Settleable
<1>2. TypeOK'
  <2>1. stablecoin # NoAddress
    BY <1>1 DEF IInv, AcceptedStaysConfigured
  <2> QED
    BY <2>1, RefundIntentType DEF IInv
<1>3. IntentsMatchIds' /\ OneIntentPerTxRef' /\ AcceptedStaysConfigured'
  <2>1. "Refunded" \in MintStatus
    BY DEF MintStatus
  <2> QED
    BY <1>1, <2>1, SettleInv
<1>4. DailyLimitHeld'
  BY <1>1 DEF IInv, DailyLimitHeld
<1> QED
  BY <1>2, <1>3, <1>4 DEF IInv

-----------------------------------------------------------------------------
(* The invariant, and what follows from it.                                *)

LEMMA InitInv == Init => IInv
<1> SUFFICES ASSUME Init PROVE IInv
  OBVIOUS
<1>1. TypeOK
  BY InitTypeOK
<1>2. /\ DOMAIN intents = {} /\ DOMAIN dailyMinted = {}
      /\ txRefConsumed = {}
  BY DEF Init
<1> QED
  BY <1>1, <1>2 DEF IInv, IntentsMatchIds, OneIntentPerTxRef, DailyLimitHeld,
       AcceptedStaysConfigured

LEMMA NextInv == IInv /\ [Next]_vars => IInv'
<1> SUFFICES ASSUME IInv, [Next]_vars PROVE IInv'
  OBVIOUS
<1>1. ASSUME NEW sender \in Accounts, NEW amount \in Amounts,
             NEW country \in Countries \cup {Zero},
             NEW txRef \in TxRefs \cup {Zero},
             SubmitIntent(sender, amount, country, txRef)
      PROVE  IInv'
  BY <1>1, SubmitIntentInv
<1>2. ASSUME NEW sender \in Accounts, NEW id \in IntentIds, ExecuteMint(sender, id)
      PROVE  IInv'
  BY <1>2, ExecuteMintInv
<1>3. ASSUME NEW sender \in Accounts, NEW id \in IntentIds, RefundIntent(sender, id)
      PROVE  IInv'
  BY <1>3, RefundIntentInv
<1>4. ASSUME ControlType', MoneyType', AcceptedStaysConfigured', UNCHANGED book
      PROVE  IInv'
  BY <1>4, SMT DEF IInv, TypeOK, BookType, book, IntentsMatchIds, IntentId,
       OneIntentPerTxRef, DailyLimitHeld
<1>5. CASE AdminOperation
  <2>1. /\ ControlType' /\ AcceptedStaysConfigured'
        /\ UNCHANGED <<book, money, outside>>
    BY <1>5, AdminOperationStep DEF IInv, TypeOK
  <2>2. MoneyType'
    BY <2>1 DEF IInv, TypeOK, MoneyType, money
  <2> QED
    BY <1>4, <2>1, <2>2
<1>6. CASE Environment
  BY <1>4, <1>6, EnvironmentStep DEF IInv, TypeOK
<1>7. CASE UNCHANGED vars
  <2>1. ControlType' /\ MoneyType' /\ AcceptedStaysConfigured'
    BY <1>7 DEF vars, config, book, money, outside, IInv, TypeOK, ControlType,
         MoneyType, AcceptedStaysConfigured
  <2> QED
    BY <1>4, <1>7, <2>1 DEF vars
<1> QED
  BY <1>1, <1>2, <1>3, <1>5, <1>6, <1>7 DEF Next, UserOperation

(* Every reachable state of the contract satisfies the inductive           *)
(* invariant.                                                              *)
THEOREM Invariance == Spec => []IInv
BY InitInv, NextInv, PTL DEF Spec

(* The storage of MintEscrow.sol stays in its types and no balance is      *)
(* overdrawn, for every number of accounts, coins, amounts and limits.     *)
THEOREM TypeCorrect == Spec => []TypeOK
<1>1. IInv => TypeOK
  BY DEF IInv
<1> QED
  BY <1>1, Invariance, PTL

(* A payment reference pays for exactly one intent, ever: the txRef check  *)
(* of submitIntent.                                                        *)
THEOREM TxRefSafety == Spec => []OneIntentPerTxRef
<1>1. IInv => OneIntentPerTxRef
  BY DEF IInv
<1> QED
  BY <1>1, Invariance, PTL

(* No day bucket of executeMint goes over DAILY_MINT_LIMIT.                *)
THEOREM DailyLimitSafety == Spec => []DailyLimitHeld
<1>1. IInv => DailyLimitHeld
  BY DEF IInv
<1> QED
  BY <1>1, Invariance, PTL

(* An accepted intent never meets an unset stablecoin, registry or country *)
(* token when it is settled: no setter accepts address(0).                 *)
THEOREM ConfigurationSafety == Spec => []AcceptedStaysConfigured
<1>1. IInv => AcceptedStaysConfigured
  BY DEF IInv
<1> QED
  BY <1>1, Invariance, PTL

-----------------------------------------------------------------------------
(* MintEscrow implements MintLedger.                                       *)

LEMMA LedgerInitial == Init => Ledger!LedgerInit
BY DEF Init, Ledger!LedgerInit, LedgerStatus

(* submitIntent opens the intent in the configured stablecoin.             *)
LEMMA SubmitIntentOpens ==
  ASSUME IInv, NEW sender \in Accounts, NEW amount \in Amounts,
         NEW country \in Countries \cup {Zero}, NEW txRef \in TxRefs \cup {Zero},
         SubmitIntent(sender, amount, country, txRef)
  PROVE  Ledger!LedgerNext
<1> DEFINE id == IntentId(sender, amount, country, txRef)
           rec == [user |-> sender, amount |-> amount, countryCode |-> country,
                   txRef |-> txRef, status |-> "Pending"]
<1>1. /\ stablecoin # NoAddress /\ country # Zero /\ txRef # Zero
      /\ txRef \notin txRefConsumed
      /\ intents' = Put(intents, id, rec)
      /\ balance' = [balance EXCEPT ![stablecoin] = @ + amount]
      /\ UNCHANGED <<paidBack, issued>>
  BY DEF SubmitIntent, ValidTxRef
<1>2. PICK coin \in Stablecoins : coin = stablecoin
  BY <1>1 DEF IInv, TypeOK, ControlType
<1>3. id \in IntentIds /\ IdAmount(id) = amount /\ IdTxRef(id) = txRef
  BY <1>1 DEF IntentIds, IntentId, IdAmount, IdTxRef
<1>4. /\ DOMAIN intents' = DOMAIN intents \cup {id}
      /\ intents'[id].status = "Pending"
      /\ \A i \in DOMAIN intents \ {id} : intents'[i] = intents[i]
  BY <1>1 DEF Put
<1>5. ASSUME NEW j \in IntentIds, IdTxRef(j) = txRef
      PROVE  j \notin DOMAIN intents
  BY <1>1, <1>5, SMT DEF IInv, OneIntentPerTxRef, IntentsMatchIds, IntentId, IdTxRef
<1> HIDE DEF id, rec
<1>6. Ledger!Open(id, coin)
  BY <1>1, <1>2, <1>3, <1>4, <1>5 DEF Ledger!Open, LedgerStatus
<1> QED
  BY <1>3, <1>6 DEF Ledger!LedgerNext

(* Settling an intent moves exactly that entry of the ledger.              *)
LEMMA SettleMoves ==
  ASSUME IInv, NEW id \in IntentIds, NEW st \in MintStatus, Settleable(id),
         intents' = [intents EXCEPT ![id].status = st]
  PROVE  /\ intents[id].user = IdUser(id) /\ intents[id].amount = IdAmount(id)
         /\ LedgerStatus[id] = "Pending"
         /\ LedgerStatus' = [LedgerStatus EXCEPT ![id] = st]
<1>1. id \in DOMAIN intents /\ intents[id].status = "Pending"
  BY DEF Settleable
<1>2. /\ DOMAIN intents' = DOMAIN intents
      /\ intents'[id].status = st
      /\ \A i \in DOMAIN intents \ {id} : intents'[i] = intents[i]
  BY <1>1, SettleIntents DEF IInv, TypeOK
<1>3. intents[id].user = IdUser(id) /\ intents[id].amount = IdAmount(id)
  BY <1>1, SMT DEF IInv, IntentsMatchIds, IntentId, IdUser, IdAmount
<1> QED
  BY <1>1, <1>2, <1>3 DEF LedgerStatus

(* executeMint is a Mint of the ledger, in the token configured now.       *)
LEMMA ExecuteMintMints ==
  ASSUME IInv, NEW sender \in Accounts, NEW id \in IntentIds,
         ExecuteMint(sender, id)
  PROVE  Ledger!LedgerNext
<1>1. /\ Settleable(id)
      /\ countryTokens[intents[id].countryCode] # NoAddress
      /\ intents' = [intents EXCEPT ![id].status = "Executed"]
      /\ issued' = [issued EXCEPT ![countryTokens[intents[id].countryCode]]
                                   [intents[id].user] = @ + intents[id].amount]
      /\ UNCHANGED <<balance, paidBack>>
  BY DEF ExecuteMint, Minted
<1>2. PICK token \in Tokens : token = countryTokens[intents[id].countryCode]
  BY <1>1 DEF Settleable, IInv, TypeOK, ControlType, BookType, MintIntent
<1>3. /\ intents[id].user = IdUser(id) /\ intents[id].amount = IdAmount(id)
      /\ LedgerStatus[id] = "Pending"
      /\ LedgerStatus' = [LedgerStatus EXCEPT ![id] = "Executed"]
  <2>1. "Executed" \in MintStatus
    BY DEF MintStatus
  <2> QED
    BY <1>1, <2>1, SettleMoves
<1>4. Ledger!Mint(id, token)
  BY <1>1, <1>2, <1>3 DEF Ledger!Mint
<1> QED
  BY <1>4 DEF Ledger!LedgerNext

(* refundIntent is a Refund of the ledger, in the stablecoin configured    *)
(* now.                                                                    *)
LEMMA RefundIntentRefunds ==
  ASSUME IInv, NEW sender \in Accounts, NEW id \in IntentIds,
         RefundIntent(sender, id)
  PROVE  Ledger!LedgerNext
<1>1. /\ Settleable(id)
      /\ balance[stablecoin] >= intents[id].amount
      /\ intents' = [intents EXCEPT ![id].status = "Refunded"]
      /\ balance' = [balance EXCEPT ![stablecoin] = @ - intents[id].amount]
      /\ paidBack' = [paidBack EXCEPT ![stablecoin][intents[id].user] =
                        @ + intents[id].amount]
      /\ UNCHANGED issued
  BY DEF RefundIntent, TakenOut
<1>2. PICK coin \in Stablecoins : coin = stablecoin
  BY <1>1 DEF Settleable, IInv, TypeOK, ControlType, AcceptedStaysConfigured
<1>3. /\ intents[id].user = IdUser(id) /\ intents[id].amount = IdAmount(id)
      /\ LedgerStatus[id] = "Pending"
      /\ LedgerStatus' = [LedgerStatus EXCEPT ![id] = "Refunded"]
  <2>1. "Refunded" \in MintStatus
    BY DEF MintStatus
  <2> QED
    BY <1>1, <2>1, SettleMoves
<1>4. Ledger!Refund(id, coin)
  BY <1>1, <1>2, <1>3 DEF Ledger!Refund
<1> QED
  BY <1>4 DEF Ledger!LedgerNext

LEMMA LedgerStep == IInv /\ [Next]_vars => [Ledger!LedgerNext]_(Ledger!ledgerVars)
<1> SUFFICES ASSUME IInv, [Next]_vars
             PROVE  Ledger!LedgerNext \/ UNCHANGED Ledger!ledgerVars
  OBVIOUS
<1>1. CASE UserOperation
  BY <1>1, SubmitIntentOpens, ExecuteMintMints, RefundIntentRefunds
     DEF UserOperation
<1>2. ASSUME UNCHANGED <<book, money>>
      PROVE  UNCHANGED Ledger!ledgerVars
  BY <1>2 DEF book, money, LedgerStatus, Ledger!ledgerVars
<1>3. CASE AdminOperation
  BY <1>2, <1>3, AdminOperationStep DEF IInv, TypeOK
<1>4. CASE Environment
  <2>1. CASE Tick
    BY <1>2, <2>1 DEF Tick
  <2>2. ASSUME NEW coin \in Stablecoins, NEW amount \in Amounts,
               Donate(coin, amount)
        PROVE  Ledger!LedgerNext
    <3>1. /\ balance' = [balance EXCEPT ![coin] = @ + amount]
          /\ UNCHANGED <<book, paidBack, issued>>
      BY <2>2 DEF Donate
    <3>2. balance[coin] \in Nat /\ amount \in Nat /\ balance \in [Stablecoins -> Nat]
      BY EscrowAssumption DEF EscrowAssumption, IInv, TypeOK, MoneyType
    <3>3. Ledger!Donate(coin)
      BY <3>1, <3>2, SMT DEF book, LedgerStatus, Ledger!Donate
    <3> QED
      BY <3>3 DEF Ledger!LedgerNext
  <2>3. ASSUME NEW registry \in Registries, NEW users \in SUBSET Accounts,
               ChangeCompliance(registry, users)
        PROVE  UNCHANGED Ledger!ledgerVars
    BY <1>2, <2>3 DEF ChangeCompliance
  <2>4. ASSUME NEW tokens \in SUBSET Tokens, ChangeMinter(tokens)
        PROVE  UNCHANGED Ledger!ledgerVars
    BY <1>2, <2>4 DEF ChangeMinter
  <2> QED
    BY <1>4, <2>1, <2>2, <2>3, <2>4 DEF Environment
<1>5. CASE UNCHANGED vars
  BY <1>2, <1>5 DEF vars
<1> QED
  BY <1>1, <1>3, <1>4, <1>5 DEF Next

(* Every behaviour of the contract is one of MintLedger: a reference opens *)
(* one intent, an intent is settled once, for its own user and amount, and *)
(* stablecoins leave the escrow only in a refund.                          *)
THEOREM Refinement == Spec => ImplementsLedger
BY LedgerInitial, LedgerStep, Invariance, PTL
   DEF Spec, ImplementsLedger, Ledger!LedgerSpec

=============================================================================
