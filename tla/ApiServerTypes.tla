--------------------------- MODULE ApiServerTypes ---------------------------
(* Proof of the type invariant of ApiServer, for every set of requests,    *)
(* keys, references and users, every number of attempts and faults, and    *)
(* every window.                                                           *)
EXTENDS ApiServer, TLAPS

(* Most leaves are first-order: Zenon tries them, and the ones that need    *)
(* arithmetic or the theory of functions cite SMT.                         *)
USE Zenon

Payloads == MintRequest \cup MpesaCallback
Successes == [code : {200, 201}, intent : IntentIds, tx : Tx]

HandlerTypes ==
  /\ pc \in [Requests -> InFlight \cup {"idle", "done", "lost"}]
  /\ request \in [Requests -> Payloads \cup {NoRequest}]
  /\ \A r \in Requests : pc[r] = "idle" <=> request[r] = NoRequest
  /\ attempt \in [Requests -> 1 .. Attempts]
  /\ \A r \in Requests : pc[r] = "backoff" => attempt[r] < Attempts
  /\ answer \in [Requests -> Answers]
  /\ \A r \in Requests : answer[r] = NoAnswer <=> pc[r] # "done"
  /\ dlq \subseteq Requests

StoreTypes ==
  /\ DOMAIN table \subseteq DOMAIN saved /\ DOMAIN saved \subseteq Keys
  /\ \A k \in DOMAIN table : table[k].response \in Successes /\ table[k].expiresAt \in Int
  /\ deletes \in [Keys -> Nat]
  /\ clock \in Nat /\ faults \in Nat

ChainTypes ==
  /\ pool \in Seq(Tx) /\ DOMAIN receipts \subseteq Tx
  /\ Ledger!LedgerTypeOK

Types == HandlerTypes /\ StoreTypes /\ ChainTypes
-----------------------------------------------------------------------------
(* Data.                                                                   *)

LEMMA PayloadFields ==
  ASSUME NEW p \in Payloads
  PROVE  /\ p.kind \in {"mint", "callback"} /\ p.key \in Keys
         /\ p.intent \in IntentIds /\ p # NoRequest
<1>1. CASE p \in MintRequest
  BY <1>1, SMT DEF MintRequest, Keys, NoRequest
<1>2. CASE p \in MpesaCallback
  <2>1. PICK i \in IntentIds, v \in BOOLEAN :
          p = [kind |-> "callback", key |-> CallbackKey(IdRef(i)), intent |-> i,
               valid |-> v]
    BY <1>2, SMT DEF MpesaCallback
  <2>2. IdRef(i) \in Refs
    BY <2>1 DEF IntentIds, IdRef
  <2> QED BY <2>1, <2>2 DEF Keys, NoRequest
<1> QED BY <1>1, <1>2 DEF Payloads

LEMMA AttemptsPositive == Attempts \in Nat \ {0}
BY ApiAssumption, SMT DEF Attempts

LEMMA TransactionTyped ==
  ASSUME HandlerTypes, NEW r \in Requests, pc[r] # "idle"
  PROVE  /\ Transaction(r) \in Tx
         /\ Transaction(r).request = r /\ Transaction(r).n = attempt[r]
<1>1. request[r] \in Payloads
  BY DEF HandlerTypes
<1>2. PICK p \in Payloads : p = request[r]
  BY <1>1
<1>3. p.kind \in {"mint", "callback"} /\ p.intent \in IntentIds
  BY <1>2, PayloadFields
<1>4. IntentId(Signer, IdRef(p.intent)) \in IntentIds
  BY <1>3, ApiAssumption DEF IntentId, IdRef, IntentIds
<1>5. attempt[r] \in 1 .. Attempts
  BY DEF HandlerTypes
<1> QED BY <1>2, <1>3, <1>4, <1>5 DEF Transaction, Tx

LEMMA ResponseTyped ==
  ASSUME HandlerTypes, NEW r \in Requests, pc[r] # "idle"
  PROVE  /\ Response(r) \in Successes
         /\ Response(r).tx = Transaction(r)
<1>1. PICK p \in Payloads : p = request[r]
  BY DEF HandlerTypes
<1>2. p.intent \in IntentIds
  BY <1>1, PayloadFields
<1> QED BY <1>1, <1>2, TransactionTyped DEF Response, Success, Successes

LEMMA AnswerKinds ==
  /\ \A a \in Successes : a \in Answers /\ a # NoAnswer /\ a.code \in {200, 201}
  /\ \A code \in {400, 500, 502} :
       /\ Failure(code) \in Answers /\ Failure(code) # NoAnswer
       /\ Failure(code).code \notin {200, 201}
BY SMT DEF Answers, Successes, NoAnswer, Failure

-----------------------------------------------------------------------------
(* Types: the handlers.                                                    *)

LEMMA GotoTyped ==
  ASSUME HandlerTypes, NEW r \in Requests, pc[r] \in InFlight, NEW step \in InFlight,
         step = "backoff" => attempt[r] < Attempts, Goto(r, step), dlq' = dlq
  PROVE  HandlerTypes'
BY DEF HandlerTypes, Goto, InFlight

LEMMA FinishTyped ==
  ASSUME HandlerTypes, NEW r \in Requests, pc[r] \in InFlight, NEW a \in Answers,
         a # NoAnswer, Finish(r, a), dlq' \subseteq Requests
  PROVE  HandlerTypes'
BY DEF HandlerTypes, Finish, InFlight

LEMMA DeliverTyped ==
  ASSUME HandlerTypes, NEW r \in Requests, NEW p \in Payloads, Deliver(r, p)
  PROVE  HandlerTypes'
<1>1. p # NoRequest
  BY PayloadFields
<1>2. Failure(400) \in Answers /\ Failure(400) # NoAnswer
  BY AnswerKinds, SMT
<1> QED BY <1>1, <1>2, SMT DEF HandlerTypes, Deliver, InFlight

LEMMA BackoffTyped ==
  ASSUME HandlerTypes, NEW r \in Requests, Backoff(r)
  PROVE  HandlerTypes'
<1>1. CASE Goto(r, "deadletter")
  BY <1>1, GotoTyped DEF Backoff, InFlight
<1>2. CASE /\ pc' = [pc EXCEPT ![r] = "execute"]
           /\ attempt' = [attempt EXCEPT ![r] = NextAttempt(r)]
           /\ UNCHANGED <<request, answer, history>>
  <2>1. NextAttempt(r) \in 1 .. Attempts
    BY AttemptsPositive, SMT DEF Backoff, HandlerTypes, NextAttempt
  <2> QED BY <1>2, <2>1 DEF Backoff, HandlerTypes, InFlight
<1> QED BY <1>1, <1>2 DEF Backoff

LEMMA RetryTyped ==
  ASSUME HandlerTypes, NEW r \in Requests, pc[r] = "execute", NEW b \in BOOLEAN,
         Retry(r, b), dlq' = dlq
  PROVE  HandlerTypes'
<1>1. attempt[r] \in 1 .. Attempts /\ Attempts \in Nat
  BY AttemptsPositive DEF HandlerTypes
<1>2. CASE Goto(r, "deadletter")
  BY <1>2, GotoTyped DEF InFlight
<1>3. CASE Goto(r, "backoff") /\ attempt[r] # Attempts
  BY <1>1, <1>3, GotoTyped, SMT DEF InFlight
<1> QED BY <1>2, <1>3 DEF Retry

LEMMA ProceedTyped ==
  ASSUME HandlerTypes, NEW r \in Requests, pc[r] = "lookup", Proceed(r), dlq' = dlq
  PROVE  HandlerTypes'
<1>1. CASE Goto(r, "execute") \/ Goto(r, "submit")
  BY <1>1, GotoTyped DEF InFlight
<1>2. CASE Finish(r, Failure(400))
  <2>1. Failure(400) \in Answers /\ Failure(400) # NoAnswer
    BY AnswerKinds, SMT
  <2> QED BY <1>2, <2>1, FinishTyped, SMT DEF InFlight, HandlerTypes
<1> QED BY <1>1, <1>2 DEF Proceed

LEMMA LookupTyped ==
  ASSUME Types, NEW r \in Requests, Lookup(r) PROVE HandlerTypes'
<1>1. HandlerTypes /\ pc[r] = "lookup" /\ pc[r] \in InFlight /\ dlq' = dlq
  BY DEF Types, Lookup, InFlight
<1>2. CASE Store!Hit(request[r].key) /\ Finish(r, table[request[r].key].response)
  <2>1. table[request[r].key].response \in Successes
    BY <1>2 DEF Types, StoreTypes, Store!Hit
  <2>2. /\ table[request[r].key].response \in Answers
        /\ table[request[r].key].response # NoAnswer
    BY <2>1, AnswerKinds, SMT
  <2> QED BY <1>1, <1>2, <2>2, FinishTyped DEF HandlerTypes
<1>3. CASE Proceed(r)
  BY <1>1, <1>3, ProceedTyped
<1> QED BY <1>2, <1>3 DEF Lookup

LEMMA SubmitTyped ==
  ASSUME Types, NEW r \in Requests, SubmitIntent(r) PROVE HandlerTypes'
<1>1. HandlerTypes /\ pc[r] = "submit" /\ pc[r] \in InFlight /\ dlq' = dlq
  BY DEF Types, SubmitIntent, InFlight
<1>2. CASE Goto(r, "save")
  BY <1>1, <1>2, GotoTyped DEF InFlight
<1>3. CASE Finish(r, Failure(502))
  <2>1. Failure(502) \in Answers /\ Failure(502) # NoAnswer
    BY AnswerKinds, SMT
  <2> QED BY <1>1, <1>3, <2>1, FinishTyped, SMT DEF HandlerTypes
<1> QED BY <1>2, <1>3 DEF SubmitIntent

LEMMA ExecuteTyped ==
  ASSUME Types, NEW r \in Requests, ExecuteMint(r) PROVE HandlerTypes'
<1>1. HandlerTypes /\ pc[r] = "execute" /\ pc[r] \in InFlight /\ dlq' = dlq
  BY DEF Types, ExecuteMint, InFlight
<1>2. CASE Goto(r, "save")
  BY <1>1, <1>2, GotoTyped DEF InFlight
<1>3. CASE Retry(r, TRUE) \/ Retry(r, FALSE)
  BY <1>1, <1>3, RetryTyped
<1> QED BY <1>2, <1>3 DEF ExecuteMint

LEMMA SaveTyped ==
  ASSUME Types, NEW r \in Requests, Save(r) PROVE HandlerTypes'
<1>1. HandlerTypes /\ pc[r] = "save" /\ pc[r] \in InFlight /\ dlq' = dlq
      /\ Finish(r, Response(r))
  BY DEF Types, Save, InFlight
<1>2. Response(r) \in Successes
  BY <1>1, ResponseTyped
<1>3. Response(r) \in Answers /\ Response(r) # NoAnswer
  BY <1>2, AnswerKinds, SMT
<1> QED BY <1>1, <1>3, FinishTyped DEF HandlerTypes

LEMMA WriteDLQTyped ==
  ASSUME Types, NEW r \in Requests, WriteDLQ(r) PROVE HandlerTypes'
<1>1. HandlerTypes /\ pc[r] = "deadletter" /\ pc[r] \in InFlight
      /\ Finish(r, Failure(500))
  BY DEF Types, WriteDLQ, InFlight
<1>2. dlq' \subseteq Requests
  BY <1>1 DEF WriteDLQ, Parked, HandlerTypes
<1>3. Failure(500) \in Answers /\ Failure(500) # NoAnswer
  BY AnswerKinds, SMT
<1> QED BY <1>1, <1>2, <1>3, FinishTyped, SMT

LEMMA CrashTyped ==
  ASSUME Types, NEW served \in SUBSET Requests, Crash(served) PROVE HandlerTypes'
<1>1. HandlerTypes /\ UNCHANGED <<request, attempt, answer, dlq>>
      /\ pc' = [r \in Requests |-> IF r \in served THEN "lost" ELSE pc[r]]
      /\ \A r \in served : pc[r] \in InFlight
  BY DEF Types, Crash
<1> QED BY <1>1 DEF HandlerTypes, InFlight

-----------------------------------------------------------------------------
(* Types: the store and the chain.                                         *)

LEMMA FaultCounts ==
  ASSUME faults \in Nat, Fault \/ UNCHANGED history
  PROVE  faults' \in Nat /\ faults' >= faults /\ (faults' = 0 => faults = 0)
         /\ overlapped' = overlapped
BY SMT DEF Fault, history

LEMMA GetMissTyped ==
  ASSUME StoreTypes, NEW k \in Keys, Store!GetMiss(k), clock' = clock, faults' \in Nat
  PROVE  StoreTypes'
BY SMT DEF StoreTypes, Store!GetMiss

LEMMA StoreSaveTyped ==
  ASSUME StoreTypes, NEW k \in Keys, NEW a \in Successes, Store!Save(k, a),
         clock' = clock, faults' \in Nat
  PROVE  StoreTypes'
<1>1. clock + Window \in Int
  BY ApiAssumption, SMT DEF StoreTypes
<1>2. PICK record : record = [response |-> a, expiresAt |-> clock + Window]
  OBVIOUS
<1>3. /\ table' = Store!Upsert(table, k, record)
      /\ saved' = Store!Upsert(saved, k, record) /\ deletes' = deletes
  BY <1>2 DEF Store!Save
<1>4. record.response \in Successes /\ record.expiresAt \in Int
  BY <1>1, <1>2
<1> QED BY <1>3, <1>4 DEF StoreTypes, Store!Upsert

LEMMA DeleteTyped ==
  ASSUME StoreTypes, NEW k \in Keys, Store!DeleteKey(k), clock' = clock, faults' \in Nat
  PROVE  StoreTypes'
BY SMT DEF StoreTypes, Store!DeleteKey

LEMMA StoreRests ==
  ASSUME StoreTypes, UNCHANGED <<table, deletes, saved>>, clock' \in Nat, faults' \in Nat
  PROVE  StoreTypes'
BY DEF StoreTypes

LEMMA BroadcastTyped ==
  ASSUME ChainTypes, NEW tx \in Tx, Broadcast(tx),
         UNCHANGED <<receipts, state, held, returned, supply>>
  PROVE  ChainTypes'
BY SMT DEF ChainTypes, Broadcast, Ledger!LedgerTypeOK

LEMMA OpenTyped ==
  ASSUME Ledger!LedgerTypeOK, NEW i \in IntentIds, Ledger!Open(i, Coin)
  PROVE  Ledger!LedgerTypeOK'
BY SMT DEF Ledger!LedgerTypeOK, Ledger!Open, One, Ledger!LedgerState

LEMMA RefundTyped ==
  ASSUME Ledger!LedgerTypeOK, NEW i \in IntentIds, Ledger!Refund(i, Coin)
  PROVE  Ledger!LedgerTypeOK'
<1>1. IdUser(i) \in Users
  BY DEF IntentIds, IdUser
<1> QED BY <1>1, SMT DEF Ledger!LedgerTypeOK, Ledger!Refund, One, Ledger!LedgerState

LEMMA MineTyped ==
  ASSUME ChainTypes, Mine PROVE ChainTypes'
<1>1. pool \in Seq(Tx) /\ pool # << >> /\ pool' = Tail(pool) /\ Head(pool) \in Tx
  BY SMT DEF ChainTypes, Mine
<1>2. PICK tx \in Tx : tx = Head(pool)
  BY <1>1
<1>3. /\ pool' \in Seq(Tx)
      /\ DOMAIN receipts' = DOMAIN receipts \cup {tx}
  BY <1>1, <1>2, SMT DEF Mine
<1>4. tx.intent \in IntentIds /\ IdUser(tx.intent) \in Users
  BY <1>2 DEF Tx, IntentIds, IdUser
<1>5. Ledger!LedgerTypeOK'
  <2>1. Ledger!LedgerTypeOK
    BY DEF ChainTypes
  <2>2. CASE UNCHANGED <<state, held, returned, supply>>
    BY <2>1, <2>2 DEF Ledger!LedgerTypeOK
  <2>3. CASE Ledger!Open(tx.intent, Coin)
    BY <1>4, <2>1, <2>3, OpenTyped
  <2>4. CASE /\ state' = [state EXCEPT ![tx.intent] = "Executed"]
             /\ supply' = [supply EXCEPT ![Token][IdUser(tx.intent)] =
                             supply[Token][IdUser(tx.intent)] + One(tx.intent)]
             /\ UNCHANGED <<held, returned>>
    BY <1>4, <2>1, <2>4, SMT DEF Ledger!LedgerTypeOK, One, Ledger!LedgerState
  <2> QED BY <1>2, <2>2, <2>3, <2>4 DEF Mine
<1> QED BY <1>2, <1>3, <1>5 DEF ChainTypes

LEMMA ChainRests ==
  ASSUME ChainTypes, UNCHANGED chain PROVE ChainTypes'
BY DEF ChainTypes, chain, Ledger!LedgerTypeOK

-----------------------------------------------------------------------------
(* Types: every step.                                                      *)

LEMMA KeyTyped ==
  ASSUME HandlerTypes, NEW r \in Requests, pc[r] # "idle"
  PROVE  request[r].key \in Keys
<1>1. PICK p \in Payloads : p = request[r]
  BY DEF HandlerTypes
<1> QED BY <1>1, PayloadFields

LEMMA HandleTypes ==
  ASSUME Types, NEW r \in Requests, Handle(r) PROVE Types'
<1>1. HandlerTypes /\ StoreTypes /\ ChainTypes /\ faults \in Nat /\ clock \in Nat
  BY DEF Types, StoreTypes
<1>2. CASE Lookup(r)
  <2>1. /\ pc[r] = "lookup" /\ UNCHANGED chain /\ clock' = clock
        /\ Fault \/ UNCHANGED history
        /\ UNCHANGED <<table, deletes, saved>> \/ Store!GetMiss(request[r].key)
    BY <1>2 DEF Lookup
  <2>2. faults' \in Nat
    BY <1>1, <2>1, FaultCounts
  <2>3. PICK k \in Keys : k = request[r].key
    BY <1>1, <2>1, KeyTyped
  <2>4. StoreTypes'
    BY <1>1, <2>1, <2>2, <2>3, StoreRests, GetMissTyped
  <2> QED BY <1>1, <1>2, <2>1, <2>4, LookupTyped, ChainRests DEF Types
<1>3. CASE SubmitIntent(r) \/ ExecuteMint(r)
  <2>1. /\ pc[r] # "idle" /\ clock' = clock /\ (Fault \/ UNCHANGED history)
        /\ UNCHANGED <<table, deletes, saved>>
        /\ UNCHANGED <<receipts, state, held, returned, supply>>
        /\ UNCHANGED pool \/ Broadcast(Transaction(r))
    BY <1>3 DEF SubmitIntent, ExecuteMint
  <2>2. faults' \in Nat
    BY <1>1, <2>1, FaultCounts
  <2>3. Transaction(r) \in Tx
    BY <1>1, <2>1, TransactionTyped
  <2>4. PICK tx \in Tx : tx = Transaction(r)
    BY <2>3
  <2>5. ChainTypes'
    BY <1>1, <2>1, <2>4, BroadcastTyped, ChainRests DEF chain
  <2>6. StoreTypes'
    BY <1>1, <2>1, <2>2, StoreRests
  <2> QED BY <1>3, <2>5, <2>6, SubmitTyped, ExecuteTyped DEF Types
<1>4. CASE Backoff(r) \/ WriteDLQ(r)
  <2>1. /\ UNCHANGED chain /\ clock' = clock /\ (Fault \/ UNCHANGED history)
        /\ UNCHANGED <<table, deletes, saved>>
    BY <1>4 DEF Backoff, WriteDLQ
  <2>2. faults' \in Nat
    BY <1>1, <2>1, FaultCounts
  <2>3. StoreTypes' /\ ChainTypes'
    BY <1>1, <2>1, <2>2, StoreRests, ChainRests
  <2> QED BY <1>1, <1>4, <2>3, BackoffTyped, WriteDLQTyped DEF Types
<1>5. CASE Save(r)
  <2>1. /\ pc[r] = "save" /\ UNCHANGED chain /\ clock' = clock
        /\ Fault \/ UNCHANGED history
        /\ UNCHANGED <<table, deletes, saved>> \/ Store!Save(request[r].key, Response(r))
    BY <1>5 DEF Save
  <2>2. faults' \in Nat
    BY <1>1, <2>1, FaultCounts
  <2>3. PICK k \in Keys : k = request[r].key
    BY <1>1, <2>1, KeyTyped
  <2>4. PICK a \in Successes : a = Response(r)
    BY <1>1, <2>1, ResponseTyped
  <2>5. StoreTypes'
    BY <1>1, <2>1, <2>2, <2>3, <2>4, StoreRests, StoreSaveTyped
  <2> QED BY <1>1, <1>5, <2>1, <2>5, SaveTyped, ChainRests DEF Types
<1> QED BY <1>2, <1>3, <1>4, <1>5 DEF Handle

LEMMA TypesStep ==
  ASSUME Types, [Next]_vars PROVE Types'
<1>1. HandlerTypes /\ StoreTypes /\ ChainTypes /\ faults \in Nat /\ clock \in Nat
  BY DEF Types, StoreTypes
<1>2. ASSUME NEW r \in Requests, NEW p \in MintRequest \cup MpesaCallback, Deliver(r, p)
      PROVE  Types'
  <2>1. /\ UNCHANGED <<table, deletes, saved, clock, faults>> /\ UNCHANGED chain
    BY <1>2 DEF Deliver
  <2> QED BY <1>1, <1>2, <2>1, DeliverTyped, StoreRests, ChainRests DEF Types, Payloads
<1>3. ASSUME NEW r \in Requests, Handle(r) PROVE Types'
  BY <1>3, HandleTypes
<1>4. ASSUME NEW served \in SUBSET Requests, Crash(served) PROVE Types'
  <2>1. UNCHANGED <<table, deletes, saved, clock>> /\ UNCHANGED chain /\ Fault
    BY <1>4 DEF Crash
  <2>2. faults' \in Nat
    BY <1>1, <2>1, FaultCounts
  <2> QED BY <1>1, <1>4, <2>1, <2>2, CrashTyped, StoreRests, ChainRests DEF Types
<1>5. ASSUME NEW k \in Keys, DeleteKey(k) PROVE Types'
  <2>1. /\ UNCHANGED <<handler, clock, dlq, faults>> /\ UNCHANGED chain
        /\ Store!DeleteKey(k)
    BY <1>5 DEF DeleteKey, history
  <2>2. HandlerTypes'
    BY <1>1, <2>1 DEF HandlerTypes, handler
  <2> QED BY <1>1, <2>1, <2>2, DeleteTyped, ChainRests DEF Types
<1>6. CASE Tick
  <2>1. /\ UNCHANGED <<handler, table, deletes, saved, dlq, faults>> /\ UNCHANGED chain
        /\ clock' = clock + 1
    BY <1>6 DEF Tick, history
  <2>2. HandlerTypes'
    BY <1>1, <2>1 DEF HandlerTypes, handler
  <2>3. clock' \in Nat
    BY <1>1, <2>1, SMT
  <2> QED BY <1>1, <2>1, <2>2, <2>3, StoreRests, ChainRests DEF Types
<1>7. CASE Mine
  <2>1. UNCHANGED <<handler, table, deletes, saved, clock, dlq, faults>>
    BY <1>7 DEF Mine, history
  <2>2. HandlerTypes'
    BY <1>1, <2>1 DEF HandlerTypes, handler
  <2> QED BY <1>1, <1>7, <2>1, <2>2, StoreRests, MineTyped DEF Types
<1>8. CASE OnChain
  <2>1. UNCHANGED <<handler, table, deletes, saved, clock, dlq, pool, receipts, faults>>
    BY <1>8 DEF OnChain, history
  <2>2. HandlerTypes'
    BY <1>1, <2>1 DEF HandlerTypes, handler
  <2>3. Ledger!LedgerTypeOK'
    BY <1>1, <1>8, OpenTyped, RefundTyped DEF OnChain, ChainTypes
  <2>4. ChainTypes'
    BY <1>1, <2>1, <2>3 DEF ChainTypes
  <2> QED BY <1>1, <2>1, <2>2, <2>4, StoreRests DEF Types
<1>9. CASE (\E intents \in SUBSET IntentIds : Refuse(intents)) \/ UNCHANGED vars
  <2>1. /\ UNCHANGED <<handler, table, deletes, saved, clock, dlq, faults>>
        /\ UNCHANGED chain
    BY <1>9 DEF Refuse, vars, history
  <2>2. HandlerTypes'
    BY <1>1, <2>1 DEF HandlerTypes, handler
  <2> QED BY <1>1, <2>1, <2>2, StoreRests, ChainRests DEF Types
<1> QED BY <1>2, <1>3, <1>4, <1>5, <1>6, <1>7, <1>8, <1>9 DEF Next

LEMMA TypesInit ==
  ASSUME Init PROVE Types
<1>1. HandlerTypes
  BY AttemptsPositive, SMT DEF Init, HandlerTypes, InFlight, Answers, NoAnswer
<1>2. StoreTypes
  BY DEF Init, StoreTypes, Store!StoreInit
<1>3. ChainTypes
  BY SMT DEF Init, ChainTypes, Ledger!LedgerInit, Ledger!LedgerTypeOK, Ledger!LedgerState
<1> QED BY <1>1, <1>2, <1>3 DEF Types

LEMMA TypesSuffice ==
  ASSUME Types PROVE TypeOK
<1>1. HandlerTypes /\ StoreTypes /\ ChainTypes
  BY DEF Types
<1>2. \A r \in Requests :
        IF pc[r] = "idle" THEN request[r] = NoRequest
                          ELSE request[r] \in MintRequest \cup MpesaCallback
  BY <1>1 DEF HandlerTypes, Payloads
<1>3. \A k \in DOMAIN table : table[k].response \in Answers
  BY <1>1, AnswerKinds, SMT DEF StoreTypes
<1>4. Range(pool) \cup DOMAIN receipts \subseteq Tx
  BY <1>1, SMT DEF ChainTypes, Range
<1> QED BY <1>1, <1>2, <1>3, <1>4 DEF TypeOK, HandlerTypes, StoreTypes, ChainTypes

(* The type invariant: no attempt beyond the configured number, only       *)
(* successes in the store, only transactions of delivered requests.        *)
THEOREM TypeCorrect == Spec => []TypeOK
<1>1. Init => Types
  BY TypesInit
<1>2. Types /\ [Next]_vars => Types'
  BY TypesStep
<1>3. Types => TypeOK
  BY TypesSuffice
<1> QED BY <1>1, <1>2, <1>3, PTL DEF Spec

-----------------------------------------------------------------------------
(* The chain under the API is a MintLedger.                                *)

LEMMA MineIsLedgerStep ==
  ASSUME ChainTypes, Mine PROVE [Ledger!LedgerNext]_(Ledger!ledgerVars)
<1>1. pool \in Seq(Tx) /\ pool # << >> /\ Head(pool) \in Tx
  BY SMT DEF ChainTypes, Mine
<1>2. PICK tx \in Tx : tx = Head(pool)
  BY <1>1
<1>3. tx.intent \in IntentIds
  BY <1>2 DEF Tx
<1>4. CASE ~Accepts(tx)
  BY <1>2, <1>4 DEF Mine, Ledger!ledgerVars
<1>5. CASE Accepts(tx) /\ tx.kind = "mint"
  <2>1. Ledger!Open(tx.intent, Coin)
    BY <1>2, <1>5 DEF Mine
  <2> QED BY <1>3, <2>1 DEF Ledger!LedgerNext
<1>6. CASE Accepts(tx) /\ tx.kind # "mint"
  <2>1. state[tx.intent] = "Pending"
    BY <1>6 DEF Accepts, CanExecute
  <2>2. Ledger!Mint(tx.intent, Token)
    BY <1>2, <1>6, <2>1 DEF Mine, Ledger!Mint
  <2> QED BY <1>3, <2>2 DEF Ledger!LedgerNext
<1> QED BY <1>4, <1>5, <1>6

(* Of the API's own steps none moves the ledger: a handler only sends.     *)
LEMMA OnlyBlocksMoveLedger ==
  ASSUME [Next]_vars PROVE Mine \/ OnChain \/ UNCHANGED Ledger!ledgerVars
<1>1. ASSUME NEW r \in Requests, Handle(r)
      PROVE  UNCHANGED <<state, held, returned, supply>>
  <2>1. CASE Lookup(r) \/ Backoff(r) \/ WriteDLQ(r) \/ Save(r)
    BY <2>1 DEF Lookup, Backoff, WriteDLQ, Save, chain
  <2>2. CASE SubmitIntent(r) \/ ExecuteMint(r)
    BY <2>2 DEF SubmitIntent, ExecuteMint
  <2> QED BY <1>1, <2>1, <2>2 DEF Handle
<1>2. CASE \E r \in Requests, p \in MintRequest \cup MpesaCallback : Deliver(r, p)
  BY <1>2 DEF Deliver, chain, Ledger!ledgerVars
<1>3. CASE (\E served \in SUBSET Requests \ {{}} : Crash(served)) \/ Tick
  BY <1>3 DEF Crash, Tick, chain, Ledger!ledgerVars
<1>4. CASE \E key \in Keys : DeleteKey(key)
  BY <1>4 DEF DeleteKey, chain, Ledger!ledgerVars
<1>5. CASE (\E intents \in SUBSET IntentIds : Refuse(intents)) \/ UNCHANGED vars
  BY <1>5 DEF Refuse, vars, chain, Ledger!ledgerVars
<1> QED BY <1>1, <1>2, <1>3, <1>4, <1>5 DEF Next, Ledger!ledgerVars

(* Whatever is delivered, retried, sent twice or crashed, the chain under  *)
(* the API moves by steps of MintLedger only, the specification MintEscrow *)
(* implements (MintEscrowProofs!Refinement): a repeated executeMint never  *)
(* settles an intent a second time, and no handler step touches a balance. *)
THEOREM ChainIsALedger == Spec => Ledger!LedgerSpec
<1>1. Init => Ledger!LedgerInit
  BY DEF Init
<1>2. Types /\ [Next]_vars => [Ledger!LedgerNext]_(Ledger!ledgerVars)
  <2> SUFFICES ASSUME Types, [Next]_vars
               PROVE  [Ledger!LedgerNext]_(Ledger!ledgerVars)
    OBVIOUS
  <2>1. CASE Mine
    BY <2>1, MineIsLedgerStep DEF Types
  <2>2. CASE OnChain
    BY <2>2 DEF OnChain, Ledger!LedgerNext
  <2>3. CASE UNCHANGED Ledger!ledgerVars
    BY <2>3
  <2> QED BY <2>1, <2>2, <2>3, OnlyBlocksMoveLedger
<1>3. Init => Types
  BY TypesInit
<1>4. Types /\ [Next]_vars => Types'
  BY TypesStep
<1> QED BY <1>1, <1>2, <1>3, <1>4, PTL DEF Spec, Ledger!LedgerSpec

=============================================================================
