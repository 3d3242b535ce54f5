------------------------------ MODULE ApiServer ------------------------------
(***************************************************************************)
(* The API service, api/internal/server/server.go, with the chain client   *)
(* (api/internal/escrow/eth_client.go) and the idempotency store it runs   *)
(* on.  Every request is a goroutine that looks its idempotency key up,    *)
(* sends a transaction, saves its response under the key and answers; the  *)
(* requests interleave between those calls.  The escrow contract is        *)
(* represented by MintLedger, which MintEscrow implements.                 *)
(*                                                                         *)
(* Requests have passed the HMAC check.  Calls to Postgres, to the node    *)
(* and to the DLQ directory may fail, an answer of the node may be lost    *)
(* after it took the transaction, a client may hang up, and a replica may  *)
(* die with the requests it is serving: these are the faults, at most      *)
(* MaxFaults in a behaviour.                                               *)
(***************************************************************************)
EXTENDS Integers, FiniteSets, Sequences, Functions

CONSTANTS
  Requests,        \* deliveries of HTTP requests
  MintKeys,        \* X-Idempotency-Key values the clients use
  Refs,            \* payment references
  Users, Signer,   \* accounts; Signer holds CHAIN_PRIVATE_KEY
  Coin, Token,     \* the stablecoin and the country token
  MaxAttempts,     \* cfg.Retry.MaxAttempts
  Window,          \* cfg.Service.IdempotencyWindow
  MaxClock,        \* bound: last value of the clock
  MaxFaults,       \* bound: faults in a behaviour
  MaxRefusals      \* bound: changes of mind of the contract

ASSUME ApiAssumption ==
  /\ IsFiniteSet(Users) /\ IsFiniteSet(Refs) /\ Signer \in Users
  /\ MaxAttempts \in Int
  /\ Window \in Nat /\ MaxClock \in Nat
  /\ MaxFaults \in Nat /\ MaxRefusals \in Nat

VARIABLES
  pc, request, attempt, answer,       \* per request
  table, deletes, saved, clock,       \* the store
  dlq,                                \* requests with a file in the DLQ
  pool, receipts,                     \* transactions, sent and mined
  state, held, returned, supply,      \* the escrow contract's ledger
  refusing,                           \* intents executeMint reverts for
  faults, refusals, overlapped        \* history

handler == <<pc, request, attempt, answer>>
chain == <<pool, receipts, state, held, returned, supply>>
history == <<faults, refusals, overlapped>>
vars == <<handler, table, deletes, saved, clock, dlq, chain, refusing, history>>

-----------------------------------------------------------------------------
(* keccak256(user, amount, country, txRef); amount and country are fixed.  *)
IntentId(user, ref) == <<user, ref>>
IntentIds == Users \X Refs
IdUser(i) == i[1]
IdRef(i) == i[2]
One(i) == 1

CallbackKey(ref) == <<"mpesa:", ref>>

Keys == MintKeys \cup {CallbackKey(ref) : ref \in Refs}

MintRequest ==
  [kind : {"mint"}, key : MintKeys, intent : IntentIds, valid : BOOLEAN]

(* M-PESA reports the payment of an intent under its own reference.        *)
MpesaCallback ==
  {[kind |-> "callback", key |-> CallbackKey(IdRef(i)), intent |-> i,
    valid |-> valid] : i \in IntentIds, valid \in BOOLEAN}

NoRequest == [kind |-> "none"]
NoAnswer == [code |-> 0]
Failure(code) == [code |-> code]
Success(code, intent, tx) == [code |-> code, intent |-> intent, tx |-> tx]

Store == INSTANCE PostgresStore

Ledger == INSTANCE MintLedger WITH
  Intents <- IntentIds, UserOf <- IdUser, AmountOf <- One, TxRefOf <- IdRef,
  Coins <- {Coin}, Tokens <- {Token}

InFlight == {"lookup", "submit", "execute", "backoff", "save", "deadletter"}

(* executeMintWithRetry makes one attempt when none is configured.         *)
Attempts == IF MaxAttempts <= 0 THEN 1 ELSE MaxAttempts

Init ==
  /\ pc = [r \in Requests |-> "idle"]
  /\ request = [r \in Requests |-> NoRequest]
  /\ attempt = [r \in Requests |-> 1]
  /\ answer = [r \in Requests |-> NoAnswer]
  /\ Store!StoreInit
  /\ clock = 0
  /\ dlq = {}
  /\ pool = << >>
  /\ receipts = [tx \in {} |-> TRUE]
  /\ Ledger!LedgerInit
  /\ refusing = {}
  /\ faults = 0 /\ refusals = 0 /\ overlapped = FALSE

Fault ==
  /\ faults < MaxFaults
  /\ faults' = faults + 1
  /\ UNCHANGED <<refusals, overlapped>>

Finish(r, response) ==
  /\ pc' = [pc EXCEPT ![r] = "done"]
  /\ answer' = [answer EXCEPT ![r] = response]
  /\ UNCHANGED <<request, attempt>>

Goto(r, step) ==
  /\ pc' = [pc EXCEPT ![r] = step]
  /\ UNCHANGED <<request, attempt, answer>>

-----------------------------------------------------------------------------
(* The two handlers.                                                       *)

(* A malformed callback is refused before its key is looked up.            *)
Deliver(r, payload) ==
  /\ pc[r] = "idle"
  /\ request' = [request EXCEPT ![r] = payload]
  /\ IF payload.kind = "callback" /\ ~payload.valid
     THEN /\ pc' = [pc EXCEPT ![r] = "done"]
          /\ answer' = [answer EXCEPT ![r] = Failure(400)]
     ELSE /\ pc' = [pc EXCEPT ![r] = "lookup"]
          /\ UNCHANGED answer
  /\ overlapped' = (overlapped \/ \E q \in Requests :
                      pc[q] \in InFlight /\ request[q].key = payload.key)
  /\ UNCHANGED <<attempt, table, deletes, saved, clock, dlq, chain, refusing,
                 faults, refusals>>

ProceedOnce(r) ==
  IF request[r].valid THEN Goto(r, "submit") ELSE Finish(r, Failure(400))

(* What a handler does when Get gave it no record.  A malformed mint       *)
(* request is refused only now.                                            *)
Proceed(r) ==
  IF request[r].kind = "callback" THEN Goto(r, "execute")
  ELSE IF request[r].valid THEN Goto(r, "submit")
  ELSE Finish(r, Failure(400))

Lookup(r) ==
  LET key == request[r].key IN
  /\ pc[r] = "lookup"
  /\ \/ /\ Store!Hit(key)
        /\ Finish(r, table[key].response)
        /\ UNCHANGED <<table, deletes, saved, history>>
     \/ /\ Store!GetMiss(key)
        /\ Proceed(r)
        /\ UNCHANGED history
     \/ /\ Fault      \* the error of Get is dropped: as if there were none
        /\ Proceed(r)
        /\ UNCHANGED <<table, deletes, saved>>
  /\ UNCHANGED <<clock, dlq, chain, refusing>>

(* The checks of submitIntent and executeMint that depend on what was sent *)
(* before; refusing stands for the others.                                 *)
CanSubmit(ref) ==
  \A i \in IntentIds : IdRef(i) = ref => state[i] = "Absent"

CanExecute(i) == state[i] = "Pending" /\ i \notin refusing

AcceptsAny(tx) == tx.intent \notin refusing

Accepts(tx) ==
  IF tx.kind = "mint" THEN CanSubmit(IdRef(tx.intent)) ELSE CanExecute(tx.intent)

(* The transaction attempt n of request r sends.  The contract derives the *)
(* intent of a submitIntent from msg.sender, which is the Signer.          *)
Transaction(r) ==
  [request |-> r, n |-> attempt[r], kind |-> request[r].kind,
   intent |-> IF request[r].kind = "mint"
              THEN IntentId(Signer, IdRef(request[r].intent))
              ELSE request[r].intent]

InPool(kind, i) == \E tx \in Range(pool) : tx.kind = kind /\ tx.intent = i

(* Transact has the node estimate the gas and give the next nonce before   *)
(* it sends.  A call that reverts in the state the node estimates in, the  *)
(* latest block or the pending one, is an error and is not sent; so is the *)
(* second of two concurrent calls that were given the same nonce.          *)
MaySend(tx) ==
  \/ Accepts(tx)
  \/ /\ tx.kind = "callback"
     /\ tx.intent \notin refusing
     /\ InPool("mint", tx.intent)

MayFail(tx) ==
  \/ ~Accepts(tx)
  \/ InPool(tx.kind, tx.intent)
  \/ \E q \in Requests \ {tx.request} : pc[q] \in {"submit", "execute"}

BuiltOnly(tx) == UNCHANGED pool

Broadcast(tx) == pool' = Append(pool, tx)

SubmitIntent(r) ==
  LET tx == Transaction(r) IN
  /\ pc[r] = "submit"
  /\ \/ MaySend(tx) /\ Broadcast(tx) /\ Goto(r, "save") /\ UNCHANGED history
     \/ /\ MaySend(tx) /\ Broadcast(tx)
        /\ Fault      \* the answer to a transaction the node took is lost
        /\ Finish(r, Failure(502))
     \/ /\ MayFail(tx) /\ UNCHANGED <<pool, history>>
        /\ Finish(r, Failure(502))
     \/ Fault /\ Finish(r, Failure(502)) /\ UNCHANGED pool
  /\ UNCHANGED <<table, deletes, saved, clock, dlq, receipts, state, held,
                 returned, supply, refusing>>

RetryBeyond(r, isRetryable) ==
  Goto(r, IF ~isRetryable \/ attempt[r] > Attempts THEN "deadletter"
                                                   ELSE "backoff")

(* A failed attempt: the loop goes on after a sleep, or gives up.          *)
Retry(r, isRetryable) ==
  Goto(r, IF ~isRetryable \/ attempt[r] = Attempts THEN "deadletter"
                                                   ELSE "backoff")

(* isRetryable reads the text of the error.  UserNotCompliant is final     *)
(* when the node spells it out; the other reverts and the failures of the  *)
(* connection are tried again.                                             *)
FinalError(i) == state[i] = "Pending" /\ i \in refusing

ExecuteMint(r) ==
  LET tx == Transaction(r) IN
  /\ pc[r] = "execute"
  /\ \/ MaySend(tx) /\ Broadcast(tx) /\ Goto(r, "save") /\ UNCHANGED history
     \/ MaySend(tx) /\ Broadcast(tx) /\ Fault /\ Retry(r, TRUE)
     \/ /\ MayFail(tx) /\ UNCHANGED <<pool, history>>
        /\ Retry(r, TRUE) \/ (FinalError(tx.intent) /\ Retry(r, FALSE))
     \/ Fault /\ Retry(r, TRUE) /\ UNCHANGED pool
  /\ UNCHANGED <<table, deletes, saved, clock, dlq, receipts, state, held,
                 returned, supply, refusing>>

SameAttempt(r) == attempt[r]

NextAttempt(r) == attempt[r] + 1

(* The sleep ends, or the client hangs up during it and the request's      *)
(* context ends.                                                           *)
Backoff(r) ==
  /\ pc[r] = "backoff"
  /\ \/ /\ pc' = [pc EXCEPT ![r] = "execute"]
        /\ attempt' = [attempt EXCEPT ![r] = NextAttempt(r)]
        /\ UNCHANGED <<request, answer, history>>
     \/ /\ Fault
        /\ Goto(r, "deadletter")
  /\ UNCHANGED <<table, deletes, saved, clock, dlq, chain, refusing>>

(* The answer to the transaction just sent: the intent ID the API computes *)
(* from the payload and the hash of the transaction.                       *)
Response(r) ==
  Success(IF request[r].kind = "mint" THEN 201 ELSE 200,
          request[r].intent, Transaction(r))

(* The error of Save is dropped; the client is answered all the same.      *)
Save(r) ==
  /\ pc[r] = "save"
  /\ \/ Store!Save(request[r].key, Response(r)) /\ UNCHANGED history
     \/ Fault /\ UNCHANGED <<table, deletes, saved>>
  /\ Finish(r, Response(r))
  /\ UNCHANGED <<clock, dlq, chain, refusing>>

Parked(r) == dlq \cup {r}

(* A failure to write the file is logged; the client is answered 500.      *)
WriteDLQ(r) ==
  /\ pc[r] = "deadletter"
  /\ \/ dlq' = Parked(r) /\ UNCHANGED history
     \/ Fault /\ UNCHANGED dlq
  /\ Finish(r, Failure(500))
  /\ UNCHANGED <<table, deletes, saved, clock, chain, refusing>>

Handle(r) ==
  Lookup(r) \/ SubmitIntent(r) \/ ExecuteMint(r) \/ Backoff(r) \/ Save(r)
    \/ WriteDLQ(r)

-----------------------------------------------------------------------------
(* Around the handlers.                                                    *)

(* A replica dies with the requests it is serving; files, rows and         *)
(* transactions stay.                                                      *)
Crash(served) ==
  /\ \A r \in served : pc[r] \in InFlight
  /\ Fault
  /\ pc' = [r \in Requests |-> IF r \in served THEN "lost" ELSE pc[r]]
  /\ UNCHANGED <<request, attempt, answer, table, deletes, saved, clock, dlq,
                 chain, refusing>>

DeleteKey(key) ==
  /\ Store!DeleteKey(key)
  /\ UNCHANGED <<handler, clock, dlq, chain, refusing, history>>

Tick ==
  /\ clock < MaxClock
  /\ clock' = clock + 1
  /\ UNCHANGED <<handler, table, deletes, saved, dlq, chain, refusing, history>>

(* The Signer's transactions are mined in the order of their nonces, and   *)
(* each succeeds or reverts in the state it then finds.                    *)
Mine ==
  LET tx == Head(pool) IN
  /\ pool # << >>
  /\ pool' = Tail(pool)
  /\ receipts' = [t \in DOMAIN receipts \cup {tx} |->
                    IF t = tx THEN Accepts(tx) ELSE receipts[t]]
  /\ IF ~Accepts(tx)
     THEN UNCHANGED <<state, held, returned, supply>>
     ELSE IF tx.kind = "mint"
     THEN Ledger!Open(tx.intent, Coin)
     ELSE /\ state' = [state EXCEPT ![tx.intent] = "Executed"]
          /\ supply' = [supply EXCEPT ![Token][IdUser(tx.intent)] =
                          @ + One(tx.intent)]
          /\ UNCHANGED <<held, returned>>
  /\ UNCHANGED <<handler, table, deletes, saved, clock, dlq, refusing, history>>

(* Users submit intents and the operator's executor refunds them without   *)
(* the API.                                                                *)
OnChain ==
  /\ \E i \in IntentIds : Ledger!Open(i, Coin) \/ Ledger!Refund(i, Coin)
  /\ UNCHANGED <<handler, table, deletes, saved, clock, dlq, pool, receipts,
                 refusing, history>>

(* Compliance, pause, the executor role or the daily limit change what     *)
(* executeMint does for an intent.                                         *)
Refuse(intents) ==
  /\ refusals < MaxRefusals
  /\ refusals' = refusals + 1
  /\ refusing' = intents
  /\ UNCHANGED <<handler, table, deletes, saved, clock, dlq, chain, faults,
                 overlapped>>

Next ==
  \/ \E r \in Requests, payload \in MintRequest \cup MpesaCallback :
       Deliver(r, payload)
  \/ \E r \in Requests : Handle(r)
  \/ \E served \in SUBSET Requests \ {{}} : Crash(served)
  \/ \E key \in Keys : DeleteKey(key)
  \/ Tick
  \/ Mine
  \/ OnChain
  \/ \E intents \in SUBSET IntentIds : Refuse(intents)

Spec == Init /\ [][Next]_vars

(* A goroutine that can go on does, and the node mines what it accepted.   *)
FairSpec ==
  /\ Spec
  /\ \A r \in Requests : WF_vars(Handle(r))
  /\ WF_vars(Mine)

-----------------------------------------------------------------------------
(* Properties.                                                             *)

Tx == [request : Requests, n : 1 .. Attempts, kind : {"mint", "callback"},
       intent : IntentIds]

Answers ==
  {NoAnswer} \cup [code : {400, 500, 502}]
    \cup [code : {200, 201}, intent : IntentIds, tx : Tx]

(* Type invariant of the handlers' local state, the rows of the store and  *)
(* the transactions in flight; no attempt beyond the configured number.    *)
TypeOK ==
  /\ pc \in [Requests -> InFlight \cup {"idle", "done", "lost"}]
  /\ \A r \in Requests :
       IF pc[r] = "idle" THEN request[r] = NoRequest
                         ELSE request[r] \in MintRequest \cup MpesaCallback
  /\ attempt \in [Requests -> 1 .. Attempts]
  /\ \A r \in Requests : answer[r] \in Answers /\ (answer[r] = NoAnswer <=> pc[r] # "done")
  /\ DOMAIN table \subseteq DOMAIN saved /\ DOMAIN saved \subseteq Keys
  /\ \A k \in DOMAIN table : table[k].response \in Answers
  /\ dlq \subseteq Requests
  /\ Range(pool) \cup DOMAIN receipts \subseteq Tx
  /\ Ledger!LedgerTypeOK

Sent == Range(pool) \cup DOMAIN receipts
KeyOf(tx) == request[tx.request].key
Succeeded(r) == answer[r].code \in {200, 201}

(* However often a payment is reported, and whatever fails in between, an  *)
(* intent is minted once: each user was minted exactly the user's Executed *)
(* intents, each by one successful transaction.  Duplicate callbacks,      *)
(* retries after a lost answer, crashes and expired keys may send          *)
(* executeMint many times (README.md:192, "system must mint exactly        *)
(* once").                                                                 *)
MintedExactlyOnce ==
  /\ \A u \in Users :
       supply[Token][u] = Cardinality({i \in IntentIds :
                                         IdUser(i) = u /\ state[i] = "Executed"})
  /\ \A i \in IntentIds :
       state[i] = "Executed" <=>
         Cardinality({tx \in DOMAIN receipts :
           tx.kind = "callback" /\ tx.intent = i /\ receipts[tx]}) = 1

(* Every success a client was told of names a transaction that was sent    *)
(* for the client's own key, by this request or by the one whose record    *)
(* was repeated to it.                                                     *)
AnswersAreForKey ==
  \A r \in Requests :
    Succeeded(r) => answer[r].tx \in Sent /\ KeyOf(answer[r].tx) = request[r].key

SuccessesAgree ==
  \A q, r \in Requests :
    /\ Succeeded(q) /\ Succeeded(r)
    /\ request[q].key = request[r].key
    => answer[q] = answer[r]

(* As long as no two requests with one key are in progress together,       *)
(* nothing fails and no record expires, a key sends one transaction and    *)
(* all its successes are the same answer: what Get before and Save after   *)
(* the transaction achieve.                                                *)
SequentialIdempotence ==
  ~overlapped /\ faults = 0 /\ clock <= Window =>
    /\ \A s, t \in Sent : KeyOf(s) = KeyOf(t) => s = t
    /\ SuccessesAgree

(* Every request that reaches a handler is answered, unless its replica    *)
(* dies: the retry loop ends.                                              *)
RequestsEnd ==
  \A r \in Requests : pc[r] \in InFlight ~> pc[r] \in {"done", "lost"}

(* If nothing fails and the contract keeps accepting, a reported payment   *)
(* of an intent that waits on chain leads to its settlement, or to a file  *)
(* in the DLQ, also when other requests are in progress.                   *)
PaidIsSettledOrParked ==
  [](faults = 0 /\ refusing = {}) =>
    \A r \in Requests, i \in IntentIds :
      (/\ pc[r] = "lookup" /\ request[r].kind = "callback"
       /\ request[r].intent = i /\ state[i] = "Pending")
        ~> (state[i] \in {"Executed", "Refunded"} \/ r \in dlq)

-----------------------------------------------------------------------------
(* What the documents say and the code does not do.                        *)

(* "Duplicate requests with same key return the original response"         *)
(* (api/openapi.yaml:31), while nothing fails and no record expires.       *)
SameKeySameResponse == faults = 0 /\ clock <= Window => SuccessesAgree

(* "DLQ captures failed callbacks for replay" (docs/THREAT_MODEL.md:65): a *)
(* callback whose executeMint reverted on chain, and whose intent still    *)
(* waits, has a file in the DLQ.                                           *)
RevertedIsParked ==
  \A r \in Requests :
    /\ answer[r].code = 200
    /\ answer[r].tx \in DOMAIN receipts /\ ~receipts[answer[r].tx]
    /\ state[answer[r].intent] = "Pending"
    => r \in dlq

(* "Return intent ID" (README.md:82): the ID a client is given for a       *)
(* submitIntent that succeeded is an intent of the contract.               *)
ReturnedIntentExists ==
  \A r \in Requests :
    /\ answer[r].code = 201
    /\ answer[r].tx \in DOMAIN receipts /\ receipts[answer[r].tx]
    => state[answer[r].intent] # "Absent"

(* KeptUntilExpiry of the store, under the API's requests.                 *)
KeptUntilExpiry == Store!KeptUntilExpiry

=============================================================================
