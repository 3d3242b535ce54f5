--------------------------- MODULE ApiServerProofs ---------------------------
(* Proofs that a payment is minted by one transaction, and once, however   *)
(* often its callbacks are sent; and that a key sends one transaction as   *)
(* long as the keys are used calmly: no two requests with one key overlap, *)
(* nothing fails, and no record expires.                                   *)
EXTENDS ApiServerSends, FiniteSetTheorems

(* Most leaves are first-order: Zenon tries them, and the ones that need    *)
(* arithmetic or the theory of functions cite SMT.                         *)
USE Zenon

-----------------------------------------------------------------------------
(* A key that is used calmly sends one transaction.                        *)

Calm == ~overlapped /\ faults = 0 /\ clock <= Window

OneInFlight ==
  \A q, r \in Requests :
    /\ pc[q] \in InFlight /\ pc[r] \in InFlight
    /\ request[q].key = request[r].key
    => q = r

NoneExpires ==
  /\ \A k \in Keys : deletes[k] = 0
  /\ \A k \in DOMAIN table : table[k].expiresAt >= Window

(* A transaction that was sent is about to be recorded, or is recorded.    *)
Carried(tx) ==
  \/ pc[tx.request] = "save" /\ tx = Transaction(tx.request)
  \/ KeyOf(tx) \in DOMAIN table /\ tx = table[KeyOf(tx)].response.tx

SentIsCarried == \A tx \in Sent : Carried(tx)

LookedUp ==
  \A r \in Requests :
    pc[r] \in InFlight \ {"lookup"} => request[r].key \notin DOMAIN table

AnswersAreRecords ==
  \A r \in Requests : Succeeded(r) =>
    request[r].key \in DOMAIN table /\ answer[r] = table[request[r].key].response

OnePerKey ==
  OneInFlight /\ NoneExpires /\ SentIsCarried /\ LookedUp /\ AnswersAreRecords

LEMMA SentOfRequest ==
  ASSUME Types, SentOnce, NEW tx \in Sent
  PROVE  tx \in Tx /\ tx.request \in Requests /\ pc[tx.request] # "idle"
BY SentTyped DEF Types, SentOnce, Attempted, Tx

(* A step that leaves the store and the pool alone.                        *)
LEMMA OnePerKeyRests ==
  ASSUME Types, SentOnce, OnePerKey, Sent' = Sent, UNCHANGED <<table, deletes>>,
         \A q \in Requests : pc[q] # "idle" => request'[q] = request[q],
         \A q \in Requests : pc[q] = "save" => pc'[q] = "save" /\ attempt'[q] = attempt[q],
         \A q \in Requests : pc'[q] \in InFlight \ {"lookup"} =>
           /\ pc[q] \in InFlight
           /\ pc[q] = "lookup" => request[q].key \notin DOMAIN table,
         \A q \in Requests :
           \/ Unsuccessful(q)
           \/ answer'[q] = answer[q] /\ request'[q] = request[q]
           \/ /\ request[q].key \in DOMAIN table /\ request'[q] = request[q]
              /\ answer'[q] = table[request[q].key].response,
         OneInFlight'
  PROVE  OnePerKey'
<1>1. NoneExpires'
  BY DEF OnePerKey, NoneExpires
<1>2. ASSUME NEW tx \in Sent PROVE Carried(tx)'
  <2>1. PICK q \in Requests : q = tx.request /\ pc[q] # "idle"
    BY SentOfRequest
  <2>2. request'[q] = request[q] /\ KeyOf(tx)' = KeyOf(tx)
    BY <2>1 DEF KeyOf
  <2>3. CASE pc[q] = "save" /\ tx = Transaction(q)
    <3>1. Transaction(q)' = Transaction(q)
      BY <2>2, <2>3, TransactionSame
    <3> QED BY <2>1, <2>3, <3>1 DEF Carried
  <2>4. CASE KeyOf(tx) \in DOMAIN table /\ tx = table[KeyOf(tx)].response.tx
    BY <2>2, <2>4 DEF Carried
  <2> QED BY <2>1, <2>3, <2>4 DEF OnePerKey, SentIsCarried, Carried
<1>3. SentIsCarried'
  BY <1>2 DEF SentIsCarried
<1>4. LookedUp'
  <2> SUFFICES ASSUME NEW q \in Requests, pc'[q] \in InFlight \ {"lookup"}
               PROVE  request'[q].key \notin DOMAIN table
    BY DEF LookedUp
  <2>1. pc[q] # "idle"
    BY DEF InFlight
  <2> QED BY <2>1 DEF OnePerKey, LookedUp
<1>5. AnswersAreRecords'
  BY SMT DEF OnePerKey, AnswersAreRecords, Succeeded, Unsuccessful
<1> QED BY <1>1, <1>3, <1>4, <1>5 DEF OnePerKey

LEMMA OneInFlightKept ==
  ASSUME OneInFlight,
         \A q \in Requests :
           pc'[q] \in InFlight => pc[q] \in InFlight /\ request'[q] = request[q]
  PROVE  OneInFlight'
BY DEF OneInFlight

LEMMA OnePerKeyDeliver ==
  ASSUME Types, SentOnce, OnePerKey, NEW r \in Requests, NEW p \in Payloads,
         Deliver(r, p), ~overlapped'
  PROVE  OnePerKey'
<1>1. \A q \in Requests : ~(pc[q] \in InFlight /\ request[q].key = p.key)
  BY DEF Deliver
<1>2. /\ UNCHANGED <<attempt, table, deletes, pool, receipts>>
      /\ pc[r] = "idle" /\ pc'[r] \in {"lookup", "done"} /\ request'[r] = p
      /\ Unsuccessful(r)
      /\ \A q \in Requests \ {r} :
           pc'[q] = pc[q] /\ request'[q] = request[q] /\ answer'[q] = answer[q]
  BY DeliverEffect
<1>3. OneInFlight'
  BY <1>1, <1>2, SMT DEF OneInFlight, OnePerKey
<1>4. Sent' = Sent
  BY <1>2, SentKept
<1>5. \A q \in Requests : pc'[q] \in InFlight \ {"lookup"} =>
        /\ pc[q] \in InFlight
        /\ pc[q] = "lookup" => request[q].key \notin DOMAIN table
  BY <1>2 DEF InFlight
<1> QED BY <1>2, <1>3, <1>4, <1>5, OnePerKeyRests

LEMMA OnePerKeySends ==
  ASSUME Types, SentOnce, OnePerKey, NEW r \in Requests, Alone(r), Sends(r),
         pc'[r] = "save"
  PROVE  OnePerKey'
<1>1. Transaction(r) \in Tx /\ Transaction(r).request = r
      /\ Broadcast(Transaction(r)) /\ attempt' = attempt
      /\ pc[r] \in {"submit", "execute"}
  BY TransactionTyped DEF Sends, Types
<1>2. PICK t \in Tx : t = Transaction(r)
  BY <1>1
<1>3. /\ pool \in Seq(Tx) /\ receipts' = receipts /\ request' = request
      /\ UNCHANGED <<table, deletes>> /\ Unsuccessful(r)
      /\ \A q \in Requests \ {r} : pc'[q] = pc[q] /\ answer'[q] = answer[q]
  BY DEF Types, ChainTypes, Alone, Sends
<1>4. Sent' = Sent \cup {t}
  BY <1>1, <1>2, <1>3, SentGrows
<1>5. OneInFlight'
  BY <1>1, <1>3, OneInFlightKept DEF OnePerKey, InFlight
<1>6. NoneExpires'
  BY <1>3 DEF OnePerKey, NoneExpires
<1>7. ASSUME NEW tx \in Sent PROVE Carried(tx)'
  <2>1. PICK q \in Requests : q = tx.request
    BY SentOfRequest
  <2>2. CASE pc[q] = "save" /\ tx = Transaction(q)
    <3>1. pc'[q] = "save" /\ Transaction(q)' = Transaction(q)
      BY <1>1, <1>3, <2>2, TransactionSame
    <3> QED BY <2>1, <2>2, <3>1 DEF Carried
  <2>3. CASE KeyOf(tx) \in DOMAIN table /\ tx = table[KeyOf(tx)].response.tx
    BY <1>3, <2>3 DEF Carried, KeyOf
  <2> QED BY <2>1, <2>2, <2>3 DEF OnePerKey, SentIsCarried, Carried
<1>8. Carried(t)'
  <2>1. Transaction(r)' = t
    BY <1>1, <1>2, <1>3, TransactionSame
  <2> QED BY <1>1, <1>2, <2>1 DEF Carried
<1>9. LookedUp'
  BY <1>1, <1>3 DEF OnePerKey, LookedUp, InFlight
<1>10. AnswersAreRecords'
  BY <1>3, SMT DEF OnePerKey, AnswersAreRecords, Succeeded, Unsuccessful
<1> QED BY <1>4, <1>5, <1>6, <1>7, <1>8, <1>9, <1>10 DEF OnePerKey, SentIsCarried

LEMMA OnePerKeySaves ==
  ASSUME Types, SentOnce, OnePerKey, NEW r \in Requests, Alone(r), Saves(r),
         Store!Save(request[r].key, Response(r))
  PROVE  OnePerKey'
<1>1. PICK k, a, t : k = request[r].key /\ a = Response(r) /\ t = Transaction(r)
  OBVIOUS
<1>2. /\ pc[r] = "save" /\ pc'[r] = "done" /\ answer'[r] = a
      /\ UNCHANGED <<request, attempt, pool, receipts, deletes>>
      /\ \A q \in Requests \ {r} : pc'[q] = pc[q] /\ answer'[q] = answer[q]
  BY <1>1 DEF Saves, Alone
<1>3. a.tx = t /\ t.request = r
  BY <1>1, <1>2, ResponseTyped, TransactionTyped DEF Types
<1>4. k \notin DOMAIN table
  BY <1>1, <1>2 DEF OnePerKey, LookedUp, InFlight
<1>5. PICK record : record = [response |-> a, expiresAt |-> clock + Window]
  OBVIOUS
<1>6. /\ DOMAIN table' = DOMAIN table \cup {k} /\ table'[k] = record
      /\ \A j \in DOMAIN table : table'[j] = table[j]
  BY <1>1, <1>4, <1>5 DEF Store!Save, Store!Upsert
<1>7. record.response = a /\ record.expiresAt >= Window
  BY <1>5, ApiAssumption, SMT DEF Types, StoreTypes
<1>8. Sent' = Sent
  BY <1>2, SentKept
<1>9. OneInFlight'
  BY <1>2, OneInFlightKept DEF OnePerKey, InFlight
<1>10. NoneExpires'
  BY <1>2, <1>6, <1>7 DEF OnePerKey, NoneExpires
<1>11. ASSUME NEW tx \in Sent PROVE Carried(tx)'
  <2>1. PICK q \in Requests : q = tx.request
    BY SentOfRequest
  <2>2. KeyOf(tx)' = KeyOf(tx)
    BY <1>2 DEF KeyOf
  <2>3. CASE q = r /\ pc[q] = "save" /\ tx = Transaction(q)
    <3>1. KeyOf(tx) = k /\ tx = t
      BY <1>1, <2>1, <2>3 DEF KeyOf
    <3> QED BY <1>3, <1>6, <1>7, <2>2, <3>1 DEF Carried
  <2>4. CASE q # r /\ pc[q] = "save" /\ tx = Transaction(q)
    <3>1. pc'[q] = "save" /\ Transaction(q)' = Transaction(q)
      BY <1>2, <2>4, TransactionSame
    <3> QED BY <2>1, <2>4, <3>1 DEF Carried
  <2>5. CASE KeyOf(tx) \in DOMAIN table /\ tx = table[KeyOf(tx)].response.tx
    BY <1>6, <2>2, <2>5 DEF Carried
  <2> QED BY <2>1, <2>3, <2>4, <2>5 DEF OnePerKey, SentIsCarried, Carried
<1>12. LookedUp'
  <2> SUFFICES ASSUME NEW q \in Requests, pc'[q] \in InFlight \ {"lookup"}
               PROVE  request[q].key \notin DOMAIN table'
    BY <1>2 DEF LookedUp
  <2>1. q # r /\ pc'[q] = pc[q]
    BY <1>2 DEF InFlight
  <2>2. request[q].key # k
    BY <1>1, <1>2, <2>1 DEF OnePerKey, OneInFlight, InFlight
  <2> QED BY <1>6, <2>1, <2>2 DEF OnePerKey, LookedUp
<1>13. AnswersAreRecords'
  <2> SUFFICES ASSUME NEW q \in Requests, Succeeded(q)'
               PROVE  /\ request[q].key \in DOMAIN table'
                      /\ answer'[q] = table'[request[q].key].response
    BY <1>2 DEF AnswersAreRecords
  <2>1. CASE q = r
    BY <1>1, <1>2, <1>6, <1>7, <2>1
  <2>2. CASE q # r
    BY <1>2, <1>6, <2>2, SMT DEF OnePerKey, AnswersAreRecords, Succeeded
  <2> QED BY <2>1, <2>2
<1> QED BY <1>8, <1>9, <1>10, <1>11, <1>12, <1>13 DEF OnePerKey, SentIsCarried

LEMMA OnePerKeyHandle ==
  ASSUME Types, SentOnce, OnePerKey, faults = 0, clock <= Window,
         NEW r \in Requests, Handle(r), faults' = 0
  PROVE  OnePerKey'
<1>1. /\ Alone(r) /\ (Repeats(r) \/ Misses(r) \/ Sends(r) \/ Fails(r) \/ Saves(r))
      /\ ~Faulty
  BY HandlerSteps, SMT DEF Faulty
<1>2. /\ UNCHANGED <<request, receipts, clock>>
      /\ \A q \in Requests \ {r} :
           pc'[q] = pc[q] /\ attempt'[q] = attempt[q] /\ answer'[q] = answer[q]
  BY <1>1 DEF Alone
<1>3. ASSUME pc[r] \in InFlight PROVE OneInFlight'
  BY <1>2, <1>3, OneInFlightKept DEF OnePerKey
<1>4. CASE Repeats(r)
  <2>1. Sent' = Sent /\ OneInFlight'
    BY <1>2, <1>3, <1>4, SentKept DEF Repeats, InFlight
  <2>2. \A q \in Requests : pc'[q] \in InFlight \ {"lookup"} =>
          /\ pc[q] \in InFlight
          /\ pc[q] = "lookup" => request[q].key \notin DOMAIN table
    BY <1>2, <1>4 DEF Repeats, InFlight
  <2> QED BY <1>2, <1>4, <2>1, <2>2, OnePerKeyRests DEF Repeats, Store!Hit
<1>5. CASE Misses(r)
  <2>1. PICK k \in Keys : k = request[r].key
    BY <1>5, KeyTyped DEF Misses, Types
  <2>2. k \notin DOMAIN table
    <3> SUFFICES ASSUME k \in DOMAIN table PROVE FALSE
      OBVIOUS
    <3>1. clock > table[k].expiresAt
      BY <1>1, <1>5, <2>1 DEF Misses, Store!GetMiss, Store!Hit, Store!Expired
    <3>2. /\ table[k].expiresAt >= Window /\ table[k].expiresAt \in Int
          /\ clock \in Int /\ Window \in Int
      BY ApiAssumption, SMT DEF OnePerKey, NoneExpires, Types, StoreTypes
    <3> QED BY <3>1, <3>2, SMT
  <2>3. UNCHANGED <<table, deletes, pool, attempt>> /\ Unsuccessful(r)
        /\ pc[r] = "lookup"
    BY <1>1, <1>5, <2>1, <2>2 DEF Misses, Store!GetMiss
  <2>4. Sent' = Sent /\ OneInFlight'
    BY <1>2, <1>3, <2>3, SentKept DEF InFlight
  <2>5. \A q \in Requests : pc'[q] \in InFlight \ {"lookup"} =>
          /\ pc[q] \in InFlight
          /\ pc[q] = "lookup" => request[q].key \notin DOMAIN table
    BY <1>2, <2>1, <2>2, <2>3 DEF OnePerKey, LookedUp, InFlight
  <2> QED BY <1>2, <2>3, <2>4, <2>5, OnePerKeyRests
<1>6. CASE Sends(r)
  BY <1>1, <1>6, OnePerKeySends DEF Sends
<1>7. CASE Fails(r)
  <2>1. /\ UNCHANGED <<table, deletes, pool>> /\ Unsuccessful(r)
        /\ pc[r] \in {"submit", "execute", "backoff", "deadletter"}
    BY <1>7 DEF Fails
  <2>2. Sent' = Sent /\ OneInFlight'
    BY <1>2, <1>3, <2>1, SentKept DEF InFlight
  <2>3. \A q \in Requests : pc'[q] \in InFlight \ {"lookup"} =>
          /\ pc[q] \in InFlight
          /\ pc[q] = "lookup" => request[q].key \notin DOMAIN table
    BY <1>2, <2>1 DEF OnePerKey, LookedUp, InFlight
  <2> QED BY <1>2, <2>1, <2>2, <2>3, OnePerKeyRests
<1>8. CASE Saves(r)
  BY <1>1, <1>8, OnePerKeySaves DEF Saves
<1> QED BY <1>1, <1>4, <1>5, <1>6, <1>7, <1>8

LEMMA CalmBefore ==
  ASSUME Types, [Next]_vars, Calm' PROVE Calm
<1>1. faults \in Nat /\ clock \in Nat /\ Window \in Nat
  BY ApiAssumption DEF Types, StoreTypes
<1>2. faults' = 0 /\ ~overlapped' /\ clock' <= Window
  BY DEF Calm
<1>3. ASSUME NEW r \in Requests, Handle(r) PROVE Calm
  <2>1. (Fault \/ UNCHANGED history) /\ clock' = clock
    BY <1>3 DEF Handle, Lookup, SubmitIntent, ExecuteMint, Backoff, Save, WriteDLQ,
                history
  <2> QED BY <1>1, <1>2, <2>1, FaultCounts, SMT DEF Calm
<1>4. ASSUME NEW r \in Requests, NEW p \in MintRequest \cup MpesaCallback, Deliver(r, p)
      PROVE  Calm
  BY <1>2, <1>4 DEF Deliver, Calm
<1>5. ASSUME NEW served \in SUBSET Requests, Crash(served) PROVE Calm
  BY <1>1, <1>2, <1>5, FaultCounts, SMT DEF Crash, Calm
<1>6. CASE Mine
  BY <1>2, <1>6 DEF Mine, Calm, history
<1>7. CASE Quiet
  <2>1. faults' = faults /\ overlapped' = overlapped /\ clock' >= clock /\ clock' \in Int
    BY <1>7, TypesStep, SMT DEF Quiet, Types, StoreTypes
  <2>2. clock <= Window
    BY <1>1, <1>2, <2>1, SMT
  <2> QED BY <1>2, <2>1, <2>2 DEF Calm
<1> QED BY <1>3, <1>4, <1>5, <1>6, <1>7, QuietSteps DEF Next

LEMMA OnePerKeyStep ==
  ASSUME Types, SentOnce, Calm => OnePerKey, [Next]_vars
  PROVE  (Calm => OnePerKey)'
<1> SUFFICES ASSUME Calm' PROVE OnePerKey'
  OBVIOUS
<1>1. /\ Calm /\ OnePerKey /\ faults = 0 /\ faults' = 0 /\ clock <= Window
      /\ ~overlapped'
  BY CalmBefore DEF Calm
<1>2. ASSUME NEW r \in Requests, NEW p \in MintRequest \cup MpesaCallback, Deliver(r, p)
      PROVE  OnePerKey'
  BY <1>1, <1>2, OnePerKeyDeliver DEF Payloads
<1>3. ASSUME NEW r \in Requests, Handle(r) PROVE OnePerKey'
  BY <1>1, <1>3, OnePerKeyHandle
<1>4. ASSUME NEW served \in SUBSET Requests PROVE ~Crash(served)
  BY <1>1, SMT DEF Crash, Fault
<1>5. ASSUME NEW k \in Keys PROVE ~DeleteKey(k)
  BY <1>1, SMT DEF DeleteKey, Store!DeleteKey, OnePerKey, NoneExpires
<1>6. CASE Mine \/ Tick \/ OnChain \/ (\E intents \in SUBSET IntentIds : Refuse(intents))
           \/ UNCHANGED vars
  <2>1. UNCHANGED <<pc, request, attempt, answer, table, deletes>>
    BY <1>6 DEF Mine, Tick, OnChain, Refuse, vars, handler
  <2>2. Sent' = Sent
    <3>1. CASE Mine
      <4>1. /\ pool \in Seq(Tx) /\ pool # << >> /\ pool' = Tail(pool)
            /\ DOMAIN receipts' = DOMAIN receipts \cup {Head(pool)}
        BY <3>1 DEF Mine, Types, ChainTypes
      <4> QED BY <4>1, SentMined
    <3>2. CASE ~Mine
      <4>1. UNCHANGED <<pool, receipts>>
        BY <1>6, <3>2 DEF Tick, OnChain, Refuse, vars, chain
      <4> QED BY <4>1, SentKept
    <3> QED BY <3>1, <3>2
  <2>3. OneInFlight'
    BY <1>1, <2>1 DEF OnePerKey, OneInFlight
  <2>4. \A q \in Requests : pc'[q] \in InFlight \ {"lookup"} =>
          /\ pc[q] \in InFlight
          /\ pc[q] = "lookup" => request[q].key \notin DOMAIN table
    BY <2>1
  <2> QED BY <1>1, <2>1, <2>2, <2>3, <2>4, OnePerKeyRests
<1> QED BY <1>2, <1>3, <1>4, <1>5, <1>6 DEF Next

LEMMA OnePerKeyInit ==
  ASSUME Init PROVE OnePerKey
<1>1. Sent = {}
  BY SMT DEF Init, Sent, Range
<1>2. NoneExpires
  BY DEF Init, NoneExpires, Store!StoreInit
<1> QED BY <1>1, <1>2, SMT DEF Init, OnePerKey, OneInFlight, SentIsCarried, LookedUp,
                          AnswersAreRecords, InFlight, Succeeded, NoAnswer

LEMMA OnePerKeySuffices ==
  ASSUME Types, SentOnce, Calm => OnePerKey PROVE SequentialIdempotence
<1> SUFFICES ASSUME Calm
             PROVE  /\ \A s, t \in Sent : KeyOf(s) = KeyOf(t) => s = t
                    /\ SuccessesAgree
  BY DEF SequentialIdempotence, Calm
<1>1. ASSUME NEW s \in Sent, NEW t \in Sent, KeyOf(s) = KeyOf(t) PROVE s = t
  <2>1. s.request \in Requests /\ t.request \in Requests
    BY SentOfRequest
  <2>2. Carried(s) /\ Carried(t)
    BY DEF OnePerKey, SentIsCarried
  <2>3. CASE pc[s.request] = "save" /\ pc[t.request] = "save"
    <3>1. s.request = t.request
      BY <1>1, <2>1, <2>3 DEF OnePerKey, OneInFlight, InFlight, KeyOf
    <3>2. KeyOf(s) \notin DOMAIN table /\ KeyOf(t) \notin DOMAIN table
      BY <2>1, <2>3 DEF OnePerKey, LookedUp, InFlight, KeyOf
    <3> QED BY <2>2, <3>1, <3>2 DEF Carried
  <2>4. CASE pc[s.request] # "save" \/ pc[t.request] # "save"
    <3>1. KeyOf(s) \in DOMAIN table
      BY <1>1, <2>2, <2>4 DEF Carried
    <3>2. pc[s.request] # "save" /\ pc[t.request] # "save"
      BY <1>1, <2>1, <3>1 DEF OnePerKey, LookedUp, InFlight, KeyOf
    <3> QED BY <1>1, <2>2, <3>2 DEF Carried
  <2> QED BY <2>3, <2>4
<1>2. SuccessesAgree
  BY DEF OnePerKey, AnswersAreRecords, SuccessesAgree
<1> QED BY <1>1, <1>2

-----------------------------------------------------------------------------
(* Get before and Save after the transaction make a key send once, as long *)
(* as its requests do not overlap, nothing fails and nothing expires.      *)
THEOREM IdempotentInSequence == Spec => []SequentialIdempotence
<1>1. Init => (Calm => OnePerKey)
  BY OnePerKeyInit
<1>2. SendInv /\ (Calm => OnePerKey) /\ [Next]_vars => (Calm => OnePerKey)'
  BY OnePerKeyStep DEF SendInv
<1>3. SendInv /\ (Calm => OnePerKey) => SequentialIdempotence
  BY OnePerKeySuffices DEF SendInv
<1> QED BY <1>1, <1>2, <1>3, SendsInductive, PTL DEF Spec


-----------------------------------------------------------------------------
(* An intent is minted once.                                               *)

ExecutedBy(u) == {i \in IntentIds : IdUser(i) = u /\ state[i] = "Executed"}

Minting(i) ==
  {tx \in DOMAIN receipts : tx.kind = "callback" /\ tx.intent = i /\ receipts[tx]}

(* An Executed intent has one transaction that executed it, and the others *)
(* have none: the second fact is what the next executeMint needs.          *)
MintedOnce ==
  /\ \A u \in Users : supply[Token][u] = Cardinality(ExecutedBy(u))
  /\ \A i \in IntentIds : IF state[i] = "Executed" THEN \E tx : Minting(i) = {tx}
                                                   ELSE Minting(i) = {}

LEMMA ExecutedFinite ==
  ASSUME NEW u PROVE IsFiniteSet(ExecutedBy(u))
<1>1. IsFiniteSet(IntentIds)
  BY ApiAssumption, FS_Product DEF IntentIds
<1>2. ExecutedBy(u) \in SUBSET IntentIds
  BY DEF ExecutedBy
<1> QED BY <1>1, <1>2, FS_Subset

(* Opening and refunding leave the Executed intents and the supply alone.  *)
LEMMA NothingExecuted ==
  ASSUME ChainTypes, NEW i \in IntentIds, Ledger!Open(i, Coin) \/ Ledger!Refund(i, Coin)
  PROVE  /\ supply' = supply
         /\ \A j \in IntentIds : state'[j] = "Executed" <=> state[j] = "Executed"
<1>1. state \in [IntentIds -> Ledger!LedgerState]
  BY DEF ChainTypes, Ledger!LedgerTypeOK
<1>2. CASE Ledger!Open(i, Coin)
  <2>1. state[i] = "Absent"
    BY <1>2 DEF Ledger!Open
  <2> QED BY <1>1, <1>2, <2>1 DEF Ledger!Open
<1>3. CASE Ledger!Refund(i, Coin)
  BY <1>1, <1>3 DEF Ledger!Refund
<1> QED BY <1>2, <1>3

LEMMA MintedKept ==
  ASSUME MintedOnce, supply' = supply,
         \A i \in IntentIds : /\ state'[i] = "Executed" <=> state[i] = "Executed"
                              /\ Minting(i)' = Minting(i)
  PROVE  MintedOnce'
<1>1. \A u \in Users : ExecutedBy(u)' = ExecutedBy(u)
  BY DEF ExecutedBy
<1> QED BY <1>1 DEF MintedOnce

LEMMA MintedMined ==
  ASSUME Types, SentOnce, MintedOnce, Mine PROVE MintedOnce'
<1>1. pool \in Seq(Tx) /\ pool # << >> /\ Head(pool) \in Tx /\ ChainTypes
  BY SMT DEF Types, ChainTypes, Mine
<1>2. PICK tx \in Tx : tx = Head(pool)
  BY <1>1
<1>3. tx \notin DOMAIN receipts
  <2>1. 1 \in 1 .. Len(pool) /\ tx = pool[1]
    BY <1>1, <1>2, SMT
  <2> QED BY <2>1 DEF SentOnce
<1>4. /\ DOMAIN receipts' = DOMAIN receipts \cup {tx} /\ receipts'[tx] = Accepts(tx)
      /\ \A t \in DOMAIN receipts : receipts'[t] = receipts[t]
  BY <1>2, <1>3 DEF Mine
<1>5. tx.intent \in IntentIds /\ IdUser(tx.intent) \in Users
      /\ tx.kind \in {"mint", "callback"}
  BY <1>2 DEF Tx, IntentIds, IdUser
<1>6. CASE ~Accepts(tx) \/ tx.kind = "mint"
  <2>1. \A i \in IntentIds : Minting(i)' = Minting(i)
    BY <1>3, <1>4, <1>6 DEF Minting
  <2>2. UNCHANGED <<state, supply>> \/ Ledger!Open(tx.intent, Coin)
    BY <1>2, <1>6 DEF Mine
  <2>3. /\ supply' = supply
        /\ \A j \in IntentIds : state'[j] = "Executed" <=> state[j] = "Executed"
    BY <1>1, <1>5, <2>2, NothingExecuted
  <2> QED BY <2>1, <2>3, MintedKept
<1>7. CASE Accepts(tx) /\ tx.kind = "callback"
  <2>1. PICK i \in IntentIds, u \in Users : i = tx.intent /\ u = IdUser(i)
    BY <1>5
  <2>2. /\ state[i] = "Pending" /\ state' = [state EXCEPT ![i] = "Executed"]
        /\ supply' = [supply EXCEPT ![Token][u] = supply[Token][u] + 1]
    BY <1>2, <1>7, <2>1 DEF Mine, Accepts, CanExecute, One
  <2>3. /\ state \in [IntentIds -> Ledger!LedgerState]
        /\ supply \in [{Token} -> [Users -> Nat]]
    BY <1>1 DEF ChainTypes, Ledger!LedgerTypeOK
  <2>4. ASSUME NEW v \in Users PROVE supply'[Token][v] = Cardinality(ExecutedBy(v)')
    <3>1. CASE v = u
      <4>1. ExecutedBy(u)' = ExecutedBy(u) \cup {i} /\ i \notin ExecutedBy(u)
        BY <2>1, <2>2, <2>3 DEF ExecutedBy
      <4>2. Cardinality(ExecutedBy(u)') = Cardinality(ExecutedBy(u)) + 1
        BY <4>1, ExecutedFinite, FS_AddElement
      <4>3. supply'[Token][u] = supply[Token][u] + 1
        BY <2>2, <2>3
      <4> QED BY <3>1, <4>2, <4>3 DEF MintedOnce
    <3>2. CASE v # u
      <4>1. ExecutedBy(v)' = ExecutedBy(v)
        BY <2>1, <2>2, <2>3, <3>2 DEF ExecutedBy
      <4>2. supply'[Token][v] = supply[Token][v]
        BY <2>2, <2>3, <3>2
      <4> QED BY <4>1, <4>2 DEF MintedOnce
    <3> QED BY <3>1, <3>2
  <2>5. ASSUME NEW j \in IntentIds
        PROVE  IF state'[j] = "Executed" THEN \E t : Minting(j)' = {t} ELSE Minting(j)' = {}
    <3>1. CASE j = i
      <4>1. Minting(i) = {} /\ state'[i] = "Executed"
        BY <2>2, <2>3 DEF MintedOnce
      <4>2. Minting(i)' = Minting(i) \cup {tx}
        BY <1>3, <1>4, <1>7, <2>1 DEF Minting
      <4> QED BY <3>1, <4>1, <4>2
    <3>2. CASE j # i
      <4>1. Minting(j)' = Minting(j)
        BY <1>3, <1>4, <2>1, <3>2 DEF Minting
      <4>2. state'[j] = state[j]
        BY <2>2, <2>3, <3>2
      <4> QED BY <4>1, <4>2 DEF MintedOnce
    <3> QED BY <3>1, <3>2
  <2> QED BY <2>4, <2>5 DEF MintedOnce
<1> QED BY <1>5, <1>6, <1>7

LEMMA MintedStep ==
  ASSUME Types, SentOnce, MintedOnce, [Next]_vars PROVE MintedOnce'
<1>1. CASE receipts' = receipts /\ state' = state /\ supply' = supply
  <2>1. \A i \in IntentIds : Minting(i)' = Minting(i)
    BY <1>1 DEF Minting
  <2> QED BY <1>1, <2>1, MintedKept
<1>2. CASE OnChain
  <2>1. /\ supply' = supply /\ receipts' = receipts
        /\ \A j \in IntentIds : state'[j] = "Executed" <=> state[j] = "Executed"
    BY <1>2, NothingExecuted DEF OnChain, Types
  <2>2. \A i \in IntentIds : Minting(i)' = Minting(i)
    BY <2>1 DEF Minting
  <2> QED BY <2>1, <2>2, MintedKept
<1>3. CASE Mine
  BY <1>3, MintedMined
<1>4. ASSUME NEW r \in Requests, Handle(r)
      PROVE  receipts' = receipts /\ state' = state /\ supply' = supply
  BY <1>4, HandlerSteps DEF Alone
<1>5. ASSUME \/ \E r \in Requests, p \in MintRequest \cup MpesaCallback : Deliver(r, p)
             \/ \E served \in SUBSET Requests : Crash(served)
             \/ \E k \in Keys : DeleteKey(k)
             \/ Tick \/ (\E intents \in SUBSET IntentIds : Refuse(intents))
             \/ UNCHANGED vars
      PROVE  receipts' = receipts /\ state' = state /\ supply' = supply
  BY <1>5 DEF Deliver, Crash, DeleteKey, Tick, Refuse, vars, chain
<1> QED BY <1>1, <1>2, <1>3, <1>4, <1>5 DEF Next

LEMMA MintedInit ==
  ASSUME Init PROVE MintedOnce
<1>1. \A u \in Users : ExecutedBy(u) = {} /\ supply[Token][u] = 0
  BY DEF Init, ExecutedBy, Ledger!LedgerInit
<1>2. \A i \in IntentIds : Minting(i) = {} /\ state[i] # "Executed"
  BY DEF Init, Minting, Ledger!LedgerInit
<1> QED BY <1>1, <1>2, FS_EmptySet DEF MintedOnce

LEMMA MintedSuffices ==
  ASSUME MintedOnce PROVE MintedExactlyOnce
<1>1. ASSUME NEW i \in IntentIds
      PROVE  state[i] = "Executed" <=> Cardinality(Minting(i)) = 1
  BY FS_Singleton, FS_EmptySet DEF MintedOnce
<1> QED BY <1>1 DEF MintedOnce, MintedExactlyOnce, ExecutedBy, Minting

-----------------------------------------------------------------------------
LEMMA MintsInductive == Spec => []MintedOnce
<1>1. Init => MintedOnce
  BY MintedInit
<1>2. SendInv /\ MintedOnce /\ [Next]_vars => MintedOnce'
  BY MintedStep DEF SendInv
<1> QED BY <1>1, <1>2, SendsInductive, PTL DEF Spec

(* However often the callbacks of a payment are sent, retried or repeated  *)
(* after an expiry, the intent is minted by one transaction and once.      *)
THEOREM MintedOnceEach == Spec => []MintedExactlyOnce
<1>1. MintedOnce => MintedExactlyOnce
  BY MintedSuffices
<1> QED BY <1>1, MintsInductive, PTL

=============================================================================
