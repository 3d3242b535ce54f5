--------------------------- MODULE ApiServerSends ---------------------------
(* Proofs about what the requests of ApiServer send, record and answer.     *)
EXTENDS ApiServerTypes

(* Most leaves are first-order: Zenon tries them, and the ones that need    *)
(* arithmetic or the theory of functions cite SMT.                         *)
USE Zenon

Ready == {"idle", "lookup", "submit", "execute"}

(* A request that is ready to send has sent only earlier attempts.         *)
Attempted(tx) ==
  /\ pc[tx.request] # "idle"
  /\ tx.n <= attempt[tx.request]
  /\ pc[tx.request] \in Ready => tx.n < attempt[tx.request]

(* No transaction is in the pool twice, or in the pool and mined.          *)
SentOnce ==
  /\ \A m, n \in 1 .. Len(pool) : pool[m] = pool[n] => m = n
  /\ \A m \in 1 .. Len(pool) : pool[m] \notin DOMAIN receipts
  /\ \A tx \in Sent : Attempted(tx)
-----------------------------------------------------------------------------
(* What has been sent.                                                     *)

LEMMA SentTyped ==
  ASSUME ChainTypes PROVE Sent \subseteq Tx
BY SMT DEF ChainTypes, Sent, Range

LEMMA SentKept ==
  ASSUME UNCHANGED <<pool, receipts>> PROVE Sent' = Sent
BY DEF Sent, Range

LEMMA SentGrows ==
  ASSUME pool \in Seq(Tx), NEW tx \in Tx, Broadcast(tx), receipts' = receipts
  PROVE  Sent' = Sent \cup {tx}
<1>1. /\ pool' \in Seq(Tx) /\ Len(pool') = Len(pool) + 1 /\ pool'[Len(pool) + 1] = tx
      /\ \A n \in 1 .. Len(pool) : pool'[n] = pool[n]
      /\ DOMAIN pool = 1 .. Len(pool) /\ DOMAIN pool' = 1 .. Len(pool) + 1
      /\ Len(pool) \in Nat
  BY SMT DEF Broadcast
<1>2. Range(pool') = Range(pool) \cup {tx}
  BY <1>1, SMT DEF Range
<1> QED BY <1>2 DEF Sent

LEMMA SentMined ==
  ASSUME pool \in Seq(Tx), pool # << >>, pool' = Tail(pool),
         DOMAIN receipts' = DOMAIN receipts \cup {Head(pool)}
  PROVE  Sent' = Sent
<1>1. /\ Len(pool) \in Nat \ {0} /\ Len(pool') = Len(pool) - 1 /\ Head(pool) = pool[1]
      /\ \A n \in 1 .. Len(pool) - 1 : pool'[n] = pool[n + 1]
      /\ DOMAIN pool = 1 .. Len(pool) /\ DOMAIN pool' = 1 .. Len(pool) - 1
  BY SMT
<1>2. Range(pool) \subseteq Range(pool') \cup {Head(pool)}
  <2> SUFFICES ASSUME NEW n \in 1 .. Len(pool)
               PROVE  pool[n] \in Range(pool') \cup {Head(pool)}
    BY <1>1, SMT DEF Range
  <2>1. CASE n = 1
    BY <1>1, <2>1
  <2>2. CASE n # 1
    <3>1. n - 1 \in 1 .. Len(pool) - 1 /\ pool'[n - 1] = pool[n]
      BY <1>1, <2>2, SMT
    <3> QED BY <1>1, <3>1 DEF Range
  <2> QED BY <2>1, <2>2
<1>3. Range(pool') \cup {Head(pool)} \subseteq Range(pool)
  <2>1. \A n \in 1 .. Len(pool) - 1 : n + 1 \in 1 .. Len(pool)
    BY <1>1, SMT
  <2>2. 1 \in 1 .. Len(pool)
    BY <1>1, SMT
  <2> QED BY <1>1, <2>1, <2>2, SMT DEF Range
<1> QED BY <1>2, <1>3 DEF Sent

(* How the requests may move without disturbing what was attempted.        *)
Advances(q) ==
  pc[q] # "idle" =>
    /\ pc'[q] # "idle"
    /\ \/ attempt'[q] = attempt[q] /\ (pc'[q] \in Ready => pc[q] \in Ready)
       \/ attempt'[q] > attempt[q]

LEMMA AttemptedKept ==
  ASSUME Types, Types', NEW tx \in Tx, Attempted(tx), Advances(tx.request)
  PROVE  Attempted(tx)'
<1>1. PICK q \in Requests : q = tx.request
  BY DEF Tx
<1>2. attempt[q] \in Int /\ attempt'[q] \in Int /\ tx.n \in Int
  BY AttemptsPositive, SMT DEF Types, HandlerTypes, Tx
<1> QED BY <1>1, <1>2, SMT DEF Attempted, Advances

LEMMA SentOnceRests ==
  ASSUME Types, Types', SentOnce, UNCHANGED <<pool, receipts>>,
         \A q \in Requests : Advances(q)
  PROVE  SentOnce'
<1>1. Sent' = Sent /\ Sent \subseteq Tx
  BY SentKept, SentTyped DEF Types
<1>2. ASSUME NEW tx \in Sent PROVE Attempted(tx)'
  <2>1. tx \in Tx /\ tx.request \in Requests
    BY <1>1 DEF Tx
  <2> QED BY <2>1, AttemptedKept DEF SentOnce
<1> QED BY <1>1, <1>2 DEF SentOnce

LEMMA SentOnceGrows ==
  ASSUME Types, Types', SentOnce, NEW r \in Requests, pc[r] \in Ready \ {"idle"},
         Broadcast(Transaction(r)), receipts' = receipts, attempt' = attempt,
         pc'[r] \notin Ready, \A q \in Requests \ {r} : pc'[q] = pc[q]
  PROVE  SentOnce'
<1>1. PICK tx \in Tx : tx = Transaction(r) /\ tx.request = r /\ tx.n = attempt[r]
  BY TransactionTyped DEF Types, Ready
<1>2. pool \in Seq(Tx) /\ Broadcast(tx)
  BY <1>1 DEF Types, ChainTypes
<1>3. Sent' = Sent \cup {tx} /\ Sent \subseteq Tx
  BY <1>1, <1>2, SentGrows, SentTyped DEF Types
<1>4. attempt[r] \in Int
  BY AttemptsPositive, SMT DEF Types, HandlerTypes
<1>5. tx \notin Sent
  <2> SUFFICES ASSUME tx \in Sent PROVE FALSE
    OBVIOUS
  <2>1. tx.n < attempt[r]
    BY <1>1 DEF SentOnce, Attempted
  <2> QED BY <1>1, <1>4, <2>1, SMT
<1>6. /\ Len(pool') = Len(pool) + 1 /\ pool'[Len(pool) + 1] = tx /\ Len(pool) \in Nat
      /\ \A n \in 1 .. Len(pool) : pool'[n] = pool[n]
  BY <1>2, SMT DEF Broadcast
<1>7. \A n \in 1 .. Len(pool) : pool[n] # tx
  BY <1>2, <1>5, SMT DEF Sent, Range
<1>8. tx \notin DOMAIN receipts
  BY <1>5 DEF Sent
<1>9. ASSUME NEW m \in 1 .. Len(pool'), NEW n \in 1 .. Len(pool'), pool'[m] = pool'[n]
      PROVE  m = n
  <2>1. CASE m \in 1 .. Len(pool) /\ n \in 1 .. Len(pool)
    <3>1. pool[m] = pool[n]
      BY <1>6, <1>9, <2>1
    <3> QED BY <2>1, <3>1 DEF SentOnce
  <2>2. CASE m = Len(pool) + 1 /\ n = Len(pool) + 1
    BY <2>2
  <2>3. CASE m = Len(pool) + 1 /\ n \in 1 .. Len(pool)
    BY <1>6, <1>7, <1>9, <2>3
  <2>4. CASE n = Len(pool) + 1 /\ m \in 1 .. Len(pool)
    BY <1>6, <1>7, <1>9, <2>4
  <2> QED BY <1>6, <2>1, <2>2, <2>3, <2>4, SMT
<1>10. ASSUME NEW m \in 1 .. Len(pool') PROVE pool'[m] \notin DOMAIN receipts
  <2>1. CASE m \in 1 .. Len(pool)
    BY <1>6, <2>1 DEF SentOnce
  <2>2. CASE m = Len(pool) + 1
    BY <1>6, <1>8, <2>2
  <2> QED BY <1>6, <2>1, <2>2, SMT
<1>11. ASSUME NEW t \in Sent' PROVE Attempted(t)'
  <2>1. CASE t = tx
    BY <1>1, <1>4, <2>1, SMT DEF Attempted, Ready
  <2>2. CASE t \in Sent
    <3>1. t \in Tx /\ t.request \in Requests
      BY <1>3, <2>2 DEF Tx
    <3>2. Advances(t.request)
      BY <3>1 DEF Advances, Ready
    <3> QED BY <2>2, <3>1, <3>2, AttemptedKept DEF SentOnce
  <2> QED BY <1>3, <2>1, <2>2
<1> QED BY <1>9, <1>10, <1>11 DEF SentOnce

LEMMA SentOnceMined ==
  ASSUME Types, SentOnce, Mine PROVE SentOnce'
<1>1. /\ pool \in Seq(Tx) /\ pool # << >> /\ pool' = Tail(pool)
      /\ DOMAIN receipts' = DOMAIN receipts \cup {Head(pool)}
      /\ pc' = pc /\ attempt' = attempt
  BY DEF Types, ChainTypes, Mine, handler
<1>2. Sent' = Sent
  BY <1>1, SentMined
<1>3. /\ Len(pool) \in Nat \ {0} /\ Len(pool') = Len(pool) - 1 /\ Head(pool) = pool[1]
      /\ \A n \in 1 .. Len(pool) - 1 : pool'[n] = pool[n + 1]
  BY <1>1, SMT
<1>4. ASSUME NEW m \in 1 .. Len(pool'), NEW n \in 1 .. Len(pool'), pool'[m] = pool'[n]
      PROVE  m = n
  <2>1. /\ m + 1 \in 1 .. Len(pool) /\ n + 1 \in 1 .. Len(pool)
        /\ pool[m + 1] = pool[n + 1]
    BY <1>3, <1>4, SMT
  <2>2. m + 1 = n + 1
    BY <2>1 DEF SentOnce
  <2> QED BY <2>2, SMT
<1>5. ASSUME NEW m \in 1 .. Len(pool') PROVE pool'[m] \notin DOMAIN receipts'
  <2>1. m + 1 \in 1 .. Len(pool) /\ pool'[m] = pool[m + 1] /\ 1 \in 1 .. Len(pool)
        /\ m + 1 # 1
    BY <1>3, SMT
  <2>2. pool[m + 1] # pool[1] /\ pool[m + 1] \notin DOMAIN receipts
    BY <2>1 DEF SentOnce
  <2> QED BY <1>1, <1>3, <2>1, <2>2
<1>6. ASSUME NEW tx \in Sent' PROVE Attempted(tx)'
  BY <1>1, <1>2 DEF SentOnce, Attempted
<1> QED BY <1>4, <1>5, <1>6 DEF SentOnce

-----------------------------------------------------------------------------
(* The steps of a handler, by what they do to the store and the pool.      *)

Faulty == faults' = faults + 1

Alone(r) ==
  /\ UNCHANGED <<request, receipts, state, supply, clock, overlapped>>
  /\ \A q \in Requests \ {r} :
       pc'[q] = pc[q] /\ attempt'[q] = attempt[q] /\ answer'[q] = answer[q]

Unsuccessful(r) == ~(answer'[r].code \in {200, 201})

Repeats(r) ==
  /\ pc[r] = "lookup" /\ pc'[r] = "done"
  /\ Store!Hit(request[r].key) /\ answer'[r] = table[request[r].key].response
  /\ UNCHANGED <<attempt, pool, table, deletes>>

Misses(r) ==
  /\ pc[r] = "lookup" /\ pc'[r] \in {"submit", "execute", "done"}
  /\ Unsuccessful(r)
  /\ UNCHANGED <<attempt, pool, table>>
  /\ Faulty \/ Store!GetMiss(request[r].key)

Sends(r) ==
  /\ pc[r] \in {"submit", "execute"}
  /\ pc'[r] \in {"save", "done", "backoff", "deadletter"}
  /\ Unsuccessful(r)
  /\ Broadcast(Transaction(r))
  /\ UNCHANGED <<attempt, table, deletes>>
  /\ Faulty \/ pc'[r] = "save"

Fails(r) ==
  /\ pc[r] \in {"submit", "execute", "backoff", "deadletter"}
  /\ Unsuccessful(r)
  /\ UNCHANGED <<pool, table, deletes>>
  /\ \/ attempt' = attempt /\ pc'[r] \in {"done", "backoff", "deadletter"}
     \/ attempt'[r] = attempt[r] + 1 /\ pc'[r] = "execute"

Saves(r) ==
  /\ pc[r] = "save" /\ pc'[r] = "done" /\ answer'[r] = Response(r)
  /\ UNCHANGED <<attempt, pool, deletes>>
  /\ \/ Faulty /\ table' = table
     \/ Store!Save(request[r].key, Response(r))

LEMMA GotoEffect ==
  ASSUME HandlerTypes, NEW r \in Requests, pc[r] \in InFlight, NEW step, Goto(r, step)
  PROVE  /\ pc'[r] = step /\ Unsuccessful(r) /\ UNCHANGED <<request, attempt>>
         /\ \A q \in Requests \ {r} :
              pc'[q] = pc[q] /\ attempt'[q] = attempt[q] /\ answer'[q] = answer[q]
<1>1. answer[r] = NoAnswer
  BY DEF HandlerTypes, InFlight
<1> QED BY <1>1, SMT DEF HandlerTypes, Goto, Unsuccessful, NoAnswer

LEMMA FinishEffect ==
  ASSUME HandlerTypes, NEW r \in Requests, NEW a, Finish(r, a)
  PROVE  /\ pc'[r] = "done" /\ answer'[r] = a /\ UNCHANGED <<request, attempt>>
         /\ \A q \in Requests \ {r} :
              pc'[q] = pc[q] /\ attempt'[q] = attempt[q] /\ answer'[q] = answer[q]
BY DEF HandlerTypes, Finish

LEMMA FailEffect ==
  ASSUME HandlerTypes, NEW r \in Requests, NEW code \in {400, 500, 502},
         Finish(r, Failure(code))
  PROVE  /\ pc'[r] = "done" /\ Unsuccessful(r) /\ UNCHANGED <<request, attempt>>
         /\ \A q \in Requests \ {r} :
              pc'[q] = pc[q] /\ attempt'[q] = attempt[q] /\ answer'[q] = answer[q]
<1>1. ~(Failure(code).code \in {200, 201})
  BY AnswerKinds, SMT
<1>2. PICK a : a = Failure(code)
  OBVIOUS
<1>3. Finish(r, a)
  BY <1>2
<1> QED BY <1>1, <1>2, <1>3, FinishEffect, SMT DEF Unsuccessful

LEMMA HandlerSteps ==
  ASSUME Types, NEW r \in Requests, Handle(r)
  PROVE  Alone(r) /\ (Repeats(r) \/ Misses(r) \/ Sends(r) \/ Fails(r) \/ Saves(r))
<1> USE DEF Alone
<1>1. HandlerTypes
  BY DEF Types
<1>0. ASSUME NEW code \in {400, 500, 502}, Finish(r, Failure(code))
      PROVE  /\ pc'[r] = "done" /\ Unsuccessful(r) /\ UNCHANGED <<request, attempt>>
             /\ \A q \in Requests \ {r} :
                  pc'[q] = pc[q] /\ attempt'[q] = attempt[q] /\ answer'[q] = answer[q]
  BY <1>0, <1>1, FailEffect, SMT
<1>2. CASE Lookup(r)
  <2>1. pc[r] = "lookup" /\ pc[r] \in InFlight
        /\ UNCHANGED <<receipts, state, supply, clock, overlapped, pool>>
    BY <1>2 DEF Lookup, Fault, history, chain, InFlight
  <2>2. CASE /\ Store!Hit(request[r].key) /\ Finish(r, table[request[r].key].response)
             /\ UNCHANGED <<table, deletes, saved, history>>
    BY <1>1, <2>1, <2>2, FinishEffect DEF Repeats
  <2>3. CASE /\ Proceed(r) /\ table' = table /\ (Faulty \/ Store!GetMiss(request[r].key))
    <3>1. CASE Goto(r, "execute") \/ Goto(r, "submit")
      BY <1>1, <2>1, <2>3, <3>1, GotoEffect DEF Misses
    <3>2. CASE Finish(r, Failure(400))
      <4>1. /\ pc'[r] = "done" /\ Unsuccessful(r) /\ UNCHANGED <<request, attempt>>
            /\ \A q \in Requests \ {r} :
                 pc'[q] = pc[q] /\ attempt'[q] = attempt[q] /\ answer'[q] = answer[q]
        BY <1>0, <3>2, SMT
      <4> QED
        BY <2>1, <2>3, <4>1 DEF Misses
    <3> QED BY <2>3, <3>1, <3>2 DEF Proceed
  <2> QED BY <1>2, <2>2, <2>3 DEF Lookup, Store!GetMiss, Fault, Faulty
<1>3. CASE SubmitIntent(r) \/ ExecuteMint(r)
  <2>1. pc[r] \in {"submit", "execute"} /\ pc[r] \in InFlight
        /\ UNCHANGED <<receipts, state, supply, clock, overlapped, table, deletes>>
    BY <1>3 DEF SubmitIntent, ExecuteMint, Fault, history, InFlight
  <2>2. CASE Broadcast(Transaction(r)) /\ Goto(r, "save")
    BY <1>1, <2>1, <2>2, GotoEffect DEF Sends
  <2>3. CASE ((Faulty /\ Broadcast(Transaction(r))) \/ UNCHANGED pool)
             /\ Finish(r, Failure(502))
    <3>1. /\ pc'[r] = "done" /\ Unsuccessful(r) /\ UNCHANGED <<request, attempt>>
          /\ \A q \in Requests \ {r} :
               pc'[q] = pc[q] /\ attempt'[q] = attempt[q] /\ answer'[q] = answer[q]
      BY <1>0, <2>3, SMT
    <3> QED
      BY <2>1, <2>3, <3>1 DEF Sends, Fails
  <2>4. CASE ((Faulty /\ Broadcast(Transaction(r))) \/ UNCHANGED pool)
             /\ (Goto(r, "deadletter") \/ Goto(r, "backoff"))
    BY <1>1, <2>1, <2>4, GotoEffect DEF Sends, Fails
  <2>5. Fault => Faulty
    BY DEF Fault, Faulty
  <2>6. CASE SubmitIntent(r)
    <3>1. \/ Broadcast(Transaction(r)) /\ Goto(r, "save")
          \/ ((Fault /\ Broadcast(Transaction(r))) \/ UNCHANGED pool)
             /\ Finish(r, Failure(502))
      BY <2>6 DEF SubmitIntent
    <3> QED
      BY <2>2, <2>3, <2>5, <3>1
  <2>7. CASE ExecuteMint(r)
    <3>1. \A b \in BOOLEAN : Retry(r, b) => Goto(r, "deadletter") \/ Goto(r, "backoff")
      BY DEF Retry
    <3> QED
      BY <2>2, <2>4, <2>5, <2>7, <3>1 DEF ExecuteMint
  <2> QED BY <1>3, <2>6, <2>7
<1>4. CASE Backoff(r)
  <2>1. pc[r] = "backoff" /\ pc[r] \in InFlight
        /\ UNCHANGED <<receipts, state, supply, clock, overlapped, table, deletes, pool>>
    BY <1>4 DEF Backoff, Fault, history, InFlight, chain
  <2>2. CASE Goto(r, "deadletter")
    BY <1>1, <2>1, <2>2, GotoEffect DEF Fails
  <2>3. CASE /\ pc' = [pc EXCEPT ![r] = "execute"]
             /\ attempt' = [attempt EXCEPT ![r] = NextAttempt(r)]
             /\ UNCHANGED <<request, answer, history>>
    <3>1. answer[r] = NoAnswer
      BY <1>1, <2>1 DEF HandlerTypes
    <3>2. Unsuccessful(r)
      BY <2>3, <3>1, SMT DEF Unsuccessful, NoAnswer
    <3> QED BY <1>1, <2>1, <2>3, <3>2 DEF Fails, HandlerTypes, NextAttempt
  <2> QED BY <1>4, <2>2, <2>3 DEF Backoff
<1>5. CASE Save(r)
  <2>1. pc[r] = "save" /\ Finish(r, Response(r))
        /\ UNCHANGED <<receipts, state, supply, clock, overlapped, pool, deletes>>
    BY <1>5 DEF Save, Fault, history, chain, Store!Save
  <2>2. (Faulty /\ table' = table) \/ Store!Save(request[r].key, Response(r))
    BY <1>5 DEF Save, Fault, Faulty
  <2> QED BY <1>1, <2>1, <2>2, FinishEffect DEF Saves
<1>6. CASE WriteDLQ(r)
  <2>1. pc[r] = "deadletter" /\ Finish(r, Failure(500))
        /\ UNCHANGED <<receipts, state, supply, clock, overlapped, pool, table, deletes>>
    BY <1>6 DEF WriteDLQ, Fault, history, chain
  <2>2. /\ pc'[r] = "done" /\ Unsuccessful(r) /\ UNCHANGED <<request, attempt>>
        /\ \A q \in Requests \ {r} :
             pc'[q] = pc[q] /\ attempt'[q] = attempt[q] /\ answer'[q] = answer[q]
    BY <1>0, <2>1, SMT
  <2>3. Fails(r)
    BY <2>1, <2>2 DEF Fails
  <2> QED BY <2>1, <2>2, <2>3
<1> QED BY <1>2, <1>3, <1>4, <1>5, <1>6 DEF Handle

(* The steps that concern no request.                                      *)
Quiet == UNCHANGED <<handler, pool, receipts, faults, overlapped>> /\ clock' >= clock

LEMMA QuietSteps ==
  ASSUME Types,
         (\E k \in Keys : DeleteKey(k)) \/ Tick \/ OnChain
           \/ (\E intents \in SUBSET IntentIds : Refuse(intents)) \/ UNCHANGED vars
  PROVE  Quiet
<1>1. clock \in Nat
  BY DEF Types, StoreTypes
<1> USE DEF Quiet, history
<1>2. CASE \E k \in Keys : DeleteKey(k)
  BY <1>1, <1>2, SMT DEF DeleteKey, chain
<1>3. CASE Tick
  BY <1>1, <1>3, SMT DEF Tick, chain
<1>4. CASE OnChain
  BY <1>1, <1>4, SMT DEF OnChain
<1>5. CASE (\E intents \in SUBSET IntentIds : Refuse(intents)) \/ UNCHANGED vars
  BY <1>1, <1>5, SMT DEF Refuse, vars, chain
<1> QED BY <1>2, <1>3, <1>4, <1>5

LEMMA DeliverEffect ==
  ASSUME Types, NEW r \in Requests, NEW p \in Payloads, Deliver(r, p)
  PROVE  /\ UNCHANGED <<attempt, table, deletes, saved, clock, pool, receipts, state,
                        supply, faults>>
         /\ pc[r] = "idle" /\ pc'[r] \in {"lookup", "done"} /\ request'[r] = p
         /\ Unsuccessful(r)
         /\ \A q \in Requests \ {r} :
              pc'[q] = pc[q] /\ request'[q] = request[q] /\ answer'[q] = answer[q]
<1>1. HandlerTypes /\ pc[r] = "idle" /\ answer[r] = NoAnswer
  BY DEF Types, HandlerTypes, Deliver
<1>2. Unsuccessful(r)
  BY <1>1, AnswerKinds, SMT DEF Unsuccessful, NoAnswer, Failure, Deliver, HandlerTypes
<1> QED BY <1>1, <1>2, SMT DEF HandlerTypes, Deliver, chain

LEMMA HandlerAdvances ==
  ASSUME Types, NEW r \in Requests, Alone(r), pc'[r] # "idle",
         \/ attempt' = attempt /\ (pc'[r] \in Ready => pc[r] \in Ready)
         \/ attempt'[r] = attempt[r] + 1
  PROVE  \A q \in Requests : Advances(q)
<1>1. attempt[r] \in Int
  BY AttemptsPositive, SMT DEF Types, HandlerTypes
<1>2. Advances(r)
  BY <1>1, SMT DEF Advances
<1>3. \A q \in Requests \ {r} : Advances(q)
  BY DEF Advances, Alone
<1> QED BY <1>2, <1>3

LEMMA SentOnceStep ==
  ASSUME Types, SentOnce, [Next]_vars PROVE SentOnce'
<1>1. Types'
  BY TypesStep
<1>2. ASSUME NEW r \in Requests, NEW p \in MintRequest \cup MpesaCallback, Deliver(r, p)
      PROVE  SentOnce'
  <2>1. p \in Payloads
    BY DEF Payloads
  <2>2. UNCHANGED <<pool, receipts>> /\ \A q \in Requests : Advances(q)
    BY <1>2, <2>1, DeliverEffect DEF Advances
  <2> QED BY <1>1, <2>2, SentOnceRests
<1>3. ASSUME NEW r \in Requests, Handle(r) PROVE SentOnce'
  <2>1. Alone(r) /\ (Repeats(r) \/ Misses(r) \/ Sends(r) \/ Fails(r) \/ Saves(r))
    BY <1>3, HandlerSteps
  <2>2. receipts' = receipts
    BY <2>1 DEF Alone
  <2>3. CASE Repeats(r) \/ Misses(r) \/ Saves(r)
    <3>1. /\ pool' = pool /\ attempt' = attempt /\ pc'[r] # "idle"
          /\ (pc'[r] \in Ready => pc[r] \in Ready)
      BY <2>3 DEF Repeats, Misses, Saves, Ready
    <3>2. \A q \in Requests : Advances(q)
      BY <2>1, <3>1, HandlerAdvances
    <3> QED BY <1>1, <2>2, <3>1, <3>2, SentOnceRests
  <2>4. CASE Fails(r)
    <3>1. /\ pool' = pool /\ pc'[r] # "idle"
          /\ \/ attempt' = attempt /\ (pc'[r] \in Ready => pc[r] \in Ready)
             \/ attempt'[r] = attempt[r] + 1
      BY <2>4 DEF Fails, Ready
    <3>2. \A q \in Requests : Advances(q)
      BY <2>1, <3>1, HandlerAdvances
    <3> QED BY <1>1, <2>2, <3>1, <3>2, SentOnceRests
  <2>5. CASE Sends(r)
    <3>1. /\ pc[r] \in Ready \ {"idle"} /\ pc'[r] \notin Ready
          /\ Broadcast(Transaction(r)) /\ attempt' = attempt
          /\ \A q \in Requests \ {r} : pc'[q] = pc[q]
      BY <2>1, <2>5 DEF Sends, Ready, Alone
    <3> QED BY <1>1, <2>2, <3>1, SentOnceGrows
  <2> QED BY <2>1, <2>3, <2>4, <2>5
<1>4. ASSUME NEW served \in SUBSET Requests, Crash(served) PROVE SentOnce'
  <2>1. UNCHANGED <<pool, receipts>> /\ \A q \in Requests : Advances(q)
    BY <1>4 DEF Crash, Advances, chain, Ready
  <2> QED BY <1>1, <2>1, SentOnceRests
<1>5. CASE Mine
  BY <1>5, SentOnceMined
<1>6. CASE Quiet
  <2>1. UNCHANGED <<pool, receipts>> /\ \A q \in Requests : Advances(q)
    BY <1>6 DEF Quiet, Advances, handler
  <2> QED BY <1>1, <2>1, SentOnceRests
<1> QED BY <1>2, <1>3, <1>4, <1>5, <1>6, QuietSteps DEF Next

LEMMA SentOnceInit ==
  ASSUME Init PROVE SentOnce
<1>1. Len(pool) = 0 /\ Range(pool) = {} /\ DOMAIN receipts = {}
  BY SMT DEF Init, Range
<1> QED BY <1>1, SMT DEF SentOnce, Sent

-----------------------------------------------------------------------------
(* Records and answers are about transactions sent for their key.          *)

ForKey(response, key) == response.tx \in Sent /\ KeyOf(response.tx) = key

RecordsAreForKey ==
  /\ \A r \in Requests : pc[r] = "save" => Transaction(r) \in Sent
  /\ \A k \in DOMAIN table : ForKey(table[k].response, k)
  /\ AnswersAreForKey

LEMMA SentStays ==
  ASSUME Types, SentOnce, [Next]_vars, NEW tx \in Sent
  PROVE  tx \in Sent' /\ KeyOf(tx)' = KeyOf(tx)
<1>1. tx \in Tx /\ tx.request \in Requests /\ pc[tx.request] # "idle"
      /\ ChainTypes /\ pool \in Seq(Tx)
  BY SentTyped DEF Types, SentOnce, Attempted, Tx, ChainTypes
<1>2. ASSUME NEW r \in Requests, NEW p \in MintRequest \cup MpesaCallback, Deliver(r, p)
      PROVE  tx \in Sent' /\ KeyOf(tx)' = KeyOf(tx)
  <2>1. p \in Payloads
    BY DEF Payloads
  <2>2. /\ UNCHANGED <<pool, receipts>> /\ pc[r] = "idle"
        /\ \A q \in Requests \ {r} : request'[q] = request[q]
    BY <1>2, <2>1, DeliverEffect
  <2> QED BY <1>1, <2>2, SentKept DEF KeyOf
<1>3. ASSUME NEW r \in Requests, Handle(r) PROVE tx \in Sent' /\ KeyOf(tx)' = KeyOf(tx)
  <2>1. Alone(r) /\ (Repeats(r) \/ Misses(r) \/ Sends(r) \/ Fails(r) \/ Saves(r))
    BY <1>3, HandlerSteps
  <2>2. request' = request /\ receipts' = receipts
    BY <2>1 DEF Alone
  <2>3. CASE pool' = pool
    BY <2>2, <2>3, SentKept DEF KeyOf
  <2>4. CASE Sends(r)
    <3>1. Transaction(r) \in Tx /\ Broadcast(Transaction(r))
      BY <2>4, TransactionTyped DEF Sends, Types
    <3>2. PICK t \in Tx : t = Transaction(r)
      BY <3>1
    <3> QED BY <1>1, <2>2, <3>1, <3>2, SentGrows DEF KeyOf
  <2> QED BY <2>1, <2>3, <2>4 DEF Repeats, Misses, Fails, Saves
<1>4. ASSUME NEW served \in SUBSET Requests, Crash(served)
      PROVE  tx \in Sent' /\ KeyOf(tx)' = KeyOf(tx)
  <2>1. UNCHANGED <<pool, receipts, request>>
    BY <1>4 DEF Crash, chain
  <2> QED BY <2>1, SentKept DEF KeyOf
<1>5. CASE Mine
  <2>1. /\ pool # << >> /\ pool' = Tail(pool) /\ request' = request
        /\ DOMAIN receipts' = DOMAIN receipts \cup {Head(pool)}
    BY <1>5 DEF Mine, handler
  <2> QED BY <1>1, <2>1, SentMined DEF KeyOf
<1>6. CASE Quiet
  <2>1. UNCHANGED <<pool, receipts, request>>
    BY <1>6 DEF Quiet, handler
  <2> QED BY <2>1, SentKept DEF KeyOf
<1> QED BY <1>2, <1>3, <1>4, <1>5, <1>6, QuietSteps DEF Next

LEMMA TransactionSame ==
  ASSUME NEW r \in Requests, request'[r] = request[r], attempt'[r] = attempt[r]
  PROVE  Transaction(r)' = Transaction(r)
BY DEF Transaction

(* What a request sent, is recorded with or answers, unless it stays.      *)
LEMMA RecordsKept ==
  ASSUME Types, SentOnce, RecordsAreForKey, [Next]_vars,
         \A q \in Requests : pc'[q] = "save" =>
           \/ Transaction(q)' \in Sent'
           \/ pc[q] = "save" /\ request'[q] = request[q] /\ attempt'[q] = attempt[q],
         \A k \in DOMAIN table' :
           \/ ForKey(table'[k].response, k)
           \/ k \in DOMAIN table /\ table'[k] = table[k],
         \A q \in Requests :
           \/ Unsuccessful(q)
           \/ ForKey(answer'[q], request[q].key) /\ request'[q] = request[q]
           \/ answer'[q] = answer[q] /\ request'[q] = request[q]
  PROVE  RecordsAreForKey'
<1>1. \A a, k : ForKey(a, k) => ForKey(a, k)'
  BY SentStays DEF ForKey
<1>2. ASSUME NEW q \in Requests, pc'[q] = "save" PROVE Transaction(q)' \in Sent'
  <2> SUFFICES ASSUME pc[q] = "save" /\ request'[q] = request[q]
                      /\ attempt'[q] = attempt[q]
               PROVE  Transaction(q)' \in Sent'
    BY <1>2
  <2>1. PICK tx \in Sent : tx = Transaction(q)
    BY DEF RecordsAreForKey
  <2> QED BY <2>1, SentStays, TransactionSame
<1>3. ASSUME NEW k \in DOMAIN table' PROVE ForKey(table[k].response, k)'
  <2>1. PICK a : a = table'[k].response
    OBVIOUS
  <2>2. ForKey(a, k)
    BY <2>1 DEF RecordsAreForKey
  <2>3. ForKey(a, k)'
    BY <1>1, <2>2
  <2> QED BY <2>1, <2>3 DEF ForKey
<1>4. ASSUME NEW q \in Requests, Succeeded(q)' PROVE ForKey(answer[q], request[q].key)'
  <2>1. PICK a, k : a = answer'[q] /\ k = request[q].key
    OBVIOUS
  <2>2. ForKey(a, k) /\ request'[q] = request[q]
    BY <1>4, <2>1, SMT DEF RecordsAreForKey, AnswersAreForKey, ForKey, Succeeded, Unsuccessful
  <2>3. ForKey(a, k)'
    BY <1>1, <2>2
  <2> QED BY <2>1, <2>2, <2>3 DEF ForKey
<1>5. AnswersAreForKey'
  BY <1>4 DEF AnswersAreForKey, ForKey
<1> QED BY <1>2, <1>3, <1>5 DEF RecordsAreForKey

LEMMA SavedIsForKey ==
  ASSUME Types, RecordsAreForKey, NEW r \in Requests, pc[r] = "save"
  PROVE  ForKey(Response(r), request[r].key)
<1>1. /\ Response(r).tx = Transaction(r) /\ Transaction(r).request = r
  BY ResponseTyped, TransactionTyped DEF Types
<1> QED BY <1>1 DEF RecordsAreForKey, ForKey, KeyOf

LEMMA RecordsStep ==
  ASSUME Types, SentOnce, RecordsAreForKey, [Next]_vars
  PROVE  RecordsAreForKey'
<1>1. ASSUME NEW r \in Requests, NEW p \in MintRequest \cup MpesaCallback, Deliver(r, p)
      PROVE  RecordsAreForKey'
  <2>1. p \in Payloads
    BY DEF Payloads
  <2> QED BY <1>1, <2>1, DeliverEffect, RecordsKept
<1>2. ASSUME NEW r \in Requests, Handle(r) PROVE RecordsAreForKey'
  <2>1. Alone(r) /\ (Repeats(r) \/ Misses(r) \/ Sends(r) \/ Fails(r) \/ Saves(r))
    BY <1>2, HandlerSteps
  <2>2. CASE Repeats(r)
    <3>1. ForKey(answer'[r], request[r].key)
      BY <2>2 DEF Repeats, RecordsAreForKey, Store!Hit
    <3> QED BY <2>1, <2>2, <3>1, RecordsKept DEF Repeats, Alone
  <2>3. CASE Misses(r)
    BY <2>1, <2>3, RecordsKept DEF Misses, Alone
  <2>4. CASE Sends(r)
    <3>1. Transaction(r) \in Tx /\ Broadcast(Transaction(r)) /\ attempt' = attempt
      BY <2>4, TransactionTyped DEF Sends, Types
    <3>2. PICK t \in Tx : t = Transaction(r)
      BY <3>1
    <3>3. pool \in Seq(Tx) /\ receipts' = receipts /\ request' = request
      BY <2>1 DEF Types, ChainTypes, Alone
    <3>4. Transaction(r)' = t /\ t \in Sent'
      BY <3>1, <3>2, <3>3, SentGrows, TransactionSame
    <3> QED BY <2>1, <2>4, <3>4, RecordsKept DEF Sends, Alone
  <2>5. CASE Fails(r)
    BY <2>1, <2>5, RecordsKept DEF Fails, Alone
  <2>6. CASE Saves(r)
    <3>1. PICK a, k : a = Response(r) /\ k = request[r].key
      OBVIOUS
    <3>2. ForKey(a, k)
      BY <2>6, <3>1, SavedIsForKey DEF Saves
    <3>3. \A j \in DOMAIN table' :
            \/ ForKey(table'[j].response, j)
            \/ j \in DOMAIN table /\ table'[j] = table[j]
      BY <2>6, <3>1, <3>2, SMT DEF Saves, Store!Save, Store!Upsert
    <3> QED BY <2>1, <2>6, <3>1, <3>2, <3>3, RecordsKept DEF Saves, Alone
  <2> QED BY <2>1, <2>2, <2>3, <2>4, <2>5, <2>6
<1>3. ASSUME NEW served \in SUBSET Requests, Crash(served) PROVE RecordsAreForKey'
  BY <1>3, RecordsKept DEF Crash
<1>4. CASE Mine
  BY <1>4, RecordsKept DEF Mine, handler
<1>5. ASSUME NEW k \in Keys, DeleteKey(k) PROVE RecordsAreForKey'
  BY <1>5, RecordsKept DEF DeleteKey, Store!DeleteKey, handler
<1>6. CASE Tick \/ OnChain \/ (\E intents \in SUBSET IntentIds : Refuse(intents))
           \/ UNCHANGED vars
  <2>1. UNCHANGED <<pc, request, attempt, answer, table>>
    BY <1>6 DEF Tick, OnChain, Refuse, vars, handler
  <2> QED BY <2>1, RecordsKept
<1> QED BY <1>1, <1>2, <1>3, <1>4, <1>5, <1>6 DEF Next

LEMMA RecordsInit ==
  ASSUME Init PROVE RecordsAreForKey
BY SMT DEF Init, RecordsAreForKey, AnswersAreForKey, Succeeded, NoAnswer, Store!StoreInit

-----------------------------------------------------------------------------
(* The inductive invariant, and what follows from it.                      *)

SendInv == Types /\ SentOnce /\ RecordsAreForKey

LEMMA SendsInductive == Spec => []SendInv
<1>1. Init => SendInv
  BY TypesInit, SentOnceInit, RecordsInit DEF SendInv
<1>2. SendInv /\ [Next]_vars => SendInv'
  BY TypesStep, SentOnceStep, RecordsStep DEF SendInv
<1> QED BY <1>1, <1>2, PTL DEF Spec

(* Every success a client was told of names a transaction sent for its own *)
(* key, for every number of clients, replicas' crashes and expired rows.   *)
THEOREM AnswersForKey == Spec => []AnswersAreForKey
<1>1. SendInv => AnswersAreForKey
  BY DEF SendInv, RecordsAreForKey
<1> QED BY <1>1, SendsInductive, PTL

=============================================================================
