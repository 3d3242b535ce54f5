----------------------------- MODULE RequestPath -----------------------------
(***************************************************************************)
(* One signed request on its way through the API, and the same request     *)
(* delivered again: the HMAC check, the checks of the handlers and of the  *)
(* chain client, the idempotency record with its expiry, the retry loop    *)
(* with its sleeps, and the DLQ file (server.go, over MemoryStore of       *)
(* store.go as the tests run it).                                          *)
(*                                                                         *)
(* ApiServer has the interleavings of requests and abstracts their         *)
(* contents and durations; here deliveries follow one another, and what    *)
(* they contain and how long they take is kept.  The node's answers arrive *)
(* (ApiServer loses some).                                                 *)
(***************************************************************************)
EXTENDS HmacAuth, EthClient

CONSTANTS
  Envs, Seeds,       \* the environments and seed.json files considered
  Messages,          \* the requests senders make, each with its headers
  DefaultBackoff,    \* 500 * time.Millisecond
  NameMax,           \* longest reference that fits in a file name
  MaxDelay,          \* bound: time from the freshness check to the lookup
  MaxDeliveries,     \* bound: deliveries in a behaviour
  MaxTime            \* bound: the clock stops ticking here

ASSUME PathAssumption ==
  /\ DefaultBackoff \in 1 .. DurationLimit - 1 /\ NameMax \in Nat
  /\ MaxDelay \in Nat /\ MaxDeliveries \in Nat /\ MaxTime \in Nat
  /\ \A env \in Envs : env.clockSkew.n \in Int
  /\ \A seed \in Seeds : seed.ok =>
       /\ {seed.windowSecs, seed.maxAttempts, seed.multiplier} \subseteq Int
       /\ {seed.initialBackoffMs, seed.maxBackoffMs} \subseteq Int
  /\ \A m \in Messages : m.timestamp.n \in Int /\ m.ref \in Seq(Nat)

VARIABLES
  cfg,                       \* what config.Load returned
  clock,                     \* time.Now()
  data,                      \* MemoryStore.data
  pc, message, verifiedAt,   \* the delivery in progress
  i, backoff, slept,         \* executeMintWithRetry; slept is history
  submitted,                 \* history: submitIntents sent, with both IDs
  sends,                     \* history: transactions sent for each message
  answered,                  \* history: the messages, with their answers
  parked,                    \* the callbacks with a file in the DLQ
  deliveries                 \* history: how many there were

loop == <<i, backoff, slept>>
effects == <<submitted, sends, parked>>
vars == <<cfg, clock, data, pc, message, verifiedAt, loop, effects,
          answered, deliveries>>

NoMessage == [kind |-> "none"]

Deployments == [ok |-> TRUE, mintEscrow |-> "0xescrow"]

Init ==
  /\ \E env \in Envs, seed \in Seeds : cfg = Load(env, seed, Deployments)
  /\ cfg.ok
  /\ clock = 0
  /\ data = [k \in {} |-> 0]
  /\ pc = "idle" /\ message = NoMessage /\ verifiedAt = 0
  /\ i = 1 /\ backoff = 0 /\ slept = << >>
  /\ submitted = {} /\ answered = {} /\ parked = {}
  /\ sends = [m \in Messages |-> 0]
  /\ deliveries = 0

-----------------------------------------------------------------------------
(* MemoryStore.                                                            *)

Expired(record) == clock > record.expiresAt

Get(key) == key \in DOMAIN data /\ ~Expired(data[key])

Save(key, record) ==
  data' = [k \in DOMAIN data \cup {key} |-> IF k = key THEN record ELSE data[k]]

-----------------------------------------------------------------------------
(* The checks of the handlers.                                             *)

Secret(m) == IF m.kind = "mint" THEN cfg.hmacSalt ELSE cfg.webhookSecret

(* A key is a prefix and the sender's text; net/http has already trimmed   *)
(* the value of a header.                                                  *)
Key(m) == IF m.kind = "mint" THEN <<"", m.key>> ELSE <<"mpesa:", m.ref>>

ValidMintIntentRequest(m) ==
  m.user # "" /\ m.amount.reads # "empty" /\ m.country # << >> /\ m.ref # << >>

ValidMpesaRequest(m) ==
  m.intentId # "" /\ m.ref # << >> /\ m.user # "" /\ m.amount.reads # "empty"

(* Before the lookup; a mint request is decoded only after it.             *)
RefusedAtOnce(m) ==
  \/ ~m.post
  \/ m.kind = "mint" /\ Blank(m.key)
  \/ m.kind = "callback" /\ ~(m.json /\ ValidMpesaRequest(m))

RefusedAfterMiss(m) ==
  m.kind = "mint" /\ ~(m.json /\ ValidMintIntentRequest(m))

-----------------------------------------------------------------------------
(* The path.                                                               *)

(* The handler returns; its variables are gone.                            *)
Answer(code) ==
  /\ pc' = "idle"
  /\ answered' = answered \cup {<<message, code>>}
  /\ message' = NoMessage /\ verifiedAt' = 0
  /\ i' = 1 /\ backoff' = 0 /\ slept' = << >>
  /\ UNCHANGED <<cfg, deliveries>>

Goto(step) ==
  /\ pc' = step
  /\ UNCHANGED <<cfg, message, verifiedAt, answered, deliveries>>

(* The freshness check of the middleware, on a first or a later delivery   *)
(* of m.  The body is read and the signature compared after it.            *)
Deliver(m) ==
  /\ pc = "idle"
  /\ deliveries < MaxDeliveries
  /\ deliveries' = deliveries + 1
  /\ IF Verify(m, clock, Secret(m), cfg.clockSkew)
     THEN /\ pc' = "verified" /\ message' = m /\ verifiedAt' = clock
          /\ UNCHANGED answered
     ELSE /\ answered' = answered \cup {<<m, 401>>}
          /\ UNCHANGED <<pc, message, verifiedAt>>
  /\ UNCHANGED <<cfg, clock, data, loop, effects>>

(* The loop's first backoff.                                               *)
FirstBackoff ==
  IF cfg.initialBackoff <= 0 THEN DefaultBackoff ELSE cfg.initialBackoff

(* The rest of the middleware, which fails if the body cannot be read, and *)
(* the handler up to its first call of the chain client.                   *)
Handle ==
  /\ pc = "verified"
  /\ \/ Secret(message) # "" /\ Answer(401)
     \/ RefusedAtOnce(message) /\ Answer(IF message.post THEN 400 ELSE 405)
     \/ /\ ~RefusedAtOnce(message) /\ Get(Key(message))
        /\ Answer(data[Key(message)].code)
     \/ /\ ~RefusedAtOnce(message) /\ ~Get(Key(message))
        /\ RefusedAfterMiss(message)
        /\ Answer(400)
     \/ /\ ~RefusedAtOnce(message) /\ ~Get(Key(message))
        /\ ~RefusedAfterMiss(message)
        /\ Goto(IF message.kind = "mint" THEN "submit" ELSE "execute")
        /\ i' = 1 /\ backoff' = FirstBackoff /\ slept' = << >>
  /\ UNCHANGED <<clock, data, effects>>

SentFor(m) == sends' = [sends EXCEPT ![m] = @ + 1]

ExpiresAt == clock + cfg.window

(* SubmitIntent and the rest of handleMintIntents.  The node takes the     *)
(* transaction or refuses it.                                              *)
SubmitIntent ==
  /\ pc = "submit"
  /\ \/ Answer(502) /\ UNCHANGED <<data, effects>>
     \/ /\ ValidSubmitRequest(message)
        /\ Answer(201)
        /\ submitted' = submitted \cup
             {[ref |-> message.ref, user |-> message.user,
               amount |-> message.amount.n,
               returned |-> ComputeIntentID(message),
               onChain |-> ContractIntentID(message)]}
        /\ SentFor(message)
        /\ Save(Key(message), [code |-> 201, expiresAt |-> ExpiresAt])
        /\ UNCHANGED parked
  /\ UNCHANGED clock

(* Errors of ExecuteMint: a malformed ID is refused before the node is     *)
(* asked; the node's errors may name a revert, say "invalid", or neither.  *)
Errors(m) ==
  IF m.intentId = "malformed" THEN {"invalid"}
                              ELSE {"UserNotCompliant", "invalid", "other"}

IsRetryable(err) == err = "other"

Attempts == IF cfg.maxAttempts <= 0 THEN 1 ELSE cfg.maxAttempts

(* A file name has no separator and no zero byte in it and is not too      *)
(* long.  Otherwise the file may be refused, which is only logged.         *)
Nameable(ref) ==
  Len(ref) <= NameMax /\ \A n \in 1 .. Len(ref) : ref[n] \notin {Slash, Nul}

NoDLQ == UNCHANGED parked

WriteDLQ ==
  \/ parked' = parked \cup {message}
  \/ ~Nameable(message.ref) /\ UNCHANGED parked

GiveUp ==
  /\ Answer(500)
  /\ WriteDLQ
  /\ UNCHANGED <<data, submitted, sends>>

(* One attempt of the loop, and the rest of handleMpesaCallback when it is *)
(* the last.                                                               *)
ExecuteMint ==
  /\ pc = "execute"
  /\ \/ /\ message.intentId # "malformed"
        /\ Answer(200)
        /\ SentFor(message)
        /\ Save(Key(message), [code |-> 200, expiresAt |-> ExpiresAt])
        /\ UNCHANGED <<submitted, parked>>
     \/ \E err \in Errors(message) :
          IF ~IsRetryable(err) \/ i = Attempts
          THEN GiveUp
          ELSE Goto("backoff") /\ UNCHANGED <<data, effects, loop>>
  /\ UNCHANGED clock

Sleep ==
  IF cfg.maxBackoff > 0 /\ backoff > cfg.maxBackoff THEN cfg.maxBackoff
                                                    ELSE backoff

LinearBackoff ==
  IF cfg.multiplier > 1 THEN Duration(backoff + FirstBackoff) ELSE backoff

WideBackoff ==
  IF cfg.multiplier > 1 THEN backoff * cfg.multiplier ELSE backoff

NextBackoff ==
  IF cfg.multiplier > 1 THEN Duration(backoff * cfg.multiplier) ELSE backoff

(* time.After(sleep), at once if sleep is negative; or the client is gone. *)
Backoff ==
  /\ pc = "backoff"
  /\ \/ /\ Goto("execute")
        /\ clock' = clock + (IF Sleep > 0 THEN Sleep ELSE 0)
        /\ slept' = Append(slept, Sleep)
        /\ i' = i + 1
        /\ backoff' = NextBackoff
        /\ UNCHANGED <<data, effects>>
     \/ GiveUp /\ UNCHANGED clock

(* Time passes between and during deliveries.                              *)
Tick ==
  /\ clock < MaxTime
  /\ pc = "verified" => clock < verifiedAt + MaxDelay
  /\ clock' = clock + 1
  /\ UNCHANGED <<cfg, data, pc, message, verifiedAt, loop, effects, answered,
                 deliveries>>

Next ==
  \/ \E m \in Messages : Deliver(m)
  \/ Handle
  \/ SubmitIntent
  \/ ExecuteMint
  \/ Backoff
  \/ Tick

Spec == Init /\ [][Next]_vars

-----------------------------------------------------------------------------
(* Properties.                                                             *)

(* Type invariant of the delivery in progress and of the records: one step *)
(* at a time, no attempt beyond those configured, a sleep before every     *)
(* attempt but the first.                                                  *)
TypeOK ==
  /\ clock \in Nat /\ verifiedAt \in 0 .. clock
  /\ pc \in {"idle", "verified", "submit", "execute", "backoff"}
  /\ IF pc = "idle" THEN message = NoMessage ELSE message \in Messages
  /\ \A k \in DOMAIN data :
       data[k].code \in {200, 201} /\ data[k].expiresAt \in Int
  /\ sends \in [Messages -> Nat]
  /\ parked \subseteq Messages
  /\ i \in 1 .. Attempts /\ Len(slept) = i - 1
  /\ backoff \in -DurationLimit .. DurationLimit - 1

(* The freshness window of the signature check is a replay protection only *)
(* together with the idempotency window (README.md:86, "Check timestamp    *)
(* freshness (reject replays)"; middleware.go:79, store.go:47): if twice   *)
(* the skew, plus the time a delivery may take from the check to the       *)
(* lookup, fits into the window, the node takes one transaction for a      *)
(* signed message however often and whenever it is delivered, one delivery *)
(* after the other.                                                        *)
ReplaysAreAnswered ==
  2 * cfg.clockSkew + MaxDelay <= cfg.window =>
    \A m \in Messages : Secret(m) # "" => sends[m] <= 1

Power(b, n) ==
  LET p[k \in Nat] == IF k = 0 THEN 1 ELSE b * p[k - 1] IN p[n]

Growth == IF cfg.multiplier > 1 THEN cfg.multiplier ELSE 1
Uncapped(attempt) == FirstBackoff * Power(Growth, attempt - 1)
AdrFormula(attempt) ==
  IF cfg.maxBackoff > 0 /\ cfg.maxBackoff < Uncapped(attempt)
  THEN cfg.maxBackoff ELSE Uncapped(attempt)

(* "min(initialBackoff * multiplier^(attempt-1), maxBackoff)"              *)
(* (docs/ADR.md:162): the sleep after every failed attempt, as long as the *)
(* uncapped product fits into a Duration; the loop goes on multiplying     *)
(* what it no longer sleeps.                                               *)
SleepsFollowFormula ==
  \A n \in 1 .. Len(slept) :
    Uncapped(n) < DurationLimit => slept[n] = AdrFormula(n)

(* The ID the client is given is the one the contract derives, whatever    *)
(* the lengths of country and reference, when the payload's user is the    *)
(* signer and the amount is one a uint256 can hold (eth_client.go:188,     *)
(* MintEscrow.sol submitIntent).                                           *)
ReturnedIdIsContracts ==
  \A s \in submitted :
    s.user = Signer /\ s.amount \in 0 .. AmountLimit - 1 =>
      s.returned = s.onChain

Plain(text) == Len(text) \in 1 .. Width /\ text[Len(text)] # Nul

(* Different references of at most 32 bytes that do not end in a zero byte *)
(* stay different on chain, where a reference is consumed once; toBytes32  *)
(* cuts and fills the others (eth_client.go:182).                          *)
ReferencesStayDistinct ==
  \A s, t \in submitted :
    Plain(s.ref) /\ Plain(t.ref) /\ s.ref # t.ref =>
      s.onChain[4] # t.onChain[4]

(* No verified and well-formed callback vanishes, over all its deliveries: *)
(* one answered 200 stands for a transaction that was sent under its key,  *)
(* one answered 500 has a file in the DLQ if its reference can be part of  *)
(* a file name (docs/ADR.md:163, server.go:351).                           *)
ProcessedOrParked ==
  \A m \in Messages : m.kind = "callback" =>
    /\ <<m, 200>> \in answered =>
         \E n \in Messages : Key(n) = Key(m) /\ sends[n] > 0
    /\ <<m, 500>> \in answered /\ Nameable(m.ref) => m \in parked

=============================================================================
