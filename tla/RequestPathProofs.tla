-------------------------- MODULE RequestPathProofs --------------------------
(* Proofs about RequestPath, for every set of messages, every              *)
(* configuration and every bound.  IInv carries the argument about replays *)
(* and PathInv the retry loop and what was sent and answered; an action    *)
(* has one lemma for each.                                                 *)
EXTENDS RequestPath, WellFoundedInduction, TLAPS

(* Most leaves are first-order: Zenon tries them, and the ones that need    *)
(* arithmetic or the theory of functions cite SMT.                         *)
USE Zenon

InProgress == pc \in {"submit", "execute", "backoff"}

Types ==
  /\ cfg.clockSkew \in Int /\ cfg.window \in Int
  /\ cfg.initialBackoff \in Int /\ cfg.maxBackoff \in Int
  /\ cfg.multiplier \in Int
  /\ clock \in Int /\ verifiedAt \in Int /\ backoff \in Int
  /\ pc = "idle" \/ pc = "verified" \/ InProgress
  /\ pc # "idle" => message \in Messages
  /\ sends \in [Messages -> Nat]
  /\ \A k \in DOMAIN data : data[k].expiresAt \in Int

Horizon == 2 * cfg.clockSkew + MaxDelay <= cfg.window

(* The delivery in progress was fresh when it was checked, and has not     *)
(* waited longer than MaxDelay for its lookup.                             *)
DeliveryIsFresh ==
  /\ pc # "idle" => verifiedAt <= clock
  /\ pc = "verified" => clock <= verifiedAt + MaxDelay
  /\ pc # "idle" /\ Secret(message) # "" =>
       Fresh(verifiedAt, message.timestamp.n, cfg.clockSkew)

(* Whoever's record is now under the key of a message that was sent, it    *)
(* lasts a window from the earliest moment the message could be fresh.     *)
RecordOutlives(m) ==
  /\ Unix(m.timestamp.n) - cfg.clockSkew <= clock
  /\ Key(m) \in DOMAIN data
  /\ Unix(m.timestamp.n) - cfg.clockSkew + cfg.window <= data[Key(m)].expiresAt

SentOnce ==
  \A m \in Messages : Secret(m) # "" =>
    /\ sends[m] > 0 => RecordOutlives(m)
    /\ sends[m] <= 1
    /\ InProgress /\ message = m => sends[m] = 0

IInv == Types /\ DeliveryIsFresh /\ (Horizon => SentOnce)

-----------------------------------------------------------------------------
(* Arithmetic.                                                             *)
LEMMA PositiveNat ==
  ASSUME NEW n \in Nat, n # 0 PROVE n > 0
BY SMT

LEMMA StaysBelow ==
  ASSUME NEW u \in Int, NEW skew \in Int, NEW now \in Int, NEW later \in Int,
         now <= later, u - skew <= now
  PROVE  u - skew <= later
BY SMT

(* A message dated u, checked at v and looked up at most delay later, is   *)
(* looked up before e, if e is a window after the earliest moment it was   *)
(* fresh.                                                                  *)
LEMMA LookedUpInTime ==
  ASSUME NEW u \in Int, NEW skew \in Int, NEW window \in Int, NEW delay \in Int,
         NEW v \in Int, NEW now \in Int, NEW e \in Int,
         2 * skew + delay <= window, u - skew + window <= e,
         now <= v + delay, v - u <= skew
  PROVE  ~(now > e)
BY SMT

LEMMA MaxDelayInt == MaxDelay \in Int /\ MaxDelay \in Nat
BY PathAssumption, SMT

LEMMA DurationInt ==
  ASSUME NEW n \in Int PROVE Duration(n) \in Int
BY ConfigAssumption, SMT DEF Duration

LEMMA UnixInt ==
  ASSUME NEW m \in Messages PROVE Unix(m.timestamp.n) \in Int
<1>1. m.timestamp.n \in Int /\ Second \in Int
  BY PathAssumption, ConfigAssumption, SMT
<1> QED BY <1>1, SMT DEF Unix

LEMMA InitEstablishes ==
  ASSUME Init PROVE IInv
<1>1. PICK env \in Envs, seed \in Seeds : cfg = Load(env, seed, Deployments)
  BY DEF Init
<1>2. seed.ok
  BY <1>1 DEF Init, Load, Unreadable
<1>3. cfg.ok /\ Deployments.ok
  BY DEF Init, Deployments
<1>4. Types
  <2>1. EnvOrInt(env.clockSkew, DefaultSkewSecs) \in Int
    BY PathAssumption, ConfigAssumption, SMT DEF EnvOrInt
  <2>2. /\ EnvOrInt(env.clockSkew, DefaultSkewSecs) * Second \in Int
        /\ seed.windowSecs * Second \in Int
        /\ seed.initialBackoffMs * Millisecond \in Int
        /\ seed.maxBackoffMs * Millisecond \in Int
    BY <1>2, <2>1, PathAssumption, ConfigAssumption, SMT
  <2>3. /\ cfg.clockSkew = Duration(EnvOrInt(env.clockSkew, DefaultSkewSecs) * Second)
        /\ cfg.window = Duration(seed.windowSecs * Second)
        /\ cfg.initialBackoff = Duration(seed.initialBackoffMs * Millisecond)
        /\ cfg.maxBackoff = Duration(seed.maxBackoffMs * Millisecond)
        /\ cfg.multiplier = seed.multiplier
    BY <1>1, <1>2, <1>3 DEF Load
  <2>4. /\ cfg.clockSkew \in Int /\ cfg.window \in Int
        /\ cfg.initialBackoff \in Int /\ cfg.maxBackoff \in Int
    BY <2>2, <2>3, DurationInt
  <2>5. cfg.multiplier \in Int
    BY <1>2, <2>3, PathAssumption
  <2> QED BY <2>4, <2>5, SMT DEF Init, Types
<1>5. DeliveryIsFresh
  BY DEF Init, DeliveryIsFresh
<1>6. SentOnce
  <2>1. \A m \in Messages : sends[m] = 0
    BY DEF Init
  <2>2. ~InProgress
    BY DEF Init, InProgress
  <2> SUFFICES ASSUME NEW m \in Messages
               PROVE  /\ sends[m] > 0 => RecordOutlives(m)
                      /\ sends[m] <= 1
                      /\ InProgress /\ message = m => sends[m] = 0
    BY DEF SentOnce
  <2>3. sends[m] = 0
    BY <2>1
  <2>4. ~(sends[m] > 0) /\ sends[m] <= 1
    BY <2>3, SMT
  <2> QED BY <2>2, <2>4, Zenon
<1> QED BY <1>4, <1>5, <1>6 DEF IInv

-----------------------------------------------------------------------------
(* A step that sends nothing and leaves the records alone.                 *)
LEMMA QuietStep ==
  ASSUME IInv, UNCHANGED <<cfg, data, sends>>, clock' \in Int, clock <= clock',
         InProgress' => InProgress /\ message' = message
  PROVE  (Horizon => SentOnce)'
<1> SUFFICES ASSUME Horizon', NEW m \in Messages, Secret(m)' # ""
             PROVE  /\ (sends[m] > 0 => RecordOutlives(m))'
                    /\ (sends[m] <= 1)'
                    /\ (InProgress /\ message = m => sends[m] = 0)'
  BY DEF SentOnce
<1>1. Horizon /\ Secret(m) # "" /\ Key(m)' = Key(m)
  BY DEF Horizon, Secret, Key
<1>2. /\ sends[m] > 0 => RecordOutlives(m)
      /\ sends[m] <= 1
      /\ InProgress /\ message = m => sends[m] = 0
  BY <1>1 DEF IInv, SentOnce
<1>3. RecordOutlives(m) => RecordOutlives(m)'
  <2>1. /\ Unix(m.timestamp.n) \in Int /\ cfg.clockSkew \in Int /\ clock \in Int
    BY UnixInt DEF IInv, Types
  <2>2. cfg' = cfg /\ data' = data
    OBVIOUS
  <2>3. Unix(m.timestamp.n) - cfg.clockSkew <= clock =>
          Unix(m.timestamp.n) - cfg.clockSkew <= clock'
    BY <2>1, StaysBelow, Zenon
  <2> QED BY <1>1, <2>2, <2>3 DEF RecordOutlives
<1>4. sends' = sends
  OBVIOUS
<1> QED BY <1>2, <1>3, <1>4

(* The handler returns without having sent anything.                       *)
LEMMA AnswerStep ==
  ASSUME IInv, NEW code, Answer(code), UNCHANGED <<clock, data, sends>>
  PROVE  IInv'
<1>0. /\ pc' = "idle" /\ cfg' = cfg /\ verifiedAt' = 0 /\ backoff' = 0
      /\ clock' = clock /\ data' = data /\ sends' = sends
  BY DEF Answer
<1>1. Types' /\ DeliveryIsFresh'
  <2>1. Types'
    BY <1>0, SMT DEF IInv, Types
  <2>2. DeliveryIsFresh'
    BY <1>0 DEF DeliveryIsFresh
  <2> QED BY <2>1, <2>2
<1>2. (Horizon => SentOnce)'
  BY QuietStep, SMT DEF Answer, InProgress, IInv, Types
<1> QED BY <1>1, <1>2 DEF IInv

(* A transaction is sent and its record saved.                             *)
LEMMA SendStep ==
  ASSUME IInv, NEW code, NEW stored, Answer(code), UNCHANGED clock, InProgress,
         SentFor(message),
         Save(Key(message), [code |-> stored, expiresAt |-> ExpiresAt])
  PROVE  IInv'
<1>0. message \in Messages /\ cfg' = cfg /\ pc' = "idle"
  BY DEF IInv, Types, Answer, InProgress
<1>1. /\ DOMAIN data' = DOMAIN data \cup {Key(message)}
      /\ data'[Key(message)].expiresAt = clock + cfg.window
      /\ \A k \in DOMAIN data : k # Key(message) => data'[k] = data[k]
  BY DEF Save, ExpiresAt
<1>2. /\ sends' \in [Messages -> Nat]
      /\ sends'[message] = sends[message] + 1
      /\ \A m \in Messages : m # message => sends'[m] = sends[m]
  BY <1>0, SMT DEF SentFor, IInv, Types
<1>3. Types'
  <2>1. \A k \in DOMAIN data' : data'[k].expiresAt \in Int
    BY <1>1, SMT DEF IInv, Types
  <2>2. /\ clock' \in Int /\ verifiedAt' \in Int /\ backoff' \in Int
        /\ pc' = "idle"
    BY SMT DEF IInv, Types, Answer
  <2> QED
    BY <1>0, <1>2, <2>1, <2>2 DEF IInv, Types
<1>4. DeliveryIsFresh'
  BY <1>0 DEF DeliveryIsFresh
<1>5. ASSUME Horizon', NEW m \in Messages, Secret(m)' # ""
      PROVE  /\ (sends[m] > 0 => RecordOutlives(m))'
             /\ (sends[m] <= 1)'
             /\ (InProgress /\ message = m => sends[m] = 0)'
  <2>1. Horizon /\ Secret(m) # "" /\ Key(m)' = Key(m)
    BY <1>0, <1>5 DEF Horizon, Secret, Key
  <2>2. /\ sends[m] > 0 => RecordOutlives(m)
        /\ sends[m] <= 1
        /\ message = m => sends[m] = 0
    BY <2>1 DEF IInv, SentOnce
  <2>3. sends'[m] <= 1
    BY <1>2, <2>2, SMT
  <2>4. ASSUME sends'[m] > 0 PROVE Unix(m.timestamp.n) - cfg.clockSkew <= clock
    <3>1. CASE m = message
      <4>1. /\ verifiedAt <= clock /\ verifiedAt \in Int /\ clock \in Int
            /\ cfg.clockSkew \in Int /\ Unix(m.timestamp.n) \in Int
        BY UnixInt DEF IInv, Types, DeliveryIsFresh, InProgress
      <4>2. Unix(m.timestamp.n) - verifiedAt <= cfg.clockSkew
        BY <2>1, <3>1 DEF IInv, DeliveryIsFresh, InProgress, Fresh
      <4> QED BY <4>1, <4>2, SMT
    <3>2. CASE m # message
      BY <1>2, <2>2, <2>4, <3>2 DEF RecordOutlives
    <3> QED BY <3>1, <3>2
  <2>5. sends'[m] > 0 => RecordOutlives(m)'
    <3> SUFFICES ASSUME sends'[m] > 0 PROVE RecordOutlives(m)'
      OBVIOUS
    <3>1. Unix(m.timestamp.n) - cfg.clockSkew <= clock
      BY <2>4
    <3>2. CASE Key(m) = Key(message)
      <4>1. /\ Unix(m.timestamp.n) \in Int /\ cfg.clockSkew \in Int
            /\ cfg.window \in Int /\ clock \in Int
        BY UnixInt DEF IInv, Types
      <4>2. Unix(m.timestamp.n) - cfg.clockSkew + cfg.window <= clock + cfg.window
        BY <3>1, <4>1, SMT
      <4>3. /\ Key(m)' \in DOMAIN data'
            /\ data'[Key(m)'].expiresAt = clock + cfg.window
        BY <1>1, <2>1, <3>2
      <4> QED BY <1>0, <3>1, <4>2, <4>3 DEF RecordOutlives
    <3>3. CASE Key(m) # Key(message)
      BY <1>0, <1>1, <1>2, <2>1, <2>2, <3>1, <3>3 DEF RecordOutlives
    <3> QED BY <3>2, <3>3
  <2> QED BY <1>0, <2>3, <2>5 DEF InProgress
<1> QED BY <1>3, <1>4, <1>5 DEF IInv, SentOnce

LEMMA DeliverStep ==
  ASSUME IInv, NEW m \in Messages, Deliver(m)
  PROVE  IInv'
<1>0. /\ cfg' = cfg /\ clock' = clock /\ data' = data /\ sends' = sends
      /\ backoff' = backoff /\ pc = "idle"
  BY DEF Deliver, loop, effects
<1>1. CASE Verify(m, clock, Secret(m), cfg.clockSkew)
  <2>1. pc' = "verified" /\ message' = m /\ verifiedAt' = clock
    BY <1>1 DEF Deliver
  <2>2. Types'
    BY <1>0, <2>1 DEF IInv, Types
  <2>3. Secret(m) # "" => Fresh(clock, m.timestamp.n, cfg.clockSkew)
    BY <1>1 DEF Verify
  <2>4. Secret(m)' = Secret(m)
    BY <1>0 DEF Secret
  <2>5. clock \in Int /\ MaxDelay \in Nat
    BY PathAssumption DEF IInv, Types
  <2>6. DeliveryIsFresh'
    <3>1. (Secret(message) # "")' => Fresh(clock, m.timestamp.n, cfg.clockSkew)
      BY <2>1, <2>3, <2>4 DEF Secret
    <3>2. (Secret(message) # "" =>
             Fresh(verifiedAt, message.timestamp.n, cfg.clockSkew))'
      BY <1>0, <2>1, <3>1 DEF Fresh
    <3>3. verifiedAt' <= clock' /\ clock' <= verifiedAt' + MaxDelay
      BY <1>0, <2>1, <2>5, SMT
    <3> QED BY <3>2, <3>3 DEF DeliveryIsFresh
  <2>7. (Horizon => SentOnce)'
    BY <1>0, <2>1, <2>5, QuietStep, SMT DEF InProgress
  <2> QED BY <2>2, <2>6, <2>7 DEF IInv
<1>2. CASE ~Verify(m, clock, Secret(m), cfg.clockSkew)
  <2>1. pc' = pc /\ message' = message /\ verifiedAt' = verifiedAt
    BY <1>2 DEF Deliver
  <2>2. Types' /\ DeliveryIsFresh'
    BY <1>0, <2>1 DEF IInv, Types, DeliveryIsFresh, InProgress
  <2>3. (Horizon => SentOnce)'
    BY <1>0, <2>1, QuietStep, SMT DEF InProgress, IInv, Types
  <2> QED BY <2>2, <2>3 DEF IInv
<1> QED BY <1>1, <1>2

(* A delivery that finds no record was not sent before.                    *)
LEMMA MissWasNotSent ==
  ASSUME IInv, Horizon, pc = "verified", NEW m \in Messages, message = m,
         ~Get(Key(m)), Secret(m) # ""
  PROVE  sends[m] = 0
<1> SUFFICES ASSUME sends[m] # 0 PROVE FALSE
  OBVIOUS
<1>1. sends[m] > 0
  <2>1. sends[m] \in Nat
    BY DEF IInv, Types
  <2> QED BY <2>1, PositiveNat, Zenon
<1>2. RecordOutlives(m)
  BY <1>1 DEF IInv, SentOnce
<1>3. /\ Unix(m.timestamp.n) \in Int /\ cfg.clockSkew \in Int
      /\ cfg.window \in Int /\ clock \in Int /\ verifiedAt \in Int
      /\ MaxDelay \in Int
  <2>1. Unix(m.timestamp.n) \in Int
    BY UnixInt
  <2>2. MaxDelay \in Int
    BY MaxDelayInt, Zenon
  <2> QED BY <2>1, <2>2, Zenon DEF IInv, Types
<1>4. /\ Key(m) \in DOMAIN data
      /\ data[Key(m)].expiresAt \in Int
      /\ Unix(m.timestamp.n) - cfg.clockSkew + cfg.window
           <= data[Key(m)].expiresAt
  BY <1>2 DEF IInv, Types, RecordOutlives
<1>5. /\ clock <= verifiedAt + MaxDelay
      /\ verifiedAt - Unix(m.timestamp.n) <= cfg.clockSkew
  BY DEF IInv, DeliveryIsFresh, Fresh
<1>6. ~(clock > data[Key(m)].expiresAt)
  BY <1>3, <1>4, <1>5, LookedUpInTime, Zenon DEF Horizon
<1> QED BY <1>4, <1>6 DEF Get, Expired

LEMMA FirstBackoffInt ==
  ASSUME Types PROVE FirstBackoff \in Int
BY PathAssumption, SMT DEF Types, FirstBackoff

LEMMA HandleStep ==
  ASSUME IInv, Handle
  PROVE  IInv'
<1>0. /\ pc = "verified" /\ clock' = clock /\ data' = data /\ sends' = sends
  BY DEF Handle, effects
<1>1. ASSUME NEW code, Answer(code) PROVE IInv'
  BY <1>0, <1>1, AnswerStep
<1>2. ASSUME ~Get(Key(message)), NEW step \in {"submit", "execute"}, Goto(step),
             backoff' = FirstBackoff
      PROVE  IInv'
  <2>1. PICK m \in Messages : message = m
    BY <1>0 DEF IInv, Types
  <2>2. /\ cfg' = cfg /\ message' = m /\ message = m /\ verifiedAt' = verifiedAt
        /\ pc' \in {"submit", "execute"}
    BY <1>2, <2>1 DEF Goto
  <2>3. FirstBackoff \in Int
    BY FirstBackoffInt DEF IInv
  <2>4. Types'
    BY <1>0, <1>2, <2>1, <2>2, <2>3 DEF IInv, Types, InProgress
  <2>5. DeliveryIsFresh'
    <3>1. /\ pc # "idle" /\ pc' # "idle" /\ pc' # "verified"
      BY <1>0, <2>2
    <3>2. Secret(message)' = Secret(message)
      BY <2>2 DEF Secret
    <3> QED BY <1>0, <2>2, <3>1, <3>2 DEF IInv, DeliveryIsFresh
  <2>6. ASSUME Horizon', NEW n \in Messages, Secret(n)' # ""
        PROVE  /\ (sends[n] > 0 => RecordOutlives(n))'
               /\ (sends[n] <= 1)'
               /\ (InProgress /\ message = n => sends[n] = 0)'
    <3>1. Horizon /\ Secret(n) # "" /\ Key(n)' = Key(n)
      BY <2>2, <2>6 DEF Horizon, Secret, Key
    <3>2. (sends[n] > 0 => RecordOutlives(n)) /\ sends[n] <= 1
      BY <3>1 DEF IInv, SentOnce
    <3>3. RecordOutlives(n)' <=> RecordOutlives(n)
      BY <1>0, <2>2, <3>1 DEF RecordOutlives
    <3>4. message = n => sends[n] = 0
      BY <1>0, <1>2, <3>1, MissWasNotSent
    <3> QED BY <1>0, <2>1, <2>2, <3>2, <3>3, <3>4
  <2> QED BY <2>4, <2>5, <2>6 DEF IInv, SentOnce
<1> QED
  <2> DEFINE refusal == IF message.post THEN 400 ELSE 405
             step == IF message.kind = "mint" THEN "submit" ELSE "execute"
  <2>1. \/ Answer(401) \/ Answer(refusal) \/ Answer(data[Key(message)].code)
        \/ Answer(400)
        \/ ~Get(Key(message)) /\ Goto(step) /\ backoff' = FirstBackoff
    BY DEF Handle
  <2>2. step \in {"submit", "execute"}
    OBVIOUS
  <2> HIDE DEF refusal, step
  <2> QED BY <1>1, <1>2, <2>1, <2>2

LEMMA GiveUpStep ==
  ASSUME IInv, GiveUp, clock' = clock
  PROVE  IInv'
BY AnswerStep DEF GiveUp

LEMMA SubmitStep ==
  ASSUME IInv, SubmitIntent
  PROVE  IInv'
<1>1. pc = "submit" /\ clock' = clock /\ InProgress
  BY DEF SubmitIntent, InProgress
<1>2. CASE Answer(502) /\ UNCHANGED <<data, effects>>
  BY <1>1, <1>2, AnswerStep DEF effects
<1>3. CASE /\ Answer(201) /\ SentFor(message)
           /\ Save(Key(message), [code |-> 201, expiresAt |-> ExpiresAt])
  BY <1>1, <1>3, SendStep
<1> QED BY <1>2, <1>3 DEF SubmitIntent

(* A step of the retry loop that stays in it.                              *)
LEMMA LoopStep ==
  ASSUME IInv, InProgress, InProgress', clock' \in Int, clock <= clock',
         backoff' \in Int, NEW step, Goto(step), UNCHANGED <<data, effects>>
  PROVE  IInv'
<1>1. /\ cfg' = cfg /\ message' = message /\ verifiedAt' = verifiedAt
      /\ data' = data /\ sends' = sends
  BY DEF Goto, effects
<1>2. pc # "idle" /\ pc' # "idle" /\ pc' # "verified"
  BY DEF InProgress
<1>3. Types'
  BY <1>1, <1>2 DEF IInv, Types
<1>4. DeliveryIsFresh'
  <2>1. Secret(message)' = Secret(message)
    BY <1>1 DEF Secret
  <2>2. verifiedAt <= clock /\ verifiedAt \in Int /\ clock \in Int
    BY <1>2 DEF IInv, DeliveryIsFresh, Types
  <2>3. verifiedAt' <= clock'
    BY <1>1, <2>2, SMT
  <2> QED BY <1>1, <1>2, <2>1, <2>3 DEF IInv, DeliveryIsFresh
<1>5. (Horizon => SentOnce)'
  BY <1>1, QuietStep
<1> QED BY <1>3, <1>4, <1>5 DEF IInv

LEMMA ExecuteStep ==
  ASSUME IInv, ExecuteMint
  PROVE  IInv'
<1>1. pc = "execute" /\ clock' = clock /\ InProgress /\ clock \in Int /\ backoff \in Int
  BY DEF ExecuteMint, InProgress, IInv, Types
<1>2. CASE /\ Answer(200) /\ SentFor(message)
           /\ Save(Key(message), [code |-> 200, expiresAt |-> ExpiresAt])
  BY <1>1, <1>2, SendStep
<1>3. CASE GiveUp
  BY <1>1, <1>3, GiveUpStep
<1>4. CASE Goto("backoff") /\ UNCHANGED <<data, effects, loop>>
  <2>1. InProgress' /\ backoff' = backoff
    BY <1>4 DEF Goto, InProgress, loop
  <2>2. clock <= clock' /\ clock' \in Int /\ backoff' \in Int
    BY <1>1, <2>1, SMT
  <2> QED BY <1>1, <1>4, <2>1, <2>2, LoopStep
<1> QED BY <1>2, <1>3, <1>4 DEF ExecuteMint

LEMMA BackoffStep ==
  ASSUME IInv, Backoff
  PROVE  IInv'
<1>1. pc = "backoff" /\ InProgress
  BY DEF Backoff, InProgress
<1>2. CASE GiveUp /\ UNCHANGED clock
  BY <1>2, GiveUpStep
<1>3. CASE /\ Goto("execute") /\ UNCHANGED <<data, effects>>
           /\ clock' = clock + (IF Sleep > 0 THEN Sleep ELSE 0)
           /\ backoff' = NextBackoff
  <2>1. Sleep \in Int
    BY DEF Sleep, IInv, Types
  <2>2. backoff * cfg.multiplier \in Int
    BY SMT DEF IInv, Types
  <2>3. NextBackoff \in Int
    BY <2>2, DurationInt DEF NextBackoff, IInv, Types
  <2>4. clock' \in Int /\ clock <= clock'
    BY <1>3, <2>1, SMT DEF IInv, Types
  <2>5. InProgress'
    BY <1>3 DEF Goto, InProgress
  <2> QED BY <1>1, <1>3, <2>3, <2>4, <2>5, LoopStep
<1> QED BY <1>2, <1>3 DEF Backoff

LEMMA TickStep ==
  ASSUME IInv, Tick
  PROVE  IInv'
<1>1. /\ cfg' = cfg /\ data' = data /\ pc' = pc /\ message' = message
      /\ verifiedAt' = verifiedAt /\ backoff' = backoff /\ sends' = sends
      /\ clock' = clock + 1
  BY DEF Tick, loop, effects
<1>2. clock \in Int /\ verifiedAt \in Int /\ MaxDelay \in Int
  BY MaxDelayInt DEF IInv, Types
<1>3. Types'
  BY <1>1, <1>2, SMT DEF IInv, Types, InProgress
<1>4. DeliveryIsFresh'
  <2>1. Secret(message)' = Secret(message)
    BY <1>1 DEF Secret
  <2>2. pc = "verified" => clock' <= verifiedAt' + MaxDelay
    BY <1>1, <1>2, SMT DEF Tick
  <2>3. pc # "idle" => verifiedAt' <= clock'
    <3>1. pc # "idle" => verifiedAt <= clock
      BY Zenon DEF IInv, DeliveryIsFresh
    <3> QED BY <1>1, <1>2, <3>1, SMT
  <2> QED BY <1>1, <2>1, <2>2, <2>3 DEF IInv, DeliveryIsFresh
<1>5. (Horizon => SentOnce)'
  <2>1. clock' \in Int /\ clock <= clock'
    BY <1>1, <1>2, SMT
  <2>2. InProgress' => InProgress /\ message' = message
    BY <1>1 DEF InProgress
  <2> QED BY <1>1, <2>1, <2>2, QuietStep
<1> QED BY <1>3, <1>4, <1>5 DEF IInv

LEMMA StutterStep ==
  ASSUME IInv, UNCHANGED vars
  PROVE  IInv'
BY DEF vars, loop, effects, IInv, Types, InProgress, DeliveryIsFresh, Secret,
       Fresh, Horizon, SentOnce, RecordOutlives, Key

LEMMA IInvKept == IInv /\ [Next]_vars => IInv'
BY DeliverStep, HandleStep, SubmitStep, ExecuteStep, BackoffStep, TickStep,
   StutterStep DEF Next

(* If twice the clock skew, and the time a delivery may take from the      *)
(* freshness check to the lookup, fit into the idempotency window, then a  *)
(* signed message has at most one transaction taken however often it is    *)
(* delivered (middleware.go:79, server.go:171, store.go:47).               *)
THEOREM SignedOnceSentOnce == Spec => []ReplaysAreAnswered
<1>1. Init => IInv
  BY InitEstablishes
<1>2. IInv => ReplaysAreAnswered
  BY DEF IInv, Horizon, SentOnce, ReplaysAreAnswered
<1> QED BY <1>1, <1>2, IInvKept, PTL DEF Spec

-----------------------------------------------------------------------------
(* The powers in the backoff formula.                                      *)

(* Induction over the naturals, as the existence of a smallest number      *)
(* among those that lack a property.                                       *)
LEMMA SmallestNat ==
  ASSUME NEW T, T \subseteq Nat, T # {}
  PROVE  \E n \in T : \A m \in T : ~(m < n)
<1>1. IsWellFoundedOn(OpToRel(<, Nat), Nat)
  BY NatLessThanWellFounded
<1>2. \E n \in T : \A m \in T : ~ (<<m, n>> \in OpToRel(<, Nat))
  BY <1>1, WFMin
<1> QED
  BY <1>2 DEF OpToRel

(* G holds the powers of b up to n.                                        *)
PowersTo(G, b, n) ==
  G = [k \in 0 .. n |-> IF k = 0 THEN 1 ELSE b * G[k - 1]]

LEMMA PowersExist ==
  ASSUME NEW b, NEW n \in Nat
  PROVE  \E G : PowersTo(G, b, n)
<1> DEFINE T == {m \in Nat : ~ \E G : PowersTo(G, b, m)}
<1> SUFFICES ASSUME n \in T PROVE FALSE
  OBVIOUS
<1>1. PICK m \in T : \A l \in T : ~(l < m)
  <2>1. T \subseteq Nat /\ T # {}
    OBVIOUS
  <2> HIDE DEF T
  <2> QED
    BY <2>1, SmallestNat
<1>2. m # 0
  <2> DEFINE G == [k \in 0 .. 0 |-> 1]
  <2>1. G = [k \in 0 .. 0 |-> IF k = 0 THEN 1 ELSE b * G[k - 1]]
    BY SMT
  <2> QED
    BY <2>1 DEF PowersTo
<1>3. m - 1 \in Nat /\ m - 1 < m
  BY <1>2, SMT
<1>4. PICK G : PowersTo(G, b, m - 1)
  BY <1>1, <1>3
<1> DEFINE H == [k \in 0 .. m |-> IF k = m THEN b * G[m - 1] ELSE G[k]]
<1>5. ASSUME NEW k \in 0 .. m
      PROVE  H[k] = IF k = 0 THEN 1 ELSE b * H[k - 1]
  <2>1. \A j \in 0 .. m - 1 : G[j] = IF j = 0 THEN 1 ELSE b * G[j - 1]
    BY <1>4 DEF PowersTo
  <2>2. CASE k = m
    BY <1>3, <2>2, SMT
  <2>3. CASE k # m
    BY <1>3, <2>1, <2>3, SMT
  <2> QED
    BY <2>2, <2>3
<1>6. PowersTo(H, b, m)
  <2>1. H = [k \in 0 .. m |-> H[k]]
    OBVIOUS
  <2> HIDE DEF H
  <2> QED
    BY <1>5, <2>1 DEF PowersTo
<1> QED
  BY <1>1, <1>6

LEMMA PowersAgree ==
  ASSUME NEW b, NEW n \in Nat, NEW m \in Nat, NEW G, NEW H,
         PowersTo(G, b, n), PowersTo(H, b, m), NEW k \in Nat, k <= n, k <= m
  PROVE  G[k] = H[k]
<1> DEFINE T == {j \in Nat : j <= n /\ j <= m /\ G[j] # H[j]}
<1> SUFFICES ASSUME k \in T PROVE FALSE
  OBVIOUS
<1>1. PICK j \in T : \A l \in T : ~(l < j)
  <2>1. T \subseteq Nat /\ T # {}
    OBVIOUS
  <2> HIDE DEF T
  <2> QED
    BY <2>1, SmallestNat
<1>2. /\ G[j] = IF j = 0 THEN 1 ELSE b * G[j - 1]
      /\ H[j] = IF j = 0 THEN 1 ELSE b * H[j - 1]
  BY SMT DEF PowersTo
<1>3. j # 0
  BY <1>1, <1>2
<1>4. G[j - 1] = H[j - 1]
  BY <1>1, <1>3, SMT
<1> QED
  BY <1>1, <1>2, <1>3, <1>4

(* What the recursive definition of Power computes.                        *)
LEMMA PowerUnfolds ==
  ASSUME NEW b, NEW n \in Nat
  PROVE  Power(b, n) = IF n = 0 THEN 1 ELSE b * Power(b, n - 1)
<1> DEFINE Rec(F) == F = [k \in Nat |-> IF k = 0 THEN 1 ELSE b * F[k - 1]]
           Of(m) == CHOOSE G : PowersTo(G, b, m)
           F == [m \in Nat |-> Of(m)[m]]
<1>1. ASSUME NEW m \in Nat PROVE PowersTo(Of(m), b, m)
  BY PowersExist
<1>2. ASSUME NEW m \in Nat PROVE F[m] = IF m = 0 THEN 1 ELSE b * F[m - 1]
  <2>1. Of(m)[m] = IF m = 0 THEN 1 ELSE b * Of(m)[m - 1]
    <3>1. PowersTo(Of(m), b, m) /\ m \in 0 .. m
      BY <1>1, SMT
    <3> HIDE DEF Of, F
    <3> QED
      BY <3>1 DEF PowersTo
  <2>2. CASE m = 0
    BY <2>1, <2>2
  <2>3. CASE m # 0
    <3>1. m - 1 \in Nat /\ m - 1 <= m
      BY <2>3, SMT
    <3>2. PowersTo(Of(m), b, m) /\ PowersTo(Of(m - 1), b, m - 1)
      BY <1>1, <3>1
    <3> HIDE DEF Of
    <3>3. Of(m)[m - 1] = Of(m - 1)[m - 1]
      BY <3>1, <3>2, PowersAgree, SMT
    <3> QED
      BY <2>1, <2>3, <3>1, <3>3
  <2> QED
    BY <2>2, <2>3
<1>3. Rec(F)
  <2>1. F = [m \in Nat |-> F[m]]
    BY SMT
  <2> HIDE DEF F
  <2> QED
    BY <1>2, <2>1
<1> DEFINE P == CHOOSE G : Rec(G)
<1>4. Rec(P)
  <2> HIDE DEF Rec, F
  <2> QED
    BY <1>3
<1>5. \A m : Power(b, m) = P[m]
  BY DEF Power
<1> HIDE DEF P
<1>6. P[n] = IF n = 0 THEN 1 ELSE b * P[n - 1]
  BY <1>4
<1> QED
  BY <1>5, <1>6

LEMMA PowerPositive ==
  ASSUME NEW b \in Nat \ {0}, NEW n \in Nat
  PROVE  Power(b, n) \in Nat \ {0}
<1> DEFINE T == {m \in Nat : Power(b, m) \notin Nat \ {0}}
<1> SUFFICES ASSUME n \in T PROVE FALSE
  OBVIOUS
<1>1. PICK m \in T : \A l \in T : ~(l < m)
  <2>1. T \subseteq Nat /\ T # {}
    OBVIOUS
  <2> HIDE DEF T
  <2> QED
    BY <2>1, SmallestNat
<1>2. Power(b, m) = IF m = 0 THEN 1 ELSE b * Power(b, m - 1)
  BY PowerUnfolds
<1>3. m # 0
  BY <1>1, <1>2, SMT
<1>4. Power(b, m - 1) \in Nat \ {0}
  BY <1>1, <1>3, SMT
<1>5. \A x, y \in Nat \ {0} : x * y \in Nat \ {0}
  BY SMT
<1> QED
  BY <1>1, <1>2, <1>3, <1>4, <1>5

-----------------------------------------------------------------------------
(* The retry loop, and what was sent and answered.                         *)

(* The two halves of TypeOK.                                               *)
DeliveryTypes ==
  /\ clock \in Nat /\ verifiedAt \in 0 .. clock
  /\ pc \in {"idle", "verified", "submit", "execute", "backoff"}
  /\ IF pc = "idle" THEN message = NoMessage ELSE message \in Messages
  /\ i \in 1 .. Attempts /\ Len(slept) = i - 1
  /\ backoff \in -DurationLimit .. DurationLimit - 1

RecordTypes ==
  /\ \A k \in DOMAIN data :
       data[k].code \in {200, 201} /\ data[k].expiresAt \in Int
  /\ sends \in [Messages -> Nat]
  /\ parked \subseteq Messages

ConfigFits ==
  /\ cfg.maxAttempts \in Int
  /\ FirstBackoff \in 1 .. DurationLimit - 1

(* While the uncapped backoff fits into a Duration, it is what the loop    *)
(* holds, and so every sleep so far was the one of the formula.            *)
LoopInv ==
  /\ slept \in Seq(Int)
  /\ pc = "backoff" => i < Attempts
  /\ InProgress /\ Uncapped(i) < DurationLimit => backoff = Uncapped(i)
  /\ SleepsFollowFormula

SubmittedFor(s, m) ==
  /\ s.ref = m.ref /\ s.user = m.user /\ s.amount = m.amount.n
  /\ s.returned = ComputeIntentID(m) /\ s.onChain = ContractIntentID(m)

(* What was submitted came from a message, and a record is there only      *)
(* after a transaction under its key.                                      *)
SentInv ==
  /\ \A s \in submitted : \E m \in Messages : SubmittedFor(s, m)
  /\ \A k \in DOMAIN data : \E m \in Messages : Key(m) = k /\ sends[m] > 0
  /\ ProcessedOrParked

PathInv == DeliveryTypes /\ RecordTypes /\ ConfigFits /\ LoopInv /\ SentInv

(* A Duration stays in its range, and is the number itself if that is in   *)
(* it.                                                                     *)
LEMMA DurationFits ==
  ASSUME NEW n \in Int
  PROVE  /\ Duration(n) \in -DurationLimit .. DurationLimit - 1
         /\ n \in -DurationLimit .. DurationLimit - 1 => Duration(n) = n
<1> DEFINE L == DurationLimit
<1>1. L \in Nat \ {0}
  BY ConfigAssumption
<1> HIDE DEF L
<1>2. 2 * L \in Nat \ {0} /\ n + L \in Int
  BY <1>1, SMT
<1>3. (n + L) % (2 * L) \in 0 .. 2 * L - 1
  BY <1>2, SMT
<1>4. ASSUME NEW k \in Int, NEW d \in Nat \ {0}, k \in 0 .. d - 1 PROVE k % d = k
  BY <1>4, SMT
<1>5. /\ ((n + L) % (2 * L)) - L \in -L .. L - 1
      /\ n \in -L .. L - 1 => ((n + L) % (2 * L)) - L = n
  BY <1>1, <1>2, <1>3, <1>4, SMT
<1> QED
  BY <1>5 DEF L, Duration

(* The uncapped backoffs are positive and grow by the multiplier.          *)
LEMMA UncappedGrows ==
  ASSUME Types, ConfigFits, NEW n \in Nat \ {0}
  PROVE  /\ Growth \in Nat \ {0}
         /\ Uncapped(1) = FirstBackoff
         /\ Uncapped(n) \in Nat \ {0}
         /\ Uncapped(n + 1) = Uncapped(n) * Growth
         /\ Uncapped(n) <= Uncapped(n + 1)
<1> DEFINE f == FirstBackoff
           g == Growth
           p == Power(g, n - 1)
<1>1. f \in Nat \ {0} /\ g \in Nat \ {0}
  BY ConfigAssumption, SMT DEF ConfigFits, Types, Growth
<1> HIDE DEF f, g
<1>2. p \in Nat \ {0} /\ Power(g, n) = g * p
  BY <1>1, PowerUnfolds, PowerPositive, SMT
<1>3. Power(g, 0) = 1
  BY PowerUnfolds
<1>4. /\ Uncapped(1) = f * 1 /\ Uncapped(n) = f * p /\ Uncapped(n + 1) = f * (g * p)
  <2>1. 1 - 1 = 0 /\ (n + 1) - 1 = n
    BY SMT
  <2> QED
    BY <1>2, <1>3, <2>1 DEF Uncapped, f, g
<1> HIDE DEF p
<1>5. \A x, y, z \in Nat \ {0} :
        /\ x * y \in Nat \ {0}
        /\ x * (y * z) = (x * z) * y
        /\ x <= x * y
        /\ x * 1 = x
  BY SMT
<1>6. f * p \in Nat \ {0} /\ f * (g * p) = (f * p) * g /\ f * p <= (f * p) * g
  BY <1>1, <1>2, <1>5, SMT
<1> QED
  BY <1>1, <1>4, <1>5, <1>6, SMT DEF f, g

(* No step changes the configuration.                                      *)
LEMMA ConfigKept ==
  ASSUME cfg' = cfg
  PROVE  /\ ConfigFits => ConfigFits'
         /\ Attempts' = Attempts /\ FirstBackoff' = FirstBackoff
         /\ \A n : Uncapped(n)' = Uncapped(n) /\ AdrFormula(n)' = AdrFormula(n)
<1>1. FirstBackoff' = FirstBackoff /\ Growth' = Growth /\ Attempts' = Attempts
  BY DEF FirstBackoff, Growth, Attempts
<1>2. \A n : Uncapped(n)' = Uncapped(n)
  BY <1>1 DEF Uncapped
<1>3. \A n : AdrFormula(n)' = AdrFormula(n)
  BY <1>2 DEF AdrFormula
<1> QED
  BY <1>1, <1>2, <1>3 DEF ConfigFits

LEMMA SleepsKept ==
  ASSUME cfg' = cfg, slept' = slept, SleepsFollowFormula
  PROVE  SleepsFollowFormula'
<1>1. \A n : Uncapped(n)' = Uncapped(n) /\ AdrFormula(n)' = AdrFormula(n)
  BY ConfigKept
<1> QED
  BY <1>1 DEF SleepsFollowFormula

LEMMA AttemptsPositive ==
  ASSUME ConfigFits PROVE Attempts \in Nat \ {0}
BY SMT DEF ConfigFits, Attempts

(* The handler returns: the loop's variables are gone.                     *)
LEMMA AnswerLoop ==
  ASSUME ConfigFits, NEW code, Answer(code)
  PROVE  /\ LoopInv'
         /\ i' \in 1 .. Attempts' /\ Len(slept') = i' - 1
         /\ backoff' \in -DurationLimit .. DurationLimit - 1
         /\ pc' = "idle" /\ message' = NoMessage /\ verifiedAt' = 0
<1>1. /\ pc' = "idle" /\ message' = NoMessage /\ verifiedAt' = 0
      /\ i' = 1 /\ backoff' = 0 /\ slept' = << >> /\ cfg' = cfg
  BY DEF Answer
<1>2. Attempts' \in Nat \ {0}
  BY <1>1, AttemptsPositive, ConfigKept
<1>3. Len(slept') = 0 /\ slept' \in Seq(Int)
  BY <1>1, SMT
<1>4. LoopInv'
  BY <1>1, <1>3, SMT DEF LoopInv, InProgress, SleepsFollowFormula
<1> QED
  BY <1>1, <1>2, <1>3, <1>4, ConfigAssumption, SMT

LEMMA AnswerPath ==
  ASSUME PathInv, NEW code, Answer(code), clock' = clock, SentInv', RecordTypes'
  PROVE  PathInv'
<1>1. /\ LoopInv'
      /\ i' \in 1 .. Attempts' /\ Len(slept') = i' - 1
      /\ backoff' \in -DurationLimit .. DurationLimit - 1
      /\ pc' = "idle" /\ message' = NoMessage /\ verifiedAt' = 0
  BY AnswerLoop DEF PathInv
<1>2. ConfigFits'
  BY ConfigKept DEF PathInv, Answer
<1>3. clock' \in Nat /\ 0 \in 0 .. clock'
  BY SMT DEF PathInv, DeliveryTypes
<1>4. DeliveryTypes'
  BY <1>1, <1>3 DEF DeliveryTypes
<1> QED
  BY <1>1, <1>2, <1>4 DEF PathInv

(* The parts of SentInv depend on the state only by its variables.         *)
LEMMA SentPrimed ==
  ASSUME \A s \in submitted' : \E m \in Messages : SubmittedFor(s, m),
         \A k \in DOMAIN data' : \E m \in Messages : Key(m) = k /\ sends'[m] > 0,
         ProcessedOrParked'
  PROVE  SentInv'
<1>1. \A m \in Messages : Key(m)' = Key(m)
  BY DEF Key
<1>2. \A s, m : SubmittedFor(s, m)' <=> SubmittedFor(s, m)
  BY DEF SubmittedFor, ComputeIntentID, ContractIntentID
<1>3. (\A s \in submitted : \E m \in Messages : SubmittedFor(s, m))'
  BY <1>2
<1>4. (\A k \in DOMAIN data : \E m \in Messages : Key(m) = k /\ sends[m] > 0)'
  BY <1>1
<1> QED
  BY <1>3, <1>4 DEF SentInv

(* A delivery n that sends nothing gets its answer.                        *)
LEMMA QuietHistory ==
  ASSUME SentInv, UNCHANGED <<submitted, data, sends>>, parked \subseteq parked',
         NEW n, NEW code, answered' \subseteq answered \cup {<<n, code>>},
         code = 200 => Key(n) \in DOMAIN data,
         code = 500 /\ Nameable(n.ref) => n \in parked'
  PROVE  SentInv'
<1>1. submitted' = submitted /\ data' = data /\ sends' = sends
  OBVIOUS
<1>2. ProcessedOrParked'
  <2> SUFFICES ASSUME NEW m \in Messages, m.kind = "callback"
               PROVE  /\ <<m, 200>> \in answered' =>
                           \E l \in Messages : Key(l) = Key(m) /\ sends[l] > 0
                      /\ <<m, 500>> \in answered' /\ Nameable(m.ref) => m \in parked'
    BY <1>1 DEF ProcessedOrParked, Key
  <2>1. /\ <<m, 200>> \in answered =>
             \E l \in Messages : Key(l) = Key(m) /\ sends[l] > 0
        /\ <<m, 500>> \in answered /\ Nameable(m.ref) => m \in parked
    BY DEF SentInv, ProcessedOrParked
  <2>2. ASSUME Key(m) \in DOMAIN data
        PROVE  \E l \in Messages : Key(l) = Key(m) /\ sends[l] > 0
    BY <2>2 DEF SentInv
  <2>3. \A c : <<m, c>> \in answered' => <<m, c>> \in answered \/ (m = n /\ c = code)
    OBVIOUS
  <2> QED
    BY <2>1, <2>2, <2>3, SMT
<1>3. \A k \in DOMAIN data' : \E m \in Messages : Key(m) = k /\ sends'[m] > 0
  BY <1>1 DEF SentInv
<1>4. \A s \in submitted' : \E m \in Messages : SubmittedFor(s, m)
  BY <1>1 DEF SentInv
<1> QED
  BY <1>2, <1>3, <1>4, SentPrimed

(* A transaction is sent for the message in progress, and its record saved.*)
LEMMA SendPath ==
  ASSUME IInv, PathInv, NEW code \in {200, 201}, Answer(code), UNCHANGED clock,
         InProgress, SentFor(message),
         Save(Key(message), [code |-> code, expiresAt |-> ExpiresAt]),
         UNCHANGED parked,
         submitted \subseteq submitted',
         \A s \in submitted' \ submitted : SubmittedFor(s, message)
  PROVE  PathInv'
<1>1. PICK n \in Messages : message = n
  BY DEF IInv, Types, InProgress
<1>2. /\ DOMAIN data' = DOMAIN data \cup {Key(n)}
      /\ data'[Key(n)] = [code |-> code, expiresAt |-> ExpiresAt]
      /\ \A k \in DOMAIN data : k # Key(n) => data'[k] = data[k]
  BY <1>1 DEF Save
<1>3. /\ sends' \in [Messages -> Nat] /\ sends'[n] > 0
      /\ \A m \in Messages : sends[m] > 0 => sends'[m] > 0
  <2>1. sends \in [Messages -> Nat]
    BY DEF PathInv, RecordTypes
  <2>2. sends' = [sends EXCEPT ![n] = @ + 1]
    BY <1>1 DEF SentFor
  <2> QED
    BY <2>1, <2>2, SMT
<1>4. RecordTypes'
  <2>1. ExpiresAt \in Int
    BY SMT DEF ExpiresAt, IInv, Types
  <2>2. \A k \in DOMAIN data' :
          data'[k].code \in {200, 201} /\ data'[k].expiresAt \in Int
    <3> SUFFICES ASSUME NEW k \in DOMAIN data'
                 PROVE  data'[k].code \in {200, 201} /\ data'[k].expiresAt \in Int
      OBVIOUS
    <3>1. CASE k = Key(n)
      BY <1>2, <2>1, <3>1, SMT
    <3>2. CASE k # Key(n)
      BY <1>2, <3>2, SMT DEF PathInv, RecordTypes
    <3> QED
      BY <3>1, <3>2
  <2> QED
    BY <1>3, <2>2 DEF PathInv, RecordTypes
<1>5. answered' = answered \cup {<<n, code>>}
  BY <1>1 DEF Answer
<1>6. ProcessedOrParked'
  <2> SUFFICES ASSUME NEW m \in Messages, m.kind = "callback"
               PROVE  /\ <<m, 200>> \in answered' =>
                           \E l \in Messages : Key(l) = Key(m) /\ sends'[l] > 0
                      /\ <<m, 500>> \in answered' /\ Nameable(m.ref) => m \in parked'
    BY DEF ProcessedOrParked, Key
  <2>1. /\ <<m, 200>> \in answered =>
             \E l \in Messages : Key(l) = Key(m) /\ sends[l] > 0
        /\ <<m, 500>> \in answered /\ Nameable(m.ref) => m \in parked
    BY DEF PathInv, SentInv, ProcessedOrParked
  <2>2. <<m, 500>> \in answered' => <<m, 500>> \in answered
    BY <1>5, SMT
  <2>3. ASSUME <<m, 200>> \in answered'
        PROVE  \E l \in Messages : Key(l) = Key(m) /\ sends'[l] > 0
    <3>1. CASE <<m, 200>> \in answered
      BY <3>1, <2>1, <1>3, SMT
    <3>2. CASE <<m, 200>> \notin answered
      <4>1. m = n
        BY <3>2, <2>3, <1>5
      <4> QED
        BY <4>1, <1>3
    <3> QED
      BY <3>1, <3>2
  <2> QED
    BY <2>1, <2>2, <2>3, SMT
<1>7. \A k \in DOMAIN data' : \E m \in Messages : Key(m) = k /\ sends'[m] > 0
  <2> SUFFICES ASSUME NEW k \in DOMAIN data'
               PROVE  \E m \in Messages : Key(m) = k /\ sends'[m] > 0
    OBVIOUS
  <2>1. CASE k = Key(n)
    BY <1>3, <2>1, SMT
  <2>2. CASE k # Key(n)
    <3>1. PICK m \in Messages : Key(m) = k /\ sends[m] > 0
      BY <1>2, <2>2 DEF PathInv, SentInv
    <3> QED
      BY <1>3, <3>1, SMT
  <2> QED
    BY <2>1, <2>2
<1>8. \A s \in submitted' : \E m \in Messages : SubmittedFor(s, m)
  <2> SUFFICES ASSUME NEW s \in submitted'
               PROVE  \E m \in Messages : SubmittedFor(s, m)
    OBVIOUS
  <2>1. CASE s \in submitted
    BY <2>1 DEF PathInv, SentInv
  <2>2. CASE s \notin submitted
    BY <1>1, <2>2
  <2> QED
    BY <2>1, <2>2
<1>9. SentInv'
  BY <1>6, <1>7, <1>8, SentPrimed
<1> QED
  BY <1>4, <1>9, AnswerPath

LEMMA SameHistory ==
  ASSUME SentInv, UNCHANGED <<submitted, data, sends, parked, answered>>
  PROVE  SentInv'
<1>1. answered' \subseteq answered \cup {<<message, 0>>} /\ parked \subseteq parked'
  OBVIOUS
<1> QED
  BY <1>1, QuietHistory, SMT

LEMMA DeliverPath ==
  ASSUME PathInv, NEW m \in Messages, Deliver(m)
  PROVE  PathInv'
<1>1. /\ cfg' = cfg /\ clock' = clock /\ data' = data /\ sends' = sends
      /\ backoff' = backoff /\ i' = i /\ slept' = slept /\ pc = "idle"
      /\ submitted' = submitted /\ parked' = parked
  BY DEF Deliver, loop, effects
<1>2. \/ pc' = "verified" /\ message' = m /\ verifiedAt' = clock /\ answered' = answered
      \/ /\ pc' = pc /\ message' = message /\ verifiedAt' = verifiedAt
         /\ answered' = answered \cup {<<m, 401>>}
  BY DEF Deliver
<1>3. ConfigFits' /\ Attempts' = Attempts
  BY <1>1, ConfigKept DEF PathInv
<1>4. DeliveryTypes'
  <2>1. CASE pc' = "verified" /\ message' = m /\ verifiedAt' = clock
    BY <1>1, <1>3, <2>1, SMT DEF PathInv, DeliveryTypes
  <2>2. CASE pc' = pc /\ message' = message /\ verifiedAt' = verifiedAt
    BY <1>1, <1>3, <2>2 DEF PathInv, DeliveryTypes
  <2> QED
    BY <1>2, <2>1, <2>2
<1>5. LoopInv'
  <2>1. SleepsFollowFormula'
    BY <1>1, SleepsKept DEF PathInv, LoopInv
  <2> QED
    BY <1>1, <1>2, <2>1 DEF PathInv, LoopInv, InProgress
<1>6. SentInv'
  <2>1. CASE answered' = answered
    BY <1>1, <2>1, SameHistory DEF PathInv
  <2>2. CASE answered' = answered \cup {<<m, 401>>}
    BY <1>1, <2>2, QuietHistory, SMT DEF PathInv
  <2> QED
    BY <1>2, <2>1, <2>2
<1>7. RecordTypes'
  BY <1>1 DEF PathInv, RecordTypes
<1> QED
  BY <1>3, <1>4, <1>5, <1>6, <1>7 DEF PathInv

(* A delivery that sends nothing and is answered with another code than    *)
(* 500.                                                                    *)
LEMMA RefusePath ==
  ASSUME PathInv, pc # "idle", NEW code, Answer(code), code # 500,
         code = 200 => Key(message) \in DOMAIN data,
         UNCHANGED <<clock, data, effects>>
  PROVE  PathInv'
<1>1. /\ clock' = clock /\ data' = data /\ sends' = sends /\ parked' = parked
      /\ submitted' = submitted
  BY DEF effects
<1>2. PICK n \in Messages : message = n
  BY DEF PathInv, DeliveryTypes
<1>3. answered' = answered \cup {<<n, code>>}
  BY <1>2 DEF Answer
<1>4. SentInv'
  BY <1>1, <1>2, <1>3, QuietHistory DEF PathInv
<1>5. RecordTypes'
  BY <1>1, SMT DEF PathInv, RecordTypes
<1> QED
  BY <1>1, <1>4, <1>5, AnswerPath

LEMMA GiveUpPath ==
  ASSUME PathInv, pc # "idle", GiveUp, clock' = clock
  PROVE  PathInv'
<1>1. /\ data' = data /\ sends' = sends /\ submitted' = submitted /\ Answer(500)
      /\ WriteDLQ
  BY DEF GiveUp
<1>2. PICK n \in Messages : message = n
  BY DEF PathInv, DeliveryTypes
<1>3. /\ parked' \subseteq Messages /\ parked \subseteq parked'
      /\ Nameable(n.ref) => n \in parked'
  BY <1>1, <1>2 DEF WriteDLQ, PathInv, RecordTypes
<1>4. answered' = answered \cup {<<n, 500>>}
  BY <1>1, <1>2 DEF Answer
<1>5. SentInv'
  BY <1>1, <1>3, <1>4, QuietHistory, SMT DEF PathInv
<1>6. RecordTypes'
  BY <1>1, <1>3 DEF PathInv, RecordTypes
<1> QED
  BY <1>1, <1>5, <1>6, AnswerPath

(* A step from one point of the loop to another.                           *)
LEMMA GotoPath ==
  ASSUME PathInv, pc # "idle", NEW step \in {"submit", "execute", "backoff"},
         Goto(step), clock' \in Nat, clock <= clock', UNCHANGED <<data, effects>>,
         i' \in 1 .. Attempts, Len(slept') = i' - 1, slept' \in Seq(Int),
         backoff' \in -DurationLimit .. DurationLimit - 1,
         step = "backoff" => i' < Attempts,
         Uncapped(i') < DurationLimit => backoff' = Uncapped(i'),
         \A n \in 1 .. Len(slept') :
           Uncapped(n) < DurationLimit => slept'[n] = AdrFormula(n)
  PROVE  PathInv'
<1>1. /\ cfg' = cfg /\ message' = message /\ verifiedAt' = verifiedAt /\ pc' = step
      /\ answered' = answered
      /\ data' = data /\ sends' = sends /\ submitted' = submitted /\ parked' = parked
  BY DEF Goto, effects
<1>2. /\ ConfigFits' /\ Attempts' = Attempts
      /\ \A n : Uncapped(n)' = Uncapped(n) /\ AdrFormula(n)' = AdrFormula(n)
  BY <1>1, ConfigKept DEF PathInv
<1>3. DeliveryTypes'
  <2>1. message' \in Messages /\ pc' # "idle"
    BY <1>1 DEF PathInv, DeliveryTypes
  <2>2. verifiedAt' \in 0 .. clock'
    BY <1>1, SMT DEF PathInv, DeliveryTypes
  <2> QED
    BY <1>1, <1>2, <2>1, <2>2 DEF DeliveryTypes
<1>4. LoopInv'
  <2>1. SleepsFollowFormula'
    BY <1>2 DEF SleepsFollowFormula
  <2>2. Uncapped(i)' = Uncapped(i')
    BY <1>1 DEF Uncapped, FirstBackoff, Growth
  <2> QED
    BY <1>1, <1>2, <2>1, <2>2 DEF LoopInv
<1>5. SentInv'
  BY <1>1, SameHistory DEF PathInv
<1>6. RecordTypes'
  BY <1>1, SMT DEF PathInv, RecordTypes
<1> QED
  BY <1>2, <1>3, <1>4, <1>5, <1>6 DEF PathInv

LEMMA HandlePath ==
  ASSUME IInv, PathInv, Handle
  PROVE  PathInv'
<1>1. pc = "verified" /\ UNCHANGED <<clock, data, effects>>
  BY DEF Handle
<1>2. ASSUME NEW code \in {400, 401, 405}, Answer(code) PROVE PathInv'
  BY <1>1, <1>2, RefusePath, SMT
<1>3. ASSUME Get(Key(message)), Answer(data[Key(message)].code) PROVE PathInv'
  <2>1. Key(message) \in DOMAIN data
    BY <1>3 DEF Get
  <2>2. data[Key(message)].code \in {200, 201}
    BY <2>1 DEF PathInv, RecordTypes
  <2>3. data[Key(message)].code # 500
    BY <2>2, SMT
  <2> QED
    BY <1>1, <1>3, <2>1, <2>3, RefusePath
<1>4. ASSUME NEW step \in {"submit", "execute"}, Goto(step),
             i' = 1, backoff' = FirstBackoff, slept' = << >>
      PROVE  PathInv'
  <2>1. clock' \in Nat /\ clock <= clock'
    BY <1>1, SMT DEF PathInv, DeliveryTypes
  <2>2. i' \in 1 .. Attempts /\ slept' \in Seq(Int) /\ Len(slept') = i' - 1
    BY <1>4, AttemptsPositive, SMT DEF PathInv
  <2>3. backoff' \in -DurationLimit .. DurationLimit - 1
    BY <1>4, ConfigAssumption, SMT DEF PathInv, ConfigFits
  <2>4. backoff' = Uncapped(i')
    BY <1>4, UncappedGrows, SMT DEF PathInv, IInv
  <2>5. 1 .. Len(slept') = {}
    BY <1>4, SMT
  <2> QED
    BY <1>1, <1>4, <2>1, <2>2, <2>3, <2>4, <2>5, GotoPath
<1>5. CASE \E code \in {400, 401, 405} : Answer(code)
  BY <1>2, <1>5, SMT
<1>6. CASE \E step \in {"submit", "execute"} :
             Goto(step) /\ i' = 1 /\ backoff' = FirstBackoff /\ slept' = << >>
  BY <1>4, <1>6
<1>7. \/ \E code \in {400, 401, 405} : Answer(code)
      \/ Get(Key(message)) /\ Answer(data[Key(message)].code)
      \/ \E step \in {"submit", "execute"} :
           Goto(step) /\ i' = 1 /\ backoff' = FirstBackoff /\ slept' = << >>
  <2> DEFINE refusal == IF message.post THEN 400 ELSE 405
             step == IF message.kind = "mint" THEN "submit" ELSE "execute"
  <2>1. \/ Answer(401) \/ Answer(refusal) \/ Answer(400)
        \/ Get(Key(message)) /\ Answer(data[Key(message)].code)
        \/ Goto(step) /\ i' = 1 /\ backoff' = FirstBackoff /\ slept' = << >>
    BY DEF Handle
  <2>2. refusal \in {400, 401, 405} /\ step \in {"submit", "execute"}
    BY SMT
  <2> HIDE DEF refusal, step
  <2> QED
    BY <2>1, <2>2, SMT
<1> QED
  BY <1>3, <1>5, <1>6, <1>7

LEMMA SubmitPath ==
  ASSUME IInv, PathInv, SubmitIntent
  PROVE  PathInv'
<1>1. pc = "submit" /\ UNCHANGED clock /\ InProgress
  BY DEF SubmitIntent, InProgress
<1>2. CASE Answer(502) /\ UNCHANGED <<data, effects>>
  BY <1>1, <1>2, RefusePath, SMT
<1> DEFINE rec == [ref |-> message.ref, user |-> message.user,
                   amount |-> message.amount.n,
                   returned |-> ComputeIntentID(message),
                   onChain |-> ContractIntentID(message)]
<1>3. CASE /\ Answer(201) /\ submitted' = submitted \cup {rec}
           /\ SentFor(message) /\ UNCHANGED parked
           /\ Save(Key(message), [code |-> 201, expiresAt |-> ExpiresAt])
  <2>1. SubmittedFor(rec, message)
    BY DEF SubmittedFor
  <2> HIDE DEF rec
  <2>2. /\ submitted \subseteq submitted'
        /\ \A s \in submitted' \ submitted : SubmittedFor(s, message)
    BY <1>3, <2>1
  <2> QED
    BY <1>1, <1>3, <2>2, SendPath
<1> QED
  BY <1>2, <1>3 DEF SubmitIntent

LEMMA ExecutePath ==
  ASSUME IInv, PathInv, ExecuteMint
  PROVE  PathInv'
<1>1. pc = "execute" /\ UNCHANGED clock /\ InProgress
  BY DEF ExecuteMint, InProgress
<1>2. CASE /\ Answer(200) /\ SentFor(message) /\ UNCHANGED <<submitted, parked>>
           /\ Save(Key(message), [code |-> 200, expiresAt |-> ExpiresAt])
  <2>1. submitted \subseteq submitted' /\ submitted' \ submitted = {}
    BY <1>2
  <2> QED
    BY <1>1, <1>2, <2>1, SendPath
<1>3. CASE GiveUp
  BY <1>1, <1>3, GiveUpPath
<1>4. CASE i # Attempts /\ Goto("backoff") /\ UNCHANGED <<data, effects, loop>>
  <2>1. i' = i /\ backoff' = backoff /\ slept' = slept
    BY <1>4 DEF loop
  <2>2. /\ i \in 1 .. Attempts /\ Len(slept) = i - 1 /\ slept \in Seq(Int)
        /\ backoff \in -DurationLimit .. DurationLimit - 1
        /\ clock \in Nat /\ Attempts \in Nat
        /\ Uncapped(i) < DurationLimit => backoff = Uncapped(i)
        /\ \A n \in 1 .. Len(slept) :
             Uncapped(n) < DurationLimit => slept[n] = AdrFormula(n)
    BY <1>1, AttemptsPositive DEF PathInv, DeliveryTypes, LoopInv, SleepsFollowFormula
  <2>3. i < Attempts /\ clock' \in Nat /\ clock <= clock'
    BY <1>1, <1>4, <2>2, SMT
  <2> QED
    BY <1>1, <1>4, <2>1, <2>2, <2>3, GotoPath
<1> QED
  BY <1>2, <1>3, <1>4 DEF ExecuteMint

(* A sleep is the one of the formula, and the next backoff is the next one *)
(* of the formula, as long as that fits into a Duration.                   *)
LEMMA BackoffPath ==
  ASSUME IInv, PathInv, Backoff
  PROVE  PathInv'
<1>1. pc = "backoff" /\ InProgress
  BY DEF Backoff, InProgress
<1>2. CASE GiveUp /\ UNCHANGED clock
  BY <1>1, <1>2, GiveUpPath
<1>3. CASE /\ Goto("execute") /\ UNCHANGED <<data, effects>>
           /\ clock' = clock + (IF Sleep > 0 THEN Sleep ELSE 0)
           /\ slept' = Append(slept, Sleep)
           /\ i' = i + 1
           /\ backoff' = NextBackoff
  <2>1. /\ i \in 1 .. Attempts /\ Len(slept) = i - 1 /\ slept \in Seq(Int)
        /\ backoff \in -DurationLimit .. DurationLimit - 1
        /\ clock \in Nat /\ i < Attempts /\ Attempts \in Nat
        /\ Uncapped(i) < DurationLimit => backoff = Uncapped(i)
        /\ \A n \in 1 .. Len(slept) :
             Uncapped(n) < DurationLimit => slept[n] = AdrFormula(n)
    BY <1>1, AttemptsPositive DEF PathInv, DeliveryTypes, LoopInv, SleepsFollowFormula
  <2>2. /\ cfg.multiplier \in Int /\ cfg.maxBackoff \in Int /\ backoff \in Int
        /\ DurationLimit \in Nat \ {0}
    BY ConfigAssumption DEF IInv, Types
  <2>3. Sleep \in Int
    BY <2>2 DEF Sleep
  <2>4. clock' \in Nat /\ clock <= clock'
    BY <1>3, <2>1, <2>3, SMT
  <2>5. /\ i' \in 1 .. Attempts /\ slept' \in Seq(Int) /\ Len(slept') = i' - 1
        /\ slept'[i] = Sleep
        /\ \A n \in 1 .. Len(slept) : slept'[n] = slept[n]
    BY <1>3, <2>1, <2>3, SMT
  <2>6. /\ Growth \in Nat \ {0} /\ Uncapped(i) \in Nat \ {0}
        /\ Uncapped(i + 1) = Uncapped(i) * Growth
        /\ Uncapped(i) <= Uncapped(i + 1) /\ Uncapped(i + 1) \in Nat \ {0}
    BY <2>1, UncappedGrows, SMT DEF IInv, PathInv
  <2>7. backoff * cfg.multiplier \in Int
    BY <2>2, SMT
  <2>8. backoff' \in -DurationLimit .. DurationLimit - 1
    BY <1>3, <2>1, <2>7, DurationFits DEF NextBackoff
  <2>9. ASSUME Uncapped(i + 1) < DurationLimit
        PROVE  backoff' = Uncapped(i + 1)
    <3>1. backoff = Uncapped(i)
      BY <2>1, <2>2, <2>6, <2>9, SMT
    <3>2. CASE cfg.multiplier > 1
      <4>1. Growth = cfg.multiplier
        BY <3>2 DEF Growth
      <4>2. backoff * cfg.multiplier = Uncapped(i + 1)
        BY <2>6, <3>1, <4>1
      <4>3. Uncapped(i + 1) \in -DurationLimit .. DurationLimit - 1
        BY <2>2, <2>6, <2>9, SMT
      <4> QED
        BY <1>3, <2>7, <3>2, <4>2, <4>3, DurationFits DEF NextBackoff
    <3>3. CASE ~(cfg.multiplier > 1)
      <4>1. Growth = 1
        BY <3>3 DEF Growth
      <4>2. Uncapped(i + 1) = Uncapped(i)
        BY <2>6, <4>1, SMT
      <4> QED
        BY <1>3, <3>1, <3>3, <4>2 DEF NextBackoff
    <3> QED
      BY <3>2, <3>3
  <2>10. ASSUME Uncapped(i) < DurationLimit PROVE Sleep = AdrFormula(i)
    <3>1. backoff = Uncapped(i)
      BY <2>1, <2>10
    <3>2. backoff > cfg.maxBackoff <=> cfg.maxBackoff < Uncapped(i)
      BY <2>2, <3>1
    <3> QED
      BY <3>1, <3>2 DEF Sleep, AdrFormula
  <2>11. ASSUME NEW n \in 1 .. Len(slept'), Uncapped(n) < DurationLimit
         PROVE  slept'[n] = AdrFormula(n)
    <3>1. n = i \/ n \in 1 .. Len(slept)
      BY <1>3, <2>1, <2>5, SMT
    <3> QED
      BY <2>1, <2>5, <2>10, <2>11, <3>1
  <2> HIDE DEF Growth, Uncapped, AdrFormula, Sleep
  <2> QED
    BY <1>1, <1>3, <2>4, <2>5, <2>8, <2>9, <2>11, GotoPath
<1> QED
  BY <1>2, <1>3 DEF Backoff

(* Nothing but the clock moves, if anything.                               *)
LEMMA TickPath ==
  ASSUME PathInv, Tick \/ UNCHANGED vars
  PROVE  PathInv'
<1>1. /\ cfg' = cfg /\ data' = data /\ pc' = pc /\ message' = message
      /\ verifiedAt' = verifiedAt /\ i' = i /\ backoff' = backoff /\ slept' = slept
      /\ submitted' = submitted /\ sends' = sends /\ parked' = parked
      /\ answered' = answered
      /\ clock' = clock + 1 \/ clock' = clock
  BY DEF Tick, vars, loop, effects
<1>2. /\ ConfigFits' /\ Attempts' = Attempts
      /\ \A n : Uncapped(n)' = Uncapped(n) /\ AdrFormula(n)' = AdrFormula(n)
  BY <1>1, ConfigKept DEF PathInv
<1>3. DeliveryTypes'
  <2>1. clock' \in Nat /\ verifiedAt' \in 0 .. clock'
    BY <1>1, SMT DEF PathInv, DeliveryTypes
  <2> QED
    BY <1>1, <1>2, <2>1 DEF PathInv, DeliveryTypes
<1>4. LoopInv'
  <2>1. SleepsFollowFormula'
    BY <1>1, SleepsKept DEF PathInv, LoopInv
  <2>2. Uncapped(i)' = Uncapped(i)
    BY <1>1 DEF Uncapped, FirstBackoff, Growth
  <2> QED
    BY <1>1, <1>2, <2>1, <2>2 DEF PathInv, LoopInv, InProgress
<1>5. SentInv'
  BY <1>1, SameHistory DEF PathInv
<1>6. RecordTypes'
  BY <1>1 DEF PathInv, RecordTypes
<1> QED
  BY <1>2, <1>3, <1>4, <1>5, <1>6 DEF PathInv

-----------------------------------------------------------------------------
(* What a bytes32 keeps of a text: all of one that fits and does not end   *)
(* in a zero byte.                                                         *)
LEMMA Bytes32Injective ==
  ASSUME NEW s \in Seq(Nat), NEW t \in Seq(Nat), Plain(s), Plain(t),
         ToBytes32(s) = ToBytes32(t)
  PROVE  s = t
<1>1. /\ Len(s) \in Nat /\ Len(t) \in Nat /\ Width \in Nat
      /\ Len(s) \in 1 .. Width /\ Len(t) \in 1 .. Width
      /\ s[Len(s)] # Nul /\ t[Len(t)] # Nul
  BY ClientAssumption, SMT DEF Plain
<1>2. \A n \in 1 .. Width : /\ ToBytes32(s)[n] = IF n <= Len(s) THEN s[n] ELSE Nul
                           /\ ToBytes32(t)[n] = IF n <= Len(t) THEN t[n] ELSE Nul
  BY DEF ToBytes32
<1>3. Len(s) = Len(t)
  <2>1. ASSUME Len(s) < Len(t) PROVE FALSE
    <3>1. Len(t) \in 1 .. Width /\ ~(Len(t) <= Len(s)) /\ Len(t) <= Len(t)
      BY <1>1, <2>1, SMT
    <3>2. ToBytes32(s)[Len(t)] = Nul /\ ToBytes32(t)[Len(t)] = t[Len(t)]
      BY <1>2, <3>1
    <3> QED
      BY <1>1, <3>2
  <2>2. ASSUME Len(t) < Len(s) PROVE FALSE
    <3>1. Len(s) \in 1 .. Width /\ ~(Len(s) <= Len(t)) /\ Len(s) <= Len(s)
      BY <1>1, <2>2, SMT
    <3>2. ToBytes32(t)[Len(s)] = Nul /\ ToBytes32(s)[Len(s)] = s[Len(s)]
      BY <1>2, <3>1
    <3> QED
      BY <1>1, <3>2
  <2> QED
    BY <1>1, <2>1, <2>2, SMT
<1>4. \A n \in 1 .. Len(s) : s[n] = t[n]
  BY <1>1, <1>2, <1>3, SMT
<1> QED
  BY <1>3, <1>4, SMT

LEMMA InitPath ==
  ASSUME Init PROVE PathInv
<1>1. PICK env \in Envs, seed \in Seeds : cfg = Load(env, seed, Deployments)
  BY DEF Init
<1>2. seed.ok /\ Deployments.ok
  BY <1>1 DEF Init, Load, Unreadable, Deployments
<1>3. /\ cfg.maxAttempts = seed.maxAttempts
      /\ cfg.initialBackoff = Duration(seed.initialBackoffMs * Millisecond)
  BY <1>1, <1>2 DEF Load
<1>4. /\ seed.maxAttempts \in Int
      /\ seed.initialBackoffMs * Millisecond \in Int
  BY <1>2, PathAssumption, ConfigAssumption, SMT
<1>5. cfg.initialBackoff \in -DurationLimit .. DurationLimit - 1
  BY <1>3, <1>4, DurationFits
<1>6. ConfigFits
  <2>1. DefaultBackoff \in 1 .. DurationLimit - 1 /\ DurationLimit \in Nat
    BY PathAssumption, ConfigAssumption
  <2>2. CASE cfg.initialBackoff <= 0
    BY <1>3, <1>4, <2>1, <2>2 DEF ConfigFits, FirstBackoff
  <2>3. CASE ~(cfg.initialBackoff <= 0)
    <3>1. cfg.initialBackoff \in 1 .. DurationLimit - 1
      BY <1>5, <2>1, <2>3, SMT
    <3> QED
      BY <1>3, <1>4, <2>3, <3>1 DEF ConfigFits, FirstBackoff
  <2> QED
    BY <2>2, <2>3
<1>7. Attempts \in Nat \ {0}
  BY <1>6, AttemptsPositive
<1>8. DeliveryTypes /\ RecordTypes
  <2>1. RecordTypes
    BY DEF Init, RecordTypes
  <2>2. 0 \in -DurationLimit .. DurationLimit - 1 /\ 1 \in 1 .. Attempts
    BY <1>7, ConfigAssumption, SMT
  <2>3. DeliveryTypes
    BY <2>2, SMT DEF Init, DeliveryTypes
  <2> QED
    BY <2>1, <2>3
<1>9. LoopInv
  BY SMT DEF Init, LoopInv, InProgress, SleepsFollowFormula
<1>10. SentInv
  BY DEF Init, SentInv, ProcessedOrParked
<1> QED
  BY <1>6, <1>8, <1>9, <1>10 DEF PathInv

LEMMA PathInvariance == Spec => []PathInv
<1>1. Init => IInv /\ PathInv
  BY InitEstablishes, InitPath
<1>2. IInv /\ PathInv /\ [Next]_vars => PathInv'
  BY DeliverPath, HandlePath, SubmitPath, ExecutePath, BackoffPath, TickPath
     DEF Next
<1> QED
  BY <1>1, <1>2, IInvKept, PTL DEF Spec

(* A delivery goes through its steps one at a time, the loop makes no more *)
(* attempts than configured and sleeps before each but the first, and its  *)
(* backoff stays a Duration also where the product overflows.              *)
THEOREM PathTypeCorrect == Spec => []TypeOK
<1>1. PathInv => TypeOK
  BY DEF PathInv, DeliveryTypes, RecordTypes, TypeOK
<1> QED
  BY <1>1, PathInvariance, PTL

(* Every sleep of the retry loop is min(initialBackoff *                   *)
(* multiplier^(attempt-1), maxBackoff), for any number of attempts, as     *)
(* long as the product fits into a Duration.                               *)
THEOREM SleepsAreTheFormula == Spec => []SleepsFollowFormula
<1>1. PathInv => SleepsFollowFormula
  BY DEF PathInv, LoopInv
<1> QED
  BY <1>1, PathInvariance, PTL

(* computeIntentID returns the ID the contract derives, if the user signs  *)
(* and the amount fits into a uint256, for texts of any length.            *)
THEOREM ReturnedIdsMatch == Spec => []ReturnedIdIsContracts
<1>1. PathInv => ReturnedIdIsContracts
  <2> SUFFICES ASSUME PathInv, NEW s \in submitted,
                      s.user = Signer, s.amount \in 0 .. AmountLimit - 1
               PROVE  s.returned = s.onChain
    BY DEF ReturnedIdIsContracts
  <2>1. PICK m \in Messages :
          /\ s.user = m.user /\ s.amount = m.amount.n
          /\ s.returned = ComputeIntentID(m) /\ s.onChain = ContractIntentID(m)
    BY DEF PathInv, SentInv, SubmittedFor
  <2>2. ASSUME NEW n \in 0 .. AmountLimit - 1 PROVE Magnitude(n) = Packed(n)
    <3>1. AmountLimit \in Nat \ {0}
      BY ClientAssumption
    <3>2. n % AmountLimit = n
      BY <3>1, SMT
    <3>3. ~(n < 0)
      BY <3>1, SMT
    <3> QED
      BY <3>2, <3>3 DEF Magnitude, Packed
  <2> QED
    BY <2>1, <2>2 DEF ComputeIntentID, ContractIntentID
<1> QED
  BY <1>1, PathInvariance, PTL

(* toBytes32 keeps different references different, if they fit into 32     *)
(* bytes and do not end in a zero byte.                                    *)
THEOREM DistinctReferences == Spec => []ReferencesStayDistinct
<1>1. PathInv => ReferencesStayDistinct
  <2> SUFFICES ASSUME PathInv, NEW s \in submitted, NEW t \in submitted,
                      Plain(s.ref), Plain(t.ref), s.onChain[4] = t.onChain[4]
               PROVE  s.ref = t.ref
    BY DEF ReferencesStayDistinct
  <2>1. PICK m \in Messages : s.ref = m.ref /\ s.onChain = ContractIntentID(m)
    BY DEF PathInv, SentInv, SubmittedFor
  <2>2. PICK n \in Messages : t.ref = n.ref /\ t.onChain = ContractIntentID(n)
    BY DEF PathInv, SentInv, SubmittedFor
  <2>3. m.ref \in Seq(Nat) /\ n.ref \in Seq(Nat)
    BY PathAssumption
  <2>4. ToBytes32(m.ref) = ToBytes32(n.ref)
    BY <2>1, <2>2, SMT DEF ContractIntentID
  <2> QED
    BY <2>1, <2>2, <2>3, <2>4, Bytes32Injective
<1> QED
  BY <1>1, PathInvariance, PTL

(* A callback answered 200 was sent, under its key, by some delivery, and  *)
(* one answered 500 is in the DLQ if a file can have its name.             *)
THEOREM NoCallbackVanishes == Spec => []ProcessedOrParked
<1>1. PathInv => ProcessedOrParked
  BY DEF PathInv, SentInv
<1> QED
  BY <1>1, PathInvariance, PTL

=============================================================================
