-------------------------- MODULE ApiProcessProofs --------------------------
(* Proofs about the file store, FileStore, for every set of keys and       *)
(* responses and every window; that the API process, ApiProcess, uses it   *)
(* as FileStore says; and from both what the process keeps, for every set  *)
(* of requests and probes, every configuration and every number of starts  *)
(* and faults.                                                             *)
EXTENDS ApiProcess, FiniteSetTheorems, TLAPS

(* Most leaves are first-order: Zenon tries them, and the ones that need    *)
(* arithmetic or the theory of functions cite SMT.                         *)
USE Zenon

-----------------------------------------------------------------------------
(* The file store.                                                         *)

(* The records of r include every acknowledged record that has not         *)
(* expired.                                                                *)
Covers(r) ==
  \A k \in DOMAIN acknowledged :
    ~Expired(acknowledged[k]) => k \in DOMAIN r /\ r[k] = acknowledged[k]

(* KeptUnlessInterrupted speaks of the map while a process runs and of the *)
(* file when none does.  It is inductive together with the file of a       *)
(* running process: outside the rewrite a crash leaves just that file.     *)
CoversInv ==
  ~interrupted =>
    /\ running => Covers(data)
    /\ pc # "write" => Covers(file.records)

StoreInv == StoreTypeOK /\ CoversInv

-----------------------------------------------------------------------------
LEMMA ExpiresAtNat ==
  ASSUME StoreTypeOK PROVE ExpiresAt \in Nat
BY StoreAssumption, SMT DEF StoreTypeOK, ExpiresAt

LEMMA NothingIsPartial == Partial(Nothing)
BY DEF Partial, Nothing

LEMMA WithPartial ==
  ASSUME NEW records, Partial(records), NEW key \in Keys, NEW record \in Record
  PROVE  /\ Partial(With(records, key, record))
         /\ DOMAIN With(records, key, record) = DOMAIN records \cup {key}
         /\ With(records, key, record)[key] = record
         /\ \A k \in DOMAIN records : k # key =>
              With(records, key, record)[k] = records[k]
BY DEF Partial, With

LEMMA WithoutPartial ==
  ASSUME NEW records, Partial(records), NEW keys
  PROVE  /\ Partial(Without(records, keys))
         /\ DOMAIN Without(records, keys) = DOMAIN records \ keys
         /\ \A k \in DOMAIN records \ keys : Without(records, keys)[k] = records[k]
BY DEF Partial, Without

(* The store keeps its types.                                              *)
LEMMA TypeStep ==
  ASSUME StoreTypeOK, [StoreNext]_storeVars
  PROVE  StoreTypeOK'
<1> USE DEF StoreTypeOK
<1>1. CASE Open
  BY <1>1 DEF Open, Nothing
<1>2. ASSUME NEW key \in Keys, NEW response \in Responses, Save(key, response)
      PROVE  StoreTypeOK'
  <2>1. PICK record \in Record :
          record = [response |-> response, expiresAt |-> ExpiresAt]
    BY ExpiresAtNat DEF Record
  <2>2. data' = With(data, key, record) /\ acknowledged' = Without(acknowledged, {key})
    BY <1>2, <2>1 DEF Save
  <2>3. /\ Partial(With(data, key, record))
        /\ key \in DOMAIN With(data, key, record)
    <3>1. PICK d : d = data
      OBVIOUS
    <3>2. Partial(d)
      BY <3>1
    <3>3. Partial(With(d, key, record)) /\ key \in DOMAIN With(d, key, record)
      BY <3>2 DEF With, Partial
    <3> QED BY <3>1, <3>3
  <2>4. Partial(Without(acknowledged, {key}))
    <3>1. Partial(acknowledged)
      OBVIOUS
    <3> QED BY <3>1, WithoutPartial
  <2> QED BY <1>2, <2>2, <2>3, <2>4 DEF Save
<1>3. ASSUME NEW key \in Keys, GetExpired(key)
      PROVE  StoreTypeOK'
  <2>1. Partial(Without(data, {key}))
    <3>1. Partial(data)
      OBVIOUS
    <3> QED BY <3>1, WithoutPartial
  <2> QED BY <1>3, <2>1 DEF GetExpired
<1>4. CASE Truncate
  BY <1>4, NothingIsPartial DEF Truncate, NotJson
<1>5. CASE Write
  <2>1. Partial(acknowledged')
    BY <1>5 DEF Write, Partial
  <2> QED BY <1>5, <2>1 DEF Write, Json
<1>6. CASE PersistFails
  <2>1. CASE pc = "persist"
    BY <1>6, <2>1 DEF PersistFails
  <2>2. CASE pc = "write"
    <3>1. /\ file'.records = Nothing /\ file'.kind \in {"empty", "torn"}
          /\ interrupted' = TRUE
      BY <1>6, <2>2, SMT DEF PersistFails, NotJson
    <3> QED BY <1>6, <2>2, <3>1, NothingIsPartial DEF PersistFails
  <2> QED BY <1>6, <2>1, <2>2 DEF PersistFails
<1>7. CASE Stop
  <2>1. /\ running' = FALSE /\ data' = Nothing /\ pc' = "idle" /\ saving' = {}
        /\ acknowledged' = acknowledged /\ clock' = clock
    BY <1>7 DEF Stop
  <2>2. CASE pc # "write"
    BY <1>7, <2>1, <2>2, NothingIsPartial DEF Stop
  <2>3. CASE pc = "write"
    <3>1. file'.records \in {Nothing, data} /\ file'.kind \in {"empty", "torn", "json"}
      BY <1>7, <2>3, SMT DEF Stop, NotJson, Json
    <3>2. interrupted' \in BOOLEAN
      BY <1>7, <2>3, Zenon DEF Stop
    <3>3. Partial(file'.records)
      BY <3>1, NothingIsPartial
    <3> QED BY <2>1, <3>1, <3>2, <3>3, NothingIsPartial
  <2> QED BY <2>2, <2>3
<1>8. CASE TimePasses
  BY <1>8, StoreAssumption, SMT DEF TimePasses
<1>9. CASE UNCHANGED storeVars
  BY <1>9 DEF storeVars
<1> QED BY <1>1, <1>2, <1>3, <1>4, <1>5, <1>6, <1>7, <1>8, <1>9 DEF StoreNext

(* Every step keeps the acknowledged records where the next process will   *)
(* look, as long as no rewrite was interrupted.                            *)
LEMMA CoversStep ==
  ASSUME StoreInv, [StoreNext]_storeVars
  PROVE  CoversInv'
<1> SUFFICES ASSUME ~interrupted'
             PROVE  /\ running' => Covers(data)'
                    /\ pc' # "write" => Covers(file.records)'
  BY DEF CoversInv
<1> USE DEF StoreInv
<1>0. /\ ~interrupted
      /\ running => Covers(data)
      /\ pc # "write" => Covers(file.records)
  <2>1. CASE PersistFails
    <3>1. interrupted' = interrupted
      BY <2>1 DEF PersistFails
    <3> QED BY <3>1, Zenon DEF CoversInv
  <2>2. CASE Stop
    <3>1. CASE pc # "write"
      <4>1. interrupted' = interrupted
        BY <2>2, <3>1 DEF Stop
      <4> QED BY <4>1, Zenon DEF CoversInv
    <3>2. CASE pc = "write"
      <4>1. interrupted' = (interrupted \/ file'.kind # "json")
        BY <2>2, <3>2 DEF Stop
      <4> QED BY <4>1, Zenon DEF CoversInv
    <3> QED BY <3>1, <3>2
  <2>3. CASE ~PersistFails /\ ~Stop
    <3>1. interrupted' = interrupted
      BY <2>3 DEF StoreNext, Open, Save, GetExpired, Truncate, Write, TimePasses,
                  storeVars
    <3> QED BY <3>1, Zenon DEF CoversInv
  <2> QED BY <2>1, <2>2, <2>3
<1>1. CASE Open
  BY <1>0, <1>1 DEF Open, StoreTypeOK, Covers, Expired
<1>2. ASSUME NEW key \in Keys, NEW response \in Responses, Save(key, response)
      PROVE  /\ running' => Covers(data)'
             /\ pc' # "write" => Covers(file.records)'
  <2>1. PICK record \in Record :
          record = [response |-> response, expiresAt |-> ExpiresAt]
    BY ExpiresAtNat DEF Record
  <2>2. data' = With(data, key, record) /\ acknowledged' = Without(acknowledged, {key})
    BY <1>2, <2>1 DEF Save
  <2> QED BY <1>0, <1>2, <2>2 DEF Save, With, Without, Covers, Expired
<1>3. ASSUME NEW key \in Keys, GetExpired(key)
      PROVE  /\ running' => Covers(data)'
             /\ pc' # "write" => Covers(file.records)'
  BY <1>0, <1>3 DEF GetExpired, Without, Covers, Expired
<1>4. CASE Truncate
  BY <1>0, <1>4 DEF Truncate, Covers, Expired
<1>5. CASE Write
  BY <1>0, <1>5 DEF Write, Json, Covers, Expired, StoreTypeOK
<1>6. CASE PersistFails
  BY <1>0, <1>6 DEF PersistFails, Covers, Expired
<1>7. CASE Stop
  <2>1. /\ running' = FALSE /\ acknowledged' = acknowledged /\ clock' = clock
        /\ running
    BY <1>7 DEF Stop
  <2>2. CASE pc # "write"
    BY <1>0, <1>7, <2>1, <2>2 DEF Stop, Covers, Expired
  <2>3. CASE pc = "write"
    <3>1. file' \in {NotJson("empty"), NotJson("torn"), Json(data)}
      BY <1>7, <2>3 DEF Stop
    <3>2. file'.kind = "json"
      BY <1>7, <2>3, Zenon DEF Stop
    <3>3. file'.records = data
      BY <3>1, <3>2, SMT DEF NotJson, Json
    <3> QED BY <1>0, <2>1, <3>3 DEF Covers, Expired
  <2> QED BY <2>2, <2>3
<1>8. CASE TimePasses
  <2>1. \A k \in DOMAIN acknowledged :
          Expired(acknowledged[k]) => Expired(acknowledged[k])'
    BY <1>8, SMT DEF TimePasses, Expired, StoreTypeOK, Partial, Record
  <2> QED BY <1>0, <1>8, <2>1 DEF TimePasses, Covers
<1>9. CASE UNCHANGED storeVars
  BY <1>0, <1>9 DEF storeVars, Covers, Expired
<1> QED BY <1>1, <1>2, <1>3, <1>4, <1>5, <1>6, <1>7, <1>8, <1>9 DEF StoreNext

LEMMA InitEstablishes ==
  ASSUME StoreInit PROVE StoreInv
<1>1. /\ DOMAIN data = {} /\ DOMAIN acknowledged = {} /\ DOMAIN file.records = {}
      /\ file.kind = "absent"
  BY DEF StoreInit, Nothing, NotJson
<1>2. StoreTypeOK
  <2>1. file.records = Nothing
    BY DEF StoreInit, NotJson
  <2>2. Partial(data) /\ Partial(file.records) /\ Partial(acknowledged)
    BY <2>1, NothingIsPartial DEF StoreInit
  <2>3. clock \in 0 .. MaxTime
    BY StoreAssumption, SMT DEF StoreInit
  <2> QED BY <1>1, <2>2, <2>3 DEF StoreInit, StoreTypeOK
<1>3. CoversInv
  BY <1>1 DEF StoreInit, CoversInv, Covers
<1> QED BY <1>2, <1>3 DEF StoreInv

LEMMA CoversImpliesKept ==
  ASSUME StoreInv PROVE KeptUnlessInterrupted
BY DEF StoreInv, StoreTypeOK, CoversInv, Covers, KeptUnlessInterrupted,
       AcknowledgedIsKept, Kept

(* A record FileStore acknowledged is found until it expires, in the map   *)
(* or by the next process in the file, whatever saves, expiries, failed    *)
(* persists and ends of the process came before, unless a rewrite was left *)
(* unfinished after the truncation (store.go:94).                          *)
THEOREM AcknowledgedRecordsAreKept == StoreSpec => []KeptUnlessInterrupted
<1>1. StoreInit => StoreInv
  BY InitEstablishes
<1>2. StoreInv /\ [StoreNext]_storeVars => StoreInv'
  BY TypeStep, CoversStep DEF StoreInv
<1>3. StoreInv => KeptUnlessInterrupted
  BY CoversImpliesKept
<1> QED BY <1>1, <1>2, <1>3, PTL DEF StoreSpec

-----------------------------------------------------------------------------
(* The process.                                                            *)

Steps == {"idle", "lookup", "expiring", "execute", "save", "saving", "park", "count",
          "set", "done", "lost"}

Holds(r) == step[r] \in {"expiring", "saving"}

(* The types of the process, and who holds the mutex of the store: the one *)
(* request that is in Get or Save, if the store is in one.                 *)
ProcessTypes ==
  /\ keyOf \in [Requests -> Keys]
  /\ phase \in {"down", "serving", "deaf", "draining", "overdue"}
  /\ running <=> Running
  /\ client \in {"none", "eth", "fake"}
  /\ Running => client # "none"
  /\ step \in [Callers -> Steps]
  /\ counted \in [Callers -> 0 .. Cardinality(Requests)]
  /\ gauge \in 0 .. Cardinality(Requests)
  /\ dlq \subseteq Requests /\ sent \subseteq Keys
  /\ faults \in Nat /\ overran \in BOOLEAN /\ faked \in BOOLEAN

MutexInv ==
  /\ pc = "idle" => \A r \in Requests : ~Holds(r)
  /\ pc # "idle" => \E r \in Requests : \A s \in Requests : Holds(s) <=> s = r

DownInv == ~Running => Active = {}

(* CleanStopsLoseNothing is about what happened.  That it goes on needs    *)
(* what comes: a shutdown over its deadline that overtook nobody still     *)
(* overtakes nobody when main returns.                                     *)
CleanInv ==
  faults = 0 /\ ~overran =>
    /\ ~interrupted
    /\ phase = "overdue" => Active = {}
    /\ \A r \in Requests : step[r] # "lost"

(* ProcessedWasSent is about the acknowledged records.  The ones to come   *)
(* are in the hands of the requests that are about to save, or saving.     *)
SentInv ==
  ~faked =>
    /\ client # "fake"
    /\ DOMAIN acknowledged \cup saving \subseteq sent
    /\ \A r \in Requests : step[r] = "save" => keyOf[r] \in sent

ProcessInv ==
  StoreInv /\ ProcessTypes /\ MutexInv /\ DownInv /\ CleanInv /\ SentInv

-----------------------------------------------------------------------------
(* Every step of the process is a step of the store, or leaves it alone.   *)

LEMMA LookupStore ==
  ASSUME ProcessTypes, NEW r \in Requests, Lookup(r)
  PROVE  [StoreNext]_storeVars
<1>1. keyOf[r] \in Keys
  BY DEF ProcessTypes
<1>2. GetExpired(keyOf[r]) \/ UNCHANGED storeVars
  BY DEF Lookup
<1> QED
  BY <1>1, <1>2 DEF StoreNext

LEMMA StoreStep ==
  ASSUME ProcessTypes, [Next]_vars
  PROVE  [StoreNext]_storeVars
<1>1. ASSUME NEW env \in Envs, NEW seed \in Seeds, NEW deployments \in DeploymentFiles,
             Boot(env, seed, deployments)
      PROVE  StoreNext
  BY <1>1 DEF Boot, StoreNext
<1>2. ASSUME NEW r \in Requests, Receive(r) PROVE UNCHANGED storeVars
  BY <1>2 DEF Receive
<1>3. ASSUME NEW r \in Requests, Serve(r) PROVE [StoreNext]_storeVars
  <2>1. CASE Lookup(r)
    BY <2>1, LookupStore
  <2>2. CASE Execute(r)
    BY <2>2 DEF Execute
  <2>3. CASE StartSave(r)
    <3>1. keyOf[r] \in Keys /\ Processed \in Responses
      BY ProcessAssumption DEF ProcessTypes
    <3> QED
      BY <2>3, <3>1 DEF StartSave, StoreNext
  <2>4. CASE Persist(r)
    BY <2>4 DEF Persist, StoreNext
  <2>5. CASE Park(r)
    BY <2>5 DEF Park
  <2> QED
    BY <1>3, <2>1, <2>2, <2>3, <2>4, <2>5 DEF Serve
<1>4. ASSUME NEW r \in Requests, RemoveFile(r) PROVE UNCHANGED storeVars
  BY <1>4 DEF RemoveFile
<1>5. ASSUME NEW p \in Probes, Probe(p) PROVE UNCHANGED storeVars
  BY <1>5 DEF Probe
<1>6. ASSUME NEW c \in Callers, Count(c) PROVE UNCHANGED storeVars
  BY <1>6 DEF Count, CurrentDLQDepth, SetDLQDepth
<1>7. CASE Signal \/ Deadline
  BY <1>7 DEF Signal, Deadline
<1>8. CASE Exit \/ Crash
  BY <1>8 DEF Exit, Crash, End, StoreNext
<1>9. CASE Tick
  BY <1>9 DEF Tick, StoreNext
<1>10. CASE UNCHANGED vars
  BY <1>10 DEF vars
<1> QED
  BY <1>1, <1>2, <1>3, <1>4, <1>5, <1>6, <1>7, <1>8, <1>9, <1>10 DEF Next

-----------------------------------------------------------------------------
(* The invariant, action by action.                                        *)

LEMMA FaultsCounted ==
  ASSUME ProcessTypes, faults' \in {faults, faults + 1}
  PROVE  faults' \in Nat /\ (faults' = 0 => faults = 0 /\ faults' = faults)
<1>1. faults \in Nat
  BY DEF ProcessTypes
<1> QED
  BY <1>1, SMT

(* A caller goes on, or begins while the process serves, outside the store.*)
LEMMA OutsideStore ==
  ASSUME ProcessInv, NEW c \in Callers, NEW s \in Steps \ {"expiring", "saving", "lost"},
         Goto(c, s), c \in Active \/ phase = "serving", ~Holds(c),
         UNCHANGED <<storeVars, phase, client, keyOf, faked, overran>>,
         faults' \in {faults, faults + 1},
         counted' \in [Callers -> 0 .. Cardinality(Requests)],
         gauge' \in 0 .. Cardinality(Requests), dlq' \subseteq Requests,
         sent \subseteq sent', sent' \subseteq Keys,
         ~faked /\ s = "save" /\ c \in Requests => keyOf[c] \in sent'
  PROVE  ProcessTypes' /\ MutexInv' /\ DownInv' /\ CleanInv' /\ SentInv'
<1> USE DEF ProcessInv
<1>1. /\ step \in [Callers -> Steps] /\ step' \in [Callers -> Steps]
      /\ step'[c] = s /\ \A d \in Callers : d # c => step'[d] = step[d]
      /\ Requests \subseteq Callers
  BY DEF ProcessTypes, Goto, Steps, Callers
<1>2. /\ pc' = pc /\ saving' = saving /\ acknowledged' = acknowledged
      /\ interrupted' = interrupted /\ running' = running
  BY DEF storeVars
<1>3. ProcessTypes'
  <2>1. faults' \in Nat
    BY FaultsCounted
  <2> QED
    BY <1>1, <1>2, <2>1 DEF ProcessTypes, Running
<1>4. MutexInv'
  <2>1. \A r \in Requests : Holds(r)' <=> Holds(r)
    BY <1>1 DEF Holds
  <2> QED
    BY <1>2, <2>1 DEF MutexInv
<1>5. DownInv'
  <2>1. Running
    BY DEF DownInv, Running
  <2> QED
    BY <2>1 DEF DownInv, Running
<1>6. CleanInv'
  <2> SUFFICES ASSUME faults' = 0, ~overran'
               PROVE  /\ ~interrupted'
                      /\ phase' = "overdue" => Active' = {}
                      /\ \A r \in Requests : step'[r] # "lost"
    BY DEF CleanInv
  <2>1. faults = 0 /\ ~overran
    BY FaultsCounted
  <2>2. /\ ~interrupted
        /\ phase = "overdue" => Active = {}
        /\ \A r \in Requests : step[r] # "lost"
    BY <2>1 DEF CleanInv
  <2>3. phase # "overdue" /\ phase' = phase
    BY <2>2
  <2> QED
    BY <1>1, <1>2, <2>2, <2>3
<1>7. SentInv'
  BY <1>1, <1>2 DEF SentInv
<1> QED
  BY <1>3, <1>4, <1>5, <1>6, <1>7

LEMMA FilesCounted ==
  ASSUME ProcessTypes
  PROVE  Cardinality(dlq) \in 0 .. Cardinality(Requests)
<1>1. dlq \in SUBSET Requests /\ IsFiniteSet(Requests)
  BY ProcessAssumption DEF ProcessTypes
<1>2. /\ IsFiniteSet(dlq) /\ Cardinality(dlq) <= Cardinality(Requests)
  BY <1>1, FS_Subset
<1>3. Cardinality(dlq) \in Nat /\ Cardinality(Requests) \in Nat
  BY <1>1, <1>2, FS_CardinalityType
<1> QED
  BY <1>2, <1>3, SMT

LEMMA ReceiveInv ==
  ASSUME ProcessInv, NEW r \in Requests, Receive(r)
  PROVE  ProcessTypes' /\ MutexInv' /\ DownInv' /\ CleanInv' /\ SentInv'
<1>1. r \in Callers /\ ~Holds(r)
  BY DEF Receive, Holds, Callers
<1>2. UNCHANGED <<storeVars, phase, client, keyOf, dlq, gauge, sent, counted, faults,
                  faked, overran>>
  BY DEF Receive, Unserved, history
<1>3. Goto(r, "lookup") /\ phase = "serving"
  BY DEF Receive
<1> QED
  BY <1>1, <1>2, <1>3, OutsideStore DEF ProcessInv, ProcessTypes, Steps

LEMMA ProbeInv ==
  ASSUME ProcessInv, NEW p \in Probes, Probe(p)
  PROVE  ProcessTypes' /\ MutexInv' /\ DownInv' /\ CleanInv' /\ SentInv'
<1>1. p \in Callers /\ ~Holds(p)
  BY DEF Probe, Holds, Callers
<1>2. UNCHANGED <<storeVars, phase, client, keyOf, dlq, gauge, sent, counted, faults,
                  faked, overran>>
  BY DEF Probe, Unserved, history
<1>3. Goto(p, "count") /\ phase = "serving"
  BY DEF Probe
<1> QED
  BY <1>1, <1>2, <1>3, OutsideStore DEF ProcessInv, ProcessTypes, Steps

LEMMA ExecuteInv ==
  ASSUME ProcessInv, NEW r \in Requests, Execute(r)
  PROVE  ProcessTypes' /\ MutexInv' /\ DownInv' /\ CleanInv' /\ SentInv'
<1>1. r \in Callers /\ r \in Active /\ ~Holds(r) /\ keyOf[r] \in Keys
  BY DEF Execute, Holds, Callers, Active, ProcessInv, ProcessTypes
<1>2. UNCHANGED <<storeVars, phase, client, keyOf, dlq, gauge, counted, faults, faked,
                  overran>>
  BY DEF Execute, history
<1>3. CASE /\ Goto(r, "save")
           /\ sent' = IF client = "eth" THEN sent \cup {keyOf[r]} ELSE sent
  <2>1. client # "none"
    BY <1>1 DEF ProcessInv, ProcessTypes, DownInv
  <2>2. ~faked => client = "eth"
    BY <2>1 DEF ProcessInv, ProcessTypes, SentInv
  <2>3. /\ sent \subseteq sent' /\ sent' \subseteq Keys
        /\ ~faked => keyOf[r] \in sent'
    BY <1>1, <1>3, <2>2 DEF ProcessInv, ProcessTypes
  <2> QED
    BY <1>1, <1>2, <1>3, <2>3, OutsideStore DEF ProcessInv, ProcessTypes, Steps
<1>4. CASE Goto(r, "park") /\ UNCHANGED sent
  BY <1>1, <1>2, <1>4, OutsideStore DEF ProcessInv, ProcessTypes, Steps
<1> QED
  BY <1>3, <1>4 DEF Execute, AfterFailure

LEMMA ParkInv ==
  ASSUME ProcessInv, NEW r \in Requests, Park(r)
  PROVE  ProcessTypes' /\ MutexInv' /\ DownInv' /\ CleanInv' /\ SentInv'
<1>1. r \in Callers /\ r \in Active /\ ~Holds(r)
  BY DEF Park, Holds, Callers, Active
<1>2. UNCHANGED <<storeVars, phase, client, keyOf, gauge, sent, counted, faked, overran>>
  BY DEF Park, history, Fault
<1>3. faults' \in {faults, faults + 1}
  BY DEF Park, history, Fault
<1>4. dlq' \subseteq Requests
  BY DEF Park, ProcessInv, ProcessTypes
<1>5. Goto(r, "count") \/ Goto(r, "done")
  BY DEF Park
<1> QED
  BY <1>1, <1>2, <1>3, <1>4, <1>5, OutsideStore DEF ProcessInv, ProcessTypes, Steps

LEMMA CountInv ==
  ASSUME ProcessInv, NEW c \in Callers, Count(c)
  PROVE  ProcessTypes' /\ MutexInv' /\ DownInv' /\ CleanInv' /\ SentInv'
<1>1. c \in Active /\ ~Holds(c)
  BY DEF Count, CurrentDLQDepth, SetDLQDepth, Holds, Active
<1>2. UNCHANGED <<storeVars, phase, client, keyOf, dlq, sent, faked, overran>>
  BY DEF Count, CurrentDLQDepth, SetDLQDepth, history, Fault
<1>3. faults' \in {faults, faults + 1}
  BY DEF Count, CurrentDLQDepth, SetDLQDepth, history, Fault
<1>4. /\ 0 \in 0 .. Cardinality(Requests)
      /\ Cardinality(dlq) \in 0 .. Cardinality(Requests)
  BY FilesCounted, FS_CardinalityType, ProcessAssumption, SMT DEF ProcessInv
<1>5. /\ counted' \in [Callers -> 0 .. Cardinality(Requests)]
      /\ gauge' \in 0 .. Cardinality(Requests)
  <2>1. counted \in [Callers -> 0 .. Cardinality(Requests)]
        /\ gauge \in 0 .. Cardinality(Requests)
    BY DEF ProcessInv, ProcessTypes
  <2>2. CASE CurrentDLQDepth(c)
    BY <1>4, <2>1, <2>2 DEF CurrentDLQDepth
  <2>3. CASE SetDLQDepth(c)
    BY <1>4, <2>1, <2>3 DEF SetDLQDepth, Gauged
  <2> QED
    BY <2>2, <2>3 DEF Count
<1>6. PICK s \in {"set", "idle", "done"} : Goto(c, s)
  BY DEF Count, CurrentDLQDepth, SetDLQDepth
<1>7. dlq' \subseteq Requests /\ sent' \subseteq Keys /\ sent \subseteq sent'
  BY <1>2 DEF ProcessInv, ProcessTypes
<1> QED
  BY <1>1, <1>2, <1>3, <1>5, <1>6, <1>7, OutsideStore DEF Steps

(* A request takes the mutex of the store and changes the map.             *)
LEMMA EnterStore ==
  ASSUME ProcessInv, NEW r \in Requests, NEW s \in {"expiring", "saving"}, Goto(r, s),
         r \in Active, pc = "idle", pc' = "persist",
         UNCHANGED <<Unserved, history, running, interrupted>>,
         DOMAIN acknowledged' \subseteq DOMAIN acknowledged,
         ~faked => saving' \subseteq sent
  PROVE  ProcessTypes' /\ MutexInv' /\ DownInv' /\ CleanInv' /\ SentInv'
<1> USE DEF ProcessInv
<1>1. /\ step \in [Callers -> Steps] /\ step' \in [Callers -> Steps]
      /\ step'[r] = s /\ \A d \in Callers : d # r => step'[d] = step[d]
      /\ r \in Callers /\ Requests \subseteq Callers
  BY DEF ProcessTypes, Goto, Steps, Callers
<1>2. /\ phase' = phase /\ client' = client /\ keyOf' = keyOf /\ dlq' = dlq
      /\ gauge' = gauge /\ sent' = sent /\ counted' = counted
      /\ faults' = faults /\ faked' = faked /\ overran' = overran
  BY DEF Unserved, history
<1>3. ProcessTypes'
  BY <1>1, <1>2 DEF ProcessTypes, Running
<1>4. MutexInv'
  <2>1. \A q \in Requests : Holds(q)' <=> q = r
    BY <1>1 DEF MutexInv, Holds
  <2> QED
    BY <2>1 DEF MutexInv
<1>5. DownInv'
  BY <1>2 DEF DownInv, Running
<1>6. CleanInv'
  BY <1>1, <1>2 DEF CleanInv
<1>7. SentInv'
  BY <1>1, <1>2 DEF SentInv
<1> QED
  BY <1>3, <1>4, <1>5, <1>6, <1>7

(* The holder of the mutex gives it back.                                  *)
LEMMA LeaveStore ==
  ASSUME ProcessInv, NEW r \in Requests, NEW s \in {"count", "execute"}, Goto(r, s),
         Holds(r), pc # "idle", pc' = "idle", saving' = {},
         UNCHANGED <<Unserved, running, faked, overran>>,
         faults' \in {faults, faults + 1}, faults' = faults => interrupted' = interrupted,
         DOMAIN acknowledged' \subseteq DOMAIN acknowledged \cup saving
  PROVE  ProcessTypes' /\ MutexInv' /\ DownInv' /\ CleanInv' /\ SentInv'
<1> USE DEF ProcessInv
<1>1. /\ step \in [Callers -> Steps] /\ step' \in [Callers -> Steps]
      /\ step'[r] = s /\ \A d \in Callers : d # r => step'[d] = step[d]
      /\ r \in Callers /\ Requests \subseteq Callers
  BY DEF ProcessTypes, Goto, Steps, Callers
<1>2. /\ phase' = phase /\ client' = client /\ keyOf' = keyOf /\ dlq' = dlq
      /\ gauge' = gauge /\ sent' = sent /\ counted' = counted
  BY DEF Unserved
<1>3. ProcessTypes'
  <2>1. faults' \in Nat
    BY FaultsCounted
  <2> QED
    BY <1>1, <1>2, <2>1 DEF ProcessTypes, Running
<1>4. MutexInv'
  <2>1. \A q \in Requests : Holds(q) <=> q = r
    BY DEF MutexInv
  <2>2. \A q \in Requests : ~Holds(q)'
    BY <1>1, <2>1 DEF Holds
  <2> QED
    BY <2>2 DEF MutexInv
<1>5. r \in Active
  BY <1>1 DEF Active, Holds
<1>6. DownInv'
  BY <1>2, <1>5 DEF DownInv, Running
<1>7. CleanInv'
  <2> SUFFICES ASSUME faults' = 0, ~overran'
               PROVE  /\ ~interrupted'
                      /\ phase' = "overdue" => Active' = {}
                      /\ \A q \in Requests : step'[q] # "lost"
    BY DEF CleanInv
  <2>1. faults = 0 /\ ~overran /\ interrupted' = interrupted
    BY FaultsCounted
  <2> QED
    BY <1>1, <1>2, <1>5, <2>1 DEF CleanInv
<1>8. SentInv'
  BY <1>1, <1>2 DEF SentInv
<1> QED
  BY <1>3, <1>4, <1>6, <1>7, <1>8

(* Nobody moves.                                                           *)
LEMMA StandStill ==
  ASSUME ProcessInv,
         UNCHANGED <<phase, client, keyOf, step, counted, gauge, sent, faults, faked,
                     overran, running, saving, acknowledged, interrupted>>,
         pc' = "idle" <=> pc = "idle", dlq' \subseteq Requests
  PROVE  ProcessTypes' /\ MutexInv' /\ DownInv' /\ CleanInv' /\ SentInv'
<1> USE DEF ProcessInv
<1>1. ProcessTypes'
  BY DEF ProcessTypes, Running
<1>2. \A r \in Requests : Holds(r)' <=> Holds(r)
  BY DEF Holds
<1>3. MutexInv'
  BY <1>2 DEF MutexInv
<1>4. Active' = Active
  BY DEF Active
<1>5. DownInv' /\ CleanInv'
  BY <1>4 DEF DownInv, CleanInv, Running
<1>6. SentInv'
  BY DEF SentInv
<1> QED
  BY <1>1, <1>3, <1>5, <1>6

LEMMA LookupInv ==
  ASSUME ProcessInv, NEW r \in Requests, Lookup(r)
  PROVE  ProcessTypes' /\ MutexInv' /\ DownInv' /\ CleanInv' /\ SentInv'
<1>1. r \in Callers /\ r \in Active /\ ~Holds(r) /\ pc = "idle"
  BY DEF Lookup, Holds, Callers, Active
<1>2. UNCHANGED <<Unserved, history>>
  BY DEF Lookup
<1>3. ASSUME NEW s \in {"done", "execute"}, Goto(r, s), UNCHANGED storeVars
      PROVE  ProcessTypes' /\ MutexInv' /\ DownInv' /\ CleanInv' /\ SentInv'
  <2>1. UNCHANGED <<phase, client, keyOf, dlq, gauge, sent, counted, faults, faked,
                    overran>>
    BY <1>2 DEF Unserved, history
  <2> QED
    BY <1>1, <1>3, <2>1, OutsideStore DEF ProcessInv, ProcessTypes, Steps
<1>4. CASE GetExpired(keyOf[r]) /\ Goto(r, "expiring")
  <2>1. /\ pc' = "persist" /\ saving' = {} /\ UNCHANGED <<running, interrupted>>
        /\ DOMAIN acknowledged' \subseteq DOMAIN acknowledged
    BY <1>4 DEF GetExpired
  <2> QED
    BY <1>1, <1>2, <1>4, <2>1, EnterStore
<1> QED
  BY <1>3, <1>4 DEF Lookup

LEMMA StartSaveInv ==
  ASSUME ProcessInv, NEW r \in Requests, StartSave(r)
  PROVE  ProcessTypes' /\ MutexInv' /\ DownInv' /\ CleanInv' /\ SentInv'
<1>1. r \in Active
  BY DEF StartSave, Callers, Active
<1>2. Goto(r, "saving") /\ UNCHANGED <<Unserved, history>>
  BY DEF StartSave
<1>3. /\ pc = "idle" /\ pc' = "persist" /\ saving' = {keyOf[r]}
      /\ UNCHANGED <<running, interrupted>>
      /\ DOMAIN acknowledged' \subseteq DOMAIN acknowledged
  BY DEF StartSave, Save, Without
<1>4. ~faked => saving' \subseteq sent
  BY <1>3 DEF StartSave, ProcessInv, SentInv
<1> QED
  BY <1>1, <1>2, <1>3, <1>4, EnterStore

LEMMA PersistInv ==
  ASSUME ProcessInv, NEW r \in Requests, Persist(r)
  PROVE  ProcessTypes' /\ MutexInv' /\ DownInv' /\ CleanInv' /\ SentInv'
<1>1. Holds(r) /\ UNCHANGED Unserved
  BY DEF Persist, Holds
<1>2. CASE Truncate /\ UNCHANGED <<step, history>>
  <2>1. /\ UNCHANGED <<phase, client, keyOf, step, counted, gauge, sent, dlq, faults,
                       faked, overran>>
        /\ UNCHANGED <<running, saving, acknowledged, interrupted>>
        /\ pc = "persist" /\ pc' = "write"
    BY <1>1, <1>2 DEF Truncate, Unserved, history
  <2>2. dlq' \subseteq Requests
    BY <2>1 DEF ProcessInv, ProcessTypes
  <2> QED
    BY <2>1, <2>2, StandStill
<1>3. ASSUME NEW s \in {"count", "execute"}, Goto(r, s), Write, UNCHANGED history
      PROVE  ProcessTypes' /\ MutexInv' /\ DownInv' /\ CleanInv' /\ SentInv'
  <2>1. /\ pc = "write" /\ pc' = "idle" /\ saving' = {}
        /\ UNCHANGED <<running, interrupted, faults, faked, overran>>
        /\ DOMAIN acknowledged' = DOMAIN acknowledged \cup saving
    BY <1>3 DEF Write, history
  <2> QED
    BY <1>1, <1>3, <2>1, LeaveStore
<1>4. ASSUME NEW s \in {"count", "execute"}, Goto(r, s), PersistFails, Fault
      PROVE  ProcessTypes' /\ MutexInv' /\ DownInv' /\ CleanInv' /\ SentInv'
  <2>1. /\ pc # "idle" /\ pc' = "idle" /\ saving' = {} /\ faults' = faults + 1
        /\ UNCHANGED <<running, acknowledged, faked, overran>>
    BY <1>4 DEF PersistFails, Fault
  <2>2. faults' # faults
    BY <2>1, SMT DEF ProcessInv, ProcessTypes
  <2> QED
    BY <1>1, <1>4, <2>1, <2>2, LeaveStore
<1> QED
  BY <1>2, <1>3, <1>4 DEF Persist

LEMMA BootInv ==
  ASSUME ProcessInv, NEW env, NEW seed, NEW deployments, Boot(env, seed, deployments)
  PROVE  ProcessTypes' /\ MutexInv' /\ DownInv' /\ CleanInv' /\ SentInv'
<1> USE DEF ProcessInv
<1> DEFINE key == Load(env, seed, deployments).privateKey
<1>1. /\ running' = TRUE
      /\ UNCHANGED <<pc, saving, acknowledged, interrupted>>
      /\ client' = IF key = "" THEN "fake" ELSE "eth"
      /\ faked' = (faked \/ key = "")
      /\ phase = "down" /\ phase' \in {"serving", "deaf"} /\ gauge' = 0
      /\ UNCHANGED <<keyOf, step, counted, dlq, sent, faults, overran>>
  BY DEF Boot, Open
<1> HIDE DEF key
<1>2. 0 \in 0 .. Cardinality(Requests)
  BY FS_CardinalityType, ProcessAssumption, SMT
<1>3. faked' \in BOOLEAN
  BY <1>1, Zenon
<1>4. ProcessTypes'
  BY <1>1, <1>2, <1>3 DEF ProcessTypes, Running
<1>5. \A r \in Requests : Holds(r)' <=> Holds(r)
  BY <1>1 DEF Holds
<1>6. MutexInv'
  BY <1>1, <1>5 DEF MutexInv
<1>7. DownInv'
  BY <1>1 DEF DownInv, Running
<1>8. CleanInv'
  BY <1>1 DEF CleanInv
<1>9. SentInv'
  <2> SUFFICES ASSUME ~faked'
               PROVE  /\ client' # "fake"
                      /\ DOMAIN acknowledged' \cup saving' \subseteq sent'
                      /\ \A r \in Requests : step'[r] = "save" => keyOf'[r] \in sent'
    BY DEF SentInv
  <2>1. ~faked /\ key # ""
    BY <1>1, Zenon
  <2> QED
    BY <1>1, <2>1 DEF SentInv
<1> QED
  BY <1>4, <1>6, <1>7, <1>8, <1>9

LEMMA SignalInv ==
  ASSUME ProcessInv, Signal
  PROVE  ProcessTypes' /\ MutexInv' /\ DownInv' /\ CleanInv' /\ SentInv'
<1> USE DEF ProcessInv
<1>1. /\ phase \in {"serving", "deaf"} /\ phase' = "draining"
      /\ UNCHANGED <<pc, running, saving, acknowledged, interrupted>>
      /\ UNCHANGED <<client, step, counted, gauge, keyOf, dlq, sent, faults, faked, overran>>
  BY DEF Signal, storeVars, Surviving, history
<1>2. ProcessTypes'
  BY <1>1 DEF ProcessTypes, Running
<1>3. \A r \in Requests : Holds(r)' <=> Holds(r)
  BY <1>1 DEF Holds
<1>4. MutexInv'
  BY <1>1, <1>3 DEF MutexInv
<1>5. DownInv' /\ CleanInv'
  BY <1>1 DEF DownInv, CleanInv, Running
<1>6. SentInv'
  BY <1>1 DEF SentInv
<1> QED
  BY <1>2, <1>4, <1>5, <1>6

LEMMA DeadlineInv ==
  ASSUME ProcessInv, Deadline
  PROVE  ProcessTypes' /\ MutexInv' /\ DownInv' /\ CleanInv' /\ SentInv'
<1> USE DEF ProcessInv
<1>1. /\ phase = "draining" /\ phase' = "overdue"
      /\ overran' = (overran \/ Active # {})
      /\ UNCHANGED <<pc, running, saving, acknowledged, interrupted>>
      /\ UNCHANGED <<client, step, counted, gauge, keyOf, dlq, sent, faults, faked>>
  BY DEF Deadline, storeVars, Surviving
<1>2. overran' \in BOOLEAN
  BY <1>1, Zenon
<1>3. ProcessTypes'
  BY <1>1, <1>2 DEF ProcessTypes, Running
<1>4. \A r \in Requests : Holds(r)' <=> Holds(r)
  BY <1>1 DEF Holds
<1>5. MutexInv'
  BY <1>1, <1>4 DEF MutexInv
<1>6. DownInv'
  BY <1>1 DEF DownInv, Running
<1>7. CleanInv'
  <2> SUFFICES ASSUME faults' = 0, ~overran'
               PROVE  /\ ~interrupted'
                      /\ phase' = "overdue" => Active' = {}
                      /\ \A r \in Requests : step'[r] # "lost"
    BY DEF CleanInv
  <2>1. ~overran /\ Active = {}
    BY <1>1, Zenon
  <2>2. Active' = Active
    BY <1>1 DEF Active
  <2> QED
    BY <1>1, <2>1, <2>2 DEF CleanInv
<1>8. SentInv'
  BY <1>1 DEF SentInv
<1> QED
  BY <1>3, <1>5, <1>6, <1>7, <1>8

(* With nobody in progress, nobody holds the mutex, and nothing is torn.   *)
LEMMA IdleWhenQuiet ==
  ASSUME ProcessInv, Active = {}
  PROVE  pc = "idle"
<1>1. SUFFICES ASSUME pc # "idle" PROVE FALSE
  OBVIOUS
<1>2. PICK r \in Requests : Holds(r)
  BY <1>1 DEF ProcessInv, MutexInv
<1>3. r \in Active
  BY <1>2 DEF Active, Callers, Holds
<1> QED
  BY <1>3

LEMMA EndInv ==
  ASSUME ProcessInv, End, UNCHANGED <<faked, overran>>,
         faults' \in {faults, faults + 1}, faults' = faults => ShutdownReturns
  PROVE  ProcessTypes' /\ MutexInv' /\ DownInv' /\ CleanInv' /\ SentInv'
<1> USE DEF ProcessInv
<1>1. /\ phase' = "down" /\ client' = "none" /\ gauge' = 0
      /\ counted' = [c \in Callers |-> 0]
      /\ UNCHANGED <<keyOf, dlq, sent, acknowledged>>
      /\ running' = FALSE /\ pc' = "idle" /\ saving' = {}
  BY DEF End, Stop, Surviving
<1>2. \A c \in Callers :
        step'[c] = IF c \notin Active THEN step[c]
                   ELSE IF c \in Probes THEN "idle" ELSE "lost"
  BY DEF End
<1>3. \A c \in Callers : step'[c] \in {"idle", "done", "lost"}
  BY <1>2 DEF Active
<1>4. ProcessTypes'
  <2>1. 0 \in 0 .. Cardinality(Requests)
    BY FS_CardinalityType, ProcessAssumption, SMT
  <2>2. step' \in [Callers -> Steps]
    BY <1>3 DEF End, Steps
  <2>3. faults' \in Nat
    BY FaultsCounted
  <2> QED
    BY <1>1, <2>1, <2>2, <2>3 DEF ProcessTypes, Running
<1>5. MutexInv'
  BY <1>1, <1>3 DEF MutexInv, Holds, Callers
<1>6. DownInv'
  BY <1>3 DEF DownInv, Active
<1>7. CleanInv'
  <2> SUFFICES ASSUME faults' = 0, ~overran'
               PROVE  /\ ~interrupted'
                      /\ phase' = "overdue" => Active' = {}
                      /\ \A r \in Requests : step'[r] # "lost"
    BY DEF CleanInv
  <2>1. faults = 0 /\ ~overran /\ ShutdownReturns
    BY FaultsCounted
  <2>2. Active = {}
    BY <2>1 DEF ShutdownReturns, CleanInv
  <2>3. pc = "idle"
    BY <2>2, IdleWhenQuiet
  <2>4. interrupted' = interrupted
    BY <2>3 DEF End, Stop
  <2> QED
    BY <1>1, <1>2, <2>1, <2>2, <2>4 DEF CleanInv, Callers
<1>8. SentInv'
  BY <1>1, <1>3 DEF SentInv, Callers
<1> QED
  BY <1>4, <1>5, <1>6, <1>7, <1>8

LEMMA StepInv ==
  ASSUME ProcessInv, [Next]_vars
  PROVE  ProcessTypes' /\ MutexInv' /\ DownInv' /\ CleanInv' /\ SentInv'
<1> DEFINE Goal == ProcessTypes' /\ MutexInv' /\ DownInv' /\ CleanInv' /\ SentInv'
<1>1. ASSUME NEW env \in Envs, NEW seed \in Seeds, NEW deployments \in DeploymentFiles,
             Boot(env, seed, deployments)
      PROVE  Goal
  BY <1>1, BootInv
<1>2. ASSUME NEW r \in Requests, Receive(r) \/ Serve(r) \/ RemoveFile(r) PROVE Goal
  <2>1. CASE RemoveFile(r)
    <3>1. /\ UNCHANGED <<phase, client, keyOf, step, counted, gauge, sent, faults, faked,
                         overran>>
          /\ UNCHANGED <<running, saving, acknowledged, interrupted, pc>>
          /\ dlq' = dlq \ {r}
      BY <2>1 DEF RemoveFile, storeVars, history
    <3>2. dlq' \subseteq Requests
      BY <3>1 DEF ProcessInv, ProcessTypes
    <3> QED
      BY <3>1, <3>2, StandStill
  <2> QED
    BY <1>2, <2>1, ReceiveInv, LookupInv, ExecuteInv, StartSaveInv, PersistInv, ParkInv
       DEF Serve
<1>3. ASSUME NEW p \in Probes, Probe(p) PROVE Goal
  BY <1>3, ProbeInv
<1>4. ASSUME NEW c \in Callers, Count(c) PROVE Goal
  BY <1>4, CountInv
<1>5. CASE Signal \/ Deadline
  BY <1>5, SignalInv, DeadlineInv
<1>6. CASE Exit \/ Crash
  <2>1. End /\ UNCHANGED <<faked, overran>>
    BY <1>6 DEF Exit, Crash, Fault, history
  <2>2. \/ faults' = faults /\ ShutdownReturns
        \/ faults' = faults + 1 /\ faults' # faults
    BY <1>6, SMT DEF Exit, Crash, Fault, history, ProcessInv, ProcessTypes
  <2> QED
    BY <2>1, <2>2, EndInv
<1>7. CASE Tick \/ UNCHANGED vars
  <2>1. /\ UNCHANGED <<phase, client, keyOf, step, counted, gauge, sent, dlq, faults, faked,
                       overran>>
        /\ UNCHANGED <<running, saving, acknowledged, interrupted, pc>>
    BY <1>7 DEF Tick, TimePasses, Unserved, history, vars, storeVars
  <2>2. dlq' \subseteq Requests
    BY <2>1 DEF ProcessInv, ProcessTypes
  <2> QED
    BY <2>1, <2>2, StandStill
<1> QED
  BY <1>1, <1>2, <1>3, <1>4, <1>5, <1>6, <1>7 DEF Next

LEMMA InitInv ==
  ASSUME Init PROVE ProcessInv
<1>1. StoreInv
  BY InitEstablishes DEF Init
<1>2. 0 \in 0 .. Cardinality(Requests)
  BY FS_CardinalityType, ProcessAssumption, SMT
<1>3. ProcessTypes
  BY <1>2 DEF Init, StoreInit, ProcessTypes, Running, Steps
<1>4. MutexInv
  BY DEF Init, StoreInit, MutexInv, Holds, Callers
<1>5. DownInv
  BY DEF Init, DownInv, Active
<1>6. CleanInv
  BY DEF Init, StoreInit, CleanInv, Callers
<1>7. SentInv
  BY DEF Init, StoreInit, SentInv, Nothing, Callers
<1> QED
  BY <1>1, <1>3, <1>4, <1>5, <1>6, <1>7 DEF ProcessInv

LEMMA ProcessInvariance == Spec => []ProcessInv
<1>1. Init => ProcessInv
  BY InitInv
<1>2. ProcessInv /\ [Next]_vars => ProcessInv'
  <2> SUFFICES ASSUME ProcessInv, [Next]_vars PROVE ProcessInv'
    OBVIOUS
  <2>1. [StoreNext]_storeVars
    BY StoreStep DEF ProcessInv
  <2>2. StoreInv'
    BY <2>1, TypeStep, CoversStep DEF ProcessInv, StoreInv
  <2> QED
    BY <2>2, StepInv DEF ProcessInv
<1> QED
  BY <1>1, <1>2, PTL DEF Spec

-----------------------------------------------------------------------------
(* What the process keeps.                                                 *)

(* The API process, through its starts, handlers, shutdowns and crashes,   *)
(* uses the file store as FileStore describes it: whatever the requests do *)
(* concurrently, the store sees one Get or Save at a time.                 *)
THEOREM ProcessImplementsStore == Spec => StoreSpec
<1>1. Init => StoreInit
  BY DEF Init
<1>2. ProcessInv /\ [Next]_vars => [StoreNext]_storeVars
  BY StoreStep DEF ProcessInv
<1> QED
  BY <1>1, <1>2, ProcessInvariance, PTL DEF Spec, StoreSpec

(* What main and the handlers acknowledge through Save is found until it   *)
(* expires, by this process and by the ones started after it, unless a     *)
(* rewrite of the file was left unfinished (store.go:94, main.go:33).      *)
THEOREM ProcessKeepsRecords == Spec => []KeptUnlessInterrupted
BY ProcessImplementsStore, AcknowledgedRecordsAreKept, PTL

(* The process keeps its types; the mutex of the store has the one holder  *)
(* that is in Get or Save, and no handler outlives its process.            *)
THEOREM ProcessTypeCorrect == Spec => []TypeOK
<1>1. ASSUME ProcessInv PROVE TypeOK
  <2> DEFINE H == {r \in Requests : step[r] \in {"expiring", "saving"}}
  <2>1. Cardinality(H) = (IF pc = "idle" THEN 0 ELSE 1)
    <3>1. CASE pc = "idle"
      <4>1. H = {}
        BY <1>1, <3>1 DEF ProcessInv, MutexInv, Holds
      <4> QED
        BY <3>1, <4>1, FS_EmptySet
    <3>2. CASE pc # "idle"
      <4>1. PICK r \in Requests : \A s \in Requests : Holds(s) <=> s = r
        BY <1>1, <3>2 DEF ProcessInv, MutexInv
      <4>2. H = {r}
        BY <4>1 DEF Holds
      <4> QED
        BY <3>2, <4>2, FS_Singleton
    <3> QED
      BY <3>1, <3>2
  <2> QED
    BY <1>1, <2>1 DEF TypeOK, ProcessInv, StoreInv, ProcessTypes, DownInv, Steps
<1> QED
  BY <1>1, ProcessInvariance, PTL

(* However often the API is stopped and started, and whatever requests are *)
(* in progress at the signal, nothing is lost if they end before the       *)
(* deadline of Shutdown and nothing fails (main.go:65).                    *)
THEOREM CleanStopsAreClean == Spec => []CleanStopsLoseNothing
<1>1. ASSUME ProcessInv PROVE CleanStopsLoseNothing
  <2>1. KeptUnlessInterrupted
    BY <1>1, CoversImpliesKept DEF ProcessInv
  <2> QED
    BY <1>1, <2>1 DEF ProcessInv, CleanInv, CleanStopsLoseNothing, KeptUnlessInterrupted
<1> QED
  BY <1>1, ProcessInvariance, PTL

(* No record answers "processed" for a callback whose executeMint was not  *)
(* sent, across all starts, as long as no process ran with the fake client *)
(* (main.go:40).                                                           *)
THEOREM ProcessedCallbacksWereSent == Spec => []ProcessedWasSent
<1>1. ProcessInv => ProcessedWasSent
  BY DEF ProcessInv, SentInv, ProcessedWasSent
<1> QED
  BY <1>1, ProcessInvariance, PTL

=============================================================================
