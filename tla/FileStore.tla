------------------------------ MODULE FileStore ------------------------------
(***************************************************************************)
(* The idempotency store the API uses without a database, FileStore of     *)
(* api/internal/idempotency/store.go: a map in memory, and a JSON file     *)
(* that every change rewrites as a whole.  The mutex lets one Get or Save  *)
(* run at a time, but the process can die, and the disk can refuse, inside *)
(* the rewrite: os.WriteFile empties the file before it writes.            *)
(*                                                                         *)
(* Death of the process is modelled, not of the operating system (nothing  *)
(* calls fsync).                                                           *)
(***************************************************************************)
EXTENDS Integers

CONSTANTS Keys, Responses,   \* idempotency keys and the responses stored
          Window,            \* cfg.Service.IdempotencyWindow
          MaxTime            \* bound: last value of the clock

ASSUME StoreAssumption == Window \in Nat /\ MaxTime \in Nat

VARIABLES
  running,       \* is there a process that has opened the store?
  data,          \* FileStore.data, a function on the stored keys
  file,          \* what is at FileStore.path
  pc,            \* where the holder of the mutex is: idle, persist, write
  saving,        \* the keys the running Save is to store: one, or none in Get
  acknowledged,  \* history: the records whose Save returned nil
  interrupted,   \* history: was a rewrite ever left unfinished?
  clock          \* time.Now()

storeVars == <<running, data, file, pc, saving, acknowledged, interrupted, clock>>

Nothing == [k \in {} |-> 0]

Without(records, keys) == [k \in DOMAIN records \ keys |-> records[k]]

With(records, key, record) ==
  [k \in DOMAIN records \cup {key} |-> IF k = key THEN record ELSE records[k]]

Json(records) == [kind |-> "json", records |-> records]
NotJson(kind) == [kind |-> kind, records |-> Nothing]

StoreInit ==
  /\ running = FALSE
  /\ data = Nothing /\ file = NotJson("absent")
  /\ pc = "idle" /\ saving = {}
  /\ acknowledged = Nothing /\ interrupted = FALSE
  /\ clock = 0

Expired(record) == clock > record.expiresAt

(* time.Now().Add(window), computed by the handler that calls Save.        *)
ExpiresAt == clock + Window

OpenEmpty ==
  /\ ~running
  /\ file.kind # "torn"
  /\ running' = TRUE
  /\ data' = Nothing
  /\ UNCHANGED <<file, pc, saving, acknowledged, interrupted, clock>>

(* NewFileStore.  A missing or empty file is an empty store.  With a torn  *)
(* file json.Unmarshal fails and main ends: there is no step.              *)
Open ==
  /\ ~running
  /\ file.kind # "torn"
  /\ running' = TRUE
  /\ data' = file.records
  /\ UNCHANGED <<file, pc, saving, acknowledged, interrupted, clock>>

SaveUnlocked(key, response) ==
  /\ running
  /\ data' = With(data, key, [response |-> response, expiresAt |-> ExpiresAt])
  /\ saving' = {key}
  /\ acknowledged' = Without(acknowledged, {key})
  /\ pc' = "persist"
  /\ UNCHANGED <<running, file, interrupted, clock>>

(* Save up to persist.  Until it returns, nothing is promised of the key.  *)
Save(key, response) ==
  /\ running /\ pc = "idle"
  /\ data' = With(data, key, [response |-> response, expiresAt |-> ExpiresAt])
  /\ saving' = {key}
  /\ acknowledged' = Without(acknowledged, {key})
  /\ pc' = "persist"
  /\ UNCHANGED <<running, file, interrupted, clock>>

(* Get that meets an expired record: it also rewrites the file.  The other *)
(* outcomes of Get change nothing.                                         *)
GetExpired(key) ==
  /\ running /\ pc = "idle"
  /\ key \in DOMAIN data /\ Expired(data[key])
  /\ data' = Without(data, {key})
  /\ saving' = {}
  /\ pc' = "persist"
  /\ UNCHANGED <<running, file, acknowledged, interrupted, clock>>

(* persist up to the open of os.WriteFile, which truncates.                *)
Truncate ==
  /\ pc = "persist"
  /\ file' = NotJson("empty")
  /\ pc' = "write"
  /\ UNCHANGED <<running, data, saving, acknowledged, interrupted, clock>>

(* The rest of os.WriteFile; Save returns nil.                             *)
Write ==
  /\ pc = "write"
  /\ file' = Json(data)
  /\ acknowledged' = [k \in DOMAIN acknowledged \cup saving |->
                        IF k \in saving THEN data[k] ELSE acknowledged[k]]
  /\ pc' = "idle" /\ saving' = {}
  /\ UNCHANGED <<running, data, interrupted, clock>>

(* MkdirAll or the open fails, or the write does.  Save returns the error, *)
(* Get drops it; the map keeps the change.                                 *)
PersistFails ==
  /\ \/ pc = "persist" /\ UNCHANGED <<file, interrupted>>
     \/ /\ pc = "write"
        /\ file' \in {NotJson("empty"), NotJson("torn")}
        /\ interrupted' = TRUE
  /\ pc' = "idle" /\ saving' = {}
  /\ UNCHANGED <<running, data, acknowledged, clock>>

(* The process ends, perhaps inside the rewrite.                           *)
Stop ==
  /\ running
  /\ \/ pc # "write" /\ UNCHANGED <<file, interrupted>>
     \/ /\ pc = "write"
        /\ file' \in {NotJson("empty"), NotJson("torn"), Json(data)}
        /\ interrupted' = (interrupted \/ file'.kind # "json")
  /\ running' = FALSE
  /\ data' = Nothing
  /\ pc' = "idle" /\ saving' = {}
  /\ UNCHANGED <<acknowledged, clock>>

TimePasses ==
  /\ clock < MaxTime
  /\ clock' = clock + 1
  /\ UNCHANGED <<running, data, file, pc, saving, acknowledged, interrupted>>

StoreNext ==
  \/ Open
  \/ \E key \in Keys, response \in Responses : Save(key, response)
  \/ \E key \in Keys : GetExpired(key)
  \/ Truncate
  \/ Write
  \/ PersistFails
  \/ Stop
  \/ TimePasses

StoreSpec == StoreInit /\ [][StoreNext]_storeVars

-----------------------------------------------------------------------------
(* Properties.                                                             *)

Record == [response : Responses, expiresAt : Nat]
Partial(records) ==
  DOMAIN records \subseteq Keys /\ \A k \in DOMAIN records : records[k] \in Record

(* Type invariant of the store.  A stopped process holds no map and no     *)
(* mutex.                                                                  *)
StoreTypeOK ==
  /\ running \in BOOLEAN /\ interrupted \in BOOLEAN
  /\ Partial(data) /\ Partial(file.records) /\ Partial(acknowledged)
  /\ file.kind \in {"absent", "empty", "torn", "json"}
  /\ pc \in {"idle", "persist", "write"}
  /\ saving \subseteq DOMAIN data
  /\ ~running => pc = "idle" /\ data = Nothing
  /\ clock \in 0 .. MaxTime

(* Is the record in memory or, when nothing runs, where Open will find it? *)
Kept(key) ==
  LET records == IF running THEN data ELSE file.records IN
  key \in DOMAIN records /\ records[key] = acknowledged[key]

AcknowledgedIsKept ==
  \A k \in DOMAIN acknowledged : ~Expired(acknowledged[k]) => Kept(k)

(* "FileStore persists records to disk" (store.go:59): a record whose Save *)
(* returned nil is there until it expires, across restarts, for every      *)
(* order of saves, expiries, failed persists and crashes in which no       *)
(* rewrite was left unfinished after the truncation.                       *)
KeptUnlessInterrupted == ~interrupted => AcknowledgedIsKept

=============================================================================
