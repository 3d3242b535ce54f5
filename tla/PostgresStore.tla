---------------------------- MODULE PostgresStore ----------------------------
(***************************************************************************)
(* The idempotency store the API runs on in production,                    *)
(* api/internal/idempotency/postgres_store.go: one row per key, with the   *)
(* response to repeat and the time until which to repeat it.  Each SQL     *)
(* statement is one step.  An expired row is not deleted by the Get that   *)
(* meets it but by a goroutine it starts, which runs its DELETE at any     *)
(* later time.                                                             *)
(***************************************************************************)
EXTENDS Integers

CONSTANTS Keys,      \* idempotency keys
          Window     \* cfg.Service.IdempotencyWindow

VARIABLES table,     \* idempotency_records, a function on the stored keys
          deletes,   \* deletes[k]: deleteKey(k) goroutines still to run
          saved,     \* history: table, as if deleteKey had never run
          clock      \* time.Now()

storeVars == <<table, deletes, saved>>

StoreInit ==
  /\ table = [k \in {} |-> 0]
  /\ deletes = [k \in Keys |-> 0]
  /\ saved = table

Expired(record) == clock > record.expiresAt

HitExpired(key) == key \in DOMAIN table /\ Expired(table[key])

Hit(key) == key \in DOMAIN table /\ ~Expired(table[key])

(* Get when it returns no record, because there is none or it has expired. *)
GetMiss(key) ==
  /\ ~Hit(key)
  /\ deletes' = IF key \in DOMAIN table THEN [deletes EXCEPT ![key] = @ + 1]
                                        ELSE deletes
  /\ UNCHANGED <<table, saved>>

Upsert(rows, key, record) ==
  [k \in DOMAIN rows \cup {key} |-> IF k = key THEN record ELSE rows[k]]

SaveExpired(key, response) ==
  LET record == [response |-> response, expiresAt |-> clock] IN
  /\ table' = Upsert(table, key, record)
  /\ saved' = Upsert(saved, key, record)
  /\ UNCHANGED deletes

Save(key, response) ==
  LET record == [response |-> response, expiresAt |-> clock + Window] IN
  /\ table' = Upsert(table, key, record)
  /\ saved' = Upsert(saved, key, record)
  /\ UNCHANGED deletes

(* DELETE ... WHERE key = $1, whatever row is there by now.                *)
DeleteKey(key) ==
  /\ deletes[key] > 0
  /\ deletes' = [deletes EXCEPT ![key] = @ - 1]
  /\ table' = [k \in DOMAIN table \ {key} |-> table[k]]
  /\ UNCHANGED saved

(* A response is kept until it expires ("TTL: 24 hours", docs/ADR.md:111): *)
(* no row disappears before the expiresAt it was saved with.               *)
KeptUntilExpiry ==
  \A k \in DOMAIN saved :
    ~Expired(saved[k]) => k \in DOMAIN table /\ table[k] = saved[k]

=============================================================================
