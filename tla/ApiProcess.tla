----------------------------- MODULE ApiProcess -----------------------------
(***************************************************************************)
(* The life of the API process, api/cmd/server/main.go: it loads its       *)
(* configuration, opens the file store and the chain client, serves        *)
(* callbacks and health checks, and on a signal stops listening, waits for *)
(* the requests in progress, at most as long as the clock skew of the HMAC *)
(* check, and ends.  It may also die at any moment, and it is started      *)
(* again.  What outlives it is the file of the store (FileStore), the DLQ  *)
(* directory, and what was sent to the chain; the gauge of the DLQ depth,  *)
(* which the alerts read, does not.                                        *)
(*                                                                         *)
(* Requests run concurrently and take the mutex of the store in turn.  At  *)
(* most MaxFaults crashes and failed file operations happen.               *)
(***************************************************************************)
EXTENDS FileStore, Config, FiniteSets

CONSTANTS
  Requests,                       \* deliveries of callbacks
  Probes,                         \* callers of the health endpoint
  Envs, Seeds, DeploymentFiles,   \* what the process may be started with
  Processed,                      \* the response of a processed callback
  MaxBoots, MaxFaults             \* bounds: starts, faults

(* The idempotency window is the same in every seed.                       *)
ASSUME ProcessAssumption ==
  /\ MaxBoots \in Nat /\ MaxFaults \in Nat
  /\ IsFiniteSet(Requests)
  /\ Processed \in Responses
  /\ \A seed \in Seeds : seed.ok => Duration(seed.windowSecs * Second) = Window

VARIABLES
  phase,          \* down, serving, deaf (not listening), draining, overdue
  client,         \* the chain client main chose: none, eth, fake
  keyOf,          \* the idempotency key of each request
  step, counted,  \* per caller: where it is, the depth it read
  dlq, gauge,     \* files in the DLQ directory; fiatrails_dlq_depth
  sent,           \* keys of the callbacks whose executeMint was sent
  boots, faults,  \* history: starts and faults so far
  faked, overran  \* history: fake client used? shutdown over its deadline?

history == <<boots, faults, faked, overran>>
vars == <<storeVars, phase, client, keyOf, step, counted, dlq, gauge, sent,
          history>>

Callers == Requests \cup Probes

Init ==
  /\ StoreInit
  /\ phase = "down" /\ client = "none"
  /\ keyOf \in [Requests -> Keys]
  /\ step = [c \in Callers |-> "idle"] /\ counted = [c \in Callers |-> 0]
  /\ dlq = {} /\ gauge = 0 /\ sent = {}
  /\ boots = 0 /\ faults = 0 /\ faked = FALSE /\ overran = FALSE

Active == {c \in Callers : step[c] \notin {"idle", "done", "lost"}}

Running == phase # "down"

Goto(c, s) == step' = [step EXCEPT ![c] = s]

Fault ==
  /\ faults < MaxFaults
  /\ faults' = faults + 1
  /\ UNCHANGED <<boots, faked, overran>>

-----------------------------------------------------------------------------
(* Start.                                                                  *)

(* NewEthClient.  The node must answer; if it does not there is no step.   *)
NewEthClient(cfg) ==
  cfg.rpcURL # "" /\ cfg.mintEscrow # "" /\ cfg.privateKey # "not a key"

(* main up to Start.  Every error ends the process before it does          *)
(* anything.  A failed ListenAndServe is only logged: the process stays    *)
(* and serves nobody.                                                      *)
Boot(env, seed, deployments) ==
  LET cfg == Load(env, seed, deployments) IN
  /\ phase = "down"
  /\ boots < MaxBoots
  /\ cfg.ok
  /\ cfg.databaseURL = ""      \* with a database: PostgresStore, ApiServer
  /\ Open
  /\ cfg.privateKey # "" => NewEthClient(cfg)
  /\ client' = IF cfg.privateKey = "" THEN "fake" ELSE "eth"
  /\ faked' = (faked \/ cfg.privateKey = "")
  /\ phase' \in {"serving", "deaf"}
  /\ gauge' = 0                \* newMetricsRegistry
  /\ boots' = boots + 1
  /\ UNCHANGED <<keyOf, step, counted, dlq, sent, faults, overran>>

-----------------------------------------------------------------------------
(* Callers.                                                                *)

Unserved == <<phase, client, keyOf, dlq, gauge, sent, counted>>

(* A verified callback reaches its handler.                                *)
Receive(r) ==
  /\ phase = "serving"
  /\ step[r] = "idle"
  /\ Goto(r, "lookup")
  /\ UNCHANGED <<storeVars, Unserved, history>>

(* Get, under the mutex.  Only an expired record makes it persist.         *)
Lookup(r) ==
  LET key == keyOf[r] IN
  /\ step[r] = "lookup"
  /\ Running /\ pc = "idle"
  /\ \/ /\ key \in DOMAIN data /\ ~Expired(data[key])
        /\ Goto(r, "done")
        /\ UNCHANGED storeVars
     \/ key \notin DOMAIN data /\ Goto(r, "execute") /\ UNCHANGED storeVars
     \/ GetExpired(key) /\ Goto(r, "expiring")
  /\ UNCHANGED <<Unserved, history>>

SavedAnyway == "save"

AfterFailure == "park"

(* executeMintWithRetry, to its end.  FakeClient sends nothing and never   *)
(* fails.                                                                  *)
Execute(r) ==
  /\ step[r] = "execute"
  /\ \/ /\ Goto(r, "save")
        /\ sent' = IF client = "eth" THEN sent \cup {keyOf[r]} ELSE sent
     \/ client = "eth" /\ Goto(r, AfterFailure) /\ UNCHANGED sent
  /\ UNCHANGED <<storeVars, phase, client, keyOf, dlq, gauge, counted, history>>

StartSave(r) ==
  /\ step[r] = "save"
  /\ Save(keyOf[r], Processed)
  /\ Goto(r, "saving")
  /\ UNCHANGED <<Unserved, history>>

(* The holder of the mutex goes through persist.  Its error is dropped.    *)
Persist(r) ==
  /\ step[r] \in {"expiring", "saving"}
  /\ \/ Truncate /\ UNCHANGED <<step, history>>
     \/ /\ Write /\ UNCHANGED history
        /\ Goto(r, IF step[r] = "saving" THEN "count" ELSE "execute")
     \/ /\ PersistFails /\ Fault
        /\ Goto(r, IF step[r] = "saving" THEN "count" ELSE "execute")
  /\ UNCHANGED Unserved

(* writeDLQ up to updateDLQDepth, which is left out if the directory       *)
(* cannot be made.                                                         *)
Park(r) ==
  /\ step[r] = "park"
  /\ \/ dlq' = dlq \cup {r} /\ Goto(r, "count") /\ UNCHANGED history
     \/ Fault /\ UNCHANGED dlq /\ (Goto(r, "count") \/ Goto(r, "done"))
  /\ UNCHANGED <<storeVars, phase, client, keyOf, gauge, sent, counted>>

(* handleHealth: its pings write no state, its updateDLQDepth does.        *)
Probe(p) ==
  /\ phase = "serving"
  /\ step[p] = "idle"
  /\ Goto(p, "count")
  /\ UNCHANGED <<storeVars, Unserved, history>>

(* currentDLQDepth: 0 if the directory cannot be read.                     *)
CurrentDLQDepth(c) ==
  /\ step[c] = "count"
  /\ \/ counted' = [counted EXCEPT ![c] = Cardinality(dlq)] /\ UNCHANGED history
     \/ counted' = [counted EXCEPT ![c] = 0] /\ Fault
  /\ Goto(c, "set")
  /\ UNCHANGED <<storeVars, phase, client, keyOf, dlq, gauge, sent>>

ReportOnly(c) == IF c \in Probes THEN gauge ELSE counted[c]

Gauged(c) == counted[c]

(* setDLQDepth, with the depth that was read before.                       *)
SetDLQDepth(c) ==
  /\ step[c] = "set"
  /\ gauge' = Gauged(c)
  /\ counted' = [counted EXCEPT ![c] = 0]
  /\ Goto(c, IF c \in Probes THEN "idle" ELSE "done")
  /\ UNCHANGED <<storeVars, phase, client, keyOf, dlq, sent, history>>

Serve(r) ==
  Lookup(r) \/ Execute(r) \/ StartSave(r) \/ Persist(r) \/ Park(r)

Count(c) == CurrentDLQDepth(c) \/ SetDLQDepth(c)

-----------------------------------------------------------------------------
(* Stop.                                                                   *)

Surviving == <<keyOf, dlq, sent>>

(* SIGINT or SIGTERM: Shutdown closes the listener.                        *)
Signal ==
  /\ phase \in {"serving", "deaf"}
  /\ phase' = "draining"
  /\ UNCHANGED <<storeVars, client, step, counted, gauge, Surviving, history>>

(* The context of Shutdown, HMACClockSkew after the signal.                *)
Deadline ==
  /\ phase = "draining"
  /\ phase' = "overdue"
  /\ overran' = (overran \/ Active # {})
  /\ UNCHANGED <<storeVars, client, step, counted, gauge, Surviving, boots, faults,
                 faked>>

(* What the process held in memory is gone.                                *)
End ==
  /\ Stop
  /\ phase' = "down" /\ client' = "none" /\ gauge' = 0
  /\ step' = [c \in Callers |->
                IF c \notin Active THEN step[c]
                ELSE IF c \in Probes THEN "idle" ELSE "lost"]
  /\ counted' = [c \in Callers |-> 0]
  /\ UNCHANGED Surviving

ReturnsAtOnce == phase \in {"draining", "overdue"}

ReturnsWhenDrained == phase \in {"draining", "overdue"} /\ Active = {}

(* Shutdown returns when no request is in progress, or at its deadline.    *)
ShutdownReturns == phase = "overdue" \/ (phase = "draining" /\ Active = {})

(* main returns, and with it whatever still runs.                          *)
Exit ==
  /\ ShutdownReturns
  /\ End
  /\ UNCHANGED history

Crash ==
  /\ Running
  /\ Fault
  /\ End

-----------------------------------------------------------------------------
(* The operator removes the file of a callback (docs/RUNBOOK.md:64).       *)
RemoveFile(r) ==
  /\ r \in dlq
  /\ dlq' = dlq \ {r}
  /\ UNCHANGED <<storeVars, phase, client, keyOf, step, counted, gauge, sent, history>>

Tick ==
  /\ TimePasses
  /\ UNCHANGED <<Unserved, step, history>>

Next ==
  \/ \E env \in Envs, seed \in Seeds, deployments \in DeploymentFiles :
       Boot(env, seed, deployments)
  \/ \E r \in Requests : Receive(r) \/ Serve(r) \/ RemoveFile(r)
  \/ \E p \in Probes : Probe(p)
  \/ \E c \in Callers : Count(c)
  \/ Signal \/ Deadline \/ Exit \/ Crash
  \/ Tick

Spec == Init /\ [][Next]_vars

(* The timer of the shutdown fires, main goes on when it can, and so does  *)
(* a goroutine that only reads the directory and sets the gauge.  Nothing  *)
(* is assumed of the calls to the node, which have no deadline.            *)
FairSpec ==
  /\ Spec
  /\ WF_vars(Deadline) /\ WF_vars(Exit)
  /\ \A c \in Callers : WF_vars(Count(c))

-----------------------------------------------------------------------------
(* Properties.                                                             *)

(* Type invariant.  The mutex of the store is held by one request at most, *)
(* and a process that is down serves nobody.                               *)
TypeOK ==
  /\ StoreTypeOK
  /\ phase \in {"down", "serving", "deaf", "draining", "overdue"}
  /\ running <=> Running
  /\ client \in {"none", "eth", "fake"}
  /\ step \in [Callers -> {"idle", "lookup", "expiring", "execute", "save",
                           "saving", "park", "count", "set", "done", "lost"}]
  /\ Cardinality({r \in Requests : step[r] \in {"expiring", "saving"}})
       = (IF pc = "idle" THEN 0 ELSE 1)
  /\ ~Running => Active = {}
  /\ counted \in [Callers -> 0 .. Cardinality(Requests)]
  /\ gauge \in 0 .. Cardinality(Requests)
  /\ dlq \subseteq Requests /\ sent \subseteq Keys

(* Stopping and starting the API, as often as one likes and whatever       *)
(* requests are in progress at the signal, loses nothing if the requests   *)
(* end before the deadline of the shutdown and nothing fails: no request   *)
(* is cut off, no rewrite of the store's file is left unfinished, and      *)
(* every acknowledged record is found by the next process until it         *)
(* expires (main.go:65).                                                   *)
CleanStopsLoseNothing ==
  faults = 0 /\ ~overran =>
    /\ AcknowledgedIsKept /\ ~interrupted
    /\ \A r \in Requests : step[r] # "lost"

(* A record that answers later deliveries of a callback "processed" stands *)
(* for an executeMint that was sent, by this process or an earlier one,    *)
(* unless some process ran without CHAIN_PRIVATE_KEY: the records of the   *)
(* fake client look the same and outlive it (main.go:40, fake_client.go).  *)
ProcessedWasSent == ~faked => DOMAIN acknowledged \subseteq sent

(* After a signal the process ends, also when a request hangs in a call to *)
(* the node or in the rewrite of the file (main.go:65).                    *)
SignalEndsProcess == phase = "draining" ~> phase = "down"

(* "Number of items in the DLQ" (metrics.go): whoever begins to update the *)
(* gauge while files wait in the DLQ makes it positive, if the directory   *)
(* can be read, the process goes on serving and nobody empties the         *)
(* directory; another update in between may only delay it.  After a start  *)
(* the gauge is 0 until there is such an update.                           *)
WaitingFilesShow ==
  (dlq # {} /\ \E c \in Callers : step[c] = "count")
    ~> (gauge > 0 \/ dlq = {} \/ phase # "serving" \/ faults > 0)

=============================================================================
