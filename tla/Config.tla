------------------------------- MODULE Config -------------------------------
(***************************************************************************)
(* The settings of the API, api/internal/config/config.go: Load turns the  *)
(* environment, seed.json and deployments.json into an AppConfig, once,    *)
(* when the process starts.  A JSON field that is missing is zero or "".   *)
(*                                                                         *)
(* Text is a string; a setting that should be an integer also says whether *)
(* it is set and whether it reads as one.  A Duration is a signed machine  *)
(* integer, and the products that compute it wrap around.                  *)
(***************************************************************************)
EXTENDS Integers

CONSTANTS
  Second, Millisecond,   \* the units of time, in ticks of the clock
  DurationLimit,         \* Durations are -DurationLimit .. DurationLimit - 1
  DefaultSkewSecs        \* HMAC_CLOCK_SKEW_SECONDS when it is not given

ASSUME ConfigAssumption ==
  /\ Second \in Nat \ {0} /\ Millisecond \in Nat \ {0}
  /\ DurationLimit \in Nat \ {0}
  /\ DefaultSkewSecs \in Nat

Duration(n) == ((n + DurationLimit) % (2 * DurationLimit)) - DurationLimit

EnvOr(value, fallback) == IF value # "" THEN value ELSE fallback

EnvOrInt(value, fallback) ==
  IF value.set /\ value.parses THEN value.n ELSE fallback

(* A file that is missing or is not JSON, and the error it makes of Load.  *)
Unreadable == [ok |-> FALSE]

Load(env, seed, deployments) ==
  IF ~seed.ok \/ ~deployments.ok THEN Unreadable
  ELSE [ok             |-> TRUE,
        hmacSalt       |-> seed.hmacSalt,
        webhookSecret  |-> seed.webhookSecret,
        clockSkew      |-> Duration(EnvOrInt(env.clockSkew, DefaultSkewSecs)
                                      * Second),
        window         |-> Duration(seed.windowSecs * Second),
        maxAttempts    |-> seed.maxAttempts,
        initialBackoff |-> Duration(seed.initialBackoffMs * Millisecond),
        maxBackoff     |-> Duration(seed.maxBackoffMs * Millisecond),
        multiplier     |-> seed.multiplier,
        rpcURL         |-> EnvOr(env.rpcURL, seed.rpcURL),
        privateKey     |-> env.privateKey,
        databaseURL    |-> env.databaseURL,
        mintEscrow     |-> deployments.mintEscrow]

=============================================================================
