---------------------------- MODULE MCApiProcess ----------------------------
(* An instance of ApiProcess for TLC.                                      *)
EXTENDS ApiProcess

Unset == [set |-> FALSE, parses |-> FALSE, n |-> 0]

Env(privateKey, rpcURL, databaseURL) ==
  [clockSkew |-> Unset, rpcURL |-> rpcURL, privateKey |-> privateKey,
   databaseURL |-> databaseURL]

MCEnvs ==
  {Env("key", "", ""), Env("key", "http://node", ""), Env("not a key", "", ""),
   Env("", "", ""), Env("key", "", "postgres://db")}

Seed(rpcURL) ==
  [ok |-> TRUE, hmacSalt |-> "salt", webhookSecret |-> "webhook",
   windowSecs |-> 0, maxAttempts |-> 1, initialBackoffMs |-> 0,
   maxBackoffMs |-> 0, multiplier |-> 0, rpcURL |-> rpcURL]

MCSeeds == {Unreadable, Seed("")}

MCDeploymentFiles ==
  {Unreadable, [ok |-> TRUE, mintEscrow |-> ""],
   [ok |-> TRUE, mintEscrow |-> "0xescrow"]}

=============================================================================
