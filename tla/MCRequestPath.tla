--------------------------- MODULE MCRequestPath ---------------------------
(* An instance of RequestPath for TLC: a bytes32 is two characters, a      *)
(* uint256 is 0 .. 7, a Duration is -16 .. 15, a second is two ticks.      *)
EXTENDS RequestPath

Number(n) == [set |-> TRUE, parses |-> TRUE, n |-> n]
Text == [set |-> TRUE, parses |-> FALSE, n |-> 0]
Unset == [set |-> FALSE, parses |-> FALSE, n |-> 0]

Env(clockSkew) ==
  [clockSkew |-> clockSkew, rpcURL |-> "", privateKey |-> "key",
   databaseURL |-> ""]

MCEnvs == {Env(Unset), Env(Text), Env(Number(0))}

Seed(windowSecs, maxAttempts, initialBackoffMs, maxBackoffMs, multiplier) ==
  [ok |-> TRUE, hmacSalt |-> "salt", webhookSecret |-> "webhook",
   windowSecs |-> windowSecs, maxAttempts |-> maxAttempts,
   initialBackoffMs |-> initialBackoffMs, maxBackoffMs |-> maxBackoffMs,
   multiplier |-> multiplier, rpcURL |-> "http://node"]

(* With the default skew and MaxDelay the first window is just large       *)
(* enough, the second one for a skew of 0.  The second backoff overflows;  *)
(* the last seed has no values.                                            *)
MCSeeds ==
  {Seed(3, 4, 1, 3, 2), Seed(1, 4, 2, 0, 3), Seed(3, 3, 0, 0, 1),
   [Seed(0, 0, 0, 0, 0) EXCEPT !.hmacSalt = "", !.webhookSecret = ""]}

Amount(n) == [reads |-> "number", n |-> n]
NoAmount(reads) == [reads |-> reads, n |-> 0]

a == <<Letter>>
aa == <<Letter, Letter>>

Mint ==
  [kind |-> "mint", post |-> TRUE, json |-> TRUE, signature |-> "salt",
   timestamp |-> Number(1), key |-> a, user |-> "signer",
   amount |-> Amount(5), country |-> aa, ref |-> a, intentId |-> ""]

Callback ==
  [Mint EXCEPT !.kind = "callback", !.signature = "webhook", !.key = << >>,
               !.intentId = "wellformed"]

(* The same payment with another reference, under another key.             *)
WithRef(m, ref) == [m EXCEPT !.key = <<Slash>> \o ref, !.ref = ref]

MCMessages ==
  {Mint,
   [Mint EXCEPT !.timestamp = Number(3)],
   WithRef(Mint, aa), WithRef(Mint, <<Letter, Letter, Slash>>),
   WithRef(Mint, <<Letter, Nul>>), WithRef(Mint, <<Space>>),
   [Mint EXCEPT !.amount = Amount(-4)], [Mint EXCEPT !.amount = Amount(13)],
   [Mint EXCEPT !.amount = NoAmount("text")],
   [Mint EXCEPT !.user = "customer"],
   [Mint EXCEPT !.key = <<Space>>], [Mint EXCEPT !.json = FALSE],
   [Mint EXCEPT !.signature = "other"], [Mint EXCEPT !.timestamp = Text],
   Callback,
   [Callback EXCEPT !.timestamp = Number(3)],
   [Callback EXCEPT !.intentId = "malformed"],
   [Callback EXCEPT !.intentId = ""],
   [Callback EXCEPT !.post = FALSE],
   WithRef(Callback, <<Letter, Slash>>),
   WithRef(Callback, <<Letter, Letter, Letter, Letter>>)}

=============================================================================
