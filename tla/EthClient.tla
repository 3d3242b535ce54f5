------------------------------ MODULE EthClient ------------------------------
(***************************************************************************)
(* What the chain client, api/internal/escrow/eth_client.go, makes of the  *)
(* text of a payload: the checks before a transaction, the values the      *)
(* transaction carries, and the intent ID the API returns.  Text that ends *)
(* up on chain is a sequence of characters; an amount is a record of how   *)
(* its text reads and of the number, if it is one.                         *)
(***************************************************************************)
EXTENDS Integers, Sequences

CONSTANTS
  Accounts, Signer,   \* addresses; Signer holds CHAIN_PRIVATE_KEY
  Width,              \* characters in a bytes32 (32)
  AmountLimit         \* one more than the largest uint256

ASSUME ClientAssumption ==
  /\ Signer \in Accounts
  /\ Width \in Nat \ {0} /\ AmountLimit \in Nat \ {0}

(* Characters: the zero byte, a space, the path separator, and letters.    *)
Nul == 0
Space == 1
Slash == 2
Letter == 3

IsHexAddress(user) == user \in Accounts

Blank(text) == \A n \in 1 .. Len(text) : text[n] = Space

(* validateSubmitRequest, and the amount read by SetString.                *)
ValidSubmitRequest(payload) ==
  /\ IsHexAddress(payload.user)
  /\ payload.amount.reads \notin {"empty", "blank"}
  /\ ~Blank(payload.country) /\ ~Blank(payload.ref)
  /\ payload.amount.reads = "number"

ShortBytes(text) ==
  [n \in 1 .. Width |-> IF n <= Len(text) /\ n < Width THEN text[n] ELSE Nul]

(* Cut to Width characters, or filled with zeroes.                         *)
ToBytes32(text) ==
  [n \in 1 .. Width |-> IF n <= Len(text) THEN text[n] ELSE Nul]

(* The ABI encoder of the library keeps the low 256 bits of an amount.     *)
Packed(amount) == amount % AmountLimit

Magnitude(n) == IF n < 0 THEN -n ELSE n

UnpaddedIntentID(payload) ==
  <<payload.user, Magnitude(payload.amount.n), payload.country, payload.ref>>

(* The text keccak256 is applied to.  Bytes gives the magnitude of the     *)
(* amount, LeftPadBytes cuts nothing off.                                  *)
ComputeIntentID(payload) ==
  <<payload.user, Magnitude(payload.amount.n),
    ToBytes32(payload.country), ToBytes32(payload.ref)>>

(* The same of submitIntent, for the transaction SubmitIntent sends.       *)
ContractIntentID(payload) ==
  <<Signer, Packed(payload.amount.n),
    ToBytes32(payload.country), ToBytes32(payload.ref)>>

=============================================================================
