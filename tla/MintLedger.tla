----------------------------- MODULE MintLedger -----------------------------
(***************************************************************************)
(* What the escrow promises to whoever deposits: an abstract specification *)
(* that MintEscrow implements.  A payment reference is good for one        *)
(* intent.  An intent is settled at most once, either by minting exactly   *)
(* its amount to its user or by paying exactly its amount back, and the    *)
(* escrow gives stablecoins away for no other reason.  Who may settle,     *)
(* when, and under which compliance verdict and limits is left open.       *)
(***************************************************************************)
EXTENDS Integers

CONSTANTS Intents,      \* everything that can be asked for
          UserOf(_), AmountOf(_), TxRefOf(_),
          Users, Coins, Tokens

VARIABLES state,        \* state[i]: "Absent" or the status of intent i
          held,         \* held[c]: stablecoins c in the escrow
          returned,     \* returned[c][u]: stablecoins c paid back to user u
          supply        \* supply[t][u]: tokens t minted to user u

ledgerVars == <<state, held, returned, supply>>

LedgerState == {"Absent", "Pending", "Executed", "Refunded"}

LedgerTypeOK ==
  /\ state \in [Intents -> LedgerState]
  /\ held \in [Coins -> Nat]
  /\ returned \in [Coins -> [Users -> Nat]]
  /\ supply \in [Tokens -> [Users -> Nat]]

LedgerInit ==
  /\ state = [i \in Intents |-> "Absent"]
  /\ held = [c \in Coins |-> 0]
  /\ returned = [c \in Coins |-> [u \in Users |-> 0]]
  /\ supply = [t \in Tokens |-> [u \in Users |-> 0]]

Open(i, c) ==
  /\ \A j \in Intents : TxRefOf(j) = TxRefOf(i) => state[j] = "Absent"
  /\ state' = [state EXCEPT ![i] = "Pending"]
  /\ held' = [held EXCEPT ![c] = @ + AmountOf(i)]
  /\ UNCHANGED <<returned, supply>>

Mint(i, t) ==
  /\ state[i] = "Pending"
  /\ state' = [state EXCEPT ![i] = "Executed"]
  /\ supply' = [supply EXCEPT ![t][UserOf(i)] = @ + AmountOf(i)]
  /\ UNCHANGED <<held, returned>>

Refund(i, c) ==
  /\ state[i] = "Pending"
  /\ held[c] >= AmountOf(i)
  /\ state' = [state EXCEPT ![i] = "Refunded"]
  /\ held' = [held EXCEPT ![c] = @ - AmountOf(i)]
  /\ returned' = [returned EXCEPT ![c][UserOf(i)] = @ + AmountOf(i)]
  /\ UNCHANGED supply

(* Anyone can send the escrow stablecoins that belong to no intent.        *)
Donate(c) ==
  /\ held'[c] >= held[c]
  /\ held' = [held EXCEPT ![c] = held'[c]]
  /\ UNCHANGED <<state, returned, supply>>

LedgerNext ==
  \/ \E i \in Intents, c \in Coins : Open(i, c) \/ Refund(i, c)
  \/ \E i \in Intents, t \in Tokens : Mint(i, t)
  \/ \E c \in Coins : Donate(c)

LedgerSpec == LedgerInit /\ [][LedgerNext]_ledgerVars

=============================================================================
