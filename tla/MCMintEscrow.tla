---------------------------- MODULE MCMintEscrow ----------------------------
(***************************************************************************)
(* Instances of MintEscrow for TLC.  The amounts are small numbers with    *)
(* the order of the seed's ones: one below the minimum, the minimum, the   *)
(* maximum, and a daily limit that two mints reach exactly or exceed.      *)
(***************************************************************************)
EXTENDS MintEscrow, TLC

Symmetry == Permutations(TxRefs) \cup Permutations(Stablecoins)
              \cup Permutations(Tokens)

=============================================================================
