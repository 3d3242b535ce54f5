---------------------------- MODULE MCApiServer ----------------------------
(* Instances of ApiServer for TLC.                                         *)
EXTENDS ApiServer, TLC

Symmetry == Permutations(Requests) \cup Permutations(Refs)
              \cup Permutations(MintKeys)

=============================================================================
