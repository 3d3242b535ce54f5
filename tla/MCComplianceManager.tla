------------------------ MODULE MCComplianceManager ------------------------
(* Instances of ComplianceManager for TLC.                                 *)
EXTENDS ComplianceManager, TLC

Symmetry == Permutations(Registries)

=============================================================================
