-------------------------- MODULE MCEvidenceVault --------------------------
(* EvidenceVault on small sets; writers are interchangeable. *)
EXTENDS EvidenceVault, TLC
Symmetry == Permutations(Writers)
=============================================================================
