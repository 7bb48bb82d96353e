-------------------------- MODULE MCDrillScheduler --------------------------
(* DrillScheduler as TLC checks it.                                         *)
EXTENDS DrillScheduler, TLC

\* Targets, and creators of a kind, are interchangeable.
Symmetry == Permutations(Targets) \cup Permutations(Schedulers) \cup Permutations(Requests)

=============================================================================
