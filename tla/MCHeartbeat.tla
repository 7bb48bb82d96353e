---------------------------- MODULE MCHeartbeat ----------------------------
(* Heartbeat as TLC checks it.                                              *)
EXTENDS Heartbeat, TLC

\* Monitors, requests and sweepers are interchangeable.
Symmetry == Permutations(Monitors) \cup Permutations(Pings)
              \cup Permutations(Creates) \cup Permutations(Sweepers)
=============================================================================
