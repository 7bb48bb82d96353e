-------------------------- MODULE MCDrillPipeline --------------------------
(* DrillPipeline as TLC checks it.                                          *)
EXTENDS DrillPipeline, TLC

\* The rows of the job table are interchangeable.
Symmetry == Permutations(Jobs)

\* For liveness, where symmetry is unsound: of interchangeable rows, with numbers
\* for names, a new job takes the first.
FirstFreeRow ==
    \A n \in Jobs : jstate[n] = "free" /\ jstate'[n] = "available"
                       => \A m \in Jobs : jstate[m] = "free" => n <= m

\* Once nothing can fail any more, a worker that only has to return does so first: that
\* touches no row but its own, and commutes with whatever the others do.
ReturnsFirst ==
    LET returning == {j \in Jobs : jstate[j] = "running" /\ pc[j] = "return"}
    IN  faults = MaxFaults /\ returning # {} => \E j \in returning : jstate'[j] = "free"

=============================================================================
