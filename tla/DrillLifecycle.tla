--------------------------- MODULE DrillLifecycle ---------------------------
(***************************************************************************)
(* What a drill promises to those who see only its row, its evidence and   *)
(* its announcements: it starts once, its PDF is signed at most once and    *)
(* while it runs, it ends once, with the status the PDF supports, and is    *)
(* announced once, with that status.  DrillPipeline without faults          *)
(* implements it.                                                          *)
(***************************************************************************)
EXTENDS Sequences

VARIABLES status, signed, events

vars == <<status, signed, events>>

Init == status = "pending" /\ signed = "none" /\ events = <<>>

Start == status = "pending" /\ status' = "running" /\ UNCHANGED <<signed, events>>

Sign == /\ status = "running" /\ signed = "none"
        /\ signed' \in {"PASSED", "RESTORED", "FAILED"}
        /\ UNCHANGED <<status, events>>

Succeed == /\ status = "running" /\ signed \in {"PASSED", "RESTORED"}
           /\ status' = "succeeded"
           /\ UNCHANGED <<signed, events>>

Fail == /\ status = "running" /\ signed \in {"none", "FAILED"}
        /\ status' = "failed"
        /\ UNCHANGED <<signed, events>>

Announce == /\ status \in {"succeeded", "failed"} /\ events = <<>>
            /\ events' = <<IF status = "failed" THEN "drill.failed" ELSE "drill.completed">>
            /\ UNCHANGED <<status, signed>>

Next == Start \/ Sign \/ Succeed \/ Fail \/ Announce

\* What a drill may never do, and, with fairness, that it starts, ends and is announced.
Safety == Init /\ [][Next]_vars
Spec == Safety /\ WF_vars(Start) /\ WF_vars(Succeed \/ Fail) /\ WF_vars(Announce)

=============================================================================
