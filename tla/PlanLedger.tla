----------------------------- MODULE PlanLedger -----------------------------
(***************************************************************************)
(* What the account row promises about a subscription: it shows what one    *)
(* of the events the payment provider has issued says, and never goes back  *)
(* to an event older than the one it shows.                                 *)
(***************************************************************************)
EXTENDS Naturals

CONSTANT Outcome(_)     \* what an event says of the account

VARIABLES
    issued,     \* events the provider has issued, each with its time "created"
    stamp,      \* the time of the event shown, 0 when none
    view        \* what is shown

LedgerVars == <<issued, stamp, view>>

LedgerInit == issued = {} /\ stamp = 0

Issue == issued \subseteq issued' /\ UNCHANGED <<stamp, view>>

Show ==
    /\ \E e \in issued : /\ stamp <= e.created
                         /\ stamp' = e.created /\ view' = Outcome(e)
    /\ UNCHANGED issued

Ledger == LedgerInit /\ [][Issue \/ Show]_LedgerVars
=============================================================================
