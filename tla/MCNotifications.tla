-------------------------- MODULE MCNotifications --------------------------
(***************************************************************************)
(* Notifications as TLC checks it: events that overlap, with one endpoint    *)
(* and one delivery; one event with several endpoints, deliveries, retries   *)
(* and requests; or requests for endpoints up to the cap and past it.        *)
(***************************************************************************)
EXTENDS Notifications, TLC

VARIABLE scope     \* "fanout", "delivery" or "cap"

Used(S, unused, f) == {x \in S : f[x] # unused}

\* What each of the three explores.
InScope ==
    IF scope = "fanout"
    THEN /\ Cardinality(Used(Endpoints, "none", endpoint)) <= 1
         /\ Cardinality(Used(Rows, NoRow, row)) <= 1
         /\ Cardinality(Used(Requests, NoRequest, req)) <= 1
         /\ \A r \in Rows : attempt[r] <= 1
         /\ edits <= 1 /\ (\A q \in Requests : req[q].pc \in {"idle", "save"})
         /\ monitor.status # "paused"     \* nothing here tells it from "new"
    ELSE IF scope = "cap" THEN fanouts = 0 /\ row[1] = NoRow
    ELSE /\ edits <= 2 /\ uncounted = 0
         /\ fanouts <= 1 /\ (\A p \in Emitters : em[p].event \in {"none", "failed"})
         /\ suppressed = {} /\ ~pager /\ monitor.status = "up"

MCInit == scope \in {"fanout", "delivery", "cap"} /\ Init /\ InScope
MCNext == UNCHANGED scope /\ Next /\ InScope'
MCSpec == MCInit /\ [][MCNext]_<<vars, scope>>

\* Endpoints, emitters and requests are interchangeable.
Symmetry == Permutations(Endpoints) \cup Permutations(Emitters) \cup Permutations(Requests)

=============================================================================
