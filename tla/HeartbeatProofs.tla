-------------------------- MODULE HeartbeatProofs --------------------------
(****************************************************************************)
(* Proofs about Heartbeat, for any number of monitors, requests, sweepers,  *)
(* faults and instants. The deadline invariant ActiveIsArmed is inductive   *)
(* with the types alone, and the action property NoFalseAlarm follows from  *)
(* it. OneAlertPerEdge counts the transitions against the announcements     *)
(* made and owed; MonitorGate counts the requests that have counted.        *)
(****************************************************************************)
EXTENDS Heartbeat, FiniteSetTheorems, TLAPS

USE HeartbeatAssumption

RequestsOK ==
    /\ ping \in [Pings -> PingSet \cup {NoPing}]
    /\ \A p \in Pings : pc[p] \notin {"idle", "done"} => ping[p] \in PingSet
    /\ pc \in [Pings -> {"idle", "begun", "up", "down", "done"}]
    /\ began \in [Pings -> Nat]

\* Answering a request leaves the types of all requests alone.
LEMMA AnswerTypes ==
    ASSUME RequestsOK, NEW p \in Pings, Answer(p)
    PROVE  RequestsOK'
<1>1. /\ ping' \in [Pings -> PingSet \cup {NoPing}]
      /\ pc' \in [Pings -> {"idle", "begun", "up", "down", "done"}]
      /\ began' \in [Pings -> Nat]
  BY DEF RequestsOK, Answer, Null
<1>2. ASSUME NEW q \in Pings, pc'[q] \notin {"idle", "done"} PROVE ping'[q] \in PingSet
  <2>1. q # p
    BY <1>2 DEF RequestsOK, Answer
  <2>2. pc'[q] = pc[q] /\ ping'[q] = ping[q]
    BY <2>1 DEF RequestsOK, Answer
  <2> QED BY <1>2, <2>2 DEF RequestsOK
<1> QED BY <1>1, <1>2 DEF RequestsOK

\* Every variable keeps its type: the statements of the store write only values
\* the rest of the code understands.
THEOREM TypeCorrect == Spec => []TypeOK
<1>1. Init => TypeOK
  BY DEF Init, TypeOK, Zero, Event, Null, Status
<1>2. TypeOK /\ [Next]_vars => TypeOK'
  <2> SUFFICES ASSUME TypeOK, [Next]_vars PROVE TypeOK'
    OBVIOUS
  <2> USE DEF TypeOK, rowVars, pingVars, histVars, Null
  <2>1. ASSUME NEW c \in Creates, CountMonitors(c) PROVE TypeOK'
    BY <2>1 DEF CountMonitors
  <2>2. ASSUME NEW c \in Creates, Create(c) PROVE TypeOK'
    BY <2>2 DEF Create, Status
  <2>3. ASSUME NEW p \in Pings, PingBegin(p) PROVE TypeOK'
    BY <2>3 DEF PingBegin
  <2>4. ASSUME NEW p \in Pings, PingIgnored(p) PROVE TypeOK'
    <3>1. RequestsOK'
      BY <2>4, AnswerTypes DEF PingIgnored, RequestsOK
    <3> QED BY <2>4, <3>1 DEF PingIgnored, RequestsOK
  <2>5. ASSUME NEW p \in Pings, RecordPing(p) PROVE TypeOK'
    <3> DEFINE m == ping[p].m
               new == IF ping[p].kind = "fail" THEN "down" ELSE "up"
    <3>1. m \in Monitors /\ new \in Event /\ new \in Status
      BY <2>5 DEF RecordPing, PingSet, Event, Status
    <3>2. Rearmed(m, ping[p].kind, began[p]) \in Nat
      BY <3>1 DEF Rearmed
    <3>3. edges' \in [Monitors -> [Event -> Nat]]
      BY <3>1, <2>5 DEF RecordPing
    <3>4. RequestsOK'
      <4>1. CASE Transitioned(status[m], new)
        <5>1. /\ pc' = [pc EXCEPT ![p] = new] /\ ping' = ping
              /\ began' = [began EXCEPT ![p] = Null] /\ ping[p] \in PingSet
          BY <2>5, <4>1 DEF RecordPing
        <5> QED BY <3>1, <5>1 DEF RequestsOK, Event
      <4>2. CASE ~Transitioned(status[m], new)
        BY <2>5, <4>2, AnswerTypes DEF RecordPing, RequestsOK
      <4> QED BY <4>1, <4>2
    <3>5. heard' \in [Monitors -> Nat] /\ setBack' \subseteq Monitors
      BY <2>5, <3>1 DEF RecordPing
    <3> QED BY <2>5, <3>1, <3>2, <3>3, <3>4, <3>5 DEF RecordPing, RequestsOK
  <2>6. ASSUME NEW p \in Pings, PingAnnounce(p) PROVE TypeOK'
    <3>1. ping[p].m \in Monitors /\ pc[p] \in Event
      BY <2>6 DEF PingAnnounce, PingSet, Event
    <3>2. told' \in [Monitors -> [Event -> Nat]]
      BY <2>6, <3>1 DEF PingAnnounce
    <3>3. RequestsOK'
      BY <2>6, AnswerTypes DEF PingAnnounce, RequestsOK
    <3> QED BY <2>6, <3>2, <3>3 DEF PingAnnounce, RequestsOK
  <2>7. ASSUME NEW s \in Sweepers, MarkOverdueDown(s) PROVE TypeOK'
    <3>1. edges' \in [Monitors -> [Event -> Nat]]
      BY <2>7 DEF MarkOverdueDown, Event
    <3> QED BY <2>7, <3>1 DEF MarkOverdueDown, Status
  <2>8. ASSUME NEW s \in Sweepers, SweepAnnounce(s) PROVE TypeOK'
    <3>1. PICK m \in todo[s] : told' = [told EXCEPT ![m]["down"] = @ + 1]
                                /\ todo' = [todo EXCEPT ![s] = @ \ {m}]
      BY <2>8 DEF SweepAnnounce
    <3>2. m \in Monitors
      BY <3>1
    <3>3. told' \in [Monitors -> [Event -> Nat]]
      BY <3>1, <3>2 DEF Event
    <3> QED BY <2>8, <3>1, <3>3 DEF SweepAnnounce
  <2>9. ASSUME NEW m \in Monitors, Pause(m) PROVE TypeOK'
    BY <2>9 DEF Pause, Edit, Status, Null
  <2>10. ASSUME NEW m \in Monitors, Resume(m) PROVE TypeOK'
    BY <2>10 DEF Resume, Edit, Status
  <2>11. ASSUME NEW m \in Monitors, Delete(m) PROVE TypeOK'
    BY <2>11 DEF Delete, Edit
  <2>12. CASE AccountChanges
    BY <2>12 DEF AccountChanges, Edit
  <2>13. CASE Tick
    BY <2>13 DEF Tick
  <2>14. CASE AnnouncementsLost
    <3>1. RequestsOK /\ todo' \in [Sweepers -> SUBSET Monitors]
      BY <2>14 DEF AnnouncementsLost, RequestsOK
    <3>2. RequestsOK'
      <4>1. ASSUME NEW p \in Pings, Answer(p) PROVE RequestsOK'
        BY <3>1, <4>1, AnswerTypes
      <4>2. CASE UNCHANGED pingVars
        BY <3>1, <4>2 DEF RequestsOK
      <4> QED BY <2>14, <4>1, <4>2 DEF AnnouncementsLost
    <3> QED BY <2>14, <3>1, <3>2 DEF AnnouncementsLost, RequestsOK
  <2>15. CASE UNCHANGED vars
    BY <2>15 DEF vars
  <2>16. ASSUME NEW c \in Creates, CountFails(c) PROVE TypeOK'
    BY <2>16 DEF CountFails
  <2> QED BY <2>1, <2>2, <2>3, <2>4, <2>5, <2>6, <2>7, <2>8, <2>9, <2>10, <2>11, <2>12,
             <2>13, <2>14, <2>15, <2>16 DEF Next, Request, Sweep, Dashboard
<1> QED BY <1>1, <1>2, PTL DEF Spec

\* A step that leaves the rows alone leaves the deadlines alone.
LEMMA RowsUnchanged ==
    ASSUME ActiveIsArmed, UNCHANGED <<status, expectedBy, heard, setBack>>
    PROVE  ActiveIsArmed'
BY DEF ActiveIsArmed

\* No step leaves an active monitor without the deadline its last success set.
LEMMA StepKeepsArmed ==
    ASSUME TypeOK, ActiveIsArmed, [Next]_vars
    PROVE  ActiveIsArmed'
<1> USE DEF TypeOK, ActiveIsArmed, Active, Null
<1>1. ASSUME NEW c \in Creates, Create(c) PROVE ActiveIsArmed'
  BY <1>1 DEF Create
<1>2. ASSUME NEW p \in Pings, RecordPing(p) PROVE ActiveIsArmed'
  <2>1. ASSUME NEW n \in Monitors, status'[n] \in Active
        PROVE  /\ expectedBy'[n] # Null /\ expectedBy'[n] <= heard'[n] + Period
               /\ n \notin setBack' => expectedBy'[n] = heard'[n] + Period
    <3>1. CASE n = ping[p].m
      <4>1. ping[p].kind = "ping" /\ expectedBy'[n] = began[p] + Period /\ began[p] \in Nat
        BY <1>2, <2>1, <3>1 DEF RecordPing, Rearmed, PingSet, Kind
      <4>2. CASE began[p] < heard[n]
        BY <1>2, <3>1, <4>1, <4>2 DEF RecordPing, Null
      <4>3. CASE ~(began[p] < heard[n])
        <5>1. heard'[n] = began[p]
          BY <1>2, <3>1, <4>1, <4>3 DEF RecordPing
        <5> QED BY <4>1, <5>1 DEF Null
      <4> QED BY <4>2, <4>3
    <3>2. CASE n # ping[p].m
      BY <1>2, <2>1, <3>2 DEF RecordPing
    <3> QED BY <3>1, <3>2
  <2> QED BY <2>1
<1>3. ASSUME NEW s \in Sweepers, MarkOverdueDown(s) PROVE ActiveIsArmed'
  BY <1>3 DEF MarkOverdueDown
<1>4. ASSUME NEW m \in Monitors, Pause(m) PROVE ActiveIsArmed'
  BY <1>4 DEF Pause, histVars
<1>5. ASSUME NEW m \in Monitors, Resume(m) PROVE ActiveIsArmed'
  BY <1>5 DEF Resume
<1>6. ASSUME UNCHANGED <<status, expectedBy, heard, setBack>> PROVE ActiveIsArmed'
  BY <1>6, RowsUnchanged
<1>7. ASSUME NEW s \in Sweepers, SweepAnnounce(s)
      PROVE  UNCHANGED <<status, expectedBy, heard, setBack>>
  BY <1>7 DEF SweepAnnounce, rowVars
<1>8. ASSUME NEW p \in Pings, PingBegin(p) \/ PingIgnored(p) \/ PingAnnounce(p)
      PROVE  UNCHANGED <<status, expectedBy, heard, setBack>>
  BY <1>8 DEF PingBegin, PingIgnored, PingAnnounce, rowVars, histVars
<1>9. ASSUME NEW c \in Creates, CountMonitors(c) \/ CountFails(c)
      PROVE  UNCHANGED <<status, expectedBy, heard, setBack>>
  BY <1>9 DEF CountMonitors, CountFails, rowVars, histVars
<1>10. ASSUME NEW m \in Monitors, Delete(m) PROVE UNCHANGED <<status, expectedBy, heard, setBack>>
  BY <1>10 DEF Delete, histVars
<1>11. ASSUME AccountChanges \/ Tick \/ AnnouncementsLost \/ UNCHANGED vars
       PROVE  UNCHANGED <<status, expectedBy, heard, setBack>>
  BY <1>11 DEF AccountChanges, Tick, AnnouncementsLost, vars, rowVars, histVars
<1> QED BY <1>1, <1>2, <1>3, <1>4, <1>5, <1>6, <1>7, <1>8, <1>9, <1>10, <1>11
        DEF Next, Request, Sweep, Dashboard

\* Whatever pings, pauses, resumes and sweeps follow each other, a monitor that
\* is "new" or "up" has the deadline that lets the sweeper find it.
THEOREM ActiveMonitorsLapse == Spec => []ActiveIsArmed
<1>1. Init => ActiveIsArmed
  BY DEF Init, ActiveIsArmed, Active
<1> QED BY <1>1, StepKeepsArmed, TypeCorrect, PTL DEF Spec

\* The sweeper takes down only monitors whose latest sign of life is further back than the
\* period and the grace (MarkOverdueDown), except those whose deadline an older ping, late at
\* the row, has set back (RecordPing).
THEOREM SweeperIsRight == Spec => NoFalseAlarm
<1>1. ASSUME TypeOK, ActiveIsArmed, NEW s \in Sweepers, MarkOverdueDown(s),
             NEW m \in Monitors, status'[m] # status[m]
      PROVE  m \in setBack \/ heard[m] + Period + Grace < now
  BY <1>1 DEF MarkOverdueDown, Swept, PastDeadline, ActiveIsArmed, TypeOK
<1>2. TypeOK /\ ActiveIsArmed /\ [Next]_vars =>
        [\A s \in Sweepers : MarkOverdueDown(s) =>
            \A m \in Monitors : status'[m] # status[m] =>
                m \in setBack \/ heard[m] + Period + Grace < now]_vars
  BY <1>1
<1> QED BY <1>2, TypeCorrect, ActiveMonitorsLapse, PTL DEF Spec, NoFalseAlarm

-----------------------------------------------------------------------------
(* Announcements: told + owed <= edges, counted over requests and sweepers. *)

\* The requests and the sweepers that still have to announce event e of monitor m.
Requests(m, e) == {p \in Pings : ping[p].m = m /\ pc[p] = e}
Sweeps(m, e) == {s \in Sweepers : e = "down" /\ m \in todo[s]}
Kept(m, e) == told[m][e] + Cardinality(Requests(m, e)) + Cardinality(Sweeps(m, e)) <= edges[m][e]

\* How many elements of a set are left when some, or one, is taken away or added.
LEMMA Counting ==
    ASSUME NEW S, IsFiniteSet(S), NEW A \in SUBSET S
    PROVE  /\ Cardinality(A) \in Nat /\ Cardinality(A) <= Cardinality(S)
           /\ \A B \in SUBSET A : Cardinality(B) \in Nat /\ Cardinality(B) <= Cardinality(A)
           /\ \A x \in S : x \notin A => Cardinality(A \cup {x}) = Cardinality(A) + 1
           /\ \A x \in A : Cardinality(A \ {x}) = Cardinality(A) - 1
<1>1. IsFiniteSet(A)
  BY FS_Subset
<1>2. \A B \in SUBSET A : IsFiniteSet(B) /\ Cardinality(B) <= Cardinality(A)
  BY <1>1, FS_Subset
<1>3. \A x \in S : x \notin A => Cardinality(A \cup {x}) = Cardinality(A) + 1
  BY <1>1, FS_AddElement
<1>4. \A x \in A : Cardinality(A \ {x}) = Cardinality(A) - 1
  BY <1>1, FS_RemoveElement
<1> QED BY <1>1, <1>2, <1>3, <1>4, FS_CardinalityType, FS_Subset

\* OneAlertPerEdge counts the same with the empty set of sweepers for "up".
LEMMA OwedInTwoSets ==
    ASSUME TypeOK
    PROVE  OneAlertPerEdge <=> \A m \in Monitors, e \in Event : Kept(m, e)
<1> SUFFICES ASSUME NEW m \in Monitors, NEW e \in Event
             PROVE  Kept(m, e) <=> told[m][e] + Owed(m, e) <= edges[m][e]
  BY DEF OneAlertPerEdge
<1>1. Requests(m, e) \in SUBSET Pings /\ Sweeps(m, e) \in SUBSET Sweepers
  BY DEF Requests, Sweeps
<1>2. Cardinality(Requests(m, e)) \in Nat /\ Cardinality(Sweeps(m, e)) \in Nat
  BY <1>1, Counting
<1>3. Owed(m, e) = Cardinality(Requests(m, e)) + Cardinality(Sweeps(m, e))
  <2>1. CASE e = "down"
    BY <2>1, <1>2 DEF Owed, Requests, Sweeps
  <2>2. CASE e # "down"
    <3>1. Sweeps(m, e) = {}
      BY <2>2 DEF Sweeps
    <3> QED BY <2>2, <3>1, <1>2, FS_EmptySet DEF Owed, Requests
  <2> QED BY <2>1, <2>2
<1>4. told[m][e] \in Nat /\ edges[m][e] \in Nat
  BY DEF TypeOK
<1> QED BY <1>2, <1>3, <1>4 DEF Kept

\* A step that announces nothing and takes on nothing new.
LEMMA NothingOwed ==
    ASSUME TypeOK, TypeOK', NEW m \in Monitors, NEW e \in Event, Kept(m, e),
           told'[m][e] = told[m][e], edges[m][e] <= edges'[m][e],
           Requests(m, e)' \subseteq Requests(m, e), Sweeps(m, e)' \subseteq Sweeps(m, e)
    PROVE  Kept(m, e)'
<1>1. Requests(m, e) \in SUBSET Pings /\ Sweeps(m, e) \in SUBSET Sweepers
  BY DEF Requests, Sweeps
<1>2. /\ Cardinality(Requests(m, e)') \in Nat /\ Cardinality(Sweeps(m, e)') \in Nat
      /\ Cardinality(Requests(m, e)) \in Nat /\ Cardinality(Sweeps(m, e)) \in Nat
      /\ Cardinality(Requests(m, e)') <= Cardinality(Requests(m, e))
      /\ Cardinality(Sweeps(m, e)') <= Cardinality(Sweeps(m, e))
  BY <1>1, Counting
<1>3. /\ told[m][e] \in Nat /\ edges[m][e] \in Nat
      /\ told'[m][e] \in Nat /\ edges'[m][e] \in Nat
  BY DEF TypeOK
<1> QED BY <1>2, <1>3 DEF Kept

\* A transition and the request or the sweeper that takes it on to announce it, or the
\* announcement and the one that no longer owes it: one more, or one less, on each side.
LEMMA TakenOn ==
    ASSUME TypeOK, TypeOK', NEW m \in Monitors, NEW e \in Event, Kept(m, e),
           \/ /\ told'[m][e] = told[m][e] /\ edges'[m][e] = edges[m][e] + 1
              /\ \/ /\ Sweeps(m, e)' = Sweeps(m, e)
                    /\ \E p \in Pings \ Requests(m, e) :
                          Requests(m, e)' = Requests(m, e) \cup {p}
                 \/ /\ Requests(m, e)' = Requests(m, e)
                    /\ \E s \in Sweepers \ Sweeps(m, e) :
                          Sweeps(m, e)' = Sweeps(m, e) \cup {s}
           \/ /\ told'[m][e] = told[m][e] + 1 /\ edges'[m][e] = edges[m][e]
              /\ \/ /\ Sweeps(m, e)' = Sweeps(m, e)
                    /\ \E p \in Requests(m, e) : Requests(m, e)' = Requests(m, e) \ {p}
                 \/ /\ Requests(m, e)' = Requests(m, e)
                    /\ \E s \in Sweeps(m, e) : Sweeps(m, e)' = Sweeps(m, e) \ {s}
    PROVE  Kept(m, e)'
<1>1. Requests(m, e) \in SUBSET Pings /\ Sweeps(m, e) \in SUBSET Sweepers
  BY DEF Requests, Sweeps
<1>2. /\ Cardinality(Requests(m, e)) \in Nat /\ Cardinality(Sweeps(m, e)) \in Nat
      /\ told[m][e] \in Nat /\ edges[m][e] \in Nat
  BY <1>1, Counting DEF TypeOK
<1>3. /\ \A p \in Pings \ Requests(m, e) :
            Cardinality(Requests(m, e) \cup {p}) = Cardinality(Requests(m, e)) + 1
      /\ \A s \in Sweepers \ Sweeps(m, e) :
            Cardinality(Sweeps(m, e) \cup {s}) = Cardinality(Sweeps(m, e)) + 1
      /\ \A p \in Requests(m, e) :
            Cardinality(Requests(m, e) \ {p}) = Cardinality(Requests(m, e)) - 1
      /\ \A s \in Sweeps(m, e) :
            Cardinality(Sweeps(m, e) \ {s}) = Cardinality(Sweeps(m, e)) - 1
  BY <1>1, Counting
<1> QED BY <1>2, <1>3 DEF Kept

\* A request that is answered owes nothing any more.
LEMMA AnswerOwesNothing ==
    ASSUME TypeOK, NEW p \in Pings, Answer(p), NEW m \in Monitors, NEW e \in Event
    PROVE  Requests(m, e)' = Requests(m, e) \ {p}
BY DEF TypeOK, Answer, Requests, Event

\* Whoever commits a transition owes its announcement, and who announces owed it.
LEMMA StepKeepsEdges ==
    ASSUME TypeOK, TypeOK', [Next]_vars, NEW m \in Monitors, NEW e \in Event, Kept(m, e)
    PROVE  Kept(m, e)'
<1> USE DEF rowVars, pingVars, histVars
<1>0. /\ Requests(m, e) \subseteq Pings /\ Sweeps(m, e) \subseteq Sweepers
      /\ told[m][e] \in Nat /\ edges[m][e] \in Nat /\ edges[m][e] <= edges[m][e]
  BY DEF Requests, Sweeps, TypeOK
<1>1. ASSUME UNCHANGED <<ping, pc, todo, told, edges>> PROVE Kept(m, e)'
  BY <1>0, <1>1, NothingOwed DEF Requests, Sweeps
<1>2. ASSUME NEW p \in Pings, PingBegin(p) PROVE Kept(m, e)'
  <2>1. Requests(m, e)' = Requests(m, e)
    BY <1>2 DEF PingBegin, Requests, TypeOK, Event
  <2>2. Sweeps(m, e)' = Sweeps(m, e) /\ told' = told /\ edges' = edges
    BY <1>2 DEF PingBegin, Sweeps
  <2> QED BY <1>0, <2>1, <2>2, NothingOwed
<1>3. ASSUME NEW p \in Pings, PingIgnored(p) PROVE Kept(m, e)'
  <2>1. Requests(m, e)' \subseteq Requests(m, e)
    BY <1>3, AnswerOwesNothing DEF PingIgnored
  <2>2. Sweeps(m, e)' = Sweeps(m, e) /\ told' = told /\ edges' = edges
    BY <1>3 DEF PingIgnored, Sweeps
  <2> QED BY <1>0, <2>1, <2>2, NothingOwed
<1>4. ASSUME NEW p \in Pings, RecordPing(p) PROVE Kept(m, e)'
  <2> DEFINE n == ping[p].m
             new == IF ping[p].kind = "fail" THEN "down" ELSE "up"
  <2>1. n \in Monitors /\ new \in Event /\ pc[p] = "begun" /\ Sweeps(m, e)' = Sweeps(m, e)
        /\ told' = told
    BY <1>4 DEF RecordPing, PingSet, TypeOK, Event, Sweeps
  <2>2. CASE status[n] # new
    <3>1. /\ edges' = [edges EXCEPT ![n][new] = @ + 1]
          /\ pc' = [pc EXCEPT ![p] = new] /\ ping' = ping
      BY <1>4, <2>2 DEF RecordPing, Transitioned
    <3>2. CASE m = n /\ e = new
      <4>1. edges'[m][e] = edges[m][e] + 1
        BY <2>1, <3>1, <3>2 DEF TypeOK
      <4>2. Requests(m, e)' = Requests(m, e) \cup {p} /\ p \notin Requests(m, e)
        BY <2>1, <3>1, <3>2 DEF TypeOK, Requests, Event
      <4> QED BY <2>1, <4>1, <4>2, TakenOn
    <3>3. CASE ~(m = n /\ e = new)
      <4>1. edges'[m][e] = edges[m][e]
        BY <2>1, <3>1, <3>3 DEF TypeOK
      <4>2. Requests(m, e)' \subseteq Requests(m, e)
        BY <2>1, <3>1, <3>3 DEF TypeOK, Requests
      <4> QED BY <1>0, <2>1, <4>1, <4>2, NothingOwed
    <3> QED BY <3>2, <3>3
  <2>3. CASE status[n] = new
    <3>1. edges' = edges /\ Answer(p)
      BY <1>4, <2>3 DEF RecordPing, Transitioned
    <3> QED BY <1>0, <2>1, <3>1, AnswerOwesNothing, NothingOwed
  <2> QED BY <2>2, <2>3
<1>5. ASSUME NEW p \in Pings, PingAnnounce(p) PROVE Kept(m, e)'
  <2>1. ping[p].m \in Monitors /\ pc[p] \in Event
    BY <1>5 DEF PingAnnounce, PingSet, TypeOK, Event
  <2>2. /\ Requests(m, e)' = Requests(m, e) \ {p} /\ edges' = edges
        /\ Sweeps(m, e)' = Sweeps(m, e) /\ told' = [told EXCEPT ![ping[p].m][pc[p]] = @ + 1]
    BY <1>5, AnswerOwesNothing DEF PingAnnounce, Sweeps
  <2>3. CASE m = ping[p].m /\ e = pc[p]
    <3>1. told'[m][e] = told[m][e] + 1 /\ p \in Requests(m, e)
      BY <2>1, <2>2, <2>3 DEF TypeOK, Requests
    <3> QED BY <2>2, <3>1, TakenOn
  <2>4. CASE ~(m = ping[p].m /\ e = pc[p])
    <3>1. told'[m][e] = told[m][e]
      BY <2>1, <2>2, <2>4 DEF TypeOK
    <3> QED BY <1>0, <2>2, <3>1, NothingOwed
  <2> QED BY <2>3, <2>4
<1>6. ASSUME NEW s \in Sweepers, MarkOverdueDown(s) PROVE Kept(m, e)'
  <2>1. PICK downed \in SUBSET Monitors :
          /\ \A n \in downed : status[n] \in Active
          /\ edges' = [n \in Monitors |-> IF n \in downed /\ status[n] # "down"
                                          THEN [edges[n] EXCEPT !["down"] = @ + 1]
                                          ELSE edges[n]]
          /\ todo[s] = {} /\ todo' = [todo EXCEPT ![s] = downed]
    BY <1>6 DEF MarkOverdueDown, Swept
  <2>2. Requests(m, e)' = Requests(m, e) /\ told' = told
    BY <1>6 DEF MarkOverdueDown, Requests
  <2>3. CASE m \in downed /\ e = "down"
    <3>1. edges'[m][e] = edges[m][e] + 1
      BY <2>1, <2>3 DEF TypeOK, Active, Event
    <3>2. Sweeps(m, e)' = Sweeps(m, e) \cup {s} /\ s \notin Sweeps(m, e)
      BY <2>1, <2>3 DEF TypeOK, Sweeps
    <3> QED BY <2>2, <3>1, <3>2, TakenOn
  <2>4. CASE ~(m \in downed /\ e = "down")
    <3>1. edges'[m][e] = edges[m][e]
      BY <2>1, <2>4 DEF TypeOK, Event
    <3>2. Sweeps(m, e)' = Sweeps(m, e)
      BY <2>1, <2>4 DEF TypeOK, Sweeps
    <3> QED BY <1>0, <2>2, <3>1, <3>2, NothingOwed
  <2> QED BY <2>3, <2>4
<1>7. ASSUME NEW s \in Sweepers, SweepAnnounce(s) PROVE Kept(m, e)'
  <2>1. PICK n \in todo[s] : told' = [told EXCEPT ![n]["down"] = @ + 1]
                              /\ todo' = [todo EXCEPT ![s] = @ \ {n}]
    BY <1>7 DEF SweepAnnounce
  <2>2. Requests(m, e)' = Requests(m, e) /\ edges' = edges /\ n \in Monitors
    BY <1>7, <2>1 DEF SweepAnnounce, Requests, TypeOK
  <2>3. CASE m = n /\ e = "down"
    <3>1. told'[m][e] = told[m][e] + 1
      BY <2>1, <2>3 DEF TypeOK
    <3>2. Sweeps(m, e)' = Sweeps(m, e) \ {s} /\ s \in Sweeps(m, e)
      BY <2>1, <2>3 DEF TypeOK, Sweeps
    <3> QED BY <2>2, <3>1, <3>2, TakenOn
  <2>4. CASE ~(m = n /\ e = "down")
    <3>1. told'[m][e] = told[m][e]
      BY <2>1, <2>2, <2>4 DEF TypeOK, Event
    <3>2. Sweeps(m, e)' \subseteq Sweeps(m, e)
      BY <2>1, <2>4 DEF TypeOK, Sweeps
    <3> QED BY <1>0, <2>2, <3>1, <3>2, NothingOwed
  <2> QED BY <2>3, <2>4
<1>8. CASE AnnouncementsLost
  <2>1. told' = told /\ edges' = edges
    BY <1>8 DEF AnnouncementsLost
  <2>2. CASE \E p \in Pings : Answer(p) /\ UNCHANGED todo
    <3>1. Requests(m, e)' \subseteq Requests(m, e) /\ Sweeps(m, e)' = Sweeps(m, e)
      BY <2>2, AnswerOwesNothing DEF Sweeps
    <3> QED BY <1>0, <2>1, <3>1, NothingOwed
  <2>3. CASE \E s \in Sweepers : \E kept \in SUBSET todo[s] :
                todo' = [todo EXCEPT ![s] = kept] /\ UNCHANGED pingVars
    <3>1. Requests(m, e)' = Requests(m, e) /\ Sweeps(m, e)' \subseteq Sweeps(m, e)
      BY <2>3 DEF Requests, Sweeps, TypeOK
    <3> QED BY <1>0, <2>1, <3>1, NothingOwed
  <2> QED BY <1>8, <2>2, <2>3 DEF AnnouncementsLost
<1>9. ASSUME NEW c \in Creates, CountMonitors(c) \/ CountFails(c) \/ Create(c)
      PROVE  UNCHANGED <<ping, pc, todo, told, edges>>
  BY <1>9 DEF CountMonitors, CountFails, Create
<1>10. ASSUME NEW n \in Monitors, Dashboard(n) PROVE UNCHANGED <<ping, pc, todo, told, edges>>
  BY <1>10 DEF Dashboard, Pause, Resume, Delete
<1>11. ASSUME AccountChanges \/ Tick \/ UNCHANGED vars
       PROVE  UNCHANGED <<ping, pc, todo, told, edges>>
  BY <1>11 DEF AccountChanges, Tick, vars
<1> QED BY <1>1, <1>2, <1>3, <1>4, <1>5, <1>6, <1>7, <1>8, <1>9, <1>10, <1>11
        DEF Next, Request, Sweep

\* However pings and sweepers overlap, no transition is announced twice and none is made up
\* (RecordPing, MarkOverdueDown).
THEOREM AlertsAreEdges == Spec => []OneAlertPerEdge
<1> DEFINE Inv == \A m \in Monitors, e \in Event : Kept(m, e)
<1>1. Init => Inv
  <2> SUFFICES ASSUME Init, NEW m \in Monitors, NEW e \in Event PROVE Kept(m, e)
    OBVIOUS
  <2>1. Requests(m, e) = {} /\ Sweeps(m, e) = {} /\ told[m][e] = 0 /\ edges[m][e] = 0
    BY DEF Init, Requests, Sweeps, Event, Zero
  <2> QED BY <2>1, FS_EmptySet DEF Kept
<1>2. TypeOK /\ TypeOK' /\ Inv /\ [Next]_vars => Inv'
  BY StepKeepsEdges
<1>3. TypeOK /\ Inv => OneAlertPerEdge
  BY OwedInTwoSets
<1> HIDE DEF Inv
<1> QED BY <1>1, <1>2, <1>3, TypeCorrect, PTL DEF Spec

-----------------------------------------------------------------------------
(* The plan gate: who has counted found a place, and a place is one monitor. *)

Shown == {m \in Monitors : Exists(m)}
Counted == {c \in Creates : create[c] = "counted"}

\* The gate, in terms of the two sets.
LEMMA GateCounts ==
    MonitorGate <=> (Limit # 0 =>
        Cardinality(Shown) + Cardinality(Counted) <= Limit - 1 + Cardinality(Creates) + uncounted)
BY DEF MonitorGate, Shown, Counted

LEMMA GateCountsNext ==
    MonitorGate' <=> (Limit # 0 =>
        Cardinality(Shown') + Cardinality(Counted')
            <= Limit - 1 + Cardinality(Creates) + uncounted')
BY DEF MonitorGate, Shown, Counted

\* A step that shows no further monitor and counts for no further request.
LEMMA GateUnchanged ==
    ASSUME TypeOK, MonitorGate, Shown' \subseteq Shown, Counted' \subseteq Counted,
           uncounted' = uncounted
    PROVE  MonitorGate'
<1>1. Shown \in SUBSET Monitors /\ Counted \in SUBSET Creates
  BY DEF Shown, Counted
<1>2. /\ Cardinality(Shown') \in Nat /\ Cardinality(Counted') \in Nat
      /\ Cardinality(Shown) \in Nat /\ Cardinality(Counted) \in Nat
      /\ Cardinality(Shown') <= Cardinality(Shown)
      /\ Cardinality(Counted') <= Cardinality(Counted)
  BY <1>1, Counting
<1>3. Cardinality(Creates) \in Nat /\ uncounted \in Nat
  BY FS_CardinalityType DEF TypeOK
<1> QED BY <1>2, <1>3, GateCounts, GateCountsNext

\* Only an insert shows a monitor, and it uses up the place its request counted.
LEMMA StepKeepsGate ==
    ASSUME TypeOK, MonitorGate, [Next]_vars
    PROVE  MonitorGate'
<1> USE DEF rowVars, pingVars, histVars
<1>0. /\ Shown \in SUBSET Monitors /\ Shown' \in SUBSET Monitors
      /\ Counted \in SUBSET Creates /\ Counted' \in SUBSET Creates
  BY DEF Shown, Counted
<1>1. ASSUME NEW c \in Creates, CountMonitors(c) PROVE MonitorGate'
  <2>1. Limit # 0 => Cardinality(Shown) < Limit
    <3>1. Cardinality(Shown) \in Nat
      BY <1>0, Counting
    <3> QED BY <1>1, <3>1 DEF CountMonitors, AtLimit, Shown
  <2>2. Shown' = Shown
    BY <1>1 DEF CountMonitors, Shown, Exists
  <2>3. /\ Cardinality(Shown) \in Nat /\ Cardinality(Counted') \in Nat
        /\ Cardinality(Counted') <= Cardinality(Creates) /\ Cardinality(Creates) \in Nat
    BY <1>0, Counting, FS_CardinalityType
  <2>4. uncounted' = uncounted /\ uncounted \in Nat
    BY <1>1 DEF CountMonitors, TypeOK
  <2> QED BY <2>1, <2>2, <2>3, <2>4, GateCountsNext
<1>2. ASSUME NEW c \in Creates, Create(c) PROVE MonitorGate'
  <2>1. PICK m \in Monitors : status[m] = "none" /\ status' = [status EXCEPT ![m] = "new"]
    BY <1>2 DEF Create
  <2>2. /\ create[c] = "counted" /\ create' = [create EXCEPT ![c] = "idle"]
        /\ deleted' = deleted
    BY <1>2 DEF Create
  <2>3. Shown' \subseteq Shown \cup {m} /\ m \notin Shown
    BY <2>1, <2>2 DEF Shown, Exists, TypeOK
  <2>4. Counted' = Counted \ {c} /\ c \in Counted
    BY <2>2 DEF Counted, TypeOK
  <2>5. /\ Cardinality(Shown) \in Nat /\ Cardinality(Counted) \in Nat
        /\ Cardinality(Counted') = Cardinality(Counted) - 1
        /\ Cardinality(Shown \cup {m}) = Cardinality(Shown) + 1
    BY <1>0, <2>3, <2>4, Counting
  <2>6. Cardinality(Shown') \in Nat /\ Cardinality(Shown') <= Cardinality(Shown \cup {m})
    <3>1. Shown \cup {m} \in SUBSET Monitors /\ Shown' \in SUBSET (Shown \cup {m})
      BY <1>0, <2>3
    <3> QED BY <3>1, Counting
  <2>7. Cardinality(Creates) \in Nat /\ uncounted' = uncounted /\ uncounted \in Nat
    BY <1>2, FS_CardinalityType DEF Create, TypeOK
  <2> QED BY <2>5, <2>6, <2>7, GateCounts, GateCountsNext
<1>3. ASSUME NEW p \in Pings, RecordPing(p) PROVE MonitorGate'
  <2>1. Shown' = Shown /\ Counted' = Counted /\ uncounted' = uncounted
    BY <1>3 DEF RecordPing, Shown, Counted, Exists, TypeOK
  <2> QED BY <2>1, GateUnchanged
<1>4. ASSUME NEW s \in Sweepers, MarkOverdueDown(s) PROVE MonitorGate'
  <2>1. Shown' = Shown /\ Counted' = Counted /\ uncounted' = uncounted
    BY <1>4 DEF MarkOverdueDown, Swept, Shown, Counted, Exists, TypeOK
  <2> QED BY <2>1, GateUnchanged
<1>5. ASSUME NEW m \in Monitors, Dashboard(m) PROVE MonitorGate'
  <2>1. Shown' \subseteq Shown /\ Counted' = Counted /\ uncounted' = uncounted
    BY <1>5 DEF Dashboard, Pause, Resume, Delete, Shown, Counted, Exists, TypeOK
  <2> QED BY <2>1, GateUnchanged
<1>6. ASSUME UNCHANGED <<status, deleted, create, uncounted>> PROVE MonitorGate'
  BY <1>6, GateUnchanged DEF Shown, Counted, Exists
<1>7. ASSUME NEW p \in Pings, PingBegin(p) \/ PingIgnored(p) \/ PingAnnounce(p)
      PROVE  UNCHANGED <<status, deleted, create, uncounted>>
  BY <1>7 DEF PingBegin, PingIgnored, PingAnnounce
<1>8. ASSUME NEW s \in Sweepers, SweepAnnounce(s) PROVE UNCHANGED <<status, deleted, create, uncounted>>
  BY <1>8 DEF SweepAnnounce
<1>9. ASSUME AccountChanges \/ Tick \/ AnnouncementsLost \/ UNCHANGED vars
      PROVE  UNCHANGED <<status, deleted, create, uncounted>>
  BY <1>9 DEF AccountChanges, Tick, AnnouncementsLost, vars
<1>10. ASSUME NEW c \in Creates, CountFails(c) PROVE MonitorGate'
  <2>1. Shown' = Shown /\ Counted' = Counted \cup {c} /\ c \notin Counted
    BY <1>10 DEF CountFails, Shown, Counted, Exists, TypeOK
  <2>2. /\ Cardinality(Shown) \in Nat /\ Cardinality(Counted) \in Nat
        /\ Cardinality(Counted') = Cardinality(Counted) + 1
    BY <1>0, <2>1, Counting
  <2>3. uncounted' = uncounted + 1 /\ uncounted \in Nat /\ Cardinality(Creates) \in Nat
    BY <1>10, FS_CardinalityType DEF CountFails, TypeOK
  <2> QED BY <2>1, <2>2, <2>3, GateCounts, GateCountsNext
<1> QED BY <1>1, <1>2, <1>3, <1>4, <1>5, <1>6, <1>7, <1>8, <1>9, <1>10 DEF Next, Request, Sweep

\* For any number of monitors, sweepers and racing requests: types, no alert without an edge of
\* its own, and a cap that is exceeded only by requests that counted at once or whose list failed
\* (store.go, handlers/heartbeats.go).
THEOREM MonitorsAreSafe == Spec => []HeartbeatSafe
<1>1. Init => MonitorGate
  <2> SUFFICES ASSUME Init, Limit # 0 PROVE MonitorGate
    BY DEF MonitorGate
  <2>1. Shown = {} /\ Counted = {}
    BY DEF Init, Shown, Counted, Exists
  <2>2. Cardinality(Creates) \in Nat /\ uncounted = 0
    BY FS_CardinalityType DEF Init
  <2> QED BY <2>1, <2>2, FS_EmptySet, GateCounts
<1>2. TypeOK /\ OneAlertPerEdge /\ MonitorGate => HeartbeatSafe
  BY DEF HeartbeatSafe
<1> QED BY <1>1, <1>2, StepKeepsGate, TypeCorrect, AlertsAreEdges, PTL DEF Spec

=============================================================================
