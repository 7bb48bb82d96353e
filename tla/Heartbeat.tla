----------------------------- MODULE Heartbeat -----------------------------
(***************************************************************************)
(* The check-in monitors of internal/heartbeat: the public ping endpoint,  *)
(* the sweeper that finds overdue monitors, and the owner's dashboard, for  *)
(* the monitors of one account.                                            *)
(*                                                                         *)
(* A statement that changes a row is one action.  RecordPing is two: its    *)
(* transaction begins, which fixes what now() means in it, and later takes  *)
(* the row's lock and commits.  What is announced (webhook, audit row,      *)
(* notification) goes out after the commit, so a request and a sweeper each *)
(* hold the announcements they still owe.                                  *)
(***************************************************************************)
EXTENDS Naturals, FiniteSets

CONSTANTS
    Monitors,     \* monitors that can be created
    Pings,        \* bound: requests to the ping endpoint
    Creates,      \* create requests that can run at the same time
    Sweepers,     \* sweeper jobs that can run at the same time
    Period, Grace,
    Limit,        \* the plan's Heartbeats cap, 0 when uncapped
    MaxTime,      \* bound: the last instant of the clock
    MaxEdits,     \* bound: pauses, resumes, deletions and changes of the account
    MaxFaults     \* bound: announcements that fail, jobs that die, lists that cannot be read

ASSUME HeartbeatAssumption ==
    /\ IsFiniteSet(Monitors) /\ IsFiniteSet(Pings) /\ IsFiniteSet(Creates) /\ IsFiniteSet(Sweepers)
    /\ Period \in Nat \ {0} /\ Grace \in Nat /\ Limit \in Nat
    /\ MaxTime \in Nat \ {0} /\ MaxEdits \in Nat /\ MaxFaults \in Nat

Status == {"new", "up", "down", "paused"}
Active == {"new", "up"}             \* what the sweeper looks at
Kind == {"ping", "start", "fail"}
Event == {"up", "down"}             \* heartbeat.up, heartbeat.down
PingSet == [m : Monitors, kind : Kind]
NoPing == [m |-> "none", kind |-> "none"]
Null == 0                           \* the SQL NULL; instants start at 1

VARIABLES
    now,
    account,               \* "good", "lapsed" (trial over) or "deleted"
    status, expectedBy,    \* the heartbeats rows; status "none" when there is none
    deleted,               \* deleted_at IS NOT NULL
    ping, pc, began,       \* the ping requests: which, how far, now() of a ping's transaction
    create,                \* the create requests
    todo,                  \* what each sweeper has flipped and not announced
    heard,                 \* when each last was alive: its latest ping, creation or resume
    setBack,               \* those whose deadline an older ping wrote after a later one
    edges, told,           \* transitions committed and announced, by event
    edits, faults,
    uncounted              \* requests that passed a full gate because the list could not be read

pingVars == <<ping, pc, began>>
rowVars == <<status, expectedBy, deleted>>
histVars == <<heard, setBack, edges, told>>
vars == <<now, account, rowVars, pingVars, create, todo, histVars, edits, faults, uncounted>>

Zero == [e \in Event |-> 0]

TypeOK ==
    /\ now \in 1..MaxTime
    /\ account \in {"good", "lapsed", "deleted"}
    /\ status \in [Monitors -> Status \cup {"none"}]
    /\ expectedBy \in [Monitors -> Nat]
    /\ deleted \in [Monitors -> BOOLEAN]
    /\ ping \in [Pings -> PingSet \cup {NoPing}]
    /\ \A p \in Pings : pc[p] \notin {"idle", "done"} => ping[p] \in PingSet
    /\ pc \in [Pings -> {"idle", "begun", "up", "down", "done"}]
    /\ began \in [Pings -> Nat]
    /\ create \in [Creates -> {"idle", "counted"}]
    /\ todo \in [Sweepers -> SUBSET Monitors]
    /\ heard \in [Monitors -> Nat] /\ setBack \subseteq Monitors
    /\ edges \in [Monitors -> [Event -> Nat]]
    /\ told \in [Monitors -> [Event -> Nat]]
    /\ edits \in 0..MaxEdits
    /\ faults \in 0..MaxFaults /\ uncounted \in 0..faults

Init ==
    /\ now = 1 /\ account = "good"
    /\ status = [m \in Monitors |-> "none"]
    /\ expectedBy = [m \in Monitors |-> Null]
    /\ deleted = [m \in Monitors |-> FALSE]
    /\ ping = [p \in Pings |-> NoPing]
    /\ pc = [p \in Pings |-> "idle"] /\ began = [p \in Pings |-> Null]
    /\ create = [c \in Creates |-> "idle"]
    /\ todo = [s \in Sweepers |-> {}]
    /\ heard = [m \in Monitors |-> Null] /\ setBack = {}
    /\ edges = [m \in Monitors |-> Zero] /\ told = [m \in Monitors |-> Zero]
    /\ edits = 0 /\ faults = 0 /\ uncounted = 0

Exists(m) == status[m] # "none" /\ ~deleted[m]

\* Heartbeat.Overdue, what the pages show of a monitor the sweeper has not caught.
Overdue(m) == expectedBy[m] # Null /\ status[m] \in Active /\ now > expectedBy[m] + Grace

\* requireUnlapsedTrial, in front of everything the dashboard changes.
Writable == account = "good"

-----------------------------------------------------------------------------
(* heartbeatCreate: the plan gate counts, then Create inserts the row.      *)

AtLimit(count) == Limit # 0 /\ count >= Limit

CountMonitors(c) ==
    /\ create[c] = "idle" /\ Writable
    /\ ~AtLimit(Cardinality({m \in Monitors : Exists(m)}))
    /\ create' = [create EXCEPT ![c] = "counted"]
    /\ UNCHANGED <<now, account, rowVars, pingVars, todo, histVars, edits, faults, uncounted>>

\* List fails and its error is dropped: no monitor is counted, and a full gate opens.
CountFails(c) ==
    /\ create[c] = "idle" /\ Writable
    /\ AtLimit(Cardinality({m \in Monitors : Exists(m)}))
    /\ faults < MaxFaults /\ faults' = faults + 1
    /\ create' = [create EXCEPT ![c] = "counted"]
    /\ uncounted' = uncounted + 1
    /\ UNCHANGED <<now, account, rowVars, pingVars, todo, histVars, edits>>

Create(c) ==
    /\ create[c] = "counted"
    /\ \E m \in Monitors :
          /\ status[m] = "none"
          /\ status' = [status EXCEPT ![m] = "new"]
          /\ expectedBy' = [expectedBy EXCEPT ![m] = now + Period]
          /\ heard' = [heard EXCEPT ![m] = now]
    /\ create' = [create EXCEPT ![c] = "idle"]
    /\ UNCHANGED <<now, account, deleted, pingVars, todo, setBack, edges, told, edits, faults,
                   uncounted>>

-----------------------------------------------------------------------------
(* The ping endpoint.                                                      *)

PingBegin(p) ==
    /\ pc[p] = "idle"
    /\ pc' = [pc EXCEPT ![p] = "begun"]
    /\ \E r \in PingSet :
          /\ ping' = [ping EXCEPT ![p] = r]
          /\ began' = [began EXCEPT ![p] = IF r.kind = "ping" THEN now ELSE Null]
    /\ UNCHANGED <<now, account, rowVars, create, todo, histVars, edits, faults, uncounted>>

\* The request is answered.
Answer(p) ==
    /\ pc' = [pc EXCEPT ![p] = "done"]
    /\ ping' = [ping EXCEPT ![p] = NoPing] /\ began' = [began EXCEPT ![p] = Null]

\* The token resolves to no monitor, or the signal is only recorded.
PingIgnored(p) ==
    /\ pc[p] = "begun"
    /\ ~Exists(ping[p].m) \/ ping[p].kind = "start"
    /\ Answer(p)
    /\ UNCHANGED <<now, account, rowVars, create, todo, histVars, edits, faults, uncounted>>

\* Mutant: the deadline moves on a transition only.
Rearmed_OnEdge(m, kind, at) ==
    IF kind = "ping" /\ status[m] # "up" THEN at + Period ELSE expectedBy[m]

\* The deadline after a ping whose transaction began at the instant at: now() is that
\* instant, however long the statement then waits for the row.
Rearmed(m, kind, at) == IF kind = "ping" THEN at + Period ELSE expectedBy[m]

Transitioned(prev, new) == prev # new

RecordPing(p) ==
    LET m == ping[p].m
        new == IF ping[p].kind = "fail" THEN "down" ELSE "up"
        late == began[p] < heard[m]
    IN  /\ pc[p] = "begun" /\ ping[p].kind # "start"
        /\ Exists(m)
        /\ status' = [status EXCEPT ![m] = new]
        /\ expectedBy' = [expectedBy EXCEPT ![m] = Rearmed(m, ping[p].kind, began[p])]
        /\ IF ping[p].kind = "fail" THEN UNCHANGED <<heard, setBack>>
           ELSE IF late THEN setBack' = setBack \cup {m} /\ UNCHANGED heard
           ELSE setBack' = setBack \ {m} /\ heard' = [heard EXCEPT ![m] = began[p]]
        /\ edges' = IF status[m] = new THEN edges ELSE [edges EXCEPT ![m][new] = @ + 1]
        /\ IF Transitioned(status[m], new)
           THEN /\ pc' = [pc EXCEPT ![p] = new] /\ UNCHANGED ping
                /\ began' = [began EXCEPT ![p] = Null]
           ELSE Answer(p)
        /\ UNCHANGED <<now, account, deleted, create, todo, told, edits, faults, uncounted>>

\* Dispatch, the audit row and the notification, after the commit.
PingAnnounce(p) ==
    /\ pc[p] \in Event
    /\ told' = [told EXCEPT ![ping[p].m][pc[p]] = @ + 1]
    /\ Answer(p)
    /\ UNCHANGED <<now, account, rowVars, create, todo, heard, setBack, edges, edits, faults,
                   uncounted>>

-----------------------------------------------------------------------------
(* The sweeper.                                                            *)

PastDeadline(m) == expectedBy[m] + Grace < now

\* Mutant: monitors that were never pinged are left alone.
Swept_UpOnly(m) ==
    /\ Exists(m) /\ status[m] = "up"
    /\ expectedBy[m] # Null /\ PastDeadline(m)

\* Mutant: the update does not look at the status.
Swept_AnyStatus(m) ==
    /\ Exists(m) /\ status[m] # "paused"
    /\ expectedBy[m] # Null /\ PastDeadline(m)

Swept(m) ==
    /\ Exists(m) /\ status[m] \in Active
    /\ expectedBy[m] # Null /\ PastDeadline(m)

\* MarkOverdueDown: the flip is the query, for all monitors at once.
MarkOverdueDown(s) ==
    LET downed == {m \in Monitors : account = "good" /\ Swept(m)}
    IN  /\ todo[s] = {} /\ downed # {}
        /\ status' = [m \in Monitors |-> IF m \in downed THEN "down" ELSE status[m]]
        /\ edges' = [m \in Monitors |-> IF m \in downed /\ status[m] # "down"
                                        THEN [edges[m] EXCEPT !["down"] = @ + 1]
                                        ELSE edges[m]]
        /\ todo' = [todo EXCEPT ![s] = downed]
        /\ UNCHANGED <<now, account, expectedBy, deleted, pingVars, create, heard, setBack, told,
                       edits, faults, uncounted>>

SweepAnnounce(s) ==
    \E m \in todo[s] :
       /\ told' = [told EXCEPT ![m]["down"] = @ + 1]
       /\ todo' = [todo EXCEPT ![s] = @ \ {m}]
       /\ UNCHANGED <<now, account, rowVars, pingVars, create, heard, setBack, edges, edits,
                      faults, uncounted>>

-----------------------------------------------------------------------------
(* The owner's dashboard, and what happens to the account.                  *)

Edit == edits < MaxEdits /\ edits' = edits + 1

Pause(m) ==
    /\ Writable /\ Exists(m) /\ Edit
    /\ status' = [status EXCEPT ![m] = "paused"]
    /\ expectedBy' = [expectedBy EXCEPT ![m] = Null]
    /\ UNCHANGED <<now, account, deleted, pingVars, create, todo, histVars, faults, uncounted>>

\* Mutant: the deadline that Pause cleared is not set again.
Resume_Unarmed(m) ==
    /\ Writable /\ Exists(m) /\ Edit
    /\ status' = [status EXCEPT ![m] = "new"]
    /\ UNCHANGED <<now, account, expectedBy, deleted, pingVars, create, todo, histVars, faults,
                   uncounted>>

\* Whatever the status is: the statement does not ask for a paused monitor.
Resume(m) ==
    /\ Writable /\ Exists(m) /\ Edit
    /\ status' = [status EXCEPT ![m] = "new"]
    /\ expectedBy' = [expectedBy EXCEPT ![m] = now + Period]
    /\ heard' = [heard EXCEPT ![m] = now] /\ setBack' = setBack \ {m}
    /\ UNCHANGED <<now, account, deleted, pingVars, create, todo, edges, told, faults, uncounted>>

Delete(m) ==
    /\ Writable /\ Exists(m) /\ Edit
    /\ deleted' = [deleted EXCEPT ![m] = TRUE]
    /\ UNCHANGED <<now, account, status, expectedBy, pingVars, create, todo, histVars, faults,
                   uncounted>>

\* The trial ends or is paid for; the account is closed.
AccountChanges ==
    /\ account # "deleted" /\ Edit
    /\ account' \in {"good", "lapsed", "deleted"} \ {account}
    /\ UNCHANGED <<now, rowVars, pingVars, create, todo, histVars, faults, uncounted>>

-----------------------------------------------------------------------------
Tick ==
    /\ now < MaxTime
    /\ now' = now + 1
    /\ UNCHANGED <<account, rowVars, pingVars, create, todo, histVars, edits, faults, uncounted>>

\* The request or the process dies, or every channel refuses: what it still had
\* to announce is lost, and nothing tries again.
AnnouncementsLost ==
    /\ faults < MaxFaults /\ faults' = faults + 1
    /\ \/ \E p \in Pings : pc[p] \in Event /\ Answer(p) /\ UNCHANGED todo
       \/ \E s \in Sweepers : \E kept \in SUBSET todo[s] :
             /\ kept # todo[s]
             /\ todo' = [todo EXCEPT ![s] = kept]
             /\ UNCHANGED pingVars
    /\ UNCHANGED <<now, account, rowVars, create, histVars, edits, uncounted>>

Sweep(s) == MarkOverdueDown(s) \/ SweepAnnounce(s)
Request(p) == PingIgnored(p) \/ RecordPing(p) \/ PingAnnounce(p)
Dashboard(m) == Pause(m) \/ Resume(m) \/ Delete(m)

Next ==
    \/ \E c \in Creates : CountMonitors(c) \/ CountFails(c) \/ Create(c)
    \/ \E p \in Pings : PingBegin(p) \/ Request(p)
    \/ \E s \in Sweepers : Sweep(s)
    \/ \E m \in Monitors : Dashboard(m)
    \/ AccountChanges \/ Tick \/ AnnouncementsLost

Spec == Init /\ [][Next]_vars

\* River runs the sweeper every minute, a request that began is served, and time
\* passes.  Nobody has to ping.
Fairness ==
    /\ WF_vars(Tick)
    /\ \A s \in Sweepers : WF_vars(Sweep(s))
    /\ \A p \in Pings : WF_vars(Request(p))

FairSpec == Spec /\ Fairness

-----------------------------------------------------------------------------
(* Properties.                                                             *)

Owed(m, e) ==
    Cardinality({p \in Pings : ping[p].m = m /\ pc[p] = e})
      + IF e = "down" THEN Cardinality({s \in Sweepers : m \in todo[s]}) ELSE 0

\* "two concurrent sweepers cannot both alert on the same outage", and a caller
\* "only dispatches a webhook on a real edge" (store.go): whatever pings and
\* sweepers overlap, no transition is announced twice and none is made up.
OneAlertPerEdge ==
    \A m \in Monitors, e \in Event : told[m][e] + Owed(m, e) <= edges[m][e]

\* A monitor the sweeper should watch has a deadline: whatever pauses, resumes and pings
\* follow each other, none leaves a monitor that is "new" or "up" and can never lapse.  It is
\* that of the last sign of life, unless an older ping came late (RecordPing), and never later.
ActiveIsArmed ==
    \A m \in Monitors : status[m] \in Active =>
        /\ expectedBy[m] # Null /\ expectedBy[m] <= heard[m] + Period
        /\ m \notin setBack => expectedBy[m] = heard[m] + Period

\* The sweeper takes down only monitors whose latest ping, creation or resume is further back
\* than the period and the grace (MarkOverdueDown), with one exception, which the code has: a
\* ping that waited for the row behind a later one, or behind a resume, sets the deadline back.
NoFalseAlarm ==
    [][\A s \in Sweepers : MarkOverdueDown(s) =>
          \A m \in Monitors : status'[m] # status[m] =>
              m \in setBack \/ heard[m] + Period + Grace < now]_vars

\* A monitor that falls silent is found, also one that was never pinged: when
\* the clock stops, no monitor of an account in good standing is overdue.
SilenceIsFound == <>[](account = "good" => \A m \in Monitors : Exists(m) => ~Overdue(m))

\* handlers/heartbeats.go:44: the plan gate counts before it inserts, so requests
\* that race overshoot the cap, by no more than their number less one; and it drops the
\* list's error, so a request whose list failed is one more.
MonitorGate ==
    Limit # 0 =>
        Cardinality({m \in Monitors : Exists(m)})
          + Cardinality({c \in Creates : create[c] = "counted"})
              <= Limit - 1 + Cardinality(Creates) + uncounted

\* Unless an announcement is lost, every transition is announced in the end.
EveryEdgeIsTold == <>[](faults = uncounted => told = edges)

\* The store and the gate of the form: types, no transition announced twice, and a cap that is
\* exceeded only by requests that counted at once or could not count.
HeartbeatSafe == TypeOK /\ OneAlertPerEdge /\ MonitorGate

\* The sweeper finds every silence and every transition is announced in the end.
NothingIsMissed == SilenceIsFound /\ EveryEdgeIsTold

=============================================================================
