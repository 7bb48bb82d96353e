--------------------------- MODULE DrillScheduler ---------------------------
(***************************************************************************)
(* How drills come to be: the scheduler's periodic job, and the requests    *)
(* that create one (the dashboard's form, the v1 API, the sample drill and  *)
(* a staff member's replay), for the databases of one account.              *)
(*                                                                         *)
(* Everybody ends up in Store.CreateDrillIdempotent and then in             *)
(* Orchestrator.EnqueueDrill, so scheduler jobs and requests are both       *)
(* creators with a program counter.  A statement is one action; the two     *)
(* ends of CreateDrillIdempotent, its SELECT and its INSERTs, are two, and  *)
(* the unique index decides at the second.  What a drill does once its      *)
(* first job is queued is the subject of DrillPipeline.                     *)
(***************************************************************************)
EXTENDS Integers, Sequences, FiniteSets

CONSTANTS
    Targets, Sample,      \* the account's databases, and its demo database
    Schedulers,           \* scheduler jobs that can run at the same time
    Requests, Origins,    \* bound: the requests, and where they come from
    FormKeys,             \* idempotency keys of forms and of API clients
    Hourly, Daily, Weekly, Monthly,    \* the cadences' intervals; Daily is 24 hours
    Quota,                \* LimitsFor(plan).DrillsPerDay, 0 when uncapped
    Plans,                \* the plans the account has in this instance
    MaxTime, MaxDrills,   \* bounds: the clock, the drills created
    MaxEdits,             \* bound: schedules saved by the owner
    MaxPlanChanges,       \* bound: changes of the plan or of the unlimited flag
    MaxFaults             \* bound: failed statements and jobs that die

Creators == Schedulers \cup Requests
Cadence == {"off", "monthly", "weekly", "daily", "hourly"}
Plan == {"trial", "lapsed", "starter", "pro", "scale", "closed"}
Origin == {"web", "api", "sample", "replay"}

ASSUME SchedulerAssumption ==
    /\ {Hourly, Daily, Weekly, Monthly} \subseteq Nat \ {0}
    /\ Sample \notin Targets
    /\ Schedulers \cap Requests = {}
    /\ Origins \subseteq Origin /\ Plans \subseteq Plan
    /\ Quota \in Nat /\ MaxTime \in Nat \ {0} /\ MaxDrills \in Nat
    /\ MaxEdits \in Nat /\ MaxPlanChanges \in Nat /\ MaxFaults \in Nat

VARIABLES
    now,
    plan, unlimited,      \* the accounts row; "lapsed": trial over, "closed": deleted
    cadence, nextAt,      \* the database_targets rows; nextAt 0 is NULL
    drills,               \* the drills and idempotency_keys rows, oldest first
    jobs,                 \* provision jobs inserted for each drill
    pc,                   \* where each creator is
    mine,                 \* the drill a creator has in hand, 0 for none
    batch, cur,           \* a scheduler's due targets, and the one it is at
    next,                 \* the slot it is about to write
    fresh,                \* the plan has not changed since its query
    req, answer,          \* a request's input and what it was answered
    stored,               \* the api_idempotency rows
    anchor,               \* the slot that the last saved schedule began with
    saved,                \* how the last save of a schedule ended
    edits, planChanges, faults

acctVars == <<plan, unlimited>>
targetVars == <<cadence, nextAt, anchor>>
jobVars == <<batch, cur, next, fresh>>
reqVars == <<req, answer, stored>>
boundVars == <<saved, edits, planChanges, faults>>
vars == <<now, acctVars, targetVars, drills, jobs, pc, mine, jobVars, reqVars, boundVars>>

Answers == {"none", "ok", "refused", "error"}
Null == 0

Due == [t : Targets, cadence : Cadence, at : Nat, plan : Plan, unlimited : BOOLEAN]
NoDue == [t |-> Sample, cadence |-> "off", at |-> Null, plan |-> "closed", unlimited |-> FALSE]

\* schedule:<target>:<slot>, the key in the form or the header, or a new UUID.
Keys ==
    [kind : {"schedule"}, t : Targets, at : Nat]
      \cup [kind : {"web", "api"}, k : FormKeys]
      \cup [kind : {"sample", "replay"}, r : Requests]
Drill == [key : Keys, target : Targets \cup {Sample}, slot : Nat, at : Nat]

TypeOK ==
    /\ now \in 1..MaxTime
    /\ plan \in Plan /\ unlimited \in BOOLEAN
    /\ cadence \in [Targets -> Cadence] /\ nextAt \in [Targets -> Nat]
    /\ drills \in Seq(Drill) /\ Len(drills) <= MaxDrills
    /\ jobs \in [1..MaxDrills -> Nat]
    /\ pc \in [Creators -> {"idle", "batch", "count", "lookup", "insert", "enqueue", "compute",
                            "advance", "respond", "done"}]
    /\ mine \in [Creators -> 0..Len(drills)]
    /\ batch \in [Schedulers -> SUBSET Due] /\ cur \in [Schedulers -> Due \cup {NoDue}]
    /\ next \in [Schedulers -> Nat] /\ fresh \in [Schedulers -> BOOLEAN]
    /\ req \in [Requests -> [origin : Origin, key : FormKeys, target : Targets \cup {Sample}]]
    /\ answer \in [Requests -> Answers]
    /\ stored \in [FormKeys -> [target : Targets \cup {Sample}, answer : Answers]]
    /\ anchor \in [Targets -> Nat]
    /\ saved \in {"none", "saved", "forbidden", "error"}
    /\ edits \in 0..MaxEdits /\ planChanges \in 0..MaxPlanChanges /\ faults \in 0..MaxFaults

-----------------------------------------------------------------------------
(* Plans and cadences.                                                     *)

CadenceInterval(c) ==
    [off |-> 0, monthly |-> Monthly, weekly |-> Weekly, daily |-> Daily, hourly |-> Hourly][c]

IsPaid(p) == p \in {"starter", "pro", "scale"}

AllowedCadences(p) ==
    {"off", "monthly", "weekly"} \cup (IF IsPaid(p) THEN {"daily"} ELSE {})

CadenceAllowed(p, unl, c) == unl \/ c \in AllowedCadences(p)

TopCadence(p) == IF IsPaid(p) THEN "daily" ELSE "weekly"

\* The CHECK constraint on database_targets.drill_cadence.
Storable(c) == c \in {"off", "weekly", "daily", "hourly"}

\* requireUnlapsedTrial and v1RequireUnlapsedTrial, in front of every write; of such
\* an account canDrillReal holds as well.
Unlapsed == plan # "closed" /\ (unlimited \/ plan # "lapsed")

\* An account that has saved a schedule for each of its databases.
Init ==
    /\ now = 1
    /\ plan \in Plans \ {"closed"} /\ unlimited \in BOOLEAN
    /\ cadence \in [Targets -> {c \in Cadence : Storable(c) /\ CadenceAllowed(plan, unlimited, c)}]
    /\ nextAt = [t \in Targets |-> IF cadence[t] = "off" THEN Null
                                   ELSE now + CadenceInterval(cadence[t])]
    /\ anchor = nextAt
    /\ drills = <<>> /\ jobs = [d \in 1..MaxDrills |-> 0]
    /\ pc = [c \in Creators |-> "idle"] /\ mine = [c \in Creators |-> Null]
    /\ batch = [s \in Schedulers |-> {}] /\ cur = [s \in Schedulers |-> NoDue]
    /\ next = [s \in Schedulers |-> Null] /\ fresh = [s \in Schedulers |-> FALSE]
    /\ req \in [Requests -> {r \in [origin : Origins, key : FormKeys, target : Targets \cup {Sample}] :
                                r.origin = "sample" => r.target = Sample}]
    /\ answer = [r \in Requests |-> "none"]
    /\ stored = [k \in FormKeys |-> [target |-> Sample, answer |-> "none"]]
    /\ saved = "none" /\ edits = 0 /\ planChanges = 0 /\ faults = 0

-----------------------------------------------------------------------------
(* Store.CreateDrillIdempotent and Orchestrator.EnqueueDrill, which every    *)
(* creator goes through.                                                   *)

RequestKey(r) ==
    IF req[r].origin \in {"web", "api"} THEN [kind |-> req[r].origin, k |-> req[r].key]
                                        ELSE [kind |-> req[r].origin, r |-> r]

SlotKey(s) == [kind |-> "schedule", t |-> cur[s].t, at |-> cur[s].at]

KeyOf(c) == IF c \in Schedulers THEN SlotKey(c) ELSE RequestKey(c)

\* Staff replay a drill's own target; everybody else names one.
TargetOf(c) == IF c \in Schedulers THEN cur[c].t ELSE req[c].target

Claims(k) == {d \in 1..Len(drills) : drills[d].key = k}

Respond(c, a) ==
    /\ pc' = [pc EXCEPT ![c] = "respond"]
    /\ answer' = [answer EXCEPT ![c] = a]
    /\ UNCHANGED <<req, stored>>

\* The creator gives up: the scheduler goes on with its batch, a request answers 500.
GiveUp(c) ==
    \/ c \in Schedulers /\ pc' = [pc EXCEPT ![c] = "batch"] /\ UNCHANGED reqVars
    \/ c \in Requests /\ Respond(c, "error")

\* The drill exists and has been dealt with.
Proceed(c) ==
    \/ c \in Schedulers /\ pc' = [pc EXCEPT ![c] = "compute"] /\ UNCHANGED reqVars
    \/ c \in Requests /\ Respond(c, "ok")

\* Mutant: the form's handler queues the drill whoever created it.
EnqueuesReused_Always(c) == c \in Requests

\* Mutant: the API's handler leaves a reused drill alone.
EnqueuesReused_Never(c) == FALSE

\* v1CreateDrill does not look at reused.
EnqueuesReused(c) == c \in Requests /\ req[c].origin \in {"api", "replay"}

LookupKey(c) ==
    /\ pc[c] = "lookup"
    /\ IF Claims(KeyOf(c)) = {}
       THEN /\ pc' = [pc EXCEPT ![c] = "insert"]
            /\ UNCHANGED <<mine, reqVars>>
       ELSE /\ mine' = [mine EXCEPT ![c] = CHOOSE d \in Claims(KeyOf(c)) : TRUE]
            /\ IF EnqueuesReused(c)
               THEN pc' = [pc EXCEPT ![c] = "enqueue"] /\ UNCHANGED reqVars
               ELSE Proceed(c)
    /\ UNCHANGED <<now, acctVars, targetVars, drills, jobs, jobVars, boundVars>>

\* Mutant: the key is inserted with ON CONFLICT DO NOTHING.
InsertDrill_NoIndex(c) ==
    /\ pc[c] = "insert" /\ Len(drills) < MaxDrills
    /\ drills' = Append(drills, [key |-> KeyOf(c), target |-> TargetOf(c), at |-> now,
                                 slot |-> IF c \in Schedulers THEN cur[c].at ELSE Null])
    /\ mine' = [mine EXCEPT ![c] = Len(drills) + 1]
    /\ pc' = [pc EXCEPT ![c] = "enqueue"]
    /\ UNCHANGED <<now, acctVars, targetVars, jobs, jobVars, reqVars, boundVars>>

\* Both INSERTs commit, or another creator's did first and the index refuses.
InsertDrill(c) ==
    /\ pc[c] = "insert"
    /\ \/ /\ Claims(KeyOf(c)) = {} /\ Len(drills) < MaxDrills
          /\ drills' = Append(drills, [key |-> KeyOf(c), target |-> TargetOf(c), at |-> now,
                                       slot |-> IF c \in Schedulers THEN cur[c].at ELSE Null])
          /\ mine' = [mine EXCEPT ![c] = Len(drills) + 1]
          /\ pc' = [pc EXCEPT ![c] = "enqueue"]
          /\ UNCHANGED reqVars
       \/ /\ Claims(KeyOf(c)) # {}
          /\ GiveUp(c)
          /\ UNCHANGED <<drills, mine>>
    /\ UNCHANGED <<now, acctVars, targetVars, jobs, jobVars, boundVars>>

EnqueueDrill(c) ==
    /\ pc[c] = "enqueue"
    /\ jobs' = [jobs EXCEPT ![mine[c]] = @ + 1]
    /\ Proceed(c)
    /\ UNCHANGED <<now, acctVars, targetVars, drills, mine, jobVars, boundVars>>

-----------------------------------------------------------------------------
(* SchedulerWorker.Work.                                                   *)

IsDue(t) ==
    /\ plan # "closed" /\ (IsPaid(plan) \/ unlimited)
    /\ cadence[t] # "off" /\ nextAt[t] # Null /\ nextAt[t] <= now

DueNow ==
    {[t |-> t, cadence |-> cadence[t], at |-> nextAt[t], plan |-> plan, unlimited |-> unlimited] :
        t \in {u \in Targets : IsDue(u)}}

DueTargets(s) ==
    /\ pc[s] = "idle" /\ DueNow # {}
    /\ batch' = [batch EXCEPT ![s] = DueNow]
    /\ fresh' = [fresh EXCEPT ![s] = TRUE]
    /\ pc' = [pc EXCEPT ![s] = "batch"]
    /\ UNCHANGED <<now, acctVars, targetVars, drills, jobs, mine, cur, next, reqVars, boundVars>>

\* Mutant: a saved cadence is not looked at again.
StillAllowed_AsSaved(b) == TRUE

StillAllowed(b) == CadenceAllowed(b.plan, b.unlimited, b.cadence)

TakeTarget(s) ==
    \E b \in batch[s] :
       /\ pc[s] = "batch" /\ StillAllowed(b)
       /\ batch' = [batch EXCEPT ![s] = @ \ {b}]
       /\ cur' = [cur EXCEPT ![s] = b]
       /\ pc' = [pc EXCEPT ![s] = "lookup"]
       /\ UNCHANGED <<now, acctVars, targetVars, drills, jobs, mine, next, fresh, reqVars, boundVars>>

\* The plan no longer has the cadence: the target gets the plan's top one.
Downshift(s) ==
    \E b \in batch[s] :
       /\ pc[s] = "batch" /\ ~StillAllowed(b)
       /\ batch' = [batch EXCEPT ![s] = @ \ {b}]
       /\ cadence' = [cadence EXCEPT ![b.t] = TopCadence(b.plan)]
       /\ nextAt' = [nextAt EXCEPT ![b.t] = now + CadenceInterval(TopCadence(b.plan))]
       /\ anchor' = [anchor EXCEPT ![b.t] = nextAt'[b.t]]
       /\ UNCHANGED <<now, acctVars, drills, jobs, pc, mine, cur, next, fresh, reqVars, boundVars>>

EndBatch(s) ==
    /\ pc[s] = "batch" /\ batch[s] = {}
    /\ pc' = [pc EXCEPT ![s] = "idle"]
    /\ cur' = [cur EXCEPT ![s] = NoDue] /\ next' = [next EXCEPT ![s] = Null]
    /\ fresh' = [fresh EXCEPT ![s] = FALSE] /\ mine' = [mine EXCEPT ![s] = Null]
    /\ UNCHANGED <<now, acctVars, targetVars, drills, jobs, batch, reqVars, boundVars>>

\* Mutant: the next slot is counted from now.
NextSlot_FromNow(at, interval) == now + interval

\* The first of at + interval, at + 2 * interval, ... that is after now.
NextSlot(at, interval) ==
    at + interval * (IF at <= now THEN (now - at) \div interval + 1 ELSE 1)

ComputeNext(s) ==
    /\ pc[s] = "compute"
    /\ next' = [next EXCEPT ![s] = NextSlot(cur[s].at, CadenceInterval(cur[s].cadence))]
    /\ pc' = [pc EXCEPT ![s] = "advance"]
    /\ UNCHANGED <<now, acctVars, targetVars, drills, jobs, mine, batch, cur, fresh, reqVars, boundVars>>

AdvanceTargetSchedule(s) ==
    /\ pc[s] = "advance"
    /\ nextAt' = [nextAt EXCEPT ![cur[s].t] = next[s]]
    /\ pc' = [pc EXCEPT ![s] = "batch"]
    /\ UNCHANGED <<now, acctVars, cadence, anchor, drills, jobs, mine, jobVars, reqVars, boundVars>>

-----------------------------------------------------------------------------
(* The requests: drillCreate, v1CreateDrill behind v1Idempotency,           *)
(* runSampleDrill and adminDrillReplay.                                    *)

Stored(r) == req[r].origin = "api" /\ stored[req[r].key].answer # "none"

\* The stored response, or 409 when the key was used for another target.
ReplayAnswer(r) ==
    /\ pc[r] = "idle" /\ Unlapsed /\ Stored(r)
    /\ pc' = [pc EXCEPT ![r] = "done"]
    /\ answer' = [answer EXCEPT ![r] = IF stored[req[r].key].target = req[r].target
                                       THEN stored[req[r].key].answer ELSE "refused"]
    /\ UNCHANGED <<now, acctVars, targetVars, drills, jobs, mine, jobVars, req, stored, boundVars>>

\* The trial is over: 402, which v1Idempotency does not get to see.
TurnAway(r) ==
    /\ pc[r] = "idle" /\ req[r].origin # "replay" /\ ~Unlapsed
    /\ pc' = [pc EXCEPT ![r] = "done"]
    /\ answer' = [answer EXCEPT ![r] = "refused"]
    /\ UNCHANGED <<now, acctVars, targetVars, drills, jobs, mine, jobVars, req, stored, boundVars>>

\* A replay needs a drill of the target to replay; no plan stands in its way.  The
\* cap on the dump's size, one more reason to refuse, is left out.
BeginRequest(r) ==
    /\ pc[r] = "idle" /\ ~Stored(r)
    /\ \/ /\ req[r].origin = "replay"
          /\ \E d \in 1..Len(drills) : drills[d].target = req[r].target
          /\ pc' = [pc EXCEPT ![r] = "lookup"]
       \/ /\ req[r].origin # "replay" /\ Unlapsed
          /\ pc' = [pc EXCEPT ![r] = "count"]
    /\ UNCHANGED <<now, acctVars, targetVars, drills, jobs, mine, jobVars, reqVars, boundVars>>

LastDay == {d \in 1..Len(drills) : drills[d].at >= now - Daily}

\* enforceDrillQuota, with the 24 hours that a Daily interval is.
CountDrills(r) ==
    /\ pc[r] = "count"
    /\ IF ~unlimited /\ Quota # 0 /\ Cardinality(LastDay) >= Quota
       THEN Respond(r, "refused")
       ELSE pc' = [pc EXCEPT ![r] = "lookup"] /\ UNCHANGED reqVars
    /\ UNCHANGED <<now, acctVars, targetVars, drills, jobs, mine, jobVars, boundVars>>

\* v1Idempotency keeps what was answered unless it is a 5xx; the first stays.
StoreResponse(r) ==
    /\ pc[r] = "respond"
    /\ pc' = [pc EXCEPT ![r] = "done"]
    /\ stored' = IF req[r].origin = "api" /\ answer[r] # "error" /\ ~Stored(r)
                 THEN [stored EXCEPT ![req[r].key] = [target |-> req[r].target, answer |-> answer[r]]]
                 ELSE stored
    /\ UNCHANGED <<now, acctVars, targetVars, drills, jobs, mine, jobVars, req, answer, boundVars>>

-----------------------------------------------------------------------------
(* The owner, the account, the clock and the faults.                        *)

\* targetScheduleUpdate.
SetTargetSchedule(t, c) ==
    /\ edits < MaxEdits /\ edits' = edits + 1 /\ Unlapsed
    /\ \/ /\ ~CadenceAllowed(plan, unlimited, c)
          /\ saved' = "forbidden" /\ UNCHANGED targetVars
       \/ /\ CadenceAllowed(plan, unlimited, c) /\ ~Storable(c)
          /\ saved' = "error" /\ UNCHANGED targetVars
       \/ /\ CadenceAllowed(plan, unlimited, c) /\ Storable(c)
          /\ cadence' = [cadence EXCEPT ![t] = c]
          /\ nextAt' = [nextAt EXCEPT ![t] = IF c = "off" THEN Null ELSE now + CadenceInterval(c)]
          /\ anchor' = [anchor EXCEPT ![t] = nextAt'[t]]
          /\ saved' = "saved"
    /\ UNCHANGED <<now, acctVars, drills, jobs, pc, mine, jobVars, reqVars, planChanges, faults>>

\* Billing, the trial's end, staff granting the flag, the owner closing the account.
ChangePlan ==
    /\ planChanges < MaxPlanChanges /\ planChanges' = planChanges + 1
    /\ plan # "closed"
    /\ plan' \in Plans /\ unlimited' \in BOOLEAN
    /\ <<plan', unlimited'>> # <<plan, unlimited>>
    /\ fresh' = [s \in Schedulers |-> FALSE]
    /\ UNCHANGED <<now, targetVars, drills, jobs, pc, mine, batch, cur, next, reqVars, saved, edits, faults>>

Tick ==
    /\ now < MaxTime /\ now' = now + 1
    /\ UNCHANGED <<acctVars, targetVars, drills, jobs, pc, mine, jobVars, reqVars, boundVars>>

\* A statement of the creator fails.  A count that fails lets the request pass.
StatementFails(c) ==
    /\ faults < MaxFaults /\ faults' = faults + 1
    /\ \/ pc[c] \in {"lookup", "insert", "enqueue"} /\ GiveUp(c)
       \/ pc[c] = "advance" /\ pc' = [pc EXCEPT ![c] = "batch"] /\ UNCHANGED reqVars
       \/ pc[c] = "count" /\ pc' = [pc EXCEPT ![c] = "lookup"] /\ UNCHANGED reqVars
    /\ UNCHANGED <<now, acctVars, targetVars, drills, jobs, mine, jobVars, saved, edits, planChanges>>

\* The process dies.  The scheduler's next tick starts over; a request has no answer.
Crash(c) ==
    /\ faults < MaxFaults /\ faults' = faults + 1
    /\ pc[c] \notin {"idle", "done"}
    /\ pc' = [pc EXCEPT ![c] = IF c \in Schedulers THEN "idle" ELSE "done"]
    /\ UNCHANGED <<now, acctVars, targetVars, drills, jobs, mine, jobVars, reqVars, saved, edits,
                   planChanges>>

Create(c) == LookupKey(c) \/ InsertDrill(c) \/ EnqueueDrill(c)

SchedulerWork(s) ==
    \/ DueTargets(s) \/ TakeTarget(s) \/ Downshift(s) \/ EndBatch(s)
    \/ Create(s) \/ ComputeNext(s) \/ AdvanceTargetSchedule(s)

ServeRequest(r) ==
    \/ ReplayAnswer(r) \/ TurnAway(r) \/ BeginRequest(r)
    \/ CountDrills(r) \/ Create(r) \/ StoreResponse(r)

Next ==
    \/ \E s \in Schedulers : SchedulerWork(s)
    \/ \E r \in Requests : ServeRequest(r)
    \/ \E t \in Targets, c \in Cadence : SetTargetSchedule(t, c)
    \/ \E c \in Creators : StatementFails(c) \/ Crash(c)
    \/ ChangePlan \/ Tick

Spec == Init /\ [][Next]_vars

\* River runs the scheduler every five minutes and time passes.
Fairness == WF_vars(Tick) /\ \A s \in Schedulers : WF_vars(SchedulerWork(s))

FairSpec == Spec /\ Fairness

-----------------------------------------------------------------------------
(* Properties.                                                             *)

\* "a double scheduler tick cannot create two drills for the same occurrence"
\* (scheduler.go): however many ticks overlap, die or start over, and wherever
\* the clock and late writes of next_drill_at put the target.
OneDrillPerSlot ==
    \A d, e \in 1..Len(drills) :
       /\ drills[d].key.kind = "schedule" /\ drills[e].key.kind = "schedule"
       /\ drills[d].target = drills[e].target /\ drills[d].slot = drills[e].slot
       => d = e

\* "callers must not invoke it for an existing reused drill" (EnqueueDrill): the
\* drills of the scheduler, the form, the sample and a replay get one provision
\* job at most, whatever submits twice and whoever is retried.
QueuedOnce ==
    \A d \in 1..Len(drills) : drills[d].key.kind # "api" => jobs[d] <= 1

\* A client of the API that was told its drill exists has a drill that is queued,
\* also when an earlier attempt with the key died or failed half way.
AcceptedIsQueued ==
    \A r \in Requests :
       req[r].origin = "api" /\ answer[r] = "ok" =>
          \E d \in Claims(RequestKey(r)) : jobs[d] >= 1

\* "using now would drift the schedule forward by however late this tick fired"
\* (scheduler.go): the next slot is in step with the schedule as it was saved, as
\* long as neither the schedule nor the plan was changed under a running tick.
NoDrift ==
    \A t \in Targets :
       edits = 0 /\ planChanges = 0 /\ cadence[t] # "off" => (nextAt[t] - anchor[t]) % CadenceInterval(cadence[t]) = 0

\* "a Scale->Starter downgrade must stop daily drills at the next fire, not just
\* at the next schedule edit" (DueSchedule): a tick that began after the last
\* change of the plan drills only at a cadence the plan still has.
FiresWithinPlan ==
    [][\A s \in Schedulers : InsertDrill(s) /\ fresh[s] =>
          CadenceAllowed(plan, unlimited, cur[s].cadence)]_vars

\* "so the account isn't wedged in a broken state" (scheduler.go): no target is
\* due for ever, whatever happened to its plan.
NothingStaysDue == <>[](\A t \in Targets : ~IsDue(t))

\* A downgrade at any point of a tick stops the cadence the plan no longer has, and leaves no
\* target due for ever (DueSchedule, scheduler.go).
PlanRespected == FiresWithinPlan /\ NothingStaysDue

=============================================================================
