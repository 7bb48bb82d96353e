------------------------ MODULE DrillSchedulerProofs ------------------------
(****************************************************************************)
(* What DrillScheduler guarantees for every number of targets, scheduler    *)
(* jobs and requests, and for every length of the intervals: types, one     *)
(* drill per scheduled slot, one provision job per drill that was not       *)
(* created through the API, a queued drill behind every acceptance,         *)
(* cadences within the plan, and slots that do not drift.                   *)
(****************************************************************************)
EXTENDS DrillScheduler, TLAPS

\* What a scheduler has read is a schedule that is on.
Working ==
    \A s \in Schedulers :
       /\ pc[s] # "count" /\ \A b \in batch[s] : b.cadence # "off"
       /\ pc[s] \in {"lookup", "insert", "enqueue", "compute", "advance"} =>
             cur[s] \in Due /\ cur[s].cadence # "off"

Typed == TypeOK /\ Working

LEMMA IntervalIsNat ==
    ASSUME NEW c \in Cadence
    PROVE  CadenceInterval(c) \in Nat /\ (c # "off" => CadenceInterval(c) # 0)
BY SchedulerAssumption DEF Cadence, CadenceInterval

LEMMA SlotIsNat ==
    ASSUME TypeOK, NEW at \in Nat, NEW i \in Nat, i # 0
    PROVE  NextSlot(at, i) \in Nat
<1> DEFINE k == IF at <= now THEN (now - at) \div i + 1 ELSE 1
<1>1. now \in Nat
  BY SchedulerAssumption DEF TypeOK
<1>2. k \in Nat
  BY <1>1
<1>3. i * k \in Nat
  BY <1>2
<1> QED BY <1>3 DEF NextSlot

LEMMA KeyIsTyped ==
    ASSUME Typed, NEW c \in Creators, pc[c] \in {"lookup", "insert"}
    PROVE  KeyOf(c) \in Keys /\ TargetOf(c) \in Targets \cup {Sample}
<1>1. CASE c \in Schedulers
  <2>1. cur[c] \in Due
    BY <1>1 DEF Typed, Working
  <2> QED BY <1>1, <2>1 DEF KeyOf, SlotKey, TargetOf, Keys, Due
<1>2. CASE c \in Requests
  <2>1. c \notin Schedulers
    BY <1>2, SchedulerAssumption
  <2>2. req[c] \in [origin : Origin, key : FormKeys, target : Targets \cup {Sample}]
    BY <1>2 DEF Typed, TypeOK
  <2> QED BY <1>2, <2>1, <2>2 DEF KeyOf, RequestKey, TargetOf, Keys, Origin
<1> QED BY <1>1, <1>2 DEF Creators

LEMMA InitTyped == Init => Typed
<1> SUFFICES ASSUME Init PROVE Typed
  OBVIOUS
<1>1. nextAt \in [Targets -> Nat]
  <2>1. \A t \in Targets : CadenceInterval(cadence[t]) \in Nat
    BY IntervalIsNat DEF Init
  <2> QED BY <2>1 DEF Init, Null
<1>2. drills \in Seq(Drill) /\ Len(drills) = 0
  BY DEF Init
<1>3. req \in [Requests -> [origin : Origin, key : FormKeys, target : Targets \cup {Sample}]]
  BY SchedulerAssumption DEF Init
<1>4. stored \in [FormKeys -> [target : Targets \cup {Sample}, answer : Answers]]
  BY DEF Init, Answers
<1>5. plan \in Plan /\ cadence \in [Targets -> Cadence]
  BY SchedulerAssumption DEF Init
<1>6. Working
  BY DEF Init, Working, Creators
<1> QED
  BY <1>1, <1>2, <1>3, <1>4, <1>5, <1>6, SchedulerAssumption
  DEF Init, Typed, TypeOK, Answers, Creators, Null

LEMMA GiveUpTyped ==
    ASSUME TypeOK, NEW c \in Creators, NEW a \in Answers,
           GiveUp(c) \/ Proceed(c) \/ (c \in Requests /\ Respond(c, a))
    PROVE  /\ pc' \in [Creators -> {"idle", "batch", "count", "lookup", "insert", "enqueue",
                                    "compute", "advance", "respond", "done"}]
           /\ answer' \in [Requests -> Answers] /\ req' = req /\ stored' = stored
           /\ \A e \in Creators : e # c => pc'[e] = pc[e]
           /\ c \in Schedulers => pc'[c] \in {"batch", "compute"}
           /\ c \in Requests => pc'[c] = "respond"
BY ZenonT(20), SchedulerAssumption DEF TypeOK, GiveUp, Proceed, Respond, Creators, Answers, reqVars

LEMMA LookupTyped ==
    ASSUME Typed, NEW c \in Creators, LookupKey(c)
    PROVE  Typed'
<1>1. UNCHANGED <<now, acctVars, targetVars, drills, jobs, jobVars, boundVars>> /\ pc[c] = "lookup"
  BY DEF LookupKey
<1>2. CASE Claims(KeyOf(c)) = {}
  BY <1>1, <1>2 DEF LookupKey, Typed, TypeOK, Working, Creators, acctVars, targetVars, jobVars, reqVars, boundVars
<1>3. CASE Claims(KeyOf(c)) # {}
  <2>1. PICK d \in Claims(KeyOf(c)) : mine' = [mine EXCEPT ![c] = d]
    BY <1>3 DEF LookupKey
  <2>2. d \in 1..Len(drills)
    BY DEF Claims
  <2>3. mine' \in [Creators -> 0..Len(drills)]
    BY <2>1, <2>2 DEF Typed, TypeOK
  <2>4. CASE pc' = [pc EXCEPT ![c] = "enqueue"] /\ UNCHANGED reqVars
    BY <1>1, <2>3, <2>4 DEF Typed, TypeOK, Working, Creators, acctVars, targetVars, jobVars, reqVars, boundVars
  <2>5. CASE Proceed(c)
    <3>1. Working'
      BY <1>1, <2>5, GiveUpTyped DEF Typed, Working, Creators, jobVars, Answers
    <3> QED BY <1>1, <2>3, <2>5, <3>1, GiveUpTyped
            DEF Typed, TypeOK, acctVars, targetVars, jobVars, boundVars, Answers
  <2> QED BY <1>3, <2>4, <2>5 DEF LookupKey
<1> QED BY <1>2, <1>3

LEMMA InsertTyped ==
    ASSUME Typed, NEW c \in Creators, InsertDrill(c)
    PROVE  Typed'
<1>1. UNCHANGED <<now, acctVars, targetVars, jobs, jobVars, boundVars>> /\ pc[c] = "insert"
  BY DEF InsertDrill
<1>2. CASE Claims(KeyOf(c)) # {}
  <2>1. GiveUp(c) /\ UNCHANGED <<drills, mine>>
    BY <1>2 DEF InsertDrill
  <2>2. Working'
    BY <1>1, <2>1, GiveUpTyped DEF Typed, Working, Creators, jobVars, Answers
  <2> QED BY <1>1, <2>1, <2>2, GiveUpTyped
          DEF Typed, TypeOK, acctVars, targetVars, jobVars, boundVars, Answers
<1>3. CASE Claims(KeyOf(c)) = {}
  <2> DEFINE d == [key |-> KeyOf(c), target |-> TargetOf(c), at |-> now,
                   slot |-> IF c \in Schedulers THEN cur[c].at ELSE Null]
  <2>1. /\ Len(drills) < MaxDrills /\ drills' = Append(drills, d)
        /\ mine' = [mine EXCEPT ![c] = Len(drills) + 1]
        /\ pc' = [pc EXCEPT ![c] = "enqueue"] /\ UNCHANGED reqVars
    BY <1>3 DEF InsertDrill
  <2>2. d \in Drill
    <3>1. c \in Schedulers => cur[c] \in Due
      BY <1>1 DEF Typed, Working
    <3>2. (IF c \in Schedulers THEN cur[c].at ELSE Null) \in Nat
      BY <3>1 DEF Due, Null
    <3>3. now \in Nat
      BY SchedulerAssumption DEF Typed, TypeOK
    <3> QED BY <1>1, <3>2, <3>3, KeyIsTyped DEF Drill
  <2> HIDE DEF d
  <2>3. drills \in Seq(Drill) /\ Len(drills) \in Nat
    BY DEF Typed, TypeOK
  <2>4. drills' \in Seq(Drill) /\ Len(drills') = Len(drills) + 1
    BY <2>1, <2>2, <2>3
  <2>5. mine' \in [Creators -> 0..Len(drills')]
    BY <2>1, <2>3, <2>4 DEF Typed, TypeOK
  <2>6. Working'
    BY <1>1, <2>1 DEF Typed, TypeOK, Working, Creators, jobVars
  <2>7. Len(drills') <= MaxDrills
    BY <2>1, <2>3, <2>4, SchedulerAssumption
  <2>8. pc' \in [Creators -> {"idle", "batch", "count", "lookup", "insert", "enqueue", "compute",
                              "advance", "respond", "done"}]
    BY <2>1 DEF Typed, TypeOK
  <2>9. UNCHANGED reqVars
    BY <2>1
  <2> QED BY <1>1, <2>4, <2>5, <2>6, <2>7, <2>8, <2>9
          DEF Typed, TypeOK, acctVars, targetVars, jobVars, reqVars, boundVars
<1> QED BY <1>2, <1>3

LEMMA EnqueueTyped ==
    ASSUME Typed, NEW c \in Creators, EnqueueDrill(c)
    PROVE  Typed'
<1>1. UNCHANGED <<now, acctVars, targetVars, drills, mine, jobVars, boundVars>> /\ pc[c] = "enqueue" /\ Proceed(c)
  BY DEF EnqueueDrill
<1>2. jobs' \in [1..MaxDrills -> Nat]
  <2>1. jobs \in [1..MaxDrills -> Nat] /\ jobs' = [jobs EXCEPT ![mine[c]] = @ + 1]
    BY DEF EnqueueDrill, Typed, TypeOK
  <2>2. CASE mine[c] \in 1..MaxDrills
    BY <2>1, <2>2
  <2>3. CASE mine[c] \notin 1..MaxDrills
    <3>1. jobs' = jobs
      BY <2>1, <2>3
    <3> QED BY <2>1, <3>1
  <2> QED BY <2>2, <2>3
<1>3. Working'
  BY <1>1, GiveUpTyped DEF Typed, Working, Creators, jobVars, Answers
<1> QED BY <1>1, <1>2, <1>3, GiveUpTyped
        DEF Typed, TypeOK, acctVars, targetVars, jobVars, boundVars, Answers

LEMMA SchedulerTyped ==
    ASSUME Typed, NEW s \in Schedulers, SchedulerWork(s), ~Create(s)
    PROVE  Typed'
<1>1. CASE DueTargets(s)
  <2>1. DueNow \in SUBSET Due /\ \A b \in DueNow : b.cadence # "off"
    BY DEF DueNow, Due, IsDue, Typed, TypeOK
  <2> QED BY <1>1, <2>1 DEF DueTargets, Typed, TypeOK, Working, Creators, acctVars, targetVars, jobVars, reqVars, boundVars
<1>2. CASE TakeTarget(s)
  <2>1. PICK b \in batch[s] :
           /\ batch' = [batch EXCEPT ![s] = @ \ {b}] /\ cur' = [cur EXCEPT ![s] = b]
           /\ pc' = [pc EXCEPT ![s] = "lookup"]
           /\ UNCHANGED <<now, acctVars, targetVars, drills, jobs, mine, next, fresh, reqVars, boundVars>>
    BY <1>2 DEF TakeTarget
  <2>2. b \in Due /\ b.cadence # "off"
    BY DEF Typed, TypeOK, Working
  <2> QED BY <2>1, <2>2 DEF Typed, TypeOK, Working, Creators, acctVars, targetVars, jobVars, reqVars, boundVars
<1>3. CASE Downshift(s)
  <2>1. PICK b \in batch[s] :
           /\ batch' = [batch EXCEPT ![s] = @ \ {b}]
           /\ cadence' = [cadence EXCEPT ![b.t] = TopCadence(b.plan)]
           /\ nextAt' = [nextAt EXCEPT ![b.t] = now + CadenceInterval(TopCadence(b.plan))]
           /\ anchor' = [anchor EXCEPT ![b.t] = nextAt'[b.t]]
           /\ UNCHANGED <<now, acctVars, drills, jobs, pc, mine, cur, next, fresh, reqVars, boundVars>>
    BY <1>3 DEF Downshift
  <2>2. b \in Due
    BY DEF Typed, TypeOK
  <2>3. TopCadence(b.plan) \in Cadence
    BY DEF TopCadence, Cadence
  <2>4. now + CadenceInterval(TopCadence(b.plan)) \in Nat
    BY <2>3, IntervalIsNat, SchedulerAssumption DEF Typed, TypeOK
  <2>5. cadence' \in [Targets -> Cadence] /\ nextAt' \in [Targets -> Nat] /\ anchor' \in [Targets -> Nat]
    BY <2>1, <2>2, <2>3, <2>4 DEF Typed, TypeOK, Due
  <2> QED BY <2>1, <2>5 DEF Typed, TypeOK, Working, Creators, acctVars, targetVars, jobVars, reqVars, boundVars
<1>4. CASE EndBatch(s)
  BY <1>4 DEF EndBatch, Null, Typed, TypeOK, Working, Creators, acctVars, targetVars, jobVars, reqVars, boundVars
<1>5. CASE ComputeNext(s)
  <2>1. cur[s] \in Due /\ cur[s].cadence # "off"
    BY <1>5 DEF ComputeNext, Typed, Working
  <2>2. NextSlot(cur[s].at, CadenceInterval(cur[s].cadence)) \in Nat
    BY <2>1, IntervalIsNat, SlotIsNat DEF Due, Typed
  <2> QED BY <1>5, <2>1, <2>2 DEF ComputeNext, Typed, TypeOK, Working, Creators, acctVars, targetVars, jobVars, reqVars, boundVars
<1>6. CASE AdvanceTargetSchedule(s)
  BY <1>6 DEF AdvanceTargetSchedule, Typed, TypeOK, Working, Creators, acctVars, targetVars, jobVars, reqVars, boundVars
<1> QED BY <1>1, <1>2, <1>3, <1>4, <1>5, <1>6 DEF SchedulerWork

LEMMA RequestTyped ==
    ASSUME Typed, NEW r \in Requests, ServeRequest(r), ~Create(r)
    PROVE  Typed'
<1>0. r \in Creators /\ r \notin Schedulers
  BY SchedulerAssumption DEF Creators
<1>1. CASE ReplayAnswer(r)
  <2>1. stored[req[r].key].answer \in Answers
    BY DEF Typed, TypeOK
  <2> QED BY <1>0, <1>1, <2>1 DEF ReplayAnswer, Answers, Typed, TypeOK, Working, Creators, acctVars, targetVars, jobVars, reqVars, boundVars
<1>2. ASSUME NEW here, pc[r] = here, Respond(r, "refused"),
             UNCHANGED <<now, acctVars, targetVars, drills, jobs, mine, jobVars, boundVars>>
      PROVE  Typed'
  <2>1. Working'
    BY <1>0, <1>2, GiveUpTyped DEF Typed, Working, Creators, jobVars, Answers
  <2> QED BY <1>0, <1>2, <2>1, GiveUpTyped
          DEF Typed, TypeOK, acctVars, targetVars, jobVars, boundVars, Answers
<1>3. ASSUME NEW there \in {"count", "lookup"}, pc' = [pc EXCEPT ![r] = there],
             UNCHANGED <<now, acctVars, targetVars, drills, jobs, mine, jobVars, reqVars, boundVars>>
      PROVE  Typed'
  BY <1>0, <1>3 DEF Typed, TypeOK, Working, Creators, acctVars, targetVars, jobVars, reqVars, boundVars
<1>4. CASE BeginRequest(r)
  BY <1>2, <1>3, <1>4 DEF BeginRequest
<1>5. CASE CountDrills(r)
  BY <1>2, <1>3, <1>5 DEF CountDrills
<1>6. CASE StoreResponse(r)
  <2>1. stored' \in [FormKeys -> [target : Targets \cup {Sample}, answer : Answers]]
    BY <1>6 DEF StoreResponse, Typed, TypeOK
  <2> QED BY <1>0, <1>6, <2>1 DEF StoreResponse, Typed, TypeOK, Working, Creators, acctVars, targetVars, jobVars, reqVars, boundVars
<1>7. CASE TurnAway(r)
  BY <1>0, <1>7 DEF TurnAway, Answers, Typed, TypeOK, Working, Creators, acctVars, targetVars,
                    jobVars, reqVars, boundVars
<1> QED BY <1>1, <1>4, <1>5, <1>6, <1>7 DEF ServeRequest

LEMMA EnvironmentTyped ==
    ASSUME Typed,
           \/ \E t \in Targets, c \in Cadence : SetTargetSchedule(t, c)
           \/ \E c \in Creators : StatementFails(c) \/ Crash(c)
           \/ ChangePlan \/ Tick
    PROVE  Typed'
<1>1. ASSUME NEW t \in Targets, NEW c \in Cadence, SetTargetSchedule(t, c) PROVE Typed'
  <2>1. UNCHANGED <<now, acctVars, drills, jobs, pc, mine, jobVars, reqVars, planChanges, faults>>
    BY <1>1 DEF SetTargetSchedule
  <2>2. edits' \in 0..MaxEdits /\ saved' \in {"none", "saved", "forbidden", "error"}
    BY <1>1, SchedulerAssumption DEF SetTargetSchedule, Typed, TypeOK
  <2>3. (IF c = "off" THEN Null ELSE now + CadenceInterval(c)) \in Nat
    BY SMTT(20), IntervalIsNat, SchedulerAssumption DEF Typed, TypeOK, Null
  <2>4. cadence' \in [Targets -> Cadence] /\ nextAt' \in [Targets -> Nat] /\ anchor' \in [Targets -> Nat]
    <3>1. CASE UNCHANGED targetVars
      BY <3>1 DEF Typed, TypeOK, targetVars
    <3>2. CASE /\ cadence' = [cadence EXCEPT ![t] = c]
               /\ nextAt' = [nextAt EXCEPT ![t] = IF c = "off" THEN Null ELSE now + CadenceInterval(c)]
               /\ anchor' = [anchor EXCEPT ![t] = nextAt'[t]]
      BY <2>3, <3>2 DEF Typed, TypeOK
    <3> QED BY <1>1, <3>1, <3>2 DEF SetTargetSchedule
  <2>5. Working'
    BY <2>1 DEF Typed, Working, jobVars
  <2> QED BY <2>1, <2>2, <2>4, <2>5 DEF Typed, TypeOK, acctVars, jobVars, reqVars
<1>2. ASSUME NEW c \in Creators, StatementFails(c) PROVE Typed'
  <2>1. UNCHANGED <<now, acctVars, targetVars, drills, jobs, mine, jobVars, saved, edits, planChanges>>
        /\ faults' \in 0..MaxFaults
    BY <1>2, SchedulerAssumption DEF StatementFails, Typed, TypeOK
  <2>2. CASE GiveUp(c) /\ pc[c] \in {"lookup", "insert", "enqueue"}
    <3>1. Working'
      BY <2>1, <2>2, GiveUpTyped DEF Typed, Working, Creators, jobVars, Answers
    <3> QED BY <2>1, <2>2, <3>1, GiveUpTyped DEF Typed, TypeOK, acctVars, targetVars, jobVars, Answers
  <2>3. CASE \E there \in {"batch", "lookup"} :
                /\ pc' = [pc EXCEPT ![c] = there] /\ UNCHANGED reqVars
                /\ there = "lookup" => pc[c] = "count"
    <3>1. PICK there \in {"batch", "lookup"} :
             /\ pc' = [pc EXCEPT ![c] = there] /\ UNCHANGED reqVars
             /\ there = "lookup" => pc[c] = "count"
      BY <2>3
    <3>2. there = "lookup" => c \notin Schedulers
      BY <3>1 DEF Typed, Working
    <3>3. Working'
      BY <2>1, <3>1, <3>2 DEF Typed, TypeOK, Working, Creators, jobVars
    <3> QED BY <2>1, <3>1, <3>3 DEF Typed, TypeOK, acctVars, targetVars, jobVars, reqVars
  <2> QED BY <1>2, <2>2, <2>3 DEF StatementFails
<1>3. ASSUME NEW c \in Creators, Crash(c) PROVE Typed'
  <2>1. /\ UNCHANGED <<now, acctVars, targetVars, drills, jobs, mine, jobVars, reqVars, saved, edits,
                       planChanges>>
        /\ pc' = [pc EXCEPT ![c] = IF c \in Schedulers THEN "idle" ELSE "done"]
        /\ faults' \in 0..MaxFaults
    BY <1>3, SchedulerAssumption DEF Crash, Typed, TypeOK
  <2>2. Working'
    BY <2>1 DEF Typed, TypeOK, Working, Creators, jobVars
  <2> QED BY <2>1, <2>2 DEF Typed, TypeOK, acctVars, targetVars, jobVars, reqVars
<1>4. CASE ChangePlan
  BY <1>4, SchedulerAssumption
  DEF ChangePlan, Typed, TypeOK, Working, acctVars, targetVars, reqVars
<1>5. CASE Tick
  BY <1>5, SchedulerAssumption
  DEF Tick, Typed, TypeOK, Working, acctVars, targetVars, jobVars, reqVars, boundVars
<1> QED BY <1>1, <1>2, <1>3, <1>4, <1>5

LEMMA StepTyped == Typed /\ [Next]_vars => Typed'
<1> SUFFICES ASSUME Typed, [Next]_vars PROVE Typed'
  OBVIOUS
<1>1. ASSUME NEW c \in Creators, Create(c) PROVE Typed'
  BY <1>1, LookupTyped, InsertTyped, EnqueueTyped DEF Create
<1>2. ASSUME NEW s \in Schedulers, SchedulerWork(s) PROVE Typed'
  BY <1>1, <1>2, SchedulerTyped DEF Creators
<1>3. ASSUME NEW r \in Requests, ServeRequest(r) PROVE Typed'
  BY <1>1, <1>3, RequestTyped DEF Creators
<1>4. CASE UNCHANGED vars
  BY <1>4 DEF vars, Typed, TypeOK, Working, acctVars, targetVars, jobVars, reqVars, boundVars
<1> QED BY <1>2, <1>3, <1>4, EnvironmentTyped DEF Next

\* The rows, the batches, the answers and the counters keep their types whatever
\* creators overlap, fail or die (scheduler.go, CreateDrillIdempotent, v1Idempotency).
THEOREM TypeCorrect == Spec => []TypeOK
<1>1. Spec => []Typed
  BY InitTyped, StepTyped, PTL DEF Spec
<1> QED BY <1>1, PTL DEF Typed

-----------------------------------------------------------------------------
(* One drill per slot, one job per drill.  Three kinds of step matter, the    *)
(* ones that insert a drill, take a reused one to the queue, and queue one;  *)
(* all others are quiet.                                                   *)

Queueing == {"enqueue", "respond", "done"}

Quiet ==
    /\ drills' = drills /\ jobs' = jobs /\ req' = req
    /\ \A c \in Creators : pc'[c] = "enqueue" => pc[c] = "enqueue" /\ mine'[c] = mine[c]
    /\ \A r \in Requests : pc[r] \in Queueing => pc'[r] \in Queueing

NewDrill(c) ==
    [key |-> KeyOf(c), target |-> TargetOf(c), at |-> now,
     slot |-> IF c \in Schedulers THEN cur[c].at ELSE Null]

Inserts(c) ==
    /\ pc[c] = "insert" /\ Claims(KeyOf(c)) = {} /\ Len(drills) < MaxDrills
    /\ drills' = Append(drills, NewDrill(c))
    /\ mine' = [mine EXCEPT ![c] = Len(drills) + 1]
    /\ pc' = [pc EXCEPT ![c] = "enqueue"]
    /\ jobs' = jobs /\ req' = req

Reuses(c) ==
    /\ pc[c] = "lookup" /\ EnqueuesReused(c)
    /\ \E d \in Claims(KeyOf(c)) : mine' = [mine EXCEPT ![c] = d]
    /\ pc' = [pc EXCEPT ![c] = "enqueue"]
    /\ drills' = drills /\ jobs' = jobs /\ req' = req

Queues(c) ==
    /\ pc[c] = "enqueue"
    /\ jobs' = [jobs EXCEPT ![mine[c]] = @ + 1]
    /\ pc'[c] # "enqueue" /\ (c \in Requests => pc'[c] \in Queueing)
    /\ \A e \in Creators : e # c => pc'[e] = pc[e]
    /\ drills' = drills /\ mine' = mine /\ req' = req

LEMMA CreateSteps ==
    ASSUME Typed, NEW c \in Creators, Create(c)
    PROVE  Quiet \/ Inserts(c) \/ Reuses(c) \/ Queues(c)
<1>1. CASE LookupKey(c)
  <2>1. pc[c] = "lookup" /\ drills' = drills /\ jobs' = jobs
    BY <1>1 DEF LookupKey
  <2>2. CASE Claims(KeyOf(c)) = {}
    BY <1>1, <2>1, <2>2 DEF LookupKey, Quiet, Queueing, reqVars, Typed, TypeOK, Creators
  <2>3. CASE Claims(KeyOf(c)) # {} /\ EnqueuesReused(c)
    <3>1. \E d \in Claims(KeyOf(c)) : mine' = [mine EXCEPT ![c] = d]
      BY <1>1, <2>3 DEF LookupKey
    <3> QED BY <1>1, <2>1, <2>3, <3>1 DEF LookupKey, Reuses, reqVars
  <2>4. CASE Claims(KeyOf(c)) # {} /\ ~EnqueuesReused(c)
    <3>1. Proceed(c) /\ \A e \in Creators : e # c => mine'[e] = mine[e]
      BY <1>1, <2>4 DEF LookupKey, Typed, TypeOK
    <3> QED BY <2>1, <3>1, GiveUpTyped DEF Quiet, Queueing, Typed, Creators, Answers
  <2> QED BY <2>2, <2>3, <2>4
<1>2. CASE InsertDrill(c)
  <2>1. CASE Claims(KeyOf(c)) = {}
    BY <1>2, <2>1 DEF InsertDrill, Inserts, NewDrill, reqVars
  <2>2. CASE Claims(KeyOf(c)) # {}
    <3>1. GiveUp(c) /\ pc[c] = "insert" /\ drills' = drills /\ mine' = mine /\ jobs' = jobs
      BY <1>2, <2>2 DEF InsertDrill
    <3> QED BY <3>1, GiveUpTyped DEF Quiet, Queueing, Typed, Creators, Answers
  <2> QED BY <2>1, <2>2
<1>3. CASE EnqueueDrill(c)
  <2>1. /\ Proceed(c) /\ pc[c] = "enqueue" /\ drills' = drills /\ mine' = mine
        /\ jobs' = [jobs EXCEPT ![mine[c]] = @ + 1]
    BY <1>3 DEF EnqueueDrill
  <2> QED BY <2>1, GiveUpTyped DEF Queues, Queueing, Typed, Creators, Answers
<1> QED BY <1>1, <1>2, <1>3 DEF Create

LEMMA OtherSteps ==
    ASSUME Typed, [Next]_vars, \A c \in Creators : ~Create(c)
    PROVE  Quiet
<1> USE DEF Queueing
<1>1. ASSUME NEW s \in Schedulers, SchedulerWork(s) PROVE Quiet
  <2>1. /\ drills' = drills /\ jobs' = jobs /\ req' = req
        /\ \E there \in {"idle", "batch", "lookup", "advance"} : pc' = [pc EXCEPT ![s] = there]
           \/ pc' = pc
        /\ mine' = mine \/ EndBatch(s)
    BY <1>1 DEF SchedulerWork, DueTargets, TakeTarget, Downshift, EndBatch, ComputeNext,
                AdvanceTargetSchedule, reqVars, Creators
  <2>2. EndBatch(s) => pc'[s] # "enqueue" /\ \A e \in Creators : e # s => mine'[e] = mine[e]
    BY DEF EndBatch, Typed, TypeOK, Creators
  <2> QED BY <2>1, <2>2, SchedulerAssumption DEF Quiet, Typed, TypeOK, Creators
<1>2. ASSUME NEW r \in Requests, ServeRequest(r) PROVE Quiet
  <2>1. /\ drills' = drills /\ jobs' = jobs /\ req' = req /\ mine' = mine
        /\ \E there \in {"count", "lookup", "respond", "done"} : pc' = [pc EXCEPT ![r] = there]
        /\ pc[r] \in Queueing => pc'[r] = "done"
    BY <1>2 DEF ServeRequest, ReplayAnswer, TurnAway, BeginRequest, CountDrills, StoreResponse, Respond,
                reqVars, Creators, Typed, TypeOK
  <2> QED BY <2>1 DEF Quiet, Typed, TypeOK, Creators
<1>3. ASSUME NEW t \in Targets, NEW k \in Cadence, SetTargetSchedule(t, k) PROVE Quiet
  BY <1>3 DEF SetTargetSchedule, Quiet, reqVars
<1>4. ASSUME NEW c \in Creators, StatementFails(c) PROVE Quiet
  <2>1. drills' = drills /\ jobs' = jobs /\ mine' = mine
    BY <1>4 DEF StatementFails
  <2>2. CASE GiveUp(c)
    BY <2>1, <2>2, GiveUpTyped DEF Quiet, Typed, Answers, Creators
  <2>3. CASE pc[c] \in {"advance", "count"} /\ req' = req
             /\ \E there \in {"batch", "lookup"} : pc' = [pc EXCEPT ![c] = there]
    BY <2>1, <2>3 DEF Quiet, Typed, TypeOK, Creators
  <2> QED BY <1>4, <2>2, <2>3 DEF StatementFails, reqVars
<1>5. ASSUME NEW c \in Creators, Crash(c) PROVE Quiet
  BY <1>5, SchedulerAssumption DEF Crash, Quiet, reqVars, Typed, TypeOK, Creators
<1>6. CASE ChangePlan
  BY <1>6 DEF ChangePlan, Quiet, reqVars
<1>7. CASE Tick
  BY <1>7 DEF Tick, Quiet, reqVars
<1>8. CASE UNCHANGED vars
  BY <1>8 DEF vars, Quiet, reqVars
<1> QED BY <1>1, <1>2, <1>3, <1>4, <1>5, <1>6, <1>7, <1>8 DEF Next

\* What makes the key of a slot work: no key is claimed twice, and the key of a
\* scheduled drill is its target and its slot.
Keyed ==
    /\ \A d, e \in 1..Len(drills) : drills[d].key = drills[e].key => d = e
    /\ \A d \in 1..Len(drills) : drills[d].key.kind = "schedule" =>
          drills[d].key = [kind |-> "schedule", t |-> drills[d].target, at |-> drills[d].slot]

LEMMA InsertedDrill ==
    ASSUME Typed, NEW c \in Creators, Inserts(c)
    PROVE  /\ Len(drills) \in Nat /\ Len(drills') = Len(drills) + 1
           /\ \A d \in 1..Len(drills) : drills'[d] = drills[d]
           /\ drills'[Len(drills) + 1] = NewDrill(c)
           /\ \A d \in 1..Len(drills) : drills[d].key # NewDrill(c).key
<1>1. drills \in Seq(Drill) /\ Len(drills) \in Nat
  BY DEF Typed, TypeOK
<1>2. drills' = Append(drills, NewDrill(c))
  BY DEF Inserts
<1>3. NewDrill(c).key = KeyOf(c)
  BY DEF NewDrill
<1> QED BY <1>1, <1>2, <1>3 DEF Inserts, Claims

LEMMA StepKeyed == Typed /\ Keyed /\ [Next]_vars => Keyed'
<1> SUFFICES ASSUME Typed, Keyed, [Next]_vars PROVE Keyed'
  OBVIOUS
<1>1. CASE drills' = drills
  BY <1>1 DEF Keyed
<1>2. ASSUME NEW c \in Creators, Inserts(c) PROVE Keyed'
  <2>1. NewDrill(c).key.kind = "schedule" =>
           NewDrill(c).key = [kind |-> "schedule", t |-> NewDrill(c).target, at |-> NewDrill(c).slot]
    <3>1. CASE c \in Schedulers
      BY <3>1 DEF NewDrill, KeyOf, SlotKey, TargetOf
    <3>2. CASE c \notin Schedulers
      <4>1. c \in Requests
        BY <3>2 DEF Creators
      <4>2. req[c].origin \in Origin
        BY <4>1 DEF Typed, TypeOK
      <4>3. req[c].origin # "schedule"
        BY <4>2 DEF Origin
      <4> QED BY <3>2, <4>3 DEF NewDrill, KeyOf, RequestKey
    <3> QED BY <3>1, <3>2
  <2>2. \A d \in 1..Len(drills') : d \in 1..Len(drills) \/ d = Len(drills) + 1
    BY <1>2, InsertedDrill
  <2> QED BY SMTT(20), <1>2, <2>1, <2>2, InsertedDrill DEF Keyed
<1>3. (\E c \in Creators : Inserts(c)) \/ drills' = drills
  BY CreateSteps, OtherSteps DEF Quiet, Reuses, Queues
<1> QED BY <1>1, <1>2, <1>3

\* A scheduled slot never gets two drills, however many scheduler jobs overlap,
\* fail or die, wherever the clock and late writes of next_drill_at put the target
\* (SchedulerWorker.Work, CreateDrillIdempotent).
THEOREM SlotsAreDrilledOnce == Spec => []OneDrillPerSlot
<1>1. Init => Keyed
  BY DEF Init, Keyed
<1>2. Spec => [](Typed /\ Keyed)
  BY <1>1, InitTyped, StepTyped, StepKeyed, PTL DEF Spec
<1>3. Keyed => OneDrillPerSlot
  <2> SUFFICES ASSUME Keyed, NEW d \in 1..Len(drills), NEW e \in 1..Len(drills),
                      drills[d].key.kind = "schedule", drills[e].key.kind = "schedule",
                      drills[d].target = drills[e].target, drills[d].slot = drills[e].slot
               PROVE  d = e
    BY DEF OneDrillPerSlot
  <2>1. drills[d].key = [kind |-> "schedule", t |-> drills[d].target, at |-> drills[d].slot]
    BY DEF Keyed
  <2>2. drills[e].key = [kind |-> "schedule", t |-> drills[e].target, at |-> drills[e].slot]
    BY DEF Keyed
  <2>3. drills[d].key = drills[e].key
    BY <2>1, <2>2
  <2> QED BY <2>3 DEF Keyed
<1> QED BY <1>2, <1>3, PTL

-----------------------------------------------------------------------------
Queued(d) == drills[d].key.kind # "api"

\* Why no drill is queued twice: a drill on its way to the queue has no job yet and
\* one creator only, the one that inserted it; a replay's key is its own.
Handed ==
    /\ \A d \in 1..MaxDrills : d > Len(drills) => jobs[d] = 0
    /\ \A d \in 1..Len(drills), r \in Requests :
          drills[d].key = RequestKey(r) /\ req[r].origin = "replay" => pc[r] \in Queueing
    /\ \A c \in Creators : pc[c] = "enqueue" =>
          mine[c] \in 1..Len(drills) /\ (Queued(mine[c]) => jobs[mine[c]] = 0)
    /\ \A c, e \in Creators :
          pc[c] = "enqueue" /\ pc[e] = "enqueue" /\ mine[c] = mine[e] /\ Queued(mine[c]) => c = e
    /\ QueuedOnce

LEMMA QuietHanded ==
    ASSUME Typed, Handed, Quiet PROVE Handed'
BY DEF Handed, Quiet, Queued, QueuedOnce, RequestKey

LEMMA InsertHanded ==
    ASSUME Typed, Handed, NEW c \in Creators, Inserts(c) PROVE Handed'
<1> DEFINE n == Len(drills) + 1
<1>1. /\ Len(drills) \in Nat /\ Len(drills') = n
      /\ \A d \in 1..Len(drills) : drills'[d] = drills[d]
      /\ drills'[n] = NewDrill(c) /\ n \in 1..MaxDrills
  BY InsertedDrill, SchedulerAssumption DEF Inserts
<1>2. jobs' = jobs /\ req' = req /\ jobs[n] = 0
  BY <1>1 DEF Inserts, Handed
<1>3. /\ mine'[c] = n /\ pc'[c] = "enqueue"
      /\ \A e \in Creators : e # c => mine'[e] = mine[e] /\ pc'[e] = pc[e]
  BY DEF Inserts, Typed, TypeOK
<1>4. \A d \in 1..Len(drills') : d \in 1..Len(drills) \/ d = n
  BY <1>1
<1> HIDE DEF n
<1>5. (\A d \in 1..MaxDrills : d > Len(drills) => jobs[d] = 0)'
  BY <1>1, <1>2 DEF Handed, n
<1>6. (\A d \in 1..Len(drills), r \in Requests :
          drills[d].key = RequestKey(r) /\ req[r].origin = "replay" => pc[r] \in Queueing)'
  <2> SUFFICES ASSUME NEW d \in 1..Len(drills'), NEW r \in Requests,
                      drills'[d].key = RequestKey(r), req[r].origin = "replay"
               PROVE  pc'[r] \in Queueing
    BY <1>2 DEF RequestKey
  <2>1. r \in Creators
    BY DEF Creators
  <2>2. CASE r = c
    BY <1>3, <2>2 DEF Queueing
  <2>3. CASE r # c /\ d = n
    <3>1. KeyOf(c) = RequestKey(r)
      BY <1>1, <2>3 DEF NewDrill
    <3>2. RequestKey(r) = [kind |-> "replay", r |-> r]
      BY DEF RequestKey
    <3>3. c \in Requests /\ KeyOf(c) = RequestKey(c)
      <4>1. CASE c \in Schedulers
        <5>1. KeyOf(c).kind = "schedule"
          BY <4>1 DEF KeyOf, SlotKey
        <5> QED BY <3>1, <3>2, <5>1
      <4> QED BY <4>1 DEF KeyOf, Creators
    <3>4. req[c].origin = "replay"
      BY <3>1, <3>2, <3>3 DEF RequestKey
    <3>5. RequestKey(c) = [kind |-> "replay", r |-> c]
      BY <3>4 DEF RequestKey
    <3>6. RequestKey(c).r = c /\ RequestKey(r).r = r
      BY <3>2, <3>5
    <3> QED BY <2>3, <3>1, <3>3, <3>6
  <2>4. CASE r # c /\ d \in 1..Len(drills)
    BY <1>1, <1>3, <2>1, <2>4 DEF Handed
  <2> QED BY <1>4, <2>2, <2>3, <2>4
<1>7. (\A e \in Creators : pc[e] = "enqueue" =>
          mine[e] \in 1..Len(drills) /\ (Queued(mine[e]) => jobs[mine[e]] = 0))'
  <2> SUFFICES ASSUME NEW e \in Creators, pc'[e] = "enqueue"
               PROVE  mine'[e] \in 1..Len(drills') /\ (Queued(mine[e])' => jobs[mine'[e]] = 0)
    BY <1>2
  <2>1. CASE e = c
    BY <1>1, <1>2, <1>3, <2>1 DEF n
  <2>2. CASE e # c
    BY <1>1, <1>3, <2>2 DEF Handed, Queued, n
  <2> QED BY <2>1, <2>2
<1>8. (\A e, f \in Creators :
          pc[e] = "enqueue" /\ pc[f] = "enqueue" /\ mine[e] = mine[f] /\ Queued(mine[e]) => e = f)'
  <2> SUFFICES ASSUME NEW e \in Creators, NEW f \in Creators, pc'[e] = "enqueue", pc'[f] = "enqueue",
                      mine'[e] = mine'[f], Queued(mine[e])'
               PROVE  e = f
    OBVIOUS
  <2>1. \A g \in Creators : g # c /\ pc'[g] = "enqueue" => mine'[g] \in 1..Len(drills)
    BY <1>3 DEF Handed
  <2>2. n \notin 1..Len(drills)
    BY <1>1 DEF n
  <2>3. e = c \/ f = c => e = f
    BY <1>3, <2>1, <2>2
  <2>4. e # c /\ f # c => e = f
    BY <1>1, <1>3, <2>1 DEF Handed, Queued
  <2> QED BY <2>3, <2>4
<1>9. QueuedOnce'
  BY <1>1, <1>2, <1>4 DEF Handed, QueuedOnce
<1> QED BY <1>5, <1>6, <1>7, <1>8, <1>9 DEF Handed

LEMMA ReuseHanded ==
    ASSUME Typed, Handed, NEW c \in Creators, Reuses(c) PROVE Handed'
<1>1. drills' = drills /\ jobs' = jobs /\ req' = req /\ pc[c] = "lookup"
  BY DEF Reuses
<1>2. PICK d \in 1..Len(drills) : drills[d].key = KeyOf(c) /\ mine' = [mine EXCEPT ![c] = d]
  BY DEF Reuses, Claims
<1>3. /\ mine'[c] = d /\ pc'[c] = "enqueue"
      /\ \A e \in Creators : e # c => mine'[e] = mine[e] /\ pc'[e] = pc[e]
  BY <1>2 DEF Reuses, Typed, TypeOK
<1>4. c \in Requests /\ KeyOf(c) = RequestKey(c) /\ req[c].origin \in {"api", "replay"}
  BY SchedulerAssumption DEF Reuses, EnqueuesReused, KeyOf
<1>5. req[c].origin # "replay"
  BY <1>1, <1>2, <1>4 DEF Handed, Queueing
<1>6. drills[d].key.kind = "api"
  BY <1>2, <1>4, <1>5 DEF RequestKey
<1>7. (\A b \in 1..Len(drills), r \in Requests :
          drills[b].key = RequestKey(r) /\ req[r].origin = "replay" => pc[r] \in Queueing)'
  BY <1>1, <1>3, <1>5 DEF Handed, RequestKey, Creators
<1>8. (\A e \in Creators : pc[e] = "enqueue" =>
          mine[e] \in 1..Len(drills) /\ (Queued(mine[e]) => jobs[mine[e]] = 0))'
  BY <1>1, <1>2, <1>3, <1>6 DEF Handed, Queued
<1>9. (\A e, f \in Creators :
          pc[e] = "enqueue" /\ pc[f] = "enqueue" /\ mine[e] = mine[f] /\ Queued(mine[e]) => e = f)'
  BY <1>1, <1>3, <1>6 DEF Handed, Queued
<1>10. QueuedOnce' /\ (\A b \in 1..MaxDrills : b > Len(drills) => jobs[b] = 0)'
  BY <1>1 DEF Handed, QueuedOnce
<1> QED BY <1>7, <1>8, <1>9, <1>10 DEF Handed

LEMMA QueueHanded ==
    ASSUME Typed, Handed, NEW c \in Creators, Queues(c) PROVE Handed'
<1>1. drills' = drills /\ mine' = mine /\ req' = req /\ pc[c] = "enqueue" /\ pc'[c] # "enqueue"
  BY DEF Queues
<1>2. \A e \in Creators : e # c => pc'[e] = pc[e]
  BY DEF Queues
<1> DEFINE d == mine[c]
<1>3. d \in 1..Len(drills) /\ (Queued(d) => jobs[d] = 0)
  BY <1>1 DEF Handed
<1>4. Len(drills) \in Nat /\ Len(drills) <= MaxDrills /\ MaxDrills \in Nat /\ jobs \in [1..MaxDrills -> Nat]
  BY SchedulerAssumption DEF Typed, TypeOK
<1>5. jobs'[d] = jobs[d] + 1 /\ \A b \in 1..MaxDrills : b # d => jobs'[b] = jobs[b]
  <2>1. jobs' = [jobs EXCEPT ![d] = @ + 1] /\ d \in 1..MaxDrills
    BY <1>3, <1>4 DEF Queues
  <2> QED BY <1>4, <2>1
<1> HIDE DEF d
<1>6. (\A b \in 1..MaxDrills : b > Len(drills) => jobs[b] = 0)'
  BY <1>1, <1>3, <1>4, <1>5 DEF Handed
<1>7. (\A b \in 1..Len(drills), r \in Requests :
          drills[b].key = RequestKey(r) /\ req[r].origin = "replay" => pc[r] \in Queueing)'
  BY ZenonT(20), <1>1, <1>2 DEF Handed, Queues, RequestKey, Creators
<1>8. \A e \in Creators : pc'[e] = "enqueue" => e # c /\ pc[e] = "enqueue"
  BY <1>1, <1>2
<1>9. (\A e \in Creators : pc[e] = "enqueue" =>
          mine[e] \in 1..Len(drills) /\ (Queued(mine[e]) => jobs[mine[e]] = 0))'
  <2> SUFFICES ASSUME NEW e \in Creators, pc'[e] = "enqueue"
               PROVE  mine[e] \in 1..Len(drills) /\ (Queued(mine[e]) => jobs'[mine[e]] = 0)
    BY <1>1 DEF Queued
  <2>1. mine[e] \in 1..Len(drills) /\ (Queued(mine[e]) => jobs[mine[e]] = 0)
    BY <1>8 DEF Handed
  <2>2. Queued(mine[e]) => mine[e] # d
    BY <1>1, <1>8 DEF Handed, d
  <2> QED BY <1>4, <1>5, <2>1, <2>2
<1>10. (\A e, f \in Creators :
          pc[e] = "enqueue" /\ pc[f] = "enqueue" /\ mine[e] = mine[f] /\ Queued(mine[e]) => e = f)'
  BY <1>1, <1>8 DEF Handed, Queued
<1>11. QueuedOnce'
  <2> SUFFICES ASSUME NEW b \in 1..Len(drills), Queued(b) PROVE jobs'[b] <= 1
    BY <1>1 DEF QueuedOnce, Queued
  <2>1. CASE b = d
    BY <1>3, <1>5, <2>1
  <2>2. CASE b # d
    BY <1>4, <1>5, <2>2 DEF Handed, QueuedOnce, Queued
  <2> QED BY <2>1, <2>2
<1> QED BY <1>6, <1>7, <1>9, <1>10, <1>11 DEF Handed

\* No drill of the scheduler, the form, the sample or a replay is queued twice,
\* however often its creator's request is repeated or its job is started over: the
\* pipeline of such a drill starts once (EnqueueDrill and its callers).
THEOREM DrillsAreQueuedOnce == Spec => []QueuedOnce
<1>1. Init => Handed
  BY DEF Init, Handed, QueuedOnce, Creators
<1>2. Typed /\ Handed /\ [Next]_vars => Handed'
  <2> SUFFICES ASSUME Typed, Handed, [Next]_vars PROVE Handed'
    OBVIOUS
  <2>1. Quiet \/ \E c \in Creators : Inserts(c) \/ Reuses(c) \/ Queues(c)
    BY CreateSteps, OtherSteps
  <2> QED BY <2>1, QuietHanded, InsertHanded, ReuseHanded, QueueHanded
<1>3. Spec => [](Typed /\ Handed)
  BY <1>1, <1>2, InitTyped, StepTyped, PTL DEF Spec
<1> QED BY <1>3, PTL DEF Handed

-----------------------------------------------------------------------------
(* What a client of the API is told.                                        *)

\* Some drill with key k has been queued.
Started(k) == \E d \in Claims(k) : jobs[d] >= 1
ApiKey(k) == [kind |-> "api", k |-> k]

Accepted ==
    /\ \A r \in Requests : req[r].origin = "api" =>
          /\ pc[r] = "enqueue" => mine[r] \in Claims(RequestKey(r))
          /\ answer[r] = "ok" => Started(RequestKey(r))
    /\ \A k \in FormKeys : stored[k].answer = "ok" => Started(ApiKey(k))

\* Keys are never released and jobs never taken back.
LEMMA ClaimsGrow ==
    ASSUME Typed, [Next]_vars, NEW k
    PROVE  /\ Claims(k) \subseteq Claims(k)'
           /\ req' = req /\ \A r \in Requests : RequestKey(r)' = RequestKey(r)
           /\ \A d \in 1..Len(drills) : jobs'[d] \in Nat /\ jobs[d] \in Nat /\ jobs'[d] >= jobs[d]
<1>1. Quiet \/ \E c \in Creators : Inserts(c) \/ Reuses(c) \/ Queues(c)
  BY CreateSteps, OtherSteps
<1>2. req' = req
  BY <1>1 DEF Quiet, Inserts, Reuses, Queues
<1>3. Len(drills) \in Nat /\ Len(drills) <= MaxDrills /\ jobs \in [1..MaxDrills -> Nat]
  BY DEF Typed, TypeOK
<1>4. ASSUME NEW d \in 1..MaxDrills
      PROVE  jobs'[d] \in Nat /\ jobs[d] \in Nat /\ jobs'[d] >= jobs[d]
  <2>1. jobs'[d] = jobs[d] \/ jobs'[d] = jobs[d] + 1
    BY <1>1, <1>3 DEF Quiet, Inserts, Reuses, Queues
  <2>2. jobs[d] \in Nat
    BY <1>3
  <2> QED BY <2>1, <2>2
<1>5. Claims(k) \subseteq Claims(k)'
  <2>1. CASE drills' = drills
    BY <2>1 DEF Claims
  <2>2. ASSUME NEW c \in Creators, Inserts(c) PROVE Claims(k) \subseteq Claims(k)'
    BY <2>2, InsertedDrill DEF Claims
  <2> QED BY <1>1, <2>1, <2>2 DEF Quiet, Reuses, Queues
<1>6. \A d \in 1..Len(drills) : d \in 1..MaxDrills
  BY <1>3, SchedulerAssumption
<1> QED BY <1>2, <1>4, <1>5, <1>6 DEF RequestKey

LEMMA StartedStays ==
    ASSUME Typed, [Next]_vars, NEW k, Started(k)
    PROVE  Started(k)'
<1>1. PICK d \in Claims(k) : jobs[d] >= 1
  BY DEF Started
<1>2. d \in 1..Len(drills) /\ d \in Claims(k)'
  BY ClaimsGrow DEF Claims
<1>3. jobs'[d] >= 1
  BY <1>1, <1>2, ClaimsGrow
<1> QED BY <1>2, <1>3 DEF Started

\* A request is told "ok" by what is stored, or once its drill has been queued; only the form
\* and the sample are told so of a drill somebody else created.
LEMMA ToldOk ==
    ASSUME Typed, [Next]_vars, NEW r \in Requests, req[r].origin = "api",
           answer'[r] = "ok", answer[r] # "ok"
    PROVE  \/ stored[req[r].key].answer = "ok"
           \/ EnqueueDrill(r)
<1> USE DEF reqVars
<1>0. answer \in [Requests -> Answers] /\ Schedulers \cap Requests = {}
  BY SchedulerAssumption DEF Typed, TypeOK
<1>1. ASSUME NEW a, NEW c \in Creators, c \in Requests => Respond(c, a), c \notin Requests => UNCHANGED reqVars
      PROVE  c = r /\ a = "ok"
  BY <1>0, <1>1 DEF Respond
<1>2. ASSUME NEW c \in Creators, GiveUp(c) PROVE FALSE
  BY <1>0, <1>1, <1>2 DEF GiveUp
<1>3. ASSUME NEW c \in Creators, Proceed(c) PROVE c = r
  BY <1>0, <1>1, <1>3 DEF Proceed
<1>4. ASSUME NEW c \in Creators, Create(c) PROVE EnqueueDrill(r)
  <2>1. CASE LookupKey(c)
    <3>1. Proceed(c) /\ ~EnqueuesReused(c)
      BY <2>1 DEF LookupKey
    <3> QED BY <1>3, <3>1 DEF EnqueuesReused
  <2>2. CASE InsertDrill(c)
    BY <1>2, <2>2 DEF InsertDrill
  <2>3. CASE EnqueueDrill(c)
    BY <1>3, <2>3 DEF EnqueueDrill
  <2> QED BY <1>4, <2>1, <2>2, <2>3 DEF Create
<1>5. ASSUME NEW s \in Schedulers, SchedulerWork(s) PROVE EnqueueDrill(r)
  BY <1>4, <1>5 DEF SchedulerWork, DueTargets, TakeTarget, Downshift, EndBatch, ComputeNext,
                    AdvanceTargetSchedule, Creators
<1>6. ASSUME NEW q \in Requests, ReplayAnswer(q) PROVE stored[req[r].key].answer = "ok"
  BY <1>0, <1>6 DEF ReplayAnswer
<1>7. ASSUME NEW q \in Requests, ServeRequest(q)
      PROVE  stored[req[r].key].answer = "ok" \/ EnqueueDrill(r)
  <2>1. ~TurnAway(q) /\ ~BeginRequest(q) /\ ~StoreResponse(q)
    BY <1>0 DEF TurnAway, BeginRequest, StoreResponse
  <2>2. ~CountDrills(q)
    BY <1>0, <1>1 DEF CountDrills, Creators
  <2> QED BY <1>4, <1>6, <1>7, <2>1, <2>2 DEF ServeRequest, Creators
<1>8. ASSUME NEW c \in Creators, StatementFails(c) PROVE FALSE
  BY <1>2, <1>8 DEF StatementFails
<1>9. \/ \E s \in Schedulers : SchedulerWork(s)
      \/ \E q \in Requests : ServeRequest(q)
  <2>1. ~ UNCHANGED vars /\ ~Tick /\ ~ChangePlan
    BY DEF vars, Tick, ChangePlan
  <2>2. ~ (\E t \in Targets, c \in Cadence : SetTargetSchedule(t, c)) /\ ~(\E c \in Creators : Crash(c))
    BY DEF SetTargetSchedule, Crash
  <2> QED BY <1>8, <2>1, <2>2 DEF Next
<1> QED BY <1>5, <1>7, <1>9

\* What v1Idempotency stores is what the request was answered.
LEMMA StoredOk ==
    ASSUME Typed, [Next]_vars, NEW k \in FormKeys,
           stored'[k].answer = "ok", stored[k].answer # "ok"
    PROVE  \E r \in Requests : req[r].origin = "api" /\ req[r].key = k /\ answer[r] = "ok"
<1> USE DEF reqVars
<1>1. ASSUME NEW c \in Creators, Create(c) PROVE FALSE
  <2>1. ASSUME NEW a \in Answers, GiveUp(c) \/ Proceed(c) PROVE FALSE
    BY <2>1 DEF GiveUp, Proceed, Respond
  <2> QED BY <1>1, <2>1 DEF Create, LookupKey, InsertDrill, EnqueueDrill, Answers
<1>2. ASSUME NEW s \in Schedulers, SchedulerWork(s) PROVE FALSE
  BY <1>1, <1>2 DEF SchedulerWork, DueTargets, TakeTarget, Downshift, EndBatch, ComputeNext,
                    AdvanceTargetSchedule, Creators
<1>3. ASSUME NEW c \in Creators, StatementFails(c) \/ Crash(c) PROVE FALSE
  BY <1>3 DEF StatementFails, Crash, GiveUp, Respond
<1>4. ASSUME NEW r \in Requests, ServeRequest(r) PROVE StoreResponse(r)
  BY <1>1, <1>4 DEF ServeRequest, ReplayAnswer, TurnAway, BeginRequest, CountDrills, Respond, Creators
<1>5. PICK r \in Requests : StoreResponse(r)
  <2>1. ~ UNCHANGED vars /\ ~Tick /\ ~ChangePlan
    BY DEF vars, Tick, ChangePlan
  <2>2. ~ (\E t \in Targets, c \in Cadence : SetTargetSchedule(t, c))
    BY DEF SetTargetSchedule
  <2> QED BY <1>2, <1>3, <1>4, <2>1, <2>2 DEF Next
<1>6. req[r].origin = "api" /\ stored' = [stored EXCEPT ![req[r].key] = [target |-> req[r].target, answer |-> answer[r]]]
  BY <1>5 DEF StoreResponse
<1>7. req[r].key = k
  BY <1>6 DEF Typed, TypeOK
<1>8. stored'[k].answer = answer[r]
  BY <1>6, <1>7 DEF Typed, TypeOK
<1> QED BY <1>6, <1>7, <1>8

LEMMA StepAccepted ==
    ASSUME Typed, Typed', Accepted, [Next]_vars
    PROVE  Accepted'
<1>0. req' = req /\ \A r \in Requests : RequestKey(r)' = RequestKey(r)
  BY ClaimsGrow
<1>1. \A r \in Requests : req[r].origin = "api" => RequestKey(r) = ApiKey(req[r].key) /\ req[r].key \in FormKeys
  BY DEF RequestKey, ApiKey, Typed, TypeOK
<1>2. ASSUME NEW r \in Requests, req[r].origin = "api", pc'[r] = "enqueue"
      PROVE  mine'[r] \in Claims(RequestKey(r))'
  <2>0. r \in Creators /\ KeyOf(r) = RequestKey(r)
    BY SchedulerAssumption DEF Creators, KeyOf
  <2>1. CASE pc[r] = "enqueue" /\ mine'[r] = mine[r]
    <3>1. mine[r] \in Claims(RequestKey(r))
      BY <1>2, <2>1 DEF Accepted
    <3>2. Claims(RequestKey(r)) \subseteq {d \in 1..Len(drills') : drills'[d].key = RequestKey(r)}
      BY ClaimsGrow DEF Claims
    <3> QED BY <1>0, <2>1, <3>1, <3>2 DEF Claims
  <2>2. CASE Inserts(r)
    <3>1. mine'[r] = Len(drills) + 1 /\ drills'[Len(drills) + 1].key = RequestKey(r)
      BY <2>0, <2>2, InsertedDrill DEF Inserts, NewDrill, Typed, TypeOK
    <3>2. Len(drills) + 1 \in 1..Len(drills')
      BY <2>0, <2>2, InsertedDrill
    <3> QED BY <1>0, <3>1, <3>2 DEF Claims
  <2>3. CASE Reuses(r)
    <3>1. PICK d \in Claims(RequestKey(r)) : mine' = [mine EXCEPT ![r] = d]
      BY <2>0, <2>3 DEF Reuses
    <3>2. mine'[r] = d /\ drills' = drills
      BY <2>0, <2>3, <3>1 DEF Reuses, Typed, TypeOK
    <3> QED BY <1>0, <3>2 DEF Claims
  <2>4. ASSUME NEW c \in Creators, Inserts(c) \/ Reuses(c) \/ Queues(c)
        PROVE  c = r \/ (pc[r] = "enqueue" /\ mine'[r] = mine[r])
    BY <1>2, <2>0, <2>4 DEF Inserts, Reuses, Queues, Typed, TypeOK
  <2>5. Queues(r) => FALSE
    BY <1>2 DEF Queues
  <2>6. Quiet => pc[r] = "enqueue" /\ mine'[r] = mine[r]
    BY <1>2, <2>0 DEF Quiet
  <2> QED BY <2>1, <2>2, <2>3, <2>4, <2>5, <2>6, CreateSteps, OtherSteps
<1>3. ASSUME NEW r \in Requests, req[r].origin = "api", answer'[r] = "ok"
      PROVE  Started(RequestKey(r))'
  <2>1. CASE answer[r] = "ok" \/ stored[req[r].key].answer = "ok"
    <3>1. Started(RequestKey(r))
      BY <1>1, <1>3, <2>1 DEF Accepted
    <3>2. \E d \in 1..Len(drills') : drills'[d].key = RequestKey(r) /\ jobs'[d] >= 1
      BY <3>1, StartedStays DEF Started, Claims
    <3> QED BY <1>0, <3>2 DEF Started, Claims
  <2>2. CASE EnqueueDrill(r)
    <3>1. pc[r] = "enqueue" /\ drills' = drills /\ jobs' = [jobs EXCEPT ![mine[r]] = @ + 1]
      BY <2>2 DEF EnqueueDrill
    <3>2. mine[r] \in Claims(RequestKey(r))
      BY <1>3, <3>1 DEF Accepted
    <3>3. mine[r] \in 1..MaxDrills /\ jobs \in [1..MaxDrills -> Nat]
      BY <3>2, SchedulerAssumption DEF Claims, Typed, TypeOK
    <3>4. jobs'[mine[r]] >= 1
      BY <3>1, <3>3
    <3> QED BY <1>0, <3>1, <3>2, <3>4 DEF Started, Claims
  <2> QED BY <1>3, <2>1, <2>2, ToldOk
<1>4. ASSUME NEW k \in FormKeys, stored'[k].answer = "ok"
      PROVE  Started(ApiKey(k))'
  <2>1. Started(ApiKey(k))
    BY <1>1, <1>4, StoredOk DEF Accepted
  <2>2. \E d \in 1..Len(drills') : drills'[d].key = ApiKey(k) /\ jobs'[d] >= 1
    BY <2>1, StartedStays DEF Started, Claims
  <2> QED BY <2>2 DEF Started, Claims, ApiKey
<1> QED BY <1>0, <1>2, <1>3, <1>4 DEF Accepted

\* A client of the API that was told its drill exists has a drill that is queued, also when
\* earlier attempts with the key died or failed half way (v1CreateDrill, v1Idempotency).
THEOREM AcceptedDrillsAreQueued == Spec => []AcceptedIsQueued
<1>1. Init => Accepted
  BY SchedulerAssumption DEF Init, Accepted, Creators
<1>2. Accepted => AcceptedIsQueued
  BY DEF Accepted, AcceptedIsQueued, Started
<1> QED BY <1>1, <1>2, InitTyped, StepTyped, StepAccepted, PTL DEF Spec

-----------------------------------------------------------------------------
(* The plan at the next fire.                                               *)

AtWork == {"lookup", "insert", "enqueue", "compute", "advance"}

\* A tick the plan has not changed under has read the plan, and is at a cadence of it.
InPlan ==
    \A s \in Schedulers : fresh[s] =>
       /\ \A b \in batch[s] : b.plan = plan /\ b.unlimited = unlimited
       /\ pc[s] \in AtWork => CadenceAllowed(plan, unlimited, cur[s].cadence)

\* Where a scheduler is may change, but not from a target to another.
Keeps(s) ==
    /\ batch'[s] = batch[s] /\ cur'[s] = cur[s]
    /\ pc'[s] \in AtWork => pc[s] \in AtWork

LEMMA CreateKeeps ==
    ASSUME Typed, NEW c \in Creators, Create(c) \/ StatementFails(c) \/ Crash(c)
    PROVE  UNCHANGED <<now, acctVars, targetVars, jobVars, edits, planChanges>> /\ \A s \in Schedulers : Keeps(s)
<1>1. UNCHANGED <<now, acctVars, targetVars, jobVars, edits, planChanges>>
  BY DEF Create, LookupKey, InsertDrill, EnqueueDrill, StatementFails, Crash, boundVars
<1>2. ASSUME NEW s \in Schedulers, c # s PROVE pc'[s] = pc[s]
  BY <1>2, SchedulerAssumption
     DEF Create, LookupKey, InsertDrill, EnqueueDrill, StatementFails, Crash, GiveUp, Proceed,
         Respond, Typed, TypeOK, Creators
<1>3. ASSUME c \in Schedulers PROVE pc[c] \in AtWork \/ pc'[c] \notin AtWork
  BY <1>3, SchedulerAssumption
     DEF Create, LookupKey, InsertDrill, EnqueueDrill, StatementFails, Crash, GiveUp, Respond,
         Typed, TypeOK, Working, Creators, AtWork
<1> QED BY <1>1, <1>2, <1>3 DEF Keeps, jobVars

LEMMA OtherKeeps ==
    ASSUME Typed,
           \/ \E r \in Requests : ServeRequest(r) /\ ~Create(r)
           \/ \E t \in Targets, k \in Cadence : SetTargetSchedule(t, k)
           \/ Tick \/ UNCHANGED vars
    PROVE  UNCHANGED <<acctVars, jobVars, planChanges>> /\ \A s \in Schedulers : Keeps(s)
<1>1. ASSUME NEW r \in Requests, ServeRequest(r), ~Create(r)
      PROVE  UNCHANGED <<acctVars, jobVars, planChanges>> /\ \A s \in Schedulers : pc'[s] = pc[s]
  <2>1. UNCHANGED <<acctVars, jobVars, planChanges>>
    BY <1>1 DEF ServeRequest, ReplayAnswer, TurnAway, BeginRequest, CountDrills, StoreResponse, boundVars
  <2>2. \A s \in Schedulers : s # r /\ s \in Creators
    BY SchedulerAssumption DEF Creators
  <2>3. \E there : pc' = [pc EXCEPT ![r] = there]
    BY <1>1 DEF ServeRequest, ReplayAnswer, TurnAway, BeginRequest, CountDrills, StoreResponse, Respond
  <2> QED BY <2>1, <2>2, <2>3 DEF Typed, TypeOK
<1>2. ASSUME NEW t \in Targets, NEW k \in Cadence, SetTargetSchedule(t, k)
      PROVE  UNCHANGED <<acctVars, jobVars, pc, planChanges>>
  BY <1>2 DEF SetTargetSchedule
<1>3. ASSUME Tick \/ UNCHANGED vars PROVE UNCHANGED <<acctVars, jobVars, pc, planChanges>>
  BY <1>3 DEF Tick, vars, boundVars
<1> QED BY <1>1, <1>2, <1>3 DEF Keeps, jobVars

LEMMA StepInPlan ==
    ASSUME Typed, InPlan, [Next]_vars
    PROVE  InPlan'
<1> USE DEF acctVars, jobVars
<1>1. ASSUME UNCHANGED <<acctVars, jobVars>>, \A s \in Schedulers : Keeps(s) PROVE InPlan'
  BY <1>1 DEF InPlan, Keeps
<1>2. ASSUME NEW s \in Schedulers, SchedulerWork(s), ~Create(s) PROVE InPlan'
  <2>0. pc \in [Creators -> {"idle", "batch", "count", "lookup", "insert", "enqueue", "compute",
                             "advance", "respond", "done"}]
        /\ batch \in [Schedulers -> SUBSET Due] /\ fresh \in [Schedulers -> BOOLEAN]
        /\ cur \in [Schedulers -> Due \cup {NoDue}] /\ s \in Creators
    BY DEF Typed, TypeOK, Creators
  <2>1. CASE DueTargets(s)
    <3>1. \A b \in DueNow : b.plan = plan /\ b.unlimited = unlimited
      BY DEF DueNow
    <3>2. batch' = [batch EXCEPT ![s] = DueNow] /\ pc' = [pc EXCEPT ![s] = "batch"] /\ cur' = cur
          /\ fresh' = [fresh EXCEPT ![s] = TRUE] /\ UNCHANGED acctVars
      BY <2>1 DEF DueTargets
    <3> QED BY <2>0, <3>1, <3>2 DEF InPlan, AtWork, Creators
  <2>2. CASE TakeTarget(s)
    <3>1. PICK b \in batch[s] :
             /\ batch' = [batch EXCEPT ![s] = @ \ {b}] /\ cur' = [cur EXCEPT ![s] = b]
             /\ pc' = [pc EXCEPT ![s] = "lookup"] /\ fresh' = fresh /\ UNCHANGED acctVars
             /\ CadenceAllowed(b.plan, b.unlimited, b.cadence)
      BY <2>2 DEF TakeTarget, StillAllowed
    <3>2. fresh[s] => CadenceAllowed(plan, unlimited, b.cadence)
      BY <3>1 DEF InPlan
    <3>3. \A p, u, k : CadenceAllowed(p, u, k)' = CadenceAllowed(p, u, k)
      BY DEF CadenceAllowed, AllowedCadences, IsPaid
    <3> QED BY <2>0, <3>1, <3>2, <3>3 DEF InPlan, AtWork, Creators
  <2>3. CASE Downshift(s)
    <3>1. PICK b \in batch[s] :
             /\ batch' = [batch EXCEPT ![s] = @ \ {b}]
             /\ UNCHANGED <<acctVars, pc, cur, fresh>>
      BY <2>3 DEF Downshift
    <3> QED BY <2>0, <3>1 DEF InPlan
  <2>4. CASE EndBatch(s)
    BY <2>0, <2>4 DEF EndBatch, InPlan, AtWork, Creators
  <2>5. CASE ComputeNext(s)
    BY <2>0, <2>5 DEF ComputeNext, InPlan, AtWork, Creators
  <2>6. CASE AdvanceTargetSchedule(s)
    BY <2>0, <2>6 DEF AdvanceTargetSchedule, InPlan, AtWork, Creators
  <2> QED BY <1>2, <2>1, <2>2, <2>3, <2>4, <2>5, <2>6 DEF SchedulerWork
<1>3. CASE ChangePlan
  BY <1>3 DEF ChangePlan, InPlan
<1>4. ASSUME NEW c \in Creators, Create(c) \/ StatementFails(c) \/ Crash(c) PROVE InPlan'
  BY <1>1, <1>4, CreateKeeps
<1> QED BY <1>1, <1>2, <1>3, <1>4, OtherKeeps DEF Next, SchedulerWork, ServeRequest, Creators

\* A tick that began after the last change of the plan inserts no drill at a cadence the plan
\* does not have (DueSchedule, SchedulerWorker.Work).
THEOREM TicksFireWithinPlan == Spec => FiresWithinPlan
<1>1. Init => InPlan
  BY DEF Init, InPlan
<1>2. InPlan /\ [Next]_vars => [\A s \in Schedulers : InsertDrill(s) /\ fresh[s] =>
                                   CadenceAllowed(plan, unlimited, cur[s].cadence)]_vars
  BY DEF InPlan, InsertDrill, AtWork
<1> QED BY <1>1, <1>2, InitTyped, StepTyped, StepInPlan, PTL DEF Spec, FiresWithinPlan

-----------------------------------------------------------------------------
(* Slots in step with the saved schedule.                                    *)

\* A product of natural numbers that is smaller than its first factor is zero.
LEMMA SmallProduct ==
    ASSUME NEW i \in Nat \ {0}, NEW q \in Int, 0 <= i * q, i * q < i
    PROVE  i * q = 0
<1>1. CASE q >= 1
  <2>1. PICK p \in Nat : q = p + 1
    BY <1>1
  <2>2. i * q = i * p + i /\ i * p \in Nat
    BY <2>1
  <2> QED BY <2>2
<1>2. CASE q <= -1
  <2>1. PICK p \in Nat : q = -p - 1
    BY <1>2
  <2>2. i * q = -(i * p) - i /\ i * p \in Nat
    BY <2>1
  <2> QED BY <2>2
<1>3. CASE q = 0
  BY <1>3
<1> QED BY <1>1, <1>2, <1>3

\* Adding whole intervals keeps a distance a multiple of the interval.
LEMMA WholeIntervals ==
    ASSUME NEW i \in Nat \ {0}, NEW x \in Int, NEW k \in Nat, x % i = 0
    PROVE  (x + i * k) % i = 0
<1> DEFINE y == x + i * k
           q == x \div i
           p == y \div i
<1>1. i * k \in Int /\ y \in Int
  OBVIOUS
<1>2. q \in Int /\ x = i * q
  BY SMT
<1>3. p \in Int /\ y = i * p + (y % i) /\ 0 <= y % i /\ y % i < i /\ y % i \in Int
  BY <1>1, SMT
<1>4. y = i * (q + k)
  BY <1>2
<1>5. y % i = i * (q + k - p)
  BY <1>2, <1>3, <1>4
<1>6. q + k - p \in Int
  BY <1>2, <1>3
<1> QED BY <1>3, <1>5, <1>6, SmallProduct

InStep(at, t) == (at - anchor[t]) % CadenceInterval(cadence[t]) = 0

\* The slot after one in step is in step.
LEMMA NextSlotInStep ==
    ASSUME TypeOK, NEW t \in Targets, cadence[t] # "off", NEW at \in Nat, InStep(at, t)
    PROVE  InStep(NextSlot(at, CadenceInterval(cadence[t])), t)
<1> DEFINE i == CadenceInterval(cadence[t])
           k == IF at <= now THEN (now - at) \div i + 1 ELSE 1
           x == at - anchor[t]
<1>1. i \in Nat \ {0} /\ anchor[t] \in Nat /\ now \in Nat
  BY IntervalIsNat, SchedulerAssumption DEF TypeOK
<1>2. NextSlot(at, i) = at + i * k
  BY DEF NextSlot
<1> HIDE DEF i
<1>3. k \in Nat
  BY <1>1
<1> HIDE DEF k
<1>4. x \in Int /\ i * k \in Int /\ x % i = 0
  BY <1>1, <1>3 DEF InStep, i
<1>5. (x + i * k) % i = 0
  BY <1>1, <1>3, <1>4, WholeIntervals
<1>6. NextSlot(at, i) - anchor[t] = x + i * k
  BY <1>1, <1>2, <1>4
<1> HIDE DEF x
<1>7. (NextSlot(at, i) - anchor[t]) % i = 0
  BY <1>5, <1>6
<1> QED BY <1>7 DEF InStep, i

\* While nobody has saved a schedule and the plan is as it was, every tick has read the schedule
\* that is still there, works at a slot in step with it and finds its cadence allowed.
Steady ==
    edits = 0 /\ planChanges = 0 =>
       /\ \A t \in Targets : /\ CadenceAllowed(plan, unlimited, cadence[t])
                             /\ cadence[t] # "off" => InStep(nextAt[t], t)
       /\ \A s \in Schedulers :
             /\ \A b \in batch[s] : /\ b.plan = plan /\ b.unlimited = unlimited
                                    /\ b.cadence = cadence[b.t] /\ InStep(b.at, b.t)
             /\ pc[s] \in AtWork => cur[s].cadence = cadence[cur[s].t] /\ InStep(cur[s].at, cur[s].t)
             /\ pc[s] = "advance" => InStep(next[s], cur[s].t)

LEMMA StepSteady ==
    ASSUME Typed, Steady, [Next]_vars
    PROVE  Steady'
<1> USE DEF acctVars, targetVars, jobVars
<1>0. /\ pc \in [Creators -> {"idle", "batch", "count", "lookup", "insert", "enqueue", "compute",
                             "advance", "respond", "done"}]
      /\ batch \in [Schedulers -> SUBSET Due] /\ cur \in [Schedulers -> Due \cup {NoDue}]
      /\ next \in [Schedulers -> Nat] /\ nextAt \in [Targets -> Nat]
      /\ cadence \in [Targets -> Cadence]
      /\ edits \in Nat /\ planChanges \in Nat /\ Schedulers \subseteq Creators
  BY SchedulerAssumption DEF Typed, TypeOK, Creators
<1>1. ASSUME UNCHANGED <<acctVars, targetVars, jobVars, edits, planChanges>>,
             \A s \in Schedulers : Keeps(s) /\ (pc'[s] = "advance" => pc[s] = "advance")
      PROVE  Steady'
  BY <1>1 DEF Steady, Keeps, InStep
<1>2. ASSUME NEW s \in Schedulers, SchedulerWork(s), ~Create(s), edits' = 0, planChanges' = 0
      PROVE  Steady'
  <2>1. edits = 0 /\ planChanges = 0 /\ UNCHANGED <<acctVars, edits, planChanges>>
    BY <1>2 DEF SchedulerWork, DueTargets, TakeTarget, Downshift, EndBatch, ComputeNext,
                AdvanceTargetSchedule, boundVars
  <2>2. ~Downshift(s)
    <3> SUFFICES ASSUME NEW b \in batch[s], ~StillAllowed(b) PROVE FALSE
      BY DEF Downshift
    <3>1. b.t \in Targets /\ b.plan = plan /\ b.unlimited = unlimited /\ b.cadence = cadence[b.t]
      BY <1>0, <2>1 DEF Steady, Due
    <3> QED BY <2>1, <3>1 DEF Steady, StillAllowed
  <2>3. UNCHANGED <<cadence, anchor>>
    BY <1>2, <2>2 DEF SchedulerWork, DueTargets, TakeTarget, EndBatch, ComputeNext,
                AdvanceTargetSchedule
  <2>4. \A x, t : InStep(x, t) <=> (x - anchor'[t]) % CadenceInterval(cadence'[t]) = 0
    BY <2>3 DEF InStep
  <2>5. CASE DueTargets(s)
    <3>1. \A b \in DueNow : /\ b.plan = plan /\ b.unlimited = unlimited
                            /\ b.cadence = cadence[b.t] /\ InStep(b.at, b.t)
      <4> SUFFICES ASSUME NEW t \in Targets, IsDue(t) PROVE InStep(nextAt[t], t)
        BY DEF DueNow
      <4> QED BY <2>1 DEF IsDue, Steady
    <3>2. batch' = [batch EXCEPT ![s] = DueNow] /\ pc' = [pc EXCEPT ![s] = "batch"] /\ cur' = cur
          /\ next' = next /\ nextAt' = nextAt
      BY <2>5 DEF DueTargets
    <3> QED BY <1>0, <2>1, <2>3, <3>1, <3>2 DEF Steady, AtWork, InStep
  <2>6. CASE TakeTarget(s)
    <3>1. PICK b \in batch[s] :
             /\ batch' = [batch EXCEPT ![s] = @ \ {b}] /\ cur' = [cur EXCEPT ![s] = b]
             /\ pc' = [pc EXCEPT ![s] = "lookup"] /\ UNCHANGED <<next, nextAt>>
      BY <2>6 DEF TakeTarget
    <3> QED BY <1>0, <2>1, <2>3, <3>1 DEF Steady, AtWork, InStep
  <2>7. CASE EndBatch(s)
    <3>1. /\ pc' = [pc EXCEPT ![s] = "idle"] /\ UNCHANGED <<batch, nextAt>>
          /\ cur' = [cur EXCEPT ![s] = NoDue] /\ next' = [next EXCEPT ![s] = Null]
      BY <2>7 DEF EndBatch
    <3> QED BY <1>0, <2>1, <2>3, <3>1 DEF Steady, AtWork, InStep
  <2>8. CASE ComputeNext(s)
    <3>1. /\ pc[s] = "compute" /\ pc' = [pc EXCEPT ![s] = "advance"] /\ UNCHANGED <<batch, cur, nextAt>>
          /\ next' = [next EXCEPT ![s] = NextSlot(cur[s].at, CadenceInterval(cur[s].cadence))]
      BY <2>8 DEF ComputeNext
    <3>2. cur[s] \in Due /\ cur[s].cadence # "off"
      BY <3>1 DEF Typed, Working
    <3>3. cur[s].t \in Targets /\ cur[s].at \in Nat
          /\ cur[s].cadence = cadence[cur[s].t] /\ InStep(cur[s].at, cur[s].t)
      BY <2>1, <3>1, <3>2 DEF Steady, AtWork, Due
    <3>4. InStep(NextSlot(cur[s].at, CadenceInterval(cur[s].cadence)), cur[s].t)
      BY <3>2, <3>3, NextSlotInStep DEF Typed
    <3>5. InStep(next'[s], cur[s].t) /\ \A u \in Schedulers : u # s => next'[u] = next[u]
      BY <1>0, <3>1, <3>4
    <3> QED BY <1>0, <2>1, <2>3, <3>1, <3>3, <3>5 DEF Steady, AtWork, InStep
  <2>9. CASE AdvanceTargetSchedule(s)
    <3>1. /\ pc[s] = "advance" /\ pc' = [pc EXCEPT ![s] = "batch"] /\ UNCHANGED <<batch, cur, next>>
          /\ nextAt' = [nextAt EXCEPT ![cur[s].t] = next[s]]
      BY <2>9 DEF AdvanceTargetSchedule
    <3>2. InStep(next[s], cur[s].t)
      BY <2>1, <3>1 DEF Steady
    <3>3. \A t \in Targets : nextAt'[t] = nextAt[t] \/ (t = cur[s].t /\ nextAt'[t] = next[s])
      BY <1>0, <3>1
    <3>4. \A t \in Targets : cadence[t] # "off" => InStep(nextAt'[t], t)
      BY <2>1, <3>2, <3>3 DEF Steady
    <3> QED BY <1>0, <2>1, <2>3, <3>1, <3>4 DEF Steady, AtWork, InStep
  <2> QED BY <1>2, <2>2, <2>5, <2>6, <2>7, <2>8, <2>9 DEF SchedulerWork
<1>3. ASSUME NEW t \in Targets, NEW k \in Cadence, SetTargetSchedule(t, k) PROVE Steady'
  <2>1. edits' # 0
    BY <1>0, <1>3 DEF SetTargetSchedule
  <2> QED BY <2>1 DEF Steady
<1>4. CASE ChangePlan
  <2>1. planChanges' # 0
    BY <1>0, <1>4 DEF ChangePlan
  <2> QED BY <2>1 DEF Steady
<1>5. ASSUME NEW c \in Creators, Create(c) \/ StatementFails(c) \/ Crash(c) PROVE Steady'
  <2>1. \A s \in Schedulers : pc'[s] = "advance" => pc[s] = "advance"
    BY <1>0, <1>5, SchedulerAssumption
       DEF Create, LookupKey, InsertDrill, EnqueueDrill, StatementFails, Crash, GiveUp, Proceed,
           Respond, Creators
  <2> QED BY <1>1, <1>5, <2>1, CreateKeeps
<1>6. ASSUME NEW r \in Requests, ServeRequest(r), ~Create(r) PROVE Steady'
  <2>1. UNCHANGED <<targetVars, edits>>
    BY <1>6 DEF ServeRequest, ReplayAnswer, TurnAway, BeginRequest, CountDrills, StoreResponse, boundVars
  <2>2. \A s \in Schedulers : pc'[s] = "advance" => pc[s] = "advance"
    <3>1. \A s \in Schedulers : s # r
      BY SchedulerAssumption
    <3>2. \E there : pc' = [pc EXCEPT ![r] = there]
      BY <1>6 DEF ServeRequest, ReplayAnswer, TurnAway, BeginRequest, CountDrills, StoreResponse, Respond
    <3> QED BY <1>0, <3>1, <3>2
  <2> QED BY <1>1, <1>6, <2>1, <2>2, OtherKeeps
<1>7. ASSUME Tick \/ UNCHANGED vars PROVE Steady'
  BY <1>1, <1>7, OtherKeeps DEF Tick, vars, boundVars
<1>8. ASSUME NEW s \in Schedulers, SchedulerWork(s), ~Create(s) PROVE Steady'
  BY <1>2, <1>8 DEF Steady
<1> QED BY <1>3, <1>4, <1>5, <1>6, <1>7, <1>8 DEF Next, SchedulerWork, ServeRequest, Creators

\* However late the ticks fire, overlap, fail or die, the next slot is in step with the schedule as
\* it was saved, for any length of the intervals (SchedulerWorker.Work).
THEOREM SlotsDoNotDrift == Spec => []NoDrift
<1>1. Init => Steady
  <2> SUFFICES ASSUME Init PROVE Steady
    OBVIOUS
  <2>1. \A t \in Targets : CadenceAllowed(plan, unlimited, cadence[t]) /\ cadence[t] \in Cadence
    BY DEF Init
  <2>2. \A t \in Targets : nextAt[t] \in Nat /\ anchor[t] = nextAt[t]
    BY InitTyped DEF Init, Typed, TypeOK
  <2>3. ASSUME NEW t \in Targets, cadence[t] # "off" PROVE InStep(nextAt[t], t)
    <3>1. CadenceInterval(cadence[t]) \in Nat \ {0}
      BY <2>1, <2>3, IntervalIsNat
    <3>2. nextAt[t] - anchor[t] = 0
      BY <2>2
    <3>3. \A i \in Nat \ {0} : 0 % i = 0
      OBVIOUS
    <3> QED BY <3>1, <3>2, <3>3 DEF InStep
  <2>4. \A s \in Schedulers : batch[s] = {} /\ pc[s] = "idle"
    BY DEF Init, Creators
  <2> QED BY <2>1, <2>3, <2>4 DEF Steady, AtWork
<1>2. Steady => NoDrift
  BY DEF Steady, NoDrift, InStep
<1> QED BY <1>1, <1>2, InitTyped, StepTyped, StepSteady, PTL DEF Spec

=============================================================================
