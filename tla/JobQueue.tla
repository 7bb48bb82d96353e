------------------------------ MODULE JobQueue ------------------------------
(***************************************************************************)
(* Which drill gets a worker: the checks and the priority with which a drill  *)
(* is queued (handlers/drill_quota.go, drill/scheduler.go, orchestrator.go)   *)
(* and the shared queue of cmd/server/main.go.                              *)
(*                                                                         *)
(* Only the job of the first step carries the priority of the plan; the next  *)
(* steps' jobs are inserted without one, which is river's highest.  A drill   *)
(* has one job at a time here, DrillPipeline has the duplicates; a job is     *)
(* retried with the priority it had.  Sizes are counted in units that tell    *)
(* the plans' caps apart.                                                   *)
(***************************************************************************)
EXTENDS Naturals, FiniteSets

CONSTANTS
    Orders,        \* bound: drills that are created, numbers
    JobSlots,      \* MaxWorkers of the queue
    LastStep,      \* steps of a drill, at least provision and restore
    MaxRetries,    \* bound: attempts that fail
    MaxSize        \* bound: the largest size a dump grows to

ASSUME QueueAssumption ==
    /\ Orders \subseteq Nat /\ IsFiniteSet(Orders)
    /\ JobSlots \in Nat \ {0} /\ LastStep \in Nat \ {0, 1} /\ MaxRetries \in Nat
    /\ MaxSize \in Nat \ {0}

Tiers == {"scale", "pro", "starter", "trial"}
RestoreStep == 2
DefaultPriority == 1

VARIABLES
    order,         \* each drill, with its job
    dumpSize,      \* of the dump all of them restore
    turn,          \* external: the order of scheduled_at and id
    overtook,      \* history: pairs, a drill that started before a waiting one of a better plan
    burnt,         \* history: drills that restored a dump larger than their plan takes
    retries

queueVars == <<order, dumpSize, turn, overtook, burnt, retries>>

NoOrder == [stage |-> "none", plan |-> "trial", unlimited |-> FALSE, origin |-> "web", step |-> 1,
            priority |-> DefaultPriority, turn |-> 0, grew |-> FALSE]

QueueInit ==
    /\ order = [d \in Orders |-> NoOrder] /\ dumpSize = 1 /\ turn = 1
    /\ overtook = {} /\ burnt = {} /\ retries = 0

-----------------------------------------------------------------------------
(* Creating *)

\* MaxDumpBytes of LimitsFor.
MaxDump(plan) == [scale |-> 4, pro |-> 3, starter |-> 2, trial |-> 1][plan]
TooLarge(o) == ~o.unlimited /\ dumpSize > MaxDump(o.plan)

\* createDrill and v1CreateDrill call enforceDumpSize; the scheduler and the staff's
\* retry do not.
ChecksSize(origin) == origin = "web"

\* A drill's row; the next in turn is numbered next.
CreateOrder(d, plan, unlimited, origin) ==
    LET o == [NoOrder EXCEPT !.stage = "made", !.plan = plan, !.unlimited = unlimited, !.origin = origin]
    IN  /\ order[d].stage = "none" /\ \A e \in Orders : e < d => order[e].stage # "none"
        /\ ~(ChecksSize(origin) /\ TooLarge(o))
        /\ order' = [order EXCEPT ![d] = o]
        /\ UNCHANGED <<dumpSize, turn, overtook, burnt, retries>>

\* Mutant: trial is left to the default.
priorityForPlan_NoTrial(o) == IF o.unlimited THEN 1 ELSE [scale |-> 1, pro |-> 2, starter |-> 3, trial |-> 3][o.plan]
\* drill.priorityForPlan, and the scheduler's exception for an unlimited account.
priorityForPlan(o) ==
    IF o.unlimited THEN 1 ELSE [scale |-> 1, pro |-> 2, starter |-> 3, trial |-> 4][o.plan]

\* The handlers' own table of the same.
drillInsertOpts(o) ==
    IF o.unlimited THEN 1 ELSE [scale |-> 1, pro |-> 2, starter |-> 3, trial |-> 4][o.plan]

\* The staff's retry passes no options.
QueuePriority(o) ==
    CASE o.origin = "web" -> drillInsertOpts(o)
      [] o.origin = "tick" -> priorityForPlan(o)
      [] o.origin = "staff" -> DefaultPriority

Waits(o) == [o EXCEPT !.stage = "waiting", !.turn = turn]

\* EnqueueDrill: the first job.
EnqueueFirst(d) ==
    /\ order[d].stage = "made"
    /\ order' = [order EXCEPT ![d] = [Waits(@) EXCEPT !.priority = QueuePriority(order[d])]]
    /\ turn' = turn + 1
    /\ UNCHANGED <<dumpSize, overtook, burnt, retries>>

-----------------------------------------------------------------------------
(* Working *)

\* External: ORDER BY priority, scheduled_at, id.
Before(o, p) == o.priority < p.priority \/ (o.priority = p.priority /\ o.turn < p.turn)
WaitingOrders == {d \in Orders : order[d].stage = "waiting"}

\* What the comments and the pricing page promise: customers' drills stand in the order of
\* their plans (staff's retries are out of it).
Standing(o) ==
    IF o.unlimited THEN "top"
    ELSE [scale |-> "top", pro |-> "priority", starter |-> "standard", trial |-> "deferrable"][o.plan]
Over == {<<"top", "priority">>, <<"top", "standard">>, <<"top", "deferrable">>,
         <<"priority", "standard">>, <<"priority", "deferrable">>, <<"standard", "deferrable">>}
Better(e, d) ==
    /\ order[e].origin # "staff" /\ order[d].origin # "staff"
    /\ <<Standing(order[e]), Standing(order[d])>> \in Over

ClaimJob(d) ==
    LET waitingBetter == {e \in WaitingOrders : order[e].step = 1 /\ Better(e, d)}
    IN  /\ d \in WaitingOrders /\ \A e \in WaitingOrders \ {d} : Before(order[d], order[e])
        /\ Cardinality({e \in Orders : order[e].stage = "working"}) < JobSlots
        /\ order' = [order EXCEPT ![d].stage = "working"]
        /\ overtook' = IF order[d].step = 1 THEN overtook \cup ({d} \X waitingBetter) ELSE overtook
        /\ burnt' = IF order[d].step = RestoreStep /\ TooLarge(order[d]) THEN burnt \cup {d} ELSE burnt
        /\ UNCHANGED <<dumpSize, turn, retries>>

\* TraceOpts carries no priority.
ChainPriority(o) == DefaultPriority

\* The worker inserts the next step's job and is done with its own.
ChainJob(d) ==
    /\ order[d].stage = "working"
    /\ IF order[d].step = LastStep
       THEN order' = [order EXCEPT ![d].stage = "done"] /\ UNCHANGED turn
       ELSE /\ order' = [order EXCEPT ![d] =
                            [Waits(@) EXCEPT !.step = order[d].step + 1, !.priority = ChainPriority(order[d])]]
            /\ turn' = turn + 1
    /\ UNCHANGED <<dumpSize, overtook, burnt, retries>>

\* External: the attempt fails, and the job waits for its time.
JobErrs(d) ==
    /\ order[d].stage = "working" /\ retries < MaxRetries /\ retries' = retries + 1
    /\ order' = [order EXCEPT ![d].stage = "retrying"]
    /\ UNCHANGED <<dumpSize, turn, overtook, burnt>>
JobReturns(d) ==
    /\ order[d].stage = "retrying"
    /\ order' = [order EXCEPT ![d] = Waits(@)] /\ turn' = turn + 1
    /\ UNCHANGED <<dumpSize, overtook, burnt, retries>>

\* The customer's next backup replaces the dump.
DumpGrows ==
    /\ dumpSize < MaxSize /\ dumpSize' = dumpSize + 1
    /\ order' = [d \in Orders |-> [order[d] EXCEPT !.grew = order[d].stage # "none"]]
    /\ UNCHANGED <<turn, overtook, burnt, retries>>

\* Of an unlimited account the plan counts nowhere: one will do.
QueueNext ==
    \/ \E d \in Orders, from \in {"web", "tick", "staff"} :
          CreateOrder(d, "trial", TRUE, from) \/ \E plan \in Tiers : CreateOrder(d, plan, FALSE, from)
    \/ \E d \in Orders : EnqueueFirst(d) \/ ClaimJob(d) \/ ChainJob(d) \/ JobErrs(d) \/ JobReturns(d)
    \/ DumpGrows

QueueSpec == QueueInit /\ [][QueueNext]_queueVars

-----------------------------------------------------------------------------
QueueTypeOK ==
    /\ dumpSize \in 1 .. MaxSize /\ turn \in Nat /\ burnt \subseteq Orders /\ retries \in 0 .. MaxRetries
    /\ overtook \subseteq Orders \X Orders
    /\ \A d \in Orders : /\ order[d].stage \in {"none", "made", "waiting", "working", "retrying", "done"}
                         /\ order[d].step \in 1 .. LastStep /\ order[d].priority \in 1 .. 4

\* No drill is started while one of a better plan waits to be, whether a page, the API or
\* the scheduler queued them ("Keep in sync with the web handlers' drillInsertOpts").  It is
\* the start only: the later steps have the highest priority whatever the plan, so a paid
\* drill waits for those of trials that had begun, and for none that come after it.
StartsInRank == overtook = {}

\* A dump larger than the plan takes is restored only if it grew after the drill was made,
\* or for a drill nobody checked ("an oversized dump never burns the 30-minute restore").
OversizeExplained == \A d \in burnt : order[d].grew \/ order[d].origin # "web"

\* Waiting drills start in the order of their plans, and a dump past the plan is explained
\* (drillInsertOpts, enforceDumpSize).
QueueSafe == QueueTypeOK /\ StartsInRank /\ OversizeExplained

=============================================================================
