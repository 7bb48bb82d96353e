---------------------------- MODULE DrillPipeline ----------------------------
(***************************************************************************)
(* One drill of internal/drill: the six River step workers of              *)
(* internal/drill/steps, the rows they keep (drills, drill_steps,          *)
(* assertion_results), the sandboxes of internal/runner and the evidence    *)
(* a report signs.  Rows and jobs of two drills are disjoint, so a drill   *)
(* is modelled alone.                                                      *)
(*                                                                         *)
(* Every store statement, runner call and queue insert of a worker is one  *)
(* action, because River runs up to eight jobs at once and redelivers a    *)
(* job whose worker returned an error or died: between any two statements  *)
(* of one job, another job of the same drill may run, the statement may    *)
(* fail (Blip), the job's context may expire (Timeout) or the process may  *)
(* die (Crash).  A worker is a program counter, pc[j], and its locals.     *)
(***************************************************************************)
EXTENDS Naturals, Sequences, FiniteSets

CONSTANTS
    NumAssertions,  \* assertions configured on the target
    FlyRunner,      \* TRUE: FlyMachineRunner, FALSE: LocalRunner
    Jobs,           \* bound: the drill's job rows that can be unfinished at once
    MaxSandboxes,   \* bound: sandboxes ever created for the drill
    MaxAttempts,    \* River's MaxAttempts: after that many, a job is discarded
    FaultKinds,     \* which of "blip", "timeout" and "crash" can happen
    MaxFaults,      \* bound: how many of them in a behaviour
    MaxRegens,      \* bound: staff evidence regenerations
    DumpMayVanish   \* TRUE: the dump may disappear while the drill runs

ASSUME PipelineAssumption ==
    /\ NumAssertions \in Nat
    /\ FlyRunner \in BOOLEAN
    /\ IsFiniteSet(Jobs) /\ Jobs # {}
    /\ MaxSandboxes \in Nat \ {0}
    /\ MaxAttempts \in Nat \ {0}
    /\ FaultKinds \subseteq {"blip", "timeout", "crash"}
    /\ MaxFaults \in Nat
    /\ MaxRegens \in Nat
    /\ DumpMayVanish \in BOOLEAN

AllSteps == <<"provision", "fetch", "restore", "assert", "report", "teardown">>
StepName == {"provision", "fetch", "restore", "assert", "report", "teardown"}
Ordinal == [s \in StepName |-> CASE s = "provision" -> 1 [] s = "fetch" -> 2
                                 [] s = "restore" -> 3   [] s = "assert" -> 4
                                 [] s = "report" -> 5    [] s = "teardown" -> 6]

DrillStatus == {"pending", "running", "succeeded", "failed"}
StepStatus == {"none", "pending", "running", "succeeded", "failed", "skipped"}
Verdict == {"PASSED", "RESTORED", "FAILED"}  \* the header of the rendered PDF

SandboxId == 1..MaxSandboxes
NoSandbox == 0
JobState == {"free", "available", "running"}
\* FailureReason of a teardown job: none (the empty string), the failed step, or
\* the verdict.
Reason == {"none", "assertion_failed"} \cup StepName

\* Control points: the statement the worker executes next.
Pc == {"check", "markdrill", "markstep", "lookup", "work", "restoring", "persist",
       "refetch", "clear", "connect", "assert", "read", "finalize", "evidence",
       "succeed", "verdict", "chain", "failstep", "skip", "failinsert",
       "meter", "destroy", "tdok", "tdfailed", "tdverdict", "reread", "success",
       "notify", "return"}

VARIABLES
    status, evidence, sandbox, hashed,  \* the drills row
    step,                               \* drill_steps.status by step name
    results,                            \* assertion_results rows, oldest first
    signed,                             \* verdict on the stored, signed PDF
    live, content, nextSandbox,         \* sandboxes that exist, what they hold
    kind, reason, jstate, attempt,      \* River's unfinished jobs
    pc, dead, held, seen, verdict, idx,  \* a job's execution: pc, context, locals
    enq,                                \* EnqueueDrill's progress
    regen, regens,                      \* a staff regeneration in progress
    truth,                              \* what each assertion finds in the dump
    dump,                               \* whether the source file is there
    metered, events, restored,          \* meter event sent; events; a restore ended well
    faults

drillVars == <<status, evidence, sandbox, hashed>>
rowVars == <<step, results, signed>>
sbVars == <<live, content, nextSandbox>>
jobVars == <<kind, reason, jstate, attempt>>
localVars == <<dead, held, seen, verdict, idx>>
staffVars == <<enq, regen, regens>>
envVars == <<truth, dump>>
outVars == <<metered, events, restored>>
vars == <<drillVars, rowVars, sbVars, jobVars, pc, localVars, staffVars,
          envVars, outVars, faults>>

TypeOK ==
    /\ status \in DrillStatus
    /\ evidence \in BOOLEAN
    /\ sandbox \in SandboxId \cup {NoSandbox}
    /\ hashed \in BOOLEAN
    /\ step \in [StepName -> StepStatus]
    /\ results \in Seq([n : 1..NumAssertions, passed : BOOLEAN])
    /\ signed \in Verdict \cup {"none"}
    /\ live \subseteq SandboxId
    /\ content \in [SandboxId -> {"empty", "loading", "restored", "mixed"}]
    /\ nextSandbox \in 1..(MaxSandboxes + 1)
    /\ kind \in [Jobs -> StepName]
    /\ reason \in [Jobs -> Reason]
    /\ jstate \in [Jobs -> JobState]
    /\ attempt \in [Jobs -> Nat]
    /\ pc \in [Jobs -> Pc]
    /\ dead \in [Jobs -> BOOLEAN]
    /\ held \in [Jobs -> SandboxId \cup {NoSandbox}]
    /\ seen \in [Jobs -> DrillStatus]
    /\ verdict \in [Jobs -> Verdict \cup {"none"}]
    /\ idx \in [Jobs -> Nat]
    /\ enq \in {"seed", "insert", "done", "failed"}
    /\ regen \in Verdict \cup {"idle", "mark"}
    /\ regens \in 0..MaxRegens
    /\ truth \in [1..NumAssertions -> BOOLEAN]
    /\ dump \in {"present", "gone"}
    /\ metered \in BOOLEAN
    /\ events \in Seq({"drill.completed", "drill.failed"})
    /\ restored \in BOOLEAN
    /\ faults \in 0..MaxFaults

Init ==
    /\ status = "pending" /\ evidence = FALSE /\ sandbox = NoSandbox /\ hashed = FALSE
    /\ step = [s \in StepName |-> "none"]
    /\ results = <<>> /\ signed = "none"
    /\ live = {} /\ content = [s \in SandboxId |-> "empty"] /\ nextSandbox = 1
    /\ kind = [j \in Jobs |-> "provision"]
    /\ reason = [j \in Jobs |-> "none"]
    /\ jstate = [j \in Jobs |-> "free"]
    /\ attempt = [j \in Jobs |-> 0]
    /\ pc = [j \in Jobs |-> "check"] /\ dead = [j \in Jobs |-> FALSE]
    /\ held = [j \in Jobs |-> NoSandbox] /\ seen = [j \in Jobs |-> "pending"]
    /\ verdict = [j \in Jobs |-> "none"] /\ idx = [j \in Jobs |-> 0]
    /\ enq = "seed" /\ regen = "idle" /\ regens = 0
    /\ truth \in [1..NumAssertions -> BOOLEAN]
    /\ dump \in {"present", "gone"}
    /\ metered = FALSE /\ events = <<>> /\ restored = FALSE
    /\ faults = 0

-----------------------------------------------------------------------------
(* River, modelled from how the workers use it: an inserted job is          *)
(* available; a worker claims it; a job whose worker returned an error, or  *)
(* died, is available again until its attempts are used up.  A job that is  *)
(* completed or discarded never runs again, so its row may be reused.       *)

Insert(k, r) ==
    \E n \in Jobs :
       /\ jstate[n] = "free"
       /\ kind' = [kind EXCEPT ![n] = k]
       /\ reason' = [reason EXCEPT ![n] = r]
       /\ jstate' = [jstate EXCEPT ![n] = "available"]
       /\ attempt' = [attempt EXCEPT ![n] = 0]

\* The rows of the jobs of js are not used any more.
Forgotten(js) ==
    /\ kind' = [j \in Jobs |-> IF j \in js THEN "provision" ELSE kind[j]]
    /\ reason' = [j \in Jobs |-> IF j \in js THEN "none" ELSE reason[j]]
    /\ attempt' = [j \in Jobs |-> IF j \in js THEN 0 ELSE attempt[j]]

\* The execution of the jobs of js is over: their workers' locals are gone.
Ended(js) ==
    /\ pc' = [j \in Jobs |-> IF j \in js THEN "check" ELSE pc[j]]
    /\ dead' = [j \in Jobs |-> IF j \in js THEN FALSE ELSE dead[j]]
    /\ held' = [j \in Jobs |-> IF j \in js THEN NoSandbox ELSE held[j]]
    /\ seen' = [j \in Jobs |-> IF j \in js THEN "pending" ELSE seen[j]]
    /\ verdict' = [j \in Jobs |-> IF j \in js THEN "none" ELSE verdict[j]]
    /\ idx' = [j \in Jobs |-> IF j \in js THEN 0 ELSE idx[j]]

\* The jobs of js stopped with an error: River runs them again, or gives up.
Errored(js) ==
    LET over == {j \in js : attempt[j] >= MaxAttempts}
    IN  /\ jstate' = [j \in Jobs |-> CASE j \in over -> "free"
                                        [] j \in js \ over -> "available"
                                        [] OTHER -> jstate[j]]
        /\ Forgotten(over)
        /\ Ended(js)

Claim(j) ==
    /\ jstate[j] = "available"
    /\ jstate' = [jstate EXCEPT ![j] = "running"]
    /\ attempt' = [attempt EXCEPT ![j] = @ + 1]
    /\ UNCHANGED <<drillVars, rowVars, sbVars, kind, reason, pc, localVars, staffVars,
                   envVars, outVars, faults>>

Complete(j) ==
    /\ jstate[j] = "running" /\ pc[j] = "return"
    /\ jstate' = [jstate EXCEPT ![j] = "free"]
    /\ Forgotten({j})
    /\ Ended({j})
    /\ UNCHANGED <<drillVars, rowVars, sbVars, staffVars, envVars, outVars, faults>>

\* The worker of job j is about to execute the statement at p, its context alive.
Running(j, k, p) == jstate[j] = "running" /\ kind[j] = k /\ pc[j] = p
At(j, k, p) == Running(j, k, p) /\ ~dead[j]
Goto(j, p) == pc' = [pc EXCEPT ![j] = p]

\* The budget pays for n faults of kind f.
Strike(f, n) == /\ n > 0 => f \in FaultKinds
                /\ faults + n <= MaxFaults
                /\ faults' = faults + n

\* n statements of job j fail: blips, but for the first if its context has expired.
Spend(j, n) == Strike("blip", IF dead[j] THEN n - 1 ELSE n)

-----------------------------------------------------------------------------
(* Orchestrator.EnqueueDrill, run by the request or the scheduler that      *)
(* created the drill row.                                                  *)

SeedSteps ==
    /\ enq = "seed"
    /\ step' = [s \in StepName |-> IF step[s] = "none" THEN "pending" ELSE step[s]]
    /\ enq' = "insert"
    /\ UNCHANGED <<drillVars, results, signed, sbVars, jobVars, pc, localVars, regen,
                   regens, envVars, outVars, faults>>

InsertProvision ==
    /\ enq = "insert"
    /\ Insert("provision", "none")
    /\ enq' = "done"
    /\ UNCHANGED <<drillVars, rowVars, sbVars, pc, localVars, regen, regens, envVars,
                   outVars, faults>>

\* A store or queue error: the caller reports it and never enqueues again.
EnqueueFails ==
    /\ enq \in {"seed", "insert"}
    /\ Strike("blip", 1)
    /\ enq' = "failed"
    /\ UNCHANGED <<drillVars, rowVars, sbVars, jobVars, pc, localVars, regen, regens,
                   envVars, outVars>>

-----------------------------------------------------------------------------
(* What every step but teardown starts with: alreadyDone, the marks, and     *)
(* the lookup of the sandbox the provision step recorded.                   *)

\* Mutant: a step that had failed is taken as done.
CheckStep_FailedIsDone(j) ==
    /\ kind[j] # "teardown" /\ At(j, kind[j], "check")
    /\ Goto(j, CASE step[kind[j]] \in {"succeeded", "failed"} -> "chain"
                 [] step[kind[j]] \notin {"succeeded", "failed"} /\ kind[j] = "provision"
                       -> "markdrill"
                 [] OTHER -> "markstep")
    /\ UNCHANGED <<drillVars, rowVars, sbVars, jobVars, localVars, staffVars, envVars,
                   outVars, faults>>

\* Mutant: a retry that finds its step done returns without chaining the next.
CheckStep_NoChain(j) ==
    /\ kind[j] # "teardown" /\ At(j, kind[j], "check")
    /\ Goto(j, CASE step[kind[j]] = "succeeded" -> "return"
                 [] step[kind[j]] # "succeeded" /\ kind[j] = "provision" -> "markdrill"
                 [] OTHER -> "markstep")
    /\ UNCHANGED <<drillVars, rowVars, sbVars, jobVars, localVars, staffVars, envVars,
                   outVars, faults>>

CheckStep(j) ==
    /\ kind[j] # "teardown" /\ At(j, kind[j], "check")
    /\ Goto(j, CASE step[kind[j]] = "succeeded" /\ kind[j] = "fetch" -> "refetch"
                 [] step[kind[j]] = "succeeded" /\ kind[j] # "fetch" -> "chain"
                 [] step[kind[j]] # "succeeded" /\ kind[j] = "provision" -> "markdrill"
                 [] OTHER -> "markstep")
    /\ UNCHANGED <<drillVars, rowVars, sbVars, jobVars, localVars, staffVars, envVars,
                   outVars, faults>>

MarkDrillRunning(j) ==
    /\ At(j, "provision", "markdrill")
    /\ status' = IF status \in {"pending", "running"} THEN "running" ELSE status
    /\ Goto(j, "markstep")
    /\ UNCHANGED <<evidence, sandbox, hashed, rowVars, sbVars, jobVars, localVars,
                   staffVars, envVars, outVars, faults>>

MarkStepRunning(j) ==
    /\ At(j, kind[j], "markstep")
    /\ step' = IF step[kind[j]] \in {"pending", "running", "failed"}
               THEN [step EXCEPT ![kind[j]] = "running"] ELSE step
    /\ Goto(j, CASE kind[j] = "provision" -> "work"
                 [] kind[j] = "report" -> "read"
                 [] OTHER -> "lookup")
    /\ UNCHANGED <<drillVars, results, signed, sbVars, jobVars, localVars, staffVars,
                   envVars, outVars, faults>>

\* Deps.sandbox and lookupDrillAndTarget.
Lookup(j) ==
    /\ At(j, kind[j], "lookup")
    /\ sandbox # NoSandbox
    /\ held' = [held EXCEPT ![j] = sandbox]
    /\ Goto(j, IF kind[j] = "assert" THEN "clear" ELSE "work")
    /\ UNCHANGED <<drillVars, rowVars, sbVars, jobVars, dead, seen, verdict, idx, staffVars,
                   envVars, outVars, faults>>

\* MarkStepSucceeded, once the step's own work is done.
MarkStepSucceeded(j) ==
    /\ At(j, kind[j], "succeed")
    /\ step' = IF step[kind[j]] = "skipped" THEN step
               ELSE [step EXCEPT ![kind[j]] = "succeeded"]
    /\ Goto(j, IF kind[j] = "report" /\ verdict[j] = "FAILED" THEN "verdict" ELSE "chain")
    /\ UNCHANGED <<drillVars, results, signed, sbVars, jobVars, localVars, staffVars,
                   envVars, outVars, faults>>

\* The insert of the next step's job.  A report whose own read found a failed
\* assertion says so to teardown; a report that was already done does not.
Chain(j) ==
    /\ kind[j] # "teardown" /\ At(j, kind[j], "chain")
    /\ Insert(AllSteps[Ordinal[kind[j]] + 1],
              IF kind[j] = "report" /\ verdict[j] = "FAILED" THEN "assertion_failed" ELSE "none")
    /\ Goto(j, "return")
    /\ UNCHANGED <<drillVars, rowVars, sbVars, localVars, staffVars, envVars, outVars,
                   faults>>

-----------------------------------------------------------------------------
(* Provision.  LocalRunner drops and recreates the one database named after *)
(* the drill; FlyMachineRunner creates a machine of its own each time.      *)

Created(j, s) ==
    /\ s \in SandboxId
    /\ live' = live \cup {s}
    /\ content' = [content EXCEPT ![s] = "empty"]
    /\ held' = [held EXCEPT ![j] = s]
    /\ Goto(j, "persist")

ProvisionLocal(j) ==
    /\ ~FlyRunner /\ At(j, "provision", "work")
    /\ Created(j, 1)
    /\ UNCHANGED <<drillVars, rowVars, nextSandbox, jobVars, dead, seen, verdict, idx, staffVars,
                   envVars, outVars, faults>>

ProvisionFly(j) ==
    /\ FlyRunner /\ At(j, "provision", "work")
    /\ Created(j, nextSandbox)
    /\ nextSandbox' = nextSandbox + 1
    /\ UNCHANGED <<drillVars, rowVars, jobVars, dead, seen, verdict, idx, staffVars, envVars,
                   outVars, faults>>

\* The answer to CreateMachine is lost, or WaitStarted fails and so does the
\* clean-up's Destroy: a machine runs that no one knows of.  The client sends a
\* lost CreateMachine again, so the step goes on; otherwise it has failed.
FlyMachineStray(j) ==
    /\ FlyRunner /\ Running(j, "provision", "work")
    /\ nextSandbox \in SandboxId
    /\ live' = live \cup {nextSandbox}
    /\ nextSandbox' = nextSandbox + 1
    /\ pc' \in {[pc EXCEPT ![j] = "work"], [pc EXCEPT ![j] = "failstep"]}
    /\ Strike("blip", 1)
    /\ UNCHANGED <<drillVars, rowVars, content, jobVars, localVars, staffVars, envVars,
                   outVars>>

\* Provisioning fails; LocalRunner may have dropped the old database already.
ProvisionFails(j) ==
    /\ Running(j, "provision", "work")
    /\ live' \in {live} \cup (IF FlyRunner THEN {} ELSE {live \ {1}})
    /\ Goto(j, "failstep")
    /\ UNCHANGED <<drillVars, rowVars, content, nextSandbox, jobVars, localVars,
                   staffVars, envVars, outVars, faults>>

SetSandboxDB(j) ==
    /\ At(j, "provision", "persist")
    /\ sandbox' = held[j]
    /\ Goto(j, "succeed")
    /\ UNCHANGED <<status, evidence, hashed, rowVars, sbVars, jobVars, localVars,
                   staffVars, envVars, outVars, faults>>

\* Recording the sandbox failed: it is torn down under a context of its own
\* before the error goes back to River.  The clean-up may fail as well.
SetSandboxDBFails(j) ==
    /\ Running(j, "provision", "persist")
    /\ \/ Spend(j, 1) /\ live' = live \ {held[j]}
       \/ Spend(j, 2) /\ live' = live
    /\ Errored({j})
    /\ UNCHANGED <<drillVars, rowVars, content, nextSandbox, staffVars, envVars, outVars>>

-----------------------------------------------------------------------------
(* Fetch: fetchDump takes no context, so an expired one does not stop it.   *)

Fetch(j) ==
    /\ Running(j, "fetch", "work")
    /\ Goto(j, IF dump = "present" THEN "persist" ELSE "failstep")
    /\ UNCHANGED <<drillVars, rowVars, sbVars, jobVars, localVars, staffVars, envVars,
                   outVars, faults>>

SetSourceHash(j) ==
    /\ At(j, "fetch", "persist")
    /\ hashed' = TRUE
    /\ Goto(j, "succeed")
    /\ UNCHANGED <<status, evidence, sandbox, rowVars, sbVars, jobVars, localVars,
                   staffVars, envVars, outVars, faults>>

\* chainAlreadyFetched: the path is recovered by fetching again; a dump that
\* has gone meanwhile is an error River retries, not a failed step.
ChainAlreadyFetched(j) ==
    /\ At(j, "fetch", "refetch") /\ dump = "present"
    /\ sandbox # NoSandbox
    /\ Goto(j, "chain")
    /\ UNCHANGED <<drillVars, rowVars, sbVars, jobVars, localVars, staffVars, envVars,
                   outVars, faults>>

ChainAlreadyFetchedFails(j) ==
    /\ At(j, "fetch", "refetch") /\ dump = "gone"
    /\ Errored({j})
    /\ UNCHANGED <<drillVars, rowVars, sbVars, staffVars, envVars, outVars, faults>>

-----------------------------------------------------------------------------
(* Restore: a load into an empty sandbox ends with the dump's data; a load  *)
(* on top of data may stop at a conflict or leave a mixture.                *)

RestoreBegin(j) ==
    /\ At(j, "restore", "work")
    /\ held[j] \in live /\ dump = "present"
    /\ content' = [content EXCEPT ![held[j]] = IF @ = "empty" THEN "loading" ELSE "mixed"]
    /\ Goto(j, "restoring")
    /\ UNCHANGED <<drillVars, rowVars, live, nextSandbox, jobVars, localVars, staffVars,
                   envVars, outVars, faults>>

RestoreEnd(j) ==
    /\ At(j, "restore", "restoring")
    /\ held[j] \in live
    /\ content' = [content EXCEPT ![held[j]] = IF @ = "loading" THEN "restored" ELSE @]
    /\ restored' = TRUE
    /\ Goto(j, "succeed")
    /\ UNCHANGED <<drillVars, rowVars, live, nextSandbox, jobVars, localVars, staffVars,
                   envVars, metered, events, faults>>

\* The dump or the sandbox is gone, the tool reports an error or is killed.
RestoreFails(j) ==
    /\ Running(j, "restore", "work") \/ Running(j, "restore", "restoring")
    /\ Goto(j, "failstep")
    /\ UNCHANGED <<drillVars, rowVars, sbVars, jobVars, localVars, staffVars, envVars,
                   outVars, faults>>

-----------------------------------------------------------------------------
(* Assert: runAssertions.                                                   *)

ClearAssertionResults(j) ==
    /\ At(j, "assert", "clear")
    /\ results' = <<>>
    /\ Goto(j, "connect")
    /\ UNCHANGED <<drillVars, step, signed, sbVars, jobVars, localVars, staffVars,
                   envVars, outVars, faults>>

ConnectSandbox(j) ==
    /\ At(j, "assert", "connect") /\ held[j] \in live
    /\ idx' = [idx EXCEPT ![j] = 1]
    /\ Goto(j, IF NumAssertions = 0 THEN "succeed" ELSE "assert")
    /\ UNCHANGED <<drillVars, rowVars, sbVars, jobVars, dead, held, seen, verdict, staffVars,
                   envVars, outVars, faults>>

\* One assertion and its row.  Only a sandbox that holds exactly the dump's
\* data is sure to give the answer the dump deserves.
RunAssertion(j) ==
    /\ At(j, "assert", "assert") /\ held[j] \in live
    /\ idx[j] \in 1..NumAssertions
    /\ \E passed \in BOOLEAN :
          /\ content[held[j]] = "restored" => passed = truth[idx[j]]
          /\ results' = Append(results, [n |-> idx[j], passed |-> passed])
    /\ idx' = [idx EXCEPT ![j] = @ + 1]
    /\ Goto(j, IF idx[j] = NumAssertions THEN "succeed" ELSE "assert")
    /\ UNCHANGED <<drillVars, step, signed, sbVars, jobVars, dead, held, seen, verdict,
                   staffVars, envVars, outVars, faults>>

\* The sandbox cannot be reached or an assertion cannot be evaluated.
RunAssertionFails(j) ==
    /\ Running(j, "assert", "connect") \/ Running(j, "assert", "assert")
    /\ Goto(j, "failstep")
    /\ UNCHANGED <<drillVars, rowVars, sbVars, jobVars, localVars, staffVars, envVars,
                   outVars, faults>>

-----------------------------------------------------------------------------
(* Report: the verdict is read from the rows, rendered, signed, recorded.   *)

\* Mutant: only the last row is looked at.
AllPassed_Last(rows) == rows = <<>> \/ rows[Len(rows)].passed

AllPassed(rows) == \A i \in DOMAIN rows : rows[i].passed

\* report.Render's header for a drill whose status says passed or not.
Rendered(pass, rows) == CASE ~pass -> "FAILED"
                          [] pass /\ rows = <<>> -> "RESTORED"
                          [] OTHER -> "PASSED"

ListAssertions(j) ==
    /\ At(j, "report", "read")
    /\ verdict' = [verdict EXCEPT ![j] = Rendered(AllPassed(results), results)]
    /\ Goto(j, "finalize")
    /\ UNCHANGED <<drillVars, rowVars, sbVars, jobVars, dead, held, seen, idx, staffVars,
                   envVars, outVars, faults>>

\* Mutant: the drill's status is signed instead of the verdict.
Finalize_SignsStatus(j) ==
    /\ At(j, "report", "finalize")
    /\ signed' = status
    /\ Goto(j, "evidence")
    /\ UNCHANGED <<drillVars, step, results, sbVars, jobVars, localVars, staffVars,
                   envVars, outVars, faults>>

\* Mutant: the report goes on without MarkEvidence.
Finalize_NoPath(j) ==
    /\ At(j, "report", "finalize")
    /\ signed' = verdict[j]
    /\ Goto(j, "succeed")
    /\ UNCHANGED <<drillVars, step, results, sbVars, jobVars, localVars, staffVars,
                   envVars, outVars, faults>>

Finalize(j) ==
    /\ At(j, "report", "finalize")
    /\ signed' = verdict[j]
    /\ Goto(j, "evidence")
    /\ UNCHANGED <<drillVars, step, results, sbVars, jobVars, localVars, staffVars,
                   envVars, outVars, faults>>

MarkEvidence(j) ==
    /\ At(j, "report", "evidence")
    /\ evidence' = TRUE
    /\ Goto(j, "succeed")
    /\ UNCHANGED <<status, sandbox, hashed, rowVars, sbVars, jobVars, localVars,
                   staffVars, envVars, outVars, faults>>

ReportMarkDrillFailed(j) ==
    /\ At(j, "report", "verdict")
    /\ status' = "failed"
    /\ Goto(j, "chain")
    /\ UNCHANGED <<evidence, sandbox, hashed, rowVars, sbVars, jobVars, localVars,
                   staffVars, envVars, outVars, faults>>

-----------------------------------------------------------------------------
(* failAndCleanup: mark the step failed, skip the ones after it, and leave   *)
(* the drill's own status to the teardown job it inserts.                   *)

MarkStepFailed(j) ==
    /\ At(j, kind[j], "failstep")
    /\ step' = [step EXCEPT ![kind[j]] = "failed"]
    /\ idx' = [idx EXCEPT ![j] = Ordinal[kind[j]] + 1]
    /\ Goto(j, "skip")
    /\ UNCHANGED <<drillVars, results, signed, sbVars, jobVars, dead, held, seen, verdict,
                   staffVars, envVars, outVars, faults>>

MarkStepSkipped(j) ==
    /\ At(j, kind[j], "skip") /\ idx[j] < Ordinal["teardown"]
    /\ step' = IF step[AllSteps[idx[j]]] = "pending"
               THEN [step EXCEPT ![AllSteps[idx[j]]] = "skipped"] ELSE step
    /\ idx' = [idx EXCEPT ![j] = @ + 1]
    /\ UNCHANGED <<drillVars, results, signed, sbVars, jobVars, pc, dead, held, seen, verdict,
                   staffVars, envVars, outVars, faults>>

\* Mutant: the failed drill's teardown is not enqueued.
MarkStepSkippedDone_NoTeardown(j) ==
    /\ Running(j, kind[j], "skip") /\ idx[j] >= Ordinal["teardown"]
    /\ Goto(j, "return")
    /\ UNCHANGED <<drillVars, rowVars, sbVars, jobVars, localVars, staffVars, envVars,
                   outVars, faults>>

MarkStepSkippedDone(j) ==
    /\ Running(j, kind[j], "skip") /\ idx[j] >= Ordinal["teardown"]
    /\ Goto(j, "failinsert")
    /\ UNCHANGED <<drillVars, rowVars, sbVars, jobVars, localVars, staffVars, envVars,
                   outVars, faults>>

InsertTeardown(j) ==
    /\ At(j, kind[j], "failinsert")
    /\ Insert("teardown", kind[j])
    /\ Goto(j, "return")
    /\ UNCHANGED <<drillVars, rowVars, sbVars, localVars, staffVars, envVars, outVars,
                   faults>>

-----------------------------------------------------------------------------
(* Teardown.                                                                *)

TeardownRead(j) ==
    /\ At(j, "teardown", "check")
    /\ seen' = [seen EXCEPT ![j] = status]
    /\ held' = [held EXCEPT ![j] = sandbox]
    /\ Goto(j, "meter")
    /\ UNCHANGED <<drillVars, rowVars, sbVars, jobVars, dead, verdict, idx, staffVars, envVars,
                   outVars, faults>>

\* reportUsage; the billing provider deduplicates on the drill's id.
ReportUsage(j) ==
    /\ At(j, "teardown", "meter")
    /\ metered' = TRUE
    /\ Goto(j, "destroy")
    /\ UNCHANGED <<drillVars, rowVars, sbVars, jobVars, localVars, staffVars, envVars,
                   events, restored, faults>>

DestroySandbox(j) ==
    /\ Running(j, "teardown", "destroy")
    /\ dead[j] => held[j] = NoSandbox
    /\ live' = IF held[j] = NoSandbox THEN live ELSE live \ {sandbox}
    /\ Goto(j, "tdok")
    /\ UNCHANGED <<drillVars, rowVars, content, nextSandbox, jobVars, localVars,
                   staffVars, envVars, outVars, faults>>

\* Destroying failed; or the handle could not be read, which makes it nil, and
\* Runner.Teardown of nil does nothing and reports no error.
DestroySandboxFails(j) ==
    /\ Running(j, "teardown", "destroy") /\ held[j] # NoSandbox
    /\ Spend(j, 1)
    /\ pc' \in {[pc EXCEPT ![j] = "tdfailed"], [pc EXCEPT ![j] = "tdok"]}
    /\ UNCHANGED <<drillVars, rowVars, sbVars, jobVars, localVars, staffVars, envVars,
                   outVars>>

\* Mutant: teardown's FailureReason is not looked at.
AfterTeardownStep_NoReason(j) == IF seen[j] = "failed" THEN "notify" ELSE "reread"

\* Where teardown goes after it marked its own step.
AfterTeardownStep(j) ==
    CASE reason[j] # "none" -> "tdverdict"
      [] reason[j] = "none" /\ seen[j] = "failed" -> "notify"
      [] OTHER -> "reread"

MarkTeardownStep(j) ==
    /\ At(j, "teardown", "tdok") \/ At(j, "teardown", "tdfailed")
    /\ step' = [step EXCEPT !["teardown"] = CASE pc[j] = "tdfailed" -> "failed"
                                               [] pc[j] = "tdok" /\ @ = "skipped" -> @
                                               [] OTHER -> "succeeded"]
    /\ Goto(j, AfterTeardownStep(j))
    /\ UNCHANGED <<drillVars, results, signed, sbVars, jobVars, localVars, staffVars,
                   envVars, outVars, faults>>

TeardownMarkDrillFailed(j) ==
    /\ At(j, "teardown", "tdverdict")
    /\ status' = "failed"
    /\ Goto(j, "notify")
    /\ UNCHANGED <<evidence, sandbox, hashed, rowVars, sbVars, jobVars, localVars,
                   staffVars, envVars, outVars, faults>>

RereadEvidence(j) ==
    /\ At(j, "teardown", "reread")
    /\ idx' = [idx EXCEPT ![j] = IF evidence THEN 1 ELSE 0]
    /\ Goto(j, "success")
    /\ UNCHANGED <<drillVars, rowVars, sbVars, jobVars, dead, held, seen, verdict, staffVars,
                   envVars, outVars, faults>>

MarkDrillSucceeded(j) ==
    /\ At(j, "teardown", "success")
    /\ status' = "succeeded"
    /\ evidence' = (idx[j] = 1)
    /\ Goto(j, "notify")
    /\ UNCHANGED <<sandbox, hashed, rowVars, sbVars, jobVars, localVars, staffVars,
                   envVars, outVars, faults>>

\* The audit event, the webhook fan-out and the push notification.
Notify(j) ==
    /\ At(j, "teardown", "notify")
    /\ events' = Append(events, IF reason[j] # "none" \/ seen[j] = "failed"
                                THEN "drill.failed" ELSE "drill.completed")
    /\ Goto(j, "return")
    /\ UNCHANGED <<drillVars, rowVars, sbVars, jobVars, localVars, staffVars, envVars,
                   metered, restored, faults>>

-----------------------------------------------------------------------------
(* adminEvidenceRegen: staff re-render the drill as it is now and sign it.  *)

RegenRead ==
    /\ regen = "idle" /\ regens < MaxRegens
    /\ regens' = regens + 1
    /\ regen' = Rendered(status = "succeeded", results)
    /\ UNCHANGED <<drillVars, rowVars, sbVars, jobVars, pc, localVars, enq, envVars,
                   outVars, faults>>

RegenFinalize ==
    /\ regen \in Verdict
    /\ signed' = regen
    /\ regen' = "mark"
    /\ UNCHANGED <<drillVars, step, results, sbVars, jobVars, pc, localVars, enq, regens,
                   envVars, outVars, faults>>

RegenMarkEvidence ==
    /\ regen = "mark"
    /\ evidence' = TRUE
    /\ regen' = "idle"
    /\ UNCHANGED <<status, sandbox, hashed, rowVars, sbVars, jobVars, pc, localVars, enq,
                   regens, envVars, outVars, faults>>

-----------------------------------------------------------------------------
(* Faults.  How a worker takes a failed statement depends on the statement: *)
(* most errors go back to River, those of the step's work fail the step,    *)
(* and those of the marks that are "best effort" are dropped.               *)

RawPc == {"check", "markdrill", "markstep", "lookup", "refetch", "read", "evidence",
          "succeed", "chain", "failinsert", "reread", "success"}
FailingPc == {"clear", "finalize"}
SwallowedPc == {"failstep", "skip", "verdict", "meter", "tdok", "tdfailed", "tdverdict",
                "notify"}

\* SetSourceHash fails raw; SetSandboxDB has the clean-up above.
BlipRaw(j) ==
    /\ jstate[j] = "running"
    /\ pc[j] \in RawPc \/ Running(j, "fetch", "persist")
    /\ Spend(j, 1)
    /\ Errored({j})
    /\ UNCHANGED <<drillVars, rowVars, sbVars, staffVars, envVars, outVars>>

BlipFailing(j) ==
    /\ jstate[j] = "running" /\ pc[j] \in FailingPc
    /\ Spend(j, 1)
    /\ Goto(j, "failstep")
    /\ UNCHANGED <<drillVars, rowVars, sbVars, jobVars, localVars, staffVars, envVars,
                   outVars>>

BlipSwallowed(j) ==
    /\ jstate[j] = "running" /\ pc[j] \in SwallowedPc
    /\ pc[j] = "skip" => idx[j] < Ordinal["teardown"]
    /\ Spend(j, 1)
    /\ Goto(j, CASE pc[j] \in {"failstep", "skip"} -> "skip"
                 [] pc[j] = "verdict" -> "chain"
                 [] pc[j] = "meter" -> "destroy"
                 [] pc[j] \in {"tdok", "tdfailed"} -> AfterTeardownStep(j)
                 [] pc[j] = "tdverdict" -> "notify"
                 [] OTHER -> "return")
    /\ idx' = [idx EXCEPT ![j] = CASE pc[j] = "failstep" -> Ordinal[kind[j]] + 1
                                   [] pc[j] = "skip" -> @ + 1
                                   [] OTHER -> @]
    /\ UNCHANGED <<drillVars, rowVars, sbVars, jobVars, dead, held, seen, verdict, staffVars,
                   envVars, outVars>>

\* The worker's Timeout expires: every later use of its context fails.
Timeout(j) ==
    /\ jstate[j] = "running" /\ ~dead[j] /\ pc[j] # "return"
    /\ Strike("timeout", 1)
    /\ dead' = [dead EXCEPT ![j] = TRUE]
    /\ UNCHANGED <<drillVars, rowVars, sbVars, jobVars, pc, held, seen, verdict, idx, staffVars,
                   envVars, outVars>>

\* The server dies with every job it was running, which River rescues later, and with
\* the requests it was serving, which nobody does: the creator of the drill, if it had
\* not inserted the first job, and staff's regeneration.
Crash ==
    LET lost == {j \in Jobs : jstate[j] = "running"}
    IN  /\ lost # {} \/ enq \in {"seed", "insert"} \/ regen # "idle"
        /\ Strike("crash", 1)
        /\ Errored(lost)
        /\ enq' = IF enq = "done" THEN enq ELSE "failed"
        /\ regen' = "idle"
        /\ UNCHANGED <<drillVars, rowVars, sbVars, regens, envVars, outVars>>

DumpVanishes ==
    /\ DumpMayVanish /\ dump = "present"
    /\ dump' = "gone"
    /\ UNCHANGED <<drillVars, rowVars, sbVars, jobVars, pc, localVars, staffVars, truth,
                   outVars, faults>>

-----------------------------------------------------------------------------
StepWork(j) ==
    \/ CheckStep(j) \/ MarkDrillRunning(j) \/ MarkStepRunning(j) \/ Lookup(j)
    \/ MarkStepSucceeded(j) \/ Chain(j)
    \/ ProvisionLocal(j) \/ ProvisionFly(j) \/ ProvisionFails(j) \/ SetSandboxDB(j)
    \/ Fetch(j) \/ SetSourceHash(j) \/ ChainAlreadyFetched(j)
    \/ ChainAlreadyFetchedFails(j)
    \/ RestoreBegin(j) \/ RestoreEnd(j) \/ RestoreFails(j)
    \/ ClearAssertionResults(j) \/ ConnectSandbox(j) \/ RunAssertion(j)
    \/ RunAssertionFails(j)
    \/ ListAssertions(j) \/ Finalize(j) \/ MarkEvidence(j) \/ ReportMarkDrillFailed(j)
    \/ MarkStepFailed(j) \/ MarkStepSkipped(j) \/ MarkStepSkippedDone(j)
    \/ InsertTeardown(j)

TeardownWork(j) ==
    \/ TeardownRead(j) \/ ReportUsage(j) \/ DestroySandbox(j) \/ MarkTeardownStep(j)
    \/ TeardownMarkDrillFailed(j) \/ RereadEvidence(j) \/ MarkDrillSucceeded(j)
    \/ Notify(j)

\* A failing statement of job j.  With an expired context these cost nothing
\* and are what the worker does next.
Fails(j) ==
    \/ FlyMachineStray(j) \/ SetSandboxDBFails(j) \/ DestroySandboxFails(j)
    \/ BlipRaw(j) \/ BlipFailing(j) \/ BlipSwallowed(j)

Worker(j) == Claim(j) \/ StepWork(j) \/ TeardownWork(j) \/ Complete(j)
Enqueue == SeedSteps \/ InsertProvision
Regenerate == RegenRead \/ RegenFinalize \/ RegenMarkEvidence

Next ==
    \/ Enqueue \/ EnqueueFails \/ Regenerate
    \/ \E j \in Jobs : Worker(j) \/ Fails(j) \/ Timeout(j)
    \/ Crash \/ DumpVanishes

Spec == Init /\ [][Next]_vars

\* The request that enqueues a drill goes on unless the server dies, and while the drill has
\* a job some worker claims one or goes on to its next statement.
Fairness == /\ WF_vars(Enqueue)
            /\ WF_vars(\E j \in Jobs : Worker(j) \/ (dead[j] /\ Fails(j)))

FairSpec == Spec /\ Fairness

-----------------------------------------------------------------------------
(* Properties that hold whatever fails.                                     *)

\* "teardown can never mark a drill succeeded with an empty evidence_path"
\* (steps.go, ReportWorker.Work).
EvidenceBeforeSuccess == status = "succeeded" => evidence

\* A drill is marked succeeded only when some restore of its hashed dump ended
\* without an error, whichever jobs were retried, duplicated or discarded.
SucceededWasRestored == status = "succeeded" => hashed /\ restored

\* No sandbox receives data before the hash that anchors the evidence chain to
\* the dump is on the drill's row (SetSourceHash precedes every restore job).
AnchorBeforeRestore == \A s \in SandboxId : content[s] # "empty" => hashed

\* The error "sandbox db not recorded" of Deps.sandbox is never reached: every
\* job that rebuilds the sandbox handle finds the name on the drill's row.
SandboxRecorded ==
    \A j \in Jobs : jstate[j] = "running" /\ pc[j] \in {"lookup", "refetch"}
                         => sandbox # NoSandbox

(* Why they hold: what a succeeded step, an unfinished job and a statement   *)
(* about to be executed each say of the work already done.  The marks that  *)
(* are swallowed, skipped or overwritten play no part in it.                *)

StepFacts ==
    /\ step["provision"] = "succeeded" => sandbox # NoSandbox
    /\ step["fetch"] = "succeeded" => hashed
    /\ step["restore"] = "succeeded" => restored
    /\ step["report"] = "succeeded" => evidence

JobFacts(j) ==
    /\ jstate[j] # "running" => pc[j] = "check"
    /\ jstate[j] # "free" =>
          /\ kind[j] \in {"fetch", "restore", "assert", "report"} => sandbox # NoSandbox
          /\ kind[j] \in {"restore", "assert", "report"} => hashed
          /\ kind[j] \in {"assert", "report"} => restored
          /\ kind[j] = "teardown" /\ reason[j] = "none" => evidence /\ hashed /\ restored

PcFacts(j) ==
    /\ kind[j] = "provision" =>
          /\ pc[j] = "persist" => held[j] # NoSandbox
          /\ pc[j] \in {"succeed", "chain"} => sandbox # NoSandbox
          /\ pc[j] \notin {"lookup", "refetch"}
    /\ kind[j] = "fetch" /\ pc[j] \in {"refetch", "succeed", "chain"} => hashed
    /\ kind[j] = "restore" /\ pc[j] \in {"succeed", "chain"} => restored
    /\ kind[j] = "report" /\ pc[j] \in {"succeed", "verdict", "chain"} => evidence
    /\ pc[j] = "verdict" => kind[j] = "report"
    /\ kind[j] = "teardown" =>
          /\ pc[j] \notin {"markstep", "lookup", "refetch"}
          /\ pc[j] \in {"reread", "success"} => reason[j] = "none"
          /\ pc[j] = "success" => idx[j] = 1

\* The inductive invariant: the steps' order is kept by what their rows, their
\* jobs and their workers' positions imply, through any retry or duplication.
Causality ==
    /\ StepFacts
    /\ \A j \in Jobs : JobFacts(j) /\ PcFacts(j)
    /\ AnchorBeforeRestore
    /\ EvidenceBeforeSuccess
    /\ SucceededWasRestored

-----------------------------------------------------------------------------
(* Properties of a drill whose statements all succeed.                      *)

Terminal == {"succeeded", "failed"}

\* The status, the signed PDF and the data agree: a drill succeeds only when
\* every assertion holds of the dump, and its PDF says PASSED, or RESTORED when
\* nothing was asserted; a PDF that says FAILED means that some assertion does not.
VerdictAgrees ==
    /\ status = "succeeded" => /\ \A i \in 1..NumAssertions : truth[i]
                               /\ signed = IF NumAssertions = 0 THEN "RESTORED" ELSE "PASSED"
    /\ signed = "FAILED" => \E i \in 1..NumAssertions : ~truth[i]
    /\ signed # "none" => [i \in DOMAIN results |-> results[i].passed] = truth

\* One announcement per drill, made after the drill has that status and was
\* metered, and after its sandbox is gone.
OneTerminalEvent ==
    /\ Len(events) <= 1
    /\ events = <<"drill.completed">> => status = "succeeded" /\ metered /\ live = {}
    /\ events = <<"drill.failed">> => status = "failed" /\ metered /\ live = {}

(* Why they hold, when nothing fails: one job of the drill at a time has     *)
(* work left, and where it stands tells what the rows, the sandbox and the  *)
(* PDF say.                                                                 *)

Busy(j) == jstate[j] # "free" /\ pc[j] # "return"

\* The one sandbox there is, the one the drill's row names, holds c.
Ready(c) == sandbox \in SandboxId /\ live = {sandbox} /\ content[sandbox] = c

\* The first n assertions have their row, with the answer the dump deserves.
Recorded(n) == Len(results) = n /\ \A i \in 1..n : results[i].passed = truth[i]

\* A PDF was signed only for complete results, and says what they say.
SignedRight == signed # "none" => /\ Recorded(NumAssertions)
                                  /\ signed = Rendered(AllPassed(results), results)

\* The statements of failAndCleanup.
CleanupPc == {"failstep", "skip", "failinsert"}

AtProvision(j) ==
    /\ pc[j] \in {"check", "markdrill", "markstep", "work", "persist", "succeed", "chain"}
                  \cup CleanupPc
    /\ status = IF pc[j] \in {"check", "markdrill"} THEN "pending" ELSE "running"
    /\ pc[j] \notin {"persist", "succeed", "chain"} => live = {} /\ sandbox = NoSandbox
    /\ pc[j] = "persist" => /\ held[j] \in SandboxId
                            /\ live = {held[j]} /\ content[held[j]] = "empty"
    /\ pc[j] \in {"succeed", "chain"} => Ready("empty")

AtFetch(j) ==
    /\ pc[j] \in {"check", "markstep", "lookup", "work", "persist", "succeed", "chain"}
                  \cup CleanupPc
    /\ status = "running" /\ Ready("empty")

AtRestore(j) ==
    /\ pc[j] \in {"check", "markstep", "lookup", "work", "restoring", "succeed", "chain"}
                  \cup CleanupPc
    /\ status = "running" /\ sandbox \in SandboxId /\ live = {sandbox}
    /\ pc[j] \in {"work", "restoring"} => held[j] = sandbox
    /\ pc[j] \in {"check", "markstep", "lookup", "work"} => Ready("empty")
    /\ pc[j] = "restoring" => Ready("loading")
    /\ pc[j] \in {"succeed", "chain"} => Ready("restored")

AtAssert(j) ==
    /\ pc[j] \in {"check", "markstep", "lookup", "clear", "connect", "assert", "succeed",
                  "chain"} \cup CleanupPc
    /\ status = "running" /\ Ready("restored")
    /\ pc[j] \in {"clear", "connect", "assert"} => held[j] = sandbox
    /\ pc[j] = "connect" => results = <<>>
    /\ pc[j] = "assert" => idx[j] \in 1..NumAssertions /\ Recorded(idx[j] - 1)
    /\ pc[j] \in {"succeed", "chain"} => Recorded(NumAssertions)

AtReport(j) ==
    /\ pc[j] \in {"check", "markstep", "read", "finalize", "evidence", "succeed", "verdict",
                  "chain"}
    /\ status = IF pc[j] = "chain" /\ verdict[j] = "FAILED" THEN "failed" ELSE "running"
    /\ live \subseteq {sandbox} /\ Recorded(NumAssertions)
    /\ pc[j] \notin {"check", "markstep", "read"}
          => verdict[j] = Rendered(AllPassed(results), results)
    /\ signed = IF pc[j] \in {"check", "markstep", "read", "finalize"} THEN "none"
                ELSE verdict[j]
    /\ pc[j] = "verdict" => verdict[j] = "FAILED"

\* The steps after job j's have not succeeded, nor has its own when it starts.
Ahead(j) ==
    /\ \A s \in StepName : Ordinal[s] > Ordinal[kind[j]] => step[s] # "succeeded"
    /\ pc[j] = "check" => step[kind[j]] # "succeeded"

AtStep(j) ==
    /\ Ahead(j)
    /\ kind[j] # "report" => signed = "none"
    /\ kind[j] = "provision" => AtProvision(j)
    /\ kind[j] = "fetch" => AtFetch(j)
    /\ kind[j] = "restore" => AtRestore(j)
    /\ kind[j] = "assert" => AtAssert(j)
    /\ kind[j] = "report" => AtReport(j)

\* What the reason of a teardown job says of the PDF, and of the status before
\* teardown announces it and then.
ReasonAgrees(j) ==
    /\ reason[j] = "none" =>
          /\ signed \in {"PASSED", "RESTORED"} /\ pc[j] # "tdverdict"
          /\ status = IF pc[j] = "notify" THEN "succeeded" ELSE "running"
    /\ reason[j] = "assertion_failed" => signed = "FAILED" /\ status = "failed"
    /\ reason[j] \in StepName =>
          /\ signed = "none"
          /\ status = IF pc[j] = "notify" THEN "failed" ELSE "running"
    /\ reason[j] # "none" => pc[j] \notin {"reread", "success"}

AtTeardown(j) ==
    /\ pc[j] \in {"check", "meter", "destroy", "tdok", "tdverdict", "reread", "success",
                  "notify"}
    /\ pc[j] \in {"check", "meter", "destroy"} => live \subseteq {sandbox}
    /\ pc[j] \notin {"check", "meter", "destroy"} => live = {}
    /\ pc[j] # "check" => /\ held[j] = sandbox
                          /\ seen[j] = "failed" <=> reason[j] = "assertion_failed"
    /\ pc[j] \notin {"check", "meter"} => metered
    /\ ReasonAgrees(j)

\* Before the first job is inserted, and after the last has announced the drill.
Fresh == /\ enq \in {"seed", "insert"}
         /\ status = "pending" /\ signed = "none" /\ events = <<>>
         /\ live = {} /\ sandbox = NoSandbox
         /\ \A s \in StepName : step[s] # "succeeded"

Over == /\ enq = "done" /\ metered /\ live = {}
        /\ \/ /\ status = "succeeded" /\ signed \in {"PASSED", "RESTORED"}
              /\ events = <<"drill.completed">>
           \/ /\ status = "failed" /\ signed \in {"none", "FAILED"}
              /\ events = <<"drill.failed">>

\* The inductive invariant of a drill in which nothing fails (EnqueueDrill and the six
\* workers): its jobs run one after the other, each finds what the one before it left,
\* and what the rows and the PDF say at any statement follows from that statement.
OnCourse ==
    /\ faults = 0 /\ regen = "idle" /\ \A j \in Jobs : ~dead[j]
    /\ SignedRight
    /\ \A i, j \in Jobs : Busy(i) /\ Busy(j) => i = j
    /\ \A j \in Jobs : Busy(j) =>
          /\ enq = "done" /\ events = <<>>
          /\ kind[j] = "teardown" => AtTeardown(j)
          /\ kind[j] # "teardown" => AtStep(j)
    /\ (\A j \in Jobs : ~Busy(j)) => Fresh \/ Over

\* Every drill ends, and its sandbox is destroyed for good.
Settles == <>[](status \in Terminal /\ live = {})

\* When the server dies in the middle of it, River's retries pick the drill up
\* wherever it was: it still ends, and the sandbox its row names is destroyed.  Only a
\* drill whose creator died before it had inserted the first job (orchestrator.go:85-124)
\* stays pending for ever, and has no sandbox then.
\* (Unless the drill's jobs all wait for a row to insert into: this model's bound.)
RowsSuffice == []<>(\E j \in Jobs : jstate[j] = "free")
SettlesAfterCrash ==
    RowsSuffice => <>[](IF enq = "failed" THEN status = "pending" /\ live = {}
                        ELSE status \in Terminal /\ sandbox \notin live)

\* Whatever fails and is retried (steps.go): a succeeded drill has evidence and a finished restore
\* of a dump whose hash was recorded before, and no step looks for a sandbox the row does not name.
DrillSafe ==
    /\ EvidenceBeforeSuccess /\ SucceededWasRestored /\ AnchorBeforeRestore
    /\ SandboxRecorded

\* When nothing fails, row, PDF, data and announcement say the same, once (the report and
\* teardown workers).
OutcomeAgrees == VerdictAgrees /\ OneTerminalEvent

\* The lifecycle seen by those who have only the row, the PDF and the announcements.
Lifecycle == INSTANCE DrillLifecycle WITH
                 status <- status, signed <- signed, events <- events

\* Without faults a drill is what DrillLifecycle promises: it starts, is signed,
\* ends and is announced once, and never goes back (the six workers together).
ImplementsLifecycle == Lifecycle!Spec

\* The bounds of a drill in which no statement fails and staff regenerate nothing; the
\* step's own work may still fail, and the dump may be gone.
NothingFails == MaxFaults = 0 /\ MaxRegens = 0

=============================================================================
