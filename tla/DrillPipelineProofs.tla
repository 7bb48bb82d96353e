------------------------ MODULE DrillPipelineProofs ------------------------
(***************************************************************************)
(* Proofs about DrillPipeline for every number of assertions, job rows,     *)
(* sandboxes, attempts and faults: its types, and the order of a drill's    *)
(* steps (Causality), from which the invariants about evidence follow.      *)
(* For a drill in which nothing fails, its course (OnCourse), from which    *)
(* follow that row, PDF, data and announcement agree (OutcomeAgrees) and    *)
(* that it keeps to DrillLifecycle.                                         *)
(***************************************************************************)
EXTENDS DrillPipeline, TLAPS

USE DEF drillVars, rowVars, sbVars, jobVars, localVars, staffVars, envVars, outVars,
    Running, At, Goto

-----------------------------------------------------------------------------
(* Types.                                                                   *)

\* Steps are numbered 1 to 6, and every one but teardown has a next one.
LEMMA StepOrder ==
    /\ \A k \in StepName : Ordinal[k] \in 1..6
    /\ \A k \in StepName : k # "teardown" => AllSteps[Ordinal[k] + 1] \in StepName
    /\ \A n \in 1..6 : AllSteps[n] \in StepName
    /\ Ordinal["teardown"] = 6
  BY DEF StepName, Ordinal, AllSteps

\* River's insert keeps the types of the job table.
LEMMA InsertTypes ==
    ASSUME TypeOK, NEW k \in StepName, NEW r \in Reason, Insert(k, r)
    PROVE  /\ kind' \in [Jobs -> StepName] /\ reason' \in [Jobs -> Reason]
           /\ jstate' \in [Jobs -> JobState] /\ attempt' \in [Jobs -> Nat]
  BY DEF TypeOK, Insert, JobState

\* So does the end of some jobs' executions, for their rows and their locals.
LEMMA EndTypes ==
    ASSUME TypeOK, NEW js, NEW over, Forgotten(over), Ended(js)
    PROVE  /\ kind' \in [Jobs -> StepName] /\ reason' \in [Jobs -> Reason]
           /\ attempt' \in [Jobs -> Nat]
           /\ pc' \in [Jobs -> Pc] /\ dead' \in [Jobs -> BOOLEAN]
           /\ held' \in [Jobs -> SandboxId \cup {NoSandbox}]
           /\ seen' \in [Jobs -> DrillStatus] /\ idx' \in [Jobs -> Nat]
           /\ verdict' \in [Jobs -> Verdict \cup {"none"}]
<1>1. kind' \in [Jobs -> StepName] /\ reason' \in [Jobs -> Reason] /\ attempt' \in [Jobs -> Nat]
  BY DEF TypeOK, Forgotten, StepName, Reason
<1>2. pc' \in [Jobs -> Pc] /\ dead' \in [Jobs -> BOOLEAN] /\ idx' \in [Jobs -> Nat]
  BY DEF TypeOK, Ended, Pc
<1>3. held' \in [Jobs -> SandboxId \cup {NoSandbox}] /\ seen' \in [Jobs -> DrillStatus]
  BY DEF TypeOK, Ended, DrillStatus
<1>4. verdict' \in [Jobs -> Verdict \cup {"none"}]
  BY DEF TypeOK, Ended
<1>5. QED
  BY <1>1, <1>2, <1>3, <1>4

\* And the return of jobs that stopped with an error.
LEMMA ErroredTypes ==
    ASSUME TypeOK, NEW js, Errored(js)
    PROVE  /\ kind' \in [Jobs -> StepName] /\ reason' \in [Jobs -> Reason]
           /\ jstate' \in [Jobs -> JobState] /\ attempt' \in [Jobs -> Nat]
           /\ pc' \in [Jobs -> Pc] /\ dead' \in [Jobs -> BOOLEAN]
           /\ held' \in [Jobs -> SandboxId \cup {NoSandbox}]
           /\ seen' \in [Jobs -> DrillStatus] /\ idx' \in [Jobs -> Nat]
           /\ verdict' \in [Jobs -> Verdict \cup {"none"}]
<1>1. jstate' \in [Jobs -> JobState]
  BY DEF TypeOK, Errored, JobState
<1>2. PICK over : Forgotten(over) /\ Ended(js)
  BY DEF Errored
<1>3. QED
  BY <1>1, <1>2, EndTypes

\* The budget of faults is respected.
LEMMA StrikeTypes ==
    ASSUME TypeOK, NEW f, NEW n \in Nat, Strike(f, n)
    PROVE  faults' \in 0..MaxFaults
  BY PipelineAssumption DEF TypeOK, Strike

\* A fault is taken from the bound.
LEMMA SpendTypes ==
    ASSUME TypeOK, NEW j \in Jobs, NEW n \in Nat \ {0}, Spend(j, n)
    PROVE  faults' \in 0..MaxFaults
<1>1. (IF dead[j] THEN n - 1 ELSE n) \in Nat
  OBVIOUS
<1>2. QED
  BY <1>1, StrikeTypes DEF Spend

\* The step workers keep the types.
LEMMA TypeStepWork ==
    ASSUME TypeOK, NEW j \in Jobs, StepWork(j)
    PROVE  TypeOK'
<1>1. CASE CheckStep(j)
  <2>1. pc' \in [Jobs -> Pc]
    BY <1>1 DEF TypeOK, CheckStep, Pc
  <2>2. QED
    BY <1>1, <2>1 DEF TypeOK, CheckStep
<1>2. CASE MarkDrillRunning(j)
  BY <1>2, PipelineAssumption DEF TypeOK, Pc, MarkDrillRunning, DrillStatus
<1>3. CASE MarkStepRunning(j)
  BY SMTT(20), <1>3, PipelineAssumption DEF TypeOK, Pc, MarkStepRunning, StepStatus
<1>4. CASE Lookup(j)
  BY <1>4, PipelineAssumption DEF TypeOK, Pc, Lookup
<1>5. CASE MarkStepSucceeded(j)
  BY <1>5, PipelineAssumption DEF TypeOK, Pc, MarkStepSucceeded, StepStatus
<1>6. CASE Chain(j)
  <2>1. kind[j] \in StepName /\ AllSteps[Ordinal[kind[j]] + 1] \in StepName
    BY <1>6, StepOrder DEF TypeOK, Chain
  <2>2. PICK r \in Reason : Insert(AllSteps[Ordinal[kind[j]] + 1], r)
    BY <1>6 DEF Chain, Reason
  <2>3. pc' \in [Jobs -> Pc]
    BY <1>6 DEF TypeOK, Chain, Pc
  <2>4. /\ kind' \in [Jobs -> StepName] /\ reason' \in [Jobs -> Reason]
        /\ jstate' \in [Jobs -> JobState] /\ attempt' \in [Jobs -> Nat]
    BY <2>1, <2>2, InsertTypes
  <2>5. UNCHANGED <<drillVars, rowVars, sbVars, localVars, staffVars, envVars, outVars, faults>>
    BY <1>6 DEF Chain
  <2>6. QED
    BY <2>3, <2>4, <2>5 DEF TypeOK
<1>7. CASE ProvisionLocal(j)
  BY <1>7, PipelineAssumption DEF TypeOK, Pc, ProvisionLocal, Created, SandboxId
<1>8. CASE ProvisionFly(j)
  BY <1>8, PipelineAssumption DEF TypeOK, Pc, ProvisionFly, Created, SandboxId
<1>9. CASE ProvisionFails(j)
  BY <1>9, PipelineAssumption DEF TypeOK, Pc, ProvisionFails, SandboxId
<1>10. CASE SetSandboxDB(j)
  BY <1>10, PipelineAssumption DEF TypeOK, Pc, SetSandboxDB
<1>11. CASE Fetch(j)
  BY <1>11, PipelineAssumption DEF TypeOK, Pc, Fetch
<1>12. CASE SetSourceHash(j)
  BY <1>12, PipelineAssumption DEF TypeOK, Pc, SetSourceHash
<1>13. CASE ChainAlreadyFetched(j)
  BY <1>13, PipelineAssumption DEF TypeOK, Pc, ChainAlreadyFetched
<1>14. CASE ChainAlreadyFetchedFails(j)
  BY SMTT(20), <1>14, ErroredTypes DEF TypeOK, ChainAlreadyFetchedFails
<1>15. CASE RestoreBegin(j)
  BY <1>15, PipelineAssumption DEF TypeOK, Pc, RestoreBegin
<1>16. CASE RestoreEnd(j)
  BY <1>16, PipelineAssumption DEF TypeOK, Pc, RestoreEnd
<1>17. CASE RestoreFails(j)
  BY <1>17, PipelineAssumption DEF TypeOK, Pc, RestoreFails
<1>18. CASE ClearAssertionResults(j)
  BY <1>18, PipelineAssumption DEF TypeOK, Pc, ClearAssertionResults
<1>19. CASE ConnectSandbox(j)
  BY <1>19, PipelineAssumption DEF TypeOK, Pc, ConnectSandbox
<1>20. CASE RunAssertion(j)
  BY SMTT(20), <1>20, PipelineAssumption DEF TypeOK, Pc, RunAssertion
<1>21. CASE RunAssertionFails(j)
  BY <1>21, PipelineAssumption DEF TypeOK, Pc, RunAssertionFails
<1>22. CASE ListAssertions(j)
  <2>1. Rendered(AllPassed(results), results) \in Verdict
    BY DEF Rendered, Verdict
  <2>2. verdict' \in [Jobs -> Verdict \cup {"none"}]
    BY <1>22, <2>1 DEF TypeOK, ListAssertions
  <2>3. pc' \in [Jobs -> Pc]
    BY <1>22 DEF TypeOK, ListAssertions, Pc
  <2>4. QED
    BY <1>22, <2>2, <2>3 DEF TypeOK, ListAssertions
<1>23. CASE Finalize(j)
  BY <1>23, PipelineAssumption DEF TypeOK, Pc, Finalize
<1>24. CASE MarkEvidence(j)
  BY <1>24, PipelineAssumption DEF TypeOK, Pc, MarkEvidence
<1>25. CASE ReportMarkDrillFailed(j)
  BY <1>25, PipelineAssumption DEF TypeOK, Pc, ReportMarkDrillFailed, DrillStatus
<1>26. CASE MarkStepFailed(j)
  <2>1. Ordinal[kind[j]] + 1 \in Nat
    <3>1. kind[j] \in StepName
      BY DEF TypeOK
    <3>2. QED
      BY <3>1, StepOrder
  <2>2. step' \in [StepName -> StepStatus] /\ pc' \in [Jobs -> Pc]
    BY <1>26 DEF TypeOK, MarkStepFailed, StepStatus, Pc
  <2>3. QED
    BY <1>26, <2>1, <2>2 DEF TypeOK, MarkStepFailed
<1>27. CASE MarkStepSkipped(j)
  <2>1. step' \in [StepName -> StepStatus]
    BY <1>27 DEF TypeOK, MarkStepSkipped, StepStatus
  <2>2. idx' \in [Jobs -> Nat]
    BY <1>27 DEF TypeOK, MarkStepSkipped
  <2>3. QED
    BY <1>27, <2>1, <2>2 DEF TypeOK, MarkStepSkipped
<1>28. CASE MarkStepSkippedDone(j)
  BY <1>28, PipelineAssumption DEF TypeOK, Pc, MarkStepSkippedDone
<1>29. CASE InsertTeardown(j)
  <2>1. kind[j] \in Reason /\ "teardown" \in StepName
    BY DEF TypeOK, Reason, StepName
  <2>2. pc' \in [Jobs -> Pc]
    BY <1>29 DEF TypeOK, InsertTeardown, Pc
  <2>3. QED
    BY SMTT(20), <1>29, <2>1, <2>2, InsertTypes DEF TypeOK, InsertTeardown
<1>30. QED
  BY <1>1, <1>2, <1>3, <1>4, <1>5, <1>6, <1>7, <1>8, <1>9, <1>10, <1>11, <1>12, <1>13, <1>14, <1>15, <1>16, <1>17, <1>18, <1>19, <1>20, <1>21, <1>22, <1>23, <1>24, <1>25, <1>26, <1>27, <1>28, <1>29 DEF StepWork

\* So does the teardown worker.
LEMMA TypeTeardownWork ==
    ASSUME TypeOK, NEW j \in Jobs, TeardownWork(j)
    PROVE  TypeOK'
<1>1. CASE TeardownRead(j)
  BY <1>1, PipelineAssumption DEF TypeOK, Pc, TeardownRead
<1>2. CASE ReportUsage(j)
  BY <1>2, PipelineAssumption DEF TypeOK, Pc, ReportUsage
<1>3. CASE DestroySandbox(j)
  BY <1>3, PipelineAssumption DEF TypeOK, Pc, DestroySandbox
<1>4. CASE MarkTeardownStep(j)
  <2>1. step' \in [StepName -> StepStatus]
    BY <1>4 DEF TypeOK, MarkTeardownStep, StepStatus
  <2>2. pc' \in [Jobs -> Pc]
    BY <1>4 DEF TypeOK, MarkTeardownStep, AfterTeardownStep, Pc
  <2>3. QED
    BY <1>4, <2>1, <2>2 DEF TypeOK, MarkTeardownStep
<1>5. CASE TeardownMarkDrillFailed(j)
  BY <1>5, PipelineAssumption DEF TypeOK, Pc, TeardownMarkDrillFailed, DrillStatus
<1>6. CASE RereadEvidence(j)
  BY <1>6, PipelineAssumption DEF TypeOK, Pc, RereadEvidence
<1>7. CASE MarkDrillSucceeded(j)
  BY <1>7, PipelineAssumption DEF TypeOK, Pc, MarkDrillSucceeded, DrillStatus
<1>8. CASE Notify(j)
  <2>1. PICK e \in {"drill.completed", "drill.failed"} : events' = Append(events, e)
    BY <1>8 DEF Notify
  <2>2. events' \in Seq({"drill.completed", "drill.failed"})
    BY <2>1 DEF TypeOK
  <2>3. pc' \in [Jobs -> Pc]
    BY <1>8 DEF TypeOK, Notify, Pc
  <2>4. UNCHANGED <<drillVars, rowVars, sbVars, jobVars, localVars, staffVars, envVars, metered,
                    restored, faults>>
    BY <1>8 DEF Notify
  <2>5. QED
    BY <2>2, <2>3, <2>4 DEF TypeOK
<1>9. QED
  BY <1>1, <1>2, <1>3, <1>4, <1>5, <1>6, <1>7, <1>8 DEF TeardownWork

\* So do statements that fail.
LEMMA TypeFails ==
    ASSUME TypeOK, NEW j \in Jobs, Fails(j)
    PROVE  TypeOK'
<1>1. CASE FlyMachineStray(j)
  <2>1. faults' \in 0..MaxFaults
    BY <1>1, StrikeTypes DEF FlyMachineStray
  <2>2. pc' \in [Jobs -> Pc]
    BY <1>1 DEF TypeOK, FlyMachineStray, Pc
  <2>3. live' \subseteq SandboxId /\ nextSandbox' \in 1..(MaxSandboxes + 1)
    BY <1>1, PipelineAssumption DEF TypeOK, FlyMachineStray, SandboxId
  <2>4. QED
    BY <1>1, <2>1, <2>2, <2>3 DEF TypeOK, FlyMachineStray
<1>2. CASE SetSandboxDBFails(j)
  <2>1. faults' \in 0..MaxFaults
    BY <1>2, SpendTypes DEF SetSandboxDBFails
  <2>2. live' \subseteq SandboxId
    BY <1>2 DEF TypeOK, SetSandboxDBFails
  <2>3. QED
    BY <1>2, <2>1, <2>2, ErroredTypes DEF TypeOK, SetSandboxDBFails
<1>3. CASE DestroySandboxFails(j)
  <2>1. faults' \in 0..MaxFaults
    BY <1>3, SpendTypes DEF DestroySandboxFails
  <2>2. pc' \in [Jobs -> Pc]
    <3>1. PICK p \in {"tdfailed", "tdok"} : pc' = [pc EXCEPT ![j] = p]
      BY <1>3 DEF DestroySandboxFails
    <3>2. QED
      BY <3>1 DEF TypeOK, Pc
  <2>3. QED
    BY <1>3, <2>1, <2>2 DEF TypeOK, DestroySandboxFails
<1>4. CASE BlipRaw(j)
  <2>1. faults' \in 0..MaxFaults
    BY <1>4, SpendTypes DEF BlipRaw
  <2>2. Errored({j}) /\ UNCHANGED <<drillVars, rowVars, sbVars, staffVars, envVars, outVars>>
    BY <1>4 DEF BlipRaw
  <2>3. QED
    BY SMTT(20), <2>1, <2>2, ErroredTypes DEF TypeOK
<1>5. CASE BlipFailing(j)
  <2>1. faults' \in 0..MaxFaults
    BY <1>5, SpendTypes DEF BlipFailing
  <2>2. QED
    BY <1>5, <2>1 DEF TypeOK, BlipFailing, Pc
<1>6. CASE BlipSwallowed(j)
  <2>1. faults' \in 0..MaxFaults
    BY <1>6, SpendTypes DEF BlipSwallowed
  <2>2. pc' \in [Jobs -> Pc]
    BY <1>6 DEF TypeOK, BlipSwallowed, SwallowedPc, AfterTeardownStep, Pc
  <2>3. Ordinal[kind[j]] + 1 \in Nat
    <3>1. kind[j] \in StepName
      BY DEF TypeOK
    <3>2. QED
      BY <3>1, StepOrder
  <2>4. idx' \in [Jobs -> Nat]
    BY <1>6, <2>3 DEF TypeOK, BlipSwallowed
  <2>5. QED
    BY <1>6, <2>1, <2>2, <2>4 DEF TypeOK, BlipSwallowed
<1>7. QED
  BY <1>1, <1>2, <1>3, <1>4, <1>5, <1>6 DEF Fails

\* Every variable keeps its type, whatever the drill's jobs and the faults do.
THEOREM TypeCorrect == Spec => []TypeOK
<1>1. Init => TypeOK
  <2> SUFFICES ASSUME Init PROVE TypeOK
    OBVIOUS
  <2>1. /\ status \in DrillStatus /\ step \in [StepName -> StepStatus]
        /\ seen \in [Jobs -> DrillStatus]
    BY DEF Init, DrillStatus, StepStatus
  <2>2. /\ kind \in [Jobs -> StepName] /\ reason \in [Jobs -> Reason]
        /\ jstate \in [Jobs -> JobState] /\ pc \in [Jobs -> Pc]
    BY DEF Init, StepName, Reason, JobState, Pc
  <2>3. /\ results \in Seq([n : 1..NumAssertions, passed : BOOLEAN])
        /\ events \in Seq({"drill.completed", "drill.failed"})
    <3>1. results = <<>> /\ events = <<>>
      BY DEF Init
    <3>2. QED
      BY <3>1
  <2>4. /\ nextSandbox \in 1..(MaxSandboxes + 1) /\ regens \in 0..MaxRegens
        /\ faults \in 0..MaxFaults
    <3>1. nextSandbox = 1 /\ regens = 0 /\ faults = 0
      BY DEF Init
    <3>2. QED
      BY <3>1, PipelineAssumption
  <2>5. /\ attempt \in [Jobs -> Nat] /\ idx \in [Jobs -> Nat] /\ dead \in [Jobs -> BOOLEAN]
        /\ held \in [Jobs -> SandboxId \cup {NoSandbox}]
        /\ verdict \in [Jobs -> Verdict \cup {"none"}]
    BY DEF Init
  <2>6. QED
    BY <2>1, <2>2, <2>3, <2>4, <2>5 DEF Init, TypeOK
<1>2. TypeOK /\ [Next]_vars => TypeOK'
  <2> SUFFICES ASSUME TypeOK, [Next]_vars PROVE TypeOK'
    OBVIOUS
  <2>1. CASE Enqueue
    <3>1. CASE SeedSteps
      BY <3>1 DEF TypeOK, SeedSteps, StepStatus
    <3>2. CASE InsertProvision
      <4>1. "provision" \in StepName /\ "none" \in Reason
        BY DEF StepName, Reason
      <4>2. QED
        BY ZenonT(20), <3>2, <4>1, InsertTypes DEF TypeOK, InsertProvision
    <3>3. QED
      BY <2>1, <3>1, <3>2 DEF Enqueue
  <2>2. CASE EnqueueFails
    BY <2>2, StrikeTypes DEF TypeOK, EnqueueFails
  <2>3. CASE Regenerate
    <3>1. CASE RegenRead
      <4>1. Rendered(status = "succeeded", results) \in Verdict
        BY DEF Rendered, Verdict
      <4>2. QED
        BY <3>1, <4>1, PipelineAssumption DEF TypeOK, RegenRead
    <3>2. CASE RegenFinalize
      BY <3>2 DEF TypeOK, RegenFinalize
    <3>3. CASE RegenMarkEvidence
      BY <3>3 DEF TypeOK, RegenMarkEvidence
    <3>4. QED
      BY <2>3, <3>1, <3>2, <3>3 DEF Regenerate
  <2>4. ASSUME NEW j \in Jobs, Worker(j) PROVE TypeOK'
    <3>1. CASE Claim(j)
      BY <3>1 DEF TypeOK, Claim, JobState
    <3>2. CASE Complete(j)
      <4>1. jstate' \in [Jobs -> JobState]
        BY <3>2 DEF TypeOK, Complete, JobState
      <4>2. QED
        BY SMTT(20), <3>2, <4>1, EndTypes DEF TypeOK, Complete
    <3>3. QED
      BY <2>4, <3>1, <3>2, TypeStepWork, TypeTeardownWork DEF Worker
  <2>5. ASSUME NEW j \in Jobs, Timeout(j) PROVE TypeOK'
    <3>1. faults' \in 0..MaxFaults
      BY <2>5, StrikeTypes DEF Timeout
    <3>2. QED
      BY <2>5, <3>1 DEF TypeOK, Timeout
  <2>6. CASE Crash
    <3>1. faults' \in 0..MaxFaults
      BY <2>6, StrikeTypes DEF Crash
    <3>2. PICK js : Errored(js)
      BY <2>6 DEF Crash
    <3>3. QED
      BY SMTT(20), <2>6, <3>1, <3>2, ErroredTypes DEF TypeOK, Crash
  <2>7. CASE DumpVanishes
    BY <2>7 DEF TypeOK, DumpVanishes
  <2>8. CASE UNCHANGED vars
    BY <2>8 DEF TypeOK, vars
  <2>9. QED
    BY <2>1, <2>2, <2>3, <2>4, <2>5, <2>6, <2>7, <2>8, TypeFails DEF Next
<1>3. QED
  BY <1>1, <1>2, PTL DEF Spec

-----------------------------------------------------------------------------
(* Causality.                                                               *)

\* What the proof needs of the types: which tables there are.
Tables ==
    /\ pc \in [Jobs -> Pc] /\ kind \in [Jobs -> StepName] /\ reason \in [Jobs -> Reason]
    /\ jstate \in [Jobs -> JobState] /\ idx \in [Jobs -> Nat]
    /\ held \in [Jobs -> SandboxId \cup {NoSandbox}]
    /\ step \in [StepName -> StepStatus]
    /\ content \in [SandboxId -> {"empty", "loading", "restored", "mixed"}]

\* No sandbox is the absent one.
LEMMA SandboxNotNone == \A s \in SandboxId : s # NoSandbox
  BY PipelineAssumption DEF SandboxId, NoSandbox

USE DEF Tables, Causality, StepFacts, JobFacts, PcFacts, AnchorBeforeRestore,
        EvidenceBeforeSuccess, SucceededWasRestored

\* The step that follows each step.
LEMMA NextStep ==
    ASSUME NEW k \in StepName, k # "teardown", NEW n, n = AllSteps[Ordinal[k] + 1]
    PROVE  \/ k = "provision" /\ n = "fetch"
           \/ k = "fetch" /\ n = "restore"
           \/ k = "restore" /\ n = "assert"
           \/ k = "assert" /\ n = "report"
           \/ k = "report" /\ n = "teardown"
<1>1. Ordinal["provision"] = 1 /\ Ordinal["fetch"] = 2 /\ Ordinal["restore"] = 3
      /\ Ordinal["assert"] = 4 /\ Ordinal["report"] = 5
  BY DEF StepName, Ordinal
<1>2. AllSteps[2] = "fetch" /\ AllSteps[3] = "restore" /\ AllSteps[4] = "assert"
      /\ AllSteps[5] = "report" /\ AllSteps[6] = "teardown"
  BY DEF AllSteps
<1>3. k \in {"provision", "fetch", "restore", "assert", "report"}
  BY DEF StepName
<1>4. QED
  BY <1>1, <1>2, <1>3

\* The step workers keep the causal order.
LEMMA CausalStepWork ==
    ASSUME Tables, Causality, NEW j \in Jobs, StepWork(j)
    PROVE  Causality'
<1>1. CASE CheckStep(j)
  <2>1. StepFacts'
    BY <1>1 DEF CheckStep
  <2>2. ASSUME NEW i \in Jobs PROVE JobFacts(i)' /\ PcFacts(i)'
    <3>1. CASE i = j
      BY <1>1, <3>1 DEF CheckStep
    <3>2. CASE i # j
      BY <1>1, <3>2 DEF CheckStep
    <3>3. QED
      BY <3>1, <3>2
  <2>3. AnchorBeforeRestore' /\ EvidenceBeforeSuccess' /\ SucceededWasRestored'
    BY <1>1 DEF CheckStep
  <2>4. QED
    BY <2>1, <2>2, <2>3
<1>2. CASE MarkDrillRunning(j)
  BY ZenonT(20), <1>2 DEF MarkDrillRunning
<1>3. CASE MarkStepRunning(j)
  <2>1. StepFacts'
    BY <1>3 DEF MarkStepRunning, StepName, StepStatus
  <2>2. ASSUME NEW i \in Jobs PROVE JobFacts(i)' /\ PcFacts(i)'
    <3>1. CASE i = j
      BY <1>3, <3>1 DEF MarkStepRunning, StepName, StepStatus
    <3>2. CASE i # j
      BY <1>3, <3>2 DEF MarkStepRunning, StepName, StepStatus
    <3>3. QED
      BY <3>1, <3>2
  <2>3. AnchorBeforeRestore' /\ EvidenceBeforeSuccess' /\ SucceededWasRestored'
    BY <1>3 DEF MarkStepRunning, StepName, StepStatus
  <2>4. QED
    BY <2>1, <2>2, <2>3
<1>4. CASE Lookup(j)
  BY ZenonT(20), <1>4 DEF Lookup
<1>5. CASE MarkStepSucceeded(j)
  <2>1. StepFacts'
    BY <1>5 DEF MarkStepSucceeded, StepName
  <2>2. ASSUME NEW i \in Jobs PROVE JobFacts(i)' /\ PcFacts(i)'
    <3>1. CASE i = j
      BY <1>5, <3>1 DEF MarkStepSucceeded, StepName
    <3>2. CASE i # j
      BY <1>5, <3>2 DEF MarkStepSucceeded, StepName
    <3>3. QED
      BY <3>1, <3>2
  <2>3. AnchorBeforeRestore' /\ EvidenceBeforeSuccess' /\ SucceededWasRestored'
    BY <1>5 DEF MarkStepSucceeded, StepName
  <2>4. QED
    BY <2>1, <2>2, <2>3
<1>6. CASE Chain(j)
  <2>1. PICK n \in Jobs :
          /\ jstate[n] = "free" /\ n # j
          /\ jstate' = [jstate EXCEPT ![n] = "available"]
          /\ kind' = [kind EXCEPT ![n] = AllSteps[Ordinal[kind[j]] + 1]]
          /\ reason' = [reason EXCEPT ![n] = IF kind[j] = "report" /\ verdict[j] = "FAILED"
                                            THEN "assertion_failed" ELSE "none"]
    BY <1>6 DEF Chain, Insert
  <2>2. /\ pc' = [pc EXCEPT ![j] = "return"]
        /\ UNCHANGED <<drillVars, rowVars, sbVars, localVars, staffVars, envVars, outVars>>
    BY <1>6 DEF Chain
  <2>3. /\ kind'[n] \in {"fetch", "restore", "assert", "report"} => sandbox # NoSandbox
        /\ kind'[n] \in {"restore", "assert", "report"} => hashed
        /\ kind'[n] \in {"assert", "report"} => restored
        /\ kind'[n] = "teardown" => evidence /\ hashed /\ restored
    <3>1. kind[j] \in StepName \ {"teardown"} /\ jstate[j] = "running" /\ pc[j] = "chain"
      BY <1>6 DEF Chain
    <3>2. kind'[n] = AllSteps[Ordinal[kind[j]] + 1]
      BY <2>1
    <3>3. \/ kind[j] = "provision" /\ kind'[n] = "fetch"
          \/ kind[j] = "fetch" /\ kind'[n] = "restore"
          \/ kind[j] = "restore" /\ kind'[n] = "assert"
          \/ kind[j] = "assert" /\ kind'[n] = "report"
          \/ kind[j] = "report" /\ kind'[n] = "teardown"
      BY <3>1, <3>2, NextStep
    <3>4. QED
      BY <3>1, <3>3
  <2>4. JobFacts(n)' /\ PcFacts(n)'
    BY <2>1, <2>2, <2>3
  <2>5. ASSUME NEW i \in Jobs, i # n PROVE JobFacts(i)' /\ PcFacts(i)'
    <3>1. kind'[i] = kind[i] /\ jstate'[i] = jstate[i] /\ reason'[i] = reason[i]
      BY <2>1, <2>5
    <3>2. pc'[i] = pc[i] \/ (i = j /\ pc'[i] = "return" /\ jstate[i] = "running")
      BY <1>6, <2>2 DEF Chain
    <3>3. QED
      BY <2>2, <3>1, <3>2
  <2>6. StepFacts' /\ AnchorBeforeRestore' /\ EvidenceBeforeSuccess' /\ SucceededWasRestored'
    BY <2>2
  <2>7. ASSUME NEW i \in Jobs PROVE JobFacts(i)' /\ PcFacts(i)'
    <3>1. CASE i = n
      BY <2>4, <3>1
    <3>2. CASE i # n
      BY <2>5, <3>2
    <3>3. QED
      BY <3>1, <3>2
  <2>8. QED
    BY <2>6, <2>7
<1>7. CASE ProvisionLocal(j)
  <2>1. StepFacts'
    BY <1>7 DEF ProvisionLocal, Created, SandboxId, NoSandbox
  <2>2. ASSUME NEW i \in Jobs PROVE JobFacts(i)' /\ PcFacts(i)'
    <3>1. CASE i = j
      <4>1. held'[j] # NoSandbox /\ pc'[j] = "persist" /\ jstate[j] = "running"
        <5>1. PICK s \in SandboxId : held' = [held EXCEPT ![j] = s]
          BY <1>7 DEF ProvisionLocal, Created
        <5>2. QED
          BY <1>7, <5>1, SandboxNotNone DEF ProvisionLocal, Created
      <4>2. kind[j] = "provision" /\ UNCHANGED <<drillVars, jobVars, outVars>>
        BY <1>7 DEF ProvisionLocal
      <4>3. QED
        BY <3>1, <4>1, <4>2
    <3>2. CASE i # j
      BY <1>7, <3>2 DEF ProvisionLocal, Created, SandboxId, NoSandbox
    <3>3. QED
      BY <3>1, <3>2
  <2>3. AnchorBeforeRestore' /\ EvidenceBeforeSuccess' /\ SucceededWasRestored'
    BY <1>7 DEF ProvisionLocal, Created, SandboxId, NoSandbox
  <2>4. QED
    BY <2>1, <2>2, <2>3
<1>8. CASE ProvisionFly(j)
  <2>1. StepFacts'
    BY <1>8 DEF ProvisionFly, Created, SandboxId, NoSandbox
  <2>2. ASSUME NEW i \in Jobs PROVE JobFacts(i)' /\ PcFacts(i)'
    <3>1. CASE i = j
      <4>1. held'[j] # NoSandbox /\ pc'[j] = "persist" /\ jstate[j] = "running"
        <5>1. PICK s \in SandboxId : held' = [held EXCEPT ![j] = s]
          BY <1>8 DEF ProvisionFly, Created
        <5>2. QED
          BY <1>8, <5>1, SandboxNotNone DEF ProvisionFly, Created
      <4>2. kind[j] = "provision" /\ UNCHANGED <<drillVars, jobVars, outVars>>
        BY <1>8 DEF ProvisionFly
      <4>3. QED
        BY <3>1, <4>1, <4>2
    <3>2. CASE i # j
      BY <1>8, <3>2 DEF ProvisionFly, Created, SandboxId, NoSandbox
    <3>3. QED
      BY <3>1, <3>2
  <2>3. AnchorBeforeRestore' /\ EvidenceBeforeSuccess' /\ SucceededWasRestored'
    BY <1>8 DEF ProvisionFly, Created, SandboxId, NoSandbox
  <2>4. QED
    BY <2>1, <2>2, <2>3
<1>9. CASE ProvisionFails(j)
  BY ZenonT(20), <1>9 DEF ProvisionFails
<1>10. CASE SetSandboxDB(j)
  BY ZenonT(20), <1>10 DEF SetSandboxDB
<1>11. CASE Fetch(j)
  BY ZenonT(20), <1>11 DEF Fetch
<1>12. CASE SetSourceHash(j)
  BY <1>12 DEF SetSourceHash
<1>13. CASE ChainAlreadyFetched(j)
  BY <1>13 DEF ChainAlreadyFetched
<1>14. CASE ChainAlreadyFetchedFails(j)
  BY ZenonT(20), <1>14 DEF ChainAlreadyFetchedFails, Errored, Forgotten, Ended
<1>15. CASE RestoreBegin(j)
  BY ZenonT(20), <1>15 DEF RestoreBegin
<1>16. CASE RestoreEnd(j)
  BY <1>16 DEF RestoreEnd
<1>17. CASE RestoreFails(j)
  BY ZenonT(20), <1>17 DEF RestoreFails
<1>18. CASE ClearAssertionResults(j)
  BY ZenonT(20), <1>18 DEF ClearAssertionResults
<1>19. CASE ConnectSandbox(j)
  BY ZenonT(20), <1>19 DEF ConnectSandbox
<1>20. CASE RunAssertion(j)
  BY ZenonT(20), <1>20 DEF RunAssertion
<1>21. CASE RunAssertionFails(j)
  BY ZenonT(20), <1>21 DEF RunAssertionFails
<1>22. CASE ListAssertions(j)
  BY ZenonT(20), <1>22 DEF ListAssertions, Rendered
<1>23. CASE Finalize(j)
  BY ZenonT(20), <1>23 DEF Finalize
<1>24. CASE MarkEvidence(j)
  BY <1>24 DEF MarkEvidence
<1>25. CASE ReportMarkDrillFailed(j)
  BY <1>25 DEF ReportMarkDrillFailed
<1>26. CASE MarkStepFailed(j)
  <2>1. StepFacts'
    <3>1. \A s \in StepName : step'[s] = "succeeded" /\ s # "teardown" => step[s] = "succeeded"
      BY <1>26 DEF MarkStepFailed
    <3>2. {"provision", "fetch", "restore", "report"} \subseteq StepName
      BY DEF StepName
    <3>3. UNCHANGED drillVars /\ UNCHANGED outVars
      BY <1>26 DEF MarkStepFailed
    <3>4. QED
      BY <3>1, <3>2, <3>3
  <2>2. ASSUME NEW i \in Jobs PROVE JobFacts(i)' /\ PcFacts(i)'
    <3>1. CASE i = j
      BY <1>26, <3>1 DEF MarkStepFailed
    <3>2. CASE i # j
      BY <1>26, <3>2 DEF MarkStepFailed
    <3>3. QED
      BY <3>1, <3>2
  <2>3. AnchorBeforeRestore' /\ EvidenceBeforeSuccess' /\ SucceededWasRestored'
    BY <1>26 DEF MarkStepFailed
  <2>4. QED
    BY <2>1, <2>2, <2>3
<1>27. CASE MarkStepSkipped(j)
  <2>1. StepFacts'
    <3>1. \A s \in StepName : step'[s] = "succeeded" /\ s # "teardown" => step[s] = "succeeded"
      BY <1>27 DEF MarkStepSkipped
    <3>2. {"provision", "fetch", "restore", "report"} \subseteq StepName
      BY DEF StepName
    <3>3. UNCHANGED drillVars /\ UNCHANGED outVars
      BY <1>27 DEF MarkStepSkipped
    <3>4. QED
      BY <3>1, <3>2, <3>3
  <2>2. ASSUME NEW i \in Jobs PROVE JobFacts(i)' /\ PcFacts(i)'
    <3>1. CASE i = j
      BY <1>27, <3>1 DEF MarkStepSkipped
    <3>2. CASE i # j
      BY <1>27, <3>2 DEF MarkStepSkipped
    <3>3. QED
      BY <3>1, <3>2
  <2>3. AnchorBeforeRestore' /\ EvidenceBeforeSuccess' /\ SucceededWasRestored'
    BY <1>27 DEF MarkStepSkipped
  <2>4. QED
    BY <2>1, <2>2, <2>3
<1>28. CASE MarkStepSkippedDone(j)
  BY ZenonT(20), <1>28 DEF MarkStepSkippedDone
<1>29. CASE InsertTeardown(j)
  <2>1. PICK n \in Jobs :
          /\ jstate[n] = "free" /\ n # j
          /\ jstate' = [jstate EXCEPT ![n] = "available"]
          /\ kind' = [kind EXCEPT ![n] = "teardown"]
          /\ reason' = [reason EXCEPT ![n] = kind[j]]
    BY <1>29 DEF InsertTeardown, Insert
  <2>2. /\ pc' = [pc EXCEPT ![j] = "return"]
        /\ UNCHANGED <<drillVars, rowVars, sbVars, localVars, staffVars, envVars, outVars>>
    BY <1>29 DEF InsertTeardown
  <2>3. kind[j] # "none"
    BY DEF StepName
  <2>4. JobFacts(n)' /\ PcFacts(n)'
    BY <2>1, <2>2, <2>3
  <2>5. ASSUME NEW i \in Jobs, i # n PROVE JobFacts(i)' /\ PcFacts(i)'
    <3>1. kind'[i] = kind[i] /\ jstate'[i] = jstate[i] /\ reason'[i] = reason[i]
      BY <2>1, <2>5
    <3>2. pc'[i] = pc[i] \/ (i = j /\ pc'[i] = "return" /\ jstate[i] = "running")
      BY <1>29, <2>2 DEF InsertTeardown
    <3>3. QED
      BY <2>2, <3>1, <3>2
  <2>6. StepFacts' /\ AnchorBeforeRestore' /\ EvidenceBeforeSuccess' /\ SucceededWasRestored'
    BY <2>2
  <2>7. ASSUME NEW i \in Jobs PROVE JobFacts(i)' /\ PcFacts(i)'
    <3>1. CASE i = n
      BY <2>4, <3>1
    <3>2. CASE i # n
      BY <2>5, <3>2
    <3>3. QED
      BY <3>1, <3>2
  <2>8. QED
    BY <2>6, <2>7
<1>30. QED
  BY <1>1, <1>2, <1>3, <1>4, <1>5, <1>6, <1>7, <1>8, <1>9, <1>10, <1>11, <1>12, <1>13, <1>14, <1>15, <1>16, <1>17, <1>18, <1>19, <1>20, <1>21, <1>22, <1>23, <1>24, <1>25, <1>26, <1>27, <1>28, <1>29 DEF StepWork

\* So does the teardown worker.
LEMMA CausalTeardownWork ==
    ASSUME Tables, Causality, NEW j \in Jobs, TeardownWork(j)
    PROVE  Causality'
<1>1. CASE TeardownRead(j)
  BY ZenonT(20), <1>1 DEF TeardownRead
<1>2. CASE ReportUsage(j)
  BY ZenonT(20), <1>2 DEF ReportUsage
<1>3. CASE DestroySandbox(j)
  BY ZenonT(20), <1>3 DEF DestroySandbox
<1>4. CASE MarkTeardownStep(j)
  <2>1. StepFacts'
    <3>1. \A s \in StepName : step'[s] = "succeeded" /\ s # "teardown" => step[s] = "succeeded"
      BY <1>4 DEF MarkTeardownStep, AfterTeardownStep
    <3>2. {"provision", "fetch", "restore", "report"} \subseteq StepName
      BY DEF StepName
    <3>3. UNCHANGED drillVars /\ UNCHANGED outVars
      BY <1>4 DEF MarkTeardownStep
    <3>4. QED
      BY <3>1, <3>2, <3>3
  <2>2. ASSUME NEW i \in Jobs PROVE JobFacts(i)' /\ PcFacts(i)'
    <3>1. CASE i = j
      BY <1>4, <3>1 DEF MarkTeardownStep, AfterTeardownStep
    <3>2. CASE i # j
      BY <1>4, <3>2 DEF MarkTeardownStep, AfterTeardownStep
    <3>3. QED
      BY <3>1, <3>2
  <2>3. AnchorBeforeRestore' /\ EvidenceBeforeSuccess' /\ SucceededWasRestored'
    BY <1>4 DEF MarkTeardownStep, AfterTeardownStep
  <2>4. QED
    BY <2>1, <2>2, <2>3
<1>5. CASE TeardownMarkDrillFailed(j)
  BY ZenonT(20), <1>5 DEF TeardownMarkDrillFailed
<1>6. CASE RereadEvidence(j)
  BY ZenonT(20), <1>6 DEF RereadEvidence
<1>7. CASE MarkDrillSucceeded(j)
  BY <1>7 DEF MarkDrillSucceeded
<1>8. CASE Notify(j)
  BY ZenonT(20), <1>8 DEF Notify
<1>9. QED
  BY <1>1, <1>2, <1>3, <1>4, <1>5, <1>6, <1>7, <1>8 DEF TeardownWork

\* So do statements that fail.
LEMMA CausalFails ==
    ASSUME Tables, Causality, NEW j \in Jobs, Fails(j)
    PROVE  Causality'
<1>1. CASE FlyMachineStray(j)
  <2>1. StepFacts'
    BY <1>1 DEF FlyMachineStray
  <2>2. ASSUME NEW i \in Jobs PROVE JobFacts(i)' /\ PcFacts(i)'
    <3>1. CASE i = j
      BY <1>1, <3>1 DEF FlyMachineStray
    <3>2. CASE i # j
      BY ZenonT(20), <1>1, <3>2 DEF FlyMachineStray
    <3>3. QED
      BY <3>1, <3>2
  <2>3. AnchorBeforeRestore' /\ EvidenceBeforeSuccess' /\ SucceededWasRestored'
    BY <1>1 DEF FlyMachineStray
  <2>4. QED
    BY <2>1, <2>2, <2>3
<1>2. CASE SetSandboxDBFails(j)
  BY ZenonT(20), <1>2 DEF SetSandboxDBFails, Errored, Forgotten, Ended
<1>3. CASE DestroySandboxFails(j)
  <2>1. StepFacts'
    BY <1>3 DEF DestroySandboxFails
  <2>2. ASSUME NEW i \in Jobs PROVE JobFacts(i)' /\ PcFacts(i)'
    <3>1. CASE i = j
      BY <1>3, <3>1 DEF DestroySandboxFails
    <3>2. CASE i # j
      BY ZenonT(20), <1>3, <3>2 DEF DestroySandboxFails
    <3>3. QED
      BY <3>1, <3>2
  <2>3. AnchorBeforeRestore' /\ EvidenceBeforeSuccess' /\ SucceededWasRestored'
    BY <1>3 DEF DestroySandboxFails
  <2>4. QED
    BY <2>1, <2>2, <2>3
<1>4. CASE BlipRaw(j)
  BY ZenonT(20), <1>4 DEF BlipRaw, RawPc, Errored, Forgotten, Ended
<1>5. CASE BlipFailing(j)
  BY ZenonT(20), <1>5 DEF BlipFailing, FailingPc
<1>6. CASE BlipSwallowed(j)
  <2>1. StepFacts'
    BY <1>6 DEF BlipSwallowed, SwallowedPc, AfterTeardownStep
  <2>2. ASSUME NEW i \in Jobs PROVE JobFacts(i)' /\ PcFacts(i)'
    <3>1. CASE i = j
      <4>1. /\ jstate[j] = "running" /\ pc[j] \in SwallowedPc
            /\ pc'[j] \in {"skip", "chain", "destroy", "tdverdict", "notify", "reread", "return"}
            /\ pc'[j] = "chain" => pc[j] = "verdict"
            /\ pc'[j] = "reread" => reason[j] = "none"
            /\ UNCHANGED <<drillVars, jobVars, outVars>>
        BY <1>6 DEF BlipSwallowed, SwallowedPc, AfterTeardownStep
      <4>2. kind[j] = "report" \/ pc[j] # "verdict"
        BY <1>6
      <4>3. QED
        BY <3>1, <4>1, <4>2
    <3>2. CASE i # j
      BY <1>6, <3>2 DEF BlipSwallowed, SwallowedPc, AfterTeardownStep
    <3>3. QED
      BY <3>1, <3>2
  <2>3. AnchorBeforeRestore' /\ EvidenceBeforeSuccess' /\ SucceededWasRestored'
    BY <1>6 DEF BlipSwallowed, SwallowedPc, AfterTeardownStep
  <2>4. QED
    BY <2>1, <2>2, <2>3
<1>7. QED
  BY <1>1, <1>2, <1>3, <1>4, <1>5, <1>6 DEF Fails

\* Every step of the system keeps the causal order.
LEMMA CausalNext ==
    ASSUME TypeOK, Causality, [Next]_vars
    PROVE  Causality'
<1> Tables
  BY DEF TypeOK
<1>1. CASE Enqueue
  <2>1. CASE SeedSteps
    <3>1. \A s \in StepName : step'[s] = "succeeded" => step[s] = "succeeded"
      BY <2>1 DEF SeedSteps
    <3>2. {"provision", "fetch", "restore", "report"} \subseteq StepName
      BY DEF StepName
    <3>3. QED
      BY <2>1, <3>1, <3>2 DEF SeedSteps
  <2>2. CASE InsertProvision
    <3>1. PICK n \in Jobs :
            /\ jstate[n] = "free"
            /\ jstate' = [jstate EXCEPT ![n] = "available"]
            /\ kind' = [kind EXCEPT ![n] = "provision"]
            /\ reason' = [reason EXCEPT ![n] = "none"]
      BY <2>2 DEF InsertProvision, Insert
    <3>2. UNCHANGED <<drillVars, rowVars, sbVars, pc, localVars, envVars, outVars>>
      BY <2>2 DEF InsertProvision
    <3>3. ASSUME NEW i \in Jobs PROVE JobFacts(i)' /\ PcFacts(i)'
      <4>1. CASE i = n
        BY <3>1, <3>2, <4>1
      <4>2. CASE i # n
        BY <3>1, <3>2, <4>2
      <4>3. QED
        BY <4>1, <4>2
    <3>4. StepFacts' /\ AnchorBeforeRestore' /\ EvidenceBeforeSuccess' /\ SucceededWasRestored'
      BY <3>2
    <3>5. QED
      BY <3>3, <3>4
  <2>3. QED
    BY <1>1, <2>1, <2>2 DEF Enqueue
<1>2. CASE EnqueueFails
  BY <1>2 DEF EnqueueFails
<1>3. CASE Regenerate
  <2>1. CASE RegenRead
    BY <2>1 DEF RegenRead
  <2>2. CASE RegenFinalize
    BY <2>2 DEF RegenFinalize
  <2>3. CASE RegenMarkEvidence
    <3>1. ASSUME NEW j \in Jobs PROVE JobFacts(j)' /\ PcFacts(j)'
      BY <2>3 DEF RegenMarkEvidence
    <3>2. StepFacts' /\ AnchorBeforeRestore' /\ EvidenceBeforeSuccess' /\ SucceededWasRestored'
      BY <2>3 DEF RegenMarkEvidence
    <3>3. QED
      BY <3>1, <3>2
  <2>4. QED
    BY <1>3, <2>1, <2>2, <2>3 DEF Regenerate
<1>4. ASSUME NEW j \in Jobs, Worker(j) PROVE Causality'
  <2>1. CASE Claim(j)
    BY <2>1 DEF Claim
  <2>2. CASE Complete(j)
    BY ZenonT(20), <2>2 DEF Complete, Forgotten, Ended
  <2>3. QED
    BY <1>4, <2>1, <2>2, CausalStepWork, CausalTeardownWork DEF Worker
<1>5. ASSUME NEW j \in Jobs, Timeout(j) PROVE Causality'
  BY <1>5 DEF Timeout
<1>6. CASE Crash
  BY ZenonT(20), <1>6 DEF Crash, Errored, Forgotten, Ended
<1>7. CASE DumpVanishes
  BY <1>7 DEF DumpVanishes
<1>8. CASE UNCHANGED vars
  BY <1>8 DEF vars
<1>9. QED
  BY <1>1, <1>2, <1>3, <1>4, <1>5, <1>6, <1>7, <1>8, CausalFails DEF Next

\* The order of a drill's steps survives every retry, duplication, timeout, crash
\* and failed statement: Causality is invariant.
THEOREM StepsInOrder == Spec => []Causality
<1>1. Init => Causality
  <2> SUFFICES ASSUME Init PROVE Causality
    OBVIOUS
  <2>1. \A j \in Jobs : JobFacts(j) /\ PcFacts(j)
    BY DEF Init
  <2>2. StepFacts
    BY DEF Init, StepName
  <2>3. AnchorBeforeRestore /\ EvidenceBeforeSuccess /\ SucceededWasRestored
    BY DEF Init
  <2>4. QED
    BY <2>1, <2>2, <2>3
<1>2. TypeOK /\ Causality /\ [Next]_vars => Causality'
  BY CausalNext
<1> HIDE DEF Causality
<1>3. QED
  BY <1>1, <1>2, TypeCorrect, PTL DEF Spec

\* A drill is never marked succeeded without an evidence path on its row.
THEOREM EvidenceIsRecorded == Spec => []EvidenceBeforeSuccess
<1>1. Causality => EvidenceBeforeSuccess
  OBVIOUS
<1> HIDE DEF Causality, EvidenceBeforeSuccess
<1>2. QED
  BY <1>1, StepsInOrder, PTL

\* A drill that is marked succeeded had its dump hashed and restored.
THEOREM SuccessMeansRestored == Spec => []SucceededWasRestored
<1>1. Causality => SucceededWasRestored
  OBVIOUS
<1> HIDE DEF Causality, SucceededWasRestored
<1>2. QED
  BY <1>1, StepsInOrder, PTL

\* No sandbox holds data before the dump's hash is on the drill's row.
THEOREM HashBeforeData == Spec => []AnchorBeforeRestore
<1>1. Causality => AnchorBeforeRestore
  OBVIOUS
<1> HIDE DEF Causality, AnchorBeforeRestore
<1>2. QED
  BY <1>1, StepsInOrder, PTL

\* Every job that rebuilds the sandbox handle finds the sandbox on the drill's row.
THEOREM SandboxIsRecorded == Spec => []SandboxRecorded
<1>1. TypeOK /\ Causality => SandboxRecorded
  BY DEF TypeOK, SandboxRecorded, StepName
<1> HIDE DEF Causality
<1>2. QED
  BY <1>1, StepsInOrder, TypeCorrect, PTL

\* Whatever fails, is retried or runs twice (steps.go): success means evidence, hash and a
\* finished restore, and the row names the sandbox of every worker that needs it.
THEOREM DrillIsSafe == Spec => []DrillSafe
<1>1. EvidenceBeforeSuccess /\ SucceededWasRestored /\ AnchorBeforeRestore /\ SandboxRecorded
        => DrillSafe
  BY DEF DrillSafe
<1> HIDE DEF EvidenceBeforeSuccess, SucceededWasRestored, AnchorBeforeRestore, SandboxRecorded
<1>2. QED
  BY <1>1, EvidenceIsRecorded, SuccessMeansRestored, HashBeforeData, SandboxIsRecorded, PTL

-----------------------------------------------------------------------------
(* A drill in which nothing fails.  At any time at most one of its jobs has  *)
(* work left (Busy), and the statement it is at says what the rows, the     *)
(* sandbox and the PDF hold (AtProvision to AtTeardown).  A statement moves *)
(* that job on (CourseStays), or inserts the next and ends (CourseHandsOver),*)
(* and only Notify leaves no busy job.                                      *)

HIDE DEF Tables, Causality, StepFacts, JobFacts, PcFacts, AnchorBeforeRestore,
         EvidenceBeforeSuccess, SucceededWasRestored

\* What no action but Insert, Complete and Notify changes when nothing fails.
Same == UNCHANGED <<kind, reason, jstate, dead, enq, regen, events, faults>>

\* The facts about the job that is at work.
LEMMA CourseAtStep ==
    ASSUME OnCourse, NEW j \in Jobs, Running(j, kind[j], pc[j]), pc[j] # "return",
           kind[j] # "teardown"
    PROVE  AtStep(j) /\ SignedRight
  BY DEF OnCourse, Busy

\* The one job at work when it is the teardown.
LEMMA CourseAtTeardown ==
    ASSUME OnCourse, NEW j \in Jobs, Running(j, kind[j], pc[j]), pc[j] # "return",
           kind[j] = "teardown"
    PROVE  AtTeardown(j) /\ SignedRight
  BY DEF OnCourse, Busy

\* A statement after which its job has another one to execute.
LEMMA CourseStays ==
    ASSUME TypeOK, OnCourse, NEW j \in Jobs, jstate[j] = "running", pc[j] # "return",
           NEW p, p # "return", pc' = [pc EXCEPT ![j] = p], Same, SignedRight',
           kind[j] = "teardown" => AtTeardown(j)', kind[j] # "teardown" => AtStep(j)'
    PROVE  OnCourse'
<1>1. Busy(j) /\ Busy(j)'
  BY DEF Busy, TypeOK, Same
<1>2. \A i \in Jobs : i # j => ~Busy(i)
  BY <1>1 DEF OnCourse
<1>3. \A i \in Jobs : i # j => ~Busy(i)'
  BY <1>2 DEF Busy, TypeOK, Same
<1>4. enq' = "done" /\ events' = <<>>
  BY <1>1 DEF OnCourse, Same
<1>5. faults' = 0 /\ regen' = "idle" /\ \A i \in Jobs : ~dead'[i]
  BY DEF OnCourse, Same
<1>6. kind'[j] = kind[j]
  BY DEF Same
<1> HIDE DEF Same
<1>7. QED
  BY <1>1, <1>3, <1>4, <1>5, <1>6 DEF OnCourse

\* The row River's insert takes, when its inserter has nothing left to do.
LEMMA InsertedRow ==
    ASSUME TypeOK, Causality, NEW j \in Jobs, jstate[j] = "running",
           NEW k, NEW r, Insert(k, r), pc' = [pc EXCEPT ![j] = "return"]
    PROVE  \E n \in Jobs :
              /\ kind'[n] = k /\ reason'[n] = r /\ jstate'[n] = "available" /\ pc'[n] = "check"
              /\ \A i \in Jobs : i \notin {n, j} => jstate'[i] = jstate[i] /\ pc'[i] = pc[i]
              /\ pc'[j] = "return"
<1>1. PICK n \in Jobs : /\ jstate[n] = "free"
                        /\ kind' = [kind EXCEPT ![n] = k] /\ reason' = [reason EXCEPT ![n] = r]
                        /\ jstate' = [jstate EXCEPT ![n] = "available"]
  BY DEF Insert
<1>2. n # j /\ pc[n] = "check"
  BY <1>1 DEF Causality, JobFacts
<1>3. QED
  BY <1>1, <1>2 DEF TypeOK

\* A statement that inserts the next job and is its own job's last.
LEMMA CourseHandsOver ==
    ASSUME TypeOK, OnCourse, NEW j \in Jobs, jstate[j] = "running", pc[j] # "return",
           UNCHANGED <<dead, enq, regen, events, faults>>, SignedRight',
           NEW n \in Jobs, jstate'[n] = "available", pc'[n] = "check",
           \A i \in Jobs : i \notin {n, j} => jstate'[i] = jstate[i] /\ pc'[i] = pc[i],
           pc'[j] = "return",
           kind'[n] = "teardown" => AtTeardown(n)', kind'[n] # "teardown" => AtStep(n)'
    PROVE  OnCourse'
<1>1. Busy(j)
  BY DEF Busy
<1>2. \A i \in Jobs : i # j => ~Busy(i)
  BY <1>1 DEF OnCourse
<1>3. \A i \in Jobs : i # n => ~Busy(i)'
  BY <1>2 DEF Busy
<1>4. Busy(n)'
  BY DEF Busy
<1>5. enq' = "done" /\ events' = <<>> /\ faults' = 0 /\ regen' = "idle" /\ \A i \in Jobs : ~dead'[i]
  BY <1>1 DEF OnCourse
<1>6. QED
  BY <1>3, <1>4, <1>5 DEF OnCourse

\* The steps in their order (AllSteps in store.go).
LEMMA OrdinalValues ==
    /\ Ordinal["provision"] = 1 /\ Ordinal["fetch"] = 2 /\ Ordinal["restore"] = 3
    /\ Ordinal["assert"] = 4 /\ Ordinal["report"] = 5 /\ Ordinal["teardown"] = 6
  BY DEF StepName, Ordinal

\* Results and PDF are as they were.
LEMMA SignedKept ==
    ASSUME SignedRight, UNCHANGED <<signed, results, truth>>
    PROVE  SignedRight'
  BY DEF SignedRight, Recorded

\* The statements every step worker has.
LEMMA CourseCommon ==
    ASSUME TypeOK, Causality, OnCourse, NEW j \in Jobs,
           CheckStep(j) \/ MarkDrillRunning(j) \/ MarkStepRunning(j) \/ Lookup(j)
             \/ MarkStepSucceeded(j)
    PROVE  OnCourse'
<1>0. kind[j] # "teardown" /\ jstate[j] = "running" /\ pc[j] # "return"
  <2>1. kind[j] = "teardown" => AtTeardown(j)
    BY CourseAtTeardown DEF CheckStep, MarkDrillRunning, MarkStepRunning, Lookup, MarkStepSucceeded
  <2>2. QED
    BY <2>1 DEF AtTeardown, CheckStep, MarkDrillRunning, MarkStepRunning, Lookup, MarkStepSucceeded
<1>1. AtStep(j) /\ SignedRight
  BY <1>0, CourseAtStep
<1>2. kind[j] \in StepName /\ pc[j] \in Pc
  BY DEF TypeOK
<1>a. CASE CheckStep(j)
  <2>1. step[kind[j]] # "succeeded"
    BY <1>a, <1>1 DEF CheckStep, AtStep, Ahead
  <2>2. PICK p : /\ pc' = [pc EXCEPT ![j] = p]
                 /\ p = IF kind[j] = "provision" THEN "markdrill" ELSE "markstep"
    BY <1>a, <2>1 DEF CheckStep
  <2>3. SignedRight'
    BY <1>a, <1>1, SignedKept DEF CheckStep
  <2>4. AtStep(j)'
    BY <1>a, <1>1, <1>2, <2>2 DEF CheckStep, AtStep, Ahead, AtProvision, AtFetch, AtRestore, AtAssert,
         AtReport, Ready, Recorded, TypeOK
  <2>5. QED
    BY <1>0, <1>a, <2>2, <2>3, <2>4, CourseStays DEF CheckStep, Same
<1>b. CASE MarkDrillRunning(j)
  <2>1. SignedRight'
    BY <1>b, <1>1, SignedKept DEF MarkDrillRunning
  <2>2. AtStep(j)'
    BY <1>b, <1>1, <1>2 DEF MarkDrillRunning, AtStep, Ahead, AtProvision, TypeOK
  <2>3. QED
    BY <1>0, <1>b, <2>1, <2>2, CourseStays DEF MarkDrillRunning, Same
<1>c. CASE MarkStepRunning(j)
  <2>1. SignedRight'
    BY <1>c, <1>1, SignedKept DEF MarkStepRunning
  <2>2. PICK p : /\ pc' = [pc EXCEPT ![j] = p]
                 /\ p = IF kind[j] = "provision" THEN "work"
                        ELSE IF kind[j] = "report" THEN "read" ELSE "lookup"
    BY <1>c DEF MarkStepRunning
  <2>3. Ahead(j)'
    BY <1>c, <1>1, <1>2, <2>2 DEF MarkStepRunning, AtStep, Ahead, TypeOK
  <2>4. AtStep(j)'
    BY <1>c, <1>1, <1>2, <2>2, <2>3 DEF MarkStepRunning, AtStep, AtProvision, AtFetch, AtRestore, AtAssert,
         AtReport, Ready, Recorded, TypeOK
  <2>5. QED
    BY <1>0, <1>c, <2>1, <2>2, <2>4, CourseStays DEF MarkStepRunning, Same
<1>d. CASE Lookup(j)
  <2>1. SignedRight'
    BY <1>d, <1>1, SignedKept DEF Lookup
  <2>2. PICK p : /\ pc' = [pc EXCEPT ![j] = p]
                 /\ p = IF kind[j] = "assert" THEN "clear" ELSE "work"
    BY <1>d DEF Lookup
  <2>4. AtStep(j)'
    BY <1>d, <1>1, <1>2, <2>2 DEF Lookup, AtStep, Ahead, AtProvision, AtFetch, AtRestore, AtAssert,
         AtReport, Ready, Recorded, TypeOK, CleanupPc
  <2>5. QED
    BY <1>0, <1>d, <2>1, <2>2, <2>4, CourseStays DEF Lookup, Same
<1>e. CASE MarkStepSucceeded(j)
  <2>1. SignedRight'
    BY <1>e, <1>1, SignedKept DEF MarkStepSucceeded
  <2>2. PICK p : /\ pc' = [pc EXCEPT ![j] = p]
                 /\ p = IF kind[j] = "report" /\ verdict[j] = "FAILED" THEN "verdict" ELSE "chain"
    BY <1>e DEF MarkStepSucceeded
  <2>3. Ahead(j)'
    <3>1. \A s \in StepName : Ordinal[s] > Ordinal[kind[j]] => s # kind[j]
      BY <1>2, StepOrder
    <3>2. \A s \in StepName : Ordinal[s] > Ordinal[kind[j]] => step'[s] = step[s]
      BY <1>e, <3>1 DEF MarkStepSucceeded, TypeOK
    <3>3. QED
      BY <1>e, <1>1, <2>2, <3>2 DEF MarkStepSucceeded, AtStep, Ahead, TypeOK
  <2>4. AtStep(j)'
    BY <1>e, <1>1, <1>2, <2>2, <2>3 DEF MarkStepSucceeded, AtStep, AtProvision, AtFetch, AtRestore, AtAssert,
         AtReport, Ready, Recorded, TypeOK
  <2>5. QED
    BY <1>0, <1>e, <2>1, <2>2, <2>4, CourseStays DEF MarkStepSucceeded, Same
<1>f. QED
  BY <1>a, <1>b, <1>c, <1>d, <1>e

\* Provision and fetch.
LEMMA CourseProvisionFetch ==
    ASSUME TypeOK, Causality, OnCourse, NEW j \in Jobs,
           \/ ProvisionLocal(j) \/ ProvisionFly(j) \/ ProvisionFails(j) \/ SetSandboxDB(j)
           \/ Fetch(j) \/ SetSourceHash(j) \/ ChainAlreadyFetched(j)
           \/ ChainAlreadyFetchedFails(j)
    PROVE  OnCourse'
<1> USE DEF ProvisionLocal, ProvisionFly, ProvisionFails, SetSandboxDB, Fetch, SetSourceHash,
            ChainAlreadyFetched, ChainAlreadyFetchedFails
<1>0. kind[j] \in {"provision", "fetch"} /\ jstate[j] = "running" /\ pc[j] # "return"
  OBVIOUS
<1>1. AtStep(j) /\ SignedRight
  BY <1>0, CourseAtStep
<1>2. signed = "none"
  BY <1>0, <1>1 DEF AtStep
<1>3. SignedRight'
  BY <1>2 DEF SignedRight
<1>4. pc[j] # "refetch"
  BY <1>0, <1>1 DEF AtStep, AtProvision, AtFetch, CleanupPc
<1>5. Same /\ UNCHANGED <<status, step, signed, results, truth>>
  BY <1>4 DEF Same
<1>a. CASE ProvisionLocal(j) \/ ProvisionFly(j)
  <2>1. PICK s \in SandboxId : Created(j, s)
    BY <1>a DEF Created
  <2>2. live = {} /\ AtProvision(j) /\ kind[j] = "provision"
    BY <1>a, <1>1 DEF AtStep, AtProvision
  <2>3. /\ pc'[j] = "persist" /\ held'[j] = s /\ live' = {s}
        /\ content'[s] = "empty"
    BY <2>1, <2>2 DEF Created, TypeOK
  <2>4. AtProvision(j)'
    BY <1>a, <2>2, <2>3, <1>5 DEF AtProvision
  <2>5. AtStep(j)'
    BY <1>a, <2>2, <2>3, <2>4, <1>1, <1>2, <1>5 DEF AtStep, Ahead, Same
  <2>6. QED
    BY <1>0, <2>1, <1>3, <1>5, <2>5, CourseStays DEF Created
<1>b. CASE ProvisionFails(j)
  <2>2. live' = {} /\ AtProvision(j) /\ kind[j] = "provision"
    BY <1>b, <1>1 DEF AtStep, AtProvision
  <2>4. AtProvision(j)'
    BY <1>b, <2>2, <1>5 DEF AtProvision, CleanupPc, TypeOK
  <2>5. AtStep(j)'
    BY <1>b, <2>2, <2>4, <1>1, <1>2, <1>5 DEF AtStep, Ahead, Same, TypeOK
  <2>6. QED
    BY <1>0, <1>b, <1>3, <1>5, <2>5, CourseStays
<1>c. CASE SetSandboxDB(j)
  <2>4. AtProvision(j)'
    BY <1>c, <1>1, <1>5 DEF AtStep, AtProvision, TypeOK, Ready
  <2>5. AtStep(j)'
    BY <1>c, <2>4, <1>1, <1>2, <1>5 DEF AtStep, Ahead, Same, TypeOK
  <2>6. QED
    BY <1>0, <1>c, <1>3, <1>5, <2>5, CourseStays
<1>d. CASE Fetch(j)
  <2>1. PICK p \in {"persist", "failstep"} : pc' = [pc EXCEPT ![j] = p]
    BY <1>d
  <2>4. AtFetch(j)'
    BY <1>d, <1>1, <1>5, <2>1 DEF AtStep, AtFetch, TypeOK, Ready, CleanupPc
  <2>5. AtStep(j)'
    BY <1>d, <2>1, <2>4, <1>1, <1>2, <1>5 DEF AtStep, Ahead, Same, TypeOK
  <2>6. QED
    BY <1>0, <1>d, <1>3, <1>5, <2>1, <2>5, CourseStays
<1>e. CASE SetSourceHash(j)
  <2>4. AtFetch(j)'
    BY <1>e, <1>1, <1>5 DEF AtStep, AtFetch, TypeOK, Ready
  <2>5. AtStep(j)'
    BY <1>e, <2>4, <1>1, <1>2, <1>5 DEF AtStep, Ahead, Same, TypeOK
  <2>6. QED
    BY <1>0, <1>e, <1>3, <1>5, <2>5, CourseStays
<1>f. QED
  BY <1>4, <1>a, <1>b, <1>c, <1>d, <1>e

\* Restore.
LEMMA CourseRestore ==
    ASSUME TypeOK, Causality, OnCourse, NEW j \in Jobs,
           RestoreBegin(j) \/ RestoreEnd(j) \/ RestoreFails(j)
    PROVE  OnCourse'
<1> USE DEF RestoreBegin, RestoreEnd, RestoreFails
<1>0. kind[j] = "restore" /\ jstate[j] = "running" /\ pc[j] \in {"work", "restoring"}
  OBVIOUS
<1>1. AtStep(j) /\ SignedRight
  BY <1>0, CourseAtStep
<1>2. signed = "none" /\ AtRestore(j)
  BY <1>0, <1>1 DEF AtStep
<1>3. SignedRight'
  BY <1>2 DEF SignedRight
<1>5. Same /\ UNCHANGED <<status, step, sandbox, signed, results, truth, held, live>>
  BY DEF Same
<1>6. sandbox \in SandboxId /\ live = {sandbox} /\ held[j] = sandbox
  BY <1>0, <1>2 DEF AtRestore
<1>a. CASE RestoreBegin(j)
  <2>1. content'[sandbox] = "loading" /\ pc'[j] = "restoring"
    BY <1>a, <1>2, <1>6 DEF AtRestore, Ready, TypeOK
  <2>2. AtRestore(j)'
    BY <1>2, <1>5, <1>6, <2>1 DEF AtRestore, Ready
  <2>3. AtStep(j)'
    BY <1>0, <1>1, <1>2, <1>5, <2>1, <2>2 DEF AtStep, Ahead, Same
  <2>4. QED
    BY <1>0, <1>a, <1>3, <1>5, <2>3, CourseStays
<1>b. CASE RestoreEnd(j)
  <2>1. content'[sandbox] = "restored" /\ pc'[j] = "succeed"
    BY <1>b, <1>2, <1>6 DEF AtRestore, Ready, TypeOK
  <2>2. AtRestore(j)'
    BY <1>2, <1>5, <1>6, <2>1 DEF AtRestore, Ready
  <2>3. AtStep(j)'
    BY <1>0, <1>1, <1>2, <1>5, <2>1, <2>2 DEF AtStep, Ahead, Same
  <2>4. QED
    BY <1>0, <1>b, <1>3, <1>5, <2>3, CourseStays
<1>c. CASE RestoreFails(j)
  <2>1. pc'[j] = "failstep"
    BY <1>c DEF TypeOK
  <2>2. AtRestore(j)'
    BY <1>2, <1>5, <1>6, <2>1 DEF AtRestore, Ready, CleanupPc
  <2>3. AtStep(j)'
    BY <1>0, <1>1, <1>2, <1>5, <2>1, <2>2 DEF AtStep, Ahead, Same
  <2>4. QED
    BY <1>0, <1>c, <1>3, <1>5, <2>3, CourseStays
<1>d. QED
  BY <1>a, <1>b, <1>c

\* One more row with the answer the dump deserves.
LEMMA RecordedAppend ==
    ASSUME TypeOK, NEW n \in 1..NumAssertions, Recorded(n - 1), NEW b \in BOOLEAN, b = truth[n],
           results' = Append(results, [n |-> n, passed |-> b]), truth' = truth
    PROVE  Recorded(n)'
<1>1. Len(results) = n - 1 /\ n \in Nat /\ n - 1 \in Nat
  BY PipelineAssumption DEF Recorded
<1>2. Len(results') = n /\ results'[n] = [n |-> n, passed |-> b]
  BY <1>1 DEF TypeOK
<1>3. \A i \in 1..(n - 1) : results'[i] = results[i]
  BY <1>1 DEF TypeOK
<1>4. results'[n].passed = b
  BY <1>2
<1>5. \A i \in 1..n : i = n \/ i \in 1..(n - 1)
  BY <1>1
<1>6. ASSUME NEW i \in 1..n PROVE results'[i].passed = truth'[i]
  BY <1>3, <1>4, <1>5 DEF Recorded
<1>7. QED
  BY <1>2, <1>6 DEF Recorded

\* Assert.
LEMMA CourseAssert ==
    ASSUME TypeOK, Causality, OnCourse, NEW j \in Jobs,
           \/ ClearAssertionResults(j) \/ ConnectSandbox(j) \/ RunAssertion(j)
           \/ RunAssertionFails(j)
    PROVE  OnCourse'
<1> USE DEF ClearAssertionResults, ConnectSandbox, RunAssertion, RunAssertionFails
<1>0. kind[j] = "assert" /\ jstate[j] = "running" /\ pc[j] \in {"clear", "connect", "assert"}
  OBVIOUS
<1>1. AtStep(j) /\ SignedRight
  BY <1>0, CourseAtStep
<1>2. signed = "none" /\ AtAssert(j)
  BY <1>0, <1>1 DEF AtStep
<1>3. SignedRight'
  BY <1>2 DEF SignedRight
<1>5. Same /\ UNCHANGED <<status, step, sandbox, signed, truth, held, live, content>>
  BY DEF Same
<1>6. status' = "running" /\ Ready("restored")' /\ Ready("restored") /\ held[j] = sandbox
  BY <1>0, <1>2, <1>5 DEF AtAssert, Ready
<1>a. CASE ClearAssertionResults(j)
  <2>1. results' = <<>> /\ pc'[j] = "connect"
    BY <1>a DEF TypeOK
  <2>2. AtAssert(j)'
    BY <1>5, <1>6, <2>1 DEF AtAssert
  <2>3. AtStep(j)'
    BY <1>0, <1>1, <1>2, <1>5, <2>1, <2>2 DEF AtStep, Ahead, Same
  <2>4. QED
    BY <1>0, <1>a, <1>3, <1>5, <2>3, CourseStays
<1>b. CASE ConnectSandbox(j)
  <2>1. PICK p \in {"succeed", "assert"} : /\ pc' = [pc EXCEPT ![j] = p]
                                           /\ p = "succeed" <=> NumAssertions = 0
    BY <1>b
  <2>2. idx'[j] = 1 /\ pc'[j] = p /\ results' = <<>>
    BY <1>b, <2>1, <1>2 DEF TypeOK, AtAssert
  <2>3. Recorded(0)'
    BY <2>2 DEF Recorded
  <2>4. p = "assert" => idx'[j] \in 1..NumAssertions /\ Recorded(idx[j] - 1)'
    <3>1. p = "assert" => 1 \in 1..NumAssertions
      BY <2>1, PipelineAssumption
    <3>2. QED
      BY <3>1, <2>2, <2>3
  <2>5. p = "succeed" => Recorded(NumAssertions)'
    BY <2>1, <2>3
  <2>6. AtAssert(j)'
    BY <1>5, <1>6, <2>1, <2>2, <2>4, <2>5 DEF AtAssert
  <2>7. AtStep(j)'
    BY <1>0, <1>1, <1>2, <1>5, <2>1, <2>2, <2>6 DEF AtStep, Ahead, Same
  <2>8. QED
    BY <1>0, <2>1, <1>3, <1>5, <2>7, CourseStays
<1>c. CASE RunAssertion(j)
  <2>1. PICK p \in {"succeed", "assert"} : /\ pc' = [pc EXCEPT ![j] = p]
                                           /\ p = "succeed" <=> idx[j] = NumAssertions
    BY <1>c
  <2>2. idx[j] \in 1..NumAssertions /\ Recorded(idx[j] - 1) /\ content[held[j]] = "restored"
    BY <1>c, <1>2, <1>6 DEF AtAssert, Ready
  <2>3. PICK n \in 1..NumAssertions : n = idx[j]
    BY <2>2
  <2>4. PICK b \in BOOLEAN : b = truth[n] /\ results' = Append(results, [n |-> n, passed |-> b])
    BY <1>c, <2>2, <2>3
  <2>5. Recorded(n)'
    BY <2>2, <2>3, <2>4, <1>5, RecordedAppend
  <2>6. idx'[j] = n + 1 /\ pc'[j] = p /\ n \in Nat
    BY <1>c, <2>1, <2>3, PipelineAssumption DEF TypeOK
  <2>7. Recorded(idx[j] - 1)'
    <3>1. idx'[j] - 1 = n
      BY <2>6
    <3>2. QED
      BY <3>1, <2>5
  <2>8. p = "assert" => idx'[j] \in 1..NumAssertions
    BY <2>1, <2>3, <2>6, PipelineAssumption
  <2>9. p = "succeed" => Recorded(NumAssertions)'
    BY <2>1, <2>3, <2>5
  <2>10. AtAssert(j)'
    BY <1>5, <1>6, <2>1, <2>6, <2>7, <2>8, <2>9 DEF AtAssert
  <2>11. AtStep(j)'
    BY <1>0, <1>1, <1>2, <1>5, <2>1, <2>6, <2>10 DEF AtStep, Ahead, Same
  <2>12. QED
    BY <1>0, <2>1, <1>3, <1>5, <2>11, CourseStays
<1>d. CASE RunAssertionFails(j)
  <2>1. pc'[j] = "failstep"
    BY <1>d DEF TypeOK
  <2>2. AtAssert(j)'
    BY <1>2, <1>5, <1>6, <2>1 DEF AtAssert, CleanupPc
  <2>3. AtStep(j)'
    BY <1>0, <1>1, <1>2, <1>5, <2>1, <2>2 DEF AtStep, Ahead, Same
  <2>4. QED
    BY <1>0, <1>d, <1>3, <1>5, <2>3, CourseStays
<1>e. QED
  BY <1>a, <1>b, <1>c, <1>d

\* What a PDF rendered from complete results says.
LEMMA RenderedFrom ==
    ASSUME TypeOK, Recorded(NumAssertions), NEW v, v = Rendered(AllPassed(results), results)
    PROVE  /\ v \in Verdict
           /\ v = "FAILED" <=> \E i \in 1..NumAssertions : ~truth[i]
           /\ v # "FAILED" => v = IF NumAssertions = 0 THEN "RESTORED" ELSE "PASSED"
           /\ [i \in DOMAIN results |-> results[i].passed] = truth
<1>1. DOMAIN results = 1..NumAssertions /\ (results = <<>> <=> NumAssertions = 0)
  BY PipelineAssumption DEF TypeOK, Recorded
<1>2. AllPassed(results) <=> \A i \in 1..NumAssertions : truth[i]
  BY <1>1 DEF AllPassed, Recorded, TypeOK
<1>3. [i \in DOMAIN results |-> results[i].passed] = truth
  BY <1>1 DEF Recorded, TypeOK
<1>4. QED
  BY <1>1, <1>2, <1>3 DEF Rendered, Verdict

\* Report.
LEMMA CourseReport ==
    ASSUME TypeOK, Causality, OnCourse, NEW j \in Jobs,
           ListAssertions(j) \/ Finalize(j) \/ MarkEvidence(j) \/ ReportMarkDrillFailed(j)
    PROVE  OnCourse'
<1> USE DEF ListAssertions, Finalize, MarkEvidence, ReportMarkDrillFailed
<1>0. kind[j] = "report" /\ jstate[j] = "running"
      /\ pc[j] \in {"read", "finalize", "evidence", "verdict"}
  OBVIOUS
<1>1. AtStep(j) /\ SignedRight
  BY <1>0, CourseAtStep
<1>2. AtReport(j) /\ status = "running" /\ live \subseteq {sandbox} /\ Recorded(NumAssertions)
  BY <1>0, <1>1 DEF AtStep, AtReport
<1>3. Same /\ UNCHANGED <<step, sandbox, truth, live, results>>
  BY DEF Same
<1>4. Recorded(NumAssertions)' /\ live' \subseteq {sandbox'}
  BY <1>2, <1>3 DEF Recorded
<1>5. AllPassed(results)' = AllPassed(results)
  BY <1>3
<1>6. Rendered(AllPassed(results), results)' = Rendered(AllPassed(results), results)
  BY <1>3
<1>7. ASSUME AtReport(j)', SignedRight', pc'[j] # "check", NEW p, p # "return", pc' = [pc EXCEPT ![j] = p]
      PROVE  OnCourse'
  <2>1. AtStep(j)'
    BY <1>0, <1>1, <1>3, <1>7 DEF AtStep, Ahead, Same
  <2>2. QED
    BY <1>0, <1>3, <1>7, <2>1, CourseStays
<1>a. CASE ListAssertions(j)
  <2>1. pc'[j] = "finalize" /\ verdict'[j] = Rendered(AllPassed(results), results) /\ status' = "running"
    BY <1>a, <1>2 DEF TypeOK
  <2>2. signed' = "none"
    BY <1>a, <1>2 DEF AtReport
  <2>3. AtReport(j)'
    BY <1>4, <1>6, <2>1, <2>2 DEF AtReport
  <2>4. QED
    BY <1>7, <1>a, <2>1, <2>2, <2>3 DEF SignedRight
<1>b. CASE Finalize(j)
  <2>1. pc'[j] = "evidence" /\ verdict' = verdict /\ status' = "running" /\ signed' = verdict[j]
    BY <1>b, <1>2 DEF TypeOK
  <2>2. verdict[j] = Rendered(AllPassed(results), results)
    BY <1>b, <1>2 DEF AtReport
  <2>3. AtReport(j)'
    BY <1>4, <1>6, <2>1, <2>2 DEF AtReport
  <2>4. SignedRight'
    BY <1>4, <1>6, <2>1, <2>2 DEF SignedRight
  <2>5. QED
    BY <1>7, <1>b, <2>1, <2>3, <2>4
<1>c. CASE MarkEvidence(j)
  <2>1. pc'[j] = "succeed" /\ verdict' = verdict /\ status' = "running" /\ signed' = signed
    BY <1>c, <1>2 DEF TypeOK
  <2>2. verdict[j] = Rendered(AllPassed(results), results) /\ signed = verdict[j]
    BY <1>c, <1>2 DEF AtReport
  <2>3. AtReport(j)'
    BY <1>4, <1>6, <2>1, <2>2 DEF AtReport
  <2>4. SignedRight'
    BY <1>1, <1>3, <2>1, SignedKept
  <2>5. QED
    BY <1>7, <1>c, <2>1, <2>3, <2>4
<1>d. CASE ReportMarkDrillFailed(j)
  <2>1. pc'[j] = "chain" /\ verdict' = verdict /\ status' = "failed" /\ signed' = signed
    BY <1>d DEF TypeOK
  <2>2. /\ verdict[j] = Rendered(AllPassed(results), results) /\ signed = verdict[j]
        /\ verdict[j] = "FAILED"
    BY <1>d, <1>2 DEF AtReport
  <2>3. AtReport(j)'
    BY <1>4, <1>6, <2>1, <2>2 DEF AtReport
  <2>4. SignedRight'
    BY <1>1, <1>3, <2>1, SignedKept
  <2>5. QED
    BY <1>7, <1>d, <2>1, <2>3, <2>4
<1>e. QED
  BY <1>a, <1>b, <1>c, <1>d

\* failAndCleanup, and the insert of teardown.
LEMMA CourseCleanup ==
    ASSUME TypeOK, Causality, OnCourse, NEW j \in Jobs,
           MarkStepFailed(j) \/ MarkStepSkipped(j) \/ MarkStepSkippedDone(j) \/ InsertTeardown(j)
    PROVE  OnCourse'
<1> USE DEF MarkStepFailed, MarkStepSkipped, MarkStepSkippedDone, InsertTeardown
<1>0. jstate[j] = "running" /\ pc[j] \in CleanupPc /\ kind[j] \in StepName
  BY DEF CleanupPc, TypeOK
<1>1. kind[j] # "teardown"
  <2>1. kind[j] = "teardown" => AtTeardown(j)
    BY <1>0, CourseAtTeardown DEF CleanupPc
  <2>2. QED
    BY <1>0, <2>1 DEF AtTeardown, CleanupPc
<1>2. AtStep(j) /\ SignedRight
  BY <1>0, <1>1, CourseAtStep DEF CleanupPc
<1>3. kind[j] # "report" /\ signed = "none" /\ status = "running" /\ live \subseteq {sandbox}
  BY <1>0, <1>1, <1>2 DEF AtStep, AtProvision, AtFetch, AtRestore, AtAssert, AtReport, CleanupPc, Ready,
     StepName
<1>4. SignedRight'
  BY <1>3 DEF SignedRight
<1>5. UNCHANGED <<status, sandbox, signed, results, truth, live, content, dead, enq, regen, events, faults>>
  OBVIOUS
<1>a. CASE ~InsertTeardown(j)
  <2>1. PICK p \in CleanupPc : pc' = [pc EXCEPT ![j] = p]
    <3>1. CASE MarkStepSkipped(j)
      <4>1. pc' = [pc EXCEPT ![j] = "skip"]
        BY <3>1 DEF TypeOK
      <4>2. QED
        BY <4>1 DEF CleanupPc
    <3>2. QED
      BY <1>a, <3>1 DEF CleanupPc
  <2>2. Same
    BY <1>a DEF Same
  <2>3. \A s \in StepName : step[s] # "succeeded" => step'[s] # "succeeded"
    BY <1>a, <1>0 DEF TypeOK
  <2>4. pc'[j] = p
    BY <2>1 DEF TypeOK
  <2>5. Ahead(j)'
    BY <1>2, <2>2, <2>3, <2>4 DEF AtStep, Ahead, Same, CleanupPc
  <2>6. AtStep(j)'
    BY <1>0, <1>1, <1>2, <1>3, <1>5, <2>1, <2>2, <2>4, <2>5
      DEF AtStep, AtProvision, AtFetch, AtRestore, AtAssert, CleanupPc, Ready, Same
  <2>7. QED
    BY <1>0, <1>1, <1>4, <2>1, <2>2, <2>6, CourseStays DEF CleanupPc
<1>b. CASE InsertTeardown(j)
  <2>1. PICK k : k = "teardown"
    OBVIOUS
  <2>2. PICK r : r = kind[j]
    OBVIOUS
  <2>3. Insert(k, r) /\ pc' = [pc EXCEPT ![j] = "return"]
    BY <1>b, <2>1, <2>2
  <2>4. PICK n \in Jobs :
              /\ kind'[n] = k /\ reason'[n] = r /\ jstate'[n] = "available" /\ pc'[n] = "check"
              /\ \A i \in Jobs : i \notin {n, j} => jstate'[i] = jstate[i] /\ pc'[i] = pc[i]
              /\ pc'[j] = "return"
    BY <1>0, <2>3, InsertedRow
  <2>5. ReasonAgrees(n)'
    BY <1>0, <1>3, <1>5, <2>2, <2>4 DEF ReasonAgrees, StepName
  <2>6. AtTeardown(n)'
    BY <1>3, <1>5, <2>4, <2>5 DEF AtTeardown
  <2>7. QED
    BY <1>0, <1>4, <1>5, <2>1, <2>4, <2>6, CourseHandsOver DEF CleanupPc
<1>c. QED
  BY <1>a, <1>b

\* The insert of the next step's job.
LEMMA CourseChain ==
    ASSUME TypeOK, Causality, OnCourse, NEW j \in Jobs, Chain(j)
    PROVE  OnCourse'
<1>p. PICK k : k = AllSteps[Ordinal[kind[j]] + 1]
  OBVIOUS
<1>q. PICK r : r = IF kind[j] = "report" /\ verdict[j] = "FAILED" THEN "assertion_failed" ELSE "none"
  OBVIOUS
<1>0. jstate[j] = "running" /\ pc[j] = "chain" /\ kind[j] # "teardown" /\ kind[j] \in StepName
  BY DEF Chain, TypeOK
<1>1. AtStep(j) /\ SignedRight
  BY <1>0, CourseAtStep
<1>2. \/ kind[j] = "provision" /\ k = "fetch"
      \/ kind[j] = "fetch" /\ k = "restore"
      \/ kind[j] = "restore" /\ k = "assert"
      \/ kind[j] = "assert" /\ k = "report"
      \/ kind[j] = "report" /\ k = "teardown"
  BY <1>p, <1>0, NextStep
<1>3. Insert(k, r) /\ pc' = [pc EXCEPT ![j] = "return"]
  BY <1>p, <1>q DEF Chain
<1>4. UNCHANGED <<status, sandbox, step, signed, results, truth, live, content, dead, enq, regen,
                  events, faults>>
  BY DEF Chain
<1>5. SignedRight'
  BY <1>1, <1>4, SignedKept
<1>6. k \in StepName /\ r \in Reason
  BY <1>q, <1>2 DEF StepName, Reason
<1>7. k # "teardown" => /\ signed = "none" /\ status = "running" /\ Ordinal[k] > Ordinal[kind[j]]
                        /\ \A s \in StepName : Ordinal[s] > Ordinal[k] => Ordinal[s] > Ordinal[kind[j]]
  <2>1. k # "teardown" => signed = "none" /\ status = "running"
    BY <1>0, <1>1, <1>2 DEF AtStep, AtProvision, AtFetch, AtRestore, AtAssert
  <2>2. Ordinal[k] > Ordinal[kind[j]]
    BY <1>2, OrdinalValues
  <2>3. \A s \in StepName : Ordinal[s] \in Nat
    BY StepOrder
  <2>4. QED
    BY <2>1, <2>2, <2>3, <1>0, <1>6
<1>8. PICK n \in Jobs :
          /\ kind'[n] = k /\ reason'[n] = r /\ jstate'[n] = "available" /\ pc'[n] = "check"
          /\ \A i \in Jobs : i \notin {n, j} => jstate'[i] = jstate[i] /\ pc'[i] = pc[i]
          /\ pc'[j] = "return"
  BY <1>0, <1>3, InsertedRow
<1>9. ASSUME k # "teardown" PROVE AtStep(n)'
  <2>1. Ahead(n)'
    BY <1>1, <1>4, <1>6, <1>7, <1>8, <1>9 DEF AtStep, Ahead
  <2>2. k = "fetch" => AtFetch(n)'
    BY <1>0, <1>1, <1>2, <1>4, <1>7, <1>8, <1>9 DEF AtStep, AtProvision, AtFetch, Ready
  <2>3. k = "restore" => AtRestore(n)'
    BY <1>0, <1>1, <1>2, <1>4, <1>7, <1>8, <1>9 DEF AtStep, AtFetch, AtRestore, Ready
  <2>4. k = "assert" => AtAssert(n)'
    BY <1>0, <1>1, <1>2, <1>4, <1>7, <1>8, <1>9 DEF AtStep, AtRestore, AtAssert, Ready
  <2>5. k = "report" => AtReport(n)'
    BY <1>0, <1>1, <1>2, <1>4, <1>7, <1>8, <1>9 DEF AtStep, AtAssert, AtReport, Ready, Recorded
  <2>6. QED
    BY <1>2, <1>4, <1>7, <1>8, <1>9, <2>1, <2>2, <2>3, <2>4, <2>5 DEF AtStep
<1>10. ASSUME k = "teardown" PROVE AtTeardown(n)'
  <2>1. kind[j] = "report" /\ AtReport(j)
    BY <1>1, <1>2, <1>8, <1>10 DEF AtStep
  <2>2. /\ live \subseteq {sandbox} /\ signed = verdict[j] /\ signed \in Verdict
        /\ status = IF verdict[j] = "FAILED" THEN "failed" ELSE "running"
    BY <1>0, <2>1, RenderedFrom DEF AtReport
  <2>3. ReasonAgrees(n)'
    BY <1>q, <1>4, <1>8, <1>10, <2>1, <2>2 DEF ReasonAgrees, StepName, Verdict
  <2>4. QED
    BY <1>4, <1>8, <1>10, <2>2, <2>3 DEF AtTeardown
<1>11. QED
  BY <1>0, <1>4, <1>5, <1>8, <1>9, <1>10, CourseHandsOver

\* The step workers.
LEMMA CourseStepWork ==
    ASSUME TypeOK, Causality, OnCourse, NEW j \in Jobs, StepWork(j)
    PROVE  OnCourse'
  BY CourseCommon, CourseChain, CourseProvisionFetch, CourseRestore, CourseAssert, CourseReport,
     CourseCleanup DEF StepWork

\* Teardown, up to its announcement.
LEMMA CourseTeardownWork ==
    ASSUME TypeOK, Causality, OnCourse, NEW j \in Jobs, TeardownWork(j)
    PROVE  OnCourse'
<1> USE DEF TeardownRead, ReportUsage, DestroySandbox, MarkTeardownStep,
            TeardownMarkDrillFailed, RereadEvidence, MarkDrillSucceeded, Notify
<1>0. kind[j] = "teardown" /\ jstate[j] = "running" /\ pc[j] # "return"
  BY DEF TeardownWork
<1>1. AtTeardown(j) /\ SignedRight
  BY <1>0, CourseAtTeardown
<1>2. UNCHANGED <<sandbox, signed, results, truth, kind, reason, jstate, dead, enq, regen, faults>>
  BY DEF TeardownWork
<1>3. SignedRight'
  BY <1>1, <1>2, SignedKept
<1>4. reason[j] \in Reason
  BY DEF TypeOK
<1>5. ASSUME events' = events, AtTeardown(j)', NEW p, p # "return", pc' = [pc EXCEPT ![j] = p]
      PROVE  OnCourse'
  BY <1>0, <1>2, <1>3, <1>5, CourseStays DEF Same
<1>a. CASE TeardownRead(j)
  <2>1. /\ pc'[j] = "meter" /\ held'[j] = sandbox /\ seen'[j] = status
        /\ UNCHANGED <<status, live, metered, events>>
    BY <1>a DEF TypeOK
  <2>2. ReasonAgrees(j)'
    BY <1>a, <1>1, <1>2, <2>1 DEF AtTeardown, ReasonAgrees
  <2>3. status = "failed" <=> reason[j] = "assertion_failed"
    BY <1>a, <1>1, <1>4 DEF AtTeardown, ReasonAgrees, Reason
  <2>4. AtTeardown(j)'
    BY <1>a, <1>1, <1>2, <2>1, <2>2, <2>3 DEF AtTeardown
  <2>5. QED
    BY <1>5, <1>a, <2>1, <2>4
<1>b. CASE ReportUsage(j)
  <2>1. /\ pc'[j] = "destroy" /\ metered' /\ UNCHANGED <<status, live, held, seen, events>>
    BY <1>b DEF TypeOK
  <2>2. ReasonAgrees(j)'
    BY <1>b, <1>1, <1>2, <2>1 DEF AtTeardown, ReasonAgrees
  <2>3. AtTeardown(j)'
    BY <1>b, <1>1, <1>2, <2>1, <2>2 DEF AtTeardown
  <2>4. QED
    BY <1>5, <1>b, <2>1, <2>3
<1>c. CASE DestroySandbox(j)
  <2>1. /\ pc'[j] = "tdok" /\ UNCHANGED <<status, held, seen, metered, events>>
    BY <1>c DEF TypeOK
  <2>2. ReasonAgrees(j)'
    BY <1>c, <1>1, <1>2, <2>1 DEF AtTeardown, ReasonAgrees
  <2>3. live \subseteq {sandbox} /\ held[j] = sandbox /\ metered
    BY <1>c, <1>1 DEF AtTeardown
  <2>4. live' = {}
    BY <1>c, <2>3, SandboxNotNone DEF TypeOK
  <2>5. AtTeardown(j)'
    BY <1>c, <1>1, <1>2, <2>1, <2>2, <2>3, <2>4 DEF AtTeardown
  <2>6. QED
    BY <1>5, <1>c, <2>1, <2>5
<1>d. CASE MarkTeardownStep(j)
  <2>1. pc[j] = "tdok"
    BY <1>d, <1>1 DEF AtTeardown
  <2>2. PICK p : p = AfterTeardownStep(j) /\ pc' = [pc EXCEPT ![j] = p]
    BY <1>d
  <2>3. \/ p = "tdverdict" /\ reason[j] # "none"
        \/ p = "reread" /\ reason[j] = "none"
    BY <1>1, <2>1, <2>2 DEF AfterTeardownStep, AtTeardown
  <2>4. /\ pc'[j] = p /\ UNCHANGED <<status, live, held, seen, metered, events>>
    BY <1>d, <2>2 DEF TypeOK
  <2>5. ReasonAgrees(j)'
    BY <1>1, <1>2, <2>1, <2>3, <2>4 DEF AtTeardown, ReasonAgrees
  <2>6. AtTeardown(j)'
    BY <1>1, <1>2, <2>1, <2>3, <2>4, <2>5 DEF AtTeardown
  <2>7. QED
    BY <1>5, <2>2, <2>3, <2>4, <2>6
<1>e. CASE TeardownMarkDrillFailed(j)
  <2>1. /\ pc[j] = "tdverdict" /\ pc'[j] = "notify" /\ status' = "failed"
        /\ UNCHANGED <<live, held, seen, metered, events>>
    BY <1>e DEF TypeOK
  <2>2. ReasonAgrees(j)'
    BY <1>1, <1>2, <2>1 DEF AtTeardown, ReasonAgrees
  <2>3. AtTeardown(j)'
    BY <1>1, <1>2, <2>1, <2>2 DEF AtTeardown
  <2>4. QED
    BY <1>5, <1>e, <2>1, <2>3
<1>f. CASE RereadEvidence(j)
  <2>1. /\ pc[j] = "reread" /\ pc'[j] = "success"
        /\ UNCHANGED <<status, live, held, seen, metered, events>>
    BY <1>f DEF TypeOK
  <2>2. ReasonAgrees(j)'
    BY <1>1, <1>2, <2>1 DEF AtTeardown, ReasonAgrees
  <2>3. AtTeardown(j)'
    BY <1>1, <1>2, <2>1, <2>2 DEF AtTeardown
  <2>4. QED
    BY <1>5, <1>f, <2>1, <2>3
<1>g. CASE MarkDrillSucceeded(j)
  <2>1. /\ pc[j] = "success" /\ pc'[j] = "notify" /\ status' = "succeeded"
        /\ UNCHANGED <<live, held, seen, metered, events>>
    BY <1>g DEF TypeOK
  <2>2. reason[j] = "none"
    BY <1>1, <1>4, <2>1 DEF AtTeardown, ReasonAgrees
  <2>3. ReasonAgrees(j)'
    BY <1>1, <1>2, <2>1, <2>2 DEF AtTeardown, ReasonAgrees, StepName
  <2>4. AtTeardown(j)'
    BY <1>1, <1>2, <2>1, <2>3 DEF AtTeardown
  <2>5. QED
    BY <1>5, <1>g, <2>1, <2>4
<1>h. CASE Notify(j)
  <2>1. /\ pc[j] = "notify" /\ pc' = [pc EXCEPT ![j] = "return"]
        /\ UNCHANGED <<status, live, metered>>
    BY <1>h
  <2>2. events = <<>> /\ enq = "done" /\ \A i \in Jobs : i # j => ~Busy(i)
    BY <1>0 DEF OnCourse, Busy
  <2>3. seen[j] = "failed" <=> reason[j] = "assertion_failed"
    BY <1>1, <2>1 DEF AtTeardown
  <2>4. events' = <<IF reason[j] # "none" THEN "drill.failed" ELSE "drill.completed">>
    BY <1>h, <2>2, <2>3
  <2>5. Over'
    <3>1. metered' /\ live' = {} /\ enq' = "done"
      BY <1>1, <1>2, <2>1, <2>2 DEF AtTeardown
    <3>2. CASE reason[j] = "none"
      <4>1. status' = "succeeded" /\ signed' \in {"PASSED", "RESTORED"}
        BY <1>1, <1>2, <2>1, <3>2 DEF AtTeardown, ReasonAgrees
      <4>2. QED
        BY <3>1, <3>2, <4>1, <2>4 DEF Over
    <3>3. CASE reason[j] # "none"
      <4>1. status' = "failed" /\ signed' \in {"none", "FAILED"}
        BY <1>1, <1>2, <1>4, <2>1, <3>3 DEF AtTeardown, ReasonAgrees, Reason
      <4>2. QED
        BY <3>1, <3>3, <4>1, <2>4 DEF Over
    <3>4. QED
      BY <3>2, <3>3
  <2>6. \A i \in Jobs : ~Busy(i)'
    BY <1>2, <2>1, <2>2 DEF Busy, TypeOK
  <2>7. QED
    BY <1>2, <1>3, <2>5, <2>6 DEF OnCourse
<1>i. QED
  BY <1>a, <1>b, <1>c, <1>d, <1>e, <1>f, <1>g, <1>h DEF TeardownWork

\* Nothing changed that a job's statement tells of.
LEMMA CourseKept ==
    ASSUME TypeOK, OnCourse,
           UNCHANGED <<drillVars, rowVars, sbVars, staffVars, truth, outVars, faults>>,
           \A i \in Jobs : ~dead'[i],
           \A i \in Jobs : Busy(i)' <=> Busy(i),
           \A i \in Jobs : Busy(i) => /\ kind'[i] = kind[i] /\ reason'[i] = reason[i]
                                      /\ pc'[i] = pc[i] /\ held'[i] = held[i]
                                      /\ seen'[i] = seen[i] /\ verdict'[i] = verdict[i]
                                      /\ idx'[i] = idx[i]
    PROVE  OnCourse'
<1>1. SignedRight'
  BY SignedKept DEF OnCourse
<1>2. ASSUME NEW i \in Jobs, Busy(i), kind[i] = "teardown", AtTeardown(i) PROVE AtTeardown(i)'
  BY <1>2 DEF AtTeardown, ReasonAgrees
<1>3. ASSUME NEW i \in Jobs, Busy(i), kind[i] # "teardown", AtStep(i) PROVE AtStep(i)'
  <2>1. Ahead(i)'
    BY <1>3 DEF AtStep, Ahead
  <2>2. kind[i] = "provision" => AtProvision(i)'
    BY <1>3 DEF AtStep, AtProvision, Ready
  <2>3. kind[i] = "fetch" => AtFetch(i)'
    BY <1>3 DEF AtStep, AtFetch, Ready
  <2>4. kind[i] = "restore" => AtRestore(i)'
    BY <1>3 DEF AtStep, AtRestore, Ready
  <2>5. kind[i] = "assert" => AtAssert(i)'
    BY <1>3 DEF AtStep, AtAssert, Ready, Recorded
  <2>6. kind[i] = "report" => AtReport(i)'
    BY <1>3 DEF AtStep, AtReport, Recorded
  <2>7. QED
    BY <1>3, <2>1, <2>2, <2>3, <2>4, <2>5, <2>6 DEF AtStep
<1>4. /\ Fresh' <=> Fresh
      /\ Over' <=> Over
  BY DEF Fresh, Over
<1>5. ASSUME NEW i \in Jobs, Busy(i)'
      PROVE  /\ enq' = "done" /\ events' = <<>>
             /\ kind'[i] = "teardown" => AtTeardown(i)'
             /\ kind'[i] # "teardown" => AtStep(i)'
  <2>1. Busy(i) /\ kind'[i] = kind[i]
    BY <1>5
  <2>2. QED
    BY <2>1, <1>2, <1>3 DEF OnCourse
<1>6. \A i, j \in Jobs : Busy(i)' /\ Busy(j)' => i = j
  BY DEF OnCourse
<1>7. (\A i \in Jobs : ~Busy(i)') => Fresh' \/ Over'
  BY <1>4 DEF OnCourse
<1>8. faults' = 0 /\ regen' = "idle"
  BY DEF OnCourse
<1>9. QED
  BY <1>1, <1>5, <1>6, <1>7, <1>8 DEF OnCourse

\* The starts and the ends of jobs: a claimed job goes on, a returned one is forgotten.
LEMMA CourseClaimComplete ==
    ASSUME TypeOK, Causality, OnCourse, NEW j \in Jobs, Claim(j) \/ Complete(j)
    PROVE  OnCourse'
<1>1. UNCHANGED <<drillVars, rowVars, sbVars, staffVars, truth, outVars, faults>>
  BY DEF Claim, Complete
<1>2. \A i \in Jobs : ~dead[i]
  BY DEF OnCourse
<1>a. CASE Claim(j)
  <2>1. \A i \in Jobs : Busy(i)' <=> Busy(i)
    BY <1>a DEF Claim, Busy, TypeOK
  <2>2. QED
    BY <1>1, <1>2, <1>a, <2>1, CourseKept DEF Claim
<1>b. CASE Complete(j)
  <2>1. \A i \in Jobs : ~dead'[i]
    BY <1>2, <1>b DEF Complete, Ended
  <2>2. \A i \in Jobs : i # j => /\ kind'[i] = kind[i] /\ reason'[i] = reason[i]
                                 /\ pc'[i] = pc[i] /\ held'[i] = held[i]
                                 /\ seen'[i] = seen[i] /\ verdict'[i] = verdict[i]
                                 /\ idx'[i] = idx[i] /\ jstate'[i] = jstate[i]
    BY <1>b DEF Complete, Ended, Forgotten, TypeOK
  <2>3. ~Busy(j) /\ jstate'[j] = "free"
    BY <1>b DEF Complete, Busy, TypeOK
  <2>4. \A i \in Jobs : Busy(i)' <=> Busy(i)
    BY <2>2, <2>3 DEF Busy
  <2>5. \A i \in Jobs : Busy(i) => /\ kind'[i] = kind[i] /\ reason'[i] = reason[i]
                                   /\ pc'[i] = pc[i] /\ held'[i] = held[i]
                                   /\ seen'[i] = seen[i] /\ verdict'[i] = verdict[i]
                                   /\ idx'[i] = idx[i]
    BY <2>2, <2>3
  <2>6. QED
    BY <1>1, <2>1, <2>4, <2>5, CourseKept
<1>c. QED
  BY <1>a, <1>b

\* EnqueueDrill.
LEMMA CourseEnqueue ==
    ASSUME TypeOK, Causality, OnCourse, Enqueue
    PROVE  OnCourse'
<1>0. enq # "done"
  BY DEF Enqueue, SeedSteps, InsertProvision
<1>1. Fresh /\ \A i \in Jobs : ~Busy(i)
  BY <1>0 DEF OnCourse, Over
<1>2. /\ UNCHANGED <<status, sandbox, signed, results, truth, live, pc, dead, regen, events, faults>>
      /\ signed' = "none"
  BY <1>1 DEF Enqueue, SeedSteps, InsertProvision, Fresh
<1>3. SignedRight'
  BY <1>2 DEF SignedRight
<1>a. CASE SeedSteps
  <2>1. \A i \in Jobs : ~Busy(i)'
    BY <1>1, <1>2, <1>a DEF SeedSteps, Busy
  <2>2. Fresh'
    BY <1>1, <1>2, <1>a DEF Fresh, SeedSteps, TypeOK
  <2>3. QED
    BY <1>2, <1>3, <2>1, <2>2 DEF OnCourse
<1>b. CASE InsertProvision
  <2>1. PICK n \in Jobs : /\ jstate[n] = "free" /\ kind' = [kind EXCEPT ![n] = "provision"]
                          /\ jstate' = [jstate EXCEPT ![n] = "available"]
    BY <1>b DEF InsertProvision, Insert
  <2>2. pc'[n] = "check" /\ kind'[n] = "provision" /\ jstate'[n] = "available"
    BY <1>2, <2>1 DEF Causality, JobFacts, TypeOK
  <2>3. \A i \in Jobs : i # n => ~Busy(i)'
    BY <1>1, <1>2, <2>1 DEF Busy, TypeOK
  <2>4. step' = step /\ enq' = "done"
    BY <1>b DEF InsertProvision
  <2>5. AtProvision(n)'
    BY <1>1, <1>2, <2>2 DEF Fresh, AtProvision
  <2>6. Ahead(n)'
    BY <1>1, <2>2, <2>4 DEF Fresh, Ahead, StepName
  <2>7. AtStep(n)'
    BY <1>2, <2>2, <2>5, <2>6 DEF AtStep
  <2>8. Busy(n)'
    BY <2>2 DEF Busy
  <2>9. events' = <<>>
    BY <1>1, <1>2 DEF Fresh
  <2>10. QED
    BY <1>2, <1>3, <2>2, <2>3, <2>4, <2>7, <2>8, <2>9 DEF OnCourse
<1>c. QED
  BY <1>a, <1>b DEF Enqueue

\* With the bounds of NothingFails no statement fails, no context expires, the server does not
\* die and nobody regenerates evidence.
LEMMA NoFaults ==
    ASSUME TypeOK, OnCourse, NothingFails
    PROVE  /\ ~EnqueueFails /\ ~Regenerate /\ ~Crash
           /\ \A j \in Jobs : ~Fails(j) /\ ~Timeout(j)
<1>1. \A f, n : n \in Nat \ {0} => ~Strike(f, n)
  BY DEF NothingFails, OnCourse, Strike
<1>2. 1 \in Nat \ {0} /\ 2 \in Nat \ {0}
  OBVIOUS
<1>3. ~EnqueueFails /\ ~Crash
  BY <1>1, <1>2 DEF EnqueueFails, Crash
<1>4. ~Regenerate
  BY DEF NothingFails, OnCourse, TypeOK, Regenerate, RegenRead, RegenFinalize, RegenMarkEvidence, Verdict
<1>5. ASSUME NEW j \in Jobs PROVE ~Fails(j) /\ ~Timeout(j)
  <2>1. ~dead[j]
    BY DEF OnCourse
  <2>2. ~Spend(j, 1) /\ ~Spend(j, 2)
    BY <1>1, <1>2, <2>1 DEF Spend
  <2>3. QED
    BY <1>1, <1>2, <2>2 DEF Fails, Timeout, FlyMachineStray, SetSandboxDBFails, DestroySandboxFails,
         BlipRaw, BlipFailing, BlipSwallowed
<1>6. QED
  BY <1>3, <1>4, <1>5

\* Every step of the drill keeps it on course: one case per action of Next.
LEMMA CourseNext ==
    ASSUME TypeOK, Causality, OnCourse, NothingFails, [Next]_vars
    PROVE  OnCourse'
<1>1. CASE Enqueue
  BY <1>1, CourseEnqueue
<1>2. ASSUME NEW j \in Jobs, Worker(j) PROVE OnCourse'
  BY <1>2, CourseClaimComplete, CourseStepWork, CourseTeardownWork DEF Worker
<1>3. ASSUME DumpVanishes \/ UNCHANGED vars PROVE OnCourse'
  <2>1. /\ UNCHANGED <<drillVars, rowVars, sbVars, staffVars, truth, outVars, faults>>
        /\ UNCHANGED <<jobVars, pc, localVars>>
    BY <1>3 DEF DumpVanishes, vars
  <2>2. \A i \in Jobs : Busy(i)' <=> Busy(i)
    BY <2>1 DEF Busy
  <2>3. \A i \in Jobs : ~dead'[i]
    BY <2>1 DEF OnCourse
  <2>4. QED
    BY <2>1, <2>2, <2>3, CourseKept
<1>4. QED
  BY <1>1, <1>2, <1>3, NoFaults DEF Next

\* When nothing fails the drill's jobs run one after the other, each finds what the one before
\* it left, and what rows and PDF say follows from the statement the drill is at.
THEOREM StaysOnCourse == NothingFails => (Spec => []OnCourse)
<1> SUFFICES ASSUME NothingFails PROVE Spec => []OnCourse
  OBVIOUS
<1>1. Init => OnCourse
  <2> SUFFICES ASSUME Init PROVE OnCourse
    OBVIOUS
  <2>1. \A j \in Jobs : ~Busy(j) /\ ~dead[j]
    BY DEF Init, Busy
  <2>2. Fresh
    BY DEF Init, Fresh
  <2>3. SignedRight /\ faults = 0 /\ regen = "idle"
    BY DEF Init, SignedRight
  <2>4. QED
    BY <2>1, <2>2, <2>3 DEF OnCourse
<1>2. TypeOK /\ Causality /\ OnCourse /\ [Next]_vars => OnCourse'
  BY CourseNext
<1>3. QED
  BY <1>1, <1>2, TypeCorrect, StepsInOrder, PTL DEF Spec

\* On its course a drill's row, PDF, data and announcement say the same.
LEMMA CourseAgrees ==
    ASSUME TypeOK, OnCourse
    PROVE  OutcomeAgrees
<1>1. \/ \E j \in Jobs : Busy(j)
      \/ Fresh \/ Over
  BY DEF OnCourse
<1>2. signed # "none" => /\ signed \in Verdict
                         /\ signed = "FAILED" <=> \E i \in 1..NumAssertions : ~truth[i]
                         /\ signed # "FAILED" => signed = IF NumAssertions = 0 THEN "RESTORED" ELSE "PASSED"
                         /\ [i \in DOMAIN results |-> results[i].passed] = truth
  BY RenderedFrom DEF OnCourse, SignedRight
<1>3. status = "succeeded" => signed \in {"PASSED", "RESTORED"}
  <2>1. ASSUME NEW j \in Jobs, Busy(j), status = "succeeded" PROVE signed \in {"PASSED", "RESTORED"}
    <3>1. kind[j] \in StepName /\ reason[j] \in Reason
      BY DEF TypeOK
    <3>2. CASE kind[j] = "teardown"
      BY <2>1, <3>1, <3>2 DEF OnCourse, AtTeardown, ReasonAgrees, Reason
    <3>3. CASE kind[j] # "teardown"
      <4>1. AtStep(j)
        BY <2>1, <3>3 DEF OnCourse
      <4>2. status # "succeeded"
        BY <3>1, <3>3, <4>1 DEF AtStep, AtProvision, AtFetch, AtRestore, AtAssert, AtReport, StepName
      <4>3. QED
        BY <2>1, <4>2
    <3>4. QED
      BY <3>2, <3>3
  <2>2. QED
    BY <1>1, <2>1 DEF Fresh, Over
<1>4. VerdictAgrees
  BY <1>2, <1>3 DEF VerdictAgrees
<1>5. OneTerminalEvent
  <2>1. CASE events = <<>>
    BY <2>1 DEF OneTerminalEvent
  <2>2. CASE Over
    <3>1. <<"drill.completed">> # <<"drill.failed">>
      OBVIOUS
    <3>2. Len(<<"drill.completed">>) <= 1 /\ Len(<<"drill.failed">>) <= 1
      OBVIOUS
    <3>3. CASE events = <<"drill.completed">> /\ status = "succeeded"
      BY <2>2, <3>1, <3>2, <3>3 DEF Over, OneTerminalEvent
    <3>4. CASE events = <<"drill.failed">> /\ status = "failed"
      BY <2>2, <3>1, <3>2, <3>4 DEF Over, OneTerminalEvent
    <3>5. QED
      BY <2>2, <3>3, <3>4 DEF Over
  <2>3. QED
    BY <1>1, <2>1, <2>2 DEF OnCourse, Fresh
<1>6. QED
  BY <1>4, <1>5 DEF OutcomeAgrees

\* When nothing fails (the report and teardown workers), a drill succeeds only if every
\* assertion holds of its dump, its PDF says what its results say, and it is announced once,
\* with its status, after it was metered and its sandbox destroyed.
THEOREM OutcomeIsAgreed == NothingFails => (Spec => []OutcomeAgrees)
<1> SUFFICES ASSUME NothingFails PROVE Spec => []OutcomeAgrees
  OBVIOUS
<1>1. TypeOK /\ OnCourse => OutcomeAgrees
  BY CourseAgrees
<1>2. QED
  BY <1>1, TypeCorrect, StaysOnCourse, PTL

-----------------------------------------------------------------------------
(* The lifecycle.                                                           *)

\* Every step of the pipeline is a step of the lifecycle or changes nothing it shows.
LEMMA LifecycleStep ==
    ASSUME TypeOK, Causality, OnCourse, NothingFails, [Next]_vars
    PROVE  [Lifecycle!Next]_(Lifecycle!vars)
<1> USE DEF Lifecycle!Next, Lifecycle!vars
<1>1. ASSUME UNCHANGED <<status, signed, events>> PROVE [Lifecycle!Next]_(Lifecycle!vars)
  BY <1>1
<1>2. ASSUME NEW j \in Jobs, StepWork(j) PROVE [Lifecycle!Next]_(Lifecycle!vars)
  <2>1. CASE MarkDrillRunning(j)
    <3>1. AtStep(j) /\ kind[j] = "provision" /\ pc[j] = "markdrill"
      BY <2>1, CourseAtStep DEF MarkDrillRunning
    <3>2. status = "pending"
      BY <3>1 DEF AtStep, AtProvision
    <3>3. Lifecycle!Start
      BY <2>1, <3>2 DEF MarkDrillRunning, Lifecycle!Start
    <3>4. QED
      BY <3>3
  <2>2. CASE Finalize(j)
    <3>1. AtStep(j) /\ kind[j] = "report" /\ pc[j] = "finalize"
      BY <2>2, CourseAtStep DEF Finalize
    <3>2. AtReport(j)
      BY <3>1 DEF AtStep
    <3>3. status = "running" /\ signed = "none" /\ verdict[j] \in Verdict
      BY <3>1, <3>2, RenderedFrom DEF AtReport
    <3>4. Lifecycle!Sign
      BY <2>2, <3>3 DEF Finalize, Lifecycle!Sign, Verdict
    <3>5. QED
      BY <3>4
  <2>3. CASE ReportMarkDrillFailed(j)
    <3>1. AtStep(j) /\ kind[j] = "report" /\ pc[j] = "verdict"
      BY <2>3, CourseAtStep DEF ReportMarkDrillFailed
    <3>2. status = "running" /\ signed = "FAILED"
      BY <3>1 DEF AtStep, AtReport
    <3>3. Lifecycle!Fail
      BY <2>3, <3>2 DEF ReportMarkDrillFailed, Lifecycle!Fail
    <3>4. QED
      BY <3>3
  <2>4. CASE ~MarkDrillRunning(j) /\ ~Finalize(j) /\ ~ReportMarkDrillFailed(j)
    <3>1. UNCHANGED <<status, signed, events>>
      BY <1>2, <2>4 DEF StepWork, CheckStep, MarkStepRunning, Lookup, MarkStepSucceeded, Chain,
        ProvisionLocal, ProvisionFly, ProvisionFails, SetSandboxDB, Fetch, SetSourceHash,
        ChainAlreadyFetched, ChainAlreadyFetchedFails, RestoreBegin, RestoreEnd, RestoreFails,
        ClearAssertionResults, ConnectSandbox, RunAssertion, RunAssertionFails, ListAssertions,
        MarkEvidence, MarkStepFailed, MarkStepSkipped, MarkStepSkippedDone, InsertTeardown
    <3>2. QED
      BY <3>1, <1>1
  <2>5. QED
    BY <2>1, <2>2, <2>3, <2>4
<1>3. ASSUME NEW j \in Jobs, TeardownWork(j) PROVE [Lifecycle!Next]_(Lifecycle!vars)
  <2>0. reason[j] \in Reason
    BY DEF TypeOK
  <2>1. CASE TeardownMarkDrillFailed(j)
    <3>1. AtTeardown(j) /\ pc[j] = "tdverdict"
      BY <2>1, CourseAtTeardown DEF TeardownMarkDrillFailed
    <3>2. status = "failed" \/ (status = "running" /\ signed = "none")
      BY <2>0, <3>1 DEF AtTeardown, ReasonAgrees, Reason
    <3>3. Lifecycle!Fail \/ UNCHANGED <<status, signed, events>>
      BY <2>1, <3>2 DEF TeardownMarkDrillFailed, Lifecycle!Fail
    <3>4. QED
      BY <3>3, <1>1
  <2>2. CASE MarkDrillSucceeded(j)
    <3>1. AtTeardown(j) /\ pc[j] = "success"
      BY <2>2, CourseAtTeardown DEF MarkDrillSucceeded
    <3>2. status = "running" /\ signed \in {"PASSED", "RESTORED"}
      BY <2>0, <3>1 DEF AtTeardown, ReasonAgrees
    <3>3. Lifecycle!Succeed
      BY <2>2, <3>2 DEF MarkDrillSucceeded, Lifecycle!Succeed
    <3>4. QED
      BY <3>3
  <2>3. CASE Notify(j)
    <3>1. AtTeardown(j) /\ pc[j] = "notify" /\ events = <<>>
      <4>1. Running(j, kind[j], pc[j]) /\ pc[j] # "return" /\ kind[j] = "teardown" /\ pc[j] = "notify"
        BY <2>3 DEF Notify
      <4>2. QED
        BY <4>1, CourseAtTeardown DEF OnCourse, Busy
    <3>2. /\ status = IF reason[j] = "none" THEN "succeeded" ELSE "failed"
          /\ seen[j] = "failed" <=> reason[j] = "assertion_failed"
      BY <2>0, <3>1 DEF AtTeardown, ReasonAgrees, Reason
    <3>3. events' = <<IF status = "failed" THEN "drill.failed" ELSE "drill.completed">>
      BY <2>3, <3>1, <3>2 DEF Notify
    <3>4. Lifecycle!Announce
      BY <2>3, <3>1, <3>2, <3>3 DEF Notify, Lifecycle!Announce
    <3>5. QED
      BY <3>4
  <2>4. CASE ~TeardownMarkDrillFailed(j) /\ ~MarkDrillSucceeded(j) /\ ~Notify(j)
    <3>1. UNCHANGED <<status, signed, events>>
      BY <1>3, <2>4 DEF TeardownWork, TeardownRead, ReportUsage, DestroySandbox, MarkTeardownStep,
        RereadEvidence
    <3>2. QED
      BY <3>1, <1>1
  <2>5. QED
    BY <2>1, <2>2, <2>3, <2>4
<1>4. ASSUME NEW j \in Jobs, Worker(j) PROVE [Lifecycle!Next]_(Lifecycle!vars)
  <2>1. CASE Claim(j) \/ Complete(j)
    <3>1. UNCHANGED <<status, signed, events>>
      BY <2>1 DEF Claim, Complete
    <3>2. QED
      BY <3>1, <1>1
  <2>2. QED
    BY <1>2, <1>3, <1>4, <2>1 DEF Worker
<1>5. CASE Enqueue \/ DumpVanishes \/ UNCHANGED vars
  <2>1. UNCHANGED <<status, signed, events>>
    BY <1>5 DEF Enqueue, SeedSteps, InsertProvision, DumpVanishes, vars
  <2>2. QED
    BY <2>1, <1>1
<1>6. QED
  BY <1>4, <1>5, NoFaults DEF Next

\* When nothing fails, the six workers together do what DrillLifecycle allows and no more: the
\* drill starts once, is signed at most once and while it runs, ends once, with the status the
\* PDF supports, and is announced once, with that status.
THEOREM LifecycleIsKept == NothingFails => (Spec => Lifecycle!Safety)
<1> SUFFICES ASSUME NothingFails PROVE Spec => Lifecycle!Safety
  OBVIOUS
<1>1. Init => Lifecycle!Init
  BY DEF Init, Lifecycle!Init
<1>2. TypeOK /\ Causality /\ OnCourse /\ [Next]_vars
        => [Lifecycle!Next]_(Lifecycle!vars)
  BY LifecycleStep
<1>3. QED
  BY <1>1, <1>2, TypeCorrect, StepsInOrder, StaysOnCourse, PTL DEF Spec, Lifecycle!Safety

=============================================================================
