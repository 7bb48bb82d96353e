------------------------------ MODULE Readiness ------------------------------
(***************************************************************************)
(* The recovery-readiness badge of one database: ReadinessStats collects    *)
(* its drills, Compute makes a value of 0 to 100 of them, decorate a        *)
(* colour.  Time is in hours.  The floating-point arithmetic of the code is *)
(* exact here: a value is a whole number of a fraction over 2 * interval *  *)
(* drills.                                                                  *)
(***************************************************************************)
EXTENDS Integers, FiniteSets

CONSTANTS
    Trials,        \* drills of the database, numbered in the order they start
    Cadences,      \* the cadences in use
    Jumps,         \* bound: the hours that can pass at once
    LongestRun,    \* bound: a drill ends within so many hours at a time
    MaxJumps       \* bound: how often time passes

ASSUME ReadinessAssumption ==
    /\ Trials \subseteq Nat /\ IsFiniteSet(Trials) /\ Jumps \subseteq Nat
    /\ LongestRun \in Nat /\ MaxJumps \in Nat

VARIABLES
    hour,
    cadence,       \* drill_cadence of the target
    trial,         \* drills: [Trials -> [status, created, completed]]
    jumps

readyVars == <<hour, cadence, trial, jumps>>

ReadinessInit ==
    /\ hour = 0 /\ jumps = 0
    /\ cadence \in Cadences
    /\ trial = [d \in Trials |-> [status |-> "none", created |-> 0, completed |-> 0]]

-----------------------------------------------------------------------------
(* The history of drills. *)

StartTrial(d) ==
    /\ trial[d].status = "none" /\ \A x \in Trials : x < d => trial[x].status # "none"
    /\ trial' = [trial EXCEPT ![d] = [status |-> "running", created |-> hour, completed |-> 0]]
    /\ UNCHANGED <<hour, cadence, jumps>>

\* Drills of a database can overlap and end in any order.
FinishTrial(d, verdict) ==
    /\ trial[d].status = "running"
    /\ trial' = [trial EXCEPT ![d].status = verdict, ![d].completed = hour]
    /\ UNCHANGED <<hour, cadence, jumps>>

SetTargetCadence ==
    /\ jumps = 0
    /\ \E c \in Cadences \ {cadence} : cadence' = c
    /\ UNCHANGED <<hour, trial, jumps>>

HoursPass(n) ==
    /\ jumps < MaxJumps
    /\ n > LongestRun => \A d \in Trials : trial[d].status # "running"
    /\ jumps' = jumps + 1 /\ hour' = hour + n
    /\ UNCHANGED <<cadence, trial>>

ReadinessNext ==
    \/ \E d \in Trials : StartTrial(d) \/ \E v \in {"succeeded", "failed"} : FinishTrial(d, v)
    \/ SetTargetCadence
    \/ \E n \in Jumps : HoursPass(n)

ReadinessSpec == ReadinessInit /\ [][ReadinessNext]_readyVars

-----------------------------------------------------------------------------
(* ReadinessStats. *)

Terminal == {d \in Trials : trial[d].status \in {"succeeded", "failed"}}
Succeeded == {d \in Trials : trial[d].status = "succeeded"}

\* Drills created within 90 days.
Recent(ds) == {d \in ds : trial[d].created > hour - 90 * 24}

LastSuccessAt == CHOOSE t \in {trial[d].completed : d \in Succeeded} :
    \A d \in Succeeded : trial[d].completed <= t

\* The status of the drill that ended last; drills that end at once are in any order.
LastStatus ==
    {trial[d].status : d \in {x \in Terminal : \A y \in Terminal : trial[y].completed <= trial[x].completed}}

-----------------------------------------------------------------------------
(* Compute. *)

cadenceInterval(c) ==
    IF c = "hourly" THEN 1
    ELSE IF c = "daily" THEN 24
    ELSE IF c = "weekly" THEN 7 * 24
    ELSE 30 * 24

\* Mutant: the full marks of the first interval are scaled by the age as well.
Freshness_Scaled(age, interval) ==
    IF age <= interval THEN 60 * age
    ELSE IF age >= 3 * interval THEN 0
    ELSE 30 * (3 * interval - age)

\* 60 within one interval of the last success, down to 0 by three; times interval.
Freshness(age, interval) ==
    IF age <= interval THEN 60 * interval
    ELSE IF age >= 3 * interval THEN 0
    ELSE 30 * (3 * interval - age)

\* The sum of the three signals, rounded: last is the status taken for the last one.
Compute(last) ==
    IF Terminal = {} THEN 0
    ELSE LET interval == cadenceInterval(cadence)
             n == IF Recent(Terminal) = {} THEN 2 ELSE Cardinality(Recent(Terminal))
             p == IF Recent(Terminal) = {} THEN 1 ELSE Cardinality(Recent(Succeeded))
             fresh == IF Succeeded = {} THEN 0 ELSE Freshness(hour - LastSuccessAt, interval)
             outcome == IF last = "succeeded" THEN 10 ELSE 0
         IN (2 * (fresh * n + 30 * p * interval + outcome * interval * n) + interval * n)
            \div (2 * interval * n)

\* decorate: a failed last drill is red whatever the value.
Tone(last) ==
    IF Terminal = {} \/ last = "failed" \/ Compute(last) < 60 THEN "red"
    ELSE IF Compute(last) >= 80 THEN "green" ELSE "amber"

Values == IF Terminal = {} THEN {0} ELSE {Compute(last) : last \in LastStatus}

-----------------------------------------------------------------------------
(* Properties. *)

\* Every variable has its type, and the value is one of 0 to 100.
ReadinessTypeOK ==
    /\ cadence \in Cadences /\ hour \in Nat /\ jumps \in 0..MaxJumps
    /\ \A d \in Trials : trial[d].completed <= hour
    /\ Values \subseteq 0..100

\* A green badge is earned: of the drills that ended last one passed, the last success is
\* at most 101/60 of an interval old, and 19 in 60 of the recent drills passed.
GreenIsEarned ==
    \A last \in LastStatus : Tone(last) = "green" =>
        /\ \E d \in Terminal : /\ trial[d].status = "succeeded"
                               /\ \A x \in Terminal : trial[x].completed <= trial[d].completed
        /\ 60 * (hour - LastSuccessAt) <= 101 * cadenceInterval(cadence)
        /\ 60 * Cardinality(Recent(Succeeded)) >= 19 * Cardinality(Recent(Terminal))

\* The value rises only by proof: a drill just passed, a failed drill left the window
\* of 90 days, or the schedule was changed.  Waiting never does it.
RisesByProof ==
    [][(\E w \in Values' : \A v \in Values : w > v)
       => (\/ Cardinality(Succeeded') > Cardinality(Succeeded)
           \/ Cardinality(Recent(Terminal \ Succeeded)') < Cardinality(Recent(Terminal \ Succeeded))
           \/ cadence' # cadence)]_readyVars

\* What the rule about the value supposes: the time that can pass under a running drill
\* is less than the window.  (A first drill that fails after 90 days counts as none.)
RunsAreShort == MaxJumps * LongestRun < 90 * 24

\* The badge of a database is green only by its drills (Compute).
ReadinessSafe == ReadinessTypeOK /\ GreenIsEarned

=============================================================================
