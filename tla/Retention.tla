----------------------------- MODULE Retention -----------------------------
(***************************************************************************)
(* The retention sweep (compliance/retention.go) over the tables whose rows   *)
(* only grow, and those who still read them: the login throttle, the           *)
(* idempotency keys, the links in mails.  Evidence, the sweep's first step,     *)
(* is EvidenceVault's.                                                       *)
(*                                                                         *)
(* Days, or any shorter unit, count the time; rows of a table that were        *)
(* written in the same one are one.  A sweep's statements take a moment each, and days may pass         *)
(* between them.                                                            *)
(***************************************************************************)
EXTENDS Integers, Sequences, FiniteSets

CONSTANTS
    AuditRetention, LoginAttemptsRetention, APIIdempotencyRetention,
    HeartbeatPingsRetention,
    TokenLife,        \* until expires_at of a verification link
    LinkLife,         \* and of a sign-in link
    ThrottleWindow,   \* of LoginThrottle
    MaxDay,           \* bound: the last day of a behaviour
    MaxAdded          \* bound: rows that are written

ASSUME RetentionAssumption ==
    /\ {AuditRetention, LoginAttemptsRetention, APIIdempotencyRetention,
        HeartbeatPingsRetention, TokenLife, LinkLife, ThrottleWindow, MaxDay, MaxAdded} \subseteq Nat
    /\ ThrottleWindow <= LoginAttemptsRetention

\* In the order of Sweep.
Swept == <<"audit_events", "login_attempts", "api_idempotency",
           "email_verification_tokens", "magic_link_tokens", "heartbeat_pings">>
SweptTables == {Swept[i] : i \in 1 .. Len(Swept)}

VARIABLES
    day,
    kept,          \* each table: the days of its rows
    ever,          \* history: the same, nothing deleted
    sweepAt,       \* the statement a sweep is at, 0 when none runs
    began,         \* the day the last sweep began
    errs           \* tables whose statement failed in it

retentionVars == <<day, kept, ever, sweepAt, began, errs>>

RetentionInit ==
    /\ day = 0 /\ kept = [t \in SweptTables |-> {}] /\ ever = kept
    /\ sweepAt = 0 /\ began = -1 /\ errs = {}

-----------------------------------------------------------------------------
Added == UNION {ever[t] \X {t} : t \in SweptTables}

AddRow(t) ==
    /\ day \notin kept[t] /\ Cardinality(Added) < MaxAdded
    /\ kept' = [kept EXCEPT ![t] = @ \cup {day}] /\ ever' = [ever EXCEPT ![t] = @ \cup {day}]
    /\ UNCHANGED <<day, sweepAt, began, errs>>

DayPasses ==
    /\ day < MaxDay /\ day' = day + 1
    /\ UNCHANGED <<kept, ever, sweepAt, began, errs>>

RetentionOf(t) ==
    [audit_events |-> AuditRetention, login_attempts |-> LoginAttemptsRetention,
     api_idempotency |-> APIIdempotencyRetention, heartbeat_pings |-> HeartbeatPingsRetention,
     email_verification_tokens |-> TokenLife, magic_link_tokens |-> LinkLife][t]

\* The rows the DELETE takes: older than the retention, or past their expires_at.
Outdated(t) == {b \in kept[t] : b < day - RetentionOf(t)}

\* The periodic job, or river's retry of one that ended with errors.
StartSweep ==
    /\ sweepAt = 0 /\ sweepAt' = 1 /\ began' = day /\ errs' = {}
    /\ UNCHANGED <<day, kept, ever>>

\* "a failure in one is collected but does not skip the others".
NextTable == IF sweepAt = Len(Swept) THEN 0 ELSE sweepAt + 1

\* One DELETE, or its failure.
Prune ==
    /\ sweepAt # 0
    /\ LET t == Swept[sweepAt]
       IN  \/ kept' = [kept EXCEPT ![t] = @ \ Outdated(t)] /\ UNCHANGED errs
           \/ errs' = errs \cup {t} /\ UNCHANGED kept
    /\ sweepAt' = NextTable
    /\ UNCHANGED <<day, ever, began>>

\* The worker's ten minutes are over: every statement from here on fails.
SweepTimeout ==
    /\ sweepAt # 0 /\ sweepAt' = 0
    /\ errs' = errs \cup {Swept[i] : i \in sweepAt .. Len(Swept)}
    /\ UNCHANGED <<day, kept, ever, began>>

RetentionNext == (\E t \in SweptTables : AddRow(t)) \/ DayPasses \/ StartSweep \/ Prune \/ SweepTimeout

RetentionSpec == RetentionInit /\ [][RetentionNext]_retentionVars

-----------------------------------------------------------------------------
RetentionTypeOK ==
    /\ day \in 0 .. MaxDay /\ began \in -1 .. MaxDay
    /\ kept \in [SweptTables -> SUBSET (0 .. MaxDay)] /\ ever \in [SweptTables -> SUBSET (0 .. MaxDay)]
    /\ sweepAt \in 0 .. Len(Swept) /\ errs \subseteq SweptTables

\* What a reader of the table still acts on: a failure within the throttle's window, a key a
\* client may retry with, a link that has not expired, an audit row of the last years.
StillRead(t) ==
    {b \in ever[t] :
        IF t = "login_attempts" THEN b > day - ThrottleWindow
        ELSE IF t \in {"email_verification_tokens", "magic_link_tokens"} THEN b + RetentionOf(t) > day
        ELSE b >= day - RetentionOf(t)}

\* A sweep is never seen by a reader, at whatever moment of it the reader looks: what it
\* still acts on is there (Sweep against Check, v1Idempotency, ConsumeMagicLink, VerifyEmail).
PruningUnseen == \A t \in SweptTables : StillRead(t) \subseteq kept[t]

\* When a sweep is over nothing is left that was due when it began, but in the tables whose
\* own statement failed: one broken table does not stall the others.
SweptOut ==
    sweepAt = 0 =>
        \A t \in SweptTables \ errs : \A b \in kept[t] : b >= began - RetentionOf(t)

\* The sweep prunes every table, and nothing somebody still acts on (Sweeper.Sweep).
RetentionSafe == RetentionTypeOK /\ PruningUnseen /\ SweptOut

=============================================================================
