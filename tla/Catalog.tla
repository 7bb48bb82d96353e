------------------------------ MODULE Catalog ------------------------------
(***************************************************************************)
(* The databases of one account and the assertions on them: created from    *)
(* the dashboard (handlers/drills.go), through POST /v1/databases behind its *)
(* Idempotency-Key (v1.go, v1_databases.go), or as the built-in sample with   *)
(* its dump on the machine's disk (onboarding.go); the statements are those   *)
(* of drill/store.go.                                                       *)
(*                                                                         *)
(* One step per statement or file operation of a request; form fields, paths *)
(* and pages are left out.  The account may drill its own backups throughout *)
(* (canDrillReal), so only the count stands between it and another database. *)
(***************************************************************************)
EXTENDS Naturals, FiniteSets

CONSTANTS
    Slots,         \* bound: rows of database_targets
    Clients,       \* requests that can run at the same time
    Keys,          \* Idempotency-Keys clients send
    Bodies,        \* bodies of POST /v1/databases: how many assertions each asks for
    DbLimit,       \* EffectiveLimits(acct).Databases
    MaxForms       \* bound: requests that arrive

ASSUME CatalogAssumption ==
    /\ IsFiniteSet(Slots) /\ IsFiniteSet(Clients) /\ Clients # {} /\ Bodies \subseteq Nat
    /\ DbLimit \in Nat /\ MaxForms \in Nat

VARIABLES
    target,        \* each row: "none", "real" or "sample"
    checks,        \* assertions on it
    stripped,      \* history: assertions deleted from it
    stored,        \* api_idempotency: the answer recorded for a key
    dump,          \* sample.dump on the disk of the machine
    form,          \* where each request is
    made,          \* history: databases created under each key
    excused,       \* history: requests of a key that had reason not to find its answer
    unanswered,    \* history: keys with a request that ended unrecorded
    uncounted,     \* history: creations whose count could not be read
    bare,          \* history: the sample's assertion was not added
    forms

dbVars == <<target, checks, stripped, stored, dump, form, made, excused, unanswered, uncounted, bare, forms>>

NoAnswer == [status |-> 0, body |-> 0, db |-> "none"]
Free == [at |-> "idle", kind |-> "web", key |-> "none", body |-> 0, db |-> "none", left |-> 0]

CatalogInit ==
    /\ target = [d \in Slots |-> "none"] /\ checks = [d \in Slots |-> 0]
    /\ stripped = [d \in Slots |-> 0] /\ stored = [k \in Keys |-> NoAnswer] /\ dump = "none"
    /\ form = [c \in Clients |-> Free]
    /\ made = [k \in Keys |-> 0] /\ excused = [k \in Keys |-> 0] /\ unanswered = {}
    /\ uncounted = 0 /\ bare = FALSE /\ forms = 0

Real == {d \in Slots : target[d] = "real"}
Live == {d \in Slots : target[d] # "none"}
FreeSlot == \E d \in Slots : target[d] = "none"
\* A new row is any that is free.
NewSlot == CHOOSE d \in Slots : target[d] = "none"

Submit(c, f) == form[c].at = "idle" /\ forms < MaxForms /\ forms' = forms + 1 /\ form' = [form EXCEPT ![c] = f]
Go(c, at) == form' = [form EXCEPT ![c].at = at]
Leave(c) == form' = [form EXCEPT ![c] = Free]
Runs(c, kind, at) == form[c].kind = kind /\ form[c].at = at

-----------------------------------------------------------------------------
(* Statements of drill/store.go *)

\* The partial unique index allows one sample.
CreateTarget(c, kind, next) ==
    /\ FreeSlot /\ (kind = "sample" => \A d \in Slots : target[d] # "sample")
    /\ target' = [target EXCEPT ![NewSlot] = kind]
    /\ form' = [form EXCEPT ![c].at = next, ![c].db = NewSlot]

CreateAssertion(d) == checks' = [checks EXCEPT ![d] = @ + 1]

\* DELETE ... USING database_targets: any assertion of the account.
DeleteAssertion(d) ==
    /\ checks[d] > 0 /\ checks' = [checks EXCEPT ![d] = @ - 1]
    /\ stripped' = [stripped EXCEPT ![d] = @ + 1]

AtLimit(n) == n >= DbLimit

\* ListTargets, whose error both handlers drop: a count that is not read is zero.
CountRead(c, S, next) ==
    \E unread \in BOOLEAN :
      /\ ~AtLimit(IF unread THEN 0 ELSE Cardinality(S))
      /\ uncounted' = uncounted + (IF unread THEN 1 ELSE 0) /\ Go(c, next)

-----------------------------------------------------------------------------
(* The dashboard *)

\* The sample does not count against the plan here.
targetCreate(c) ==
    \/ /\ Submit(c, [Free EXCEPT !.at = "count"])
       /\ UNCHANGED <<target, checks, stripped, stored, dump, made, excused, unanswered, uncounted, bare>>
    \/ /\ Runs(c, "web", "count") /\ CountRead(c, Real, "insert")
       /\ UNCHANGED <<target, checks, stripped, stored, dump, made, excused, unanswered, bare, forms>>
    \/ /\ Runs(c, "web", "insert") /\ CreateTarget(c, "real", "end")
       /\ UNCHANGED <<checks, stripped, stored, dump, made, excused, unanswered, uncounted, bare, forms>>
    \/ /\ Runs(c, "web", "end") /\ Leave(c)
       /\ UNCHANGED <<target, checks, stripped, stored, dump, made, excused, unanswered, uncounted, bare, forms>>

\* No row of database_targets is ever deleted by a request, so GetTarget and the
\* statement after it are one step.
assertionCreate(d) ==
    /\ target[d] # "none" /\ forms < MaxForms /\ forms' = forms + 1 /\ CreateAssertion(d)
    /\ UNCHANGED <<target, stripped, stored, dump, form, made, excused, unanswered, uncounted, bare>>
assertionDelete(d) ==
    /\ target[d] # "none" /\ forms < MaxForms /\ forms' = forms + 1 /\ DeleteAssertion(d)
    /\ UNCHANGED <<target, stored, dump, form, made, excused, unanswered, uncounted, bare>>

-----------------------------------------------------------------------------
(* POST /v1/databases *)

\* Others that carry the key and have looked for its answer already.
Rivals(c) == {o \in Clients \ {c} : form[o].key = form[c].key /\ form[o].at \notin {"idle", "lookup"}}

\* Mutant: the answer is looked up under the key and the body together.
Replayed_ByBody(c) == stored[form[c].key].status # 0 /\ stored[form[c].key].body = form[c].body
\* A recorded answer is replayed, or refused as 409 when the body is another.
Replayed(c) == stored[form[c].key].status # 0

\* 2xx and 4xx are recorded, a 5xx is not.
Recorded(status) == status < 500

\* The handler answered: ON CONFLICT DO NOTHING, and the error is dropped.
RecordAnswer(c, status) ==
    LET k == form[c].key
        answer == [status |-> status, body |-> form[c].body, db |-> form[c].db]
    IN  \/ /\ Recorded(status)
           /\ stored' = IF stored[k].status = 0 THEN [stored EXCEPT ![k] = answer] ELSE stored
           /\ UNCHANGED unanswered
        \/ unanswered' = unanswered \cup {k} /\ UNCHANGED stored

\* Any error of the lookup, and not only the absence of a row, lets the request run.
Unanswered(c, unread) == unread \/ ~Replayed(c)
Excuse(c, unread) ==
    LET k == form[c].key
        had == \/ unread /\ stored[k].status # 0
               \/ k \in unanswered \/ Rivals(c) # {}
    IN  excused' = [excused EXCEPT ![k] = @ + (IF had THEN 1 ELSE 0)]

v1Idempotency(c) ==
    \/ \E k \in Keys, b \in Bodies :
          /\ Submit(c, [Free EXCEPT !.at = "lookup", !.kind = "api", !.key = k, !.body = b, !.left = b])
          /\ UNCHANGED <<target, checks, stripped, stored, dump, made, excused, unanswered, uncounted, bare>>
    \/ /\ Runs(c, "api", "lookup") /\ Replayed(c) /\ Leave(c)
       /\ UNCHANGED <<target, checks, stripped, stored, dump, made, excused, unanswered, uncounted, bare, forms>>
    \/ /\ Runs(c, "api", "lookup") /\ Go(c, "count")
       /\ \E unread \in BOOLEAN : Unanswered(c, unread) /\ Excuse(c, unread)
       /\ UNCHANGED <<target, checks, stripped, stored, dump, made, unanswered, uncounted, bare, forms>>
    \/ /\ Runs(c, "api", "answer") /\ RecordAnswer(c, form[c].left) /\ Leave(c)
       /\ UNCHANGED <<target, checks, stripped, dump, made, excused, uncounted, bare, forms>>

\* The status of the answer takes the place of the assertions left.
Answers(c, status) == form' = [form EXCEPT ![c].at = "answer", ![c].left = status]

Attached(c) == form[c].left = 0

\* The sample counts too.  The assertions follow the database one by one; when one fails
\* the database stays with those before it, and the answer is a 500.
v1CreateDatabase(c) ==
    \/ /\ Runs(c, "api", "count") /\ CountRead(c, Live, "insert")
       /\ UNCHANGED <<target, checks, stripped, stored, dump, made, excused, unanswered, bare, forms>>
    \/ /\ Runs(c, "api", "count") /\ AtLimit(Cardinality(Live)) /\ Answers(c, 403)
       /\ UNCHANGED <<target, checks, stripped, stored, dump, made, excused, unanswered, uncounted, bare, forms>>
    \/ /\ Runs(c, "api", "insert") /\ CreateTarget(c, "real", "attach")
       /\ made' = [made EXCEPT ![form[c].key] = @ + 1]
       /\ UNCHANGED <<checks, stripped, stored, dump, excused, unanswered, uncounted, bare, forms>>
    \/ /\ Runs(c, "api", "attach") /\ ~Attached(c) /\ CreateAssertion(form[c].db)
       /\ form' = [form EXCEPT ![c].left = @ - 1]
       /\ UNCHANGED <<target, stripped, stored, dump, made, excused, unanswered, uncounted, bare, forms>>
    \/ /\ Runs(c, "api", "attach") /\ Attached(c) /\ Answers(c, 201)
       /\ UNCHANGED <<target, checks, stripped, stored, dump, made, excused, unanswered, uncounted, bare, forms>>
    \/ /\ form[c].kind = "api" /\ form[c].at \in {"insert", "attach"} /\ Answers(c, 500)
       /\ UNCHANGED <<target, checks, stripped, stored, dump, made, excused, unanswered, uncounted, bare, forms>>

-----------------------------------------------------------------------------
(* The sample *)

\* The bytes go to a temporary file of this request.
WriteDump(c) == Go(c, "rename") /\ UNCHANGED dump

\* A file of the right size is kept; otherwise a temporary one is renamed over it.
MaterializeSample(c) ==
    \/ Runs(c, "sample", "stat") /\ dump = "whole" /\ Go(c, "find") /\ UNCHANGED dump
    \/ Runs(c, "sample", "stat") /\ dump # "whole" /\ Go(c, "write") /\ UNCHANGED dump
    \/ Runs(c, "sample", "write") /\ WriteDump(c)
    \/ Runs(c, "sample", "rename") /\ dump' = "whole" /\ Go(c, "find")

\* GetSampleTarget, CreateTarget, GetSampleTarget again for the loser of a race, and the
\* assertion, whose failure is only logged.
ensureSampleTarget(c) ==
    LET SampleThere == \E d \in Slots : target[d] = "sample"
    IN  \/ /\ MaterializeSample(c)
           /\ UNCHANGED <<target, checks, stripped, stored, made, excused, unanswered, uncounted, bare, forms>>
        \/ /\ Runs(c, "sample", "find") /\ Go(c, IF SampleThere THEN "drill" ELSE "insert")
           /\ UNCHANGED <<target, checks, stripped, stored, dump, made, excused, unanswered, uncounted, bare, forms>>
        \/ /\ Runs(c, "sample", "insert") /\ CreateTarget(c, "sample", "attach")
           /\ UNCHANGED <<checks, stripped, stored, dump, made, excused, unanswered, uncounted, bare, forms>>
        \/ /\ Runs(c, "sample", "insert") /\ SampleThere /\ Go(c, "drill")
           /\ UNCHANGED <<target, checks, stripped, stored, dump, made, excused, unanswered, uncounted, bare, forms>>
        \/ /\ Runs(c, "sample", "attach") /\ Go(c, "drill")
           /\ \/ CreateAssertion(form[c].db) /\ UNCHANGED bare
              \/ bare' = TRUE /\ UNCHANGED checks
           /\ UNCHANGED <<target, stripped, stored, dump, made, excused, unanswered, uncounted, forms>>

\* The drill itself is DrillScheduler's.
runSampleDrill(c) ==
    \/ /\ Submit(c, [Free EXCEPT !.at = "stat", !.kind = "sample"])
       /\ UNCHANGED <<target, checks, stripped, stored, dump, made, excused, unanswered, uncounted, bare>>
    \/ ensureSampleTarget(c)
    \/ /\ Runs(c, "sample", "drill") /\ Leave(c)
       /\ UNCHANGED <<target, checks, stripped, stored, dump, made, excused, unanswered, uncounted, bare, forms>>

\* A refusal, a failed statement, a client that is gone: an API request leaves no answer.
AbandonForm(c) ==
    /\ form[c].at # "idle" /\ Leave(c)
    /\ unanswered' = unanswered \cup (IF form[c].kind = "api" /\ form[c].at # "lookup" THEN {form[c].key} ELSE {})
    /\ bare' = (bare \/ Runs(c, "sample", "attach"))
    /\ UNCHANGED <<target, checks, stripped, stored, dump, made, excused, uncounted, forms>>

\* A new release: requests die and the disk of the machine is empty.
Redeploy ==
    /\ dump # "none" /\ dump' = "none" /\ form' = [c \in Clients |-> Free]
    /\ unanswered' = unanswered \cup {form[c].key : c \in {o \in Clients : form[o].kind = "api" /\ form[o].at # "lookup"}}
    /\ bare' = (bare \/ \E c \in Clients : Runs(c, "sample", "attach"))
    /\ UNCHANGED <<target, checks, stripped, stored, made, excused, uncounted, forms>>

CatalogNext ==
    \/ \E c \in Clients : targetCreate(c) \/ v1Idempotency(c) \/ v1CreateDatabase(c)
                             \/ runSampleDrill(c) \/ AbandonForm(c)
    \/ \E d \in Slots : assertionCreate(d) \/ assertionDelete(d)
    \/ Redeploy

CatalogSpec == CatalogInit /\ [][CatalogNext]_dbVars

-----------------------------------------------------------------------------
CatalogTypeOK ==
    /\ target \in [Slots -> {"none", "real", "sample"}] /\ checks \in [Slots -> Nat]
    /\ stripped \in [Slots -> Nat] /\ dump \in {"none", "half", "whole"}
    /\ \A k \in Keys : stored[k].status \in {0, 201, 403} /\ stored[k].db \in Slots \cup {"none"}
    /\ \A c \in Clients : /\ form[c].kind \in {"web", "api", "sample"}
                          /\ form[c].key \in Keys \cup {"none"} /\ form[c].db \in Slots \cup {"none"}
    /\ made \in [Keys -> Nat] /\ excused \in [Keys -> Nat] /\ unanswered \subseteq Keys
    /\ uncounted \in Nat /\ bare \in BOOLEAN /\ forms \in 0 .. MaxForms

\* The plan's databases are exceeded by no more than the requests that counted before one
\* of them inserted, and by one for every count that could not be read (targetCreate,
\* v1CreateDatabase).
DatabaseOvershoot == Cardinality(Real) <= DbLimit + Cardinality(Clients) - 1 + uncounted

\* A key creates a second database only when its request had reason not to find the
\* answer of the first: that one was still running, or ended without a record, or the
\* lookup itself failed (v1Idempotency records after the handler and not under a lock,
\* and goes on after any error of the lookup).
KeyedDatabase == \A k \in Keys : made[k] <= 1 + excused[k]

\* An answer that is replayed is true: the database it names has the assertions its body
\* asked for, but those deleted since (v1CreateDatabase, v1Idempotency).
ReplayedIsTrue ==
    \A k \in Keys : stored[k].status = 201 =>
        /\ target[stored[k].db] = "real"
        /\ checks[stored[k].db] + stripped[stored[k].db] >= stored[k].body

\* A drill of the sample finds the whole dump on this machine's disk, and the sample has
\* its assertion unless it could not be added (MaterializeSample, ensureSampleTarget).
SampleReady ==
    \A c \in Clients : Runs(c, "sample", "drill") =>
        /\ dump = "whole"
        /\ \A d \in Slots : target[d] = "sample" =>
              \/ checks[d] + stripped[d] > 0 \/ bare
              \/ \E o \in Clients : Runs(o, "sample", "attach")

\* Databases made by racing, repeated and half-failed requests: within the cap but for the
\* race and counts that failed, one per key but for races, lost answers and lookups that
\* failed, answers that are true when replayed, and a sample whose dump is whole
\* (v1CreateDatabase, onboarding.go).
CatalogSafe ==
    /\ CatalogTypeOK /\ DatabaseOvershoot /\ KeyedDatabase /\ ReplayedIsTrue
    /\ SampleReady

=============================================================================
