# Dokaz in TLA+

Dokaz (the Go module `github.com/preshotcome/dokaz`) restores a customer's database backup into
a throw-away sandbox, runs assertions on the restored data, and signs a PDF that says how the
restore went: a *drill*. Around it are a drill scheduler, check-in monitors ("heartbeats"),
accounts with plans and Stripe billing, webhooks, and the retention and deletion of evidence.
This directory specifies the stateful parts in TLA+, checks them with TLC, and proves the main
safety properties with TLAPS. `PROJECT.json` maps every definition to the lines it models.

## 1. The system and its parts

One Go process (`cmd/server`) serves HTTP and runs a River job queue in the same PostgreSQL
database that holds all product state. River runs up to eight jobs at once and redelivers a job
whose worker returned an error, timed out or died. So the concurrency is that of *statements*:
almost every handler and worker is a sequence of single SQL statements with nothing held between
them, and transactions appear only in a few places (`CreateDrillIdempotent`, `RecordPing`, the
membership store, TOTP).

| Part | State | Operations | Talks to |
|---|---|---|---|
| drill pipeline (`internal/drill/steps`) | `drills`, `drill_steps`, `assertion_results`, the evidence file | six step workers: provision, fetch, restore, assert, report, teardown | runner, evidence, River (each step inserts the next), notifiers |
| runners (`internal/runner`, `internal/fly`) | sandboxes: a scratch database, or a Fly machine | provision, fetch, restore, rehydrate, teardown | PostgreSQL, the Fly API |
| scheduler and drill creation (`internal/drill/scheduler.go`, `store.go`, handlers) | `database_targets` (cadence, next slot), `idempotency_keys`, `api_idempotency` | a tick every five minutes; form, API, sample and replay requests; saving a schedule | plans, `EnqueueDrill` |
| heartbeats (`internal/heartbeat`) | `heartbeats` (status, deadline) | create, ping/start/fail, sweep each minute, pause, resume, delete | webhooks, e-mail, push, audit |
| queue (`drill_quota.go`, `orchestrator.go`, River) | jobs with their priority | size check, enqueue, next step | pipeline, plans |
| notifications (`internal/webhooks`, `alerting`, `email`, `push`) | `webhook_endpoints`, `webhook_deliveries`, alert channels, bounce list, devices | fan-out, delivery job, replay, posts, mails, pushes | River, customers' servers, Postmark, PagerDuty, Firebase |
| databases and assertions (`handlers/drills.go`, `v1_databases.go`, `onboarding.go`, `internal/assertions`) | `database_targets`, `assertions`, the sample dump | create by form, API or onboarding; validate; run | plans, pipeline |
| evidence (`internal/evidence`) | files, `evidence_signatures`, account keys | finalize, verify, purge, rotate, shred | pipeline, compliance, staff |
| compliance (`internal/compliance`) | `accounts.deleted_at`, `purge_after` | soft delete, hard delete, daily retention sweep, export | evidence, River |
| accounts (`internal/account`) | accounts, memberships, invitations, teams | roles, transfer, invite, accept | handlers |
| billing (`internal/billing`, `handlers/billing.go`) | plan and subscription on the account, `stripe_events` | checkout, portal, webhook | Stripe |
| auth (`internal/auth`, `mobileauth`) | sessions, TOTP counters, recovery codes, magic links, login attempts, mobile tokens | sign-in with MFA, one-time links, throttle, impersonation | handlers |
| gateway (`handlers.go`, `auth/context.go`, `csrf`, `apikey`, `sharelink`) | sessions, key, token and link rows | the middleware chains of the web, the API and the app | handlers |
| lists, rate limiter, flags, readiness | cursors; token buckets; a cache; nothing of its own | page, allow/sweep, refresh, compute | handlers |
| the process (`cmd/server`, `internal/config`) | what is up | load, start, serve, shut down | all |

Hard in this code, in order of weight:

* **retries over half-done work**: a step that is retried sees what its first attempt wrote;
* **duplicated jobs**: an insert that succeeded in a worker that then died gives a drill two
  chains of jobs, which run side by side;
* **errors that are dropped** on purpose ("best effort") next to errors that must be returned;
* **read, then write later**: the scheduler's batch, the teardown's view of the drill, the plan
  gates, the quota, `PurgeExpired`;
* **announcing after commit**: a transition is committed once, its announcement can be lost;
* **time**: slots, deadlines and windows, compared strictly or not.

What makes each part correct:

* *pipeline*: a drill ends; success means evidence, an anchored hash, a finished restore and
  passing assertions; the announcement, the row and the PDF agree; sandboxes do not leak;
* *scheduler*: one drill per slot, never a lost slot, no drift, plan and quota respected;
* *creation*: one drill per key, queued exactly once, and never a 201 for a drill nobody runs;
* *heartbeats*: one alert per edge, silence is found, no false alarm;
* *webhooks*: a delivered event stays delivered, is retried until then and not doubled;
* *evidence and compliance*: the stored PDF verifies, nothing goes before its time, nothing
  readable is left of a deleted account;
* *accounts and billing*: always an owner; the plan is that of Stripe's newest event;
* *auth and gateway*: a one-time thing is used once, an MFA-pending session is not a session, a
  flow signs in the browser that started it, and a request is served only by rights it has;
* *lists, limiter, queue, export*: a walk over the pages misses nothing that was there, no window
  lets more through than burst and rate, plans start in their rank, the export covers the account.

`PROJECT.json` lists every part, with the reason where one is left out, and the hazards with
their lines.

## 2. Modules

| Module | Content |
|---|---|
| `DrillPipeline`, `MCDrillPipeline`, `DrillPipelineProofs` | one drill: the workers of `steps.go`, `EnqueueDrill`, both runners, evidence regeneration by staff, River's jobs, faults |
| `DrillLifecycle` | what a drill promises its observers: start, sign, end, announce once; `DrillPipeline` implements it |
| `Heartbeat`, `MCHeartbeat`, `HeartbeatProofs` | the monitors of one account |
| `DrillScheduler`, `MCDrillScheduler`, `DrillSchedulerProofs` | schedules, requests and the creation of drills for one account |
| `EvidenceVault`, `MCEvidenceVault`, `EvidenceVaultProofs` | the evidence of one account: keys, files, signatures, retention, erasure |
| `Notifications`, `MCNotifications`, `NotificationsProofs` | an event on its way through webhooks, mail, push and alert channels |
| `Billing`, `MCBilling`, `BillingProofs` | checkout, Stripe's events, the account row, usage and refunds |
| `PlanLedger` | what the account row promises of a subscription; `Billing` implements it |
| `RoleMatrix`, `Membership` | roles; members, invitations, seats, ownership, teams and the databases they see |
| `SignIn` | password, link, OAuth, second factor, sessions, mobile tokens, throttle, impersonation |
| `SignUp` | the rows of a first sign-up, statement by statement |
| `OAuthFlow` | cookies, state, PKCE, callback and staff step-up in the tabs of one browser |
| `Gateway` | a request through the middleware while its rights are withdrawn; keys, share links |
| `MCAccess`, `AccessProofs` | hosts the five modules above |
| `RateLimiter` | token buckets, `Retry-After`, the sweep |
| `Listing` | keyset pages over a growing table |
| `Catalog` | databases with their assertions and the sample, idempotency keys |
| `Checks` | an assertion from its form to its verdict |
| `Handover` | evidence handed out, signing keys rotated, `/verify` and `dokaz-verify` |
| `Readiness` | the score and its colour |
| `JobQueue` | priorities, dump size, who gets a worker |
| `Retention`, `DataExport` | the daily sweep, table by table; the export, section by section |
| `Devices`, `Flags`, `Boot` | push registry and sender; flag cache; start-up and shutdown |
| `MCServer`, `ServerProofs` | hosts the twelve modules from `RateLimiter` on |

**DrillPipeline.** A job is a row of `Jobs` with a kind, a state and an attempt count; the worker
that runs it is a program counter `pc[j]` plus its locals (`held` the sandbox handle, `seen` the
drill's status as read, `verdict`, `idx`). Every store statement, runner call and queue insert is
one action, so any two jobs of the drill interleave between any two statements. A fault is one of
`blip` (one statement fails: returned raw, turned into `failAndCleanup`, or swallowed, as the code
does at that point), `timeout` (the job's context expires and every later statement of it fails)
and `crash` (the process dies: all running workers, whose jobs River runs again, and with them a
request that is creating the drill or regenerating its evidence, which nobody repeats). `Claim`,
`Complete`, `Crash` and `Insert` are River, modelled from how the workers use it. Trace ids, logs,
metrics and audit rows are left out; a dump is there or gone, an assertion passes or fails, a PDF
is its header.

**Heartbeat.** A monitor's row is `status`, `expectedBy`, `deleted`. `RecordPing` is two actions,
because PostgreSQL's `now()` is the start of the transaction and the row lock comes later: a ping
that waits behind another applies an earlier instant. A create request counts, or fails to and goes
on as if there were none, and inserts later. History: `heard` is when a monitor was last alive (its
latest ping, creation or resume), which no late ping moves back; `setBack` holds the monitors whose
deadline one did; `edges` and `told` are the transitions committed and announced; `uncounted` the
requests that passed a full gate because the list failed.

**DrillScheduler.** Scheduler jobs and requests are both *creators* with a program counter; they
meet in `LookupKey`, `InsertDrill` (decided by the unique index) and `EnqueueDrill`. A scheduler
holds the batch it read, the row it is at and the slot it will write; `fresh` says that the plan
has not changed since its query, and `anchor` remembers the slot a saved schedule began with.
The CHECK constraint of the migration is `Storable`.

**EvidenceVault.** The database side is the account row (`acct`, `graceOver`), the wrapped key
(`dek`: which key, sealed by which master key), signature rows and paths; beside it the file store.
Writers are inside `Finalize` (report worker or staff), readers inside `Verify`; one action is one
SQL statement or one file-store call, so a key can be shredded between any two lines of either.
`S3` chooses the store, because `S3Store.do` turns a 404 into an empty blob where `LocalStore`
returns an error. The purge job is HardDelete statement by statement, with River's retries;
`evidence-keys` first classifies a row and later writes by account id. A change of the master keys
is a restart, which ends everything in flight. `shredded`, `lost`, `rivals` (drills where two of
Finalize and the sweep met, or one died between its two writes) and `disturbed` (verifications
during which such a thing happened) are history. Writes of a file are atomic.

**Notifications.** An *emitter* is whoever announces (sweeper, ping request, teardown); it makes one
delivery row and one job per endpoint, then calls the channels in the code's order. A delivery job
loads the row, posts, and records, and may die between any two. A monitor's owner pauses, resumes or
deletes it without an announcement (`MonitorEdited`), which may leave an incident open
(`LeftDown`). A request for an endpoint counts the others or fails to. Devices are one push call
here; `Devices` has the registry and the loop over it.

**Billing.** Stripe is external: it issues events with a time of whole seconds and delivers each at
least once, in any order. The webhook is two statements (record as seen, apply), which is where an
event can be lost; checkout, usage and refunds carry idempotency keys. The plan is that of the
first item whose price is a plan's, and the trial where there is none (`PlanOf`).

**Access.** `Membership` decides by the role read when the request arrived, and takes the locks the
store takes; an invitation counts the seats, or fails to. `SignIn` is one step per table access of
one user's sign-ins. `SignUp` lets requests of one address race through user, staff flag, account,
customer and session. `OAuthFlow` separates what a callback *took along* (cookies and user at the
moment it was opened) from what the browser holds when the answer comes. `Gateway` is one step per
middleware, two where it reads two tables. It has two accounts of one user: `here`, whose rights
are withdrawn, and `home`, which `LoadCurrentAccount` falls back to and writes into the session.
`Creates` and `Tidies` split the routes behind the trial gate by what their handlers do.

**Around the drills.** `RateLimiter` counts in fractions of a token so that a rate per minute and
seconds stay whole. `Listing` gives a row its place in the order before it commits, so rows appear
behind the reader. `Catalog`'s look-up of a stored answer may fail, which the code takes for "none".
`Handover` and `OAuthFlow` treat cryptography symbolically. `Readiness` keeps the
arithmetic exact as fractions. `JobQueue` keeps the code's two priority tables apart. In `Retention`
and `DataExport` one action is one statement: while the export reads its sections, rows are made,
the ones that are deleted one by one (`Cleared`: members, assertions, results, signatures, audit
events) go, and the account may be erased.

`MCAccess` and `MCServer` explore one hosted module at a time: the hosted parts share no row
(rights, plans, flags and keys are read afresh by each request, and every module lets them change
at any step), so a behaviour of several is an interleaving of one of each, and each property speaks
of one.

## 3. Runs

A property of a run is a formula of its own or the conjunction of the named properties of one
component (`DrillSafe`, `KeySafe`, `MembersSafe`, ...); the parts, each with its comment, stand
above it in the module, and are named in the table.

| Run | Instance | Shows |
|---|---|---|
| `drill_clean` | no fault, two assertions, any dump, fair | row, PDF, data and announcement agree (`OutcomeAgrees`: `VerdictAgrees`, `OneTerminalEvent`), the drill ends with no sandbox (`Settles`), and the pipeline implements `DrillLifecycle` (`ImplementsLifecycle`) |
| `drill_fly` | Fly runner, two machines, any two failed statements or timeouts, a vanishing dump, one regeneration, three jobs | `TypeOK` and `Causality`, the inductive invariant of the proofs; `DrillSafe`: success means evidence, hash and restore (`EvidenceBeforeSuccess`, `SucceededWasRestored`), no data before the hash (`AnchorBeforeRestore`), the handle is always found (`SandboxRecorded`) |
| `drill_crash` | local runner, an assertion that may fail, one crash anywhere, three jobs, fair | `SettlesAfterCrash`: the drill still ends and its recorded sandbox is destroyed; only one whose creator died before the first job was inserted stays pending, without a sandbox |
| `heartbeats` | a monitor, two pings, two sweepers, two creates, edits, a lost announcement or an unread list, fair | `HeartbeatSafe`: no transition announced twice (`OneAlertPerEdge`), the cap overshoots only by who raced or could not count (`MonitorGate`); active monitors have the deadline of their last sign of life unless a late ping set it back (`ActiveIsArmed`), and only those go down too early (`NoFalseAlarm`); `NothingIsMissed`: silence is found and transitions are announced (`SilenceIsFound`, `EveryEdgeIsTold`) |
| `schedule` | two overlapping ticks, one edit, one change of plan, fair | `OneDrillPerSlot`, `NoDrift`, and `PlanRespected`: no fire beyond the plan after a downgrade (`FiresWithinPlan`), no target stays due (`NothingStaysDue`) |
| `drill_requests` | two requests of any origin, a tick, one fault | drills are queued at most once (`QueuedOnce`), and an API client that got a 201 has a queued drill (`AcceptedIsQueued`) |
| `vault_keys` | one drill, two writers, a reader, S3, one change or loss of the master key, an early purge | `KeySafe`: evidence stays readable until the purge (`StaysReadable`), no key after the account is gone (`Erased`), no shredding in the grace (`GraceKept`); `EvidenceSound`: signature and file match (`SignedFile`), no unfounded "tampered" (`NoFalseAccusation`) |
| `vault_erasure` | two drills, a writer, a reader, local files, any one failure, fair | nothing goes before its time (`KeptUntilExpiry`) and a scheduled erasure happens (`ErasureHappens`); the sweep and the purge may fail half way |
| `notifications` | overlapping fan-outs and an owner's edits of the monitor; or one fan-out to several endpoints with retries, replays, a crash; or requests at the cap with a list that fails | `FanOutSafe`: `EveryChannelIsTried`, `BouncedIsNotMailed`, `IncidentAgrees`; `DeliverySafe`: `DeliveredWasAnswered`, `DuplicatesNeedCrash`, `SettledWhenDone`, `GateOvershoot`; a delivered row stays delivered (`DeliveredIsFinal`) |
| `billing` | two subscriptions, with a plan behind an add-on or no known price, three events, two webhook requests, two checkouts, one fault | `OnceOnly`: each event applied once, one customer, unit and refund (`AppliedOnce`, `KeyedOnce`); the newest event shown (`NewestShown`), no demotion but by a deletion or by items without a plan's price (`DemotedWithReason`), `PlanLedger` implemented (`ImplementsLedger`) |
| `access` | three users, five requests; three calls of a sign-in; three sign-ups in two tabs; two flows and two callbacks; two requests through the middleware | `MembersSafe`: an owner, seats, joins by invitation, scope, no dead team. `SignInSafe`: no way round MFA, codes and challenges once, throttle, impersonation returns. `SignUpSafe`: one home, sessions land there, best effort is kept. `OAuthSafe`: own flow, own step-up, tabs apart. `GatewaySafe`: served by rights in the account it is served in (`ServedEntitled`), nobody with all rights turned away but by the trial gate from a `Tidies` route (`NeverTurnedAway`), link views counted (`ViewsCounted`) |
| `server` | see `Server.cfg` | `LimiterSafe`: window bound, retry gets in. `ListingSafe`: a walk is complete, no row twice. `CatalogSafe`: overshoot, one database per key, true replays, the sample is ready. `HandoverSafe`: genuine, evidence handed out verifies online while the server keeps its key, and offline with the published keys if its key is in use, the bundle is in scope. `VerdictsSafe` (`Checks`, `Readiness`): accepted runs, verdicts are true, one read-only statement, green is earned. `ProcessSafe` (`Boot`, `Flags`, `Devices`) and `JobTablesSafe` (`JobQueue`, `Retention`, `DataExport`): see the comments of their parts. `OnlyForward`: a score rises by proof only, a flag's answer is not lost |

Every property of a run has a mutant of the code's logic that breaks it (`mutants`).

**Bounds.** `Jobs` is the number of a drill's unfinished jobs: two for a chain without faults
(a worker and the job it inserts), one more for the duplicate a fault can leave. An insert waits
for a free row; `SettlesAfterCrash` assumes rows become free (`RowsSuffice`), which a database
grants. `MaxAttempts = 2` stands for River's 25: one retry and the discard are both reached.
`drill_fly` allows two faults; crashes are in `drill_crash` alone, because they multiply the states
most. `MaxSandboxes` is two for Fly: a lost answer or a retry makes one more. The instants of the
clocks are chosen so that a period, a grace and several slots pass; the scheduler has `Hourly = 1`
so that slots of one tick's length, a late tick and an exact hit all occur, and `MaxDrills` exceeds
the slots in `MaxTime`, so that no creator is held up by the bound. Clocks stop at `MaxTime`; the
liveness properties say what has happened by the time they rest there. In the vault two PDFs are a
report and a regeneration (or two first writers), one rotation gives an active and a retired key and
one loss, and `MaxAttempts` exceeds the failures a run allows, as River's 25 does; two drills make
HardDelete's loop longer than one step. Two requests at a time reach every race of a count and an
insert, and caps are set to one or two so that both meet them. Two seconds and three events give
Stripe's events every order and a tie. The limiter's burst, rate and ttl are small numbers that keep
the inequality of `LimiterAssumption`, with time for a bucket to be swept and used again; `Listing`
has pages shorter than the list and rows of one instant; `Readiness` jumps over its thresholds.
`CHECK_DEADLOCK FALSE` throughout: a finished drill, or a clock at its bound, may stop. Symmetry is
used for safety only; `drill_crash` orders the interchangeable rows by an action constraint instead
(`FirstFreeRow`), and lets a worker that only has to return do so first once the crash has happened
(`ReturnsFirst`), which commutes with everything else. `billing` has items with a plan behind an
add-on and items without a plan; `access` has five membership requests, and two web requests one
after the other, because they meet in the session's account only; `Server.cfg` reduces the export's
ten sections to five, one of each sort: members, databases, assertions on a database, drills on a
database, results on a drill.

**Fairness.** River claims available jobs and runs workers on (`WF` for the workers and for
`EnqueueDrill`), the sweeper and the scheduler are periodic jobs (`WF` per job), a ping request that
was accepted is handled, and time passes. In the vault the grace period ends and River runs a
scheduled purge and its statements (`WF` of `GracePasses` and of `HardDelete`). Nobody is obliged to
ping, to send a request, to edit or to fail. The other runs check safety only.

## 4. Where code and comments disagree

Behaviours the models have and that a property excepts, or that reading for the models showed.

*Drills.*
* `steps.go:591`: a crash between two statements of the report worker loses the failed verdict, and
  the drill ends succeeded, where `steps.go:546` says "any failed assertion" fails the drill.
* A restore that is retried, or run twice, on a sandbox that already holds data can pass assertions
  on a mixture of the two.
* `steps.go:243`: provision tears its sandbox down when `SetSandboxDB` fails and not when the
  following `MarkStepSucceeded` does; the retry creates a second machine, which line 234 says the
  clean-up prevents. A machine whose creation was not answered is forgotten.
* `steps.go:645`: a failed read of the sandbox handle makes teardown a no-op that is marked
  succeeded. `steps.go:663`: a failed `MarkDrillFailed` in teardown is dropped, and the drill stays
  running after its failure was announced.
* `steps.go:319`: a retry of a finished fetch whose dump has gone returns the error raw; River
  discards the job and the drill stays running. `DrillCrash.cfg` therefore keeps the dump.
* `admin.go:199`: evidence regenerated between report and teardown is rendered with the status
  "running", so the PDF of a drill that then succeeds says FAILED.
* `orchestrator.go:85-124`: a process that dies between the drill's row and the insert of its first
  job leaves the drill pending, and nothing looks for pending drills. `SettlesAfterCrash` excepts
  it.
* Only the first job of a drill carries its plan's priority (`drillInsertOpts` says "for a drill's
  jobs"); the jobs of later steps and a staff replay (`admin.go:162`) have River's highest.

*Schedules and creation.*
* `scheduler.go:100`: when `EnqueueDrill` fails once, or the process dies before it, the next tick
  finds the drill reused, skips the enqueue and advances: the slot is lost, where line 41 says a
  drill is enqueued "for every target whose schedule is due".
* `scheduler.go:96`, `admin.go:156`: scheduled and replayed drills skip `enforceDrillQuota`,
  through which "every create path" should pass (`drill_quota.go:37`), and `enforceDumpSize`; the
  quota is counted before the insert by each request for itself.
* `store.go:424`: `AdvanceTargetSchedule` overwrites a schedule saved since the tick's query with
  a slot of the old one. `NoDrift` speaks of schedules nobody edited.
* Migration `20260521000018`: its CHECK constraint lacks `monthly`, which every plan allows.
* `v1_drills.go:200`: two POSTs with one `Idempotency-Key` both call `EnqueueDrill`, so one drill
  gets two chains of jobs; `orchestrator.go:79` forbids that. `QueuedOnce` is about the others.
* `v1.go:226-241`: any error of the look-up of a stored answer, and not only the absence of a row,
  lets the request run again. `KeyedDatabase` counts these requests among the excused.
* `heartbeats.go:44`, `webhooks.go:33`, `account.go:41-42`, `drills.go:122`: the plan gates drop the
  error of the list they count, so after one failed read a lone request passes the cap. The bounds
  `MonitorGate`, `GateOvershoot`, `SeatOvershoot` and `DatabaseOvershoot` count such requests.
* `v1.go:96`: the 403 of a plan limit is captured under its `Idempotency-Key` and replayed after an
  upgrade. A key is good for 24 hours, after which the request is executed again.
* `v1CreateDatabase` leaves the assertions before the one that failed; the API counts the sample
  toward the limit and the web does not.
* A number that is no number in `expected_rows` or `min_rows` of the form is read as 0.

*Monitors and notifications.*
* `heartbeat/store.go:157`: a ping whose transaction began first and that waited for the row behind
  a later ping, or behind a resume, sets the deadline back, and the sweep may then report a monitor
  that was alive in time. `NoFalseAlarm` excepts the monitors in `setBack`.
* `heartbeat/store.go:264,271,281`: pausing, resuming or deleting a monitor that is down announces
  nothing, so its PagerDuty incident stays open until it is pinged again, after a deletion for good;
  `alerting.go:87` speaks of "a PagerDuty trigger/resolve keyed on the monitor". `IncidentAgrees`
  excepts `LeftDown`.
* `webhooks/dispatch.go:74`: the key of a fan-out ends in a random id, so a retried fan-out sends
  again; a delivery whose job could not be inserted stays pending.
* The alert feed's largest page goes past the store's maximum and comes back short and without a
  next cursor (`WalkComplete` excepts it).
* A late delete of a device by the same user undoes its new registration; the app's log-out keeps
  the device.

*Evidence and erasure.*
* Migration `20260525000023` line 10: `heartbeats.account_id` has no `ON DELETE`, so an account that
  ever had a monitor cannot be erased: every attempt fails after the evidence was shredded, where
  `purge.go:74` describes a cascade. The runs of the vault have no monitors.
* `purge.go:162`: a job that fires early ends without an error, and nothing schedules another:
  "safe" (line 154) for the data, but the account is never erased. `ErasureHappens` excepts it.
* `purge.go:87`: a job that runs again after the account is gone gets "load account", which is not
  `ErrNotEligible`, and is retried until it is discarded; line 163 says "already purged — done,
  don't retry". `compliance.go:65`: a failed insert of the job is only logged.
* `service.go:209`: evidence regenerated between the sweep's query and its deletes is deleted
  although its horizon is new, where line 182 says "nothing is removed before retain_until".
* `service.go:51`: two `Finalize` of one drill can leave the file of one and the signature of the
  other, so that the evidence never verifies. `SignedFile` excepts these drills.
* `cipher.go:157`: a reader that loaded the key before the purge shredded it writes it back over a
  key minted in between, so a destroyed key is in the database again until the account row goes;
  `purge.go:118` calls the files "permanently undecryptable" from the shredding on.
* `service.go:144`: a failed read of the key's row, or a missing S3 object, is reported as
  "tampered file?". `share.go:56` passes an empty key to `Verify`, so the public page never
  verifies.
* `manifest.csv` of the evidence bundle is empty whenever a report is included; `dokaz-verify` reads
  the first PEM block of a key file only; the ephemeral signer is "never for production" in
  `sign.go` and only warned about there.
* The sections of the export are read one after the other without a transaction: what is deleted
  before its section is read is missing, and a row may be there without the one it refers to.
  `ExportCovers` says which. The export calls itself "everything held for an account" and has no
  heartbeats, teams, invitations, API keys or share links.

*Accounts, billing, access.*
* `billing.go:215`: an event is recorded as seen before it is applied, so one whose change fails is
  not applied by Stripe's retry. `NewestShown` excepts it.
* `billing.go:244-250`: an event of a subscription none of whose prices is in the configuration sets
  the account to the trial, though it pays. `DemotedWithReason` excepts these events.
* `webhook.go:125-128`, with the test `webhook_test.go:84`, says that past_due, unpaid and paused
  subscriptions drop to the trial; `SubscriptionActive` is never called, and the handler keeps the
  plan (`billing.go:253`). The model does what the handler does.
* `TransferOwnership` reads both roles without the lock: a member removed in between leaves the
  account without an owner (`OwnerUnlessOrphaned` excepts exactly that); `UpdateMemberRole` accepts
  "owner", where the transfer says "exactly one owner".
* `oauth.go:114`: an open step-up turns an ordinary callback away for as long as its marker lives.
* `handlers.go:207`: the trial gate is to stop only what would "create or run anything", and stands
  before `assertionDelete`, `shareRevoke`, `heartbeatPause`, `heartbeatDelete` and two forms too
  (lines 440-466). `NeverTurnedAway` excepts them by name (`Tidies`).
* `context.go:165`: a failed membership look-up moves the session, for good, to another account of
  the user, and a form rendered for the one account is then handled in the other.
* `compliance.go:72` and `context.go:129` say that after a deletion the next request falls back to
  another account. `GetMembership` (`account/store.go:357`) does not ask whether the account is
  deleted, so the session stays on it and every page, `/account/switch` included, answers 403 until
  the next sign-in.
* `RequireAccount` answers 403 where its comment (`context.go:206`) says a 302 to `/account`; lists
  of the app and the API use `ScopeAll` where `drill/store.go:60` speaks of teams;
  `assertionDelete` and `shareRevoke` are not tied to the database or drill that was gated; share
  links live on in a soft-deleted account.
* `Retry-After` is rounded down, so a client that obeys it to the second may be refused once more.

## 5. Proofs

All for every value of the constants, from the named assumptions of each module (finiteness and
natural numbers; nothing about the bounds' size), so for any number of faults, jobs, monitors,
pings, ticks, requests, events and targets. Two hypotheses stand in the theorems that need them:
`NothingFails` (of `DrillPipeline`: no fault and no regeneration, as in `drill_clean`) and
`RunsAreShort` (of `Readiness`: less time can pass under a running drill than the window of 90
days, as in `Server.cfg`). Each inductive invariant was checked by TLC first, on the instance of
the module's run.

* `DrillPipelineProofs`. `TypeCorrect` first. None of the safety properties is inductive: that a
  teardown may mark success depends on what the report worker wrote before it inserted the job,
  which depends on assert, and so on back to fetch, with any job possibly running twice.
  `Causality` says it once: what a step's row (`StepFacts`), a job's existence (`JobFacts`) and a
  worker's program counter (`PcFacts`) each imply about the work done before. It is inductive with
  `TypeOK` (`StepsInOrder`, one step per action), and `EvidenceIsRecorded`,
  `SuccessMeansRestored`, `HashBeforeData` and `SandboxIsRecorded` are read off it; `DrillIsSafe`
  is all four.
  *When nothing fails* more holds, and `Causality` does not imply it: `OnCourse` says of the one
  job that is at work (`Busy`) which step it is (`AtProvision` to `AtTeardown`), what its worker's
  position implies of the rows, the sandbox, the results and the PDF, and that what lies ahead is
  untouched (`Ahead`); with no job at work the drill is not begun (`Fresh`) or done (`Over`). It is
  inductive (`StaysOnCourse`; TLC confirms it as one more invariant of `DrillClean.cfg`): a
  statement moves the worker within its step (`CourseStays`), the insert hands over to the next job
  and is the inserter's last statement but its return (`CourseHandsOver`), and a step that fails
  goes to teardown with a reason. `OutcomeIsAgreed` is read off it. `LifecycleIsKept`: by the same
  invariant every step of the pipeline is, under the mapping of the rows to `DrillLifecycle`, one
  of its steps or a stutter.
* `HeartbeatProofs`. `TypeCorrect`; `ActiveMonitorsLapse`: an active row has the deadline `heard +
  Period`, or an earlier one if it is in `setBack`, so the sweeper's query, which skips NULL
  deadlines, will find it; `SweeperIsRight`: the action property `NoFalseAlarm` from the same
  invariant, in which `heard` only grows while the deadline may move back. `AlertsAreEdges`: that
  the announcements made do not outnumber the transitions is not inductive, because a sweeper or a
  request between its commit and its dispatch will still make one; `Kept` counts those too (made +
  owed <= transitions). `MonitorsAreSafe` adds the cap: the monitors shown and the creates that
  have counted are together no more than the cap, the creates that counted at once and those that
  could not count.
* `DrillSchedulerProofs`. `TypeCorrect` with `Working` (a creator at a creating step works on a
  real target). `SlotsAreDrilledOnce`: `Keyed` says that keys are unique and that a scheduled
  drill's key is its target and slot. `DrillsAreQueuedOnce`: `Handed` says that a drill not made
  by the API has a job, or at most one creator about to queue it. Steps are first sorted into four
  sorts (`Quiet`, `Inserts`, `Reuses`, `Queues`), so each invariant is shown for four cases and
  not for every action. `AcceptedDrillsAreQueued`: a request that answers, or an answer that was
  captured under the key, has a queued drill behind it (`Accepted`). `TicksFireWithinPlan`: a tick
  under which the plan did not change holds cadences of the plan (`InPlan`). `SlotsDoNotDrift`:
  `Steady` says that a tick over an unedited schedule works at a slot in step with it; the rest is
  arithmetic on whole intervals.
* `EvidenceVaultProofs`. `TypeCorrect`; then `KeyInv`, which adds to the three properties what each
  actor holds: a process that loaded a wrapped key it can open has the current one (`KeyHeld`), the
  `evidence-keys` command still sees the row it classified (`CommandCurrent`), the purge is past
  the grace and shreds before it deletes (`ShredFirst`), and no configured master key opens an
  absent row (`MastersNumbered`). Without `KeyHeld` a writer could store a file under a key that
  lost the race of two first writers, or a re-wrap could put back a stale one.
  `EvidenceStaysReadable`, `ErasureIsFinal` and `GraceIsKept` are read off it; `KeysAreSafe` is the
  three. `EvidenceIsSound`: `FileInv` says that a drill outside `rivals` has one writer at most,
  that between its two writes the file is its own (`WritersAlone`, `RowOfFile`), and that a
  verification nobody disturbed holds row and file as they are (`ReadersCurrent`), so that each
  verdict of tampering has one of the causes the property names. `EvidenceIsKept`: the action
  property `KeptUntilExpiry`, from what the sweep selected (`SweepsExpired`).
* `BillingProofs`. `TypeCorrect` with `Typed`: a request at work holds an issued event.
  `EventsApplyOnce`: `SeenFirst` says who holds an event is alone, has recorded it and has not
  applied it. `KeysMakeOnce`: nothing was made under a key Stripe has not seen; `NothingTwice` is
  both. `RowIsLedger`: every step of `Billing` is a step of `PlanLedger` or leaves its variables
  alone, with the events that are not invoices for `issued`, `updated` for `stamp` and `<<plan,
  status>>` for `view`. `NewestIsShown`: `Shows` says that no recorded event is newer than the row
  unless a request still holds it or it was lost. `DemotionHasReason`:
  what `PlanOf` takes is the item with the least number among those with a plan's price, and there
  is a least one (`LeastNumber`, by the well-foundedness of the numbers), so it gives the trial only
  for items without any (`TrialIsUnknown`).
* `NotificationsProofs`. `NotifyInvariant`: where a fan-out is says which channels it has called
  and which are left, in the order of its event (`Place`); a row says what its job may do next
  (`RowKnown`) and who still has to queue it (`RowsHeld`); an endpoint has one row of a fan-out
  unless a fault made a second (`CopiesKnown` with `Owes`); PagerDuty's incident is what the last
  monitor event made it unless its fan-out is under way (`IncidentKnown`), which is why a monitor
  left down by its owner is an exception; endpoints and requests that have counted are within the
  cap, the race and the lists that failed (`GateKnown`). `FanOutsAreSafe`, `DeliveriesAreSafe` and
  the action property `DeliveredStays` follow.
* `AccessProofs`, about the specifications `SignUpSpec`, `MembersSpec`, `OAuthSpec`, `SignInSpec`
  and `GatewaySpec` that `MCAccess` hosts. `SignUpIsSafe`: the unique index lets one request past
  the insert, its *maker* (`OneMaker`); account, customer and staff flag are read off where that
  one is. `MembersAreSafe`: what a request knows of the rows it locked, and one accepted invitation
  per joined member (`VisitsKnow`). `OAuthIsSafe`: a cookie names a flow this browser began
  (`JarKnown`), and a callback holds what the browser held when it was opened (`HopsKnown`).
  `SignInIsSafe`: a session that is off stays off (`OffKnown`), an accepted code is spent
  (`CodesSpent`), a challenge has one completion (`RowsKnown`, `WebEnded`), and a session acting as
  another knows who it was (`SelfKnown`); the throttle counts the requests between check and
  record. `HandlersAreGuarded`: no right comes back while a request is on its way, so a request
  that arrived without one is *barred* (`Barred`): for each of the nine rights it may lack, the
  middleware that refuses it is still ahead, and the context that one will read was filled after
  the loss. This is said of each account the request may be brought to. Which middleware that is on
  which of the routes is `WaysKnown`. Conversely the context of a request on its way has every
  right that is still there (`Ready`), so that a refusal is just.
* `ServerProofs`, about the parts that `MCServer` hosts. `ServerRunsItsParts`: a behaviour of the
  server is one of each part, so that what follows holds in it (`VerdictsAreSafe`, `ProcessIsSafe`
  and `JobTablesAreSafe` are stated of the server).
  *Lists.* `WalksAreComplete`: every row of the beginning that the cursor has passed is listed, and
  nothing the cursor has not passed is (`ReaderPlace`); that a page is all there is, or full and
  ends at its cursor, is counted (`ShortPageIsAll`, `PageReachesCursor`), with the default page
  below the largest, as 50 and 200 are.
  *Databases.* `DatabasesAreSafe`: databases and requests about to insert are together within the
  limit, the race and the failed counts (`Room`), for each key too, with the look-ups that failed
  (`KeyRoom`), and what is kept of an answer, or on
  its way to be, is true of the database (`AnswersTrue`).
  *Evidence outside the house.* `EvidenceTravels`: every signature that is stored, on its way or in
  somebody's hands was made here (`Made`), of a rendering made here and of a time that the column
  keeps (`CutIsKept`); the published keys are in order and begin with the active one
  (`KeysInOrder`).
  *Verdicts.* `VerdictsAreTrue`: what was accepted is one read-only statement (`SpecKnown`), and an
  error concludes nothing; `BadgesAreEarned`: the score is a sum of three parts over one
  denominator, and 80 of 100 leaves no part out (`SumBounds`, exact arithmetic on fractions).
  `ScoreRisesByProof`: the sum is monotone in the share of passed drills, in the freshness and in
  the last outcome (`SumMonotone`), and a wait, a start or a failure raises none of them
  (`SharePasses`, `FreshFalls`). One case needs `RunsAreShort`, which with `RunsInv` puts every
  drill that ends in the window: a target's first drill that failed after more than 90 days would
  be a drill that ended and none of the recent ones, and the code then takes the passing share as
  a half, so the score would rise from 0. With `AnswersAreKept` it is `ServerOnlyForward`.
  *The process.* `ServesOnlyWhenUp`: how far main has come, or which deferred calls are left, says
  what is up (`BootInv`); `FlagsAreRefreshed` and the action property `AnswersAreKept`;
  `PhonesRing`: a late delete takes a row from its own user only.
  *Job tables.* `QueueIsFair`: a drill that waits for its first worker has its plan's priority,
  and one that passed the size check keeps passing it unless its dump grew; `SweepIsUnseen`: what
  the running sweep has behind it is pruned (`SweptInOrder`); `ExportsCover`: the document has of
  the sections read all that was there at the beginning and was not deleted before, and what a row
  hangs on was read before it (`ParentBefore`).
  *The limiter.* `TypeCorrect`: no bucket holds more than the burst. `WindowIsBounded`: `Balance`
  keeps the account of a bucket; the case that needs the assumption
  `Burst * Cost <= PerMinute * Ttl` is the sweep, after which the rate alone must have paid for all
  that was let through. `RetriesGetIn`: `Promise` says that the bucket of a refused address holds a
  token one second after the time it was told, by the bound on the quotient. `LimiterIsSafe` is the
  three.

Only model-checked: all liveness (`Settles`, `SettlesAfterCrash`, `SilenceIsFound`,
`EveryEdgeIsTold`, `NothingStaysDue`, `ErasureHappens`), and with it the fairness half of the
refinement `ImplementsLifecycle`. Liveness under fairness (`ENABLED`), induction over data and
recursive operators are beyond the provers used here, and stay with TLC; the modules that are
proved about declare no recursive operator.

## 6. Plan

Every part of the server that keeps state has a module, and every safety and action property that
a run checks has a theorem. What is left: `DrillPipeline`'s one-step `Finalize` refined by the
vault's.

## 7. Not modelled

The bytes of AES-GCM, Ed25519, HMAC and TOTP (signatures and codes are symbolic), password hashing,
the layout of the PDF and the texts of mails and payloads, SQL execution inside assertions (a query
is what its validation and its result tell apart), the HTTP clients of outside services (what their
failure does to the state is modelled), what each handler writes to the audit log, logs, metrics,
traces and analytics, static pages, the values of the configuration that are only passed on, the
development tools and the Flutter app. The `*_templ.go` files, two fifths of the Go code, are
generated from templates: they render and change no state. `PROJECT.json` gives the reason for each
part.
