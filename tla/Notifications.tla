--------------------------- MODULE Notifications ---------------------------
(***************************************************************************)
(* How an event of one account reaches people and machines: the dispatcher *)
(* and delivery worker of internal/webhooks, the notifier fan-outs of       *)
(* internal/drill and internal/heartbeat with their mail, push and          *)
(* Slack/PagerDuty channels, and the pages that administer them.            *)
(*                                                                         *)
(* An emitter is whoever announces an event: the sweeper, a ping request or *)
(* the teardown job of a drill.  It first creates and queues one webhook    *)
(* delivery per endpoint, then calls the notifiers one after the other.     *)
(* Every database statement, queue insert and HTTP call that another actor  *)
(* can come between is an action; each may fail.  Payloads, wording, audit  *)
(* rows and metrics are left out.  Devices and their access tokens are one  *)
(* push call that works or fails.                                           *)
(***************************************************************************)
EXTENDS Naturals, Sequences, FiniteSets

CONSTANTS
    Endpoints,     \* webhook endpoints that can be registered
    Members,       \* members of the account, by their address
    Owner,         \* the member who owns it
    Emitters,      \* fan-outs that can run at the same time
    Requests,      \* page requests that can run at the same time
    Limit,         \* the plan's cap on endpoints
    MaxRows,       \* bound: rows of webhook_deliveries
    MaxAttempts,   \* River's attempts per job
    MaxEvents,     \* bound: fan-outs
    MaxEdits,      \* bound: page requests and bounces
    MaxFaults      \* bound: failed statements and calls, crashes

ASSUME NotificationsAssumption ==
    /\ IsFiniteSet(Endpoints) /\ IsFiniteSet(Requests) /\ Requests # {}
    /\ Owner \in Members
    /\ Limit \in Nat \ {0}
    /\ MaxRows \in Nat /\ MaxAttempts \in Nat \ {0}
    /\ MaxEvents \in Nat /\ MaxEdits \in Nat /\ MaxFaults \in Nat

Rows == 1 .. MaxRows
HeartbeatEvents == {"down", "up"}
Events == HeartbeatEvents \cup {"failed", "completed"}
Monitored == {"new", "up", "down", "paused", "deleted"}
Nobody == "nobody"

VARIABLES
    monitor,       \* the heartbeat monitor: its status, and its last event (history)
    em,            \* what each emitter is doing
    endpoint,      \* webhook_endpoints: "none", "live" or "deleted"
    row,           \* webhook_deliveries: its endpoint, fan-out and status
    job, attempt,  \* the River job of a row, and how often it was tried
    work,          \* where the delivery worker of a row is
    answered,      \* rows whose receiver answered 2xx to some POST
    pager,         \* account_alert_channels: whether a PagerDuty key is set
    incident,      \* whether PagerDuty has an open incident of the monitor
    suppressed,    \* email_suppressions
    req,           \* what each page request is doing
    fanouts, edits, faults,
    uncounted,     \* history: requests that passed a full gate because the list failed
    clean          \* history: monitor fan-outs never overlapped, and the
                   \* PagerDuty key never changed

emitVars == <<monitor, em, incident, fanouts, clean>>
hookVars == <<endpoint, row, job, attempt, work, answered>>
pageVars == <<pager, suppressed, req, edits, uncounted>>
vars == <<emitVars, hookVars, pageVars, faults>>

Works == faults' = faults
Fails == faults < MaxFaults /\ faults' = faults + 1

\* A call whose failure is logged and never returned: the alert posts, and the
\* FCM sender, which goes on to the next device.
PostAlert == Works \/ Fails
FcmSend == Works \/ Fails

Idle == [pc |-> "idle", event |-> "none", fan |-> 0, todo |-> {}, row |-> 0,
         rest |-> <<>>, to |-> {}, member |-> Nobody, known |-> {},
         tried |-> {}]
NoRequest == [pc |-> "idle", row |-> 0, next |-> FALSE]
NoRow == [ep |-> Nobody, fan |-> 0, status |-> "none"]

LiveEndpoints == {e \in Endpoints : endpoint[e] = "live"}
FreeRow(r) == row[r] = NoRow /\ \A s \in Rows : s < r => row[s] # NoRow

Init ==
    /\ monitor = [status |-> "up", last |-> "up"] /\ em = [p \in Emitters |-> Idle]
    /\ incident = FALSE /\ fanouts = 0 /\ clean = TRUE
    /\ \E live \in SUBSET Endpoints :
          /\ Cardinality(live) <= Limit
          /\ endpoint = [e \in Endpoints |-> IF e \in live THEN "live" ELSE "none"]
    /\ row = [r \in Rows |-> NoRow] /\ job = [r \in Rows |-> "none"]
    /\ attempt = [r \in Rows |-> 0] /\ work = [r \in Rows |-> "idle"]
    /\ answered = {}
    /\ pager \in BOOLEAN /\ suppressed = {}
    /\ req = [q \in Requests |-> NoRequest]
    /\ edits = 0 /\ faults = 0 /\ uncounted = 0

-----------------------------------------------------------------------------
(* The fan-out of one event *)

\* main.go wires the notifiers in this order; teardown and the heartbeat code
\* both dispatch the webhooks before they call the notifier.
ChannelOrder(e) == IF e \in HeartbeatEvents THEN <<"mail", "push", "alerts">>
                   ELSE <<"push", "alerts", "mail">>

\* Emitter m calls channel c.
Try(m, c) == [m EXCEPT !.tried = @ \cup {c}]

\* Emitter m goes on to its next channel, whatever became of the last one.
NextChannel(m) ==
    [m EXCEPT !.pc = IF m.rest = <<>> THEN "end" ELSE Head(m.rest),
              !.rest = IF m.rest = <<>> THEN m.rest ELSE Tail(m.rest),
              !.todo = {}, !.row = 0, !.to = {}, !.member = Nobody]

\* The fan-out of the n-th event begins.
Started(e, n) == [Idle EXCEPT !.pc = "hooks", !.event = e, !.fan = n,
                              !.rest = ChannelOrder(e), !.known = suppressed]

\* A monitor's edge (any status the row had, RecordPing and MarkOverdueDown), committed before
\* it is announced, or a drill's end.
Announce(p, e) ==
    /\ em[p].pc = "idle" /\ fanouts < MaxEvents
    /\ IF e \in HeartbeatEvents
       THEN /\ monitor.status \notin {e, "deleted"}
            /\ monitor' = [status |-> e, last |-> e]
            /\ clean' = (clean /\ \A q \in Emitters :
                           em[q].event \in HeartbeatEvents => em[q].pc = "end")
       ELSE UNCHANGED <<monitor, clean>>
    /\ fanouts' = fanouts + 1
    /\ em' = [em EXCEPT ![p] = Started(e, fanouts + 1)]
    /\ UNCHANGED <<incident, hookVars, pageVars, faults>>

\* Dispatch: which endpoints the event goes to.
ListEnabledEndpoints(p) ==
    /\ em[p].pc = "hooks"
    /\ LET m == Try(em[p], "hooks") IN
       \/ Works /\ em' = [em EXCEPT ![p] =
             IF LiveEndpoints = {} THEN NextChannel(m)
             ELSE [m EXCEPT !.pc = "rows", !.todo = LiveEndpoints]]
       \/ Fails /\ em' = [em EXCEPT ![p] = NextChannel(m)]
    /\ UNCHANGED <<monitor, incident, fanouts, clean, hookVars, pageVars>>

\* Dispatch: the next endpoint's row; its key ends in a fresh id, so that a
\* second dispatch of the event creates a second row.
CreateDelivery(p, e) ==
    /\ em[p].pc = "rows" /\ e \in em[p].todo
    /\ \/ \E r \in Rows :
            /\ Works /\ FreeRow(r)
            /\ row' = [row EXCEPT ![r] = [ep |-> e, fan |-> em[p].fan, status |-> "pending"]]
            /\ em' = [em EXCEPT ![p].pc = "insert", ![p].row = r]
       \/ /\ Fails /\ UNCHANGED row
          /\ em' = [em EXCEPT ![p] = NextChannel(@)]
    /\ UNCHANGED <<monitor, incident, fanouts, clean, endpoint, job, attempt, work,
                   answered, pageVars>>

\* Mutant: the endpoint is served again.
InsertDelivery_KeepsEndpoint(p) ==
    LET r == em[p].row
        left == em[p].todo
    IN /\ em[p].pc = "insert"
       /\ \/ /\ Works /\ job' = [job EXCEPT ![r] = "available"]
             /\ em' = [em EXCEPT ![p] = IF left = {} THEN NextChannel(@)
                          ELSE [@ EXCEPT !.pc = "rows", !.todo = left, !.row = 0]]
          \/ /\ Fails /\ UNCHANGED job
             /\ em' = [em EXCEPT ![p] = NextChannel(@)]
       /\ UNCHANGED <<monitor, incident, fanouts, clean, endpoint, row, attempt, work,
                      answered, pageVars>>
\* Dispatch: the row's job; an error ends the dispatch, later endpoints included.
InsertDelivery(p) ==
    LET r == em[p].row
        left == em[p].todo \ {row[r].ep}
    IN /\ em[p].pc = "insert"
       /\ \/ /\ Works /\ job' = [job EXCEPT ![r] = "available"]
             /\ em' = [em EXCEPT ![p] = IF left = {} THEN NextChannel(@)
                          ELSE [@ EXCEPT !.pc = "rows", !.todo = left, !.row = 0]]
          \/ /\ Fails /\ UNCHANGED job
             /\ em' = [em EXCEPT ![p] = NextChannel(@)]
       /\ UNCHANGED <<monitor, incident, fanouts, clean, endpoint, row, attempt, work,
                      answered, pageVars>>

\* One member has been dealt with; the mail channel ends with the last.
MailedTo(m) ==
    IF m.to \subseteq {m.member} THEN NextChannel(m)
    ELSE [m EXCEPT !.pc = "mailing", !.to = @ \ {m.member}, !.member = Nobody]

\* A monitor's edge is mailed to every member, a drill's end to the owner.
Recipients(p) ==
    /\ em[p].pc = "mail"
    /\ LET m == Try(em[p], "mail") IN
       \/ Works /\ em' = [em EXCEPT ![p] = [m EXCEPT !.pc = "mailing",
             !.to = IF m.event \in HeartbeatEvents THEN Members ELSE {Owner}]]
       \/ Fails /\ em' = [em EXCEPT ![p] = NextChannel(m)]
    /\ UNCHANGED <<monitor, incident, fanouts, clean, hookVars, pageVars>>

\* Mailer.Send, before the provider is called.
IsSuppressed(p, a) ==
    /\ em[p].pc = "mailing" /\ a \in em[p].to
    /\ LET m == [em[p] EXCEPT !.member = a] IN
       \/ Works /\ a \notin suppressed /\ em' = [em EXCEPT ![p] = [m EXCEPT !.pc = "send"]]
       \/ Works /\ a \in suppressed /\ em' = [em EXCEPT ![p] = MailedTo(m)]
       \/ Fails /\ em' = [em EXCEPT ![p] = MailedTo(m)]
    /\ UNCHANGED <<monitor, incident, fanouts, clean, hookVars, pageVars>>

\* Mailer.Send: the provider takes the message or not; the loop goes on.
Send(p) ==
    /\ em[p].pc = "send"
    /\ Works \/ Fails
    /\ em' = [em EXCEPT ![p] = MailedTo(@)]
    /\ UNCHANGED <<monitor, incident, fanouts, clean, hookVars, pageVars>>

\* The account's devices are read and sent to; one failure is the channel's.
Push(p) ==
    /\ em[p].pc = "push"
    /\ FcmSend
    /\ em' = [em EXCEPT ![p] = NextChannel(Try(@, "push"))]
    /\ UNCHANGED <<monitor, incident, fanouts, clean, hookVars, pageVars>>

\* The alert channels as they are now, and the Slack message, which may get
\* lost; a failed read counts as an account without channels.
Slack(p) ==
    /\ em[p].pc = "alerts"
    /\ LET m == Try(em[p], "alerts") IN
       \/ /\ PostAlert
          /\ em' = [em EXCEPT ![p] = IF m.event # "completed" /\ pager
                                     THEN [m EXCEPT !.pc = "pager"] ELSE NextChannel(m)]
       \/ Fails /\ em' = [em EXCEPT ![p] = NextChannel(m)]
    /\ UNCHANGED <<monitor, incident, fanouts, clean, hookVars, pageVars>>

\* Mutant: a recovery does not resolve the incident.
PagerDuty_NeverResolves(p) ==
    /\ em[p].pc = "pager" /\ Works
    /\ incident' = (incident \/ em[p].event = "down")
    /\ em' = [em EXCEPT ![p] = NextChannel(@)]
    /\ UNCHANGED <<monitor, fanouts, clean, hookVars, pageVars>>
\* The PagerDuty event: "down" triggers and "up" resolves the incident keyed on
\* the monitor; a failed drill triggers one of its own.
PagerDuty(p) ==
    /\ em[p].pc = "pager"
    /\ \/ /\ Works
          /\ incident' = IF em[p].event \in HeartbeatEvents THEN em[p].event = "down"
                         ELSE incident
          /\ em' = [em EXCEPT ![p] = NextChannel(@)]
       \/ Fails /\ em' = [em EXCEPT ![p] = NextChannel(@)]
                /\ UNCHANGED incident
    /\ UNCHANGED <<monitor, fanouts, clean, hookVars, pageVars>>

\* The request is answered or the job completed.
Finish(p) ==
    /\ em[p].pc = "end" /\ em' = [em EXCEPT ![p] = Idle]
    /\ UNCHANGED <<monitor, incident, fanouts, clean, hookVars, pageVars, faults>>

-----------------------------------------------------------------------------
(* The delivery worker: webhook.deliver jobs, tried again when they return  *)
(* an error and when the process died under them.                           *)

EndpointExists(e) == endpoint[e] = "live"

\* Mutant: a delivered row is sent again.
Loaded_AnyStatus(r) == IF EndpointExists(row[r].ep) THEN "post" ELSE "gone"
\* River hands the job to a worker, which reads the row and its endpoint.  A
\* delivered row ends the job; an endpoint that cannot be read counts as deleted.
Loaded(r) == IF row[r].status = "delivered" THEN "done"
             ELSE IF EndpointExists(row[r].ep) THEN "post" ELSE "gone"

Fetch(r) ==
    /\ job[r] = "available"
    /\ job' = [job EXCEPT ![r] = "running"] /\ attempt' = [attempt EXCEPT ![r] = @ + 1]
    /\ \/ Works /\ work' = [work EXCEPT ![r] = Loaded(r)]
       \/ Fails /\ work' = [work EXCEPT ![r] = "error"]
       \/ Fails /\ row[r].status # "delivered" /\ work' = [work EXCEPT ![r] = "gone"]
    /\ UNCHANGED <<emitVars, endpoint, row, answered, pageVars>>

\* The receiver answers 2xx, answers 2xx and the answer is lost, or refuses.
Post(r) ==
    /\ work[r] = "post"
    /\ \/ answered' = answered \cup {r} /\ \E w \in {"sent", "refused"} :
             work' = [work EXCEPT ![r] = w]
       \/ UNCHANGED answered /\ work' = [work EXCEPT ![r] = "refused"]
    /\ UNCHANGED <<emitVars, endpoint, row, job, attempt, pageVars, faults>>

\* Only a refusal is returned as an error for River to retry, or a row that
\* could not be written.
RecordAttempt(r) ==
    /\ work[r] \in {"sent", "refused", "gone"}
    /\ \/ /\ Works
          /\ row' = [row EXCEPT ![r].status = IF work[r] = "sent" THEN "delivered" ELSE "failed"]
          /\ work' = [work EXCEPT ![r] = IF work[r] = "refused" THEN "error" ELSE "done"]
       \/ Fails /\ work' = [work EXCEPT ![r] = "error"] /\ UNCHANGED row
    /\ UNCHANGED <<emitVars, endpoint, job, attempt, answered, pageVars>>

\* What River makes of a job whose attempt ended in an error or a crash.
Retried(r) == IF attempt[r] < MaxAttempts THEN "available" ELSE "discarded"

Return(r) ==
    /\ work[r] \in {"done", "error"}
    /\ work' = [work EXCEPT ![r] = "idle"]
    /\ job' = [job EXCEPT ![r] = IF work[r] = "done" THEN "completed" ELSE Retried(r)]
    /\ UNCHANGED <<emitVars, endpoint, row, attempt, answered, pageVars, faults>>

-----------------------------------------------------------------------------
(* The pages *)

Edit == edits < MaxEdits /\ edits' = edits + 1

\* Pause, Resume and Delete write the row whatever its status is, and announce nothing.
MonitorEdited ==
    /\ Edit /\ monitor.status # "deleted"
    /\ \E s \in {"paused", "new", "deleted"} : monitor' = [monitor EXCEPT !.status = s]
    /\ UNCHANGED <<em, incident, fanouts, clean, hookVars, pager, suppressed, req, faults,
                   uncounted>>

\* webhookCreate counts the endpoints; a list that cannot be read counts as empty ...
WebhookCreate(q) ==
    /\ Edit /\ req[q].pc = "idle"
    /\ IF Cardinality(LiveEndpoints) < Limit THEN Works /\ UNCHANGED uncounted
       ELSE Fails /\ uncounted' = uncounted + 1
    /\ req' = [req EXCEPT ![q].pc = "create"]
    /\ UNCHANGED <<emitVars, hookVars, pager, suppressed>>

\* ... and later inserts its own.
CreateEndpoint(q, e) ==
    /\ req[q].pc = "create" /\ endpoint[e] = "none"
    /\ endpoint' = [endpoint EXCEPT ![e] = "live"]
    /\ req' = [req EXCEPT ![q] = NoRequest]
    /\ UNCHANGED <<emitVars, row, job, attempt, work, answered, pager, suppressed,
                   edits, faults, uncounted>>

WebhookDelete(e) ==
    /\ Edit /\ endpoint[e] = "live"
    /\ endpoint' = [endpoint EXCEPT ![e] = "deleted"]
    /\ UNCHANGED <<emitVars, row, job, attempt, work, answered, pager, suppressed,
                   req, faults, uncounted>>

\* webhookReplay copies a row of any status, its endpoint deleted or not ...
WebhookReplay(q, d) ==
    /\ Edit /\ req[q].pc = "idle" /\ row[d] # NoRow
    /\ \E r \in Rows :
          /\ FreeRow(r)
          /\ row' = [row EXCEPT ![r] = [ep |-> row[d].ep, fan |-> 0, status |-> "pending"]]
          /\ req' = [req EXCEPT ![q].pc = "enqueue", ![q].row = r]
    /\ UNCHANGED <<emitVars, endpoint, job, attempt, work, answered, pager,
                   suppressed, faults, uncounted>>

\* ... and queues the copy.
Enqueue(q) ==
    /\ req[q].pc = "enqueue"
    /\ \/ Works /\ job' = [job EXCEPT ![req[q].row] = "available"]
       \/ Fails /\ UNCHANGED job
    /\ req' = [req EXCEPT ![q] = NoRequest]
    /\ UNCHANGED <<emitVars, endpoint, row, attempt, work, answered, pager,
                   suppressed, edits, uncounted>>

\* alertChannelsSave reads the channels and applies the form to what it read:
\* the key is kept, cleared or set ...
AlertChannelsSave(q) ==
    /\ Edit /\ req[q].pc = "idle"
    /\ \E key \in {pager, TRUE, FALSE} :
          req' = [req EXCEPT ![q].pc = "save", ![q].next = key]
    /\ UNCHANGED <<emitVars, hookVars, pager, suppressed, faults, uncounted>>

\* ... and writes the whole row.
SetChannels(q) ==
    /\ req[q].pc = "save"
    /\ pager' = req[q].next /\ req' = [req EXCEPT ![q] = NoRequest]
    /\ clean' = (clean /\ pager' = pager)
    /\ UNCHANGED <<monitor, em, incident, fanouts, hookVars, suppressed, edits, faults, uncounted>>

\* Postmark reports a bounce or a complaint.
PostmarkBounce(a) ==
    /\ Edit /\ suppressed' = suppressed \cup {a}
    /\ UNCHANGED <<emitVars, hookVars, pager, req, faults, uncounted>>

\* The process dies: requests and monitor fan-outs end where they are; a drill's
\* teardown job and the deliveries are tried again.
Crash ==
    /\ Fails
    /\ em' = [p \in Emitters |-> IF em[p].event \in {"failed", "completed"}
                THEN Started(em[p].event, em[p].fan) ELSE Idle]
    /\ job' = [r \in Rows |-> IF job[r] = "running" THEN Retried(r) ELSE job[r]]
    /\ work' = [r \in Rows |-> "idle"]
    /\ req' = [q \in Requests |-> NoRequest]
    /\ UNCHANGED <<monitor, incident, fanouts, clean, endpoint, row, attempt, answered,
                   pager, suppressed, edits, uncounted>>

-----------------------------------------------------------------------------
Emit(p) ==
    \/ \E e \in Events : Announce(p, e)
    \/ ListEnabledEndpoints(p) \/ InsertDelivery(p)
    \/ \E e \in Endpoints : CreateDelivery(p, e)
    \/ Recipients(p) \/ Send(p) \/ \E a \in Members : IsSuppressed(p, a)
    \/ Push(p) \/ Slack(p) \/ PagerDuty(p) \/ Finish(p)

Deliver(r) ==
    \/ Fetch(r) \/ Post(r) \/ RecordAttempt(r) \/ Return(r)

Page(q) ==
    \/ WebhookCreate(q) \/ AlertChannelsSave(q) \/ SetChannels(q) \/ Enqueue(q)
    \/ \E e \in Endpoints : CreateEndpoint(q, e)
    \/ \E d \in Rows : WebhookReplay(q, d)

Next ==
    \/ \E p \in Emitters : Emit(p)
    \/ \E r \in Rows : Deliver(r)
    \/ \E q \in Requests : Page(q)
    \/ MonitorEdited \/ \E e \in Endpoints : WebhookDelete(e)
    \/ \E a \in Members : PostmarkBounce(a)
    \/ Crash

Spec == Init /\ [][Next]_vars
-----------------------------------------------------------------------------
TypeOK ==
    /\ monitor \in [status : Monitored, last : HeartbeatEvents] /\ incident \in BOOLEAN /\ clean \in BOOLEAN
    /\ \A p \in Emitters :
          /\ em[p].pc \in {"idle", "hooks", "rows", "insert", "mail", "mailing", "send",
                           "push", "alerts", "pager", "end"}
          /\ em[p].event \in Events \cup {"none"} /\ em[p].fan \in 0 .. MaxEvents
          /\ em[p].todo \subseteq Endpoints /\ em[p].row \in Rows \cup {0}
          /\ em[p].to \subseteq Members /\ em[p].member \in Members \cup {Nobody}
    /\ endpoint \in [Endpoints -> {"none", "live", "deleted"}]
    /\ row \in [Rows -> [ep : Endpoints \cup {Nobody}, fan : 0 .. MaxEvents,
                         status : {"none", "pending", "delivered", "failed"}]]
    /\ job \in [Rows -> {"none", "available", "running", "completed", "discarded"}]
    /\ attempt \in [Rows -> 0 .. MaxAttempts]
    /\ work \in [Rows -> {"idle", "post", "sent", "refused", "gone",
                          "done", "error"}]
    /\ answered \subseteq Rows /\ pager \in BOOLEAN /\ suppressed \subseteq Members
    /\ req \in [Requests -> [pc : {"idle", "create", "enqueue", "save"},
                             row : Rows \cup {0}, next : BOOLEAN]]
    /\ fanouts \in 0 .. MaxEvents /\ edits \in 0 .. MaxEdits /\ faults \in 0 .. MaxFaults
    /\ uncounted \in 0 .. faults

\* worker.go:126: a row says "delivered" only when its receiver has answered 2xx
\* to that very row, however often the job was tried, lost or replayed.
DeliveredWasAnswered == \A r \in Rows : row[r].status = "delivered" => r \in answered

\* worker.go:109: a delivered row stays delivered; an attempt that is repeated
\* after a crash finds it so and sends nothing.
DeliveredIsFinal ==
    [][\A r \in Rows : row[r].status = "delivered" => row'[r].status = "delivered"]_vars

\* worker.go:114: when River is done with a delivery the row says what became of
\* it, its endpoint deleted or its worker killed (fewer faults than attempts).
SettledWhenDone ==
    faults < MaxAttempts =>
        \A r \in Rows : job[r] \in {"completed", "discarded"} =>
                           row[r].status \in {"delivered", "failed"}

\* dispatch.go:74: an event has one delivery per endpoint, and one more for every
\* time its fan-out was started again: a retried teardown job sends twice.
DuplicatesNeedCrash ==
    \A e \in Endpoints, n \in 1 .. MaxEvents :
        Cardinality({r \in Rows : row[r].ep = e /\ row[r].fan = n}) <= 1 + faults

\* drill/notifier.go, heartbeat/multinotifier.go: a fan-out that comes to its end
\* has called every channel, whichever of them failed.
EveryChannelIsTried ==
    \A p \in Emitters : em[p].pc = "end" =>
        em[p].tried = {"hooks", "mail", "push", "alerts"}

\* email.go:49: an address that had bounced before a fan-out began is not mailed
\* by it; one that bounces meanwhile may still get the message in flight.
BouncedIsNotMailed ==
    \A p \in Emitters : em[p].pc = "send" => em[p].member \notin em[p].known

\* The owner paused, resumed or deleted the monitor while it was down, and it has not gone up
\* or down since.
LeftDown == monitor.status \in {"new", "paused", "deleted"} /\ monitor.last = "down"

\* alerting.go:83: when nothing is being announced, PagerDuty's incident is open exactly while
\* the monitor is down, if no call failed, the key stayed the same and no two fan-outs of the
\* monitor overlapped; and after it was left down: nobody resolves the incident then.
IncidentAgrees ==
    (clean /\ faults = 0 /\ pager
       /\ \A p \in Emitters : em[p].pc \in {"idle", "end"})
    => (incident <=> monitor.status = "down" \/ LeftDown)

\* handlers/webhooks.go:33: the plan's cap is counted by each request for itself, and the
\* list's error is dropped: n requests at a time exceed it by n - 1 endpoints at most, and by one
\* more for each request whose list failed.
GateOvershoot == Cardinality(LiveEndpoints) < Limit + Cardinality(Requests) + uncounted

\* A fan-out tries every channel, mails no address that bounced, and leaves the incident of
\* PagerDuty as the monitor is (notifier.go, multinotifier.go, alerting.go).
FanOutSafe == EveryChannelIsTried /\ BouncedIsNotMailed /\ IncidentAgrees

\* A delivery (webhooks/dispatch.go, worker.go): delivered means answered, a second row of an
\* event needs a crash, a job that is over leaves no row pending, and the cap on endpoints is
\* exceeded only by requests that counted at once or could not count.
DeliverySafe ==
    /\ TypeOK /\ DeliveredWasAnswered /\ DuplicatesNeedCrash /\ SettledWhenDone
    /\ GateOvershoot

=============================================================================
