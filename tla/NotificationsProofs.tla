------------------------ MODULE NotificationsProofs ------------------------
(****************************************************************************)
(* Proofs about Notifications for any number of endpoints, members, fan-    *)
(* outs, page requests, rows, attempts and faults: what a fan-out does with *)
(* its channels (FanOutSafe), what the deliveries say (DeliverySafe), and   *)
(* that a delivered row stays so.                                           *)
(****************************************************************************)
EXTENDS Notifications, FiniteSetTheorems, TLAPS

Channels == {"hooks", "mail", "push", "alerts"}

EmitterRecords ==
    [pc : {"idle", "hooks", "rows", "insert", "mail", "mailing", "send", "push", "alerts",
           "pager", "end"},
     event : Events \cup {"none"}, fan : 0 .. MaxEvents, todo : SUBSET Endpoints,
     row : Rows \cup {0}, rest : Seq(Channels), to : SUBSET Members,
     member : Members \cup {Nobody}, known : SUBSET Members, tried : SUBSET Channels]

RowRecords ==
    [ep : Endpoints \cup {Nobody}, fan : 0 .. MaxEvents,
     status : {"none", "pending", "delivered", "failed"}]

-----------------------------------------------------------------------------
(* A fan-out.  Where it is says which channels it has called and which are    *)
(* left, in the order of its event.                                         *)

\* A monitor's fan-out: webhooks, mail, push, alerts.
MonitorPlace(m) ==
    \/ m.pc = "hooks" /\ m.rest = <<"mail", "push", "alerts">> /\ m.tried = {}
    \/ m.pc \in {"rows", "insert"} /\ m.rest = <<"mail", "push", "alerts">> /\ m.tried = {"hooks"}
    \/ m.pc = "mail" /\ m.rest = <<"push", "alerts">> /\ m.tried = {"hooks"}
    \/ m.pc \in {"mailing", "send"} /\ m.rest = <<"push", "alerts">> /\ m.tried = {"hooks", "mail"}
    \/ m.pc = "push" /\ m.rest = <<"alerts">> /\ m.tried = {"hooks", "mail"}
    \/ m.pc = "alerts" /\ m.rest = <<>> /\ m.tried = {"hooks", "mail", "push"}
    \/ m.pc \in {"pager", "end"} /\ m.rest = <<>> /\ m.tried = Channels

\* A drill's: webhooks, push, alerts, mail.
DrillPlace(m) ==
    \/ m.pc = "hooks" /\ m.rest = <<"push", "alerts", "mail">> /\ m.tried = {}
    \/ m.pc \in {"rows", "insert"} /\ m.rest = <<"push", "alerts", "mail">> /\ m.tried = {"hooks"}
    \/ m.pc = "push" /\ m.rest = <<"alerts", "mail">> /\ m.tried = {"hooks"}
    \/ m.pc = "alerts" /\ m.rest = <<"mail">> /\ m.tried = {"hooks", "push"}
    \/ m.pc = "pager" /\ m.rest = <<"mail">> /\ m.tried = {"hooks", "push", "alerts"}
    \/ m.pc = "mail" /\ m.rest = <<>> /\ m.tried = {"hooks", "push", "alerts"}
    \/ m.pc \in {"mailing", "send", "end"} /\ m.rest = <<>> /\ m.tried = Channels

Place(m) ==
    \/ m.pc = "idle" /\ m.event = "none" /\ m.fan = 0
    \/ m.event \in HeartbeatEvents /\ m.fan # 0 /\ MonitorPlace(m)
    \/ m.event \in {"failed", "completed"} /\ m.fan # 0 /\ DrillPlace(m)

\* Whom it is about to mail had not bounced when it began.
EmitterOK(m) == Place(m) /\ (m.pc = "send" => m.member \notin m.known)

Emitting ==
    /\ em \in [Emitters -> EmitterRecords]
    /\ \A p \in Emitters :
          EmitterOK(em[p]) /\ em[p].known \subseteq suppressed /\ em[p].fan <= fanouts
    /\ \A p, q \in Emitters : em[p].fan = em[q].fan /\ em[p].fan # 0 => p = q

\* A monitor's fan-out that is under way.
Alerting(p) == em[p].event \in HeartbeatEvents /\ em[p].pc # "end"

\* Without a fault, an overlap or a new key, one fan-out of the monitor is under way, of its
\* last event, or none, and then PagerDuty knows.
IncidentKnown ==
    clean /\ faults = 0 /\ pager =>
        /\ \A p, q \in Emitters : Alerting(p) /\ Alerting(q) => p = q
        /\ \A p \in Emitters : Alerting(p) => em[p].event = monitor.last
        /\ (\A p \in Emitters : ~Alerting(p)) => (incident <=> monitor.last = "down")

-----------------------------------------------------------------------------
(* The deliveries. *)

\* Emitter p, or request q, has made row r and not queued it yet.
HeldBy(p, r) == em[p].pc = "insert" /\ em[p].row = r
HeldFor(q, r) == req[q].pc = "enqueue" /\ req[q].row = r

RowsHeld ==
    /\ \A p \in Emitters : em[p].pc = "insert" =>
          /\ em[p].row \in Rows /\ row[em[p].row] # NoRow /\ job[em[p].row] = "none"
          /\ row[em[p].row].fan = em[p].fan
    /\ \A q \in Requests : req[q].pc = "enqueue" =>
          req[q].row \in Rows /\ row[req[q].row] # NoRow /\ job[req[q].row] = "none"
    /\ \A p, q \in Emitters, r \in Rows : HeldBy(p, r) /\ HeldBy(q, r) => p = q
    /\ \A p, q \in Requests, r \in Rows : HeldFor(p, r) /\ HeldFor(q, r) => p = q
    /\ \A p \in Emitters, q \in Requests, r \in Rows : ~(HeldBy(p, r) /\ HeldFor(q, r))

Settled == {"delivered", "failed"}
Delivering == {"post", "sent", "refused", "gone"}

RowKnown(r) ==
    /\ row[r] = NoRow => job[r] = "none"
    /\ row[r].fan <= fanouts
    /\ job[r] = "none" => attempt[r] = 0
    /\ job[r] = "available" => attempt[r] < MaxAttempts
    /\ job[r] # "running" <=> work[r] = "idle"
    /\ row[r].status = "delivered" \/ work[r] = "sent" => r \in answered
    /\ work[r] \in Delivering => row[r].status # "delivered"
    /\ work[r] = "done" \/ job[r] = "completed" => row[r].status \in Settled
    /\ job[r] = "discarded" => attempt[r] >= MaxAttempts
    /\ row[r].status \notin Settled =>
          attempt[r] <= faults + (IF work[r] \in Delivering THEN 1 ELSE 0)

\* The rows of the n-th fan-out for endpoint e.
CopiesOf(e, n) == {r \in Rows : row[r].ep = e /\ row[r].fan = n}

\* Emitter p still has to create its row for e.
Owes(p, e) ==
    \/ em[p].pc = "hooks"
    \/ em[p].pc = "rows" /\ e \in em[p].todo
    \/ em[p].pc = "insert" /\ e \in em[p].todo /\ row[em[p].row].ep # e

CopiesKnown ==
    \A e \in Endpoints, n \in 1 .. MaxEvents :
        /\ Cardinality(CopiesOf(e, n)) <= 1 + faults
        /\ \A p \in Emitters :
              em[p].fan = n /\ Owes(p, e) => Cardinality(CopiesOf(e, n)) <= faults

\* Requests that have counted the endpoints and will create one.
Creating == {q \in Requests : req[q].pc = "create"}

GateKnown ==
    Cardinality(LiveEndpoints) + Cardinality(Creating)
        < Limit + Cardinality(Requests) + uncounted

NotifyTypes ==
    /\ monitor \in [status : Monitored, last : HeartbeatEvents]
    /\ monitor.status \in HeartbeatEvents => monitor.status = monitor.last
    /\ incident \in BOOLEAN /\ clean \in BOOLEAN
    /\ endpoint \in [Endpoints -> {"none", "live", "deleted"}]
    /\ row \in [Rows -> RowRecords]
    /\ job \in [Rows -> {"none", "available", "running", "completed", "discarded"}]
    /\ attempt \in [Rows -> 0 .. MaxAttempts]
    /\ work \in [Rows -> {"idle", "post", "sent", "refused", "gone", "done", "error"}]
    /\ answered \subseteq Rows /\ pager \in BOOLEAN /\ suppressed \subseteq Members
    /\ req \in [Requests -> [pc : {"idle", "create", "enqueue", "save"},
                             row : Rows \cup {0}, next : BOOLEAN]]
    /\ fanouts \in 0 .. MaxEvents /\ edits \in 0 .. MaxEdits /\ faults \in 0 .. MaxFaults
    /\ uncounted \in 0 .. faults

NotifyInv ==
    /\ NotifyTypes /\ Emitting /\ IncidentKnown /\ RowsHeld /\ (\A r \in Rows : RowKnown(r))
    /\ CopiesKnown /\ GateKnown

-----------------------------------------------------------------------------
(* What the operators return. *)

\* The rest of a channel order.
LEMMA Orders ==
    /\ <<"mail", "push", "alerts">> \in Seq(Channels) /\ <<"push", "alerts">> \in Seq(Channels)
    /\ <<"push", "alerts", "mail">> \in Seq(Channels) /\ <<"alerts", "mail">> \in Seq(Channels)
    /\ <<"alerts">> \in Seq(Channels) /\ <<"mail">> \in Seq(Channels) /\ <<>> \in Seq(Channels)
    /\ Head(<<"mail", "push", "alerts">>) = "mail"
    /\ Tail(<<"mail", "push", "alerts">>) = <<"push", "alerts">>
    /\ Head(<<"push", "alerts", "mail">>) = "push"
    /\ Tail(<<"push", "alerts", "mail">>) = <<"alerts", "mail">>
    /\ Head(<<"push", "alerts">>) = "push" /\ Tail(<<"push", "alerts">>) = <<"alerts">>
    /\ Head(<<"alerts", "mail">>) = "alerts" /\ Tail(<<"alerts", "mail">>) = <<"mail">>
    /\ Head(<<"alerts">>) = "alerts" /\ Tail(<<"alerts">>) = <<>>
    /\ Head(<<"mail">>) = "mail" /\ Tail(<<"mail">>) = <<>>
    /\ <<"mail", "push", "alerts">> # <<>> /\ <<"push", "alerts", "mail">> # <<>>
    /\ <<"push", "alerts">> # <<>> /\ <<"alerts", "mail">> # <<>>
    /\ <<"alerts">> # <<>> /\ <<"mail">> # <<>>
<1>1. /\ <<"mail", "push", "alerts">> \in Seq(Channels) /\ <<"push", "alerts">> \in Seq(Channels)
      /\ <<"push", "alerts", "mail">> \in Seq(Channels) /\ <<"alerts", "mail">> \in Seq(Channels)
      /\ <<"alerts">> \in Seq(Channels) /\ <<"mail">> \in Seq(Channels) /\ <<>> \in Seq(Channels)
  BY DEF Channels
<1>2. /\ Head(<<"mail", "push", "alerts">>) = "mail" /\ Head(<<"push", "alerts", "mail">>) = "push"
      /\ Head(<<"push", "alerts">>) = "push" /\ Head(<<"alerts", "mail">>) = "alerts"
      /\ Head(<<"alerts">>) = "alerts" /\ Head(<<"mail">>) = "mail"
  OBVIOUS
<1>3. Tail(<<"mail", "push", "alerts">>) = <<"push", "alerts">>
  OBVIOUS
<1>4. Tail(<<"push", "alerts", "mail">>) = <<"alerts", "mail">>
  OBVIOUS
<1>5. Tail(<<"push", "alerts">>) = <<"alerts">> /\ Tail(<<"alerts", "mail">>) = <<"mail">>
  OBVIOUS
<1>6. Tail(<<"alerts">>) = <<>> /\ Tail(<<"mail">>) = <<>>
  OBVIOUS
<1>7. /\ <<"mail", "push", "alerts">> # <<>> /\ <<"push", "alerts", "mail">> # <<>>
      /\ <<"push", "alerts">> # <<>> /\ <<"alerts", "mail">> # <<>>
      /\ <<"alerts">> # <<>> /\ <<"mail">> # <<>>
  OBVIOUS
<1> QED
  BY <1>1, <1>2, <1>3, <1>4, <1>5, <1>6, <1>7

\* NextChannel keeps which event it is and takes the next of what is left.
LEMMA NextChannelFacts ==
    ASSUME NEW m \in EmitterRecords, m.rest \notin {<<>>} => Head(m.rest) \in Channels /\ Tail(m.rest) \in Seq(Channels)
    PROVE  /\ NextChannel(m) \in EmitterRecords
           /\ NextChannel(m).event = m.event /\ NextChannel(m).fan = m.fan
           /\ NextChannel(m).known = m.known /\ NextChannel(m).tried = m.tried
           /\ NextChannel(m).todo = {}
           /\ m.rest = <<>> => NextChannel(m).pc = "end" /\ NextChannel(m).rest = <<>>
           /\ m.rest # <<>> => NextChannel(m).pc = Head(m.rest) /\ NextChannel(m).rest = Tail(m.rest)
<1>1. NextChannel(m) \in EmitterRecords
  BY ZenonT(20) DEF NextChannel, EmitterRecords, Channels
<1> QED
  BY <1>1 DEF NextChannel, EmitterRecords

\* The channel that is called at pc.
ChannelAt(pc) == IF pc \in {"hooks", "rows", "insert"} THEN "hooks"
                 ELSE IF pc \in {"mail", "mailing", "send"} THEN "mail"
                 ELSE IF pc = "push" THEN "push" ELSE "alerts"

\* Once the channel it is at has been called, the emitter goes on in order.
LEMMA PlaceNext ==
    ASSUME NEW o \in EmitterRecords, Place(o), o.pc \notin {"idle", "end"},
           NEW m \in EmitterRecords, m.event = o.event, m.fan = o.fan, m.rest = o.rest,
           m.tried = o.tried \cup {ChannelAt(o.pc)}
    PROVE  /\ NextChannel(m) \in EmitterRecords /\ EmitterOK(NextChannel(m))
           /\ NextChannel(m).event = o.event /\ NextChannel(m).fan = o.fan
           /\ NextChannel(m).known = m.known
           /\ NextChannel(m).pc \notin {"idle", "hooks", "rows", "insert"}
           /\ o.event \in HeartbeatEvents /\ o.pc \notin {"alerts", "pager"} =>
                 NextChannel(m).pc # "end"
<1> DEFINE n == NextChannel(m)
<1>1. m.rest # <<>> => Head(m.rest) \in Channels /\ Tail(m.rest) \in Seq(Channels)
  BY DEF EmitterRecords
<1>2. /\ n \in EmitterRecords /\ n.event = m.event /\ n.fan = m.fan /\ n.known = m.known
      /\ n.tried = m.tried
      /\ m.rest = <<>> => n.pc = "end" /\ n.rest = <<>>
      /\ m.rest # <<>> => n.pc = Head(m.rest) /\ n.rest = Tail(m.rest)
  BY <1>1, NextChannelFacts
<1> HIDE DEF n
<1>3. CASE o.event \in HeartbeatEvents
  <2>1. MonitorPlace(o) /\ o.fan # 0
    BY <1>3 DEF Place, HeartbeatEvents
  <2>2. /\ o.pc \in {"hooks", "rows", "insert"} =>
             n.pc = "mail" /\ n.rest = <<"push", "alerts">> /\ n.tried = {"hooks"}
        /\ o.pc \in {"mail", "mailing", "send"} =>
             n.pc = "push" /\ n.rest = <<"alerts">> /\ n.tried = {"hooks", "mail"}
        /\ o.pc = "push" =>
             n.pc = "alerts" /\ n.rest = <<>> /\ n.tried = {"hooks", "mail", "push"}
        /\ o.pc \in {"alerts", "pager"} => n.pc = "end" /\ n.rest = <<>> /\ n.tried = Channels
    BY ZenonT(20), <1>2, <2>1, Orders DEF MonitorPlace, ChannelAt, Channels
  <2>3. o.pc \in {"hooks", "rows", "insert", "mail", "mailing", "send", "push", "alerts", "pager"}
    BY DEF EmitterRecords
  <2>4. MonitorPlace(n)
    BY <2>2, <2>3 DEF MonitorPlace
  <2>5. n.pc \in {"mail", "push", "alerts", "end"} /\ (n.pc = "end" => o.pc \in {"alerts", "pager"})
    BY <2>2, <2>3
  <2>6. EmitterOK(n)
    BY <1>2, <1>3, <2>1, <2>4, <2>5 DEF EmitterOK, Place
  <2> QED
    BY <1>2, <2>5, <2>6 DEF n
<1>4. CASE o.event \in {"failed", "completed"}
  <2>1. DrillPlace(o) /\ o.fan # 0 /\ o.event \notin HeartbeatEvents
    BY <1>4 DEF Place, HeartbeatEvents
  <2>2. /\ o.pc \in {"hooks", "rows", "insert"} =>
             n.pc = "push" /\ n.rest = <<"alerts", "mail">> /\ n.tried = {"hooks"}
        /\ o.pc = "push" =>
             n.pc = "alerts" /\ n.rest = <<"mail">> /\ n.tried = {"hooks", "push"}
        /\ o.pc \in {"alerts", "pager"} =>
             n.pc = "mail" /\ n.rest = <<>> /\ n.tried = {"hooks", "push", "alerts"}
        /\ o.pc \in {"mail", "mailing", "send"} =>
             n.pc = "end" /\ n.rest = <<>> /\ n.tried = Channels
    BY ZenonT(20), <1>2, <2>1, Orders DEF DrillPlace, ChannelAt, Channels
  <2>3. o.pc \in {"hooks", "rows", "insert", "mail", "mailing", "send", "push", "alerts", "pager"}
    BY DEF EmitterRecords
  <2>4. DrillPlace(n)
    BY <2>2, <2>3 DEF DrillPlace
  <2>5. n.pc \in {"mail", "push", "alerts", "end"}
    BY <2>2, <2>3
  <2>6. EmitterOK(n)
    BY <1>2, <1>4, <2>1, <2>4, <2>5 DEF EmitterOK, Place
  <2> QED
    BY <1>2, <2>1, <2>5, <2>6 DEF n
<1> QED
  BY <1>3, <1>4 DEF Place

\* Try records the channel and nothing else.
LEMMA TryFacts ==
    ASSUME NEW m \in EmitterRecords, NEW c \in Channels
    PROVE  /\ Try(m, c) \in EmitterRecords /\ Try(m, c).tried = m.tried \cup {c}
           /\ Try(m, c).pc = m.pc /\ Try(m, c).event = m.event /\ Try(m, c).fan = m.fan
           /\ Try(m, c).rest = m.rest /\ Try(m, c).known = m.known /\ Try(m, c).todo = m.todo
           /\ Try(m, c).to = m.to /\ Try(m, c).member = m.member
<1>1. m.tried \cup {c} \in SUBSET Channels
  BY DEF EmitterRecords
<1> QED
  BY <1>1 DEF Try, EmitterRecords

\* An emitter that does nothing.
LEMMA IdleFacts ==
    Idle \in EmitterRecords /\ EmitterOK(Idle) /\ Idle.pc = "idle" /\ Idle.event = "none"
    /\ Idle.fan = 0 /\ Idle.known = {} /\ Idle.tried = {}
<1>1. Idle \in EmitterRecords
  BY NotificationsAssumption, Orders DEF Idle, EmitterRecords
<1>2. EmitterOK(Idle)
  BY DEF Idle, EmitterOK, Place
<1> QED
  BY <1>1, <1>2 DEF Idle

\* A fan-out begins with its order of channels and the addresses that bounced before.
LEMMA StartedFacts ==
    ASSUME NEW e \in Events, NEW n \in 1 .. MaxEvents, suppressed \subseteq Members
    PROVE  /\ Started(e, n) \in EmitterRecords /\ EmitterOK(Started(e, n))
           /\ Started(e, n).pc = "hooks" /\ Started(e, n).event = e /\ Started(e, n).fan = n
           /\ Started(e, n).known = suppressed
<1> DEFINE s == Started(e, n)
<1>1. ChannelOrder(e) \in Seq(Channels)
  BY Orders DEF ChannelOrder
<1>2. /\ s \in EmitterRecords /\ s.pc = "hooks" /\ s.event = e /\ s.fan = n /\ s.known = suppressed
      /\ s.rest = ChannelOrder(e) /\ s.tried = {}
  <2> DEFINE c == ChannelOrder(e)
             i == Idle
  <2>1. c \in Seq(Channels) /\ i \in EmitterRecords /\ i.tried = {} /\ n \in 0 .. MaxEvents
    BY <1>1, IdleFacts, NotificationsAssumption
  <2>2. s = [i EXCEPT !.pc = "hooks", !.event = e, !.fan = n, !.rest = c, !.known = suppressed]
    BY DEF Started
  <2> HIDE DEF c, i, s
  <2>3. /\ s \in EmitterRecords /\ s.pc = "hooks" /\ s.event = e /\ s.fan = n
        /\ s.known = suppressed /\ s.rest = c /\ s.tried = {}
    BY <2>1, <2>2 DEF EmitterRecords
  <2> QED
    BY <2>3 DEF c
<1> HIDE DEF s
<1>3. e \in HeartbeatEvents => MonitorPlace(s)
  BY <1>2 DEF MonitorPlace, ChannelOrder
<1>4. e \notin HeartbeatEvents => DrillPlace(s) /\ e \in {"failed", "completed"}
  BY <1>2 DEF DrillPlace, ChannelOrder, Events
<1>5. EmitterOK(s)
  BY <1>2, <1>3, <1>4 DEF EmitterOK, Place
<1> QED
  BY <1>2, <1>5 DEF s

-----------------------------------------------------------------------------
(* What a step leaves in order. *)

\* One emitter goes to m, of an event that is nobody else's.
LEMMA EmitterMoves ==
    ASSUME NotifyInv, NEW p \in Emitters, NEW m \in EmitterRecords,
           em' = [em EXCEPT ![p] = m], EmitterOK(m), m.known \subseteq suppressed',
           suppressed \subseteq suppressed', m.fan <= fanouts', fanouts \in Nat, fanouts' \in Nat,
           fanouts <= fanouts', \A q \in Emitters \ {p} : em[q].fan # m.fan \/ m.fan = 0
    PROVE  /\ Emitting' /\ em'[p] = m /\ \A q \in Emitters \ {p} : em'[q] = em[q]
<1>1. em \in [Emitters -> EmitterRecords]
  BY DEF NotifyInv, Emitting
<1>2. /\ em' \in [Emitters -> EmitterRecords] /\ em'[p] = m
      /\ \A q \in Emitters \ {p} : em'[q] = em[q]
  BY <1>1
<1>3. ASSUME NEW q \in Emitters
      PROVE  EmitterOK(em'[q]) /\ em'[q].known \subseteq suppressed' /\ em'[q].fan <= fanouts'
  <2>1. CASE q = p
    BY <1>2, <2>1
  <2>2. CASE q # p
    <3>1. em[q].fan \in 0 .. MaxEvents
      BY <1>1 DEF EmitterRecords
    <3> QED
      BY <1>2, <2>2, <3>1 DEF NotifyInv, Emitting
  <2> QED
    BY <2>1, <2>2
<1>4. ASSUME NEW q \in Emitters, NEW o \in Emitters, em'[q].fan = em'[o].fan, em'[q].fan # 0
      PROVE  q = o
  BY <1>2, <1>4 DEF NotifyInv, Emitting
<1> QED
  BY <1>2, <1>3, <1>4 DEF Emitting

\* The deliveries' rows and jobs stay.
LEMMA RowsStay ==
    ASSUME NotifyInv, UNCHANGED <<row, job, attempt, work, answered>>,
           fanouts' \in Nat, fanouts <= fanouts', faults' \in Nat, faults <= faults'
    PROVE  \A r \in Rows : RowKnown(r)'
<1> SUFFICES ASSUME NEW r \in Rows PROVE RowKnown(r)'
  OBVIOUS
<1>1. /\ RowKnown(r) /\ row[r].fan \in Nat /\ attempt[r] \in Nat /\ faults \in Nat /\ fanouts \in Nat
  BY NotificationsAssumption DEF NotifyInv, NotifyTypes, RowRecords
<1>2. row[r].fan <= fanouts' /\ attempt'[r] \in Nat
  BY <1>1 DEF RowKnown
<1>3. row[r].status \notin Settled =>
          attempt[r] <= faults' + (IF work[r] \in Delivering THEN 1 ELSE 0)
  BY <1>1 DEF RowKnown
<1> QED
  BY <1>1, <1>2, <1>3 DEF RowKnown

\* Nobody gets hold of a row.
LEMMA HeldStay ==
    ASSUME NotifyInv, UNCHANGED <<row, job>>,
           \A p \in Emitters : em'[p].pc = "insert" => em'[p] = em[p],
           \A q \in Requests : req'[q].pc = "enqueue" => req'[q] = req[q]
    PROVE  RowsHeld'
<1>1. /\ \A p \in Emitters, r \in Rows : HeldBy(p, r)' => HeldBy(p, r)
      /\ \A q \in Requests, r \in Rows : HeldFor(q, r)' => HeldFor(q, r)
  BY DEF HeldBy, HeldFor
<1>2. /\ \A p, q \in Emitters, r \in Rows : HeldBy(p, r)' /\ HeldBy(q, r)' => p = q
      /\ \A p, q \in Requests, r \in Rows : HeldFor(p, r)' /\ HeldFor(q, r)' => p = q
      /\ \A p \in Emitters, q \in Requests, r \in Rows : ~(HeldBy(p, r)' /\ HeldFor(q, r)')
  BY <1>1 DEF NotifyInv, RowsHeld
<1>3. \A p \in Emitters : em'[p].pc = "insert" =>
          /\ em'[p].row \in Rows /\ row[em'[p].row] # NoRow /\ job[em'[p].row] = "none"
          /\ row[em'[p].row].fan = em'[p].fan
  BY DEF NotifyInv, RowsHeld
<1>4. \A q \in Requests : req'[q].pc = "enqueue" =>
          req'[q].row \in Rows /\ row[req'[q].row] # NoRow /\ job[req'[q].row] = "none"
  BY DEF NotifyInv, RowsHeld
<1> QED
  BY <1>2, <1>3, <1>4 DEF RowsHeld

\* The rows of a fan-out are finitely many.
LEMMA CopiesFinite ==
    /\ \A S \in SUBSET Rows : IsFiniteSet(S) /\ Cardinality(S) \in Nat
    /\ \A S, T \in SUBSET Rows : S \subseteq T => Cardinality(S) <= Cardinality(T)
    /\ \A S \in SUBSET Rows : \A r \in Rows : Cardinality(S \cup {r}) <= Cardinality(S) + 1
<1>1. IsFiniteSet(Rows)
  BY FS_Interval, NotificationsAssumption DEF Rows
<1>2. ASSUME NEW S \in SUBSET Rows PROVE IsFiniteSet(S) /\ Cardinality(S) \in Nat
  BY <1>1, FS_Subset, FS_CardinalityType
<1>3. ASSUME NEW S \in SUBSET Rows, NEW T \in SUBSET Rows, S \subseteq T
      PROVE  Cardinality(S) <= Cardinality(T)
  BY <1>2, <1>3, FS_Subset
<1>4. ASSUME NEW S \in SUBSET Rows, NEW r \in Rows PROVE Cardinality(S \cup {r}) <= Cardinality(S) + 1
  BY <1>2, FS_AddElement
<1> QED
  BY <1>2, <1>3, <1>4

\* No row is made, and who owes one owed it before, or the row could be a copy.
LEMMA CopiesStay ==
    ASSUME NotifyInv, \A r \in Rows : row'[r].ep = row[r].ep /\ row'[r].fan = row[r].fan,
           faults' \in Nat, faults <= faults',
           \A p \in Emitters, e \in Endpoints, n \in 1 .. MaxEvents :
              em'[p].fan = n /\ Owes(p, e)' =>
                 \/ em[p].fan = n /\ Owes(p, e)
                 \/ Cardinality(CopiesOf(e, n)) <= faults'
    PROVE  CopiesKnown'
<1> SUFFICES ASSUME NEW e \in Endpoints, NEW n \in 1 .. MaxEvents
             PROVE  /\ Cardinality(CopiesOf(e, n)') <= 1 + faults'
                    /\ \A p \in Emitters : em'[p].fan = n /\ Owes(p, e)' =>
                           Cardinality(CopiesOf(e, n)') <= faults'
  BY DEF CopiesKnown
<1>1. CopiesOf(e, n)' = CopiesOf(e, n) /\ CopiesOf(e, n) \in SUBSET Rows
  BY DEF CopiesOf
<1>2. Cardinality(CopiesOf(e, n)) \in Nat /\ faults \in Nat
  BY <1>1, CopiesFinite DEF NotifyInv, NotifyTypes
<1>3. Cardinality(CopiesOf(e, n)) <= 1 + faults'
  BY <1>2 DEF NotifyInv, CopiesKnown
<1>4. ASSUME NEW p \in Emitters, em'[p].fan = n, Owes(p, e)'
      PROVE  Cardinality(CopiesOf(e, n)) <= faults'
  <2>1. CASE em[p].fan = n /\ Owes(p, e)
    <3>1. Cardinality(CopiesOf(e, n)) <= faults
      BY <2>1 DEF NotifyInv, CopiesKnown
    <3> QED
      BY <1>2, <3>1
  <2> QED
    BY <1>4, <2>1
<1> QED
  BY <1>1, <1>3, <1>4

\* Neither the endpoints nor the requests that will add one grow.
LEMMA GateStays ==
    ASSUME NotifyInv, LiveEndpoints' \subseteq LiveEndpoints, Creating' \subseteq Creating,
           uncounted' = uncounted
    PROVE  GateKnown'
<1> DEFINE L == LiveEndpoints
           M == LiveEndpoints'
           C == Creating
           D == Creating'
<1>1. L \subseteq Endpoints /\ M \subseteq L /\ C \subseteq Requests /\ D \subseteq C
  BY DEF LiveEndpoints, Creating
<1>2. IsFiniteSet(Endpoints) /\ IsFiniteSet(Requests) /\ Limit \in Nat
  BY NotificationsAssumption
<1>3. /\ Cardinality(L) + Cardinality(C) < Limit + Cardinality(Requests) + uncounted
      /\ uncounted \in Nat
  BY DEF NotifyInv, GateKnown, NotifyTypes
<1> HIDE DEF L, M, C, D
<1>4. /\ Cardinality(L) \in Nat /\ Cardinality(M) \in Nat /\ Cardinality(M) <= Cardinality(L)
  BY <1>1, <1>2, FS_Subset, FS_CardinalityType
<1>5. /\ Cardinality(C) \in Nat /\ Cardinality(D) \in Nat /\ Cardinality(D) <= Cardinality(C)
      /\ Cardinality(Requests) \in Nat
  BY <1>1, <1>2, FS_Subset, FS_CardinalityType
<1>6. Cardinality(M) + Cardinality(D) < Limit + Cardinality(Requests) + uncounted
  BY <1>2, <1>3, <1>4, <1>5
<1> QED
  BY <1>6 DEF GateKnown, M, D

\* The monitor's fan-outs, the incident and the key stay.
LEMMA IncidentStays ==
    ASSUME NotifyInv, monitor'.last = monitor.last, incident' = incident,
           faults \in Nat, faults' \in Nat, faults <= faults', clean' => clean /\ pager' = pager,
           clean /\ faults' = 0 /\ pager =>
              \A p \in Emitters :
                 (Alerting(p)' <=> Alerting(p)) /\ (Alerting(p) => em'[p].event = em[p].event)
    PROVE  IncidentKnown'
<1> SUFFICES ASSUME clean', faults' = 0, pager'
             PROVE  /\ \A p, q \in Emitters : Alerting(p)' /\ Alerting(q)' => p = q
                    /\ \A p \in Emitters : Alerting(p)' => em'[p].event = monitor.last
                    /\ (\A p \in Emitters : ~Alerting(p)') => (incident <=> monitor.last = "down")
  BY DEF IncidentKnown
<1>1. clean /\ faults = 0 /\ pager
  <2>1. clean /\ pager' = pager
    OBVIOUS
  <2>2. pager
    BY <2>1, Zenon
  <2>3. faults = 0
    OBVIOUS
  <2> QED
    BY <2>1, <2>2, <2>3
<1>2. \A p \in Emitters :
         (Alerting(p)' <=> Alerting(p)) /\ (Alerting(p) => em'[p].event = em[p].event)
  BY <1>1
<1>3. /\ \A p, q \in Emitters : Alerting(p) /\ Alerting(q) => p = q
      /\ \A p \in Emitters : Alerting(p) => em[p].event = monitor.last
      /\ (\A p \in Emitters : ~Alerting(p)) => (incident <=> monitor.last = "down")
  BY <1>1 DEF NotifyInv, IncidentKnown
<1> QED
  BY <1>2, <1>3

\* What a state of the invariant is, for the steps.
LEMMA NotifyFacts ==
    ASSUME NotifyInv
    PROVE  /\ NotifyTypes /\ em \in [Emitters -> EmitterRecords]
           /\ fanouts \in Nat /\ faults \in Nat /\ MaxFaults \in Nat /\ MaxEvents \in Nat
           /\ \A p \in Emitters : /\ em[p] \in EmitterRecords /\ EmitterOK(em[p]) /\ Place(em[p])
                                  /\ em[p].known \subseteq suppressed /\ em[p].fan <= fanouts
           /\ \A p, q \in Emitters : em[p].fan = em[q].fan /\ em[p].fan # 0 => p = q
  BY NotificationsAssumption DEF NotifyInv, NotifyTypes, Emitting, EmitterOK

\* An emitter goes on with its event, and may tell PagerDuty.
LEMMA EmitterParts ==
    ASSUME NotifyInv, NEW p \in Emitters, NEW m \in EmitterRecords,
           em' = [em EXCEPT ![p] = m], Works \/ Fails,
           UNCHANGED <<monitor, fanouts, clean, hookVars, pageVars>>, incident' \in BOOLEAN,
           EmitterOK(m), m.event = em[p].event, m.fan = em[p].fan, m.known = em[p].known,
           m.pc \notin {"idle", "hooks", "insert"}, m.pc = "rows" => em[p].pc = "hooks"
    PROVE  /\ IncidentKnown' => NotifyInv'
           /\ em'[p] = m /\ \A q \in Emitters \ {p} : em'[q] = em[q]
<1> USE DEF hookVars, pageVars
<1>1. faults' \in 0 .. MaxFaults /\ faults' \in Nat /\ faults <= faults' /\ faults \in Nat
      /\ fanouts \in Nat /\ NotifyTypes
  BY NotifyFacts DEF Works, Fails, NotifyTypes
<1>2. /\ Emitting' /\ em'[p] = m /\ \A q \in Emitters \ {p} : em'[q] = em[q]
  <2>1. /\ m.known \subseteq suppressed' /\ suppressed \subseteq suppressed' /\ m.fan <= fanouts'
        /\ fanouts' \in Nat /\ fanouts <= fanouts'
    BY <1>1, NotifyFacts
  <2>2. \A q \in Emitters \ {p} : em[q].fan # m.fan \/ m.fan = 0
    BY NotifyFacts
  <2> QED
    BY <1>1, <2>1, <2>2, EmitterMoves
<1>3. NotifyTypes'
  BY <1>1 DEF NotifyTypes
<1>4. \A r \in Rows : RowKnown(r)'
  BY <1>1, RowsStay
<1>5. RowsHeld'
  BY <1>2, HeldStay
<1>6. CopiesKnown'
  <2>1. ASSUME NEW q \in Emitters, NEW e \in Endpoints, NEW n \in 1 .. MaxEvents,
               em'[q].fan = n, Owes(q, e)'
        PROVE  em[q].fan = n /\ Owes(q, e)
    BY <1>2, <2>1 DEF Owes
  <2> QED
    BY <1>1, <2>1, CopiesStay
<1>7. GateKnown'
  <2>1. LiveEndpoints' \subseteq LiveEndpoints /\ Creating' \subseteq Creating
        /\ uncounted' = uncounted
    BY DEF LiveEndpoints, Creating
  <2> QED
    BY <2>1, GateStays
<1> QED
  BY <1>2, <1>3, <1>4, <1>5, <1>6, <1>7 DEF NotifyInv

\* An emitter goes on with its event: nothing else changes but the count of faults.
LEMMA EmitterGoesOn ==
    ASSUME NotifyInv, NEW p \in Emitters, NEW m \in EmitterRecords,
           em' = [em EXCEPT ![p] = m], Works \/ Fails,
           UNCHANGED <<monitor, incident, fanouts, clean, hookVars, pageVars>>,
           EmitterOK(m), m.event = em[p].event, m.fan = em[p].fan, m.known = em[p].known,
           m.pc \notin {"idle", "hooks", "insert"}, em[p].pc # "end",
           m.pc = "rows" => em[p].pc = "hooks",
           em[p].event \in HeartbeatEvents /\ m.pc = "end" => faults' # 0 \/ ~pager
    PROVE  NotifyInv'
<1>1. incident' \in BOOLEAN
  BY NotifyFacts DEF NotifyTypes
<1>2. /\ IncidentKnown' => NotifyInv'
      /\ em'[p] = m /\ \A q \in Emitters \ {p} : em'[q] = em[q]
  BY <1>1, EmitterParts
<1>3. faults' \in Nat /\ faults <= faults' /\ faults \in Nat
  BY NotifyFacts DEF Works, Fails
<1>4. clean /\ faults' = 0 /\ pager =>
         \A q \in Emitters :
            (Alerting(q)' <=> Alerting(q)) /\ (Alerting(q) => em'[q].event = em[q].event)
  BY <1>2 DEF Alerting
<1>5. IncidentKnown'
  BY <1>3, <1>4, IncidentStays DEF pageVars
<1> QED
  BY <1>2, <1>5

\* A channel of the fan-out has been called, whatever came of it.
LEMMA ChannelLeft ==
    ASSUME NotifyInv, NEW p \in Emitters, NEW m \in EmitterRecords,
           em[p].pc \notin {"idle", "end"}, m.event = em[p].event, m.fan = em[p].fan,
           m.rest = em[p].rest, m.known = em[p].known,
           m.tried = em[p].tried \cup {ChannelAt(em[p].pc)},
           em' = [em EXCEPT ![p] = NextChannel(m)], Works \/ Fails,
           UNCHANGED <<monitor, incident, fanouts, clean, hookVars, pageVars>>,
           em[p].event \in HeartbeatEvents /\ em[p].pc \in {"alerts", "pager"} =>
              faults' # 0 \/ ~pager
    PROVE  NotifyInv'
<1> DEFINE n == NextChannel(m)
<1>1. em[p] \in EmitterRecords /\ Place(em[p])
  BY NotifyFacts
<1>2. /\ n \in EmitterRecords /\ EmitterOK(n) /\ n.event = em[p].event /\ n.fan = em[p].fan
      /\ n.known = em[p].known /\ n.pc \notin {"idle", "hooks", "rows", "insert"}
      /\ em[p].event \in HeartbeatEvents /\ em[p].pc \notin {"alerts", "pager"} => n.pc # "end"
  BY <1>1, PlaceNext
<1> HIDE DEF n
<1>3. em' = [em EXCEPT ![p] = n]
  BY DEF n
<1> QED
  BY <1>2, <1>3, EmitterGoesOn

\* At a channel that is called already, tried stays what it is.
LEMMA TriedAt ==
    ASSUME NotifyInv, NEW p \in Emitters
    PROVE  em[p].pc \in {"rows", "insert", "mailing", "send", "pager"} =>
               em[p].tried = em[p].tried \cup {ChannelAt(em[p].pc)}
  BY NotifyFacts DEF Place, MonitorPlace, DrillPlace, ChannelAt, Channels

\* A call that is logged or lost leaves the fan-out where Try left it.
LEMMA TriedThen ==
    ASSUME NotifyInv, NEW p \in Emitters, NEW c \in {"hooks", "mail", "push", "alerts"},
           em[p].pc = c, em' = [em EXCEPT ![p] = NextChannel(Try(em[p], c))], Works \/ Fails,
           UNCHANGED <<monitor, incident, fanouts, clean, hookVars, pageVars>>,
           em[p].event \in HeartbeatEvents /\ c = "alerts" => faults' # 0 \/ ~pager
    PROVE  NotifyInv'
<1> DEFINE m == Try(em[p], c)
<1>1. em[p] \in EmitterRecords /\ c \in Channels /\ c = ChannelAt(em[p].pc)
  BY NotifyFacts DEF Channels, ChannelAt
<1>2. /\ m \in EmitterRecords /\ m.event = em[p].event /\ m.fan = em[p].fan
      /\ m.rest = em[p].rest /\ m.known = em[p].known
      /\ m.tried = em[p].tried \cup {ChannelAt(em[p].pc)}
  BY <1>1, TryFacts
<1>3. em' = [em EXCEPT ![p] = NextChannel(m)]
  OBVIOUS
<1> HIDE DEF m
<1> QED
  BY <1>2, <1>3, ChannelLeft

\* Dispatch lists the endpoints.
LEMMA ListKeeps ==
    ASSUME NotifyInv, NEW p \in Emitters, ListEnabledEndpoints(p)
    PROVE  NotifyInv'
<1> DEFINE m == Try(em[p], "hooks")
           n == [m EXCEPT !.pc = "rows", !.todo = LiveEndpoints]
<1>1. /\ em[p].pc = "hooks" /\ (Works \/ Fails)
      /\ UNCHANGED <<monitor, incident, fanouts, clean, hookVars, pageVars>>
  BY DEF ListEnabledEndpoints
<1>2. CASE em' = [em EXCEPT ![p] = NextChannel(m)]
  BY <1>1, <1>2, TriedThen
<1>3. CASE em' = [em EXCEPT ![p] = n]
  <2>1. em[p] \in EmitterRecords /\ Place(em[p]) /\ EmitterOK(em[p])
    BY NotifyFacts
  <2>2. /\ m \in EmitterRecords /\ m.tried = em[p].tried \cup {"hooks"} /\ m.event = em[p].event
        /\ m.fan = em[p].fan /\ m.rest = em[p].rest /\ m.known = em[p].known
    BY <2>1, TryFacts DEF Channels
  <2>3. LiveEndpoints \in SUBSET Endpoints
    BY DEF LiveEndpoints
  <2> HIDE DEF m
  <2>4. /\ n \in EmitterRecords /\ n.pc = "rows" /\ n.tried = em[p].tried \cup {"hooks"}
        /\ n.event = em[p].event /\ n.fan = em[p].fan /\ n.rest = em[p].rest
        /\ n.known = em[p].known
    BY <2>2, <2>3 DEF EmitterRecords
  <2> HIDE DEF n
  <2>5. EmitterOK(n)
    BY <1>1, <2>1, <2>4 DEF EmitterOK, Place, MonitorPlace, DrillPlace
  <2> QED
    BY <1>1, <1>3, <2>4, <2>5, EmitterGoesOn
<1> QED
  BY <1>2, <1>3 DEF ListEnabledEndpoints

\* The mail channel reads its recipients.
LEMMA RecipientsKeeps ==
    ASSUME NotifyInv, NEW p \in Emitters, Recipients(p)
    PROVE  NotifyInv'
<1> DEFINE m == Try(em[p], "mail")
           to == IF m.event \in HeartbeatEvents THEN Members ELSE {Owner}
           n == [m EXCEPT !.pc = "mailing", !.to = to]
<1>1. /\ em[p].pc = "mail" /\ (Works \/ Fails)
      /\ UNCHANGED <<monitor, incident, fanouts, clean, hookVars, pageVars>>
  BY DEF Recipients
<1>2. CASE em' = [em EXCEPT ![p] = NextChannel(m)]
  BY <1>1, <1>2, TriedThen
<1>3. CASE em' = [em EXCEPT ![p] = n]
  <2>1. em[p] \in EmitterRecords /\ Place(em[p]) /\ EmitterOK(em[p])
    BY NotifyFacts
  <2>2. /\ m \in EmitterRecords /\ m.tried = em[p].tried \cup {"mail"} /\ m.event = em[p].event
        /\ m.fan = em[p].fan /\ m.rest = em[p].rest /\ m.known = em[p].known
    BY <2>1, TryFacts DEF Channels
  <2>3. to \in SUBSET Members
    BY NotificationsAssumption
  <2> HIDE DEF m, to
  <2>4. /\ n \in EmitterRecords /\ n.pc = "mailing" /\ n.tried = em[p].tried \cup {"mail"}
        /\ n.event = em[p].event /\ n.fan = em[p].fan /\ n.rest = em[p].rest
        /\ n.known = em[p].known
    BY <2>2, <2>3 DEF EmitterRecords
  <2> HIDE DEF n
  <2>5. EmitterOK(n)
    BY <1>1, <2>1, <2>4 DEF EmitterOK, Place, MonitorPlace, DrillPlace, Channels
  <2> QED
    BY <1>1, <1>3, <2>4, <2>5, EmitterGoesOn
<1> QED
  BY <1>2, <1>3 DEF Recipients

\* One member has been dealt with.
LEMMA MailedKeeps ==
    ASSUME NotifyInv, NEW p \in Emitters, em[p].pc \in {"mailing", "send"},
           NEW m \in EmitterRecords, m.event = em[p].event, m.fan = em[p].fan,
           m.rest = em[p].rest, m.known = em[p].known, m.tried = em[p].tried,
           em' = [em EXCEPT ![p] = MailedTo(m)], Works \/ Fails,
           UNCHANGED <<monitor, incident, fanouts, clean, hookVars, pageVars>>
    PROVE  NotifyInv'
<1>1. em[p] \in EmitterRecords /\ Place(em[p]) /\ EmitterOK(em[p])
  BY NotifyFacts
<1>2. CASE m.to \subseteq {m.member}
  <2>1. em' = [em EXCEPT ![p] = NextChannel(m)]
    BY <1>2 DEF MailedTo
  <2> QED
    BY <2>1, TriedAt, ChannelLeft
<1>3. CASE ~(m.to \subseteq {m.member})
  <2> DEFINE n == [m EXCEPT !.pc = "mailing", !.to = m.to \ {m.member}, !.member = Nobody]
  <2>1. em' = [em EXCEPT ![p] = n]
    BY <1>3 DEF MailedTo
  <2>2. /\ n \in EmitterRecords /\ n.pc = "mailing" /\ n.tried = em[p].tried
        /\ n.event = em[p].event /\ n.fan = em[p].fan /\ n.rest = em[p].rest
        /\ n.known = em[p].known
    BY DEF EmitterRecords
  <2> HIDE DEF n
  <2>3. EmitterOK(n)
    BY <1>1, <2>2 DEF EmitterOK, Place, MonitorPlace, DrillPlace
  <2> QED
    BY <2>1, <2>2, <2>3, EmitterGoesOn
<1> QED
  BY <1>2, <1>3

\* Mailer.Send looks the address up first, and mails only one that is not suppressed.
LEMMA IsSuppressedKeeps ==
    ASSUME NotifyInv, NEW p \in Emitters, NEW a \in Members, IsSuppressed(p, a)
    PROVE  NotifyInv'
<1> DEFINE m == [em[p] EXCEPT !.member = a]
           n == [m EXCEPT !.pc = "send"]
<1>1. /\ em[p].pc = "mailing" /\ (Works \/ Fails)
      /\ UNCHANGED <<monitor, incident, fanouts, clean, hookVars, pageVars>>
  BY DEF IsSuppressed
<1>2. /\ em[p] \in EmitterRecords /\ Place(em[p]) /\ EmitterOK(em[p])
      /\ em[p].known \subseteq suppressed
  BY NotifyFacts
<1>3. /\ m \in EmitterRecords /\ m.tried = em[p].tried /\ m.event = em[p].event /\ m.member = a
      /\ m.fan = em[p].fan /\ m.rest = em[p].rest /\ m.known = em[p].known
  BY <1>2 DEF EmitterRecords
<1>4. \/ em' = [em EXCEPT ![p] = MailedTo(m)]
      \/ a \notin suppressed /\ em' = [em EXCEPT ![p] = n]
  BY DEF IsSuppressed
<1> HIDE DEF m
<1>5. CASE em' = [em EXCEPT ![p] = MailedTo(m)]
  BY <1>1, <1>3, <1>5, MailedKeeps
<1>6. CASE a \notin suppressed /\ em' = [em EXCEPT ![p] = n]
  <2>1. /\ n \in EmitterRecords /\ n.pc = "send" /\ n.tried = em[p].tried /\ n.member = a
        /\ n.event = em[p].event /\ n.fan = em[p].fan /\ n.rest = em[p].rest
        /\ n.known = em[p].known
    BY <1>3 DEF EmitterRecords
  <2> HIDE DEF n
  <2>2. EmitterOK(n)
    BY <1>1, <1>2, <1>6, <2>1 DEF EmitterOK, Place, MonitorPlace, DrillPlace
  <2> QED
    BY <1>1, <1>6, <2>1, <2>2, EmitterGoesOn
<1> QED
  BY <1>4, <1>5, <1>6

LEMMA SendKeeps ==
    ASSUME NotifyInv, NEW p \in Emitters, Send(p)
    PROVE  NotifyInv'
<1>1. /\ em[p].pc = "send" /\ (Works \/ Fails) /\ em' = [em EXCEPT ![p] = MailedTo(em[p])]
      /\ UNCHANGED <<monitor, incident, fanouts, clean, hookVars, pageVars>>
  BY NotifyFacts DEF Send
<1>2. em[p] \in EmitterRecords
  BY NotifyFacts
<1> QED
  BY <1>1, <1>2, MailedKeeps

LEMMA PushKeeps ==
    ASSUME NotifyInv, NEW p \in Emitters, Push(p)
    PROVE  NotifyInv'
<1>1. /\ em[p].pc = "push" /\ (Works \/ Fails)
      /\ em' = [em EXCEPT ![p] = NextChannel(Try(em[p], "push"))]
      /\ UNCHANGED <<monitor, incident, fanouts, clean, hookVars, pageVars>>
  BY NotifyFacts DEF Push, FcmSend
<1> QED
  BY <1>1, TriedThen

\* The Slack post, after which PagerDuty is next if there is a key.
LEMMA SlackKeeps ==
    ASSUME NotifyInv, NEW p \in Emitters, Slack(p)
    PROVE  NotifyInv'
<1> DEFINE m == Try(em[p], "alerts")
           n == [m EXCEPT !.pc = "pager"]
<1>1. /\ em[p].pc = "alerts" /\ (Works \/ Fails)
      /\ UNCHANGED <<monitor, incident, fanouts, clean, hookVars, pageVars>>
  BY DEF Slack, PostAlert
<1>2. em[p] \in EmitterRecords /\ Place(em[p]) /\ EmitterOK(em[p]) /\ faults \in Nat
  BY NotifyFacts
<1>3. /\ m \in EmitterRecords /\ m.tried = em[p].tried \cup {"alerts"} /\ m.event = em[p].event
      /\ m.fan = em[p].fan /\ m.rest = em[p].rest /\ m.known = em[p].known
  BY <1>2, TryFacts DEF Channels
<1>4. \/ em' = [em EXCEPT ![p] = n]
      \/ em' = [em EXCEPT ![p] = NextChannel(m)] /\ (m.event = "completed" \/ ~pager)
      \/ em' = [em EXCEPT ![p] = NextChannel(m)] /\ Fails
  BY DEF Slack
<1>5. CASE em' = [em EXCEPT ![p] = n]
  <2> HIDE DEF m
  <2>1. /\ n \in EmitterRecords /\ n.pc = "pager" /\ n.tried = em[p].tried \cup {"alerts"}
        /\ n.event = em[p].event /\ n.fan = em[p].fan /\ n.rest = em[p].rest
        /\ n.known = em[p].known
    BY <1>3 DEF EmitterRecords
  <2> HIDE DEF n
  <2>2. EmitterOK(n)
    BY <1>1, <1>2, <2>1 DEF EmitterOK, Place, MonitorPlace, DrillPlace, Channels
  <2> QED
    BY <1>1, <1>5, <2>1, <2>2, EmitterGoesOn
<1>6. CASE em' = [em EXCEPT ![p] = NextChannel(m)] /\ (m.event = "completed" \/ ~pager \/ Fails)
  <2>1. em[p].event \in HeartbeatEvents => faults' # 0 \/ ~pager
    BY <1>2, <1>3, <1>6 DEF HeartbeatEvents, Fails
  <2> QED
    BY <1>1, <1>6, <2>1, TriedThen
<1> QED
  BY <1>4, <1>5, <1>6

\* The PagerDuty event: of the one fan-out of the monitor that is under way, or of a drill.
LEMMA PagerDutyKeeps ==
    ASSUME NotifyInv, NEW p \in Emitters, PagerDuty(p)
    PROVE  NotifyInv'
<1>1. /\ em[p].pc = "pager" /\ (Works \/ Fails)
      /\ em' = [em EXCEPT ![p] = NextChannel(em[p])]
      /\ UNCHANGED <<monitor, fanouts, clean, hookVars, pageVars>>
  BY NotifyFacts DEF PagerDuty
<1>2. /\ em[p] \in EmitterRecords /\ Place(em[p]) /\ faults \in Nat
      /\ em[p].tried = em[p].tried \cup {ChannelAt(em[p].pc)}
  BY <1>1, NotifyFacts, TriedAt
<1>3. CASE incident' = incident /\ (Fails \/ em[p].event \notin HeartbeatEvents)
  <2>1. em[p].event \in HeartbeatEvents => faults' # 0
    BY <1>2, <1>3 DEF Fails
  <2> QED
    BY <1>1, <1>2, <1>3, <2>1, ChannelLeft
<1>4. CASE em[p].event \in HeartbeatEvents /\ incident' = (em[p].event = "down")
  <2> DEFINE n == NextChannel(em[p])
  <2>1. /\ n \in EmitterRecords /\ EmitterOK(n) /\ n.event = em[p].event /\ n.fan = em[p].fan
        /\ n.known = em[p].known /\ n.pc \notin {"idle", "hooks", "rows", "insert"}
    BY <1>1, <1>2, PlaceNext
  <2>2. n.pc = "end"
    <3>1. em[p].rest = <<>>
      BY <1>1, <1>2, <1>4 DEF Place, MonitorPlace, HeartbeatEvents
    <3> QED
      BY <3>1, <1>2, NextChannelFacts
  <2>3. em' = [em EXCEPT ![p] = n]
    BY <1>1
  <2> HIDE DEF n
  <2>4. incident' \in BOOLEAN
    BY <1>4
  <2>5. /\ IncidentKnown' => NotifyInv'
        /\ em'[p] = n /\ \A q \in Emitters \ {p} : em'[q] = em[q]
    BY <1>1, <2>1, <2>3, <2>4, EmitterParts
  <2>6. IncidentKnown'
    <3> SUFFICES ASSUME clean', faults' = 0, pager'
                 PROVE  /\ \A q \in Emitters : ~Alerting(q)'
                        /\ incident' <=> monitor'.last = "down"
      BY DEF IncidentKnown
    <3>1. faults = 0 /\ UNCHANGED <<monitor, clean, pager>>
      <4>1. UNCHANGED <<monitor, clean, pager>>
        BY <1>1 DEF pageVars
      <4>2. faults' = faults \/ faults' = faults + 1
        BY <1>1 DEF Works, Fails
      <4>3. faults = 0
        BY <1>2, <4>2
      <4> QED
        BY <4>1, <4>3
    <3>2. clean /\ pager
      BY <3>1, Zenon
    <3>3. Alerting(p)
      BY <1>1, <1>4 DEF Alerting
    <3>4. em[p].event = monitor.last /\ \A q \in Emitters : Alerting(q) => q = p
      BY <3>1, <3>2, <3>3 DEF NotifyInv, IncidentKnown
    <3>5. \A q \in Emitters : ~Alerting(q)'
      BY <2>2, <2>5, <3>4 DEF Alerting
    <3> QED
      BY <1>4, <3>1, <3>4, <3>5
  <2> QED
    BY <2>5, <2>6
<1> QED
  BY <1>3, <1>4 DEF PagerDuty

\* A new event: its number is nobody's, and no row is of it yet.
LEMMA AnnounceKeeps ==
    ASSUME NotifyInv, NEW p \in Emitters, NEW e \in Events, Announce(p, e)
    PROVE  NotifyInv'
<1> USE DEF hookVars, pageVars
<1> DEFINE s == Started(e, fanouts + 1)
<1>1. /\ em[p].pc = "idle" /\ fanouts < MaxEvents /\ fanouts' = fanouts + 1
      /\ em' = [em EXCEPT ![p] = s] /\ UNCHANGED <<incident, hookVars, pageVars, faults>>
  BY DEF Announce
<1>2. /\ NotifyTypes /\ fanouts \in Nat /\ faults \in Nat /\ fanouts + 1 \in 1 .. MaxEvents
      /\ \A q \in Emitters : em[q].fan <= fanouts
  BY <1>1, NotifyFacts
<1>3. /\ s \in EmitterRecords /\ EmitterOK(s) /\ s.pc = "hooks" /\ s.event = e
      /\ s.fan = fanouts + 1 /\ s.known = suppressed
  BY <1>2, StartedFacts DEF NotifyTypes
<1> HIDE DEF s
<1>4. \A q \in Emitters : em[q].fan # fanouts + 1
  <2>1. \A q \in Emitters : em[q].fan \in 0 .. MaxEvents
    BY NotifyFacts DEF EmitterRecords
  <2> QED
    BY <1>2, <2>1
<1>5. /\ Emitting' /\ em'[p] = s /\ \A q \in Emitters \ {p} : em'[q] = em[q]
  <2>1. suppressed' = suppressed
    BY <1>1
  <2>2. /\ s.known \subseteq suppressed' /\ suppressed \subseteq suppressed'
        /\ s.fan <= fanouts' /\ fanouts' \in Nat /\ fanouts <= fanouts'
    BY <1>1, <1>2, <1>3, <2>1
  <2>3. \A q \in Emitters \ {p} : em[q].fan # s.fan \/ s.fan = 0
    BY <1>3, <1>4
  <2>4. em' = [em EXCEPT ![p] = s]
    BY <1>1
  <2> QED
    BY <1>2, <1>3, <2>2, <2>3, <2>4, EmitterMoves
<1>6. /\ monitor' \in [status : Monitored, last : HeartbeatEvents]
      /\ monitor'.status \in HeartbeatEvents => monitor'.status = monitor'.last
      /\ clean' \in BOOLEAN
  <2>1. /\ monitor' \in [status : Monitored, last : HeartbeatEvents]
        /\ monitor'.status \in HeartbeatEvents => monitor'.status = monitor'.last
    BY <1>2 DEF Announce, HeartbeatEvents, NotifyTypes, Monitored
  <2>2. clean' \in BOOLEAN
    BY <1>2 DEF Announce, NotifyTypes
  <2> QED
    BY <2>1, <2>2
<1>7. NotifyTypes'
  BY <1>1, <1>2, <1>6 DEF NotifyTypes
<1>8. \A r \in Rows : RowKnown(r)'
  BY <1>1, <1>2, RowsStay
<1>9. RowsHeld'
  BY <1>1, <1>3, <1>5, HeldStay
<1>10. CopiesKnown'
  <2>1. ASSUME NEW q \in Emitters, NEW x \in Endpoints, NEW n \in 1 .. MaxEvents,
               em'[q].fan = n, Owes(q, x)'
        PROVE  \/ em[q].fan = n /\ Owes(q, x)
               \/ Cardinality(CopiesOf(x, n)) <= faults'
    <3>1. CASE q = p
      <4>1. n = fanouts + 1
        BY <1>3, <1>5, <2>1, <3>1
      <4>2. \A r \in Rows : row[r].fan \in 0 .. MaxEvents /\ row[r].fan <= fanouts
        BY <1>2 DEF NotifyInv, NotifyTypes, RowRecords, RowKnown
      <4>3. CopiesOf(x, n) = {}
        BY <1>2, <4>1, <4>2 DEF CopiesOf
      <4> QED
        BY <1>1, <1>2, <4>3, FS_EmptySet
    <3>2. CASE q # p
      BY <1>1, <1>5, <2>1, <3>2 DEF Owes
    <3> QED
      BY <3>1, <3>2
  <2> QED
    BY <1>1, <1>2, <2>1, CopiesStay
<1>11. GateKnown'
  <2>1. LiveEndpoints' \subseteq LiveEndpoints /\ Creating' \subseteq Creating
        /\ uncounted' = uncounted
    BY <1>1 DEF LiveEndpoints, Creating
  <2> QED
    BY <2>1, GateStays
<1>12. IncidentKnown'
  <2>1. ~Alerting(p)
    BY <1>1, NotifyFacts DEF Alerting, Place, MonitorPlace, DrillPlace, HeartbeatEvents
  <2>2. CASE e \in HeartbeatEvents
    <3>1. monitor'.last = e /\ clean' = (clean /\ \A q \in Emitters :
                           em[q].event \in HeartbeatEvents => em[q].pc = "end")
      BY <2>2 DEF Announce
    <3>2. clean' => \A q \in Emitters : ~Alerting(q)
      BY <3>1 DEF Alerting
    <3>3. clean' => \A q \in Emitters : Alerting(q)' <=> q = p
      BY <1>3, <1>5, <2>2, <3>2 DEF Alerting
    <3>4. em'[p].event = monitor'.last
      BY <1>3, <1>5, <3>1
    <3> QED
      BY <3>3, <3>4 DEF IncidentKnown
  <2>3. CASE e \notin HeartbeatEvents
    <3>1. UNCHANGED <<monitor, clean>>
      BY <2>3 DEF Announce
    <3>2. \A q \in Emitters :
            (Alerting(q)' <=> Alerting(q)) /\ (Alerting(q) => em'[q].event = em[q].event)
      BY <1>3, <1>5, <2>1, <2>3 DEF Alerting
    <3> QED
      BY <1>1, <1>2, <3>1, <3>2, IncidentStays
  <2> QED
    BY <2>2, <2>3
<1> QED
  BY <1>5, <1>7, <1>8, <1>9, <1>10, <1>11, <1>12 DEF NotifyInv

\* A fan-out that is over.
LEMMA FinishKeeps ==
    ASSUME NotifyInv, NEW p \in Emitters, Finish(p)
    PROVE  NotifyInv'
<1> USE DEF hookVars, pageVars
<1>1. /\ em[p].pc = "end" /\ em' = [em EXCEPT ![p] = Idle]
      /\ UNCHANGED <<monitor, incident, fanouts, clean, hookVars, pageVars, faults>>
  BY DEF Finish
<1>2. NotifyTypes /\ fanouts \in Nat /\ faults \in Nat
  BY NotifyFacts
<1>3. Emitting' /\ em'[p] = Idle /\ \A q \in Emitters \ {p} : em'[q] = em[q]
  <2> DEFINE i == Idle
  <2>1. i \in EmitterRecords /\ EmitterOK(i) /\ i.fan = 0 /\ i.known = {}
    BY IdleFacts
  <2>2. suppressed' = suppressed /\ fanouts' = fanouts /\ em' = [em EXCEPT ![p] = i]
    BY <1>1
  <2> HIDE DEF i
  <2>3. /\ i.known \subseteq suppressed' /\ suppressed \subseteq suppressed'
        /\ i.fan <= fanouts' /\ fanouts' \in Nat /\ fanouts <= fanouts'
        /\ \A q \in Emitters \ {p} : em[q].fan # i.fan \/ i.fan = 0
    BY <1>2, <2>1, <2>2
  <2>4. Emitting' /\ em'[p] = i /\ \A q \in Emitters \ {p} : em'[q] = em[q]
    BY <1>2, <2>1, <2>2, <2>3, EmitterMoves
  <2> QED
    BY <2>4 DEF i
<1>4. NotifyTypes' /\ \A r \in Rows : RowKnown(r)'
  BY <1>1, <1>2, RowsStay DEF NotifyTypes
<1>5. RowsHeld'
  BY <1>1, <1>3, IdleFacts, HeldStay
<1>6. CopiesKnown'
  <2>1. ASSUME NEW q \in Emitters, NEW x \in Endpoints, NEW n \in 1 .. MaxEvents,
               em'[q].fan = n, Owes(q, x)'
        PROVE  em[q].fan = n /\ Owes(q, x)
    BY <1>1, <1>3, <2>1, IdleFacts DEF Owes
  <2> QED
    BY <1>1, <1>2, <2>1, CopiesStay
<1>7. GateKnown'
  <2>1. LiveEndpoints' \subseteq LiveEndpoints /\ Creating' \subseteq Creating
        /\ uncounted' = uncounted
    BY <1>1 DEF LiveEndpoints, Creating
  <2> QED
    BY <2>1, GateStays
<1>8. IncidentKnown'
  <2>1. \A q \in Emitters :
          (Alerting(q)' <=> Alerting(q)) /\ (Alerting(q) => em'[q].event = em[q].event)
    BY <1>1, <1>3, IdleFacts DEF Alerting, HeartbeatEvents
  <2> QED
    BY <1>1, <1>2, <2>1, IncidentStays
<1> QED
  BY <1>3, <1>4, <1>5, <1>6, <1>7, <1>8 DEF NotifyInv

\* A row is made where there was none: nobody has hold of it and no job is for it.
LEMMA RowMade ==
    ASSUME NotifyInv, NEW r \in Rows, FreeRow(r), NEW v \in RowRecords, v.status = "pending",
           v.fan <= fanouts, row' = [row EXCEPT ![r] = v],
           UNCHANGED <<job, attempt, work, answered, fanouts, faults>>
    PROVE  /\ row' \in [Rows -> RowRecords] /\ row'[r] = v /\ \A s \in Rows \ {r} : row'[s] = row[s]
           /\ row[r] = NoRow /\ job[r] = "none" /\ v # NoRow
           /\ \A p \in Emitters : em[p].pc = "insert" => em[p].row # r
           /\ \A q \in Requests : req[q].pc = "enqueue" => req[q].row # r
           /\ \A s \in Rows : RowKnown(s)'
<1>1. row \in [Rows -> RowRecords] /\ row[r] = NoRow
  BY NotifyFacts DEF NotifyTypes, FreeRow
<1>2. /\ row' \in [Rows -> RowRecords] /\ row'[r] = v /\ \A s \in Rows \ {r} : row'[s] = row[s]
  BY <1>1
<1>3. v # NoRow
  BY DEF NoRow
<1>4. /\ \A p \in Emitters : em[p].pc = "insert" => em[p].row # r
      /\ \A q \in Requests : req[q].pc = "enqueue" => req[q].row # r
  BY <1>1 DEF NotifyInv, RowsHeld
<1>5. RowKnown(r)
  BY DEF NotifyInv
<1>6. job[r] = "none" /\ attempt[r] = 0 /\ work[r] = "idle"
  BY <1>1, <1>5 DEF RowKnown
<1>7. faults \in Nat
  BY NotifyFacts
<1>8. RowKnown(r)'
  BY <1>2, <1>3, <1>6, <1>7 DEF RowKnown, Settled, Delivering
<1>9. ASSUME NEW s \in Rows, s # r PROVE RowKnown(s)'
  <2>1. RowKnown(s)
    BY DEF NotifyInv
  <2> QED
    BY <1>2, <1>9, <2>1 DEF RowKnown
<1> QED
  BY <1>1, <1>2, <1>3, <1>4, <1>6, <1>8, <1>9

\* Dispatch creates the row of one endpoint: the first of this run of the fan-out.
LEMMA CreateDeliveryKeeps ==
    ASSUME NotifyInv, NEW p \in Emitters, NEW e \in Endpoints, CreateDelivery(p, e)
    PROVE  NotifyInv'
<1>1. /\ em[p].pc = "rows" /\ e \in em[p].todo
      /\ UNCHANGED <<monitor, incident, fanouts, clean, endpoint, job, attempt, work,
                     answered, pageVars>>
  BY DEF CreateDelivery
<1>2. /\ em[p] \in EmitterRecords /\ Place(em[p]) /\ EmitterOK(em[p]) /\ NotifyTypes
      /\ em[p].known \subseteq suppressed /\ em[p].fan <= fanouts /\ fanouts \in Nat
      /\ faults \in Nat
  BY NotifyFacts
<1>3. CASE Fails /\ UNCHANGED row /\ em' = [em EXCEPT ![p] = NextChannel(em[p])]
  <2>1. em[p].tried = em[p].tried \cup {ChannelAt(em[p].pc)}
    BY <1>1, TriedAt
  <2>2. UNCHANGED <<monitor, incident, fanouts, clean, hookVars, pageVars>>
    BY <1>1, <1>3 DEF hookVars
  <2> QED
    BY <1>1, <1>2, <1>3, <2>1, <2>2, ChannelLeft
<1>4. ASSUME NEW r \in Rows, Works, FreeRow(r),
             row' = [row EXCEPT ![r] = [ep |-> e, fan |-> em[p].fan, status |-> "pending"]],
             em' = [em EXCEPT ![p].pc = "insert", ![p].row = r]
      PROVE  NotifyInv'
  <2> DEFINE v == [ep |-> e, fan |-> em[p].fan, status |-> "pending"]
             m == [em[p] EXCEPT !.pc = "insert", !.row = r]
             k == em[p].fan
  <2>1. /\ k \in 1 .. MaxEvents /\ k \in Nat
    BY <1>1, <1>2, NotificationsAssumption DEF Place, EmitterRecords
  <2>2. v \in RowRecords /\ v.status = "pending" /\ v.fan = k /\ v.ep = e
    BY <1>2, <2>1 DEF RowRecords, EmitterRecords
  <2>3. /\ m \in EmitterRecords /\ m.pc = "insert" /\ m.row = r /\ m.event = em[p].event
        /\ m.fan = k /\ m.todo = em[p].todo /\ m.rest = em[p].rest /\ m.known = em[p].known
        /\ m.tried = em[p].tried
    BY <1>2 DEF EmitterRecords
  <2>4. em' = [em EXCEPT ![p] = m] /\ row' = [row EXCEPT ![r] = v]
    BY <1>4, NotifyFacts
  <2> HIDE DEF v, m, k
  <2>5. /\ row' \in [Rows -> RowRecords] /\ row'[r] = v /\ \A s \in Rows \ {r} : row'[s] = row[s]
        /\ row[r] = NoRow /\ job[r] = "none" /\ v # NoRow
        /\ \A q \in Emitters : em[q].pc = "insert" => em[q].row # r
        /\ \A q \in Requests : req[q].pc = "enqueue" => req[q].row # r
        /\ \A s \in Rows : RowKnown(s)'
    <3>1. v.fan <= fanouts
      BY <1>2, <2>2 DEF k
    <3>2. UNCHANGED <<job, attempt, work, answered, fanouts, faults>>
      BY <1>1, <1>4 DEF Works
    <3> QED
      BY <1>4, <2>2, <2>4, <3>1, <3>2, RowMade
  <2>6. EmitterOK(m)
    BY <1>1, <1>2, <2>3 DEF EmitterOK, Place, MonitorPlace, DrillPlace, k
  <2>7. /\ Emitting' /\ em'[p] = m /\ \A q \in Emitters \ {p} : em'[q] = em[q]
    <3>1. suppressed' = suppressed /\ fanouts' = fanouts
      BY <1>1 DEF pageVars
    <3>2. /\ m.known \subseteq suppressed' /\ suppressed \subseteq suppressed' /\ m.fan <= fanouts'
          /\ fanouts' \in Nat /\ fanouts <= fanouts'
      BY <1>2, <2>3, <3>1 DEF k
    <3>3. \A q \in Emitters \ {p} : em[q].fan # m.fan \/ m.fan = 0
      BY <2>3, NotifyFacts DEF k
    <3> QED
      BY <1>2, <2>3, <2>4, <2>6, <3>2, <3>3, EmitterMoves
  <2>8. NotifyTypes'
    BY <1>1, <1>2, <1>4, <2>5 DEF NotifyTypes, pageVars, Works
  <2>9. RowsHeld'
    <3>1. UNCHANGED <<job, req>>
      BY <1>1 DEF pageVars
    <3>2. ASSUME NEW q \in Emitters, em'[q].pc = "insert"
          PROVE  /\ em'[q].row \in Rows /\ row'[em'[q].row] # NoRow /\ job[em'[q].row] = "none"
                 /\ row'[em'[q].row].fan = em'[q].fan
      <4>1. CASE q = p
        BY <2>2, <2>3, <2>5, <2>7, <4>1
      <4>2. CASE q # p
        BY <2>5, <2>7, <3>2, <4>2 DEF NotifyInv, RowsHeld
      <4> QED
        BY <4>1, <4>2
    <3>3. ASSUME NEW q \in Requests, req[q].pc = "enqueue"
          PROVE  req[q].row \in Rows /\ row'[req[q].row] # NoRow /\ job[req[q].row] = "none"
      BY <2>5, <3>3 DEF NotifyInv, RowsHeld
    <3>4. ASSUME NEW q \in Emitters, NEW s \in Rows, HeldBy(q, s)'
          PROVE  (q = p /\ s = r) \/ (q # p /\ s # r /\ HeldBy(q, s))
      BY <2>3, <2>5, <2>7, <3>4 DEF HeldBy
    <3>5. ASSUME NEW q \in Requests, NEW s \in Rows, HeldFor(q, s)'
          PROVE  HeldFor(q, s) /\ s # r
      BY <2>5, <3>1, <3>5 DEF HeldFor
    <3>6. /\ \A q, o \in Emitters, s \in Rows : HeldBy(q, s)' /\ HeldBy(o, s)' => q = o
          /\ \A q, o \in Requests, s \in Rows : HeldFor(q, s)' /\ HeldFor(o, s)' => q = o
          /\ \A q \in Emitters, o \in Requests, s \in Rows : ~(HeldBy(q, s)' /\ HeldFor(o, s)')
      BY <3>4, <3>5 DEF NotifyInv, RowsHeld
    <3> QED
      BY <3>1, <3>2, <3>3, <3>6 DEF RowsHeld
  <2>10. CopiesKnown'
    <3>1. faults' = faults
      BY <1>4 DEF Works
    <3> SUFFICES ASSUME NEW x \in Endpoints, NEW n \in 1 .. MaxEvents
                 PROVE  /\ Cardinality(CopiesOf(x, n)') <= 1 + faults
                        /\ \A q \in Emitters : em'[q].fan = n /\ Owes(q, x)' =>
                               Cardinality(CopiesOf(x, n)') <= faults
      BY <3>1 DEF CopiesKnown
    <3> DEFINE S == CopiesOf(x, n)
               T == CopiesOf(x, n)'
    <3>2. /\ S \in SUBSET Rows /\ T \in SUBSET Rows
      BY DEF CopiesOf
    <3>3. r \notin S
      BY <2>5 DEF CopiesOf, NoRow
    <3>4. CASE x = e /\ n = k
      <4>1. T = S \cup {r}
        BY <2>2, <2>5, <3>4 DEF CopiesOf
      <4>2. Cardinality(S) <= faults
        <5>1. em[p].fan = n /\ Owes(p, x)
          BY <1>1, <3>4 DEF Owes, k
        <5> QED
          BY <5>1 DEF NotifyInv, CopiesKnown
      <4>3. Cardinality(T) <= Cardinality(S) + 1 /\ Cardinality(S) \in Nat /\ Cardinality(T) \in Nat
        BY <3>2, <4>1, CopiesFinite
      <4>4. \A q \in Emitters : ~(em'[q].fan = n /\ Owes(q, x)')
        <5> SUFFICES ASSUME NEW q \in Emitters, em'[q].fan = n, Owes(q, x)' PROVE FALSE
          OBVIOUS
        <5>1. q = p
          BY <2>7, <3>4, NotifyFacts DEF k
        <5>2. ~Owes(p, x)'
          BY <2>2, <2>3, <2>5, <2>7, <3>4 DEF Owes
        <5> QED
          BY <5>1, <5>2
      <4> QED
        BY <1>2, <4>2, <4>3, <4>4
    <3>5. CASE ~(x = e /\ n = k)
      <4>1. T = S
        BY <2>2, <2>5, <3>3, <3>5 DEF CopiesOf
      <4>2. ASSUME NEW q \in Emitters, em'[q].fan = n, Owes(q, x)'
            PROVE  em[q].fan = n /\ Owes(q, x)
        <5>1. CASE q = p
          BY <1>1, <2>2, <2>3, <2>5, <2>7, <4>2, <5>1 DEF Owes, k
        <5>2. CASE q # p
          <6>1. em'[q] = em[q]
            BY <2>7, <5>2
          <6>2. em[q].pc = "insert" => row'[em[q].row] = row[em[q].row]
            BY <2>5 DEF NotifyInv, RowsHeld
          <6> QED
            BY <4>2, <6>1, <6>2 DEF Owes
        <5> QED
          BY <5>1, <5>2
      <4> QED
        BY <4>1, <4>2 DEF NotifyInv, CopiesKnown
    <3> QED
      BY <3>4, <3>5
  <2>11. GateKnown'
    <3>1. LiveEndpoints' \subseteq LiveEndpoints /\ Creating' \subseteq Creating
        /\ uncounted' = uncounted
      BY <1>1 DEF LiveEndpoints, Creating, pageVars
    <3> QED
      BY <3>1, GateStays
  <2>12. IncidentKnown'
    <3>1. \A q \in Emitters :
            (Alerting(q)' <=> Alerting(q)) /\ (Alerting(q) => em'[q].event = em[q].event)
      BY <1>1, <2>3, <2>7 DEF Alerting
    <3>2. UNCHANGED <<monitor, incident, clean, pager>> /\ faults' = faults
      BY <1>1, <1>4 DEF pageVars, Works
    <3> QED
      BY <1>2, <3>1, <3>2, IncidentStays
  <2> QED
    BY <2>5, <2>7, <2>8, <2>9, <2>10, <2>11, <2>12 DEF NotifyInv
<1> QED
  BY <1>3, <1>4, NotifyFacts DEF CreateDelivery

\* A job is queued for a row whose job there was none of: its holder lets go of it.
LEMMA JobQueued ==
    ASSUME NotifyInv, NEW r \in Rows, row[r] # NoRow, job[r] = "none",
           job' = [job EXCEPT ![r] = "available"],
           UNCHANGED <<row, attempt, work, answered, fanouts, faults>>
    PROVE  /\ job' \in [Rows -> {"none", "available", "running", "completed", "discarded"}]
           /\ job'[r] = "available" /\ \A s \in Rows \ {r} : job'[s] = job[s]
           /\ \A s \in Rows : RowKnown(s)'
<1>1. /\ job \in [Rows -> {"none", "available", "running", "completed", "discarded"}]
      /\ MaxAttempts \in Nat \ {0} /\ faults \in Nat
  BY NotifyFacts, NotificationsAssumption DEF NotifyTypes
<1>2. /\ job' \in [Rows -> {"none", "available", "running", "completed", "discarded"}]
      /\ job'[r] = "available" /\ \A s \in Rows \ {r} : job'[s] = job[s]
  BY <1>1
<1>3. RowKnown(r)
  BY DEF NotifyInv
<1>4. attempt[r] = 0 /\ work[r] = "idle" /\ attempt[r] < MaxAttempts
  BY <1>1, <1>3 DEF RowKnown
<1>5. RowKnown(r)'
  BY <1>2, <1>3, <1>4 DEF RowKnown
<1>6. ASSUME NEW s \in Rows, s # r PROVE RowKnown(s)'
  <2>1. RowKnown(s)
    BY DEF NotifyInv
  <2> QED
    BY <1>2, <1>6, <2>1 DEF RowKnown
<1> QED
  BY <1>2, <1>5, <1>6

\* Dispatch queues the row it created and goes to the next endpoint or channel.
LEMMA InsertDeliveryKeeps ==
    ASSUME NotifyInv, NEW p \in Emitters, InsertDelivery(p)
    PROVE  NotifyInv'
<1> DEFINE r == em[p].row
           left == em[p].todo \ {row[r].ep}
           n == [em[p] EXCEPT !.pc = "rows", !.todo = left, !.row = 0]
<1>1. /\ em[p].pc = "insert"
      /\ UNCHANGED <<monitor, incident, fanouts, clean, endpoint, row, attempt, work,
                     answered, pageVars>>
  BY DEF InsertDelivery
<1>2. /\ em[p] \in EmitterRecords /\ Place(em[p]) /\ EmitterOK(em[p]) /\ NotifyTypes
      /\ em[p].known \subseteq suppressed /\ em[p].fan <= fanouts /\ fanouts \in Nat
      /\ faults \in Nat
  BY NotifyFacts
<1>3. em[p].tried = em[p].tried \cup {ChannelAt(em[p].pc)}
  BY <1>1, TriedAt
<1>4. \/ Fails /\ UNCHANGED job /\ em' = [em EXCEPT ![p] = NextChannel(em[p])]
      \/ Works /\ job' = [job EXCEPT ![r] = "available"] /\ em' = [em EXCEPT ![p] = NextChannel(em[p])]
      \/ Works /\ job' = [job EXCEPT ![r] = "available"] /\ em' = [em EXCEPT ![p] = n]
  BY NotifyFacts DEF InsertDelivery
<1>5. CASE Fails /\ UNCHANGED job /\ em' = [em EXCEPT ![p] = NextChannel(em[p])]
  <2>1. UNCHANGED <<monitor, incident, fanouts, clean, hookVars, pageVars>>
    BY <1>1, <1>5 DEF hookVars
  <2> QED
    BY <1>1, <1>2, <1>3, <1>5, <2>1, ChannelLeft
<1>6. ASSUME NEW m \in EmitterRecords, Works, job' = [job EXCEPT ![r] = "available"],
             em' = [em EXCEPT ![p] = m], EmitterOK(m), m.event = em[p].event, m.fan = em[p].fan,
             m.known = em[p].known, m.pc \notin {"idle", "hooks", "insert"},
             m.pc = "rows" => m.todo = left, em[p].event \in HeartbeatEvents => m.pc # "end"
      PROVE  NotifyInv'
  <2>1. r \in Rows /\ row[r] # NoRow /\ job[r] = "none"
    BY <1>1 DEF NotifyInv, RowsHeld
  <2>2. /\ job' \in [Rows -> {"none", "available", "running", "completed", "discarded"}]
        /\ job'[r] = "available" /\ \A s \in Rows \ {r} : job'[s] = job[s]
        /\ \A s \in Rows : RowKnown(s)'
    <3>1. UNCHANGED <<row, attempt, work, answered, fanouts, faults>>
      BY <1>1, <1>6 DEF Works
    <3> HIDE DEF r
    <3> QED
      BY <1>6, <2>1, <3>1, JobQueued
  <2>3. /\ Emitting' /\ em'[p] = m /\ \A q \in Emitters \ {p} : em'[q] = em[q]
    <3>1. suppressed' = suppressed /\ fanouts' = fanouts
      BY <1>1 DEF pageVars
    <3>2. /\ m.known \subseteq suppressed' /\ suppressed \subseteq suppressed' /\ m.fan <= fanouts'
          /\ fanouts' \in Nat /\ fanouts <= fanouts'
      BY <1>2, <1>6, <3>1
    <3>3. \A q \in Emitters \ {p} : em[q].fan # m.fan \/ m.fan = 0
      BY <1>6, NotifyFacts
    <3> QED
      BY <1>2, <1>6, <3>2, <3>3, EmitterMoves
  <2>4. NotifyTypes'
    BY <1>1, <1>2, <1>6, <2>2 DEF NotifyTypes, pageVars, Works
  <2>5. RowsHeld'
    <3>1. UNCHANGED <<row, req>>
      BY <1>1 DEF pageVars
    <3>2. HeldBy(p, r)
      BY <1>1 DEF HeldBy
    <3> HIDE DEF r
    <3>3. ASSUME NEW q \in Emitters, NEW s \in Rows, HeldBy(q, s)'
          PROVE  HeldBy(q, s) /\ s # r
      <4>1. q # p /\ HeldBy(q, s)
        BY <1>6, <2>3, <3>3 DEF HeldBy
      <4> QED
        BY <2>1, <3>2, <4>1 DEF NotifyInv, RowsHeld
    <3>4. ASSUME NEW q \in Requests, NEW s \in Rows, HeldFor(q, s)'
          PROVE  HeldFor(q, s) /\ s # r
      <4>1. HeldFor(q, s)
        BY <3>1, <3>4 DEF HeldFor
      <4> QED
        BY <2>1, <3>2, <4>1 DEF NotifyInv, RowsHeld
    <3>5. /\ \A q, o \in Emitters, s \in Rows : HeldBy(q, s)' /\ HeldBy(o, s)' => q = o
          /\ \A q, o \in Requests, s \in Rows : HeldFor(q, s)' /\ HeldFor(o, s)' => q = o
          /\ \A q \in Emitters, o \in Requests, s \in Rows : ~(HeldBy(q, s)' /\ HeldFor(o, s)')
      BY <3>3, <3>4 DEF NotifyInv, RowsHeld
    <3>6. ASSUME NEW q \in Emitters, em'[q].pc = "insert"
          PROVE  /\ em'[q].row \in Rows /\ row'[em'[q].row] # NoRow /\ job'[em'[q].row] = "none"
                 /\ row'[em'[q].row].fan = em'[q].fan
      <4>1. em'[q] = em[q]
        BY <1>6, <2>3, <3>6
      <4>2. /\ em[q].row \in Rows /\ row[em[q].row] # NoRow /\ job[em[q].row] = "none"
            /\ row[em[q].row].fan = em[q].fan
        BY <3>6, <4>1 DEF NotifyInv, RowsHeld
      <4>3. em[q].row # r
        BY <3>3, <3>6, <4>1, <4>2 DEF HeldBy
      <4> QED
        BY <2>2, <3>1, <4>1, <4>2, <4>3
    <3>7. ASSUME NEW q \in Requests, req'[q].pc = "enqueue"
          PROVE  req'[q].row \in Rows /\ row'[req'[q].row] # NoRow /\ job'[req'[q].row] = "none"
      <4>1. req[q].row \in Rows /\ row[req[q].row] # NoRow /\ job[req[q].row] = "none"
        BY <3>1, <3>7 DEF NotifyInv, RowsHeld
      <4>2. req[q].row # r
        BY <3>1, <3>4, <3>7, <4>1 DEF HeldFor
      <4> QED
        BY <2>2, <3>1, <4>1, <4>2
    <3> QED
      BY <3>5, <3>6, <3>7 DEF RowsHeld
  <2>6. CopiesKnown'
    <3>1. ASSUME NEW q \in Emitters, NEW x \in Endpoints, NEW k \in 1 .. MaxEvents,
                 em'[q].fan = k, Owes(q, x)'
          PROVE  em[q].fan = k /\ Owes(q, x)
      <4>1. CASE q = p
        <5>1. m.pc = "rows" /\ x \in left /\ m.fan = k
          BY <1>6, <2>3, <3>1, <4>1 DEF Owes
        <5> QED
          BY <1>1, <1>6, <4>1, <5>1 DEF Owes
      <4>2. CASE q # p
        BY <1>1, <2>3, <3>1, <4>2 DEF Owes
      <4> QED
        BY <4>1, <4>2
    <3>2. UNCHANGED <<row, faults>>
      BY <1>1, <1>6 DEF Works
    <3> QED
      BY <1>2, <3>1, <3>2, CopiesStay
  <2>7. GateKnown'
    <3>1. LiveEndpoints' \subseteq LiveEndpoints /\ Creating' \subseteq Creating
        /\ uncounted' = uncounted
      BY <1>1 DEF LiveEndpoints, Creating, pageVars
    <3> QED
      BY <3>1, GateStays
  <2>8. IncidentKnown'
    <3>1. \A q \in Emitters :
            (Alerting(q)' <=> Alerting(q)) /\ (Alerting(q) => em'[q].event = em[q].event)
      BY <1>1, <1>6, <2>3 DEF Alerting
    <3>2. UNCHANGED <<monitor, incident, clean, pager>> /\ faults' = faults
      BY <1>1, <1>6 DEF pageVars, Works
    <3> QED
      BY <1>2, <3>1, <3>2, IncidentStays
  <2> QED
    BY <2>2, <2>3, <2>4, <2>5, <2>6, <2>7, <2>8 DEF NotifyInv
<1>7. CASE Works /\ job' = [job EXCEPT ![r] = "available"] /\ em' = [em EXCEPT ![p] = NextChannel(em[p])]
  <2> DEFINE m == NextChannel(em[p])
  <2>1. /\ m \in EmitterRecords /\ EmitterOK(m) /\ m.event = em[p].event /\ m.fan = em[p].fan
        /\ m.known = em[p].known /\ m.pc \notin {"idle", "hooks", "rows", "insert"}
        /\ em[p].event \in HeartbeatEvents => m.pc # "end"
    BY <1>1, <1>2, <1>3, PlaceNext
  <2>2. em' = [em EXCEPT ![p] = m]
    BY <1>7
  <2> HIDE DEF m, r, left, n
  <2> QED
    BY <1>6, <1>7, <2>1, <2>2
<1>8. CASE Works /\ job' = [job EXCEPT ![r] = "available"] /\ em' = [em EXCEPT ![p] = n]
  <2>1. left \in SUBSET Endpoints
    BY <1>2 DEF EmitterRecords
  <2> HIDE DEF left, r
  <2>2. /\ n \in EmitterRecords /\ n.pc = "rows" /\ n.tried = em[p].tried /\ n.todo = left
        /\ n.event = em[p].event /\ n.fan = em[p].fan /\ n.rest = em[p].rest
        /\ n.known = em[p].known
    BY <1>2, <2>1 DEF EmitterRecords
  <2> HIDE DEF n
  <2>3. EmitterOK(n)
    BY <1>1, <1>2, <2>2 DEF EmitterOK, Place, MonitorPlace, DrillPlace
  <2> QED
    BY <1>6, <1>8, <2>2, <2>3
<1> QED
  BY <1>4, <1>5, <1>7, <1>8

\* A worker moves on with one delivery; the other rows, the emitters and the pages stay.
LEMMA DeliveryMoves ==
    ASSUME NotifyInv, NEW r \in Rows, UNCHANGED <<emitVars, endpoint, pageVars>>,
           Works \/ Fails, NotifyTypes', job[r] # "none", row'[r] # NoRow,
           row'[r].ep = row[r].ep, row'[r].fan = row[r].fan, RowKnown(r)',
           \A s \in Rows \ {r} :
              /\ row'[s] = row[s] /\ job'[s] = job[s] /\ attempt'[s] = attempt[s]
              /\ work'[s] = work[s] /\ (s \in answered => s \in answered')
    PROVE  NotifyInv'
<1> USE DEF emitVars, pageVars
<1>1. faults' \in Nat /\ faults <= faults' /\ faults \in Nat /\ fanouts \in Nat
  BY NotifyFacts DEF Works, Fails
<1>2. \A s \in Rows : row'[s].ep = row[s].ep /\ row'[s].fan = row[s].fan
  OBVIOUS
<1>3. ASSUME NEW s \in Rows, s # r PROVE RowKnown(s)'
  <2>1. RowKnown(s) /\ attempt[s] \in Nat
    BY NotificationsAssumption DEF NotifyInv, NotifyTypes
  <2>2. row[s].status \notin Settled =>
            attempt[s] <= faults' + (IF work[s] \in Delivering THEN 1 ELSE 0)
    BY <1>1, <2>1 DEF RowKnown
  <2> QED
    BY <1>3, <2>1, <2>2 DEF RowKnown
<1>4. RowsHeld'
  <2>1. ASSUME NEW q \in Emitters, em[q].pc = "insert"
        PROVE  /\ em[q].row \in Rows /\ row'[em[q].row] # NoRow /\ job'[em[q].row] = "none"
               /\ row'[em[q].row].fan = em[q].fan
    BY <2>1 DEF NotifyInv, RowsHeld
  <2>2. ASSUME NEW q \in Requests, req[q].pc = "enqueue"
        PROVE  req[q].row \in Rows /\ row'[req[q].row] # NoRow /\ job'[req[q].row] = "none"
    BY <2>2 DEF NotifyInv, RowsHeld
  <2>3. /\ \A q \in Emitters, s \in Rows : HeldBy(q, s)' <=> HeldBy(q, s)
        /\ \A q \in Requests, s \in Rows : HeldFor(q, s)' <=> HeldFor(q, s)
    BY DEF HeldBy, HeldFor
  <2>4. /\ \A q, o \in Emitters, s \in Rows : HeldBy(q, s)' /\ HeldBy(o, s)' => q = o
        /\ \A q, o \in Requests, s \in Rows : HeldFor(q, s)' /\ HeldFor(o, s)' => q = o
        /\ \A q \in Emitters, o \in Requests, s \in Rows : ~(HeldBy(q, s)' /\ HeldFor(o, s)')
    BY <2>3 DEF NotifyInv, RowsHeld
  <2> QED
    BY <2>1, <2>2, <2>4 DEF RowsHeld
<1>5. CopiesKnown'
  <2>1. ASSUME NEW q \in Emitters, NEW x \in Endpoints, NEW k \in 1 .. MaxEvents,
               em'[q].fan = k, Owes(q, x)'
        PROVE  em[q].fan = k /\ Owes(q, x)
    <3>1. em[q].pc = "insert" => row'[em[q].row].ep = row[em[q].row].ep
      BY <1>2 DEF NotifyInv, RowsHeld
    <3> QED
      BY <2>1, <3>1 DEF Owes
  <2> QED
    BY <1>1, <1>2, <2>1, CopiesStay
<1>6. GateKnown'
  <2>1. LiveEndpoints' \subseteq LiveEndpoints /\ Creating' \subseteq Creating
        /\ uncounted' = uncounted
    BY DEF LiveEndpoints, Creating
  <2> QED
    BY <2>1, GateStays
<1>7. IncidentKnown'
  <2>1. \A q \in Emitters :
          (Alerting(q)' <=> Alerting(q)) /\ (Alerting(q) => em'[q].event = em[q].event)
    BY DEF Alerting
  <2> QED
    BY <1>1, <2>1, IncidentStays
<1>8. Emitting'
  BY DEF NotifyInv, Emitting
<1> QED
  BY <1>3, <1>4, <1>5, <1>6, <1>7, <1>8 DEF NotifyInv

\* What the invariant says of one row.
LEMMA RowFacts ==
    ASSUME NotifyInv, NEW r \in Rows
    PROVE  /\ RowKnown(r) /\ row[r] \in RowRecords /\ attempt[r] \in 0 .. MaxAttempts
           /\ attempt[r] \in Nat /\ MaxAttempts \in Nat \ {0} /\ faults \in Nat
           /\ job[r] \in {"none", "available", "running", "completed", "discarded"}
           /\ work[r] \in {"idle", "post", "sent", "refused", "gone", "done", "error"}
  BY NotificationsAssumption DEF NotifyInv, NotifyTypes

\* A worker takes a job and reads its row and endpoint.
LEMMA FetchKeeps ==
    ASSUME NotifyInv, NEW r \in Rows, Fetch(r)
    PROVE  NotifyInv'
<1>1. /\ RowKnown(r) /\ row[r] \in RowRecords /\ attempt[r] \in Nat
      /\ MaxAttempts \in Nat \ {0} /\ faults \in Nat
  BY RowFacts
<1>2. /\ job[r] = "available" /\ job' = [job EXCEPT ![r] = "running"]
      /\ attempt' = [attempt EXCEPT ![r] = @ + 1] /\ (Works \/ Fails)
      /\ UNCHANGED <<emitVars, endpoint, row, answered, pageVars>>
  BY DEF Fetch
<1>3. PICK w \in {"post", "gone", "done", "error"} :
         /\ work' = [work EXCEPT ![r] = w]
         /\ w \in {"post", "gone"} => row[r].status # "delivered"
         /\ w = "done" => row[r].status = "delivered"
         /\ w = "error" => Fails
  BY DEF Fetch, Loaded
<1>4. /\ NotifyTypes /\ MaxAttempts \in Nat
  BY NotifyFacts, NotificationsAssumption
<1>5. /\ row[r] # NoRow /\ attempt[r] < MaxAttempts /\ work[r] = "idle"
  BY <1>1, <1>2 DEF RowKnown
<1>6. /\ job'[r] = "running" /\ attempt'[r] = attempt[r] + 1 /\ work'[r] = w
      /\ \A s \in Rows \ {r} :
            job'[s] = job[s] /\ attempt'[s] = attempt[s] /\ work'[s] = work[s]
  BY <1>2, <1>3, <1>4 DEF NotifyTypes
<1>7. NotifyTypes'
  <2>1. attempt[r] + 1 \in 0 .. MaxAttempts
    BY <1>1, <1>5
  <2>2. attempt' \in [Rows -> 0 .. MaxAttempts]
    BY <1>2, <1>4, <2>1 DEF NotifyTypes
  <2>3. job' \in [Rows -> {"none", "available", "running", "completed", "discarded"}]
    BY <1>2, <1>4 DEF NotifyTypes
  <2>4. work' \in [Rows -> {"idle", "post", "sent", "refused", "gone", "done", "error"}]
    BY <1>3, <1>4 DEF NotifyTypes
  <2>5. faults' \in 0 .. MaxFaults
    BY <1>2, <1>4, NotifyFacts DEF NotifyTypes, Works, Fails
  <2>6. uncounted' \in 0 .. faults'
    BY <1>2, <1>4, NotifyFacts DEF NotifyTypes, Works, Fails, pageVars
  <2> QED
    BY <1>2, <1>4, <2>2, <2>3, <2>4, <2>5, <2>6 DEF NotifyTypes, emitVars, pageVars
<1>8. row[r].status \notin Settled =>
          attempt[r] + 1 <= faults' + (IF w \in Delivering THEN 1 ELSE 0)
  <2> SUFFICES ASSUME row[r].status \notin Settled
               PROVE  attempt[r] + 1 <= faults' + (IF w \in Delivering THEN 1 ELSE 0)
    OBVIOUS
  <2>1. attempt[r] <= faults
    BY <1>1, <1>5 DEF RowKnown, Delivering
  <2>2. CASE w \in {"post", "gone"}
    BY <1>1, <1>2, <2>1, <2>2 DEF Delivering, Works, Fails
  <2>3. CASE w = "error"
    BY <1>1, <1>3, <2>1, <2>3 DEF Delivering, Fails
  <2>4. w # "done"
    BY <1>3 DEF Settled
  <2> QED
    BY <2>2, <2>3, <2>4
<1>9. RowKnown(r)'
  BY <1>1, <1>2, <1>3, <1>5, <1>6, <1>8 DEF RowKnown, emitVars, Settled, Delivering
<1>10. \A s \in Rows \ {r} :
          /\ row'[s] = row[s] /\ job'[s] = job[s] /\ attempt'[s] = attempt[s]
          /\ work'[s] = work[s] /\ (s \in answered => s \in answered')
  BY <1>2, <1>6
<1> QED
  BY <1>2, <1>5, <1>7, <1>9, <1>10, DeliveryMoves

\* The POST: a row is sent only when an answer of its receiver came.
LEMMA PostKeeps ==
    ASSUME NotifyInv, NEW r \in Rows, Post(r)
    PROVE  NotifyInv'
<1>1. /\ RowKnown(r) /\ attempt[r] \in Nat /\ faults \in Nat
  BY RowFacts
<1>2. /\ work[r] = "post" /\ UNCHANGED <<emitVars, endpoint, row, job, attempt, pageVars, faults>>
      /\ answered \subseteq answered' /\ answered' \subseteq Rows
  BY NotifyFacts DEF Post, NotifyTypes
<1>3. PICK w \in {"sent", "refused"} :
         work' = [work EXCEPT ![r] = w] /\ (w = "sent" => r \in answered')
  BY DEF Post
<1>4. NotifyTypes
  BY NotifyFacts
<1>5. work'[r] = w /\ \A s \in Rows \ {r} : work'[s] = work[s]
  BY <1>3, <1>4 DEF NotifyTypes
<1>6. NotifyTypes'
  <2>1. work' \in [Rows -> {"idle", "post", "sent", "refused", "gone", "done", "error"}]
    BY <1>3, <1>4 DEF NotifyTypes
  <2> QED
    BY <1>2, <1>4, <2>1 DEF NotifyTypes, emitVars, pageVars
<1>7. job[r] = "running" /\ row[r] # NoRow
  BY <1>1, <1>2 DEF RowKnown
<1>8. RowKnown(r)'
  BY <1>1, <1>2, <1>3, <1>5, <1>7 DEF RowKnown, emitVars, Settled, Delivering
<1>9. \A s \in Rows \ {r} :
          /\ row'[s] = row[s] /\ job'[s] = job[s] /\ attempt'[s] = attempt[s]
          /\ work'[s] = work[s] /\ (s \in answered => s \in answered')
  BY <1>2, <1>5
<1>10. Works
  BY <1>2 DEF Works
<1> QED
  BY <1>2, <1>6, <1>7, <1>8, <1>9, <1>10, DeliveryMoves

\* The outcome is written down, or the write fails.
LEMMA RecordAttemptKeeps ==
    ASSUME NotifyInv, NEW r \in Rows, RecordAttempt(r)
    PROVE  NotifyInv'
<1>1. /\ RowKnown(r) /\ attempt[r] \in Nat /\ faults \in Nat /\ row[r] \in RowRecords
  BY RowFacts
<1>2. /\ work[r] \in {"sent", "refused", "gone"} /\ (Works \/ Fails)
      /\ UNCHANGED <<emitVars, endpoint, job, attempt, answered, pageVars>>
  BY DEF RecordAttempt
<1>3. NotifyTypes /\ MaxFaults \in Nat
  BY NotifyFacts
<1>4. job[r] = "running" /\ row[r] # NoRow
  BY <1>1, <1>2 DEF RowKnown
<1>5. faults' \in 0 .. MaxFaults /\ uncounted' \in 0 .. faults'
  BY <1>1, <1>2, <1>3 DEF NotifyTypes, Works, Fails, pageVars
<1>6. CASE Fails /\ work' = [work EXCEPT ![r] = "error"] /\ UNCHANGED row
  <2>1. work'[r] = "error" /\ \A s \in Rows \ {r} : work'[s] = work[s]
    BY <1>3, <1>6 DEF NotifyTypes
  <2>2. NotifyTypes'
    <3>1. work' \in [Rows -> {"idle", "post", "sent", "refused", "gone", "done", "error"}]
      BY <1>3, <1>6 DEF NotifyTypes
    <3> QED
      BY <1>2, <1>3, <1>5, <1>6, <3>1 DEF NotifyTypes, emitVars, pageVars
  <2>3. row[r].status \notin Settled => attempt[r] <= faults'
    BY <1>1, <1>2, <1>6 DEF RowKnown, Delivering, Fails
  <2>4. RowKnown(r)'
    BY <1>1, <1>2, <1>4, <1>5, <1>6, <2>1, <2>3 DEF RowKnown, emitVars, Settled, Delivering
  <2>5. \A s \in Rows \ {r} :
          /\ row'[s] = row[s] /\ job'[s] = job[s] /\ attempt'[s] = attempt[s]
          /\ work'[s] = work[s] /\ (s \in answered => s \in answered')
    BY <1>2, <1>6, <2>1
  <2> QED
    BY <1>2, <1>4, <1>6, <2>2, <2>4, <2>5, DeliveryMoves
<1>7. CASE /\ Works
           /\ row' = [row EXCEPT ![r].status = IF work[r] = "sent" THEN "delivered" ELSE "failed"]
           /\ work' = [work EXCEPT ![r] = IF work[r] = "refused" THEN "error" ELSE "done"]
  <2> DEFINE t == IF work[r] = "sent" THEN "delivered" ELSE "failed"
             w == IF work[r] = "refused" THEN "error" ELSE "done"
             v == [row[r] EXCEPT !.status = t]
  <2>1. t \in Settled /\ w \in {"error", "done"} /\ (t = "delivered" => work[r] = "sent")
    BY DEF Settled
  <2>2. row' = [row EXCEPT ![r] = v] /\ work' = [work EXCEPT ![r] = w]
    BY <1>3, <1>7 DEF NotifyTypes
  <2> HIDE DEF t, w
  <2>3. v \in RowRecords /\ v.status = t /\ v.ep = row[r].ep /\ v.fan = row[r].fan
    BY <1>1, <2>1 DEF RowRecords, Settled
  <2> HIDE DEF v
  <2>4. /\ row'[r] = v /\ work'[r] = w /\ \A s \in Rows \ {r} : row'[s] = row[s] /\ work'[s] = work[s]
    BY <1>3, <2>2 DEF NotifyTypes
  <2>5. v # NoRow
    BY <2>1, <2>3 DEF NoRow, Settled
  <2>6. NotifyTypes'
    <3>1. work' \in [Rows -> {"idle", "post", "sent", "refused", "gone", "done", "error"}]
      BY <1>3, <2>1, <2>2 DEF NotifyTypes
    <3>2. row' \in [Rows -> RowRecords]
      BY <1>3, <2>2, <2>3 DEF NotifyTypes
    <3> QED
      BY <1>2, <1>3, <1>5, <3>1, <3>2 DEF NotifyTypes, emitVars, pageVars
  <2>7. RowKnown(r)'
    BY <1>1, <1>2, <1>4, <2>1, <2>3, <2>4, <2>5 DEF RowKnown, emitVars, Settled, Delivering
  <2>8. \A s \in Rows \ {r} :
          /\ row'[s] = row[s] /\ job'[s] = job[s] /\ attempt'[s] = attempt[s]
          /\ work'[s] = work[s] /\ (s \in answered => s \in answered')
    BY <1>2, <2>4
  <2> QED
    BY <1>2, <1>4, <2>3, <2>4, <2>5, <2>6, <2>7, <2>8, DeliveryMoves
<1> QED
  BY <1>6, <1>7 DEF RecordAttempt

\* The worker returns, and River settles or retries the job.
LEMMA ReturnKeeps ==
    ASSUME NotifyInv, NEW r \in Rows, Return(r)
    PROVE  NotifyInv'
<1>1. /\ RowKnown(r) /\ attempt[r] \in Nat /\ faults \in Nat /\ MaxAttempts \in Nat \ {0}
  BY RowFacts
<1>2. /\ work[r] \in {"done", "error"} /\ work' = [work EXCEPT ![r] = "idle"]
      /\ job' = [job EXCEPT ![r] = IF work[r] = "done" THEN "completed" ELSE Retried(r)]
      /\ UNCHANGED <<emitVars, endpoint, row, attempt, answered, pageVars, faults>>
  BY DEF Return
<1> DEFINE j == IF work[r] = "done" THEN "completed" ELSE Retried(r)
<1>3. /\ j \in {"completed", "available", "discarded"} /\ (j = "completed" => work[r] = "done")
      /\ (j = "available" => attempt[r] < MaxAttempts)
      /\ (j = "discarded" => attempt[r] >= MaxAttempts)
  BY <1>1 DEF Retried
<1>4. NotifyTypes
  BY NotifyFacts
<1>5. job' = [job EXCEPT ![r] = j]
  BY <1>2
<1> HIDE DEF j
<1>6. /\ job'[r] = j /\ work'[r] = "idle"
      /\ \A s \in Rows \ {r} : job'[s] = job[s] /\ work'[s] = work[s]
  BY <1>2, <1>4, <1>5 DEF NotifyTypes
<1>7. NotifyTypes'
  <2>1. work' \in [Rows -> {"idle", "post", "sent", "refused", "gone", "done", "error"}]
    BY <1>2, <1>4 DEF NotifyTypes
  <2>2. job' \in [Rows -> {"none", "available", "running", "completed", "discarded"}]
    BY <1>3, <1>4, <1>5 DEF NotifyTypes
  <2> QED
    BY <1>2, <1>4, <2>1, <2>2 DEF NotifyTypes, emitVars, pageVars
<1>8. job[r] = "running" /\ row[r] # NoRow
  BY <1>1, <1>2 DEF RowKnown
<1>9. row[r].status \notin Settled => attempt[r] <= faults
  BY <1>1, <1>2 DEF RowKnown, Delivering
<1>10. RowKnown(r)'
  BY <1>1, <1>2, <1>3, <1>6, <1>8, <1>9 DEF RowKnown, emitVars, Settled, Delivering
<1>11. \A s \in Rows \ {r} :
          /\ row'[s] = row[s] /\ job'[s] = job[s] /\ attempt'[s] = attempt[s]
          /\ work'[s] = work[s] /\ (s \in answered => s \in answered')
  BY <1>2, <1>6
<1>12. Works
  BY <1>2 DEF Works
<1> QED
  BY <1>2, <1>7, <1>8, <1>10, <1>11, <1>12, DeliveryMoves

RequestRecords ==
    [pc : {"idle", "create", "enqueue", "save"}, row : Rows \cup {0}, next : BOOLEAN]

\* One request goes on.
LEMMA RequestMoves ==
    ASSUME NotifyInv, NEW q \in Requests, NEW n \in RequestRecords, req' = [req EXCEPT ![q] = n]
    PROVE  /\ req' \in [Requests -> RequestRecords] /\ req'[q] = n
           /\ \A o \in Requests \ {q} : req'[o] = req[o]
<1>1. req \in [Requests -> RequestRecords]
  BY NotifyFacts DEF NotifyTypes, RequestRecords
<1> HIDE DEF RequestRecords
<1> QED
  BY <1>1

\* What becomes of a request's record.
LEMMA NoRequestFacts == NoRequest \in RequestRecords /\ NoRequest.pc = "idle"
<1> DEFINE B == BOOLEAN
<1>1. PICK f \in B : f = FALSE
  OBVIOUS
<1>2. NoRequest = [pc |-> "idle", row |-> 0, next |-> f]
  BY <1>1 DEF NoRequest
<1>3. RequestRecords =
          [pc : {"idle", "create", "enqueue", "save"}, row : Rows \cup {0}, next : B]
  BY DEF RequestRecords
<1> HIDE DEF B
<1> QED
  BY <1>2, <1>3

LEMMA RequestFacts ==
    ASSUME NEW o \in RequestRecords, NEW n, n = [o EXCEPT !.pc = "create"]
    PROVE  n \in RequestRecords /\ n.pc = "create"
<1> DEFINE B == BOOLEAN
           R == [pc : {"idle", "create", "enqueue", "save"}, row : Rows \cup {0}, next : B]
<1>1. RequestRecords = R /\ o \in R
  BY DEF RequestRecords
<1> HIDE DEF B
<1> QED
  BY <1>1

LEMMA SaveFacts ==
    ASSUME NEW o \in RequestRecords, NEW b \in BOOLEAN,
           NEW n, n = [o EXCEPT !.pc = "save", !.next = b]
    PROVE  n \in RequestRecords /\ n.pc = "save"
<1> DEFINE B == BOOLEAN
           R == [pc : {"idle", "create", "enqueue", "save"}, row : Rows \cup {0}, next : B]
<1>1. RequestRecords = R /\ o \in R /\ b \in B
  BY DEF RequestRecords
<1> HIDE DEF B
<1> QED
  BY <1>1

\* A page request or a bounce: no row, job or emitter changes.
LEMMA PagesMove ==
    ASSUME NotifyInv, UNCHANGED <<em, incident, fanouts, row, job, attempt, work, answered>>,
           monitor'.last = monitor.last, faults \in Nat, faults' \in Nat, faults <= faults', NotifyTypes', clean' => clean /\ pager' = pager,
           suppressed \subseteq suppressed',
           \A q \in Requests : req'[q].pc = "enqueue" => req'[q] = req[q], GateKnown'
    PROVE  NotifyInv'
<1>1. faults \in Nat /\ fanouts \in Nat
  BY NotifyFacts
<1>2. Emitting'
  BY DEF NotifyInv, Emitting
<1>3. \A r \in Rows : RowKnown(r)'
  BY <1>1, RowsStay
<1>4. RowsHeld'
  BY HeldStay
<1>5. CopiesKnown'
  <2>1. \A p \in Emitters, e \in Endpoints, n \in 1 .. MaxEvents :
           em'[p].fan = n /\ Owes(p, e)' => em[p].fan = n /\ Owes(p, e)
    BY DEF Owes
  <2> QED
    BY <1>1, <2>1, CopiesStay
<1>6. IncidentKnown'
  <2>1. \A q \in Emitters :
          (Alerting(q)' <=> Alerting(q)) /\ (Alerting(q) => em'[q].event = em[q].event)
    BY DEF Alerting
  <2> QED
    BY <1>1, <2>1, IncidentStays
<1> QED
  BY <1>2, <1>3, <1>4, <1>5, <1>6 DEF NotifyInv

\* webhookCreate has counted fewer endpoints than the cap.
LEMMA WebhookCreateKeeps ==
    ASSUME NotifyInv, NEW q \in Requests, WebhookCreate(q)
    PROVE  NotifyInv'
<1> DEFINE n == [req[q] EXCEPT !.pc = "create"]
<1>1. /\ Edit /\ req[q].pc = "idle" /\ req' = [req EXCEPT ![q] = n]
      /\ UNCHANGED <<emitVars, hookVars, pager, suppressed>>
      /\ \/ /\ Cardinality(LiveEndpoints) < Limit /\ faults' = faults /\ uncounted' = uncounted
         \/ /\ faults < MaxFaults /\ faults' = faults + 1 /\ uncounted' = uncounted + 1
  BY NotifyFacts DEF WebhookCreate, NotifyTypes, Works, Fails
<1>2. req[q] \in RequestRecords
  BY NotifyFacts DEF NotifyTypes, RequestRecords
<1>3. n \in RequestRecords /\ n.pc = "create"
  <2> DEFINE o == req[q]
  <2>1. o \in RequestRecords /\ n = [o EXCEPT !.pc = "create"]
    BY <1>2
  <2> HIDE DEF o, n
  <2> QED
    BY <2>1, RequestFacts
<1> HIDE DEF n
<1>4. /\ req' \in [Requests -> RequestRecords] /\ req'[q] = n
      /\ \A o \in Requests \ {q} : req'[o] = req[o]
  BY <1>1, <1>3, RequestMoves
<1>5. NotifyTypes'
  <2>1. edits' \in 0 .. MaxEdits
    BY <1>1, NotifyFacts, NotificationsAssumption DEF NotifyTypes, Edit
  <2> QED
    BY <1>1, <1>4, <2>1, NotifyFacts DEF NotifyTypes, RequestRecords, emitVars, hookVars
<1>6. GateKnown'
  <2> DEFINE C == Creating'
             L == LiveEndpoints
  <2>1. C \subseteq Requests /\ L \subseteq Endpoints /\ LiveEndpoints' = L
    BY <1>1 DEF Creating, LiveEndpoints, hookVars
  <2>2. Limit \in Nat /\ IsFiniteSet(Requests) /\ IsFiniteSet(Endpoints) /\ uncounted \in Nat
    BY NotificationsAssumption, NotifyFacts DEF NotifyTypes
  <2>3. /\ Creating \subseteq Requests /\ q \notin Creating /\ C = Creating \cup {q}
    BY <1>1, <1>3, <1>4 DEF Creating
  <2>4. Cardinality(L) + Cardinality(Creating) < Limit + Cardinality(Requests) + uncounted
    BY DEF NotifyInv, GateKnown
  <2> DEFINE D == Creating
  <2>5. (Cardinality(L) < Limit /\ uncounted' = uncounted) \/ uncounted' = uncounted + 1
    BY <1>1
  <2> HIDE DEF C, D, L
  <2>6. IsFiniteSet(D) /\ IsFiniteSet(L) /\ IsFiniteSet(C)
    BY <2>1, <2>2, <2>3, FS_Subset DEF D
  <2>7. /\ Cardinality(C) \in Nat /\ Cardinality(C) <= Cardinality(Requests)
        /\ Cardinality(Requests) \in Nat /\ Cardinality(L) \in Nat /\ Cardinality(D) \in Nat
    BY <2>1, <2>2, <2>6, FS_Subset, FS_CardinalityType
  <2>8. Cardinality(C) = Cardinality(D) + 1
    BY <2>3, <2>6, FS_AddElement DEF D
  <2>9. Cardinality(L) + Cardinality(C) < Limit + Cardinality(Requests) + uncounted'
    BY <2>2, <2>4, <2>5, <2>7, <2>8 DEF D
  <2> QED
    BY <2>1, <2>9 DEF GateKnown, C
<1>7. \A o \in Requests : req'[o].pc = "enqueue" => req'[o] = req[o]
  BY <1>3, <1>4
<1>8. faults \in Nat /\ faults' \in Nat /\ faults <= faults'
  BY <1>1, NotifyFacts
<1> QED
  BY <1>1, <1>5, <1>6, <1>7, <1>8, PagesMove DEF emitVars, hookVars

\* The monitor is paused, resumed or deleted: its last event stays, and nobody is told.
LEMMA MonitorEditedKeeps ==
    ASSUME NotifyInv, MonitorEdited
    PROVE  NotifyInv'
<1>1. /\ Edit
      /\ UNCHANGED <<em, incident, fanouts, clean, hookVars, pager, suppressed, req, faults,
                     uncounted>>
  BY DEF MonitorEdited
<1>2. PICK s \in {"paused", "new", "deleted"} : monitor' = [monitor EXCEPT !.status = s]
  BY DEF MonitorEdited
<1>3. /\ monitor' \in [status : Monitored, last : HeartbeatEvents]
      /\ monitor'.last = monitor.last /\ monitor'.status \notin HeartbeatEvents
  <2>1. monitor \in [status : Monitored, last : HeartbeatEvents] /\ s \in Monitored
    BY NotifyFacts DEF NotifyTypes, Monitored
  <2> QED
    BY <1>2, <2>1 DEF HeartbeatEvents
<1>4. NotifyTypes'
  <2>1. edits' \in 0 .. MaxEdits
    BY <1>1, NotifyFacts, NotificationsAssumption DEF NotifyTypes, Edit
  <2> QED
    BY <1>1, <1>3, <2>1, NotifyFacts DEF NotifyTypes, hookVars
<1>5. GateKnown'
  <2>1. LiveEndpoints' \subseteq LiveEndpoints /\ Creating' \subseteq Creating
        /\ uncounted' = uncounted
    BY <1>1 DEF LiveEndpoints, Creating, hookVars
  <2> QED
    BY <2>1, GateStays
<1> QED
  BY <1>1, <1>3, <1>4, <1>5, NotifyFacts, PagesMove DEF hookVars

\* The endpoint is inserted; the request no longer is one that will.
LEMMA CreateEndpointKeeps ==
    ASSUME NotifyInv, NEW q \in Requests, NEW e \in Endpoints, CreateEndpoint(q, e)
    PROVE  NotifyInv'
<1> DEFINE n == NoRequest
<1>1. /\ req[q].pc = "create" /\ endpoint[e] = "none" /\ endpoint' = [endpoint EXCEPT ![e] = "live"]
      /\ req' = [req EXCEPT ![q] = n]
      /\ UNCHANGED <<emitVars, row, job, attempt, work, answered, pager, suppressed, edits, faults,
                     uncounted>>
  BY DEF CreateEndpoint
<1>2. req[q] \in RequestRecords
  BY NotifyFacts DEF NotifyTypes, RequestRecords
<1>3. n \in RequestRecords /\ n.pc = "idle"
  BY NoRequestFacts
<1> HIDE DEF n
<1>4. /\ req' \in [Requests -> RequestRecords] /\ req'[q] = n
      /\ \A o \in Requests \ {q} : req'[o] = req[o]
  BY <1>1, <1>3, RequestMoves
<1>5. endpoint \in [Endpoints -> {"none", "live", "deleted"}]
  BY NotifyFacts DEF NotifyTypes
<1>6. NotifyTypes'
  <2>1. endpoint' \in [Endpoints -> {"none", "live", "deleted"}]
    BY <1>1, <1>5
  <2> QED
    BY <1>1, <1>4, <2>1, NotifyFacts DEF NotifyTypes, RequestRecords, emitVars
<1>7. GateKnown'
  <2> DEFINE C == Creating
             D == Creating'
             L == LiveEndpoints
             M == LiveEndpoints'
  <2>1. /\ C \subseteq Requests /\ q \in C /\ D = C \ {q}
    BY <1>1, <1>3, <1>4 DEF Creating
  <2>2. /\ L \subseteq Endpoints /\ M = L \cup {e} /\ e \notin L
    BY <1>1, <1>5 DEF LiveEndpoints
  <2>3. /\ Cardinality(L) + Cardinality(C) < Limit + Cardinality(Requests) + uncounted
        /\ uncounted' = uncounted
    BY <1>1 DEF NotifyInv, GateKnown
  <2>4. IsFiniteSet(Requests) /\ IsFiniteSet(Endpoints)
    BY NotificationsAssumption
  <2> HIDE DEF C, D, L, M
  <2>5. IsFiniteSet(C) /\ IsFiniteSet(L)
    BY <2>1, <2>2, <2>4, FS_Subset
  <2>6. Cardinality(C) \in Nat /\ Cardinality(L) \in Nat
    BY <2>5, FS_CardinalityType
  <2>7. Cardinality(D) = Cardinality(C) - 1
    BY <2>1, <2>5, FS_RemoveElement
  <2>8. Cardinality(M) = Cardinality(L) + 1
    BY <2>2, <2>5, FS_AddElement
  <2>9. Cardinality(M) + Cardinality(D) = Cardinality(L) + Cardinality(C)
    BY <2>6, <2>7, <2>8
  <2> QED
    BY <2>3, <2>9 DEF GateKnown, D, M
<1>8. \A o \in Requests : req'[o].pc = "enqueue" => req'[o] = req[o]
  BY <1>3, <1>4
<1> QED
  BY <1>1, <1>6, <1>7, <1>8, NotifyFacts, PagesMove DEF emitVars

\* An endpoint is deleted.
LEMMA WebhookDeleteKeeps ==
    ASSUME NotifyInv, NEW e \in Endpoints, WebhookDelete(e)
    PROVE  NotifyInv'
<1>1. /\ Edit /\ endpoint' = [endpoint EXCEPT ![e] = "deleted"]
      /\ UNCHANGED <<emitVars, row, job, attempt, work, answered, pager, suppressed, req, faults,
                     uncounted>>
  BY DEF WebhookDelete
<1>2. endpoint \in [Endpoints -> {"none", "live", "deleted"}]
  BY NotifyFacts DEF NotifyTypes
<1>3. NotifyTypes'
  <2>1. edits' \in 0 .. MaxEdits
    BY <1>1, NotifyFacts, NotificationsAssumption DEF NotifyTypes, Edit
  <2>2. endpoint' \in [Endpoints -> {"none", "live", "deleted"}]
    BY <1>1, <1>2
  <2> QED
    BY <1>1, <2>1, <2>2, NotifyFacts DEF NotifyTypes, emitVars
<1>4. GateKnown'
  <2>1. LiveEndpoints' \subseteq LiveEndpoints /\ Creating' \subseteq Creating
        /\ uncounted' = uncounted
    BY <1>1, <1>2 DEF LiveEndpoints, Creating
  <2> QED
    BY <2>1, GateStays
<1> QED
  BY <1>1, <1>3, <1>4, NotifyFacts, PagesMove DEF emitVars

\* The alert channels are read, and the form applied to what was read.
LEMMA AlertChannelsSaveKeeps ==
    ASSUME NotifyInv, NEW q \in Requests, AlertChannelsSave(q)
    PROVE  NotifyInv'
<1>1. /\ Edit /\ UNCHANGED <<emitVars, hookVars, pager, suppressed, faults, uncounted>>
  BY DEF AlertChannelsSave
<1>2. req[q] \in RequestRecords
  BY NotifyFacts DEF NotifyTypes, RequestRecords
<1>3. PICK b \in BOOLEAN : req' = [req EXCEPT ![q].pc = "save", ![q].next = b]
  <2>1. pager \in BOOLEAN
    BY NotifyFacts DEF NotifyTypes
  <2>2. \A b \in {pager, TRUE, FALSE} : b \in BOOLEAN
    BY <2>1
  <2> QED
    BY <2>2 DEF AlertChannelsSave
<1> DEFINE n == [req[q] EXCEPT !.pc = "save", !.next = b]
<1>4. n \in RequestRecords /\ n.pc = "save"
  <2> DEFINE o == req[q]
  <2>1. o \in RequestRecords /\ n = [o EXCEPT !.pc = "save", !.next = b]
    BY <1>2
  <2> HIDE DEF o, n
  <2> QED
    BY <2>1, SaveFacts
<1>5. req' = [req EXCEPT ![q] = n]
  BY <1>3, NotifyFacts DEF NotifyTypes
<1> HIDE DEF n
<1>6. /\ req' \in [Requests -> RequestRecords] /\ req'[q] = n
      /\ \A o \in Requests \ {q} : req'[o] = req[o]
  BY <1>4, <1>5, RequestMoves
<1>7. NotifyTypes'
  <2>1. edits' \in 0 .. MaxEdits
    BY <1>1, NotifyFacts, NotificationsAssumption DEF NotifyTypes, Edit
  <2> QED
    BY <1>1, <1>6, <2>1, NotifyFacts DEF NotifyTypes, RequestRecords, emitVars, hookVars
<1>8. GateKnown'
  <2>1. LiveEndpoints' \subseteq LiveEndpoints /\ Creating' \subseteq Creating
        /\ uncounted' = uncounted
    BY <1>1, <1>4, <1>6 DEF LiveEndpoints, Creating, hookVars
  <2> QED
    BY <2>1, GateStays
<1>9. \A o \in Requests : req'[o].pc = "enqueue" => req'[o] = req[o]
  BY <1>4, <1>6
<1> QED
  BY <1>1, <1>7, <1>8, <1>9, NotifyFacts, PagesMove DEF emitVars, hookVars

\* The row of alert channels is written whole.
LEMMA SetChannelsKeeps ==
    ASSUME NotifyInv, NEW q \in Requests, SetChannels(q)
    PROVE  NotifyInv'
<1> DEFINE n == NoRequest
<1>1. /\ pager' = req[q].next /\ req' = [req EXCEPT ![q] = n] /\ clean' = (clean /\ pager' = pager)
      /\ UNCHANGED <<monitor, em, incident, fanouts, hookVars, suppressed, edits, faults, uncounted>>
  BY DEF SetChannels
<1>2. req[q] \in RequestRecords
  BY NotifyFacts DEF NotifyTypes, RequestRecords
<1>3. n \in RequestRecords /\ n.pc = "idle"
  BY NoRequestFacts
<1> HIDE DEF n
<1>4. /\ req' \in [Requests -> RequestRecords] /\ req'[q] = n
      /\ \A o \in Requests \ {q} : req'[o] = req[o]
  BY <1>1, <1>3, RequestMoves
<1>5. pager' \in BOOLEAN
  BY <1>1, <1>2 DEF RequestRecords
<1>6. clean' \in BOOLEAN
  BY <1>1
<1>7. NotifyTypes'
  BY <1>1, <1>4, <1>5, <1>6, NotifyFacts DEF NotifyTypes, RequestRecords, hookVars
<1>8. GateKnown'
  <2>1. LiveEndpoints' \subseteq LiveEndpoints /\ Creating' \subseteq Creating
        /\ uncounted' = uncounted
    BY <1>1, <1>3, <1>4 DEF LiveEndpoints, Creating, hookVars
  <2> QED
    BY <2>1, GateStays
<1>9. \A o \in Requests : req'[o].pc = "enqueue" => req'[o] = req[o]
  BY <1>3, <1>4
<1>10. clean' => clean /\ pager' = pager
  BY <1>1
<1> QED
  BY <1>1, <1>7, <1>8, <1>9, <1>10, NotifyFacts, PagesMove DEF hookVars

\* A bounce.
LEMMA PostmarkBounceKeeps ==
    ASSUME NotifyInv, NEW a \in Members, PostmarkBounce(a)
    PROVE  NotifyInv'
<1>1. /\ Edit /\ suppressed' = suppressed \cup {a}
      /\ UNCHANGED <<emitVars, hookVars, pager, req, faults, uncounted>>
  BY DEF PostmarkBounce
<1>2. NotifyTypes'
  <2>1. edits' \in 0 .. MaxEdits
    BY <1>1, NotifyFacts, NotificationsAssumption DEF NotifyTypes, Edit
  <2>2. suppressed' \subseteq Members
    BY <1>1, NotifyFacts DEF NotifyTypes
  <2> QED
    BY <1>1, <2>1, <2>2, NotifyFacts DEF NotifyTypes, emitVars, hookVars
<1>3. GateKnown'
  <2>1. LiveEndpoints' \subseteq LiveEndpoints /\ Creating' \subseteq Creating
        /\ uncounted' = uncounted
    BY <1>1 DEF LiveEndpoints, Creating, hookVars
  <2> QED
    BY <2>1, GateStays
<1> QED
  BY <1>1, <1>2, <1>3, NotifyFacts, PagesMove DEF emitVars, hookVars

\* webhookReplay copies a row; the copy is of no fan-out.
LEMMA WebhookReplayKeeps ==
    ASSUME NotifyInv, NEW q \in Requests, NEW d \in Rows, WebhookReplay(q, d)
    PROVE  NotifyInv'
<1> DEFINE v == [ep |-> row[d].ep, fan |-> 0, status |-> "pending"]
<1>1. /\ Edit /\ req[q].pc = "idle"
      /\ UNCHANGED <<emitVars, endpoint, job, attempt, work, answered, pager, suppressed, faults,
                     uncounted>>
  BY DEF WebhookReplay
<1>2. PICK r \in Rows : /\ FreeRow(r) /\ row' = [row EXCEPT ![r] = v]
                        /\ req' = [req EXCEPT ![q].pc = "enqueue", ![q].row = r]
  BY DEF WebhookReplay
<1> DEFINE n == [req[q] EXCEPT !.pc = "enqueue", !.row = r]
<1>3. req[q] \in RequestRecords
  BY NotifyFacts DEF NotifyTypes, RequestRecords
<1>4. n \in RequestRecords /\ n.pc = "enqueue" /\ n.row = r
  <2> DEFINE B == BOOLEAN
             R == [pc : {"idle", "create", "enqueue", "save"}, row : Rows \cup {0}, next : B]
  <2>1. RequestRecords = R /\ req[q] \in R
    BY <1>3 DEF RequestRecords
  <2> HIDE DEF B
  <2> QED
    BY <2>1
<1>5. req' = [req EXCEPT ![q] = n]
  BY <1>2, NotifyFacts DEF NotifyTypes
<1>6. v \in RowRecords /\ v.status = "pending" /\ v.fan = 0
  <2>1. row[d] \in RowRecords
    BY NotifyFacts DEF NotifyTypes
  <2> QED
    BY <2>1, NotificationsAssumption DEF RowRecords
<1> HIDE DEF n, v
<1>7. /\ req' \in [Requests -> RequestRecords] /\ req'[q] = n
      /\ \A o \in Requests \ {q} : req'[o] = req[o]
  BY <1>4, <1>5, RequestMoves
<1>8. /\ row' \in [Rows -> RowRecords] /\ row'[r] = v /\ \A s \in Rows \ {r} : row'[s] = row[s]
      /\ row[r] = NoRow /\ job[r] = "none" /\ v # NoRow
      /\ \A p \in Emitters : em[p].pc = "insert" => em[p].row # r
      /\ \A o \in Requests : req[o].pc = "enqueue" => req[o].row # r
      /\ \A s \in Rows : RowKnown(s)'
  <2>1. v.fan <= fanouts
    BY <1>6, NotifyFacts
  <2>2. UNCHANGED <<job, attempt, work, answered, fanouts, faults>>
    BY <1>1 DEF emitVars
  <2> QED
    BY <1>2, <1>6, <2>1, <2>2, RowMade
<1>9. NotifyTypes'
  <2>1. edits' \in 0 .. MaxEdits
    BY <1>1, NotifyFacts, NotificationsAssumption DEF NotifyTypes, Edit
  <2> QED
    BY <1>1, <1>7, <1>8, <2>1, NotifyFacts DEF NotifyTypes, RequestRecords, emitVars
<1>10. UNCHANGED <<monitor, em, incident, fanouts, clean, job, suppressed, pager, faults, endpoint,
                  uncounted>>
  BY <1>1 DEF emitVars
<1>11. RowsHeld'
  <2>1. ASSUME NEW p \in Emitters, em[p].pc = "insert"
        PROVE  /\ em[p].row \in Rows /\ row'[em[p].row] # NoRow /\ job[em[p].row] = "none"
               /\ row'[em[p].row].fan = em[p].fan
    BY <1>8, <2>1 DEF NotifyInv, RowsHeld
  <2>2. ASSUME NEW o \in Requests, req'[o].pc = "enqueue"
        PROVE  req'[o].row \in Rows /\ row'[req'[o].row] # NoRow /\ job[req'[o].row] = "none"
    <3>1. CASE o = q
      BY <1>4, <1>7, <1>8, <3>1
    <3>2. CASE o # q
      BY <1>7, <1>8, <2>2, <3>2 DEF NotifyInv, RowsHeld
    <3> QED
      BY <3>1, <3>2
  <2>3. ASSUME NEW p \in Emitters, NEW s \in Rows, HeldBy(p, s)'
        PROVE  HeldBy(p, s) /\ s # r
    BY <1>8, <1>10, <2>3 DEF HeldBy
  <2>4. ASSUME NEW o \in Requests, NEW s \in Rows, HeldFor(o, s)'
        PROVE  (o = q /\ s = r) \/ (o # q /\ s # r /\ HeldFor(o, s))
    BY <1>4, <1>7, <1>8, <2>4 DEF HeldFor
  <2>5. /\ \A p, o \in Emitters, s \in Rows : HeldBy(p, s)' /\ HeldBy(o, s)' => p = o
        /\ \A p, o \in Requests, s \in Rows : HeldFor(p, s)' /\ HeldFor(o, s)' => p = o
        /\ \A p \in Emitters, o \in Requests, s \in Rows : ~(HeldBy(p, s)' /\ HeldFor(o, s)')
    BY <2>3, <2>4 DEF NotifyInv, RowsHeld
  <2> QED
    BY <1>10, <2>1, <2>2, <2>5 DEF RowsHeld
<1>12. CopiesKnown'
  <2> SUFFICES ASSUME NEW x \in Endpoints, NEW k \in 1 .. MaxEvents
               PROVE  /\ Cardinality(CopiesOf(x, k)') <= 1 + faults
                      /\ \A p \in Emitters : em[p].fan = k /\ Owes(p, x)' =>
                             Cardinality(CopiesOf(x, k)') <= faults
    BY <1>10 DEF CopiesKnown
  <2>1. CopiesOf(x, k)' = CopiesOf(x, k)
    BY <1>6, <1>8 DEF CopiesOf, NoRow
  <2>2. ASSUME NEW p \in Emitters, Owes(p, x)' PROVE Owes(p, x)
    <3>1. em[p].pc = "insert" => row'[em[p].row] = row[em[p].row]
      BY <1>8 DEF NotifyInv, RowsHeld
    <3> QED
      BY <1>10, <2>2, <3>1 DEF Owes
  <2> QED
    BY <2>1, <2>2 DEF NotifyInv, CopiesKnown
<1>13. GateKnown'
  <2>1. LiveEndpoints' \subseteq LiveEndpoints /\ Creating' \subseteq Creating
        /\ uncounted' = uncounted
    BY <1>4, <1>7, <1>10 DEF LiveEndpoints, Creating
  <2> QED
    BY <2>1, GateStays
<1>14. IncidentKnown'
  <2>1. \A p \in Emitters :
          (Alerting(p)' <=> Alerting(p)) /\ (Alerting(p) => em'[p].event = em[p].event)
    BY <1>10 DEF Alerting
  <2> QED
    BY <1>10, <2>1, IncidentStays, NotifyFacts
<1>15. Emitting'
  BY <1>10 DEF NotifyInv, Emitting
<1> QED
  BY <1>8, <1>9, <1>11, <1>12, <1>13, <1>14, <1>15 DEF NotifyInv

\* The copy's job is queued, or the queue refuses it.
LEMMA EnqueueKeeps ==
    ASSUME NotifyInv, NEW q \in Requests, Enqueue(q)
    PROVE  NotifyInv'
<1> DEFINE r == req[q].row
           n == NoRequest
<1>1. /\ req[q].pc = "enqueue" /\ (Works \/ Fails) /\ req' = [req EXCEPT ![q] = n]
      /\ UNCHANGED <<emitVars, endpoint, row, attempt, work, answered, pager, suppressed, edits,
                     uncounted>>
  BY DEF Enqueue
<1>2. UNCHANGED <<monitor, em, incident, fanouts, clean, row, suppressed, pager, endpoint, uncounted>>
  BY <1>1 DEF emitVars
<1>3. faults \in Nat /\ faults' \in Nat /\ faults <= faults' /\ faults' \in 0 .. MaxFaults
  BY <1>1, NotifyFacts DEF Works, Fails, NotifyTypes
<1>4. req[q] \in RequestRecords
  BY NotifyFacts DEF NotifyTypes, RequestRecords
<1>5. n \in RequestRecords /\ n.pc = "idle"
  BY NoRequestFacts
<1> HIDE DEF n
<1>6. /\ req' \in [Requests -> RequestRecords] /\ req'[q] = n
      /\ \A o \in Requests \ {q} : req'[o] = req[o]
  BY <1>1, <1>5, RequestMoves
<1>7. r \in Rows /\ row[r] # NoRow /\ job[r] = "none" /\ HeldFor(q, r)
  BY <1>1 DEF NotifyInv, RowsHeld, HeldFor
<1>8. \/ Fails /\ UNCHANGED job
      \/ Works /\ job' = [job EXCEPT ![r] = "available"]
  BY DEF Enqueue
<1> HIDE DEF r
<1>9. /\ job' \in [Rows -> {"none", "available", "running", "completed", "discarded"}]
      /\ \A s \in Rows \ {r} : job'[s] = job[s]
      /\ \A s \in Rows : RowKnown(s)'
  <2>1. CASE Works /\ job' = [job EXCEPT ![r] = "available"]
    <3>1. UNCHANGED <<row, attempt, work, answered, fanouts, faults>>
      BY <1>1, <1>2, <2>1 DEF Works
    <3> QED
      BY <1>7, <2>1, <3>1, JobQueued
  <2>2. CASE Fails /\ UNCHANGED job
    <3>1. \A s \in Rows : RowKnown(s)'
      BY <1>1, <1>2, <1>3, <2>2, RowsStay, NotifyFacts
    <3> QED
      BY <2>2, <3>1, NotifyFacts DEF NotifyTypes
  <2> QED
    BY <1>8, <2>1, <2>2
<1>10. NotifyTypes'
  <2>1. uncounted' \in 0 .. faults'
    BY <1>2, <1>3, NotifyFacts DEF NotifyTypes
  <2> QED
    BY <1>1, <1>2, <1>3, <1>6, <1>9, <2>1, NotifyFacts DEF NotifyTypes, RequestRecords
<1>11. RowsHeld'
  <2>1. ASSUME NEW p \in Emitters, NEW s \in Rows, HeldBy(p, s)'
        PROVE  HeldBy(p, s) /\ s # r
    <3>1. HeldBy(p, s)
      BY <1>2, <2>1 DEF HeldBy
    <3> QED
      BY <1>7, <3>1 DEF NotifyInv, RowsHeld
  <2>2. ASSUME NEW o \in Requests, NEW s \in Rows, HeldFor(o, s)'
        PROVE  HeldFor(o, s) /\ s # r
    <3>1. o # q /\ HeldFor(o, s)
      BY <1>5, <1>6, <2>2 DEF HeldFor
    <3> QED
      BY <1>7, <3>1 DEF NotifyInv, RowsHeld
  <2>3. ASSUME NEW p \in Emitters, em[p].pc = "insert"
        PROVE  /\ em[p].row \in Rows /\ row[em[p].row] # NoRow /\ job'[em[p].row] = "none"
               /\ row[em[p].row].fan = em[p].fan
    <3>1. /\ em[p].row \in Rows /\ row[em[p].row] # NoRow /\ job[em[p].row] = "none"
          /\ row[em[p].row].fan = em[p].fan
      BY <2>3 DEF NotifyInv, RowsHeld
    <3>2. em[p].row # r
      BY <1>2, <2>1, <2>3, <3>1 DEF HeldBy
    <3> QED
      BY <1>9, <3>1, <3>2
  <2>4. ASSUME NEW o \in Requests, req'[o].pc = "enqueue"
        PROVE  req'[o].row \in Rows /\ row[req'[o].row] # NoRow /\ job'[req'[o].row] = "none"
    <3>1. req'[o] = req[o]
      BY <1>5, <1>6, <2>4
    <3>2. req[o].row \in Rows /\ row[req[o].row] # NoRow /\ job[req[o].row] = "none"
      BY <2>4, <3>1 DEF NotifyInv, RowsHeld
    <3>3. req[o].row # r
      BY <2>2, <2>4, <3>1, <3>2 DEF HeldFor
    <3> QED
      BY <1>9, <3>1, <3>2, <3>3
  <2>5. /\ \A p, o \in Emitters, s \in Rows : HeldBy(p, s)' /\ HeldBy(o, s)' => p = o
        /\ \A p, o \in Requests, s \in Rows : HeldFor(p, s)' /\ HeldFor(o, s)' => p = o
        /\ \A p \in Emitters, o \in Requests, s \in Rows : ~(HeldBy(p, s)' /\ HeldFor(o, s)')
    BY <2>1, <2>2 DEF NotifyInv, RowsHeld
  <2> QED
    BY <1>2, <2>3, <2>4, <2>5 DEF RowsHeld
<1>12. CopiesKnown'
  <2>1. ASSUME NEW p \in Emitters, NEW e \in Endpoints, NEW k \in 1 .. MaxEvents,
               em'[p].fan = k, Owes(p, e)'
        PROVE  em[p].fan = k /\ Owes(p, e)
    BY <1>2, <2>1 DEF Owes
  <2> QED
    BY <1>2, <1>3, <2>1, CopiesStay
<1>13. GateKnown'
  <2>1. LiveEndpoints' \subseteq LiveEndpoints /\ Creating' \subseteq Creating
        /\ uncounted' = uncounted
    BY <1>2, <1>5, <1>6 DEF LiveEndpoints, Creating
  <2> QED
    BY <2>1, GateStays
<1>14. IncidentKnown'
  <2>1. \A p \in Emitters :
          (Alerting(p)' <=> Alerting(p)) /\ (Alerting(p) => em'[p].event = em[p].event)
    BY <1>2 DEF Alerting
  <2> QED
    BY <1>2, <1>3, <2>1, IncidentStays
<1>15. Emitting'
  BY <1>2 DEF NotifyInv, Emitting
<1> QED
  BY <1>9, <1>10, <1>11, <1>12, <1>13, <1>14, <1>15 DEF NotifyInv

\* The process dies: only the drills' fan-outs begin again, as the count of faults allows for.
LEMMA CrashKeeps ==
    ASSUME NotifyInv, Crash
    PROVE  NotifyInv'
<1>1. /\ Fails
      /\ em' = [p \in Emitters |-> IF em[p].event \in {"failed", "completed"}
                   THEN Started(em[p].event, em[p].fan) ELSE Idle]
      /\ job' = [r \in Rows |-> IF job[r] = "running" THEN Retried(r) ELSE job[r]]
      /\ work' = [r \in Rows |-> "idle"] /\ req' = [q \in Requests |-> NoRequest]
      /\ UNCHANGED <<monitor, incident, fanouts, clean, endpoint, row, attempt, answered,
                     pager, suppressed, edits, uncounted>>
  BY DEF Crash
<1>2. /\ faults \in Nat /\ faults' = faults + 1 /\ faults' \in 0 .. MaxFaults /\ NotifyTypes
      /\ fanouts \in Nat
  BY <1>1, NotifyFacts DEF Fails, NotifyTypes
<1>3. ASSUME NEW p \in Emitters
      PROVE  /\ em'[p] \in EmitterRecords /\ EmitterOK(em'[p]) /\ em'[p].known \subseteq suppressed
             /\ em'[p].pc \in {"idle", "hooks"} /\ em'[p].fan \in {0, em[p].fan}
  <2>1. em[p] \in EmitterRecords /\ Place(em[p]) /\ em[p].fan <= fanouts
    BY NotifyFacts
  <2>2. CASE em[p].event \in {"failed", "completed"}
    <3> DEFINE ev == em[p].event
               k == em[p].fan
    <3>1. ev \in Events /\ k \in 1 .. MaxEvents /\ suppressed \subseteq Members
      BY <1>2, <2>1, <2>2, NotificationsAssumption
         DEF Place, HeartbeatEvents, Events, EmitterRecords, NotifyTypes
    <3>2. em'[p] = Started(ev, k)
      BY <1>1, <2>2
    <3> HIDE DEF ev
    <3>3. /\ Started(ev, k) \in EmitterRecords /\ EmitterOK(Started(ev, k))
          /\ Started(ev, k).pc = "hooks" /\ Started(ev, k).fan = k
          /\ Started(ev, k).known = suppressed
      BY <3>1, StartedFacts
    <3> QED
      BY <3>2, <3>3
  <2>3. CASE em[p].event \notin {"failed", "completed"}
    <3>1. em'[p] = Idle
      BY <1>1, <2>3
    <3> QED
      BY <3>1, IdleFacts
  <2> QED
    BY <2>2, <2>3
<1>4. Emitting'
  <2>1. em' \in [Emitters -> EmitterRecords]
    BY <1>1, <1>3
  <2>2. ASSUME NEW p \in Emitters PROVE em'[p].fan <= fanouts
    BY <1>2, <1>3, NotifyFacts
  <2>3. ASSUME NEW p \in Emitters, NEW q \in Emitters, em'[p].fan = em'[q].fan, em'[p].fan # 0
        PROVE  p = q
    <3>1. em[p].fan = em[q].fan /\ em[p].fan # 0
      BY <1>3, <2>3
    <3> QED
      BY <3>1, NotifyFacts
  <2>4. suppressed' = suppressed /\ fanouts' = fanouts
    BY <1>1
  <2> QED
    BY <1>3, <2>1, <2>2, <2>3, <2>4 DEF Emitting
<1>5. NotifyTypes'
  <2>1. req' \in [Requests -> RequestRecords]
    BY <1>1, NoRequestFacts
  <2>2. job' \in [Rows -> {"none", "available", "running", "completed", "discarded"}]
    BY <1>1, <1>2 DEF NotifyTypes, Retried
  <2>3. work' \in [Rows -> {"idle", "post", "sent", "refused", "gone", "done", "error"}]
    BY <1>1
  <2>4. uncounted' \in 0 .. faults'
    BY <1>1, <1>2 DEF NotifyTypes
  <2> QED
    BY <1>1, <1>2, <2>1, <2>2, <2>3, <2>4 DEF NotifyTypes, RequestRecords
<1>6. ASSUME NEW r \in Rows PROVE RowKnown(r)'
  <2>1. /\ RowKnown(r) /\ attempt[r] \in Nat /\ MaxAttempts \in Nat \ {0}
        /\ job[r] \in {"none", "available", "running", "completed", "discarded"}
    BY RowFacts
  <2>2. work'[r] = "idle" /\ UNCHANGED <<row, attempt, answered, fanouts>>
    BY <1>1
  <2>3. /\ job[r] # "running" => job'[r] = job[r]
        /\ job[r] = "running" => \/ job'[r] = "available" /\ attempt[r] < MaxAttempts
                                 \/ job'[r] = "discarded" /\ attempt[r] >= MaxAttempts
    BY <1>1, <2>1 DEF Retried
  <2>4. row[r].status \notin Settled => attempt[r] <= faults'
    BY <1>2, <2>1 DEF RowKnown
  <2>5. job'[r] # "running"
    BY <2>3
  <2>6. row[r].status = "delivered" => r \in answered
    BY <2>1 DEF RowKnown
  <2>7. faults' \in Nat
    BY <1>2
  <2> QED
    BY <2>1, <2>2, <2>3, <2>4, <2>5, <2>6, <2>7 DEF RowKnown, Delivering
<1>7. RowsHeld'
  <2>1. \A q \in Requests : req'[q].pc = "idle"
    BY <1>1, NoRequestFacts
  <2>2. \A p \in Emitters : em'[p].pc # "insert"
    BY <1>3
  <2> QED
    BY <2>1, <2>2 DEF RowsHeld, HeldBy, HeldFor
<1>8. CopiesKnown'
  <2>1. ASSUME NEW e \in Endpoints, NEW n \in 1 .. MaxEvents
        PROVE  Cardinality(CopiesOf(e, n)) <= faults'
    BY <1>2 DEF NotifyInv, CopiesKnown
  <2> QED
    BY <1>1, <1>2, <2>1, CopiesStay
<1>9. GateKnown'
  <2>1. \A q \in Requests : req'[q].pc = "idle"
    BY <1>1, NoRequestFacts
  <2>2. LiveEndpoints' \subseteq LiveEndpoints /\ Creating' \subseteq Creating
        /\ uncounted' = uncounted
    BY <1>1, <2>1 DEF LiveEndpoints, Creating
  <2> QED
    BY <2>2, GateStays
<1>10. IncidentKnown'
  BY <1>2 DEF IncidentKnown
<1> QED
  BY <1>4, <1>5, <1>6, <1>7, <1>8, <1>9, <1>10 DEF NotifyInv

-----------------------------------------------------------------------------
(* The theorems. *)

LEMMA NotifyInit == Init => NotifyInv
<1> SUFFICES ASSUME Init PROVE NotifyInv
  OBVIOUS
<1> USE NotificationsAssumption
<1>1. /\ monitor = [status |-> "up", last |-> "up"] /\ uncounted = 0
      /\ em = [p \in Emitters |-> Idle] /\ incident = FALSE /\ fanouts = 0
      /\ clean = TRUE /\ row = [r \in Rows |-> NoRow] /\ job = [r \in Rows |-> "none"]
      /\ attempt = [r \in Rows |-> 0] /\ work = [r \in Rows |-> "idle"] /\ answered = {}
      /\ pager \in BOOLEAN /\ suppressed = {} /\ req = [q \in Requests |-> NoRequest]
      /\ edits = 0 /\ faults = 0
  BY DEF Init
<1>2. PICK live \in SUBSET Endpoints :
         /\ Cardinality(live) <= Limit
         /\ endpoint = [e \in Endpoints |-> IF e \in live THEN "live" ELSE "none"]
  BY DEF Init
<1>3. Emitting
  BY <1>1, IdleFacts DEF Emitting
<1>4. NotifyTypes
  <2>1. NoRow \in RowRecords
    BY DEF NoRow, RowRecords
  <2>2. row \in [Rows -> RowRecords]
    BY <1>1, <2>1
  <2>3. req \in [Requests -> RequestRecords]
    BY <1>1, NoRequestFacts
  <2>4. endpoint \in [Endpoints -> {"none", "live", "deleted"}]
    BY <1>2
  <2>5. /\ incident \in BOOLEAN /\ clean \in BOOLEAN
    BY <1>1
  <2>7. monitor \in [status : Monitored, last : HeartbeatEvents] /\ monitor.status = monitor.last
    BY <1>1 DEF Monitored, HeartbeatEvents
  <2>8. uncounted \in 0 .. faults
    BY <1>1
  <2>6. attempt \in [Rows -> 0 .. MaxAttempts] /\ fanouts \in 0 .. MaxEvents
        /\ edits \in 0 .. MaxEdits /\ faults \in 0 .. MaxFaults
    BY <1>1
  <2> QED
    BY <1>1, <2>2, <2>3, <2>4, <2>5, <2>6, <2>7, <2>8 DEF NotifyTypes, RequestRecords
<1>5. IncidentKnown
  <2>1. \A p \in Emitters : ~Alerting(p)
    BY <1>1, IdleFacts DEF Alerting, HeartbeatEvents
  <2> QED
    BY <1>1, <2>1 DEF IncidentKnown
<1>6. RowsHeld
  <2>1. \A p \in Emitters : em[p].pc # "insert"
    BY <1>1, IdleFacts
  <2>2. \A q \in Requests : req[q].pc # "enqueue"
    BY <1>1, NoRequestFacts
  <2> QED
    BY <2>1, <2>2 DEF RowsHeld, HeldBy, HeldFor
<1>7. \A r \in Rows : RowKnown(r)
  BY <1>1 DEF RowKnown, NoRow, Settled, Delivering
<1>8. CopiesKnown
  <2>1. ASSUME NEW e \in Endpoints, NEW n \in 1 .. MaxEvents PROVE Cardinality(CopiesOf(e, n)) = 0
    <3>1. CopiesOf(e, n) = {}
      BY <1>1 DEF CopiesOf, NoRow
    <3> QED
      BY <3>1, FS_EmptySet
  <2> QED
    BY <1>1, <2>1 DEF CopiesKnown
<1>9. GateKnown
  <2>1. LiveEndpoints = live
    BY <1>2 DEF LiveEndpoints
  <2>2. Creating = {}
    BY <1>1, NoRequestFacts DEF Creating
  <2>3. Cardinality(live) \in Nat /\ Cardinality(Requests) \in Nat \ {0} /\ Cardinality({}) = 0
    BY <1>2, FS_Subset, FS_CardinalityType, FS_EmptySet
  <2> QED
    BY <1>1, <1>2, <2>1, <2>2, <2>3 DEF GateKnown
<1> QED
  BY <1>3, <1>4, <1>5, <1>6, <1>7, <1>8, <1>9 DEF NotifyInv

\* No step of an emitter, a worker, a page or a crash breaks the invariant.
LEMMA NotifyStep == NotifyInv /\ [Next]_vars => NotifyInv'
<1> SUFFICES ASSUME NotifyInv, [Next]_vars PROVE NotifyInv'
  OBVIOUS
<1>1. ASSUME NEW p \in Emitters, Emit(p) PROVE NotifyInv'
  <2>1. CASE \E e \in Events : Announce(p, e)
    BY <2>1, AnnounceKeeps
  <2>2. CASE ListEnabledEndpoints(p)
    BY <2>2, ListKeeps
  <2>3. CASE InsertDelivery(p)
    BY <2>3, InsertDeliveryKeeps
  <2>4. CASE \E e \in Endpoints : CreateDelivery(p, e)
    BY <2>4, CreateDeliveryKeeps
  <2>5. CASE Recipients(p)
    BY <2>5, RecipientsKeeps
  <2>6. CASE Send(p)
    BY <2>6, SendKeeps
  <2>7. CASE \E a \in Members : IsSuppressed(p, a)
    BY <2>7, IsSuppressedKeeps
  <2>8. CASE Push(p)
    BY <2>8, PushKeeps
  <2>9. CASE Slack(p)
    BY <2>9, SlackKeeps
  <2>10. CASE PagerDuty(p)
    BY <2>10, PagerDutyKeeps
  <2>11. CASE Finish(p)
    BY <2>11, FinishKeeps
  <2> QED
    BY <1>1, <2>1, <2>2, <2>3, <2>4, <2>5, <2>6, <2>7, <2>8, <2>9, <2>10, <2>11 DEF Emit
<1>2. ASSUME NEW r \in Rows, Deliver(r) PROVE NotifyInv'
  BY <1>2, FetchKeeps, PostKeeps, RecordAttemptKeeps, ReturnKeeps DEF Deliver
<1>3. ASSUME NEW q \in Requests, Page(q) PROVE NotifyInv'
  <2>1. CASE WebhookCreate(q)
    BY <2>1, WebhookCreateKeeps
  <2>2. CASE AlertChannelsSave(q)
    BY <2>2, AlertChannelsSaveKeeps
  <2>3. CASE SetChannels(q)
    BY <2>3, SetChannelsKeeps
  <2>4. CASE Enqueue(q)
    BY <2>4, EnqueueKeeps
  <2>5. CASE \E e \in Endpoints : CreateEndpoint(q, e)
    BY <2>5, CreateEndpointKeeps
  <2>6. CASE \E d \in Rows : WebhookReplay(q, d)
    BY <2>6, WebhookReplayKeeps
  <2> QED
    BY <1>3, <2>1, <2>2, <2>3, <2>4, <2>5, <2>6 DEF Page
<1>4. CASE UNCHANGED vars
  BY <1>4 DEF vars, emitVars, hookVars, pageVars, NotifyInv, NotifyTypes, Emitting, IncidentKnown,
              Alerting, RowsHeld, HeldBy, HeldFor, RowKnown, CopiesKnown, CopiesOf, Owes,
              GateKnown, LiveEndpoints, Creating
<1> QED
  BY <1>1, <1>2, <1>3, <1>4, MonitorEditedKeeps, WebhookDeleteKeeps, PostmarkBounceKeeps, CrashKeeps DEF Next

\* The invariant holds throughout.
THEOREM NotifyInvariant == Spec => []NotifyInv
  BY NotifyInit, NotifyStep, PTL DEF Spec

\* A fan-out that ends has called every channel, mails no address that had bounced, and leaves
\* PagerDuty's incident as the monitor is, or open when its owner left it down
\* (drill/notifier.go, heartbeat/multinotifier.go, alerting.go), for any number of fan-outs.
THEOREM FanOutsAreSafe == Spec => []FanOutSafe
<1>1. NotifyInv => FanOutSafe
  <2> SUFFICES ASSUME NotifyInv PROVE FanOutSafe
    OBVIOUS
  <2>1. \A p \in Emitters : EmitterOK(em[p]) /\ Place(em[p])
    BY NotifyFacts
  <2>2. EveryChannelIsTried
    BY <2>1 DEF EveryChannelIsTried, Place, MonitorPlace, DrillPlace, Channels
  <2>3. BouncedIsNotMailed
    BY <2>1 DEF BouncedIsNotMailed, EmitterOK
  <2>4. IncidentAgrees
    <3> SUFFICES ASSUME clean, faults = 0, pager,
                        \A p \in Emitters : em[p].pc \in {"idle", "end"}
                 PROVE  incident <=> monitor.status = "down" \/ LeftDown
      BY DEF IncidentAgrees
    <3>1. \A p \in Emitters : ~Alerting(p)
      BY <2>1 DEF Alerting, Place, MonitorPlace, DrillPlace, HeartbeatEvents
    <3>2. incident <=> monitor.last = "down"
      BY <3>1 DEF NotifyInv, IncidentKnown
    <3>3. monitor.last = "down" <=> monitor.status = "down" \/ LeftDown
      BY NotifyFacts DEF NotifyTypes, LeftDown, Monitored, HeartbeatEvents
    <3> QED
      BY <3>2, <3>3
  <2> QED
    BY <2>2, <2>3, <2>4 DEF FanOutSafe
<1> QED
  BY <1>1, NotifyInvariant, PTL

\* A delivered row was answered, an event has one row per endpoint and one more per fault, a job
\* that River is done with leaves its row settled, and n requests exceed the cap by n - 1
\* endpoints at most, and by one for each list that failed (webhooks/dispatch.go, webhooks/worker.go, handlers/webhooks.go).
THEOREM DeliveriesAreSafe == Spec => []DeliverySafe
<1>1. NotifyInv => DeliverySafe
  <2> SUFFICES ASSUME NotifyInv PROVE DeliverySafe
    OBVIOUS
  <2>1. TypeOK
    <3>1. \A p \in Emitters :
            /\ em[p].pc \in {"idle", "hooks", "rows", "insert", "mail", "mailing", "send",
                             "push", "alerts", "pager", "end"}
            /\ em[p].event \in Events \cup {"none"} /\ em[p].fan \in 0 .. MaxEvents
            /\ em[p].todo \subseteq Endpoints /\ em[p].row \in Rows \cup {0}
            /\ em[p].to \subseteq Members /\ em[p].member \in Members \cup {Nobody}
      BY NotifyFacts DEF EmitterRecords
    <3> QED
      BY <3>1, NotifyFacts DEF TypeOK, NotifyTypes, RowRecords
  <2>2. DeliveredWasAnswered
    BY RowFacts DEF DeliveredWasAnswered, RowKnown
  <2>3. DuplicatesNeedCrash
    BY DEF NotifyInv, CopiesKnown, CopiesOf, DuplicatesNeedCrash
  <2>4. SettledWhenDone
    <3> SUFFICES ASSUME faults < MaxAttempts, NEW r \in Rows, job[r] \in {"completed", "discarded"},
                        row[r].status \notin Settled
                 PROVE  FALSE
      BY DEF SettledWhenDone, Settled
    <3>1. /\ RowKnown(r) /\ attempt[r] \in Nat /\ MaxAttempts \in Nat /\ faults \in Nat
      BY RowFacts
    <3>2. job[r] = "discarded" /\ work[r] = "idle"
      BY <3>1 DEF RowKnown
    <3>3. attempt[r] >= MaxAttempts /\ attempt[r] <= faults
      BY <3>1, <3>2 DEF RowKnown, Delivering
    <3> QED
      BY <3>1, <3>3
  <2>5. GateOvershoot
    <3>1. Creating \subseteq Requests /\ LiveEndpoints \subseteq Endpoints
      BY DEF Creating, LiveEndpoints
    <3>2. /\ Cardinality(Creating) \in Nat /\ Cardinality(LiveEndpoints) \in Nat
          /\ Cardinality(Requests) \in Nat /\ Limit \in Nat /\ uncounted \in Nat
      BY <3>1, NotificationsAssumption, NotifyFacts, FS_Subset, FS_CardinalityType DEF NotifyTypes
    <3>3. Cardinality(LiveEndpoints) + Cardinality(Creating)
            < Limit + Cardinality(Requests) + uncounted
      BY DEF NotifyInv, GateKnown
    <3>4. Cardinality(LiveEndpoints) < Limit + Cardinality(Requests) + uncounted
      BY <3>2, <3>3
    <3> QED
      BY <3>4 DEF GateOvershoot
  <2> QED
    BY <2>1, <2>2, <2>3, <2>4, <2>5 DEF DeliverySafe
<1> QED
  BY <1>1, NotifyInvariant, PTL

\* A delivered row stays delivered, whatever attempt comes after it (worker.go:109).
THEOREM DeliveredStays == Spec => DeliveredIsFinal
<1> DEFINE Kept == \A r \in Rows : row[r].status = "delivered" => row'[r].status = "delivered"
<1>1. NotifyInv /\ [Next]_vars => [Kept]_vars
  <2> SUFFICES ASSUME NotifyInv, Next, NEW r \in Rows, row[r].status = "delivered"
               PROVE  row'[r].status = "delivered"
    OBVIOUS
  <2>1. row \in [Rows -> RowRecords] /\ work[r] \notin Delivering /\ row[r] # NoRow
    BY RowFacts, NotifyFacts DEF RowKnown, NotifyTypes, NoRow
  <2>2. ASSUME NEW s \in Rows, NEW v, row' = [row EXCEPT ![s] = v], FreeRow(s)
        PROVE  row'[r].status = "delivered"
    BY <2>1, <2>2 DEF FreeRow
  <2>3. ASSUME NEW p \in Emitters, Emit(p) PROVE row'[r].status = "delivered"
    <3>1. CASE \E e \in Endpoints : CreateDelivery(p, e)
      BY <2>2, <3>1 DEF CreateDelivery
    <3>2. CASE ~\E e \in Endpoints : CreateDelivery(p, e)
      BY <2>3, <3>2 DEF Emit, Announce, ListEnabledEndpoints, InsertDelivery, Recipients, Send,
                        IsSuppressed, Push, Slack, PagerDuty, Finish, hookVars
    <3> QED
      BY <3>1, <3>2
  <2>4. ASSUME NEW s \in Rows, Deliver(s) PROVE row'[r].status = "delivered"
    <3>1. CASE RecordAttempt(s)
      <4>1. s # r
        BY <2>1, <3>1 DEF RecordAttempt, Delivering
      <4>2. row'[r] = row[r]
        BY <2>1, <3>1, <4>1 DEF RecordAttempt
      <4> QED
        BY <4>2
    <3>2. CASE Fetch(s) \/ Post(s) \/ Return(s)
      BY <3>2 DEF Fetch, Post, Return
    <3> QED
      BY <2>4, <3>1, <3>2 DEF Deliver
  <2>5. ASSUME NEW q \in Requests, Page(q) PROVE row'[r].status = "delivered"
    <3>1. CASE \E d \in Rows : WebhookReplay(q, d)
      BY <2>2, <3>1 DEF WebhookReplay
    <3>2. CASE ~\E d \in Rows : WebhookReplay(q, d)
      BY <2>5, <3>2 DEF Page, WebhookCreate, AlertChannelsSave, SetChannels, Enqueue,
                        CreateEndpoint, hookVars
    <3> QED
      BY <3>1, <3>2
  <2>6. ASSUME NEW e \in Endpoints, WebhookDelete(e) PROVE row'[r].status = "delivered"
    BY <2>6 DEF WebhookDelete
  <2>7. ASSUME NEW a \in Members, PostmarkBounce(a) PROVE row'[r].status = "delivered"
    BY <2>7 DEF PostmarkBounce, hookVars
  <2>8. CASE Crash
    BY <2>8 DEF Crash
  <2>9. CASE MonitorEdited
    BY <2>9 DEF MonitorEdited, hookVars
  <2> QED
    BY <2>3, <2>4, <2>5, <2>6, <2>7, <2>8, <2>9 DEF Next
<1> QED
  BY <1>1, NotifyInvariant, PTL DEF Spec, DeliveredIsFinal, Kept

=============================================================================
