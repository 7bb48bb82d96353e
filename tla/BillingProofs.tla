--------------------------- MODULE BillingProofs ---------------------------
(****************************************************************************)
(* Proofs about Billing, for any number of subscriptions, events, webhook   *)
(* requests, checkouts and faults. Typed adds to TypeOK that the issued     *)
(* events are finitely many and that a request at work holds one of them;   *)
(* SeenFirst is what makes AppliedOnce inductive; the refinement of         *)
(* PlanLedger needs the types only. NewestShown needs that the row shows a  *)
(* newest one of the events applied to it.                                  *)
(****************************************************************************)
EXTENDS Billing, FiniteSetTheorems, WellFoundedInduction, TLAPS

USE BillingAssumption

\* A request at work holds an event Stripe has issued, a live subscription has items.
Typed ==
    /\ TypeOK /\ IsFiniteSet(issued)
    /\ \A s \in Subs : Live(s) => sub[s].items \in Items
    /\ \A h \in Hooks : hook[h] # Null => \E e \in issued : e.id = hook[h]

\* What a subscription costs the account is always a plan.
LEMMA PlanOfType == ASSUME NEW items PROVE PlanOf(items) \in Plans
  BY DEF PlanOf, PlanForPrice, Plans, PaidPlans

\* The event a request holds is one of the issued ones.
LEMMA HeldEvent ==
    ASSUME Typed, NEW h \in Hooks, hook[h] # Null
    PROVE  /\ Event(hook[h]) \in issued /\ Event(hook[h]).id = hook[h]
           /\ Event(hook[h]) \in EventSet
  BY DEF Typed, TypeOK, Event

\* A report keeps the types of what Stripe holds.
LEMMA ReportTypes ==
    ASSUME Typed, NEW s \in Subs, NEW items \in Items,
           NEW type \in {"created", "updated", "deleted", "invoice"},
           NEW st \in {"active", "past_due", "canceled"}, Report(type, s, st, items)
    PROVE  /\ issued' \subseteq EventSet /\ IsFiniteSet(issued') /\ issued \subseteq issued'
           /\ sub' \in [Subs -> [status : {"none", "active", "past_due", "canceled"},
                                 items : Items \cup {<<>>}]]
           /\ \A q \in Subs : Live(q)' => sub'[q].items \in Items
<1> DEFINE e == [id |-> Cardinality(issued) + 1, type |-> type, created |-> now,
                 status |-> st, items |-> items]
<1>1. Cardinality(issued) \in Nat /\ Cardinality(issued) + 1 \in EventIds
  <2>1. Cardinality(issued) \in Nat
    BY FS_CardinalityType DEF Typed
  <2> QED BY <2>1 DEF Report, EventIds
<1>2. e \in EventSet
  BY <1>1 DEF EventSet, Typed, TypeOK
<1>3. issued' = issued \cup {e}
  BY DEF Report
<1>4. IsFiniteSet(issued')
  BY <1>3, FS_AddElement DEF Typed
<1>5. sub' \in [Subs -> [status : {"none", "active", "past_due", "canceled"},
                         items : Items \cup {<<>>}]]
  BY DEF Report, Typed, TypeOK
<1>6. \A q \in Subs : Live(q)' => sub'[q].items \in Items
  BY DEF Report, Typed, TypeOK, Live
<1> QED BY <1>2, <1>3, <1>4, <1>5, <1>6 DEF Typed, TypeOK

\* Every step keeps the types.
LEMMA TypeStep == Typed /\ [Next]_vars => Typed'
<1> SUFFICES ASSUME Typed, [Next]_vars PROVE Typed'
  OBVIOUS
<1> USE DEF Typed, stripeVars, rowVars, Works, Fails, Null
<1>1. CASE Tick
  BY <1>1 DEF Tick, TypeOK, Live
<1>2. ASSUME NEW s \in Subs, StripeChange(s) PROVE Typed'
  <2>1. PICK type \in {"created", "updated", "deleted", "invoice"},
             st \in {"active", "past_due", "canceled"}, items \in Items :
             Report(type, s, st, items)
    BY <1>2 DEF StripeChange, Live, TypeOK
  <2> QED BY <1>2, <2>1, ReportTypes DEF StripeChange, TypeOK
<1>3. ASSUME NEW c \in Checkouts, BillingCheckout(c) PROVE Typed'
  BY <1>3 DEF BillingCheckout, TypeOK, Live
<1>4. ASSUME NEW c \in Checkouts, CreateCustomer(c) PROVE Typed'
  <2>1. /\ customers' \in Nat /\ keys' \subseteq Jobs \cup {"account"} /\ faults' \in 0 .. MaxFaults
        /\ checkout' \in [Checkouts -> {"idle", "create", "set", "open"}]
    BY <1>4 DEF CreateCustomer, TypeOK
  <2>2. UNCHANGED <<now, sub, issued, done, customer, rowVars, seen, hook, applied>>
    BY <1>4 DEF CreateCustomer
  <2> QED BY <2>1, <2>2 DEF TypeOK, Live
<1>5. ASSUME NEW c \in Checkouts, SetStripeCustomerID(c) PROVE Typed'
  <2>0. /\ customer' \in BOOLEAN
        /\ \/ faults' = faults /\ checkout' = [checkout EXCEPT ![c] = "open"]
           \/ faults < MaxFaults /\ faults' = faults + 1 /\ checkout' = [checkout EXCEPT ![c] = "idle"]
    BY <1>5, Zenon DEF SetStripeCustomerID, TypeOK
  <2>1. /\ faults' \in 0 .. MaxFaults
        /\ checkout' \in [Checkouts -> {"idle", "create", "set", "open"}]
    BY <2>0 DEF TypeOK
  <2>2. UNCHANGED <<now, stripeVars, rowVars, seen, hook, applied>>
    BY <1>5 DEF SetStripeCustomerID
  <2> QED BY <2>0, <2>1, <2>2 DEF TypeOK, Live
<1>6. ASSUME NEW c \in Checkouts, Leave(c) PROVE Typed'
  BY <1>6 DEF Leave, TypeOK, Live
<1>7. ASSUME NEW c \in Checkouts, NEW s \in Subs, Pay(c, s) PROVE Typed'
  <2>1. PICK items \in Items : Report("created", s, "active", items)
    BY <1>7 DEF Pay
  <2>2. checkout' \in [Checkouts -> {"idle", "create", "set", "open"}]
    BY <1>7 DEF Pay, TypeOK
  <2> QED BY <1>7, <2>1, <2>2, ReportTypes DEF Pay, TypeOK
<1>8. ASSUME NEW h \in Hooks, Apply(h) PROVE Typed'
  <2> DEFINE e == Event(hook[h])
  <2>1. e \in issued /\ e.id \in EventIds /\ e.created \in 1 .. MaxTime
        /\ e.status \in {"active", "past_due", "canceled"}
        /\ e.type \in {"created", "updated", "deleted", "invoice"}
    BY <1>8, HeldEvent DEF Apply, EventSet
  <2>2. \/ HandleSubscriptionCanceled(e) \/ UNCHANGED rowVars \/ SyncSubscription(e)
    BY <1>8, <2>1 DEF Apply
  <2> HIDE DEF e
  <2>3. /\ plan' \in Plans /\ status' \in {"none", "active", "past_due", "canceled"}
        /\ updated' \in 0 .. MaxTime /\ trialEnds' \in Nat
    <3>1. CASE HandleSubscriptionCanceled(e)
      BY <3>1, <2>1 DEF HandleSubscriptionCanceled, TypeOK, Plans
    <3>2. CASE SyncSubscription(e)
      <4>1. PlanOf(e.items) \in Plans
        BY PlanOfType
      <4> QED BY <3>2, <2>1, <4>1 DEF SyncSubscription, TypeOK
    <3>3. CASE UNCHANGED rowVars
      BY <3>3 DEF TypeOK
    <3> QED BY <2>2, <3>1, <3>2, <3>3
  <2>4. /\ hook' = [hook EXCEPT ![h] = Null] /\ applied' = [applied EXCEPT ![e.id] = @ + 1]
        /\ UNCHANGED <<now, stripeVars, customer, seen, checkout, faults>>
    BY <1>8 DEF Apply, e
  <2>5. /\ hook' \in [Hooks -> EventIds \cup {Null}]
        /\ \A g \in Hooks : hook'[g] # Null => hook'[g] = hook[g]
    BY <2>4 DEF TypeOK
  <2>6. applied' \in [EventIds -> Nat]
    BY <2>1, <2>4 DEF TypeOK
  <2> QED BY <2>3, <2>4, <2>5, <2>6 DEF TypeOK, Live
<1>9. ASSUME NEW h \in Hooks, ApplyLost(h) PROVE Typed'
  BY <1>9 DEF ApplyLost, TypeOK, Live
<1>10. ASSUME NEW h \in Hooks, NEW e \in issued, RecordStripeEvent(h, e) PROVE Typed'
  <2>1. e.id \in EventIds
    BY DEF TypeOK, EventSet
  <2> QED BY <1>10, <2>1 DEF RecordStripeEvent, TypeOK, Live
<1>11. ASSUME NEW j \in Jobs, Keyed(j) PROVE Typed'
  <2>1. done' \in [Jobs -> Nat]
    BY <1>11 DEF Keyed, TypeOK
  <2>2. /\ keys' \subseteq Jobs \cup {"account"}
        /\ UNCHANGED <<now, sub, issued, customers, customer, rowVars, seen, hook, checkout,
                        applied, faults>>
    BY <1>11 DEF Keyed, TypeOK
  <2> QED BY <2>1, <2>2 DEF TypeOK, Live
<1>12. CASE UNCHANGED vars
  BY <1>12 DEF vars, TypeOK, Live
<1> QED
  BY <1>1, <1>2, <1>3, <1>4, <1>5, <1>6, <1>7, <1>8, <1>9, <1>10, <1>11, <1>12
     DEF Next, ReportUsage, AdminRefund, Jobs

LEMMA TypeInit == Init => Typed
<1> SUFFICES ASSUME Init PROVE Typed
  OBVIOUS
<1>1. sub \in [Subs -> [status : {"none", "active", "past_due", "canceled"},
                       items : Items \cup {<<>>}]]
  BY DEF Init
<1>2. IsFiniteSet(issued) /\ issued \subseteq EventSet
  BY FS_EmptySet DEF Init
<1>3. (\A s \in Subs : ~Live(s)) /\ (\A h \in Hooks : hook[h] = Null)
  BY DEF Init, Live
<1>4. TypeOK
  <2>1. customer \in BOOLEAN
    BY DEF Init
  <2>2. /\ done \in [Jobs -> Nat] /\ hook \in [Hooks -> EventIds \cup {Null}]
        /\ checkout \in [Checkouts -> {"idle", "create", "set", "open"}]
        /\ applied \in [EventIds -> Nat]
    BY DEF Init
  <2>3. /\ now \in 1 .. MaxTime /\ customers \in Nat /\ trialEnds \in Nat
        /\ updated \in 0 .. MaxTime /\ faults \in 0 .. MaxFaults
    BY DEF Init, Null
  <2> QED BY <1>1, <1>2, <2>1, <2>2, <2>3 DEF Init, TypeOK, Plans
<1> QED BY <1>2, <1>3, <1>4 DEF Typed

\* Every variable of the account row, of the requests and of what Stripe holds keeps its
\* type: an event that was recorded is one that was issued.
THEOREM TypeCorrect == Spec => []TypeOK
<1>1. Typed => TypeOK
  BY DEF Typed
<1> QED BY <1>1, TypeInit, TypeStep, PTL DEF Spec

-----------------------------------------------------------------------------
\* An event is held, and has been applied, only after it was recorded; who holds it is
\* alone and has not applied it.
SeenFirst ==
    /\ \A n \in EventIds : applied[n] <= 1 /\ (n \notin seen => applied[n] = 0)
    /\ \A h \in Hooks : hook[h] # Null => hook[h] \in seen /\ applied[hook[h]] = 0
    /\ \A g, h \in Hooks : (hook[g] # Null /\ hook[g] = hook[h]) => g = h

LEMMA SeenStep == Typed /\ SeenFirst /\ [Next]_vars => SeenFirst'
<1> SUFFICES ASSUME Typed, SeenFirst, [Next]_vars PROVE SeenFirst'
  OBVIOUS
<1>0. hook \in [Hooks -> EventIds \cup {0}] /\ applied \in [EventIds -> Nat] /\ 0 \notin EventIds
  BY DEF Typed, TypeOK, EventIds, Null
<1> USE DEF Null
<1>1. CASE UNCHANGED <<seen, hook, applied>>
  BY <1>1 DEF SeenFirst
<1>2. ASSUME NEW h \in Hooks, Apply(h) PROVE SeenFirst'
  <2>1. /\ hook[h] # 0 /\ hook' = [hook EXCEPT ![h] = 0] /\ UNCHANGED seen
        /\ applied' = [applied EXCEPT ![Event(hook[h]).id] = @ + 1]
    BY <1>2 DEF Apply
  <2>2. applied' = [applied EXCEPT ![hook[h]] = @ + 1]
    BY <2>1, HeldEvent
  <2> QED BY <1>0, <2>1, <2>2 DEF SeenFirst
<1>3. ASSUME NEW h \in Hooks, ApplyLost(h) PROVE SeenFirst'
  BY <1>0, <1>3 DEF ApplyLost, SeenFirst
<1>4. ASSUME NEW h \in Hooks, NEW e \in issued, RecordStripeEvent(h, e) PROVE SeenFirst'
  <2>1. e.id \in EventIds
    BY DEF Typed, TypeOK, EventSet
  <2> QED BY <1>0, <1>4, <2>1 DEF RecordStripeEvent, Fresh, SeenFirst
<1> QED
  BY <1>1, <1>2, <1>3, <1>4
     DEF Next, vars, Tick, StripeChange, BillingCheckout, CreateCustomer, SetStripeCustomerID,
         Leave, Pay, ReportUsage, AdminRefund, Keyed

\* handlers/billing.go:213: an event is applied at most once, however many requests bring
\* it, at once or later.
THEOREM EventsApplyOnce == Spec => []AppliedOnce
<1>1. Init => SeenFirst
  BY DEF Init, SeenFirst, Null
<1>2. SeenFirst => AppliedOnce
  BY DEF SeenFirst, AppliedOnce
<1> QED BY <1>1, <1>2, TypeInit, TypeStep, SeenStep, PTL DEF Spec

-----------------------------------------------------------------------------
\* Nothing was made under a key Stripe has not seen.
KeyFirst ==
    /\ customers <= 1 /\ ("account" \notin keys => customers = 0)
    /\ \A j \in Jobs : done[j] <= 1 /\ (j \notin keys => done[j] = 0)

LEMMA KeyStep == Typed /\ KeyFirst /\ [Next]_vars => KeyFirst'
<1> SUFFICES ASSUME Typed, KeyFirst, [Next]_vars PROVE KeyFirst'
  OBVIOUS
<1>0. customers \in Nat /\ done \in [Jobs -> Nat]
  BY DEF Typed, TypeOK
<1>1. CASE UNCHANGED <<keys, customers, done>>
  BY <1>1 DEF KeyFirst
<1>2. ASSUME NEW c \in Checkouts, CreateCustomer(c) PROVE KeyFirst'
  <2>1. /\ customers' = IF "account" \notin keys THEN customers + 1 ELSE customers
        /\ keys' = keys \cup {"account"} /\ done' = done
    BY <1>2 DEF CreateCustomer, FirstUse
  <2> QED BY <1>0, <2>1 DEF KeyFirst
<1>3. ASSUME NEW j \in Jobs, Keyed(j) PROVE KeyFirst'
  <2>1. /\ done' = [done EXCEPT ![j] = IF j \notin keys THEN @ + 1 ELSE @]
        /\ keys' = keys \cup {j} /\ customers' = customers
    BY <1>3 DEF Keyed, FirstUse
  <2> QED BY <1>0, <2>1 DEF KeyFirst
<1> QED
  BY <1>1, <1>2, <1>3
     DEF Next, vars, stripeVars, Tick, StripeChange, Report, BillingCheckout, SetStripeCustomerID,
         Leave, Pay, Apply, ApplyLost, RecordStripeEvent, ReportUsage, AdminRefund, Jobs

\* billing/stripe.go:154: however many requests race, repeat themselves or lose their
\* answer, there is one customer, one unit per drill and one refund per charge.
THEOREM KeysMakeOnce == Spec => []KeyedOnce
<1>1. Init => KeyFirst
  BY DEF Init, KeyFirst
<1>2. KeyFirst => KeyedOnce
  BY DEF KeyFirst, KeyedOnce
<1> QED BY <1>1, <1>2, TypeInit, TypeStep, KeyStep, PTL DEF Spec

-----------------------------------------------------------------------------
\* account/store.go:242: whatever the order events arrive in, how often and with which
\* of them lost, the account row is a ledger: it shows one event that Stripe issued, and
\* never one older than what it showed before.
THEOREM RowIsLedger == Spec => ImplementsLedger
<1>1. Init => LedgerView!LedgerInit
  BY DEF Init, LedgerView!LedgerInit, SubscriptionEvents, Null
<1>2. Typed /\ [Next]_vars => [LedgerView!Issue \/ LedgerView!Show]_(LedgerView!LedgerVars)
  <2> SUFFICES ASSUME Typed, [Next]_vars
               PROVE  [LedgerView!Issue \/ LedgerView!Show]_(LedgerView!LedgerVars)
    OBVIOUS
  <2> USE DEF LedgerView!Issue, LedgerView!Show, LedgerView!LedgerVars
  <2>1. CASE UNCHANGED <<issued, plan, status, updated>>
    BY <2>1 DEF SubscriptionEvents
  <2>2. CASE issued \subseteq issued' /\ UNCHANGED <<plan, status, updated>>
    BY <2>2 DEF SubscriptionEvents
  <2>3. ASSUME NEW h \in Hooks, Apply(h)
        PROVE  [LedgerView!Issue \/ LedgerView!Show]_(LedgerView!LedgerVars)
    <3> DEFINE e == Event(hook[h])
    <3>1. e \in issued /\ e \in EventSet /\ UNCHANGED issued
      BY <2>3, HeldEvent DEF Apply, stripeVars
    <3>2. \/ e.type = "deleted" /\ HandleSubscriptionCanceled(e)
          \/ UNCHANGED rowVars
          \/ e.type \in {"created", "updated"} /\ SyncSubscription(e)
      BY <2>3, <3>1 DEF Apply, EventSet
    <3>3. updated \in Nat /\ e.created \in Nat
      BY <3>1 DEF Typed, TypeOK, EventSet
    <3> HIDE DEF e
    <3>4. CASE UNCHANGED rowVars
      BY <3>1, <3>4 DEF rowVars, SubscriptionEvents
    <3>5. CASE e.type # "invoice" /\ updated <= e.created
                 /\ updated' = e.created /\ <<plan', status'>> = Outcome(e)
      <4>1. e \in SubscriptionEvents /\ SubscriptionEvents' = SubscriptionEvents
        BY <3>1, <3>5 DEF SubscriptionEvents
      <4>2. LedgerView!Show
        BY <3>5, <4>1
      <4> QED BY <4>2
    <3> QED
      BY <3>2, <3>3, <3>4, <3>5
         DEF HandleSubscriptionCanceled, SyncSubscription, Newer, Null, Outcome, rowVars
  <2> QED
    BY <2>1, <2>2, <2>3
       DEF Next, vars, stripeVars, rowVars, Tick, StripeChange, Report, BillingCheckout,
           CreateCustomer, SetStripeCustomerID, Leave, Pay, ApplyLost, RecordStripeEvent,
           ReportUsage, AdminRefund, Keyed
<1> QED BY <1>1, <1>2, TypeInit, TypeStep, PTL DEF Spec, ImplementsLedger, LedgerView!Ledger

\* Whatever is delivered twice, repeated or lost on the way (billing.go, stripe_events):
\* nothing is applied, created or charged twice.
THEOREM NothingTwice == Spec => []OnceOnly
<1>1. AppliedOnce /\ KeyedOnce => OnceOnly
  BY DEF OnceOnly
<1> QED BY <1>1, EventsApplyOnce, KeysMakeOnce, PTL

-----------------------------------------------------------------------------
(* The newest event is the one shown.                                       *)

\* The statement both writers of the row share.
LEMMA ApplyRow ==
    ASSUME Typed, NEW h \in Hooks, Apply(h), NEW e, e = Event(hook[h])
    PROVE  /\ e \in issued /\ e.id = hook[h] /\ e.created \in 1 .. MaxTime /\ e.items \in Items
           /\ \/ e.type = "invoice" /\ UNCHANGED <<plan, status, updated>>
              \/ /\ e.type # "invoice" /\ updated > e.created
                 /\ UNCHANGED <<plan, status, updated>>
              \/ /\ e.type # "invoice" /\ updated <= e.created
                 /\ updated' = e.created /\ <<plan', status'>> = Outcome(e)
<1>1. e \in issued /\ e.id = hook[h] /\ e \in EventSet
  BY HeldEvent DEF Apply
<1>2. /\ e.created \in 1 .. MaxTime /\ e.items \in Items
      /\ e.type \in {"created", "updated", "deleted", "invoice"}
  BY <1>1 DEF EventSet
<1>3. updated \in 0 .. MaxTime
  BY DEF Typed, TypeOK
<1>4. \/ e.type = "deleted" /\ HandleSubscriptionCanceled(e)
      \/ e.type = "invoice" /\ UNCHANGED rowVars
      \/ e.type \in {"created", "updated"} /\ SyncSubscription(e)
  BY <1>2 DEF Apply
<1>5. Newer(e) <=> updated <= e.created
  BY <1>2, <1>3 DEF Newer, Null
<1>6. ~Newer(e) => updated > e.created
  BY <1>2, <1>3, <1>5
<1>7. CASE e.type = "deleted" /\ HandleSubscriptionCanceled(e)
  BY <1>1, <1>2, <1>5, <1>6, <1>7 DEF HandleSubscriptionCanceled, Outcome, rowVars
<1>8. CASE e.type \in {"created", "updated"} /\ SyncSubscription(e)
  BY <1>1, <1>2, <1>5, <1>6, <1>8 DEF SyncSubscription, Outcome
<1> QED BY <1>1, <1>2, <1>4, <1>7, <1>8 DEF rowVars

\* Ids count the events; the row shows an event of its own time; and while nothing was lost, an
\* event that was recorded and is held by no request is not newer than the row.
Shows ==
    /\ \A e, f \in issued : e.id = f.id => e = f
    /\ \A e \in issued : e.id <= Cardinality(issued)
    /\ \A n \in seen : n <= Cardinality(issued)
    /\ updated # Null => \E e \in SubscriptionEvents :
          e.created = updated /\ <<plan, status>> = Outcome(e)
    /\ faults = 0 => \A e \in SubscriptionEvents :
          (e.id \in seen /\ \A h \in Hooks : hook[h] # e.id) => e.created <= updated

\* Stripe's next event has an id of its own, which nobody has recorded.
LEMMA ReportShows ==
    ASSUME Typed, Shows, NEW s, NEW items, NEW type, NEW st, Report(type, s, st, items),
           UNCHANGED <<rowVars, seen, hook, faults>>
    PROVE  Shows'
<1> DEFINE e == [id |-> Cardinality(issued) + 1, type |-> type, created |-> now,
                 status |-> st, items |-> items]
<1>1. issued' = issued \cup {e} /\ e.id = Cardinality(issued) + 1
  BY DEF Report
<1>2. Cardinality(issued) \in Nat
  BY FS_CardinalityType DEF Typed
<1> HIDE DEF e
<1>3. /\ \A f \in issued : f.id \in Nat /\ f.id # e.id
      /\ e.id \notin seen
      /\ \A n \in seen : n \in Nat
  BY <1>1, <1>2 DEF Shows, Typed, TypeOK, EventSet, EventIds
<1>4. e \notin issued
  BY <1>3
<1>5. Cardinality(issued') = Cardinality(issued) + 1
  BY <1>1, <1>4, FS_AddElement DEF Typed
<1>6. \A f, g \in issued' : f.id = g.id => f = g
  BY <1>1, <1>3 DEF Shows
<1>7. /\ \A f \in issued' : f.id <= Cardinality(issued')
      /\ \A n \in seen' : n <= Cardinality(issued')
  <2>1. \A n \in Nat : n <= Cardinality(issued) => n <= Cardinality(issued) + 1
    BY <1>2
  <2>2. \A f \in issued : f.id <= Cardinality(issued) + 1
    BY <1>3, <2>1 DEF Shows
  <2>3. \A n \in seen : n <= Cardinality(issued) + 1
    BY <1>3, <2>1 DEF Shows
  <2>4. e.id <= Cardinality(issued) + 1
    BY <1>1, <1>2
  <2>5. seen' = seen
    OBVIOUS
  <2> QED BY <1>1, <1>5, <2>2, <2>3, <2>4, <2>5
<1>8. SubscriptionEvents \subseteq SubscriptionEvents' /\ SubscriptionEvents' \subseteq SubscriptionEvents \cup {e}
  BY <1>1 DEF SubscriptionEvents
<1>9. updated' # Null => \E f \in SubscriptionEvents' :
          f.created = updated' /\ <<plan', status'>> = Outcome(f)
  BY <1>8 DEF Shows, rowVars
<1>10. faults' = 0 => \A f \in SubscriptionEvents' :
          (f.id \in seen' /\ \A h \in Hooks : hook'[h] # f.id) => f.created <= updated'
  <2>1. \A f \in SubscriptionEvents' : f.id \in seen => f \in SubscriptionEvents
    BY <1>8, <1>3
  <2>2. seen' = seen /\ hook' = hook /\ faults' = faults /\ updated' = updated
    BY DEF rowVars
  <2> QED BY <2>1, <2>2 DEF Shows
<1> QED BY <1>6, <1>7, <1>9, <1>10 DEF Shows

LEMMA ShowsStep ==
    ASSUME Typed, Shows, [Next]_vars
    PROVE  Shows'
<1> USE DEF Null
<1>0. /\ hook \in [Hooks -> EventIds \cup {0}] /\ 0 \notin EventIds
      /\ issued \subseteq EventSet /\ \A e \in issued : e.id \in EventIds /\ e.created \in Nat
      /\ updated \in Nat /\ faults \in Nat
  BY DEF Typed, TypeOK, EventSet, EventIds
<1>1. ASSUME UNCHANGED <<issued, plan, status, updated, seen, hook>>, faults' = 0 => faults = 0
      PROVE  Shows'
  BY <1>1 DEF Shows, SubscriptionEvents
<1>2. ASSUME NEW s \in Subs, StripeChange(s) PROVE Shows'
  <2>1. PICK type, st, items : Report(type, s, st, items)
    BY <1>2 DEF StripeChange
  <2> QED BY <1>2, <2>1, ReportShows DEF StripeChange
<1>3. ASSUME NEW c \in Checkouts, NEW s \in Subs, Pay(c, s) PROVE Shows'
  <2>1. PICK items : Report("created", s, "active", items)
    BY <1>3 DEF Pay
  <2> QED BY <1>3, <2>1, ReportShows DEF Pay
<1>4. ASSUME NEW h \in Hooks, Apply(h) PROVE Shows'
  <2> DEFINE e == Event(hook[h])
  <2>1. /\ e \in issued /\ e.id = hook[h] /\ e.created \in 1 .. MaxTime
        /\ \/ e.type = "invoice" /\ UNCHANGED <<plan, status, updated>>
           \/ /\ e.type # "invoice" /\ updated > e.created
              /\ UNCHANGED <<plan, status, updated>>
           \/ /\ e.type # "invoice" /\ updated <= e.created
              /\ updated' = e.created /\ <<plan', status'>> = Outcome(e)
    BY <1>4, ApplyRow
  <2>2. hook' = [hook EXCEPT ![h] = 0] /\ UNCHANGED <<issued, seen, faults>>
    BY <1>4 DEF Apply, stripeVars
  <2> HIDE DEF e
  <2>3. SubscriptionEvents' = SubscriptionEvents
    BY <2>2 DEF SubscriptionEvents
  <2>4. updated <= updated' /\ updated' \in Nat
    BY <1>0, <2>1
  <2>5. e \in SubscriptionEvents => e.created <= updated'
    BY <1>0, <2>1 DEF SubscriptionEvents
  <2>6. updated' # 0 => \E f \in SubscriptionEvents' :
          f.created = updated' /\ <<plan', status'>> = Outcome(f)
    <3>1. CASE UNCHANGED <<plan, status, updated>>
      BY <2>3, <3>1 DEF Shows
    <3>2. CASE e.type # "invoice" /\ updated' = e.created /\ <<plan', status'>> = Outcome(e)
      <4>1. e \in SubscriptionEvents'
        BY <2>1, <2>3, <3>2 DEF SubscriptionEvents
      <4> QED BY <3>2, <4>1
    <3> QED BY <2>1, <3>1, <3>2
  <2>7. ASSUME faults' = 0, NEW f \in SubscriptionEvents', f.id \in seen',
               \A g \in Hooks : hook'[g] # f.id
        PROVE  f.created <= updated'
    <3>1. f \in issued /\ f \in SubscriptionEvents
      BY <2>3 DEF SubscriptionEvents
    <3>2. CASE f.id = hook[h]
      <4>1. f = e
        BY <2>1, <3>1, <3>2 DEF Shows
      <4> QED BY <2>5, <3>1, <4>1
    <3>3. CASE f.id # hook[h]
      <4>1. \A g \in Hooks : hook[g] # f.id
        BY <1>0, <2>2, <2>7, <3>3
      <4>2. f.created <= updated
        BY <2>2, <2>7, <3>1, <4>1 DEF Shows
      <4> QED BY <1>0, <2>4, <3>1, <4>2
    <3> QED BY <3>2, <3>3
  <2> QED BY <2>2, <2>6, <2>7 DEF Shows
<1>5. ASSUME NEW h \in Hooks, ApplyLost(h) PROVE Shows'
  <2>1. faults' # 0 /\ UNCHANGED <<issued, plan, status, updated, seen>>
    BY <1>0, <1>5 DEF ApplyLost, Fails, stripeVars, rowVars
  <2> QED BY <2>1 DEF Shows, SubscriptionEvents
<1>6. ASSUME NEW h \in Hooks, NEW e \in issued, RecordStripeEvent(h, e) PROVE Shows'
  <2>1. /\ hook[h] = 0 /\ seen' = seen \cup {e.id} /\ hook' = [hook EXCEPT ![h] = e.id]
        /\ UNCHANGED <<issued, plan, status, updated, faults>>
    BY <1>6 DEF RecordStripeEvent, stripeVars, rowVars
  <2>2. SubscriptionEvents' = SubscriptionEvents
    BY <2>1 DEF SubscriptionEvents
  <2>3. ASSUME faults' = 0, NEW f \in SubscriptionEvents', f.id \in seen',
               \A g \in Hooks : hook'[g] # f.id
        PROVE  f.created <= updated'
    <3>1. f.id # e.id
      BY <1>0, <2>1, <2>3
    <3>2. \A g \in Hooks : hook[g] # f.id
      <4>1. f.id # 0
        BY <1>0, <2>2 DEF SubscriptionEvents
      <4> QED BY <1>0, <2>1, <2>3, <4>1
    <3> QED BY <2>1, <2>2, <2>3, <3>1, <3>2 DEF Shows
  <2>4. \A n \in seen' : n <= Cardinality(issued')
    BY <2>1 DEF Shows
  <2> QED BY <2>1, <2>2, <2>3, <2>4 DEF Shows
<1>7. ASSUME NEW c \in Checkouts, CreateCustomer(c) \/ SetStripeCustomerID(c)
      PROVE  Shows'
  <2>1. UNCHANGED <<issued, plan, status, updated, seen, hook>> /\ (faults' = 0 => faults = 0)
    BY <1>0, <1>7 DEF CreateCustomer, SetStripeCustomerID, Works, Fails, stripeVars, rowVars
  <2> QED BY <1>1, <2>1
<1> QED
  BY <1>1, <1>2, <1>3, <1>4, <1>5, <1>6, <1>7
     DEF Next, vars, stripeVars, rowVars, Tick, BillingCheckout, Leave, ReportUsage, AdminRefund,
         Keyed

\* account/store.go:257: whatever the order in which the deliveries of an unbounded number of
\* events reach an unbounded number of requests, once all are handled and none was lost the row
\* shows the newest.
THEOREM NewestIsShown == Spec => []NewestShown
<1>1. Init => Shows
  <2> SUFFICES ASSUME Init PROVE Shows
    OBVIOUS
  <2>1. issued = {} /\ seen = {} /\ updated = Null /\ SubscriptionEvents = {}
    BY DEF Init, SubscriptionEvents
  <2> QED BY <2>1 DEF Shows
<1>2. Typed /\ Shows => NewestShown
  <2> SUFFICES ASSUME Typed, Shows, faults = 0, SubscriptionEvents # {},
                      {e.id : e \in issued} \subseteq seen, \A h \in Hooks : hook[h] = Null
               PROVE  \E e \in SubscriptionEvents :
                         /\ \A f \in SubscriptionEvents : f.created <= e.created
                         /\ <<plan, status>> = Outcome(e)
    BY DEF NewestShown
  <2>1. \A f \in SubscriptionEvents : f \in issued /\ f.id \in seen /\ f.id # Null /\ f.created \in 1 .. MaxTime
    BY DEF SubscriptionEvents, Typed, TypeOK, EventSet, EventIds, Null
  <2>2. \A f \in SubscriptionEvents : f.created <= updated
    BY <2>1 DEF Shows
  <2>3. updated # Null
    BY <2>1, <2>2 DEF Typed, TypeOK, Null
  <2> QED BY <2>2, <2>3 DEF Shows
<1> QED BY <1>1, <1>2, TypeInit, TypeStep, ShowsStep, PTL DEF Spec

\* A set of numbers that is not empty has a least one.
LEMMA LeastNumber ==
    ASSUME NEW S, S \subseteq Nat, S # {}
    PROVE  \E i \in S : \A j \in S : i <= j
<1> DEFINE R == {p \in Nat \X Nat : p[1] < p[2]}
<1>2. IsWellFoundedOn(R, Nat)
  BY NatLessThanWellFounded DEF OpToRel
<1> HIDE DEF R
<1>3. PICK i \in S : \A j \in S : ~(<<j, i>> \in R)
  BY <1>2, WFMin
<1>4. ASSUME NEW j \in S PROVE i <= j
  <2>1. ~(<<j, i>> \in R) /\ i \in Nat /\ j \in Nat
    BY <1>3
  <2> QED BY <2>1 DEF R
<1> QED BY <1>4

\* The plan of an item list is the trial only when no item has the price of a plan.
LEMMA TrialIsUnknown ==
    ASSUME NEW items \in Seq(PaidPlans \cup {"addon"}), PlanOf(items) = "trial"
    PROVE  \A i \in DOMAIN items : items[i] \notin PaidPlans
<1>1. Known(items) = {}
  <2> SUFFICES ASSUME Known(items) # {} PROVE FALSE
    OBVIOUS
  <2> DEFINE first == CHOOSE i \in Known(items) : \A j \in Known(items) : i <= j
  <2>1. Known(items) \subseteq Nat
    BY DEF Known
  <2>2. \E i \in Known(items) : \A j \in Known(items) : i <= j
    BY <2>1, LeastNumber
  <2>3. first \in Known(items)
    BY <2>2
  <2>4. PlanForPrice(items[first]) = "trial"
    BY DEF PlanOf
  <2> QED BY <2>3, <2>4 DEF Known
<1>2. "trial" \notin PaidPlans
  BY DEF PaidPlans
<1> QED BY <1>1, <1>2 DEF Known, PlanForPrice

\* handlers/billing.go:230-261: for any subscriptions, events and prices, an account leaves its
\* paid plan in a step that handles a deletion, or a change to items none of which has the price
\* of a plan, and in no other.
THEOREM DemotionHasReason == Spec => DemotedWithReason
<1> DEFINE Lawful ==
      (plan \in PaidPlans /\ plan' = "trial") =>
         (\E h \in Hooks : hook[h] # Null /\ hook'[h] = Null /\ EndsPlan(Event(hook[h])))
<1>1. Typed /\ [Next]_vars => [Lawful]_vars
  <2> SUFFICES ASSUME Typed, [Next]_vars, plan \in PaidPlans, plan' = "trial"
               PROVE  \E h \in Hooks : hook[h] # Null /\ hook'[h] = Null /\ EndsPlan(Event(hook[h]))
    OBVIOUS
  <2>1. plan' # plan
    BY DEF PaidPlans
  <2>2. PICK h \in Hooks : Apply(h)
    BY <2>1
       DEF Next, vars, stripeVars, rowVars, Tick, StripeChange, Report, BillingCheckout,
           CreateCustomer, SetStripeCustomerID, Leave, Pay, ApplyLost, RecordStripeEvent,
           ReportUsage, AdminRefund, Keyed
  <2> DEFINE e == Event(hook[h])
  <2>3. hook[h] # Null /\ hook'[h] = Null
    BY <2>2 DEF Apply, Typed, TypeOK
  <2>4. e \in EventSet
    BY <2>3, HeldEvent
  <2>5. e.type \in {"created", "updated", "deleted", "invoice"} /\ e.items \in Items
    BY <2>4 DEF EventSet
  <2>6. UNCHANGED <<plan, status, updated>> \/ <<plan', status'>> = Outcome(e)
    BY <2>2, ApplyRow
  <2>7. e.type = "invoice" => UNCHANGED plan
    BY <2>2 DEF Apply, rowVars
  <2> HIDE DEF e
  <2>8. EndsPlan(e)
    <3>1. CASE e.type = "deleted"
      BY <3>1 DEF EndsPlan
    <3>2. CASE e.type \in {"created", "updated"}
      <4>1. PlanOf(e.items) = "trial"
        BY <2>1, <2>6, <3>2 DEF Outcome
      <4>2. e.items \in Seq(PaidPlans \cup {"addon"})
        BY <2>5
      <4>3. PICK items \in Seq(PaidPlans \cup {"addon"}) : items = e.items
        BY <4>2
      <4>4. \A i \in DOMAIN items : items[i] \notin PaidPlans
        BY <4>1, <4>3, TrialIsUnknown
      <4> QED BY <3>2, <4>3, <4>4 DEF EndsPlan
    <3> QED BY <2>1, <2>5, <2>7, <3>1, <3>2
  <2> QED BY <2>3, <2>8 DEF e
<1> QED BY <1>1, TypeInit, TypeStep, PTL DEF Spec, DemotedWithReason

=============================================================================
