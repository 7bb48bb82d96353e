------------------------------ MODULE Billing ------------------------------
(***************************************************************************)
(* The subscription of one account: the checkout pages, the webhook through *)
(* which Stripe reports, the account row it writes, usage metering and      *)
(* refunds (internal/billing, handlers/billing.go, account/store.go).       *)
(*                                                                         *)
(* Stripe is outside: it delivers every event at least once, late and in    *)
(* any order, stamps it with a time of whole seconds, and answers a repeated *)
(* idempotency key with the first result.  A webhook request is two steps,  *)
(* the statement that records the event as seen and the one that applies    *)
(* it; a checkout request is one step per call.  Signatures, JSON and the   *)
(* hosted pages are left out.                                               *)
(***************************************************************************)
EXTENDS Naturals, Sequences, FiniteSets

CONSTANTS
    Subs,          \* subscriptions Stripe may open for the customer
    Items,         \* item lists of a subscription: sequences of prices
    Hooks,         \* webhook requests that can run at the same time
    Checkouts,     \* checkout requests that can run at the same time
    Drills,        \* drills whose teardown meters them, however often it is repeated
    Charges,       \* charges staff refund, however often the form is sent
    Grace,         \* postCancellationGrace
    MaxTime,       \* bound: the last second of the clock
    MaxEvents,     \* bound: events Stripe issues
    MaxFaults      \* bound: failed statements, lost answers, crashes

PaidPlans == {"starter", "pro", "scale"}
Plans == PaidPlans \cup {"trial"}

ASSUME BillingAssumption ==
    /\ Grace \in Nat \ {0} /\ MaxTime \in Nat \ {0}
    /\ MaxEvents \in Nat /\ MaxFaults \in Nat
    /\ \A s \in Items : s \in Seq(PaidPlans \cup {"addon"})

Jobs == Drills \cup Charges
EventIds == 1 .. MaxEvents
Null == 0

VARIABLES
    now,
    sub,                   \* Stripe: status and items of each subscription
    issued,                \* Stripe: the events so far
    keys,                  \* Stripe: idempotency keys seen
    customers, done,       \* Stripe: customers created; units and refunds per job
    customer,              \* accounts.stripe_customer_id is set
    plan, status, updated, \* plan, subscription_status and its _updated_at
    trialEnds,
    seen,                  \* stripe_events
    hook,                  \* the event a webhook request has recorded, or Null
    checkout,              \* where a checkout request is
    applied,               \* history: how often each event was applied
    faults

stripeVars == <<sub, issued, keys, customers, done>>
rowVars == <<plan, status, updated, trialEnds>>
vars == <<now, stripeVars, customer, rowVars, seen, hook, checkout, applied, faults>>

Live(s) == sub[s].status \in {"active", "past_due"}
Event(n) == CHOOSE e \in issued : e.id = n

Works == faults' = faults
Fails == faults < MaxFaults /\ faults' = faults + 1

Init ==
    /\ now = 1
    /\ sub = [s \in Subs |-> [status |-> "none", items |-> <<>>]]
    /\ issued = {} /\ keys = {} /\ customers = 0 /\ done = [j \in Jobs |-> 0]
    /\ customer = FALSE
    /\ plan = "trial" /\ status = "none" /\ updated = Null /\ trialEnds = Grace
    /\ seen = {} /\ hook = [h \in Hooks |-> Null]
    /\ checkout = [c \in Checkouts |-> "idle"]
    /\ applied = [n \in EventIds |-> 0] /\ faults = 0

Tick ==
    /\ now < MaxTime /\ now' = now + 1
    /\ UNCHANGED <<stripeVars, customer, rowVars, seen, hook, checkout, applied, faults>>

-----------------------------------------------------------------------------
(* Stripe *)

\* A change of subscription s is reported by an event that carries it whole.
Report(type, s, st, items) ==
    /\ Cardinality(issued) < MaxEvents
    /\ sub' = [sub EXCEPT ![s] = [status |-> st, items |-> items]]
    /\ issued' = issued \cup {[id |-> Cardinality(issued) + 1, type |-> type, created |-> now,
                               status |-> st, items |-> items]}

StripeChange(s) ==
    /\ Live(s)
    /\ \/ \E st \in {"active", "past_due"}, items \in Items : Report("updated", s, st, items)
       \/ Report("deleted", s, "canceled", sub[s].items)
       \/ Report("invoice", s, sub[s].status, sub[s].items)
    /\ UNCHANGED <<now, keys, customers, done, customer, rowVars, seen, hook, checkout,
                   applied, faults>>

\* A call with key k has an effect the first time only.
FirstUse(k) == k \notin keys

-----------------------------------------------------------------------------
(* Checkout *)

\* The account row as the request found it: a paid account goes to the portal.
\* With a customer the Checkout Session can be opened at once: "open" is Stripe's
\* page, where the customer pays, or leaves (as when the session is refused).
BillingCheckout(c) ==
    /\ checkout[c] = "idle" /\ plan = "trial"
    /\ checkout' = [checkout EXCEPT ![c] = IF customer THEN "open" ELSE "create"]
    /\ UNCHANGED <<now, stripeVars, customer, rowVars, seen, hook, applied, faults>>

\* ensureStripeCustomer, keyed on the account; the answer may get lost.
CreateCustomer(c) ==
    /\ checkout[c] = "create"
    /\ customers' = IF FirstUse("account") THEN customers + 1 ELSE customers
    /\ keys' = keys \cup {"account"}
    /\ \/ Works /\ checkout' = [checkout EXCEPT ![c] = "set"]
       \/ Fails /\ checkout' = [checkout EXCEPT ![c] = "idle"]
    /\ UNCHANGED <<now, sub, issued, done, customer, rowVars, seen, hook, applied>>

SetStripeCustomerID(c) ==
    /\ checkout[c] = "set"
    /\ \/ Works /\ customer' = TRUE /\ checkout' = [checkout EXCEPT ![c] = "open"]
       \/ Fails /\ checkout' = [checkout EXCEPT ![c] = "idle"] /\ UNCHANGED customer
    /\ UNCHANGED <<now, stripeVars, rowVars, seen, hook, applied>>

Pay(c, s) ==
    /\ checkout[c] = "open" /\ sub[s].status = "none"
    /\ \E items \in Items : Report("created", s, "active", items)
    /\ checkout' = [checkout EXCEPT ![c] = "idle"]
    /\ UNCHANGED <<now, keys, customers, done, customer, rowVars, seen, hook, applied, faults>>

Leave(c) ==
    /\ checkout[c] = "open" /\ checkout' = [checkout EXCEPT ![c] = "idle"]
    /\ UNCHANGED <<now, stripeVars, customer, rowVars, seen, hook, applied, faults>>

-----------------------------------------------------------------------------
(* The webhook *)

\* Mutant: an event that was seen before is handled again.
Fresh_Always(e) == TRUE
Fresh(e) == e.id \notin seen

\* stripeWebhook, first statement.  A duplicate is acknowledged and forgotten.
RecordStripeEvent(h, e) ==
    /\ hook[h] = Null /\ Fresh(e)
    /\ seen' = seen \cup {e.id} /\ hook' = [hook EXCEPT ![h] = e.id]
    /\ UNCHANGED <<now, stripeVars, customer, rowVars, checkout, applied, faults>>

PlanForPrice(p) == IF p \in PaidPlans THEN p ELSE "trial"

\* Items whose price is a plan's.
Known(items) == {i \in DOMAIN items : PlanForPrice(items[i]) # "trial"}
\* The plan of the first of them, and the trial when there is none.
PlanOf(items) ==
    IF Known(items) = {} THEN "trial"
    ELSE LET first == CHOOSE i \in Known(items) : \A j \in Known(items) : i <= j
         IN  PlanForPrice(items[first])

\* Mutant: a row that was written once is not written again.
Newer_Unset(e) == updated = Null
\* Both statements skip a row that was written for a later event.
Newer(e) == updated = Null \/ updated <= e.created

\* Mutant: an overdue subscription does not count as active.
SyncSubscription_OnlyActive(e) ==
    /\ IF Newer(e) THEN /\ plan' = (IF e.status = "active" THEN PlanOf(e.items) ELSE "trial")
                        /\ status' = e.status /\ updated' = e.created
       ELSE UNCHANGED <<plan, status, updated>>
    /\ UNCHANGED trialEnds
SyncSubscription(e) ==
    /\ IF Newer(e) THEN plan' = PlanOf(e.items) /\ status' = e.status /\ updated' = e.created
       ELSE UNCHANGED <<plan, status, updated>>
    /\ UNCHANGED trialEnds

\* Mutant: the time of the event is not stored with it.
HandleSubscriptionCanceled_NoTime(e) ==
    IF Newer(e) THEN plan' = "trial" /\ status' = "canceled" /\ updated' = updated
                     /\ trialEnds' = now + Grace
    ELSE UNCHANGED rowVars
HandleSubscriptionCanceled(e) ==
    IF Newer(e) THEN plan' = "trial" /\ status' = "canceled" /\ updated' = e.created
                     /\ trialEnds' = now + Grace
    ELSE UNCHANGED rowVars

\* stripeWebhook, second statement, or the dunning mail of a failed invoice.
Apply(h) ==
    /\ hook[h] # Null
    /\ LET e == Event(hook[h]) IN
          /\ CASE e.type = "deleted" -> HandleSubscriptionCanceled(e)
               [] e.type = "invoice" -> UNCHANGED rowVars
               [] e.type \in {"created", "updated"} -> SyncSubscription(e)
          /\ applied' = [applied EXCEPT ![e.id] = @ + 1]
    /\ hook' = [hook EXCEPT ![h] = Null]
    /\ UNCHANGED <<now, stripeVars, customer, seen, checkout, faults>>

\* The second statement fails, or the process dies before it: Stripe's retry
\* finds the event seen.
ApplyLost(h) ==
    /\ hook[h] # Null /\ Fails
    /\ hook' = [hook EXCEPT ![h] = Null]
    /\ UNCHANGED <<now, stripeVars, customer, rowVars, seen, checkout, applied>>

-----------------------------------------------------------------------------
(* Usage and refunds *)

Keyed(j) ==
    /\ done' = [done EXCEPT ![j] = IF FirstUse(j) THEN @ + 1 ELSE @]
    /\ keys' = keys \cup {j}
    /\ UNCHANGED <<now, sub, issued, customers, customer, rowVars, seen, hook, checkout,
                   applied, faults>>

\* Teardown meters drill d; repeated with it, keyed on the drill.
ReportUsage(d) == customer /\ Keyed(d)

\* Staff refund charge g; the form may be sent twice, keyed on the charge.
AdminRefund(g) == Keyed(g)

-----------------------------------------------------------------------------
Next ==
    \/ Tick
    \/ \E s \in Subs : StripeChange(s)
    \/ \E c \in Checkouts : \/ BillingCheckout(c) \/ CreateCustomer(c)
                            \/ SetStripeCustomerID(c) \/ Leave(c)
                            \/ \E s \in Subs : Pay(c, s)
    \/ \E h \in Hooks : \/ Apply(h) \/ ApplyLost(h)
                        \/ \E e \in issued : RecordStripeEvent(h, e)
    \/ \E d \in Drills : ReportUsage(d)
    \/ \E g \in Charges : AdminRefund(g)

Spec == Init /\ [][Next]_vars

-----------------------------------------------------------------------------
EventSet == [id : EventIds, type : {"created", "updated", "deleted", "invoice"},
             created : 1 .. MaxTime, status : {"active", "past_due", "canceled"},
             items : Items]

TypeOK ==
    /\ now \in 1 .. MaxTime
    /\ sub \in [Subs -> [status : {"none", "active", "past_due", "canceled"},
                         items : Items \cup {<<>>}]]
    /\ issued \subseteq EventSet /\ keys \subseteq Jobs \cup {"account"}
    /\ customers \in Nat /\ done \in [Jobs -> Nat] /\ customer \in BOOLEAN
    /\ plan \in Plans /\ status \in {"none", "active", "past_due", "canceled"}
    /\ updated \in 0 .. MaxTime /\ trialEnds \in Nat
    /\ seen \subseteq EventIds /\ hook \in [Hooks -> EventIds \cup {Null}]
    /\ checkout \in [Checkouts -> {"idle", "create", "set", "open"}]
    /\ applied \in [EventIds -> Nat] /\ faults \in 0 .. MaxFaults

\* handlers/billing.go:213: however often Stripe delivers an event, and to however
\* many requests at once, it is applied once: one grace period, one dunning mail.
AppliedOnce == \A n \in EventIds : applied[n] <= 1

\* An event after which the account has no paid plan.
EndsPlan(e) ==
    \/ e.type = "deleted"
    \/ e.type \in {"created", "updated"} /\ \A i \in DOMAIN e.items : e.items[i] \notin PaidPlans

\* handlers/billing.go:230-261: an account leaves a paid plan only when a subscription is
\* deleted, or changes and none of its items has the price of a plan, which the handler takes
\* for the trial; an overdue invoice, an unpaid status or an add-on listed first does not
\* demote it.
DemotedWithReason ==
    [][(plan \in PaidPlans /\ plan' = "trial") =>
         (\E h \in Hooks : hook[h] # Null /\ hook'[h] = Null /\ EndsPlan(Event(hook[h])))]_vars

SubscriptionEvents == {e \in issued : e.type # "invoice"}

\* What an event says of the account: its plan and subscription status.
Outcome(e) == IF e.type = "deleted" THEN <<"trial", "canceled">>
              ELSE <<PlanOf(e.items), e.status>>

\* account/store.go:257: once every event is handled and none was lost, the row
\* shows the newest, whatever the order they came in (events of the same second
\* are ordered by their arrival).
NewestShown ==
    (faults = 0 /\ SubscriptionEvents # {} /\ {e.id : e \in issued} \subseteq seen
       /\ \A h \in Hooks : hook[h] = Null)
    => \E e \in SubscriptionEvents :
          /\ \A f \in SubscriptionEvents : f.created <= e.created
          /\ <<plan, status>> = Outcome(e)

\* billing/stripe.go:154, steps.go:84, admin.go:302: requests that race, are sent
\* twice or lose their answer create one customer, one unit per drill and one
\* refund per charge.
KeyedOnce == customers <= 1 /\ \A j \in Jobs : done[j] <= 1

\* account/store.go:242: the row is a ledger of Stripe's events: it shows one of
\* them and never goes back to an older one.
LedgerView == INSTANCE PlanLedger WITH
    issued <- SubscriptionEvents, stamp <- updated, view <- <<plan, status>>
ImplementsLedger == LedgerView!Ledger

\* Whatever is delivered twice, repeated or lost on the way: an event is applied once, and there
\* is one customer, one unit per drill and one refund per charge.
OnceOnly == AppliedOnce /\ KeyedOnce

=============================================================================
