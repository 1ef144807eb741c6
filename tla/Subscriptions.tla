---------------------------- MODULE Subscriptions ----------------------------
(***************************************************************************)
(* What the platform charges its tenants: one subscription per tenant, the *)
(* invoices of its periods, the hourly billing cycle that moves it with    *)
(* time, and the gateway's webhooks that settle its invoices.              *)
(*                                                                         *)
(* The cycle lists tenants without a lock and handles each in a            *)
(* transaction of its own; several runs may overlap and any of them may    *)
(* die.  A webhook reads the invoice before it writes it.  A transaction   *)
(* is short beside the unit of time, so time stands still while one is     *)
(* open.                                                                   *)
(***************************************************************************)
EXTENDS Integers, FiniteSets, Sequences

CONSTANTS
    Tenants,        \* numbered in the order of their subscription's id
    Cycles,         \* runs of the billing task that may overlap
    BatchSize,      \* subscriptions listed at a time
    GatewayOrders,  \* orders at the gateway
    Events,         \* webhook events,
    OrderOf,        \* with the gateway order
    PaymentOf,      \* and the gateway payment each one names
    Trials,         \* lengths of trial on offer, 0 for none
    Grace,          \* Plan.grace_days
    Period,         \* length of a billing interval
    Prices,         \* price_amount after the registration's coupon
    MaxTime         \* bound on time

NoPayment == ""
NoSubscription == [status |-> "none"]

SubscriptionsAssumption ==
    /\ Tenants \subseteq Nat \ {0} /\ IsFiniteSet(Tenants)
    /\ BatchSize \in Nat \ {0} /\ Trials \subseteq Nat /\ Prices \subseteq Nat
    /\ Grace \in Nat /\ Period \in Nat \ {0} /\ MaxTime \in Nat
    /\ OrderOf \in [Events -> GatewayOrders]

VARIABLES
    now,
    sub,            \* the Subscription row of each tenant
    invoices,       \* SubscriptionInvoice rows, numbered by BillingSequence
    payments,       \* SubscriptionPayment rows
    invoiceOf,      \* the invoice that carries a gateway order's id, 0 for none
    received,       \* status of each event's WebhookEvent row
    hook,           \* the request that handles each event
    cycle           \* where each run of the task is

vars == <<now, sub, invoices, payments, invoiceOf, received, hook, cycle>>

Occupied == {"trialing", "active", "past_due"}

NoGrace == -1

IdleRun == [pc |-> "idle", now |-> 0, lastSeen |-> 0, batch |-> {}, full |-> FALSE]

Init ==
    /\ now = 0
    /\ sub = [t \in Tenants |-> NoSubscription]
    /\ invoices = <<>>
    /\ payments = {}
    /\ invoiceOf = [o \in GatewayOrders |-> 0]
    /\ received = [e \in Events |-> "none"]
    /\ hook = [e \in Events |-> "idle"]
    /\ cycle = [c \in Cycles |-> IdleRun]

OpenInvoice(t, start, total) ==
    Append(invoices, [tenant |-> t, start |-> start, end |-> start + Period,
                      total |-> total, status |-> "open"])

(* Registration: a trial, or a first period that is already due.            *)
CreateSubscription(t) ==
    /\ sub[t] = NoSubscription
    /\ \E trial \in Trials, price \in Prices :
          LET row(status, end, grace) ==
                [status |-> status, price |-> price, start |-> now, end |-> end,
                 trialEnd |-> now + trial, grace |-> grace, autoRenew |-> TRUE]
          IN  IF trial > 0
              THEN /\ sub' = [sub EXCEPT ![t] =
                                 row("trialing", now + trial, now + trial + Grace)]
                   /\ UNCHANGED invoices
              ELSE /\ sub' = [sub EXCEPT ![t] = row("past_due", now + Period, now + Grace)]
                   /\ invoices' = OpenInvoice(t, now, price)
    /\ UNCHANGED <<now, payments, invoiceOf, received, hook, cycle>>

(* The owner cancels, from the period's end or at once.                      *)
Cancel(t) ==
    /\ sub[t].status \in Occupied
    /\ \E status \in {"canceled", "expired"} :
          sub' = [sub EXCEPT ![t].autoRenew = FALSE, ![t].status = status]
    /\ UNCHANGED <<now, invoices, payments, invoiceOf, received, hook, cycle>>

---------------------------------------------------------------------------
(* The billing cycle.                                                        *)

(* The ids after the last one seen, at most a batch of them.                 *)
Listed(last) ==
    LET ids == {t \in Tenants : t > last /\ sub[t].status \in Occupied}
    IN  {t \in ids : Cardinality({u \in ids : u < t}) < BatchSize}

WithBatch(run, batch) ==
    IF batch = {} THEN IdleRun
    ELSE [run EXCEPT !.pc = "process", !.batch = batch,
                     !.full = Cardinality(batch) = BatchSize]

StartCycle(c) ==
    /\ cycle[c].pc = "idle"
    /\ cycle' = [cycle EXCEPT ![c] = WithBatch([IdleRun EXCEPT !.now = now], Listed(0))]
    /\ UNCHANGED <<now, sub, invoices, payments, invoiceOf, received, hook>>

NextBatch(c) ==
    /\ cycle[c].pc = "list"
    /\ cycle' = [cycle EXCEPT ![c] = WithBatch(@, Listed(@.lastSeen))]
    /\ UNCHANGED <<now, sub, invoices, payments, invoiceOf, received, hook>>

OpenRenewal(t, start) ==
    /\ sub' = [sub EXCEPT ![t].status = "past_due", ![t].start = start,
                          ![t].end = start + Period, ![t].grace = start + Grace]
    /\ invoices' = OpenInvoice(t, start, sub[t].price)

Expire(t) ==
    /\ sub' = [sub EXCEPT ![t].status = "expired"]
    /\ UNCHANGED invoices

(* Renewal decided by what the run listed: the row is not looked at again.   *)
ProcessListed(t, time) ==
    \/ sub[t].status \in Occupied /\ OpenRenewal(t, sub[t].start)
    \/ sub[t].status \notin Occupied /\ Expire(t)

(* A cycle that has no branch for subscriptions past due.                    *)
ProcessForgetsPastDue(t, time) ==
    LET row == sub[t] IN
    \/ row.status = "trialing" /\ row.trialEnd <= time /\ OpenRenewal(t, row.trialEnd)
    \/ row.status = "active" /\ row.end <= time /\ row.autoRenew /\ OpenRenewal(t, row.end)
    \/ row.status = "active" /\ row.end <= time /\ ~row.autoRenew /\ Expire(t)
    \/ row.status = "past_due" /\ row.grace # NoGrace /\ row.grace <= time
       /\ UNCHANGED <<sub, invoices>>
    \/ row.status = "canceled" /\ row.end <= time /\ Expire(t)

(* _process, under the row's lock: time is the run's, the row is current.    *)
ProcessRow(t, time) ==
    LET row == sub[t] IN
    \/ row.status = "trialing" /\ row.trialEnd <= time /\ OpenRenewal(t, row.trialEnd)
    \/ row.status = "active" /\ row.end <= time /\ row.autoRenew /\ OpenRenewal(t, row.end)
    \/ row.status = "active" /\ row.end <= time /\ ~row.autoRenew /\ Expire(t)
    \/ row.status = "past_due" /\ row.grace # NoGrace /\ row.grace <= time /\ Expire(t)
    \/ row.status = "canceled" /\ row.end <= time /\ Expire(t)

NotDue(t, time) ==
    LET row == sub[t] IN
    /\ ~(row.status = "trialing" /\ row.trialEnd <= time)
    /\ ~(row.status \in {"active", "canceled"} /\ row.end <= time)
    /\ ~(row.status = "past_due" /\ row.grace # NoGrace /\ row.grace <= time)

Process(c) ==
    /\ cycle[c].pc = "process"
    /\ \E t \in cycle[c].batch :
          /\ \A u \in cycle[c].batch : t <= u
          /\ \/ ProcessRow(t, cycle[c].now)
             \/ NotDue(t, cycle[c].now) /\ UNCHANGED <<sub, invoices>>
          /\ LET rest == cycle[c].batch \ {t}
             IN  cycle' = [cycle EXCEPT ![c] =
                              IF rest # {} \/ @.full
                              THEN [@ EXCEPT !.batch = rest, !.lastSeen = t,
                                             !.pc = IF rest = {} THEN "list" ELSE "process"]
                              ELSE IdleRun]
    /\ UNCHANGED <<now, payments, invoiceOf, received, hook>>

CycleDies(c) ==
    /\ cycle[c].pc # "idle"
    /\ cycle' = [cycle EXCEPT ![c] = IdleRun]
    /\ UNCHANGED <<now, sub, invoices, payments, invoiceOf, received, hook>>

---------------------------------------------------------------------------
(* Webhooks.  An order at the gateway settles the invoice that carries its   *)
(* id; nothing in the program writes that id, so it is entered from outside. *)

LinkOrder(o, i) ==
    /\ invoiceOf[o] = 0
    /\ i \in DOMAIN invoices /\ \A p \in GatewayOrders : invoiceOf[p] # i
    /\ invoiceOf' = [invoiceOf EXCEPT ![o] = i]
    /\ UNCHANGED <<now, sub, invoices, payments, received, hook, cycle>>

(* A delivery, of which there may be any number, is recorded, unless it was  *)
(* processed before, and its invoice is looked up and read.                  *)
ReceiveEvent(e) ==
    /\ hook[e] = "idle" /\ received[e] # "processed"
    /\ LET i == invoiceOf[OrderOf[e]] IN
       \/ /\ i = 0
          /\ received' = [received EXCEPT ![e] = "ignored"]
          /\ UNCHANGED hook
       \/ /\ i # 0
          /\ received' = [received EXCEPT ![e] = IF @ = "none" THEN "received" ELSE @]
          /\ hook' = [hook EXCEPT ![e] =
                         IF invoices[i].status = "paid" THEN "record" ELSE "settle"]
    /\ UNCHANGED <<now, sub, invoices, payments, invoiceOf, cycle>>

(* SubscriptionPayment's constraints: a positive amount, and one row for a   *)
(* gateway payment.                                                          *)
PaymentAccepted(e) ==
    /\ invoices[invoiceOf[OrderOf[e]]].total > 0
    /\ PaymentOf[e] = NoPayment \/ \A p \in payments : p.payment # PaymentOf[e]

Activate(t, i) ==
    sub' = [sub EXCEPT ![t].start = invoices[i].start, ![t].end = invoices[i].end,
                       ![t].status = "active", ![t].grace = NoGrace]

(* mark_paid's writes, on the strength of what it read.                      *)
MarkPaid(e) ==
    /\ hook[e] = "settle"
    /\ LET i == invoiceOf[OrderOf[e]] IN
       \/ /\ PaymentAccepted(e)
          /\ payments' = payments \union {[invoice |-> i, payment |-> PaymentOf[e], event |-> e]}
          /\ invoices' = [invoices EXCEPT ![i].status = "paid"]
          /\ Activate(invoices[i].tenant, i)
          /\ hook' = [hook EXCEPT ![e] = "record"]
          /\ UNCHANGED received
       \/ /\ ~PaymentAccepted(e)
          /\ received' = [received EXCEPT ![e] = "failed"]
          /\ hook' = [hook EXCEPT ![e] = "idle"]
          /\ UNCHANGED <<payments, invoices, sub>>
    /\ UNCHANGED <<now, invoiceOf, cycle>>

RecordProcessed(e) ==
    /\ hook[e] = "record"
    /\ received' = [received EXCEPT ![e] = "processed"]
    /\ hook' = [hook EXCEPT ![e] = "idle"]
    /\ UNCHANGED <<now, sub, invoices, payments, invoiceOf, cycle>>

HookDies(e) ==
    /\ hook[e] # "idle"
    /\ hook' = [hook EXCEPT ![e] = "idle"]
    /\ UNCHANGED <<now, sub, invoices, payments, invoiceOf, received, cycle>>

Tick ==
    /\ now < MaxTime
    /\ \A e \in Events : hook[e] # "settle"
    /\ now' = now + 1
    /\ UNCHANGED <<sub, invoices, payments, invoiceOf, received, hook, cycle>>

CycleStep(c) == StartCycle(c) \/ NextBatch(c) \/ Process(c)
HookStep(e)  == ReceiveEvent(e) \/ MarkPaid(e) \/ RecordProcessed(e)

Next ==
    \/ \E t \in Tenants : CreateSubscription(t) \/ Cancel(t)
    \/ \E c \in Cycles : CycleStep(c) \/ CycleDies(c)
    \/ \E o \in GatewayOrders : \E i \in DOMAIN invoices : LinkOrder(o, i)
    \/ \E e \in Events : HookStep(e) \/ HookDies(e)
    \/ Tick

(* Celery Beat starts the task every hour.  A worker may die, but not every  *)
(* time it comes to the same tenant.  Requests from outside may stay away.   *)
Reaches(c, t) == Process(c) /\ t \in cycle[c].batch /\ \A u \in cycle[c].batch : t <= u

Fairness ==
    \A c \in Cycles :
        /\ WF_vars(StartCycle(c)) /\ SF_vars(NextBatch(c))
        /\ \A t \in Tenants : SF_vars(Reaches(c, t))

Spec == Init /\ [][Next]_vars /\ Fairness

---------------------------------------------------------------------------
(* Overlapping runs of the cycle, a run that dies and starts again, and      *)
(* payments in between never make a tenant owe a period twice.               *)
InvoicedOnce ==
    \A i, j \in DOMAIN invoices :
        invoices[i].tenant = invoices[j].tenant /\ invoices[i].start = invoices[j].start
            => i = j

(* An active subscription is in a period whose invoice is paid, and one that *)
(* is past due is in a period whose invoice is still open.                   *)
StatusMatchesInvoice ==
    \A t \in Tenants : sub[t].status \in {"active", "past_due"} =>
        \E i \in DOMAIN invoices :
            /\ invoices[i].tenant = t
            /\ invoices[i].start = sub[t].start /\ invoices[i].end = sub[t].end
            /\ invoices[i].status = IF sub[t].status = "active" THEN "paid" ELSE "open"

(* A tenant that does not pay within the grace period is cut off, whatever   *)
(* the cycle meets on its way.                                               *)
UnpaidIsCutOff ==
    \A t \in Tenants :
        (sub[t].status = "past_due" /\ sub[t].grace <= now) ~> (sub[t].status # "past_due")
=============================================================================
