---------------------------- MODULE MCBackground ----------------------------
(* What happens outside a restaurant's own screens: the outbox's tasks, the  *)
(* billing cycle beside the gateway's webhooks, and sign-ups beside the      *)
(* super admin.  They share no state, so each behaviour is one of one of     *)
(* them, and what is checked holds of all together.                          *)
EXTENDS Outbox, Sequences

CONSTANTS Tenants, Cycles, BatchSize, GatewayOrders, BillingEvents, OrderOf, PaymentOf,
          Trials, Grace, Period, Prices, MaxTime,
          Visitors, Emails, Names, NoPrice, PlanPrices, RowPrices, Coupons, Overrides,
          DiscountSets, Gst, MaxChanges

VARIABLES part, now, sub, invoices, payments, invoiceOf, received, hook, cycle,
          plan, trial, coupon, usages, nameOf, signup, workspace, override, discounts, changes,
          recreated, crossed

outboxVars == <<status, sweep, dispatchQ, handleQ, retries, consumed, effects, gaveUp,
                worker, faults>>
billingVars == <<now, sub, invoices, payments, invoiceOf, received, hook, cycle>>
signupVars == <<plan, trial, coupon, usages, nameOf, signup, workspace, override, discounts, changes,
                recreated, crossed>>

Billing == INSTANCE Subscriptions WITH Events <- BillingEvents

\* All events are about one order of the gateway and one payment of it.
AllOneOrder == [e \in BillingEvents |-> CHOOSE o \in GatewayOrders : TRUE]
AllOnePayment == [e \in BillingEvents |-> "pay_1"]

\* Half the price once, three off what costs four, half the price up to one, and a
\* coupon for customers of another plan.
HalfOnce == [kind |-> "percentage", value |-> 50, cap |-> NoPrice, least |-> 0, limit |-> 1,
             elsewhere |-> FALSE, existing |-> FALSE]
ThreeOff == [HalfOnce EXCEPT !.kind = "flat", !.value = 3, !.least = 4, !.limit = NoPrice]
FourCoupons == {HalfOnce, ThreeOff, [HalfOnce EXCEPT !.cap = 1, !.limit = NoPrice],
                [ThreeOff EXCEPT !.elsewhere = TRUE, !.existing = TRUE]}
NoneOrTwo == {{}, {[scope |-> "tenant", target |-> "other", kind |-> "flat", value |-> 1],
                   [scope |-> "forever", target |-> "other", kind |-> "percentage", value |-> 50]}}
RowOrNot == {NoPrice, 2}
FreeOrNot == {NoPrice, 0}

DifferentNames == [v \in Visitors |-> IF v = CHOOSE w \in Visitors : TRUE THEN "inn" ELSE "pub"]

Onboarding == INSTANCE Workspaces WITH
    Prices <- PlanPrices, Rules <- Coupons, Discounts <- DiscountSets

\* The gateway names the payment it reports, and an order there has one that succeeds.
ASSUME BillingAssumption ==
    /\ Billing!SubscriptionsAssumption
    /\ \A e \in BillingEvents : PaymentOf[e] # Billing!NoPayment
    /\ \A e, f \in BillingEvents : OrderOf[e] = OrderOf[f] => PaymentOf[e] = PaymentOf[f]

\* Prices and limits are no negative numbers.
ASSUME OffersAssumption ==
    PlanPrices \subseteq Nat /\ \A r \in Coupons : r.limit = NoPrice \/ r.limit \in Nat

\* Trials and discounts come with an edit; a plan with a row also has an override.  Only
\* with the first coupon and no row have the visitors' restaurants different names.
BackgroundInit ==
    /\ part \in {"outbox", "billing", "signup"}
    /\ Init /\ Billing!Init
    /\ Onboarding!Init /\ ~trial /\ discounts = {} /\ coupon.rule \in {HalfOnce, ThreeOff}
    /\ plan.row # NoPrice <=> override # NoPrice
    /\ plan.row # NoPrice => coupon.rule = HalfOnce
    /\ nameOf = IF coupon.rule = HalfOnce /\ plan.row = NoPrice THEN DifferentNames
                ELSE [v \in Visitors |-> "inn"]
    /\ part # "signup" => coupon.rule = ThreeOff

BackgroundNext ==
    \/ part = "outbox" /\ Next /\ UNCHANGED <<part, billingVars, signupVars>>
    \/ part = "billing" /\ Billing!Next /\ UNCHANGED <<part, outboxVars, signupVars>>
    \/ part = "signup" /\ Onboarding!Next /\ UNCHANGED <<part, outboxVars, billingVars>>

BackgroundSpec ==
    BackgroundInit /\ [][BackgroundNext]_<<part, outboxVars, billingVars, signupVars>>

\* Overlapping and dying runs of the billing cycle, and payments in between,
\* never make a tenant owe a period twice, nor leave a subscription in a period
\* whose invoice says otherwise (lifecycle.run_billing_cycle, mark_paid).
PeriodsAreInvoiced == Billing!InvoicedOnce /\ Billing!StatusMatchesInvoice

\* Overlapping sign-ups leave whole workspaces, each at the price its page showed, and
\* the exceptions are the listed ones (provision_workspace, create_subscription,
\* PricingEngine, the super admin's plan and coupon screens).
OffersAreKept == Onboarding!OffersAreKept

\* Every handler works or is given up unless a worker or the broker failed,
\* where workers go on with what they took (dispatch_event_to_handlers).
HandledWhereFair == part = "outbox" /\ Fairness => HandledUnlessFault

\* A tenant that does not pay in time is cut off, where Celery Beat keeps on
\* starting the cycle (lifecycle._process).
UnpaidIsCutOff == part = "billing" /\ Billing!Fairness => Billing!UnpaidIsCutOff
=============================================================================
