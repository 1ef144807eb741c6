----------------------------- MODULE Workspaces -----------------------------
(***************************************************************************)
(* How a restaurant gets its workspace, and at what price: the sign-up     *)
(* wizard with its coupon dialog, the transaction that provisions user,    *)
(* tenant and subscription, the super admin's plans and coupons, and the   *)
(* upgrade screen with its own pricing.                                    *)
(*                                                                         *)
(* There is one plan and one coupon, and a visitor keeps to one restaurant *)
(* name.  Prices are whole units; the wizard's other columns, the          *)
(* configuration row and the tables a workspace starts with belong to it   *)
(* alone and are left out.                                                 *)
(***************************************************************************)
EXTENDS Integers, FiniteSets

CONSTANTS
    Visitors,       \* sign-ups under way at once
    Emails,         \* addresses visitors enter; a tenant is named by its owner's
    Names,          \* restaurants' names
    Prices,         \* what a plan's sale price may be
    NoPrice,        \* where a plan has no PlanPrice row, a coupon no cap
    RowPrices,      \* PlanPrice rows of the interval, NoPrice included
    Rules,          \* what a coupon may say
    Overrides,      \* a tenant's own price, NoPrice included
    Discounts,      \* the subscription discounts on file: sets of records
    Gst,            \* the plan's percentage
    MaxChanges      \* edits by the super admin before a behaviour ends

VARIABLES
    plan,           \* the row: here, its status, sale price and PlanPrice row
    trial,          \* sign-ups start with a trial
    coupon, usages, \* the coupon's row, and the tenants its usages name
    nameOf,         \* the restaurant a visitor signs up
    signup,         \* where a visitor is
    workspace,      \* what was committed
    override, discounts,
    changes,
    recreated,      \* the coupon was edited or deleted: its limit starts anew
    crossed         \* a usage was committed beside a sign-up that had counted

vars == <<plan, trial, coupon, usages, nameOf, signup, workspace, override, discounts,
          changes, recreated, crossed>>

Away == [step |-> "away"]

Init ==
    /\ plan \in [here : {TRUE}, status : {"public"}, price : Prices, row : RowPrices]
    /\ trial \in BOOLEAN
    /\ coupon \in [here : {TRUE}, active : {TRUE}, rule : Rules] /\ usages = {}
    /\ nameOf \in [Visitors -> Names]
    /\ signup = [v \in Visitors |-> Away] /\ workspace = {}
    /\ override \in Overrides /\ discounts \in Discounts
    /\ changes = 0 /\ recreated = FALSE /\ crossed = FALSE

Least(a, b) == IF a < b THEN a ELSE b
AtLeastZero(n) == IF n < 0 THEN 0 ELSE n

-----------------------------------------------------------------------------
(* Coupons and prices. *)

\* is_valid_now: the minimum counts only where an amount is given, `existing` only
\* where the caller says what the customer is.
IsValidNow(amounts, status) ==
    /\ coupon.active
    /\ coupon.rule.limit # NoPrice => Cardinality(usages) < coupon.rule.limit
    /\ \A a \in amounts : a >= coupon.rule.least
    /\ coupon.rule.existing => status # "new"

Deduction(rule, amount) ==
    IF rule.kind = "flat" THEN rule.value ELSE (amount * rule.value) \div 100

Capped(rule, amount) ==
    IF rule.kind = "percentage" /\ rule.cap # NoPrice
    THEN Least(Deduction(rule, amount), rule.cap) ELSE Deduction(rule, amount)

\* The dialog's check, and what the page then shows.
DialogAccepts ==
    /\ coupon.here /\ IsValidNow({plan.price}, "new")
    /\ ~coupon.rule.elsewhere
DialogPrice == AtLeastZero(plan.price - Deduction(coupon.rule, plan.price))

\* _plan_and_price, and create_subscription's deduction.
SignupAmount == IF plan.row # NoPrice THEN plan.row ELSE plan.price
SignupDeduction(withCoupon) ==
    IF withCoupon /\ coupon.here /\ IsValidNow({SignupAmount}, "new")
    THEN Capped(coupon.rule, SignupAmount) ELSE 0

\* Anything valid for a tenant but meant for another tenant or plan is left out, if
\* its scope says so.  The screen stores scopes that never do.
IsValidFor(discount, tenant) ==
    /\ discount.scope = "tenant" => discount.target = tenant
    /\ discount.scope = "plan" => discount.target = "plan"

\* calculate_effective_price, where a coupon may be used once by each tenant.
EngineAccepts(tenant, amount) ==
    /\ amount > 0 /\ coupon.here /\ IsValidNow({}, "unknown")
    /\ ~coupon.rule.elsewhere /\ tenant \notin usages

EffectivePrice(tenant, withCoupon) ==
    LET base == IF override # NoPrice THEN override ELSE plan.price
        valid == {d \in discounts : IsValidFor(d, tenant)}
        discounted ==
            IF override = NoPrice /\ base > 0 /\ valid # {}
            THEN {AtLeastZero(base - Deduction(d, base)) : d \in valid} ELSE {base}
        reduced == {IF withCoupon /\ EngineAccepts(tenant, p)
                    THEN AtLeastZero(p - Deduction(coupon.rule, p)) ELSE p : p \in discounted}
    IN {[before |-> p, total |-> p + (p * Gst) \div 100] : p \in reduced}

-----------------------------------------------------------------------------
(* A sign-up. *)

shop == <<plan, trial, coupon, nameOf, override, discounts>>
books == <<usages, workspace, recreated>>

\* The wizard's third step; a coupon the dialog refuses is not submitted.
ChoosePlan(v, e, withCoupon) ==
    /\ signup[v] = Away /\ plan.here /\ plan.status = "public"
    /\ withCoupon => DialogAccepts
    /\ signup' = [signup EXCEPT ![v] =
            [step |-> "form", email |-> e, coupon |-> withCoupon, excused |-> FALSE,
             shown |-> IF withCoupon THEN DialogPrice ELSE plan.price]]
    /\ UNCHANGED <<shop, books, changes, crossed>>

TakenEmails == {w.email : w \in workspace}

FormIsValid(v) ==
    /\ plan.here /\ plan.status = "public"
    /\ signup[v].email \notin TakenEmails
    /\ signup[v].coupon => coupon.here /\ IsValidNow({}, "new")

Submit(v) ==
    /\ signup[v].step = "form"
    /\ signup' = [signup EXCEPT ![v] = IF FormIsValid(v) THEN [@ EXCEPT !.step = "user"] ELSE Away]
    /\ UNCHANGED <<shop, books, changes, crossed>>

Others(v, steps) == {u \in Visitors \ {v} : signup[u].step \in steps}
AfterUser == {"slug", "tenant", "plan", "subscribed"}

\* The insert waits for an open transaction with the same address; a committed one is
\* a ProvisioningError.
CreateUser(v) ==
    /\ signup[v].step = "user"
    /\ \A u \in Others(v, AfterUser) : signup[u].email # signup[v].email
    /\ signup' = [signup EXCEPT ![v] =
            IF @.email \in TakenEmails THEN Away ELSE [@ EXCEPT !.step = "slug"]]
    /\ UNCHANGED <<shop, books, changes, crossed>>

TakenSlugs == {w.slug : w \in workspace}

\* The plain name's slug is number 0, then come suffixes.
UniqueTenantSlug(v) ==
    /\ signup[v].step = "slug"
    /\ LET free == {n \in 0..Cardinality(workspace) : <<nameOf[v], n>> \notin TakenSlugs} IN
        signup' = [signup EXCEPT ![v] =
            [step |-> "tenant", email |-> @.email, coupon |-> @.coupon, excused |-> @.excused,
             shown |-> @.shown,
             slug |-> <<nameOf[v], CHOOSE n \in free : \A m \in free : n <= m>>]]
    /\ UNCHANGED <<shop, books, changes, crossed>>

\* Without the index the candidate is only as unique as it was when it was read.
CreateTenantUnchecked(v) ==
    /\ signup[v].step = "tenant"
    /\ signup' = [signup EXCEPT ![v].step = "plan"]
    /\ UNCHANGED <<shop, books, changes, crossed>>

\* The unique index: the insert waits, then fails with everything before it.
CreateTenant(v) ==
    /\ signup[v].step = "tenant"
    /\ \A u \in Others(v, {"plan", "subscribed"}) : signup[u].slug # signup[v].slug
    /\ signup' = [signup EXCEPT ![v] =
            IF @.slug \in TakenSlugs THEN Away ELSE [@ EXCEPT !.step = "plan"]]
    /\ UNCHANGED <<shop, books, changes, crossed>>

\* The usage is recorded, and the first invoice drawn up, only without a trial.
CreateSubscription(v) ==
    /\ signup[v].step = "plan"
    /\ signup' = [signup EXCEPT ![v] =
            IF ~plan.here \/ plan.status = "inactive" THEN Away
            ELSE LET deducted == SignupDeduction(@.coupon) IN
                [step |-> "subscribed", email |-> @.email, slug |-> @.slug, shown |-> @.shown,
                 charged |-> AtLeastZero(SignupAmount - deducted), deducted |-> deducted,
                 trial |-> trial,
                 excused |-> @.excused \/ plan.row # NoPrice
                                \/ Capped(coupon.rule, SignupAmount) # Deduction(coupon.rule, SignupAmount)]]
    /\ UNCHANGED <<shop, books, changes, crossed>>

Excused(who) ==
    [v \in Visitors |-> IF v \in who /\ signup[v].step \notin {"away", "subscribed"}
                        THEN [signup[v] EXCEPT !.excused = TRUE] ELSE signup[v]]

\* Tables and the owner's membership follow, then the transaction commits.
CommitWorkspace(v) ==
    /\ signup[v].step = "subscribed"
    /\ workspace' = workspace \union
            {[c \in {"email", "slug", "shown", "charged", "deducted", "trial", "excused"} |-> signup[v][c]]}
    /\ LET uses == signup[v].deducted > 0 /\ ~signup[v].trial IN
        /\ usages' = IF uses THEN usages \union {signup[v].email} ELSE usages
        /\ crossed' = (crossed \/ (uses /\ Others(v, {"subscribed"}) # {}))
        /\ signup' = [Excused(IF uses THEN Visitors ELSE {}) EXCEPT ![v] = Away]
    /\ UNCHANGED <<shop, changes, recreated>>

\* An error or a dead worker: nothing of the transaction stays.
RollBack(v) ==
    /\ signup[v].step # "away"
    /\ signup' = [signup EXCEPT ![v] = Away]
    /\ UNCHANGED <<shop, books, changes, crossed>>

-----------------------------------------------------------------------------
(* The super admin's screens. *)

Edit == changes < MaxChanges /\ changes' = changes + 1 /\ UNCHANGED crossed

\* A new plan has no PlanPrice row; an edit leaves the row as it is.
SavePlan ==
    /\ Edit
    /\ \E price \in Prices, status \in {"public", "hidden", "inactive"} :
        plan' = [here |-> TRUE, status |-> status, price |-> price,
                 row |-> IF plan.here THEN plan.row ELSE NoPrice]
    /\ signup' = Excused(Visitors)
    /\ UNCHANGED <<trial, coupon, nameOf, override, discounts, books>>

\* The subscriptions' foreign key protects the plan, whatever was counted before; an
\* open sign-up's holds the delete up.
DeletePlan ==
    /\ Edit
    /\ plan.here /\ workspace = {} /\ \A v \in Visitors : signup[v].step # "subscribed"
    /\ plan' = [plan EXCEPT !.here = FALSE]
    /\ UNCHANGED <<trial, coupon, nameOf, override, discounts, signup, books>>

SaveTrialConfig ==
    /\ Edit /\ trial' = ~trial
    /\ UNCHANGED <<plan, coupon, nameOf, override, discounts, signup, books>>

\* One form creates and edits; the toggle saves one column.
SaveCoupon ==
    /\ Edit
    /\ \/ \E rule \in Rules, on \in BOOLEAN :
            coupon' = [here |-> TRUE, active |-> on, rule |-> rule]
       \/ coupon.here /\ coupon' = [coupon EXCEPT !.active = ~@]
    /\ recreated' = TRUE /\ signup' = Excused(Visitors)
    /\ UNCHANGED <<plan, trial, nameOf, override, discounts, usages, workspace>>

\* Usages go with their coupon (CASCADE).
DeleteCoupon ==
    /\ Edit
    /\ coupon.here /\ coupon' = [coupon EXCEPT !.here = FALSE]
    /\ usages' = {} /\ recreated' = TRUE /\ signup' = Excused(Visitors)
    /\ UNCHANGED <<plan, trial, nameOf, override, discounts, workspace>>

SaveDiscount ==
    /\ Edit /\ \E set \in Discounts : discounts' = set
    /\ UNCHANGED <<plan, trial, coupon, nameOf, override, signup, books>>

-----------------------------------------------------------------------------
(* The upgrade screen: a quote, then either the gateway's payment or the form.         *)

\* Raises before it writes: it hands the engine an argument the engine does not know.
RenewOrUpgrade == UNCHANGED vars

Offered(tenant) == tenant \in TakenEmails /\ plan.here /\ plan.status # "inactive"

\* The screen, its coupon check and the gateway's order all answer with a price.
Quote(tenant, withCoupon) ==
    /\ Offered(tenant) /\ EffectivePrice(tenant, withCoupon) # {}
    /\ UNCHANGED vars

Upgrade(tenant) == Offered(tenant) /\ RenewOrUpgrade

\* The signature is right and the money taken; the answer is that nothing was activated.
VerifyPayment(tenant) ==
    /\ Offered(tenant) /\ \E price \in EffectivePrice(tenant, TRUE) : price.total > 0
    /\ RenewOrUpgrade

-----------------------------------------------------------------------------
Next ==
    \/ \E v \in Visitors :
        \/ \E e \in Emails, withCoupon \in BOOLEAN : ChoosePlan(v, e, withCoupon)
        \/ Submit(v) \/ CreateUser(v) \/ UniqueTenantSlug(v) \/ CreateTenant(v)
        \/ CreateSubscription(v) \/ CommitWorkspace(v) \/ RollBack(v)
    \/ SavePlan \/ DeletePlan \/ SaveTrialConfig \/ SaveCoupon \/ DeleteCoupon \/ SaveDiscount
    \/ \E tenant \in Emails :
        \/ \E withCoupon \in BOOLEAN : Quote(tenant, withCoupon)
        \/ Upgrade(tenant) \/ VerifyPayment(tenant)

Spec == Init /\ [][Next]_vars

-----------------------------------------------------------------------------
\* A committed workspace has its address, its slug and its plan for itself.
WorkspacesAreWhole ==
    /\ workspace # {} => plan.here
    /\ \A w, x \in workspace : w.email = x.email \/ w.slug = x.slug => w = x

\* Who signs up pays what the page showed, unless the plan or the coupon changed or was
\* used up in between, the price has a row of its own, or a cap the page does not know
\* bites; every deduction is on the coupon's account, except a trial's.
ShownIsCharged ==
    \A w \in workspace :
        /\ w.charged = w.shown \/ w.excused
        /\ ~recreated => (w.email \in usages <=> w.deducted > 0 /\ ~w.trial)

\* The limit holds unless two sign-ups with the coupon were under way at once.
LimitHolds ==
    recreated \/ crossed \/ coupon.rule.limit = NoPrice
        \/ Cardinality(usages) <= coupon.rule.limit

\* Where no override, discount, row or cap tells them apart, and both take the coupon,
\* the upgrade screen and the sign-up deduct the same.
PricesAgree ==
    \A tenant \in Emails :
        /\ override = NoPrice /\ plan.row = NoPrice
        /\ \A d \in discounts : ~IsValidFor(d, tenant)
        /\ Capped(coupon.rule, plan.price) = Deduction(coupon.rule, plan.price)
        /\ EngineAccepts(tenant, plan.price) /\ SignupDeduction(TRUE) > 0
        => \A p \in EffectivePrice(tenant, TRUE) :
                p.before = AtLeastZero(SignupAmount - SignupDeduction(TRUE))

OffersAreKept == WorkspacesAreWhole /\ ShownIsCharged /\ LimitHolds /\ PricesAgree
=============================================================================
