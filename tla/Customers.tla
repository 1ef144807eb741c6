------------------------------ MODULE Customers ------------------------------
(***************************************************************************)
(* What a restaurant owes its customers and they owe it: loyalty points,   *)
(* wallet and store credit, each a balance in the customer's row beside a  *)
(* ledger of postings, and coupons with their redemptions.                 *)
(*                                                                         *)
(* A service looks for its idempotency key first, then takes the row's     *)
(* lock, checks, and writes balance and ledger in one transaction.  The    *)
(* REST resource of a customer or a coupon reads the whole row without a   *)
(* lock and later saves the whole row.                                     *)
(***************************************************************************)
EXTENDS Integers, FiniteSets, Sums

CONSTANTS
    Customers,
    Calls,          \* requests to a service
    Keys,           \* idempotency keys
    NoKey,
    Amounts,        \* points and money
    Limits,         \* values of credit_limit and of Coupon.max_uses
    PerCustomer,    \* Coupon.per_customer_limit
    Thresholds,     \* lifetime points from which each tier is reached
    MaxPosted       \* bound on the postings of a customer

VARIABLES
    customer,       \* rows of Customer
    ledger,         \* what each ledger of a customer adds up to
    coupon,         \* the row of Coupon
    redemptions,    \* rows of CouponRedemption, by customer
    posted,         \* how many rows of each ledger carry each key
    call,           \* the service call of each request
    form,           \* the row a PUT or PATCH has read, per resource
    postings,       \* number of postings, for MaxPosted
    overwritten     \* resources a stale form was saved over

vars == <<customer, ledger, coupon, redemptions, posted, call, form, postings, overwritten>>

Accounts == {"points", "wallet", "credit"}
Ledgers  == Accounts \union {"coupon"}
Services == [earn   |-> "points", redeem |-> "points", deposit |-> "wallet", pay |-> "wallet",
             charge |-> "credit", settle |-> "credit", coupon |-> "coupon"]

CouponRow == "coupon"
Resources == Customers \union {CouponRow}

NoCustomer == [live |-> FALSE]
NoForm == [none |-> TRUE]
NoCall == [service |-> "none"]

TierFor(lifetime) == Cardinality({t \in Thresholds : lifetime >= t})

Init ==
    /\ customer = [c \in Customers |-> NoCustomer]
    /\ ledger = [c \in Customers |-> [a \in Accounts |-> 0]]
    /\ \E max \in Limits : coupon = [uses |-> 0, max |-> max]
    /\ redemptions = [c \in Customers |-> 0]
    /\ posted = [l \in Ledgers |-> [k \in Keys |-> 0]]
    /\ call = [r \in Calls |-> NoCall]
    /\ form = [x \in Resources |-> NoForm]
    /\ postings = 0
    /\ overwritten = {}

---------------------------------------------------------------------------
CreateCustomer(c) ==
    /\ customer[c] = NoCustomer
    /\ \E limit \in Limits :
          customer' = [customer EXCEPT ![c] =
             [live |-> TRUE, points |-> 0, lifetime |-> 0, tier |-> TierFor(0),
              wallet |-> 0, credit |-> 0, limit |-> limit]]
    /\ UNCHANGED <<ledger, coupon, redemptions, posted, call, form, postings, overwritten>>

DeleteCustomer(c) ==
    /\ customer[c].live
    /\ customer' = [customer EXCEPT ![c].live = FALSE]
    /\ UNCHANGED <<ledger, coupon, redemptions, posted, call, form, postings, overwritten>>

(* PUT and PATCH: a request cannot set the balances, but the save writes     *)
(* every column as it was read.                                              *)
Row(x) == IF x = CouponRow THEN coupon ELSE customer[x]

OpenForm(x) ==
    /\ form[x] = NoForm
    /\ x \in Customers => customer[x].live
    /\ form' = [form EXCEPT ![x] = Row(x)]
    /\ UNCHANGED <<customer, ledger, coupon, redemptions, posted, call, postings, overwritten>>

SaveForm(x) ==
    /\ form[x] # NoForm
    /\ \E limit \in Limits :
          IF x = CouponRow
          THEN coupon' = [form[x] EXCEPT !.max = limit] /\ UNCHANGED customer
          ELSE /\ customer' = [customer EXCEPT ![x] = [form[x] EXCEPT !.limit = limit]]
               /\ UNCHANGED coupon
    /\ overwritten' = IF Row(x) = form[x] THEN overwritten ELSE overwritten \union {x}
    /\ form' = [form EXCEPT ![x] = NoForm]
    /\ UNCHANGED <<ledger, redemptions, posted, call, postings>>

---------------------------------------------------------------------------
(* The query for a key, and the unique constraint that repeats it at the     *)
(* posting itself.                                                           *)
KeyIsFree(key, l) == key # NoKey => posted[l][key] = 0
RowIsUnique(key, l) == KeyIsFree(key, l)

RecordKey(key, l) ==
    posted' = IF key = NoKey THEN posted ELSE [posted EXCEPT ![l][key] = @ + 1]

(* A call whose key is in the ledger is answered; any other goes on.         *)
Request(r) ==
    /\ call[r] = NoCall /\ postings < MaxPosted
    /\ \E c \in Customers, s \in DOMAIN Services, n \in Amounts, k \in Keys \union {NoKey} :
          /\ KeyIsFree(k, Services[s])
          /\ call' = [call EXCEPT ![r] =
                         [customer |-> c, service |-> s, amount |-> n, key |-> k]]
    /\ UNCHANGED <<customer, ledger, coupon, redemptions, posted, form, postings, overwritten>>

(* What each service checks and writes under the row's lock.                 *)
Allowed(row, s, n) ==
    CASE s = "redeem" -> row.points >= n
      [] s = "pay"    -> row.wallet >= n
      [] s = "charge" -> row.credit + n <= row.limit
      [] OTHER        -> TRUE

Posted(row, s, n) ==
    CASE s = "earn"    -> [row EXCEPT !.points = @ + n, !.lifetime = @ + n,
                                      !.tier = TierFor(row.lifetime + n)]
      [] s = "redeem"  -> [row EXCEPT !.points = @ - n]
      [] s = "deposit" -> [row EXCEPT !.wallet = @ + n]
      [] s = "pay"     -> [row EXCEPT !.wallet = @ - n]
      [] s = "charge"  -> [row EXCEPT !.credit = @ + n]
      [] s = "settle"  -> [row EXCEPT !.credit = IF n > @ THEN 0 ELSE @ - n]

Entry(s, n) == IF s \in {"redeem", "pay", "settle"} THEN -n ELSE n

(* Posting without the unique constraint that repeats the query.             *)
AcceptedByQuery(q) ==
    IF q.service = "coupon"
    THEN coupon.uses < coupon.max /\ redemptions[q.customer] < PerCustomer
    ELSE customer[q.customer].live /\ Allowed(customer[q.customer], q.service, q.amount)

(* What a service finds acceptable; anything else rolls back.                *)
Accepted(q) ==
    /\ RowIsUnique(q.key, Services[q.service])
    /\ IF q.service = "coupon"
       THEN coupon.uses < coupon.max /\ redemptions[q.customer] < PerCustomer
       ELSE customer[q.customer].live /\ Allowed(customer[q.customer], q.service, q.amount)

PostEntry(q) ==
    LET c == q.customer  a == Services[q.service] IN
    /\ a # "coupon"
    /\ customer' = [customer EXCEPT ![c] = Posted(@, q.service, q.amount)]
    /\ ledger' = [ledger EXCEPT ![c][a] = @ + Entry(q.service, q.amount)]
    /\ UNCHANGED <<coupon, redemptions>>

RedeemCoupon(q) ==
    /\ q.service = "coupon"
    /\ coupon' = [coupon EXCEPT !.uses = @ + 1]
    /\ redemptions' = [redemptions EXCEPT ![q.customer] = @ + 1]
    /\ UNCHANGED <<customer, ledger>>

Serve(r) ==
    /\ call[r] # NoCall
    /\ \/ /\ Accepted(call[r])
          /\ PostEntry(call[r]) \/ RedeemCoupon(call[r])
          /\ RecordKey(call[r].key, Services[call[r].service])
          /\ postings' = postings + 1
       \/ /\ ~Accepted(call[r])
          /\ UNCHANGED <<customer, ledger, coupon, redemptions, posted, postings>>
    /\ call' = [call EXCEPT ![r] = NoCall]
    /\ UNCHANGED <<form, overwritten>>

Next ==
    \/ \E c \in Customers : CreateCustomer(c) \/ DeleteCustomer(c)
    \/ \E x \in Resources : OpenForm(x) \/ SaveForm(x)
    \/ \E r \in Calls : Request(r) \/ Serve(r)

Spec == Init /\ [][Next]_vars

---------------------------------------------------------------------------
(* The services alone keep each balance at what its ledger says, however     *)
(* they overlap and repeat; a settlement above the debt is the exception,    *)
(* where the debt stops at nothing and the ledger goes on.                   *)
BalancesFollowLedgers ==
    \A c \in Customers : customer[c] # NoCustomer /\ c \notin overwritten =>
        /\ customer[c].points = ledger[c]["points"] /\ customer[c].points >= 0
        /\ customer[c].wallet = ledger[c]["wallet"] /\ customer[c].wallet >= 0
        /\ customer[c].credit >= ledger[c]["credit"]
        /\ customer[c].lifetime >= customer[c].points

(* A key is found in its ledger at most once: the query comes before the     *)
(* lock, and two calls that both find nothing still post one row.            *)
KeysPostedOnce == \A l \in Ledgers, k \in Keys : posted[l][k] <= 1

(* A coupon is not redeemed more often than it may be: by one customer in    *)
(* any case, in all as long as no stale form brought back an old count.      *)
CouponWithinLimits ==
    /\ \A c \in Customers : redemptions[c] <= PerCustomer
    /\ CouponRow \notin overwritten =>
          coupon.uses = SumOver(redemptions)

(* Balances, keys and coupons follow their ledgers under overlapping calls,  *)
(* repeated keys, deleted customers and forms saved late.                    *)
CountersFollowRows == BalancesFollowLedgers /\ KeysPostedOnce /\ CouponWithinLimits
=============================================================================
