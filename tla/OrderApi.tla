------------------------------ MODULE OrderApi ------------------------------
(***************************************************************************)
(* Concurrent HTTP requests on one order.  A view first reads the order    *)
(* without a lock, then decides, then calls a service; between those steps *)
(* other requests run (no ATOMIC_REQUESTS, PostgreSQL READ COMMITTED).     *)
(*                                                                         *)
(* A service that locks the order row for its whole transaction is one     *)
(* step, possible only while nobody holds the lock.  The checkout is two,  *)
(* because an UPDATE of the order's lines does not wait for that lock.     *)
(* The web checkout's 60-second duplicate guard only refuses requests and   *)
(* is left out.                                                            *)
(* Every unit costs one: the bill of an order is its number of units.      *)
(***************************************************************************)
EXTENDS Integers, FiniteSets, Sums

CONSTANTS
    Requests,       \* HTTP requests, each served once
    NoRequest,      \* nobody holds the row lock
    Views,          \* the views clients call, a subset of AllViews
    Lines,          \* order_item rows
    Amounts,        \* amounts clients pay or refund
    Keys,           \* idempotency keys
    NoKey           \* a request without one

AllViews == {"add", "bump", "clear", "pay", "web_pay", "refund", "reopen",
             "complete", "void", "cancel"}

ASSUME ApiAssumption ==
    /\ NoRequest \notin Requests
    /\ Views \subseteq AllViews
    /\ IsFiniteSet(Lines)
    /\ Amounts \subseteq Nat \ {0}
    /\ NoKey \notin Keys

VARIABLES
    row,            \* the order row: status, total, paid_amount
    qty,            \* quantity of each line, 0 before the line exists
    active,         \* lines with status ACTIVE
    captured,       \* sum of the Payment rows of kind PAYMENT
    refunded,       \* sum of the Payment rows of kind REFUND
    keyUsed,        \* idempotency keys some Payment row holds
    doc,            \* the invoice: status and total
    sold,           \* units of each line taken from stock
    lock,           \* the request whose transaction holds the order's row lock
    pc,             \* where each request is
    call,           \* what it asks for
    seen            \* what it read: the order row, the quantities of active lines

ledger == <<captured, refunded, keyUsed>>
db     == <<row, qty, active, ledger, doc, sold>>
worker == <<lock, pc, call, seen>>
vars   == <<db, worker>>

Cart == [i \in active |-> qty[i]]
Due(w) == w.total - w.paid
Snapshot == [row |-> row, cart |-> Cart]
Free == lock = NoRequest

Methods == {"card", "cash"}

\* What a request may ask for.
Calls ==
    [view : Views \intersect {"add", "clear", "reopen", "complete", "void", "cancel"}]
    \union [view : Views \intersect {"bump"}, line : Lines, by : {-1, 1}]
    \union [view : Views \intersect {"web_pay"}, method : Methods]
    \union [view : Views \intersect {"pay", "refund"}, method : Methods,
            amount : Amounts, key : Keys \union {NoKey}]

\* The order is open and has some lines of one unit each.
Init ==
    /\ active   \in SUBSET Lines
    /\ qty      = [i \in Lines |-> IF i \in active THEN 1 ELSE 0]
    /\ row      = [status |-> "open", total |-> Cardinality(active), paid |-> 0]
    /\ captured = 0
    /\ refunded = 0
    /\ keyUsed  = {}
    /\ doc      = [status |-> "none", total |-> 0]
    /\ sold     = [i \in Lines |-> 0]
    /\ lock     = NoRequest
    /\ pc       = [r \in Requests |-> "idle"]
    /\ call     = [r \in Requests |-> [view |-> "none"]]
    /\ seen     = [r \in Requests |-> [row |-> row, cart |-> <<>>]]

-----------------------------------------------------------------------------
(* What the services write *)

\* recalculate, run before the edit it should follow.
RecalculatedEarly == row' = [row EXCEPT !.total = SumOver(Cart)]

\* recalculate: the total follows the lines as they are after the edit.
Recalculated == row' = [row EXCEPT !.total = SumOver([i \in active' |-> qty'[i]])]

\* _recompute: paid_amount follows the Payment rows.
Recompute == row' = [row EXCEPT !.paid = captured' - refunded']

Kept == UNCHANGED db

Settled(w) ==
    /\ row' = [w EXCEPT !.status = "settled"]
    /\ doc' = [status |-> "issued", total |-> w.total]

-----------------------------------------------------------------------------
(* Steps of a request *)

At(r, p, V) == pc[r] = p /\ call[r].view \in V

Answer(r) == pc' = [pc EXCEPT ![r] = "done"] /\ UNCHANGED <<lock, call, seen>>

\* get_object: the view reads the order, without a lock.
Receive(r, c) ==
    /\ pc[r] = "idle"
    /\ call' = [call EXCEPT ![r] = c]
    /\ seen' = [seen EXCEPT ![r] = Snapshot]
    /\ pc'   = [pc EXCEPT ![r] = "read"]
    /\ UNCHANGED <<db, lock>>

\* The views that look at the order's status or dues refuse on what they read.
Refuse(r) ==
    LET w == seen[r].row
    IN  /\ \/ At(r, "read", {"clear", "reopen"}) /\ w.status # "open"
           \/ At(r, "read", {"cancel"}) /\ w.status = "settled"
           \/ At(r, "read", {"complete"}) /\ Due(w) > 0
        /\ Kept
        /\ Answer(r)

Add(r) ==
    /\ At(r, "read", {"add"}) /\ Free
    /\ \/ /\ row.status = "open"
          /\ \E i \in Lines : /\ qty[i] = 0
                              /\ qty' = [qty EXCEPT ![i] = 1]
                              /\ active' = active \union {i}
          /\ Recalculated
          /\ UNCHANGED <<ledger, doc, sold>>
       \/ (row.status # "open" \/ \A i \in Lines : qty[i] > 0) /\ Kept
    /\ Answer(r)

\* The + and - buttons: the view adds to the quantity it read, set_item_qty
\* stores the result; zero voids the line.
Bump(r) ==
    /\ At(r, "read", {"bump"}) /\ Free
    /\ LET i == call[r].line
           n == seen[r].cart[i] + call[r].by
       IN  IF row.status = "open" /\ i \in active /\ i \in DOMAIN seen[r].cart
           THEN /\ qty' = IF n > 0 THEN [qty EXCEPT ![i] = n] ELSE qty
                /\ active' = IF n > 0 THEN active ELSE active \ {i}
                /\ Recalculated
                /\ UNCHANGED <<ledger, doc, sold>>
           ELSE Kept
    /\ Answer(r)

\* clear_cart voids the lines, then reads what is left, then saves the whole
\* order row it read at the start, with the new total.
ClearLines(r) ==
    /\ At(r, "read", {"clear"}) /\ seen[r].row.status = "open"
    /\ active' = {}
    /\ pc' = [pc EXCEPT ![r] = "cleared"]
    /\ UNCHANGED <<row, qty, ledger, doc, sold, lock, call, seen>>

ClearRead(r) ==
    /\ At(r, "cleared", {"clear"})
    /\ seen' = [seen EXCEPT ![r].cart = Cart]
    /\ pc' = [pc EXCEPT ![r] = "recalculated"]
    /\ UNCHANGED <<db, lock, call>>

ClearSave(r) ==
    /\ At(r, "recalculated", {"clear"}) /\ Free
    /\ row' = [seen[r].row EXCEPT !.total = SumOver(seen[r].cart)]
    /\ UNCHANGED <<qty, active, ledger, doc, sold>>
    /\ Answer(r)

\* pay, when the amount is less than the due it read: add_payment.
PayPart(r) ==
    LET c == call[r]
    IN  /\ At(r, "read", {"pay"}) /\ Free
        /\ c.amount < Due(seen[r].row)
        /\ IF c.key \in keyUsed THEN Kept
           ELSE /\ captured' = captured + c.amount
                /\ keyUsed'  = keyUsed \union ({c.key} \ {NoKey})
                /\ UNCHANGED <<qty, active, refunded, doc, sold>>
                /\ Recompute
        /\ Answer(r)

\* Does the request go to complete_checkout_transaction?
ChecksOut(r) ==
    \/ At(r, "read", {"web_pay"})
    \/ At(r, "read", {"pay"}) /\ call[r].amount >= Due(seen[r].row)

Tendered(r) == IF call[r].view = "pay" THEN call[r].amount ELSE seen[r].row.total

\* The checkout's own refusals; an order already settled is answered as it is.
Sellable(w, cart, method, tendered) ==
    /\ w.status # "settled"
    /\ DOMAIN cart # {} /\ w.total > 0
    /\ method = "cash" => tendered >= w.total

\* A checkout that decides on the row the view read before it had the lock.
CheckoutBeginStale(r) ==
    /\ ChecksOut(r) /\ Free
    /\ Kept
    /\ IF Sellable(seen[r].row, Cart, call[r].method, Tendered(r))
       THEN /\ lock' = r
            /\ seen' = [seen EXCEPT ![r] = Snapshot]
            /\ pc'   = [pc EXCEPT ![r] = "locked"]
            /\ UNCHANGED call
       ELSE Answer(r)

\* The checkout locks the order and reads the lines it will sell.
CheckoutBegin(r) ==
    /\ ChecksOut(r) /\ Free
    /\ Kept
    /\ IF Sellable(row, Cart, call[r].method, Tendered(r))
       THEN /\ lock' = r
            /\ seen' = [seen EXCEPT ![r] = Snapshot]
            /\ pc'   = [pc EXCEPT ![r] = "locked"]
            /\ UNCHANGED call
       ELSE Answer(r)

\* A checkout that ends without ending its transaction.
CheckoutCommitKeepsLock(r) ==
    /\ pc[r] = "locked" /\ lock = r
    /\ Kept
    /\ Answer(r)

\* It captures the order's total, settles, takes the stock and commits; a void
\* order without an invoice rolls everything back.
CheckoutCommit(r) ==
    LET w == [row EXCEPT !.paid = captured + row.total - refunded]
    IN  /\ pc[r] = "locked" /\ lock = r
        /\ lock' = NoRequest
        /\ pc' = [pc EXCEPT ![r] = "done"]
        /\ UNCHANGED <<call, seen>>
        /\ IF doc.status = "none" /\ (row.status = "void" \/ Due(w) > 0) THEN Kept
           ELSE /\ captured' = captured + row.total
                /\ sold' = [i \in Lines |-> IF i \in DOMAIN seen[r].cart
                                            THEN sold[i] + seen[r].cart[i] ELSE sold[i]]
                /\ UNCHANGED <<qty, active, refunded, keyUsed>>
                /\ IF doc.status = "none" THEN Settled(w) ELSE row' = w /\ UNCHANGED doc

Refund(r) ==
    LET c == call[r]
    IN  /\ At(r, "read", {"refund"}) /\ Free
        /\ IF c.key \in keyUsed \/ c.amount > captured - refunded THEN Kept
           ELSE /\ refunded' = refunded + c.amount
                /\ keyUsed'  = keyUsed \union ({c.key} \ {NoKey})
                /\ UNCHANGED <<qty, active, captured, doc, sold>>
                /\ Recompute
        /\ Answer(r)

\* status = open: the check was made on what the view read, the save sets the
\* one column.
Reopen(r) ==
    /\ At(r, "read", {"reopen"}) /\ seen[r].row.status = "open" /\ Free
    /\ row' = [row EXCEPT !.status = "open"]
    /\ UNCHANGED <<qty, active, ledger, doc, sold>>
    /\ Answer(r)

\* settle_and_invoice without its look for an existing invoice.
SettleAgain(w) ==
    IF w.status = "void" \/ Due(w) > 0 THEN Kept
    ELSE Settled(row) /\ UNCHANGED <<qty, active, ledger, sold>>

\* settle_and_invoice, judging by the order row w.
Settle(w) ==
    IF doc.status # "none" \/ w.status = "void" \/ Due(w) > 0 THEN Kept
    ELSE Settled(row) /\ UNCHANGED <<qty, active, ledger, sold>>

\* A settlement that trusts the row the view read.
CompleteStale(r) ==
    /\ At(r, "read", {"complete"}) /\ Due(seen[r].row) <= 0 /\ Free
    /\ Settle(seen[r].row)
    /\ Answer(r)

\* The service judges by the row it has locked.
Complete(r) ==
    /\ At(r, "read", {"complete"}) /\ Due(seen[r].row) <= 0 /\ Free
    /\ Settle(row)
    /\ Answer(r)

\* void_order looks at the locked row again.
Void(r) ==
    /\ \/ At(r, "read", {"void"})
       \/ At(r, "read", {"cancel"}) /\ seen[r].row.status # "settled"
    /\ Free
    /\ IF row.status = "settled" THEN Kept
       ELSE /\ row' = [row EXCEPT !.status = "void"]
            /\ UNCHANGED <<qty, active, ledger, doc, sold>>
    /\ Answer(r)

Serve(r) ==
    \/ Refuse(r) \/ Add(r) \/ Bump(r)
    \/ ClearLines(r) \/ ClearRead(r) \/ ClearSave(r)
    \/ PayPart(r) \/ CheckoutBegin(r) \/ CheckoutCommit(r) \/ Refund(r)
    \/ Reopen(r) \/ Complete(r) \/ Void(r)

Next == \E r \in Requests : Serve(r) \/ \E c \in Calls : Receive(r, c)

Spec == Init /\ [][Next]_vars

\* The server runs every request it took to its answer.
FairSpec == Spec /\ \A r \in Requests : WF_vars(Serve(r))

-----------------------------------------------------------------------------
(* Properties *)

\* One order is invoiced once, for good and for no more than the money captured,
\* by whichever racing request comes first, also those that write back what they
\* read before (settle_and_invoice, clear_cart's stale save).
InvoiceFinal ==
    [][/\ doc.status # "none" => doc' = doc
       /\ doc'.status = "issued" => doc'.total <= captured']_vars

\* Requests that check again under the lock sell an order at most once: the
\* units taken from stock are none or those invoiced (checkout_service).
SoldIsInvoiced == SumOver(sold) \in {0, doc.total}

\* The stored total is that of the lines whenever no request is half done.
TotalFollowsLines ==
    (\A r \in Requests : pc[r] \in {"idle", "done"}) => row.total = SumOver(Cart)

\* Every request is answered: no refusal, error or roll back leaves the order
\* locked (transaction.atomic around every service).
EveryRequestAnswered == \A r \in Requests : pc[r] = "read" ~> pc[r] = "done"
=============================================================================
