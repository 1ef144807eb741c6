------------------------------- MODULE Orders -------------------------------
(***************************************************************************)
(* The point-of-sale order engine of src/contexts/ordering/services: carts, *)
(* bills, split and merge, payments, kitchen routing, settlement, refunds.  *)
(*                                                                         *)
(* Every operation here is one database transaction that first takes the   *)
(* row lock of its order (SELECT ... FOR UPDATE), so it is one action; an   *)
(* exception rolls the transaction back, so a refused call is no step.     *)
(* The HTTP layer, which reads orders without that lock, is OrderApi.      *)
(*                                                                         *)
(* Money is counted in whole currency units and stock in hundredths; GST   *)
(* and paisa rounding are left to the bill calculator, no property here     *)
(* depends on them.  order.due_amount is written only together with total  *)
(* or paid_amount and always as their difference, so it is derived (Due).  *)
(***************************************************************************)
EXTENDS Integers, FiniteSets, Sums, OrderStages

CONSTANTS
    OrderIds,       \* rows of the order table that may come to exist
    LineIds,        \* rows of the order_item table
    NoOrder,        \* a null foreign key to an order
    Keys,           \* client idempotency keys
    NoKey,          \* the empty key: such a payment is never deduplicated
    Tracked,        \* lines whose product has an inventory item
    Quantities,     \* quantities a client asks for
    Prices,         \* unit prices in the catalog
    Deltas,         \* sums of modifier price deltas, per unit
    DiscountValues, \* values a discount may take, flat or percent
    ChargeRates,    \* service charge rates, percent
    Amounts,        \* payment and refund amounts a client asks for
    MaxCaptured     \* bound on the money one order captures

ASSUME OrdersAssumption ==
    /\ NoOrder \notin OrderIds
    /\ IsFiniteSet(LineIds)
    /\ NoKey \notin Keys
    /\ Tracked \subseteq LineIds
    /\ Quantities \subseteq Nat \ {0}
    /\ Prices \subseteq Nat
    /\ Deltas \subseteq Nat
    /\ DiscountValues \subseteq Nat
    /\ ChargeRates \subseteq Nat
    /\ Amounts \subseteq Nat \ {0}
    /\ MaxCaptured \in Nat

VARIABLES
    status,         \* Order.status, or "none" before the row exists
    line,           \* the order_item rows
    discount,       \* Order.discount_type and Order.discount_value
    rate,           \* Order.service_charge_rate
    total,          \* Order.total, the stored bill snapshot
    paid,           \* Order.paid_amount, the stored sum of the payments
    mergedInto,     \* Order.merged_into
    captured,       \* sum of the order's Payment rows of kind PAYMENT
    refunded,       \* sum of the order's Payment rows of kind REFUND
    refundRows,     \* sum of the order's COMPLETED Refund rows
    keyUsed,        \* idempotency keys some Payment row holds
    invStatus,      \* status of the order's Invoice, or "none"
    invTotal,       \* total frozen on that invoice
    stockOut,       \* stock of the line's product the order holds, in 1/100
    modOut          \* stock of the line's modifiers consumed, in units

cart  == <<line, discount, rate>>
money == <<captured, refunded, refundRows, keyUsed>>
bill  == <<total, paid>>
doc   == <<invStatus, invTotal>>
stock == <<stockOut, modOut>>
vars  == <<status, cart, bill, mergedInto, money, doc, stock>>

-----------------------------------------------------------------------------
(* Rows *)

OrderStatus   == {"none", "open", "settled", "void"}
InvoiceStatus == {"none", "issued", "void"}
Discount == [type : {"none", "flat", "percent"}, value : Nat]
NoDiscount == [type |-> "none", value |-> 0]

\* kitchen is the quantity printed on the line's KOT item, 0 while kot is null.
Line == [order : OrderIds \union {NoOrder}, qty : Nat, price : Nat, delta : Nat,
         modTotal : Nat, live : BOOLEAN, kitchen : Nat]

NoLine == [order |-> NoOrder, qty |-> 0, price |-> 0, delta |-> 0,
           modTotal |-> 0, live |-> FALSE, kitchen |-> 0]

LiveLines(ln, o) == {i \in LineIds : ln[i].order = o /\ ln[i].live}

-----------------------------------------------------------------------------
(* The bill *)

\* n / d to the nearest integer, halves up (ROUND_HALF_UP).
HalfUp(n, d) == (2 * n + d) \div (2 * d)

LineTotal(l) == l.qty * l.price + l.modTotal

Subtotal(ln, o) == SumOver([i \in LiveLines(ln, o) |-> LineTotal(ln[i])])

DiscountAmount(d, subtotal) ==
    LET asked == CASE d.type = "percent" -> HalfUp(subtotal * d.value, 100)
                   [] d.type = "flat"    -> d.value
                   [] OTHER              -> 0
    IN  IF asked < subtotal THEN asked ELSE subtotal

\* The total of order o for lines ln, discount d and service charge rate r.
Bill(ln, o, d, r) ==
    LET subtotal == Subtotal(ln, o)
        taxable  == subtotal - DiscountAmount(d, subtotal)
    IN  taxable + HalfUp(taxable * r, 100)

\* A recalculation that still sees the lines as they were before the edit.
RecalculateStale(S) ==
    total' = [o \in OrderIds |->
                IF o \in S THEN Bill(line, o, discount'[o], rate'[o]) ELSE total[o]]

\* recalculate(order) for every order of S, against the lines as they now are.
Recalculate(S) ==
    total' = [o \in OrderIds |->
                IF o \in S THEN Bill(line', o, discount'[o], rate'[o]) ELSE total[o]]

Due(o) == total[o] - paid[o]
NetPaid(o) == captured[o] - refunded[o]

-----------------------------------------------------------------------------
Init ==
    /\ status     = [o \in OrderIds |-> "none"]
    /\ line       = [i \in LineIds |-> NoLine]
    /\ discount   = [o \in OrderIds |-> NoDiscount]
    /\ rate       = [o \in OrderIds |-> 0]
    /\ total      = [o \in OrderIds |-> 0]
    /\ paid       = [o \in OrderIds |-> 0]
    /\ mergedInto = [o \in OrderIds |-> NoOrder]
    /\ captured   = [o \in OrderIds |-> 0]
    /\ refunded   = [o \in OrderIds |-> 0]
    /\ refundRows = [o \in OrderIds |-> 0]
    /\ keyUsed    = {}
    /\ invStatus  = [o \in OrderIds |-> "none"]
    /\ invTotal   = [o \in OrderIds |-> 0]
    /\ stockOut   = [i \in LineIds |-> 0]
    /\ modOut     = [i \in LineIds |-> 0]

-----------------------------------------------------------------------------
(* The cart *)

CreateOrder(o, r) ==
    /\ status[o] = "none"
    /\ status' = [status EXCEPT ![o] = "open"]
    /\ rate'   = [rate EXCEPT ![o] = r]
    /\ UNCHANGED <<line, discount, bill, mergedInto, money, doc, stock>>

AddItem(o, i, n, p, d) ==
    /\ status[o] = "open"
    /\ line[i].order = NoOrder
    /\ line' = [line EXCEPT ![i] =
                  [order |-> o, qty |-> n, price |-> p, delta |-> d,
                   modTotal |-> d * n, live |-> TRUE, kitchen |-> 0]]
    /\ UNCHANGED <<status, discount, rate, paid, mergedInto, money, doc, stock>>
    /\ Recalculate({o})

\* set_item_qty without its check of the order's status.
SetItemQtyAnyStatus(o, i, n) ==
    /\ i \in LiveLines(line, o)
    /\ line' = [line EXCEPT ![i] =
                  IF n = 0 THEN [@ EXCEPT !.live = FALSE]
                           ELSE [@ EXCEPT !.qty = n, !.modTotal = line[i].delta * n]]
    /\ UNCHANGED <<status, discount, rate, paid, mergedInto, money, doc, stock>>
    /\ Recalculate({o})

\* A quantity of zero voids the line.
SetItemQty(o, i, n) ==
    /\ status[o] = "open"
    /\ i \in LiveLines(line, o)
    /\ line' = [line EXCEPT ![i] =
                  IF n = 0 THEN [@ EXCEPT !.live = FALSE]
                           ELSE [@ EXCEPT !.qty = n, !.modTotal = line[i].delta * n]]
    /\ UNCHANGED <<status, discount, rate, paid, mergedInto, money, doc, stock>>
    /\ Recalculate({o})

UpdateItemModifiers(o, i, d) ==
    /\ status[o] = "open"
    /\ i \in LiveLines(line, o)
    /\ line' = [line EXCEPT ![i].delta = d, ![i].modTotal = d * line[i].qty]
    /\ UNCHANGED <<status, discount, rate, paid, mergedInto, money, doc, stock>>
    /\ Recalculate({o})

\* No condition on the order's status, nor on the line's.
VoidItem(o, i) ==
    /\ status[o] # "none"
    /\ line[i].order = o
    /\ line' = [line EXCEPT ![i].live = FALSE]
    /\ UNCHANGED <<status, discount, rate, paid, mergedInto, money, doc, stock>>
    /\ Recalculate({o})

ApplyDiscount(o, d) ==
    /\ status[o] = "open"
    /\ discount' = [discount EXCEPT ![o] = d]
    /\ UNCHANGED <<status, line, rate, paid, mergedInto, money, doc, stock>>
    /\ Recalculate({o})

\* No condition on the order's status.
SetServiceCharge(o, r) ==
    /\ status[o] # "none"
    /\ rate' = [rate EXCEPT ![o] = r]
    /\ UNCHANGED <<status, line, discount, paid, mergedInto, money, doc, stock>>
    /\ Recalculate({o})

\* void_order without its refusal of settled orders.
VoidOrderAnyStatus(o) ==
    /\ status[o] # "none"
    /\ status' = [status EXCEPT ![o] = "void"]
    /\ UNCHANGED <<cart, bill, mergedInto, money, doc, stock>>

VoidOrder(o) ==
    /\ status[o] \in {"open", "void"}
    /\ status' = [status EXCEPT ![o] = "void"]
    /\ UNCHANGED <<cart, bill, mergedInto, money, doc, stock>>

-----------------------------------------------------------------------------
(* Split and merge *)

\* Units left on the source line of which n were moved.
RemainderKept(qty, n) == qty
Remainder(qty, n) == qty - n

\* The row a partial split creates on order t for n units of line l: the whole
\* modifiers_total of l, no modifier rows and no KOT.
CloneOf(l, t, n) ==
    [order |-> t, qty |-> n, price |-> l.price, delta |-> 0,
     modTotal |-> l.modTotal, live |-> TRUE, kitchen |-> 0]

\* Move the lines F of order o whole to the new order t, and n units of each
\* line of DOMAIN part, part[i] = <<n, row of the clone>>.
SplitOrder(o, t, F, part) ==
    LET P == DOMAIN part
        clones == {part[i][2] : i \in P}
        origin(c) == CHOOSE i \in P : part[i][2] = c
    IN
    /\ status[o] = "open"
    /\ status[t] = "none"
    /\ F \union P \subseteq LiveLines(line, o)
    /\ F \intersect P = {}
    /\ \A i \in P : part[i][1] < line[i].qty /\ line[part[i][2]].order = NoOrder
    /\ \A i, j \in P : part[i][2] = part[j][2] => i = j
    /\ line' = [i \in LineIds |->
                  CASE i \in F -> [line[i] EXCEPT !.order = t]
                    [] i \in P -> [line[i] EXCEPT !.qty = Remainder(@, part[i][1])]
                    [] i \in clones ->
                         CloneOf(line[origin(i)], t, part[origin(i)][1])
                    [] OTHER -> line[i]]
    /\ status' = [status EXCEPT ![t] = "open"]
    /\ rate'   = [rate EXCEPT ![t] = rate[o]]
    /\ UNCHANGED <<discount, paid, mergedInto, money, doc, stock>>
    /\ Recalculate({o, t})

\* The lines after those of the orders of S moved to t: all active ones, or (in
\* the first form, a filter too many) only those the kitchen does not have yet.
MergedUnsentLines(t, S) ==
    [i \in LineIds |-> IF line[i].order \in S /\ line[i].live /\ line[i].kitchen = 0
                      THEN [line[i] EXCEPT !.order = t] ELSE line[i]]
MergedLines(t, S) ==
    [i \in LineIds |-> IF line[i].order \in S /\ line[i].live
                      THEN [line[i] EXCEPT !.order = t] ELSE line[i]]

\* Merge the orders of S into t.  (The code lets t appear among its sources and
\* then undoes that source's closing when it saves t last: the same as S \ {t}.)
MergeOrders(t, S) ==
    /\ status[t] = "open"
    /\ t \notin S
    /\ \A s \in S : status[s] = "open"
    /\ line' = MergedLines(t, S)
    /\ mergedInto' = [o \in OrderIds |-> IF o \in S THEN t ELSE mergedInto[o]]
    /\ status'     = [o \in OrderIds |-> IF o \in S THEN "void" ELSE status[o]]
    /\ UNCHANGED <<discount, rate, paid, money, doc, stock>>
    /\ Recalculate(S \union {t})

-----------------------------------------------------------------------------
(* Payments.  A call whose key a Payment row already holds returns that row. *)

\* The unique constraint on keys leaves the empty one out.
KeysWithEmpty(k) == keyUsed \union {k}
KeysWith(k) == keyUsed \union ({k} \ {NoKey})

\* payment_service._recompute
RecomputeCaptured(o) == paid' = [paid EXCEPT ![o] = captured'[o]]
Recompute(o) == paid' = [paid EXCEPT ![o] = captured'[o] - refunded'[o]]

AddPayment(o, a, k) ==
    /\ status[o] # "none"
    /\ k \notin keyUsed
    /\ captured[o] + a <= MaxCaptured
    /\ captured' = [captured EXCEPT ![o] = @ + a]
    /\ keyUsed'  = KeysWith(k)
    /\ UNCHANGED <<status, cart, total, mergedInto, refunded, refundRows, doc, stock>>
    /\ Recompute(o)

RefundPayment(o, a, k) ==
    /\ status[o] # "none"
    /\ k \notin keyUsed
    /\ a <= NetPaid(o)
    /\ refunded' = [refunded EXCEPT ![o] = @ + a]
    /\ keyUsed'  = KeysWith(k)
    /\ UNCHANGED <<status, cart, total, mergedInto, captured, refundRows, doc, stock>>
    /\ Recompute(o)

-----------------------------------------------------------------------------
(* Kitchen, settlement, checkout *)

\* The lines once every pending one of o has a KOT item.
RoutedNothing(o) == line
Routed(o) == [i \in LineIds |->
                IF i \in LiveLines(line, o) /\ line[i].kitchen = 0
                THEN [line[i] EXCEPT !.kitchen = line[i].qty] ELSE line[i]]

GenerateKots(o) ==
    /\ status[o] # "none"
    /\ line' = Routed(o)
    /\ UNCHANGED <<status, discount, rate, bill, mergedInto, money, doc, stock>>

\* Settling that forgets to save the order's status.
SettleInvoiceOnly(o) ==
    /\ UNCHANGED status
    /\ invStatus' = [invStatus EXCEPT ![o] = "issued"]
    /\ invTotal'  = [invTotal EXCEPT ![o] = total[o]]

\* The order part of settle_and_invoice for an order not yet invoiced.
Settle(o) ==
    /\ status'    = [status EXCEPT ![o] = "settled"]
    /\ invStatus' = [invStatus EXCEPT ![o] = "issued"]
    /\ invTotal'  = [invTotal EXCEPT ![o] = total[o]]

\* settle_and_invoice without its check of the amount due.
SettleUnpaid(o) ==
    /\ status[o] \in {"open", "settled"}
    /\ invStatus[o] = "none"
    /\ Settle(o)
    /\ UNCHANGED <<cart, bill, mergedInto, money, stock>>

SettleAndInvoice(o) ==
    /\ status[o] \in {"open", "settled"}
    /\ invStatus[o] = "none"
    /\ Due(o) <= 0
    /\ Settle(o)
    /\ UNCHANGED <<cart, bill, mergedInto, money, stock>>

VoidInvoice(o) ==
    /\ invStatus[o] # "none"
    /\ invStatus' = [invStatus EXCEPT ![o] = "void"]
    /\ UNCHANGED <<status, cart, bill, mergedInto, money, invTotal, stock>>

\* complete_checkout_transaction on an order that is not settled: pay the whole
\* total whatever was paid before, settle (an existing invoice is returned as it
\* is), route to the kitchen, take stock for every active line.
CompleteCheckout(o) ==
    /\ status[o] \in {"open", "void"}
    /\ LiveLines(line, o) # {}
    /\ total[o] > 0
    /\ captured[o] + total[o] <= MaxCaptured
    /\ captured' = [captured EXCEPT ![o] = @ + total[o]]
    /\ \/ invStatus[o] # "none" /\ UNCHANGED <<status, doc>>
       \/ /\ invStatus[o] = "none"
          /\ status[o] = "open"
          /\ NetPaid(o) >= 0
          /\ Settle(o)
    /\ line' = Routed(o)
    /\ stockOut' = [i \in LineIds |->
                      IF i \in LiveLines(line, o) \intersect Tracked
                      THEN stockOut[i] + 100 * line[i].qty ELSE stockOut[i]]
    /\ modOut' = [i \in LineIds |->
                    IF i \in LiveLines(line, o) /\ line[i].delta > 0
                    THEN modOut[i] + line[i].qty ELSE modOut[i]]
    /\ UNCHANGED <<discount, rate, total, mergedInto, refunded, refundRows, keyUsed>>
    /\ Recompute(o)

-----------------------------------------------------------------------------
(* Refunds *)

\* n / d in hundredths, halves to even (quantize with the default rounding).
Hundredths(n, d) ==
    LET floor == (100 * n) \div d
        rest  == 2 * ((100 * n) % d)
    IN  IF rest > d \/ (rest = d /\ floor % 2 = 1) THEN floor + 1 ELSE floor

\* full: the caller asks for RefundType.FULL.  paid_amount is not recomputed.
InitiateRefund(o, a, full, restock) ==
    LET isFull == full \/ refundRows[o] + a >= total[o]
        back(i) == IF isFull THEN 100 * line[i].qty ELSE Hundredths(line[i].qty * a, total[o])
    IN
    /\ status[o] \in {"settled", "void"}
    /\ refundRows[o] + a <= total[o]
    /\ refundRows' = [refundRows EXCEPT ![o] = @ + a]
    /\ refunded'   = [refunded EXCEPT ![o] = @ + a]
    /\ status'     = [status EXCEPT ![o] = IF isFull THEN "void" ELSE @]
    /\ invStatus'  = [invStatus EXCEPT ![o] = IF isFull /\ @ # "none" THEN "void" ELSE @]
    /\ stockOut'   = [i \in LineIds |->
                        IF restock /\ i \in LiveLines(line, o) \intersect Tracked
                        THEN stockOut[i] - back(i) ELSE stockOut[i]]
    /\ UNCHANGED <<cart, bill, mergedInto, captured, keyUsed, invTotal, modOut>>

-----------------------------------------------------------------------------
Discounts == {NoDiscount} \union [type : {"flat", "percent"}, value : DiscountValues]

\* At most one line of a split is taken in part.
Parts == {<<>>} \union UNION {[{i} -> Quantities \X LineIds] : i \in LineIds}

EditCart(o) ==
    \/ \E r \in ChargeRates : CreateOrder(o, r) \/ SetServiceCharge(o, r)
    \/ \E i \in LineIds, n \in Quantities, p \in Prices, d \in Deltas : AddItem(o, i, n, p, d)
    \/ \E i \in LineIds, n \in Quantities \union {0} : SetItemQty(o, i, n)
    \/ \E i \in LineIds, d \in Deltas : UpdateItemModifiers(o, i, d)
    \/ \E i \in LineIds : VoidItem(o, i)
    \/ \E d \in Discounts : ApplyDiscount(o, d)
    \/ VoidOrder(o)

MoveLines(o) ==
    \/ \E t \in OrderIds, F \in SUBSET LineIds, part \in Parts : SplitOrder(o, t, F, part)
    \/ \E S \in SUBSET OrderIds : MergeOrders(o, S)

MoveMoney(o) ==
    \/ \E a \in Amounts, k \in Keys \union {NoKey} : AddPayment(o, a, k) \/ RefundPayment(o, a, k)
    \/ SettleAndInvoice(o)
    \/ VoidInvoice(o)
    \/ CompleteCheckout(o)
    \/ \E a \in Amounts, full \in BOOLEAN, restock \in BOOLEAN : InitiateRefund(o, a, full, restock)

Next == \E o \in OrderIds : EditCart(o) \/ MoveLines(o) \/ MoveMoney(o) \/ GenerateKots(o)

Spec == Init /\ [][Next]_vars

-----------------------------------------------------------------------------
(* Properties *)

TypeOK ==
    /\ status \in [OrderIds -> OrderStatus]
    /\ line \in [LineIds -> Line]
    /\ discount \in [OrderIds -> Discount]
    /\ rate \in [OrderIds -> Nat]
    /\ total \in [OrderIds -> Nat]
    /\ paid \in [OrderIds -> Int]
    /\ mergedInto \in [OrderIds -> OrderIds \union {NoOrder}]
    /\ captured \in [OrderIds -> Nat]
    /\ refunded \in [OrderIds -> Nat]
    /\ refundRows \in [OrderIds -> Nat]
    /\ keyUsed \subseteq Keys
    /\ invStatus \in [OrderIds -> InvoiceStatus]
    /\ invTotal \in [OrderIds -> Nat]
    /\ stockOut \in [LineIds -> Int]
    /\ modOut \in [LineIds -> Int]

\* The stored bill is the bill of the lines the order has now: whatever path
\* changed a line, moved it, split it or voided it also recalculated each order
\* it touched (order_service.recalculate).
BillIsCurrent ==
    \A o \in OrderIds : status[o] # "none" => total[o] = Bill(line, o, discount[o], rate[o])

\* Every tax invoice was covered by money captured for its order, by whichever
\* of the settlement paths it was issued (invoice_service.settle_and_invoice).
InvoiceBacked ==
    \A o \in OrderIds : invStatus[o] # "none" => invTotal[o] <= captured[o]

\* The order's status and its invoice never contradict each other: a settled
\* order has an invoice, an open one has none, and the invoice of an order that
\* was closed by a refund is void (invoice_service, refund_service).
StatusMatchesInvoice ==
    \A o \in OrderIds :
        /\ status[o] = "settled" => invStatus[o] # "none"
        /\ status[o] \in {"none", "open"} => invStatus[o] = "none"
        /\ status[o] = "void" => invStatus[o] # "issued"

\* paid_amount is the ledger of Payment rows; only initiate_refund can leave it
\* stale, and then never by less than was really paid (payment_service._recompute).
PaidMatchesLedger ==
    \A o \in OrderIds :
        /\ NetPaid(o) <= paid[o] /\ paid[o] <= captured[o]
        /\ refundRows[o] = 0 => paid[o] = NetPaid(o)

\* An order merged into another is void for good and keeps no active line, so no
\* line can be billed twice (order_service.merge_orders).
MergedOrdersAreEmpty ==
    \A o \in OrderIds : mergedInto[o] # NoOrder =>
        status[o] = "void" /\ LiveLines(line, o) = {} /\ mergedInto[o] # o

\* Stock leaves for an order's line only in a checkout that also sent the line
\* to the kitchen and invoiced the order; it comes back only for a refunded order
\* (checkout_service, refund_service).
StockFollowsSale ==
    \A i \in LineIds :
        /\ stockOut[i] > 0 => line[i].kitchen > 0 /\ invStatus[line[i].order] # "none"
        /\ stockOut[i] < 0 => refundRows[line[i].order] > 0

\* Void is final and a settled order is left only for void, by a refund that
\* also voids its invoice (order_service.void_order, refund_service).
ClosedStaysClosed ==
    [][\A o \in OrderIds :
         /\ status[o] = "void" => status'[o] = "void"
         /\ status[o] = "settled" /\ status'[o] # "settled" =>
              status'[o] = "void" /\ invStatus'[o] = "void" /\ refundRows'[o] > refundRows[o]
      ]_vars

LiveQty(ln) == SumOver([i \in {j \in LineIds : ln[j].live} |-> ln[i].qty])

Moved(i) == line[i].order # NoOrder /\ line'[i].order # line[i].order
BornWithLines(o) == status[o] = "none" /\ LiveLines(line', o) # {}

\* A line changes order only between open orders, and moving lines (split or
\* merge, whole or in part) neither creates nor loses a unit of what the
\* customers ordered (order_service.split_order, merge_orders).
MovesConserveUnits ==
    [][/\ (\E i \in LineIds : Moved(i)) \/ (\E o \in OrderIds : BornWithLines(o))
            => LiveQty(line') = LiveQty(line)
       /\ \A i \in LineIds : Moved(i) =>
            status[line[i].order] = "open" /\ status'[line'[i].order] = "open"
      ]_vars

\* The cart of a closed order is frozen except for voiding: nobody adds a line
\* to it, changes a line's quantity or modifiers, or moves a line out of it.
ClosedCartFrozen ==
    [][\A i \in LineIds :
         /\ line[i].order # NoOrder /\ status[line[i].order] \in {"settled", "void"} =>
              /\ line'[i].order = line[i].order
              /\ line'[i].qty = line[i].qty /\ line'[i].modTotal = line[i].modTotal
              /\ line'[i].live => line[i].live
         /\ line[i].order = NoOrder /\ line'[i].order # NoOrder => status'[line'[i].order] = "open"
      ]_vars

(***************************************************************************)
(* The order engine implements OrderLifecycle: the stage of an order is     *)
(* what its status and the status of its invoice say together.             *)
(***************************************************************************)
Life == [o \in OrderIds |-> Stage(status[o], invStatus[o])]

Lifecycle == INSTANCE OrderLifecycle WITH life <- Life

\* Whatever sequence of cart edits, splits, merges, payments, settlements and
\* refunds the services perform, each order follows the promised life cycle.
ImplementsLifecycle == Lifecycle!Spec
=============================================================================
