--------------------------- MODULE Orders_proofs ---------------------------
(***************************************************************************)
(* Proofs about Orders: type correctness, then three inductive invariants,  *)
(* each built on the one before.  Books relates an order's status, ledger   *)
(* and invoice; Rows adds what holds of its lines, merges and stock; Bills  *)
(* adds that the stored totals are those of the lines.  The action          *)
(* properties, and the refinement of OrderLifecycle, follow from Books and  *)
(* Rows one step at a time.                                                *)
(***************************************************************************)
EXTENDS Orders, Sums_proofs

\* Arithmetic of the bill.
LEMMA ProductNat ==
    ASSUME NEW a \in Nat, NEW b \in Nat
    PROVE  a * b \in Nat
OBVIOUS

\* Rounding half up keeps a natural a natural.
LEMMA HalfUpNat ==
    ASSUME NEW n \in Nat
    PROVE  HalfUp(n, 100) \in Nat
BY DEF HalfUp

\* Rounding a quotient to hundredths keeps a natural a natural.
LEMMA HundredthsNat ==
    ASSUME NEW n \in Nat, NEW d \in Nat, d > 0
    PROVE  Hundredths(n, d) \in Nat
<1>1. (100 * n) \div d \in Nat
    OBVIOUS
<1>2. QED
    BY <1>1 DEF Hundredths

\* The sum of an order's line totals is a natural.
LEMMA SubtotalNat ==
    ASSUME NEW ln \in [LineIds -> Line], NEW o
    PROVE  Subtotal(ln, o) \in Nat
<1> DEFINE f == [i \in LiveLines(ln, o) |-> LineTotal(ln[i])]
<1>1. IsFiniteSet(DOMAIN f)
    BY OrdersAssumption, FS_Subset DEF LiveLines
<1>2. ASSUME NEW i \in DOMAIN f PROVE f[i] \in Nat
    <2>1. ln[i] \in Line /\ f[i] = LineTotal(ln[i])
        BY DEF LiveLines
    <2>2. ln[i].qty * ln[i].price \in Nat
        BY <2>1, ProductNat DEF Line
    <2>3. QED
        BY <2>1, <2>2 DEF LineTotal, Line
<1>3. SumOver(f) \in Nat
    BY <1>1, <1>2, SumOverNat
<1>4. QED
    BY <1>3 DEF Subtotal

\* A discount is a natural and never exceeds the subtotal.
LEMMA DiscountAmountNat ==
    ASSUME NEW d \in Discount, NEW n \in Nat
    PROVE  DiscountAmount(d, n) \in Nat /\ DiscountAmount(d, n) <= n
<1>1. d.value \in Nat
    BY DEF Discount
<1>2. HalfUp(n * d.value, 100) \in Nat
    BY <1>1, ProductNat, HalfUpNat
<1>3. QED
    BY <1>1, <1>2 DEF DiscountAmount

\* A bill is therefore never negative.
LEMMA BillNat ==
    ASSUME NEW ln \in [LineIds -> Line], NEW o, NEW d \in Discount, NEW r \in Nat
    PROVE  Bill(ln, o, d, r) \in Nat
<1> DEFINE s == Subtotal(ln, o)
           t == s - DiscountAmount(d, s)
<1>1. t \in Nat
    BY SubtotalNat, DiscountAmountNat
<1>2. HalfUp(t * r, 100) \in Nat
    BY <1>1, ProductNat, HalfUpNat
<1>3. QED
    BY <1>1, <1>2 DEF Bill

\* A recalculation stores naturals.
LEMMA RecalculateTyped ==
    ASSUME TypeOK, line' \in [LineIds -> Line], discount' \in [OrderIds -> Discount],
           rate' \in [OrderIds -> Nat], NEW S, Recalculate(S)
    PROVE  total' \in [OrderIds -> Nat]
<1>1. ASSUME NEW o \in OrderIds
      PROVE  Bill(line', o, discount'[o], rate'[o]) \in Nat /\ total[o] \in Nat
    BY BillNat DEF TypeOK
<1>2. QED
    BY <1>1 DEF Recalculate

\* A partial split names rows of the table and positive quantities.
LEMMA PartsTyped ==
    ASSUME NEW part \in Parts
    PROVE  \A i \in DOMAIN part :
             /\ i \in LineIds
             /\ part[i][1] \in Nat \ {0}
             /\ part[i][2] \in LineIds
<1>1. CASE part = <<>>
    BY <1>1
<1>2. CASE part # <<>>
    BY <1>2, OrdersAssumption DEF Parts
<1>3. QED
    BY <1>1, <1>2

\* The discounts a client may ask for are discounts.
LEMMA DiscountsTyped ==
    ASSUME NEW d \in Discounts
    PROVE  d \in Discount
<1>1. CASE d = NoDiscount
    BY <1>1 DEF Discount, NoDiscount
<1>2. CASE d \in [type : {"flat", "percent"}, value : DiscountValues]
    BY <1>2, OrdersAssumption DEF Discount
<1>3. QED
    BY <1>1, <1>2 DEF Discounts

\* Type correctness, one lemma per group of actions.
LEMMA InitTyped == Init => TypeOK
BY OrdersAssumption DEF Init, TypeOK, OrderStatus, InvoiceStatus, Line, NoLine, Discount, NoDiscount

\* The cart edits keep the types.
LEMMA EditCartTyped ==
    ASSUME TypeOK, NEW o \in OrderIds, EditCart(o)
    PROVE  TypeOK'
<1> USE OrdersAssumption
<1>1. CASE \E r \in ChargeRates : CreateOrder(o, r)
    BY <1>1 DEF CreateOrder, TypeOK, OrderStatus, bill, money, doc, stock
<1>2. CASE \E r \in ChargeRates : SetServiceCharge(o, r)
    <2>1. total' \in [OrderIds -> Nat]
        BY <1>2, RecalculateTyped DEF SetServiceCharge, TypeOK
    <2>2. QED
        BY <1>2, <2>1 DEF SetServiceCharge, TypeOK, money, doc, stock
<1>3. CASE \E i \in LineIds, n \in Quantities, p \in Prices, d \in Deltas : AddItem(o, i, n, p, d)
    <2>1. PICK i \in LineIds, n \in Quantities, p \in Prices, d \in Deltas : AddItem(o, i, n, p, d)
        BY <1>3
    <2>2. d * n \in Nat
        BY ProductNat
    <2>3. line' \in [LineIds -> Line]
        BY <2>1, <2>2 DEF AddItem, TypeOK, Line
    <2>4. total' \in [OrderIds -> Nat]
        BY <2>1, <2>3, RecalculateTyped DEF AddItem, TypeOK
    <2>5. QED
        BY <2>1, <2>3, <2>4 DEF AddItem, TypeOK, money, doc, stock
<1>4. CASE \E i \in LineIds, n \in Quantities \union {0} : SetItemQty(o, i, n)
    <2>1. PICK i \in LineIds, n \in Quantities \union {0} : SetItemQty(o, i, n)
        BY <1>4
    <2>2. line[i] \in Line /\ line[i].delta * n \in Nat
        BY ProductNat DEF TypeOK, Line
    <2>3. line' \in [LineIds -> Line]
        BY <2>1, <2>2 DEF SetItemQty, TypeOK, Line
    <2>4. total' \in [OrderIds -> Nat]
        BY <2>1, <2>3, RecalculateTyped DEF SetItemQty, TypeOK
    <2>5. QED
        BY <2>1, <2>3, <2>4 DEF SetItemQty, TypeOK, money, doc, stock
<1>5. CASE \E i \in LineIds, d \in Deltas : UpdateItemModifiers(o, i, d)
    <2>1. PICK i \in LineIds, d \in Deltas : UpdateItemModifiers(o, i, d)
        BY <1>5
    <2>2. line[i] \in Line /\ d * line[i].qty \in Nat
        BY ProductNat DEF TypeOK, Line
    <2>3. line' \in [LineIds -> Line]
        BY <2>1, <2>2 DEF UpdateItemModifiers, TypeOK, Line
    <2>4. total' \in [OrderIds -> Nat]
        BY <2>1, <2>3, RecalculateTyped DEF UpdateItemModifiers, TypeOK
    <2>5. QED
        BY <2>1, <2>3, <2>4 DEF UpdateItemModifiers, TypeOK, money, doc, stock
<1>6. CASE \E i \in LineIds : VoidItem(o, i)
    <2>1. PICK i \in LineIds : VoidItem(o, i)
        BY <1>6
    <2>2. [line[i] EXCEPT !.live = FALSE] \in Line
        <3>1. line[i] \in Line
            BY DEF TypeOK
        <3>2. QED
            BY <3>1, Zenon DEF Line
    <2>3. line' \in [LineIds -> Line]
        BY <2>1, <2>2 DEF VoidItem, TypeOK
    <2>4. total' \in [OrderIds -> Nat]
        BY <2>1, <2>3, RecalculateTyped DEF VoidItem, TypeOK
    <2>5. QED
        BY <2>1, <2>3, <2>4 DEF VoidItem, TypeOK, money, doc, stock
<1>7. CASE \E d \in Discounts : ApplyDiscount(o, d)
    <2>1. discount' \in [OrderIds -> Discount]
        BY <1>7, DiscountsTyped DEF ApplyDiscount, TypeOK
    <2>2. total' \in [OrderIds -> Nat]
        BY <1>7, <2>1, RecalculateTyped DEF ApplyDiscount, TypeOK
    <2>3. QED
        BY <1>7, <2>1, <2>2 DEF ApplyDiscount, TypeOK, money, doc, stock
<1>8. CASE VoidOrder(o)
    BY <1>8 DEF VoidOrder, TypeOK, OrderStatus, cart, bill, money, doc, stock
<1>9. QED
    BY <1>1, <1>2, <1>3, <1>4, <1>5, <1>6, <1>7, <1>8 DEF EditCart

\* What a split does to one line: moved whole, moved in part, or created as the
\* clone of a line moved in part.
MovedWhole(o, t, i) == i \in LiveLines(line, o) /\ line'[i] = [line[i] EXCEPT !.order = t]
MovedInPart(o, i) ==
    /\ i \in LiveLines(line, o)
    /\ \E n \in Nat \ {0} : n < line[i].qty /\ line'[i] = [line[i] EXCEPT !.qty = line[i].qty - n]
Cloned(o, t, i) ==
    /\ line[i].order = NoOrder
    /\ \E j \in LiveLines(line, o), n \in Nat \ {0} : line'[i] = CloneOf(line[j], t, n)

\* A split does one of four things to each line.
LEMMA SplitLines ==
    ASSUME TypeOK, NEW o \in OrderIds, NEW t \in OrderIds, NEW F \in SUBSET LineIds,
           NEW part \in Parts, SplitOrder(o, t, F, part), NEW i \in LineIds
    PROVE  MovedWhole(o, t, i) \/ MovedInPart(o, i) \/ Cloned(o, t, i) \/ line'[i] = line[i]
<1> DEFINE P == DOMAIN part
           clones == {part[j][2] : j \in P}
           origin(c) == CHOOSE j \in P : part[j][2] = c
<1>1. \A j \in P : j \in LineIds /\ part[j][1] \in Nat \ {0} /\ part[j][2] \in LineIds
    BY PartsTyped
<1>2. /\ F \subseteq LiveLines(line, o) /\ P \subseteq LiveLines(line, o)
      /\ F \intersect P = {}
      /\ \A j \in P : part[j][1] < line[j].qty /\ line[part[j][2]].order = NoOrder
      /\ line'[i] = CASE i \in F -> [line[i] EXCEPT !.order = t]
                      [] i \in P -> [line[i] EXCEPT !.qty = Remainder(@, part[i][1])]
                      [] i \in clones -> CloneOf(line[origin(i)], t, part[origin(i)][1])
                      [] OTHER -> line[i]
    BY DEF SplitOrder
<1>3. ASSUME i \in LiveLines(line, o) PROVE i \notin clones
    BY <1>2, <1>3, OrdersAssumption DEF LiveLines
<1>4. CASE i \in F
    <2>1. i \notin P /\ i \notin clones
        BY <1>2, <1>3, <1>4
    <2>2. QED
        BY <1>2, <1>4, <2>1 DEF MovedWhole
<1>5. CASE i \in P
    <2>1. i \notin F /\ i \notin clones
        BY <1>2, <1>3, <1>5
    <2>2. line'[i] = [line[i] EXCEPT !.qty = line[i].qty - part[i][1]]
        BY <1>2, <1>5, <2>1 DEF Remainder
    <2>3. QED
        BY <1>1, <1>2, <1>5, <2>2 DEF MovedInPart
<1>6. CASE i \notin F /\ i \notin P /\ i \in clones
    <2>1. origin(i) \in P /\ part[origin(i)][2] = i
        BY <1>6
    <2>2. line'[i] = CloneOf(line[origin(i)], t, part[origin(i)][1])
        BY <1>2, <1>6
    <2>3. origin(i) \in LiveLines(line, o) /\ part[origin(i)][1] \in Nat \ {0}
          /\ line[i].order = NoOrder
        BY <1>1, <1>2, <2>1
    <2>4. QED
        BY <2>2, <2>3 DEF Cloned
<1>7. CASE i \notin F /\ i \notin P /\ i \notin clones
    BY <1>2, <1>7
<1>8. QED
    BY <1>4, <1>5, <1>6, <1>7

\* A split keeps the types.
LEMMA SplitTyped ==
    ASSUME TypeOK, NEW o \in OrderIds, NEW t \in OrderIds, NEW F \in SUBSET LineIds,
           NEW part \in Parts, SplitOrder(o, t, F, part)
    PROVE  TypeOK'
<1>1. ASSUME NEW i \in LineIds PROVE line'[i] \in Line
    <2>1. \A j \in LineIds : line[j] \in Line
        BY DEF TypeOK
    <2>2. ASSUME MovedWhole(o, t, i) PROVE line'[i] \in Line
        BY <2>1, <2>2 DEF MovedWhole, Line
    <2>3. ASSUME MovedInPart(o, i) PROVE line'[i] \in Line
        BY <2>1, <2>3 DEF MovedInPart, Line
    <2>4. ASSUME Cloned(o, t, i) PROVE line'[i] \in Line
        <3>1. PICK j \in LiveLines(line, o), n \in Nat \ {0} : line'[i] = CloneOf(line[j], t, n)
            BY <2>4 DEF Cloned
        <3>2. line[j] \in Line
            BY <2>1 DEF LiveLines
        <3>3. QED
            BY <3>1, <3>2 DEF CloneOf, Line
    <2>5. QED
        BY <2>1, <2>2, <2>3, <2>4, SplitLines
<1>2. line' \in [LineIds -> Line]
    BY <1>1 DEF SplitOrder
<1>3. /\ rate' \in [OrderIds -> Nat] /\ discount' = discount
      /\ status' \in [OrderIds -> OrderStatus]
      /\ UNCHANGED <<paid, mergedInto, money, doc, stock>>
      /\ Recalculate({o, t})
    BY DEF SplitOrder, TypeOK, OrderStatus
<1>4. total' \in [OrderIds -> Nat]
    BY <1>2, <1>3, RecalculateTyped DEF TypeOK
<1>5. QED
    BY <1>2, <1>3, <1>4 DEF TypeOK, money, doc, stock

\* A merge keeps the types.
LEMMA MergeTyped ==
    ASSUME TypeOK, NEW t \in OrderIds, NEW S \in SUBSET OrderIds, MergeOrders(t, S)
    PROVE  TypeOK'
<1>1. ASSUME NEW i \in LineIds PROVE line'[i] \in Line
    <2>1. line[i] \in Line /\ [line[i] EXCEPT !.order = t] \in Line
        BY DEF TypeOK, Line
    <2>2. QED
        BY <2>1 DEF MergeOrders, MergedLines
<1>2. line' \in [LineIds -> Line]
    BY <1>1 DEF MergeOrders, MergedLines
<1>3. total' \in [OrderIds -> Nat]
    BY <1>2, RecalculateTyped DEF MergeOrders, TypeOK
<1>4. QED
    BY <1>2, <1>3 DEF MergeOrders, TypeOK, OrderStatus, money, doc, stock

\* Routing to the kitchen yields lines.
LEMMA RoutedTyped ==
    ASSUME TypeOK, NEW o
    PROVE  Routed(o) \in [LineIds -> Line]
<1>1. ASSUME NEW i \in LineIds PROVE [line[i] EXCEPT !.kitchen = line[i].qty] \in Line
    BY DEF TypeOK, Line
<1>2. QED
    BY <1>1 DEF Routed, TypeOK

\* Routing to the kitchen keeps the types.
LEMMA GenerateKotsTyped ==
    ASSUME TypeOK, NEW o \in OrderIds, GenerateKots(o)
    PROVE  TypeOK'
BY RoutedTyped DEF GenerateKots, TypeOK, bill, money, doc, stock

\* Payments, settlement, checkout and refunds keep the types.
LEMMA MoveMoneyTyped ==
    ASSUME TypeOK, NEW o \in OrderIds, MoveMoney(o)
    PROVE  TypeOK'
<1> USE OrdersAssumption
<1>1. CASE \E a \in Amounts, k \in Keys \union {NoKey} : AddPayment(o, a, k)
    BY <1>1 DEF AddPayment, TypeOK, KeysWith, Recompute, cart, doc, stock
<1>2. CASE \E a \in Amounts, k \in Keys \union {NoKey} : RefundPayment(o, a, k)
    BY <1>2 DEF RefundPayment, TypeOK, KeysWith, Recompute, cart, doc, stock
<1>3. CASE SettleAndInvoice(o)
    BY <1>3 DEF SettleAndInvoice, Settle, TypeOK, OrderStatus, InvoiceStatus, cart, bill, money, stock
<1>4. CASE VoidInvoice(o)
    BY <1>4 DEF VoidInvoice, TypeOK, InvoiceStatus, cart, bill, money, stock
<1>5. CASE CompleteCheckout(o)
    <2>1. line' \in [LineIds -> Line]
        BY <1>5, RoutedTyped DEF CompleteCheckout
    <2>2. captured' \in [OrderIds -> Nat] /\ paid' \in [OrderIds -> Int]
        BY <1>5 DEF CompleteCheckout, Recompute, TypeOK
    <2>3. /\ status' \in [OrderIds -> OrderStatus]
          /\ invStatus' \in [OrderIds -> InvoiceStatus]
          /\ invTotal' \in [OrderIds -> Nat]
        BY <1>5 DEF CompleteCheckout, Settle, TypeOK, OrderStatus, InvoiceStatus, doc
    <2>4. stockOut' \in [LineIds -> Int] /\ modOut' \in [LineIds -> Int]
        <3>1. \A i \in LineIds : line[i].qty \in Nat
            BY DEF TypeOK, Line
        <3>2. QED
            BY <1>5, <3>1 DEF CompleteCheckout, TypeOK
    <2>5. QED
        BY <1>5, <2>1, <2>2, <2>3, <2>4 DEF CompleteCheckout, TypeOK
<1>6. CASE \E a \in Amounts, full \in BOOLEAN, restock \in BOOLEAN : InitiateRefund(o, a, full, restock)
    <2>1. PICK a \in Amounts, full \in BOOLEAN, restock \in BOOLEAN : InitiateRefund(o, a, full, restock)
        BY <1>6
    <2>2. total[o] \in Nat /\ total[o] > 0 /\ refundRows[o] \in Nat
        BY <2>1 DEF InitiateRefund, TypeOK
    <2>3. \A i \in LineIds : line[i].qty \in Nat /\ Hundredths(line[i].qty * a, total[o]) \in Nat
        BY <2>2, ProductNat, HundredthsNat DEF TypeOK, Line
    <2>4. stockOut' \in [LineIds -> Int]
        BY <2>1, <2>3 DEF InitiateRefund, TypeOK
    <2>5. /\ status' \in [OrderIds -> OrderStatus]
          /\ invStatus' \in [OrderIds -> InvoiceStatus]
          /\ refunded' \in [OrderIds -> Nat] /\ refundRows' \in [OrderIds -> Nat]
        BY <2>1 DEF InitiateRefund, TypeOK, OrderStatus, InvoiceStatus
    <2>6. QED
        BY <2>1, <2>4, <2>5 DEF InitiateRefund, TypeOK, cart, bill
<1>7. QED
    BY <1>1, <1>2, <1>3, <1>4, <1>5, <1>6 DEF MoveMoney

\* Every step keeps the types.
LEMMA NextTyped == TypeOK /\ [Next]_vars => TypeOK'
<1> SUFFICES ASSUME TypeOK, [Next]_vars PROVE TypeOK'
    OBVIOUS
<1>1. CASE UNCHANGED vars
    BY <1>1 DEF TypeOK, vars, cart, bill, money, doc, stock
<1>2. CASE Next
    <2>1. PICK o \in OrderIds : EditCart(o) \/ MoveLines(o) \/ MoveMoney(o) \/ GenerateKots(o)
        BY <1>2 DEF Next
    <2>2. QED
        BY <2>1, EditCartTyped, SplitTyped, MergeTyped, MoveMoneyTyped, GenerateKotsTyped DEF MoveLines
<1>3. QED
    BY <1>1, <1>2

\* Every reachable state is well typed: in particular stored bills and the sums
\* of payment rows never go negative.
THEOREM TypeCorrect == Spec => []TypeOK
BY InitTyped, NextTyped, PTL DEF Spec

-----------------------------------------------------------------------------
(* The books: an order's status, its payments and its invoice.  The settling  *)
(* paths read paid_amount, so that an invoice is covered needs paid_amount    *)
(* never to exceed what was captured; and that checkout finds no invoice on   *)
(* an open order needs the status to determine the invoice.                   *)

RefundedAreClosed == \A o \in OrderIds : refundRows[o] > 0 => status[o] \in {"settled", "void"}

Books == TypeOK /\ StatusMatchesInvoice /\ InvoiceBacked /\ PaidMatchesLedger /\ RefundedAreClosed

\* An action that leaves the money, the documents and paid_amount alone keeps
\* the books if it only opens new orders or voids open ones.
LEMMA BooksFrame ==
    ASSUME Books, TypeOK', UNCHANGED <<paid, money, doc>>,
           \A o \in OrderIds : \/ status'[o] = status[o]
                               \/ status[o] = "none" /\ status'[o] = "open"
                               \/ status[o] = "open" /\ status'[o] = "void"
    PROVE  Books'
<1>1. StatusMatchesInvoice' /\ RefundedAreClosed'
    BY DEF Books, TypeOK, OrderStatus, StatusMatchesInvoice, RefundedAreClosed, money, doc
<1>2. InvoiceBacked' /\ PaidMatchesLedger'
    BY DEF Books, InvoiceBacked, PaidMatchesLedger, NetPaid, money, doc
<1>3. QED
    BY <1>1, <1>2 DEF Books

\* Cart edits leave payments and invoices alone.
LEMMA BooksEditCart ==
    ASSUME Books, NEW o \in OrderIds, EditCart(o)
    PROVE  Books'
<1>1. TypeOK'
    BY EditCartTyped DEF Books
<1>2. UNCHANGED <<paid, money, doc>>
    BY DEF EditCart, CreateOrder, AddItem, SetItemQty, UpdateItemModifiers, VoidItem,
           ApplyDiscount, SetServiceCharge, VoidOrder, bill, money, doc
<1>3. \/ status' = status
      \/ status[o] = "none" /\ status' = [status EXCEPT ![o] = "open"]
      \/ status[o] \in {"open", "void"} /\ status' = [status EXCEPT ![o] = "void"]
    BY DEF EditCart, CreateOrder, AddItem, SetItemQty, UpdateItemModifiers, VoidItem,
           ApplyDiscount, SetServiceCharge, VoidOrder
<1>4. QED
    BY <1>1, <1>2, <1>3, BooksFrame DEF Books, TypeOK

\* So do splits and merges.
LEMMA BooksMoveLines ==
    ASSUME Books, NEW o \in OrderIds, MoveLines(o)
    PROVE  Books'
<1>1. TypeOK'
    BY SplitTyped, MergeTyped DEF MoveLines, Books
<1>2. UNCHANGED <<paid, money, doc>>
    BY DEF MoveLines, SplitOrder, MergeOrders
<1>3. \A p \in OrderIds : \/ status'[p] = status[p]
                          \/ status[p] = "none" /\ status'[p] = "open"
                          \/ status[p] = "open" /\ status'[p] = "void"
    <2>1. CASE \E t \in OrderIds, F \in SUBSET LineIds, part \in Parts : SplitOrder(o, t, F, part)
        BY <2>1 DEF SplitOrder, Books, TypeOK
    <2>2. CASE \E S \in SUBSET OrderIds : MergeOrders(o, S)
        BY <2>2 DEF MergeOrders
    <2>3. QED
        BY <2>1, <2>2 DEF MoveLines
<1>4. QED
    BY <1>1, <1>2, <1>3, BooksFrame

\* The steps that move money keep ledger, invoice and status in agreement.
LEMMA BooksMoveMoney ==
    ASSUME Books, NEW o \in OrderIds, MoveMoney(o)
    PROVE  Books'
<1> USE OrdersAssumption
<1>1. TypeOK /\ TypeOK'
    BY MoveMoneyTyped DEF Books
<1>2. CASE \E a \in Amounts, k \in Keys \union {NoKey} : AddPayment(o, a, k) \/ RefundPayment(o, a, k)
    <2>1. status' = status /\ UNCHANGED doc /\ UNCHANGED refundRows
        BY <1>2 DEF AddPayment, RefundPayment
    <2>2. StatusMatchesInvoice' /\ RefundedAreClosed'
        BY <2>1 DEF Books, StatusMatchesInvoice, RefundedAreClosed, doc
    <2>3. InvoiceBacked'
        BY <1>1, <1>2, <2>1 DEF AddPayment, RefundPayment, Books, InvoiceBacked, TypeOK, doc
    <2>4. PaidMatchesLedger'
        BY <1>1, <1>2 DEF AddPayment, RefundPayment, Recompute, Books, PaidMatchesLedger, NetPaid, TypeOK
    <2>5. QED
        BY <1>1, <2>2, <2>3, <2>4 DEF Books
<1>3. CASE SettleAndInvoice(o)
    <2>1. UNCHANGED <<paid, money>>
        BY <1>3 DEF SettleAndInvoice, bill
    <2>2. StatusMatchesInvoice' /\ RefundedAreClosed'
        BY <1>1, <1>3, <2>1 DEF SettleAndInvoice, Settle, Books, StatusMatchesInvoice, RefundedAreClosed, TypeOK, money
    <2>3. total[o] <= captured[o]
        BY <1>1, <1>3 DEF SettleAndInvoice, Due, Books, PaidMatchesLedger, TypeOK
    <2>4. InvoiceBacked' /\ PaidMatchesLedger'
        BY <1>1, <1>3, <2>1, <2>3 DEF SettleAndInvoice, Settle, Books, InvoiceBacked, PaidMatchesLedger, NetPaid, TypeOK, money
    <2>5. QED
        BY <1>1, <2>2, <2>4 DEF Books
<1>4. CASE VoidInvoice(o)
    <2>1. UNCHANGED <<paid, money, status, invTotal>>
        BY <1>4 DEF VoidInvoice, bill
    <2>2. StatusMatchesInvoice' /\ RefundedAreClosed'
        BY <1>1, <1>4, <2>1 DEF VoidInvoice, Books, StatusMatchesInvoice, RefundedAreClosed, TypeOK, money
    <2>3. InvoiceBacked' /\ PaidMatchesLedger'
        BY <1>1, <1>4, <2>1 DEF VoidInvoice, Books, InvoiceBacked, PaidMatchesLedger, NetPaid, TypeOK, money
    <2>4. QED
        BY <1>1, <2>2, <2>3 DEF Books
<1>5. CASE CompleteCheckout(o)
    <2>1. /\ captured' = [captured EXCEPT ![o] = captured[o] + total[o]]
          /\ UNCHANGED <<refunded, refundRows, total>>
          /\ Recompute(o)
          /\ status[o] \in {"open", "void"}
        BY <1>5 DEF CompleteCheckout
    <2>2. \/ invStatus[o] # "none" /\ UNCHANGED <<status, doc>>
          \/ invStatus[o] = "none" /\ status[o] = "open" /\ Settle(o)
        BY <1>5 DEF CompleteCheckout
    <2>3. StatusMatchesInvoice' /\ RefundedAreClosed'
        BY <1>1, <2>1, <2>2 DEF Settle, Books, StatusMatchesInvoice, RefundedAreClosed, TypeOK, doc
    <2>4. InvoiceBacked'
        BY <1>1, <2>1, <2>2 DEF Settle, Books, InvoiceBacked, TypeOK, doc
    <2>5. PaidMatchesLedger'
        BY <1>1, <2>1 DEF Recompute, Books, PaidMatchesLedger, NetPaid, TypeOK
    <2>6. QED
        BY <1>1, <2>3, <2>4, <2>5 DEF Books
<1>6. CASE \E a \in Amounts, full \in BOOLEAN, restock \in BOOLEAN : InitiateRefund(o, a, full, restock)
    <2>1. PICK a \in Amounts, full \in BOOLEAN, restock \in BOOLEAN : InitiateRefund(o, a, full, restock)
        BY <1>6
    <2>2. /\ refundRows' = [refundRows EXCEPT ![o] = refundRows[o] + a]
          /\ refunded' = [refunded EXCEPT ![o] = refunded[o] + a]
          /\ UNCHANGED <<captured, paid, invTotal>>
          /\ status[o] \in {"settled", "void"}
          /\ \/ UNCHANGED <<status, invStatus>>
             \/ /\ status' = [status EXCEPT ![o] = "void"]
                /\ invStatus' = [invStatus EXCEPT ![o] = IF invStatus[o] # "none" THEN "void" ELSE "none"]
        BY <1>1, <2>1 DEF InitiateRefund, TypeOK, bill
    <2>3. StatusMatchesInvoice' /\ RefundedAreClosed'
        BY <1>1, <2>2 DEF Books, StatusMatchesInvoice, RefundedAreClosed, TypeOK
    <2>4. InvoiceBacked' /\ PaidMatchesLedger'
        BY <1>1, <2>2 DEF Books, InvoiceBacked, PaidMatchesLedger, NetPaid, TypeOK
    <2>5. QED
        BY <1>1, <2>3, <2>4 DEF Books
<1>7. QED
    BY <1>2, <1>3, <1>4, <1>5, <1>6 DEF MoveMoney

\* Books is inductive.
LEMMA BooksNext == Books /\ [Next]_vars => Books'
<1> SUFFICES ASSUME Books, [Next]_vars PROVE Books'
    OBVIOUS
<1>1. CASE UNCHANGED vars
    <2>1. TypeOK'
        BY <1>1, NextTyped DEF Books
    <2>2. QED
        BY <1>1, <2>1, BooksFrame DEF vars, bill
<1>2. CASE Next
    <2>1. PICK o \in OrderIds : EditCart(o) \/ MoveLines(o) \/ MoveMoney(o) \/ GenerateKots(o)
        BY <1>2 DEF Next
    <2>2. CASE GenerateKots(o)
        <3>1. TypeOK' /\ UNCHANGED <<status, paid, money, doc>>
            BY <2>2, GenerateKotsTyped DEF Books, GenerateKots, bill
        <3>2. QED
            BY <3>1, BooksFrame
    <2>3. QED
        BY <2>1, <2>2, BooksEditCart, BooksMoveLines, BooksMoveMoney
<1>3. QED
    BY <1>1, <1>2

\* An empty database has its books in order.
LEMMA BooksInit == Init => Books
<1> SUFFICES ASSUME Init PROVE Books
    OBVIOUS
<1>1. TypeOK
    BY InitTyped
<1>2. StatusMatchesInvoice /\ InvoiceBacked /\ PaidMatchesLedger /\ RefundedAreClosed
    BY DEF Init, StatusMatchesInvoice, InvoiceBacked, PaidMatchesLedger, NetPaid, RefundedAreClosed
<1>3. QED
    BY <1>1, <1>2 DEF Books

\* Books is an invariant.
LEMMA BooksAlways == Spec => []Books
BY BooksInit, BooksNext, PTL DEF Spec

\* Every invoice ever issued is covered by captured money, for any number of
\* orders, any amounts and any sequence of the service calls.
THEOREM InvoicesBacked == Spec => []InvoiceBacked
<1>1. Books => InvoiceBacked
    BY DEF Books
<1>2. QED
    BY <1>1, BooksAlways, PTL

\* An order's status and its invoice never contradict each other.
THEOREM StatusInvoice == Spec => []StatusMatchesInvoice
<1>1. Books => StatusMatchesInvoice
    BY DEF Books
<1>2. QED
    BY <1>1, BooksAlways, PTL

\* paid_amount is the sum of the payment rows until initiate_refund adds one.
THEOREM PaidIsLedger == Spec => []PaidMatchesLedger
<1>1. Books => PaidMatchesLedger
    BY DEF Books
<1>2. QED
    BY <1>1, BooksAlways, PTL

\* What one step may do to an order that is closed.
ClosedStep ==
    \A o \in OrderIds :
        /\ status[o] = "void" => status'[o] = "void"
        /\ status[o] = "settled" /\ status'[o] # "settled" =>
             status'[o] = "void" /\ invStatus'[o] = "void" /\ refundRows'[o] > refundRows[o]

\* No step reopens a closed order: each action either leaves status alone or moves it on.
LEMMA ClosedStepNext == Books /\ [Next]_vars => ClosedStep
<1> SUFFICES ASSUME Books, [Next]_vars PROVE ClosedStep
    OBVIOUS
<1> USE OrdersAssumption
<1>1. TypeOK
    BY DEF Books
<1>2. CASE UNCHANGED vars
    BY <1>2 DEF vars, ClosedStep
<1>3. CASE Next
    <2>1. PICK o \in OrderIds : EditCart(o) \/ MoveLines(o) \/ MoveMoney(o) \/ GenerateKots(o)
        BY <1>3 DEF Next
    <2>2. CASE EditCart(o)
        BY <1>1, <2>2 DEF EditCart, CreateOrder, AddItem, SetItemQty, UpdateItemModifiers, VoidItem,
             ApplyDiscount, SetServiceCharge, VoidOrder, ClosedStep, TypeOK
    <2>3. CASE MoveLines(o)
        <3>1. CASE \E t \in OrderIds, F \in SUBSET LineIds, part \in Parts : SplitOrder(o, t, F, part)
            BY <1>1, <3>1 DEF SplitOrder, ClosedStep, TypeOK
        <3>2. CASE \E S \in SUBSET OrderIds : MergeOrders(o, S)
            BY <1>1, <3>2 DEF MergeOrders, ClosedStep, TypeOK
        <3>3. QED
            BY <2>3, <3>1, <3>2 DEF MoveLines
    <2>4. CASE GenerateKots(o)
        BY <2>4 DEF GenerateKots, ClosedStep
    <2>5. CASE MoveMoney(o)
        <3>1. CASE \E a \in Amounts, k \in Keys \union {NoKey} : AddPayment(o, a, k) \/ RefundPayment(o, a, k)
            BY <3>1 DEF AddPayment, RefundPayment, ClosedStep
        <3>2. CASE SettleAndInvoice(o) \/ VoidInvoice(o)
            <4>1. CASE SettleAndInvoice(o)
                BY <1>1, <4>1 DEF SettleAndInvoice, Settle, ClosedStep, TypeOK
            <4>2. CASE VoidInvoice(o)
                BY <4>2 DEF VoidInvoice, ClosedStep
            <4>3. QED
                BY <3>2, <4>1, <4>2
        <3>3. CASE CompleteCheckout(o)
            BY <1>1, <3>3 DEF CompleteCheckout, Settle, ClosedStep, TypeOK
        <3>4. CASE \E a \in Amounts, full \in BOOLEAN, restock \in BOOLEAN : InitiateRefund(o, a, full, restock)
            <4>1. PICK a \in Amounts, full \in BOOLEAN, restock \in BOOLEAN : InitiateRefund(o, a, full, restock)
                BY <3>4
            <4>2. /\ refundRows' = [refundRows EXCEPT ![o] = refundRows[o] + a]
                  /\ \/ UNCHANGED <<status, invStatus>>
                     \/ /\ status' = [status EXCEPT ![o] = "void"]
                        /\ invStatus' = [invStatus EXCEPT ![o] = IF invStatus[o] # "none" THEN "void" ELSE "none"]
                BY <1>1, <4>1 DEF InitiateRefund, TypeOK
            <4>3. ASSUME NEW p \in OrderIds
                  PROVE  /\ status[p] = "void" => status'[p] = "void"
                         /\ status[p] = "settled" /\ status'[p] # "settled" =>
                              status'[p] = "void" /\ invStatus'[p] = "void" /\ refundRows'[p] > refundRows[p]
                <5>1. /\ status \in [OrderIds -> OrderStatus] /\ invStatus \in [OrderIds -> InvoiceStatus]
                      /\ refundRows \in [OrderIds -> Nat] /\ a > 0 /\ a \in Nat
                      /\ status[p] = "settled" => invStatus[p] # "none"
                    <6>1. /\ status \in [OrderIds -> OrderStatus] /\ invStatus \in [OrderIds -> InvoiceStatus]
                          /\ refundRows \in [OrderIds -> Nat]
                        BY <1>1 DEF TypeOK
                    <6>2. a > 0 /\ a \in Nat
                        OBVIOUS
                    <6>3. status[p] = "settled" => invStatus[p] # "none"
                        BY DEF Books, StatusMatchesInvoice
                    <6>4. QED
                        BY <6>1, <6>2, <6>3
                <5>2. CASE UNCHANGED <<status, invStatus>>
                    BY <5>2
                <5>3. CASE status' = [status EXCEPT ![o] = "void"]
                    BY <4>2, <5>1, <5>3
                <5>4. QED
                    BY <4>2, <5>2, <5>3
            <4>4. QED
                BY <4>3 DEF ClosedStep
        <3>5. QED
            BY <2>5, <3>1, <3>2, <3>3, <3>4 DEF MoveMoney
    <2>6. QED
        BY <2>1, <2>2, <2>3, <2>4, <2>5
<1>4. QED
    BY <1>2, <1>3

\* Void is final; a settled order leaves only for void, through a refund that
\* voids its invoice.
THEOREM ClosedForGood == Spec => ClosedStaysClosed
<1>1. Books /\ [Next]_vars => [ClosedStep]_vars
    BY ClosedStepNext
<1>2. Spec => [][ClosedStep]_vars
    BY <1>1, BooksAlways, PTL DEF Spec
<1>3. QED
    BY <1>2 DEF ClosedStep, ClosedStaysClosed

-----------------------------------------------------------------------------
(* The lines: an active line has units and an order that exists; a line the   *)
(* stock ledger knows has an order.                                           *)

LinesOwned ==
    \A i \in LineIds :
        /\ line[i].live => line[i].qty > 0
        /\ line[i].order = NoOrder => stockOut[i] = 0 /\ ~line[i].live
        /\ line[i].order # NoOrder => status[line[i].order] # "none"

Rows == Books /\ LinesOwned /\ MergedOrdersAreEmpty /\ StockFollowsSale

\* What a step that takes no stock may do to a line: leave it with its order,
\* put a fresh row on an open order, or move an active one between open orders.
LineKept(i) ==
    /\ line'[i].order = line[i].order
    /\ line'[i].live => line[i].live /\ line'[i].qty > 0
    /\ line[i].kitchen > 0 => line'[i].kitchen > 0
LineOpened(i) ==
    /\ line[i].order = NoOrder
    /\ line'[i].order \in OrderIds /\ status'[line'[i].order] = "open"
    /\ line'[i].qty > 0
LineMoved(i) ==
    /\ line[i].order \in OrderIds /\ status[line[i].order] = "open"
    /\ line'[i].order \in OrderIds /\ status'[line'[i].order] = "open"
    /\ line'[i].qty > 0
LineSteps == \A i \in LineIds : LineKept(i) \/ LineOpened(i) \/ LineMoved(i)

\* Invoices and refunds are never withdrawn, orders never disappear.
DocsKept ==
    \A o \in OrderIds :
        /\ invStatus[o] # "none" => invStatus'[o] # "none"
        /\ refundRows[o] > 0 => refundRows'[o] > 0
        /\ status[o] # "none" => status'[o] # "none"

\* A step that takes no stock keeps the lines' invariants if it treats each line as LineSteps allows.
LEMMA RowsFrame ==
    ASSUME Rows, LineSteps, DocsKept, stockOut' = stockOut
    PROVE  LinesOwned' /\ StockFollowsSale'
<1> USE OrdersAssumption
<1>1. ASSUME NEW i \in LineIds
      PROVE  /\ line[i].order \in OrderIds \union {NoOrder}
             /\ line[i].live => line[i].qty > 0
             /\ line[i].order = NoOrder => stockOut[i] = 0 /\ ~line[i].live
             /\ line[i].order # NoOrder => status[line[i].order] # "none"
             /\ stockOut[i] > 0 => line[i].kitchen > 0 /\ invStatus[line[i].order] # "none"
             /\ stockOut[i] < 0 => refundRows[line[i].order] > 0
             /\ stockOut[i] \in Int
    BY DEF Rows, LinesOwned, StockFollowsSale, Books, TypeOK, Line
<1>2. ASSUME NEW o \in OrderIds, status[o] = "open"
      PROVE  invStatus[o] = "none" /\ ~(refundRows[o] > 0)
    BY <1>2 DEF Rows, Books, StatusMatchesInvoice, RefundedAreClosed
<1>3. ASSUME NEW i \in LineIds
      PROVE  /\ line'[i].live => line'[i].qty > 0
             /\ line'[i].order = NoOrder => stockOut[i] = 0 /\ ~line'[i].live
             /\ line'[i].order # NoOrder => status'[line'[i].order] # "none"
             /\ stockOut[i] > 0 => line'[i].kitchen > 0 /\ invStatus'[line'[i].order] # "none"
             /\ stockOut[i] < 0 => refundRows'[line'[i].order] > 0
    <2>1. CASE LineKept(i)
        BY <1>1, <2>1 DEF LineKept, DocsKept
    <2>2. CASE LineOpened(i)
        BY <1>1, <2>2 DEF LineOpened
    <2>3. CASE LineMoved(i)
        <3>1. stockOut[i] = 0
            BY <1>1, <1>2, <2>3 DEF LineMoved
        <3>2. QED
            BY <2>3, <3>1 DEF LineMoved
    <2>4. QED
        BY <2>1, <2>2, <2>3 DEF LineSteps
<1>4. QED
    BY <1>3 DEF LinesOwned, StockFollowsSale

\* As long as nothing is merged, merged orders stay void and empty.
LEMMA MergedFrame ==
    ASSUME Rows, LineSteps, ClosedStep, mergedInto' = mergedInto
    PROVE  MergedOrdersAreEmpty'
<1>1. ASSUME NEW o \in OrderIds, mergedInto[o] # NoOrder
      PROVE  status'[o] = "void" /\ LiveLines(line', o) = {} /\ mergedInto[o] # o
    <2>1. status[o] = "void" /\ LiveLines(line, o) = {} /\ mergedInto[o] # o
        BY <1>1 DEF Rows, MergedOrdersAreEmpty
    <2>2. status'[o] = "void"
        BY <2>1 DEF ClosedStep
    <2>3. ASSUME NEW i \in LineIds, line'[i].order = o, line'[i].live PROVE FALSE
        <3>1. LineKept(i)
            BY <2>2, <2>3 DEF LineSteps, LineOpened, LineMoved
        <3>2. i \in LiveLines(line, o)
            BY <2>3, <3>1 DEF LineKept, LiveLines
        <3>3. QED
            BY <2>1, <3>2
    <2>4. QED
        BY <2>1, <2>2, <2>3 DEF LiveLines
<1>2. QED
    BY <1>1 DEF MergedOrdersAreEmpty

\* Cart edits treat every line as LineSteps allows.
LEMMA RowsEditCart ==
    ASSUME Rows, NEW o \in OrderIds, EditCart(o)
    PROVE  LineSteps /\ DocsKept /\ UNCHANGED <<stockOut, mergedInto>>
<1> USE OrdersAssumption
<1>1. TypeOK /\ \A i \in LineIds : line[i].live => line[i].qty > 0
    BY DEF Rows, Books, LinesOwned
<1>2. DocsKept /\ UNCHANGED <<stockOut, mergedInto>>
    <2>1. UNCHANGED <<money, doc, stock, mergedInto>>
        BY DEF EditCart, CreateOrder, AddItem, SetItemQty, UpdateItemModifiers, VoidItem,
               ApplyDiscount, SetServiceCharge, VoidOrder
    <2>2. \A p \in OrderIds : status[p] # "none" => status'[p] # "none"
        BY <1>1 DEF EditCart, CreateOrder, AddItem, SetItemQty, UpdateItemModifiers, VoidItem,
               ApplyDiscount, SetServiceCharge, VoidOrder, TypeOK
    <2>3. QED
        BY <2>1, <2>2 DEF DocsKept, money, doc, stock
<1>3. LineSteps
    <2>1. CASE line' = line
        BY <1>1, <2>1 DEF LineSteps, LineKept
    <2>2. CASE \E i \in LineIds, n \in Quantities, p \in Prices, d \in Deltas : AddItem(o, i, n, p, d)
        BY <1>1, <2>2 DEF AddItem, TypeOK, LineSteps, LineKept, LineOpened
    <2>3. CASE \E i \in LineIds, n \in Quantities \union {0} : SetItemQty(o, i, n)
        BY <1>1, <2>3 DEF SetItemQty, TypeOK, Line, LiveLines, LineSteps, LineKept
    <2>4. CASE \E i \in LineIds, d \in Deltas : UpdateItemModifiers(o, i, d)
        BY <1>1, <2>4 DEF UpdateItemModifiers, TypeOK, Line, LineSteps, LineKept
    <2>5. CASE \E i \in LineIds : VoidItem(o, i)
        BY <1>1, <2>5 DEF VoidItem, TypeOK, Line, LineSteps, LineKept
    <2>6. CASE \/ \E r \in ChargeRates : CreateOrder(o, r) \/ SetServiceCharge(o, r)
               \/ \E d \in Discounts : ApplyDiscount(o, d)
               \/ VoidOrder(o)
        BY <2>1, <2>6 DEF CreateOrder, SetServiceCharge, ApplyDiscount, VoidOrder, cart
    <2>7. QED
        BY <2>2, <2>3, <2>4, <2>5, <2>6 DEF EditCart
<1>4. QED
    BY <1>2, <1>3

\* A split moves lines of an open order to a new one.
LEMMA RowsSplit ==
    ASSUME Rows, NEW o \in OrderIds, NEW t \in OrderIds, NEW F \in SUBSET LineIds,
           NEW part \in Parts, SplitOrder(o, t, F, part)
    PROVE  LineSteps /\ DocsKept /\ UNCHANGED <<stockOut, mergedInto>>
<1> USE OrdersAssumption
<1>1. TypeOK /\ \A i \in LineIds : line[i] \in Line /\ (line[i].live => line[i].qty > 0)
    BY DEF Rows, Books, LinesOwned, TypeOK
<1>2. /\ status[o] = "open" /\ status[t] = "none" /\ status' = [status EXCEPT ![t] = "open"]
      /\ UNCHANGED <<money, doc, stock, mergedInto>>
    BY DEF SplitOrder
<1>3. status'[o] = "open" /\ status'[t] = "open"
    BY <1>1, <1>2 DEF TypeOK
<1>4. ASSUME NEW i \in LineIds PROVE LineKept(i) \/ LineOpened(i) \/ LineMoved(i)
    <2>1. CASE MovedWhole(o, t, i)
        BY <1>1, <1>2, <1>3, <2>1 DEF MovedWhole, LineMoved, LiveLines, Line
    <2>2. CASE MovedInPart(o, i)
        BY <1>1, <2>2 DEF MovedInPart, LineKept, LiveLines, Line
    <2>3. CASE Cloned(o, t, i)
        BY <1>3, <2>3 DEF Cloned, CloneOf, LineOpened
    <2>4. CASE line'[i] = line[i]
        BY <1>1, <2>4 DEF LineKept
    <2>5. QED
        BY <1>1, <2>1, <2>2, <2>3, <2>4, SplitLines
<1>5. DocsKept
    BY <1>1, <1>2 DEF DocsKept, TypeOK, money, doc
<1>6. QED
    BY <1>2, <1>4, <1>5 DEF LineSteps, stock

\* A merge leaves its sources without an active line.
LEMMA RowsMerge ==
    ASSUME Rows, NEW t \in OrderIds, NEW S \in SUBSET OrderIds, MergeOrders(t, S)
    PROVE  LineSteps /\ DocsKept /\ stockOut' = stockOut /\ MergedOrdersAreEmpty'
<1> USE OrdersAssumption
<1>1. TypeOK /\ \A i \in LineIds : line[i] \in Line /\ (line[i].live => line[i].qty > 0)
    BY DEF Rows, Books, LinesOwned, TypeOK
<1>2. /\ status[t] = "open" /\ t \notin S /\ \A s \in S : status[s] = "open"
      /\ line' = MergedLines(t, S)
      /\ mergedInto' = [o \in OrderIds |-> IF o \in S THEN t ELSE mergedInto[o]]
      /\ status'     = [o \in OrderIds |-> IF o \in S THEN "void" ELSE status[o]]
      /\ UNCHANGED <<money, doc, stock>>
    BY DEF MergeOrders
<1>3. ASSUME NEW i \in LineIds
      PROVE  \/ /\ line[i].order \in S /\ line[i].live
                /\ line'[i] = [line[i] EXCEPT !.order = t]
             \/ /\ ~(line[i].order \in S /\ line[i].live)
                /\ line'[i] = line[i]
    BY <1>2 DEF MergedLines
<1>4. LineSteps
    <2>1. ASSUME NEW i \in LineIds, line[i].order \in S, line[i].live,
                 line'[i] = [line[i] EXCEPT !.order = t]
          PROVE  LineMoved(i)
        BY <1>1, <1>2, <2>1 DEF LineMoved, Line
    <2>2. ASSUME NEW i \in LineIds, line'[i] = line[i]
          PROVE  LineKept(i)
        BY <1>1, <2>2 DEF LineKept
    <2>3. QED
        BY <1>3, <2>1, <2>2 DEF LineSteps
<1>5. DocsKept /\ stockOut' = stockOut
    BY <1>1, <1>2 DEF DocsKept, TypeOK, money, doc, stock
<1>6. ASSUME NEW o \in OrderIds, mergedInto'[o] # NoOrder
      PROVE  status'[o] = "void" /\ LiveLines(line', o) = {} /\ mergedInto'[o] # o
    <2>1. \A i \in LineIds : line'[i].order = o /\ line'[i].live =>
                               \/ o \notin S /\ line[i].order = o /\ line[i].live
                               \/ o = t
        BY <1>1, <1>2, <1>3 DEF Line
    <2>2. CASE o \in S
        BY <1>2, <2>1, <2>2 DEF LiveLines
    <2>3. CASE o \notin S
        <3>1. mergedInto[o] # NoOrder /\ mergedInto'[o] = mergedInto[o] /\ status'[o] = status[o]
            BY <1>2, <1>6, <2>3
        <3>2. status[o] = "void" /\ LiveLines(line, o) = {} /\ mergedInto[o] # o
            BY <3>1 DEF Rows, MergedOrdersAreEmpty
        <3>3. o # t
            BY <1>2, <3>2
        <3>4. QED
            BY <2>1, <3>1, <3>2, <3>3 DEF LiveLines
    <2>4. QED
        BY <2>2, <2>3
<1>7. QED
    BY <1>4, <1>5, <1>6 DEF MergedOrdersAreEmpty

\* Routing sends every active line to the kitchen and moves none.
LEMMA RoutedKeeps ==
    ASSUME Rows, NEW o \in OrderIds, line' = Routed(o)
    PROVE  LineSteps /\ \A i \in LiveLines(line, o) : line'[i].kitchen > 0
<1>1. ASSUME NEW i \in LineIds
      PROVE  /\ line[i] \in Line /\ (line[i].live => line[i].qty > 0)
             /\ line'[i] = IF i \in LiveLines(line, o) /\ line[i].kitchen = 0
                           THEN [line[i] EXCEPT !.kitchen = line[i].qty] ELSE line[i]
    BY DEF Rows, Books, TypeOK, LinesOwned, Routed
<1>2. ASSUME NEW i \in LineIds
      PROVE  LineKept(i) /\ (i \in LiveLines(line, o) => line'[i].kitchen > 0)
    <2>1. line[i] \in Line /\ (line[i].live => line[i].qty > 0)
        BY <1>1
    <2>2. CASE i \in LiveLines(line, o) /\ line[i].kitchen = 0
        <3>1. line'[i] = [line[i] EXCEPT !.kitchen = line[i].qty]
            BY <1>1, <2>2
        <3>2. QED
            BY <2>1, <2>2, <3>1 DEF LineKept, Line, LiveLines
    <2>3. CASE ~(i \in LiveLines(line, o) /\ line[i].kitchen = 0)
        <3>1. line'[i] = line[i]
            BY <1>1, <2>3
        <3>2. QED
            BY <2>1, <2>3, <3>1 DEF LineKept, Line
    <2>4. QED
        BY <2>2, <2>3
<1>3. QED
    BY <1>2 DEF LineSteps, LiveLines

\* The money actions that take no stock.
LEMMA RowsPay ==
    ASSUME Rows, NEW o \in OrderIds,
           \/ \E a \in Amounts, k \in Keys \union {NoKey} : AddPayment(o, a, k) \/ RefundPayment(o, a, k)
           \/ SettleAndInvoice(o)
           \/ VoidInvoice(o)
    PROVE  LineSteps /\ DocsKept /\ UNCHANGED <<stockOut, mergedInto>>
<1>1. TypeOK /\ \A i \in LineIds : line[i].live => line[i].qty > 0
    BY DEF Rows, Books, LinesOwned
<1>2. CASE \E a \in Amounts, k \in Keys \union {NoKey} : AddPayment(o, a, k) \/ RefundPayment(o, a, k)
    <2>1. UNCHANGED <<line, status, stockOut, mergedInto, refundRows, invStatus>>
        BY <1>2 DEF AddPayment, RefundPayment, cart, stock, doc
    <2>2. QED
        BY <1>1, <2>1 DEF LineSteps, LineKept, DocsKept
<1>3. CASE SettleAndInvoice(o)
    <2>1. UNCHANGED <<line, stockOut, mergedInto, refundRows>> /\ Settle(o)
        BY <1>3 DEF SettleAndInvoice, cart, stock, money
    <2>2. QED
        BY <1>1, <2>1 DEF Settle, TypeOK, LineSteps, LineKept, DocsKept
<1>4. CASE VoidInvoice(o)
    <2>1. /\ UNCHANGED <<line, status, stockOut, mergedInto, refundRows>>
          /\ invStatus' = [invStatus EXCEPT ![o] = "void"]
        BY <1>4 DEF VoidInvoice, cart, stock, money
    <2>2. QED
        BY <1>1, <2>1 DEF TypeOK, LineSteps, LineKept, DocsKept
<1>5. QED
    BY <1>2, <1>3, <1>4

\* A checkout routes to the kitchen every line it takes stock for, and leaves
\* the order invoiced.
LEMMA RowsCheckout ==
    ASSUME Rows, NEW o \in OrderIds, CompleteCheckout(o)
    PROVE  LineSteps /\ mergedInto' = mergedInto /\ LinesOwned' /\ StockFollowsSale'
<1> USE OrdersAssumption
<1>1. TypeOK
    BY DEF Rows, Books
<1>2. line' = Routed(o) /\ UNCHANGED <<mergedInto, refundRows>>
    BY DEF CompleteCheckout
<1>3. LineSteps /\ \A i \in LiveLines(line, o) : line'[i].kitchen > 0
    BY <1>2, RoutedKeeps
<1>4. ASSUME NEW i \in LineIds
      PROVE  /\ line'[i].order = line[i].order /\ line'[i].live = line[i].live
             /\ line'[i].qty = line[i].qty /\ line'[i].kitchen \in Nat
             /\ line[i].kitchen > 0 => line'[i].kitchen > 0
    BY <1>1, <1>2 DEF Routed, TypeOK, Line
<1>5. \/ invStatus[o] # "none" /\ UNCHANGED <<status, doc>>
      \/ invStatus[o] = "none" /\ Settle(o)
    BY DEF CompleteCheckout
<1>6. /\ invStatus'[o] # "none"
      /\ \A p \in OrderIds : /\ invStatus[p] # "none" => invStatus'[p] # "none"
                             /\ status[p] # "none" => status'[p] # "none"
    BY <1>1, <1>5 DEF Settle, TypeOK, doc
<1>7. ASSUME NEW i \in LineIds
      PROVE  /\ stockOut'[i] > 0 => stockOut[i] > 0 \/ i \in LiveLines(line, o)
             /\ stockOut'[i] < 0 => stockOut[i] < 0
             /\ i \notin LiveLines(line, o) => stockOut'[i] = stockOut[i]
    <2>1. line[i].qty \in Nat /\ stockOut[i] \in Int
        BY <1>1 DEF TypeOK, Line
    <2>2. QED
        BY <1>1, <2>1 DEF CompleteCheckout, TypeOK
<1>8. ASSUME NEW i \in LineIds
      PROVE  /\ line[i].order \in OrderIds \union {NoOrder}
             /\ line[i].live => line[i].qty > 0
             /\ line[i].order = NoOrder => stockOut[i] = 0 /\ ~line[i].live
             /\ line[i].order # NoOrder => status[line[i].order] # "none"
             /\ stockOut[i] > 0 => line[i].kitchen > 0 /\ invStatus[line[i].order] # "none"
             /\ stockOut[i] < 0 => refundRows[line[i].order] > 0
    BY DEF Rows, LinesOwned, StockFollowsSale, Books, TypeOK, Line
<1>9. LinesOwned'
    BY <1>4, <1>6, <1>7, <1>8 DEF LinesOwned, LiveLines
<1>10. ASSUME NEW i \in LineIds
       PROVE  /\ stockOut'[i] > 0 => line'[i].kitchen > 0 /\ invStatus'[line'[i].order] # "none"
              /\ stockOut'[i] < 0 => refundRows'[line'[i].order] > 0
    <2>1. CASE i \in LiveLines(line, o)
        BY <1>2, <1>3, <1>4, <1>6, <1>7, <1>8, <2>1 DEF LiveLines
    <2>2. CASE i \notin LiveLines(line, o)
        <3>1. stockOut'[i] = stockOut[i]
            BY <1>7, <2>2
        <3>2. stockOut[i] # 0 => line[i].order \in OrderIds
            BY <1>8
        <3>3. stockOut[i] \in Int
            BY <1>1 DEF TypeOK
        <3>4. QED
            BY <1>2, <1>4, <1>6, <1>8, <3>1, <3>2, <3>3
    <2>3. QED
        BY <2>1, <2>2
<1>11. QED
    BY <1>2, <1>3, <1>9, <1>10 DEF StockFollowsSale

\* A refund gives stock back only for an order it just recorded a refund for.
LEMMA RowsRefund ==
    ASSUME Rows, NEW o \in OrderIds, NEW a \in Amounts, NEW full \in BOOLEAN, NEW restock \in BOOLEAN,
           InitiateRefund(o, a, full, restock)
    PROVE  LineSteps /\ mergedInto' = mergedInto /\ LinesOwned' /\ StockFollowsSale'
<1> USE OrdersAssumption
<1>1. TypeOK /\ \A i \in LineIds : line[i] \in Line /\ (line[i].live => line[i].qty > 0)
    BY DEF Rows, Books, LinesOwned, TypeOK
<1>2. /\ UNCHANGED <<line, mergedInto>>
      /\ refundRows' = [refundRows EXCEPT ![o] = refundRows[o] + a]
      /\ \/ UNCHANGED <<status, invStatus>>
         \/ /\ status' = [status EXCEPT ![o] = "void"]
            /\ invStatus' = [invStatus EXCEPT ![o] = IF invStatus[o] # "none" THEN "void" ELSE "none"]
    BY <1>1 DEF InitiateRefund, TypeOK, cart
<1>3. LineSteps
    BY <1>1, <1>2 DEF LineSteps, LineKept
<1>4. \A p \in OrderIds : /\ invStatus[p] # "none" => invStatus'[p] # "none"
                          /\ status[p] # "none" => status'[p] # "none"
                          /\ refundRows[p] > 0 => refundRows'[p] > 0
    BY <1>1, <1>2 DEF TypeOK
<1>5. refundRows'[o] > 0
    BY <1>1, <1>2 DEF TypeOK
<1>6. total[o] \in Nat /\ total[o] > 0
    BY <1>1 DEF InitiateRefund, TypeOK
<1>7. ASSUME NEW i \in LineIds
      PROVE  /\ stockOut'[i] <= stockOut[i] /\ stockOut'[i] \in Int
             /\ i \notin LiveLines(line, o) => stockOut'[i] = stockOut[i]
    <2>1. line[i].qty \in Nat /\ Hundredths(line[i].qty * a, total[o]) \in Nat /\ stockOut[i] \in Int
        BY <1>1, <1>6, ProductNat, HundredthsNat DEF TypeOK, Line
    <2>2. QED
        BY <2>1 DEF InitiateRefund
<1>8. ASSUME NEW i \in LineIds
      PROVE  /\ line[i].order \in OrderIds \union {NoOrder}
             /\ line[i].order = NoOrder => stockOut[i] = 0 /\ ~line[i].live
             /\ line[i].order # NoOrder => status[line[i].order] # "none"
             /\ stockOut[i] > 0 => line[i].kitchen > 0 /\ invStatus[line[i].order] # "none"
             /\ stockOut[i] < 0 => refundRows[line[i].order] > 0
             /\ stockOut[i] \in Int
    BY <1>1 DEF Rows, LinesOwned, StockFollowsSale, TypeOK, Line
<1>9. LinesOwned'
    BY <1>1, <1>2, <1>4, <1>7, <1>8 DEF LinesOwned, LiveLines
<1>10. ASSUME NEW i \in LineIds
       PROVE  /\ stockOut'[i] > 0 => line[i].kitchen > 0 /\ invStatus'[line[i].order] # "none"
              /\ stockOut'[i] < 0 => refundRows'[line[i].order] > 0
    <2>1. CASE i \in LiveLines(line, o)
        BY <1>4, <1>5, <1>7, <1>8, <2>1 DEF LiveLines
    <2>2. CASE i \notin LiveLines(line, o)
        <3>1. stockOut'[i] = stockOut[i] /\ (stockOut[i] # 0 => line[i].order \in OrderIds)
            BY <1>7, <1>8, <2>2
        <3>2. QED
            BY <1>4, <1>8, <3>1
    <2>3. QED
        BY <2>1, <2>2
<1>11. QED
    BY <1>2, <1>3, <1>9, <1>10 DEF StockFollowsSale

\* Rows is inductive.
LEMMA RowsNext ==
    ASSUME Rows, [Next]_vars
    PROVE  Rows' /\ LineSteps
<1>1. Books' /\ ClosedStep
    BY BooksNext, ClosedStepNext DEF Rows
<1>2. TypeOK /\ \A i \in LineIds : line[i].live => line[i].qty > 0
    BY DEF Rows, Books, LinesOwned
<1>3. SUFFICES LineSteps /\ LinesOwned' /\ StockFollowsSale' /\ MergedOrdersAreEmpty'
    BY <1>1 DEF Rows
<1>4. ASSUME LineSteps, DocsKept, UNCHANGED <<stockOut, mergedInto>>
      PROVE  LineSteps /\ LinesOwned' /\ StockFollowsSale' /\ MergedOrdersAreEmpty'
    BY <1>1, <1>4, RowsFrame, MergedFrame
<1>5. CASE UNCHANGED vars
    <2>1. UNCHANGED <<line, status, invStatus, refundRows, stockOut, mergedInto>>
        BY <1>5 DEF vars, cart, money, doc, stock
    <2>2. LineSteps /\ DocsKept
        BY <1>2, <2>1 DEF LineSteps, LineKept, DocsKept
    <2>3. QED
        BY <1>4, <2>1, <2>2
<1>6. CASE Next
    <2>1. PICK o \in OrderIds : EditCart(o) \/ MoveLines(o) \/ MoveMoney(o) \/ GenerateKots(o)
        BY <1>6 DEF Next
    <2>2. CASE EditCart(o)
        BY <1>4, <2>2, RowsEditCart
    <2>3. CASE \E t \in OrderIds, F \in SUBSET LineIds, part \in Parts : SplitOrder(o, t, F, part)
        BY <1>4, <2>3, RowsSplit
    <2>4. CASE \E S \in SUBSET OrderIds : MergeOrders(o, S)
        BY <2>4, RowsMerge, RowsFrame
    <2>5. CASE GenerateKots(o)
        <3>1. line' = Routed(o) /\ UNCHANGED <<status, invStatus, refundRows, stockOut, mergedInto>>
            BY <2>5 DEF GenerateKots, money, doc, stock
        <3>2. LineSteps /\ DocsKept
            BY <3>1, RoutedKeeps DEF DocsKept
        <3>3. QED
            BY <1>4, <3>1, <3>2
    <2>6. CASE \/ \E a \in Amounts, k \in Keys \union {NoKey} : AddPayment(o, a, k) \/ RefundPayment(o, a, k)
               \/ SettleAndInvoice(o)
               \/ VoidInvoice(o)
        BY <1>4, <2>6, RowsPay
    <2>7. CASE CompleteCheckout(o)
        BY <1>1, <2>7, RowsCheckout, MergedFrame
    <2>8. CASE \E a \in Amounts, full \in BOOLEAN, restock \in BOOLEAN : InitiateRefund(o, a, full, restock)
        BY <1>1, <2>8, RowsRefund, MergedFrame
    <2>9. QED
        BY <2>1, <2>2, <2>3, <2>4, <2>5, <2>6, <2>7, <2>8 DEF MoveLines, MoveMoney
<1>7. QED
    BY <1>5, <1>6

\* An empty database has its rows in order.
LEMMA RowsInit == Init => Rows
<1> SUFFICES ASSUME Init PROVE Rows
    OBVIOUS
<1>1. Books
    BY BooksInit
<1>2. LinesOwned /\ MergedOrdersAreEmpty /\ StockFollowsSale
    BY DEF Init, NoLine, LinesOwned, MergedOrdersAreEmpty, StockFollowsSale
<1>3. QED
    BY <1>1, <1>2 DEF Rows

\* Rows is an invariant.
LEMMA RowsAlways == Spec => []Rows
<1>1. Rows /\ [Next]_vars => Rows'
    BY RowsNext
<1>2. QED
    BY <1>1, RowsInit, PTL DEF Spec

\* An order merged into another is void for good and keeps no active line,
\* however many orders are split and merged in whatever order.
THEOREM MergedEmpty == Spec => []MergedOrdersAreEmpty
<1>1. Rows => MergedOrdersAreEmpty
    BY DEF Rows
<1>2. QED
    BY <1>1, RowsAlways, PTL

\* Stock is out only for invoiced lines the kitchen has, and back beyond what
\* was taken only for refunded orders.
THEOREM StockWithSale == Spec => []StockFollowsSale
<1>1. Rows => StockFollowsSale
    BY DEF Rows
<1>2. QED
    BY <1>1, RowsAlways, PTL

-----------------------------------------------------------------------------
(* The bill: an order's stored total is recomputed by every step that touches *)
(* its lines, its discount or its rate, so what has to be shown is that no    *)
(* step touches the lines of an order it does not recalculate.                *)

UnbilledIsFree == \A o \in OrderIds : status[o] = "none" => total[o] = 0
Bills == Rows /\ BillIsCurrent /\ UnbilledIsFree

SameLines(o) ==
    /\ LiveLines(line', o) = LiveLines(line, o)
    /\ \A i \in LiveLines(line, o) : LineTotal(line'[i]) = LineTotal(line[i])

\* An order with the same active lines has the same bill.
LEMMA SameBill ==
    ASSUME NEW o, SameLines(o), NEW d, NEW r
    PROVE  Bill(line', o, d, r) = Bill(line, o, d, r)
<1>1. [i \in LiveLines(line', o) |-> LineTotal(line'[i])] = [i \in LiveLines(line, o) |-> LineTotal(line[i])]
    BY DEF SameLines
<1>2. Subtotal(line', o) = Subtotal(line, o)
    BY <1>1 DEF Subtotal
<1>3. QED
    BY <1>2 DEF Bill

\* An order without active lines has a bill of zero.
LEMMA EmptyBill ==
    ASSUME NEW ln, NEW o, LiveLines(ln, o) = {}, NEW d \in Discount, NEW r \in Nat
    PROVE  Bill(ln, o, d, r) = 0
<1>1. Subtotal(ln, o) = 0
    BY SumOverEmpty DEF Subtotal
<1>2. DiscountAmount(d, 0) = 0
    BY DiscountAmountNat
<1>3. HalfUp(0 * r, 100) = 0
    <2>1. 0 * r = 0
        OBVIOUS
    <2>2. HalfUp(0, 100) = 0
        BY DEF HalfUp
    <2>3. QED
        BY <2>1, <2>2
<1>4. Bill(ln, o, d, r) = (0 - 0) + HalfUp((0 - 0) * r, 100)
    BY <1>1, <1>2 DEF Bill
<1>5. QED
    BY <1>3, <1>4

\* A step that recalculates the orders of S and touches no other is safe.
LEMMA RecalculateCurrent ==
    ASSUME Bills, NEW S \in SUBSET OrderIds, Recalculate(S),
           \A o \in S : status'[o] # "none",
           \A o \in OrderIds \ S : SameLines(o) /\ UNCHANGED <<discount[o], rate[o], status[o]>>
    PROVE  BillIsCurrent' /\ UnbilledIsFree'
<1>1. ASSUME NEW o \in OrderIds
      PROVE  /\ status'[o] # "none" => total'[o] = Bill(line', o, discount'[o], rate'[o])
             /\ status'[o] = "none" => total'[o] = 0
    <2>1. CASE o \in S
        BY <2>1 DEF Recalculate
    <2>2. CASE o \notin S
        <3>1. total'[o] = total[o] /\ status'[o] = status[o]
            BY <2>2 DEF Recalculate
        <3>2. status[o] # "none" => total[o] = Bill(line, o, discount[o], rate[o])
            BY DEF Bills, BillIsCurrent
        <3>3. Bill(line', o, discount'[o], rate'[o]) = Bill(line, o, discount[o], rate[o])
            BY <2>2, SameBill
        <3>4. QED
            BY <3>1, <3>2, <3>3 DEF Bills, UnbilledIsFree
    <2>3. QED
        BY <2>1, <2>2
<1>2. QED
    BY <1>1 DEF BillIsCurrent, UnbilledIsFree

\* A step that leaves every total and every line's amount alone is safe, whether
\* or not it closes an order.
LEMMA UntouchedCurrent ==
    ASSUME Bills, UNCHANGED <<total, discount, rate>>, \A o \in OrderIds : SameLines(o),
           \A o \in OrderIds : status'[o] = "none" <=> status[o] = "none"
    PROVE  BillIsCurrent' /\ UnbilledIsFree'
<1>1. ASSUME NEW o \in OrderIds
      PROVE  Bill(line', o, discount'[o], rate'[o]) = Bill(line, o, discount[o], rate[o])
    BY SameBill
<1>2. QED
    BY <1>1 DEF Bills, BillIsCurrent, UnbilledIsFree

\* Editing one line of o, or giving o a fresh one, touches no other order.
LEMMA OneLineEdited ==
    ASSUME TypeOK, NEW o \in OrderIds, NEW i \in LineIds,
           \A j \in LineIds \ {i} : line'[j] = line[j],
           line[i].order \in {o, NoOrder}, line'[i].order = o, NEW p \in OrderIds \ {o}
    PROVE  SameLines(p)
<1>1. i \notin LiveLines(line, p) /\ i \notin LiveLines(line', p)
    BY OrdersAssumption DEF LiveLines
<1>2. QED
    BY <1>1 DEF SameLines, LiveLines

\* Unchanged lines are the same lines.
LEMMA SameLinesIfUnchanged ==
    ASSUME line' = line, NEW o
    PROVE  SameLines(o)
BY DEF SameLines, LiveLines

\* Every cart edit that changes a line, a discount or a rate recalculates its order.
LEMMA BillsEditCart ==
    ASSUME Bills, NEW o \in OrderIds, EditCart(o)
    PROVE  BillIsCurrent' /\ UnbilledIsFree'
<1> USE OrdersAssumption
<1>1. TypeOK /\ LinesOwned
    BY DEF Bills, Rows, Books
<1>2. CASE \E r \in ChargeRates : CreateOrder(o, r)
    <2>1. PICK r \in ChargeRates : CreateOrder(o, r)
        BY <1>2
    <2>2. /\ status[o] = "none" /\ total[o] = 0
          /\ status' = [status EXCEPT ![o] = "open"]
          /\ rate' = [rate EXCEPT ![o] = r]
          /\ UNCHANGED <<line, discount, total>>
        BY <2>1 DEF CreateOrder, bill, Bills, UnbilledIsFree
    <2>3. LiveLines(line, o) = {}
        BY <1>1, <2>2 DEF LinesOwned, LiveLines
    <2>4. Bill(line, o, discount[o], r) = 0
        BY <1>1, <2>3, EmptyBill DEF TypeOK
    <2>5. ASSUME NEW p \in OrderIds
          PROVE  /\ status'[p] # "none" => total'[p] = Bill(line', p, discount'[p], rate'[p])
                 /\ status'[p] = "none" => total'[p] = 0
        <3>1. CASE p = o
            BY <1>1, <2>2, <2>4, <3>1 DEF TypeOK
        <3>2. CASE p # o
            BY <1>1, <2>2, <3>2 DEF TypeOK, Bills, BillIsCurrent, UnbilledIsFree
        <3>3. QED
            BY <3>1, <3>2
    <2>6. QED
        BY <2>5 DEF BillIsCurrent, UnbilledIsFree
<1>3. CASE VoidOrder(o)
    BY <1>1, <1>3, SameLinesIfUnchanged, UntouchedCurrent DEF VoidOrder, TypeOK, cart, bill
<1>4. ASSUME status[o] # "none", UNCHANGED <<status>>, Recalculate({o}),
             \A p \in OrderIds \ {o} : SameLines(p) /\ UNCHANGED <<discount[p], rate[p]>>
      PROVE  BillIsCurrent' /\ UnbilledIsFree'
    BY <1>4, RecalculateCurrent
<1>5. CASE \E r \in ChargeRates : SetServiceCharge(o, r)
    BY <1>1, <1>4, <1>5, SameLinesIfUnchanged DEF SetServiceCharge, TypeOK
<1>6. CASE \E d \in Discounts : ApplyDiscount(o, d)
    BY <1>1, <1>4, <1>6, SameLinesIfUnchanged DEF ApplyDiscount, TypeOK
<1>7. ASSUME NEW i \in LineIds, status[o] # "none",
             UNCHANGED <<status, discount, rate>>, Recalculate({o}),
             \A j \in LineIds \ {i} : line'[j] = line[j],
             line[i].order \in {o, NoOrder}, line'[i].order = o
      PROVE  BillIsCurrent' /\ UnbilledIsFree'
    BY <1>1, <1>4, <1>7, OneLineEdited
<1>8. CASE \E i \in LineIds, n \in Quantities, p \in Prices, d \in Deltas : AddItem(o, i, n, p, d)
    BY <1>1, <1>7, <1>8 DEF AddItem, TypeOK
<1>9. CASE \E i \in LineIds, n \in Quantities \union {0} : SetItemQty(o, i, n)
    <2>1. PICK i \in LineIds, n \in Quantities \union {0} : SetItemQty(o, i, n)
        BY <1>9
    <2>2. line'[i].order = o /\ line[i].order = o
        BY <1>1, <2>1 DEF SetItemQty, TypeOK, Line, LiveLines
    <2>3. QED
        BY <1>1, <1>7, <2>1, <2>2 DEF SetItemQty, TypeOK
<1>10. CASE \E i \in LineIds, d \in Deltas : UpdateItemModifiers(o, i, d)
    <2>1. PICK i \in LineIds, d \in Deltas : UpdateItemModifiers(o, i, d)
        BY <1>10
    <2>2. line'[i].order = o /\ line[i].order = o
        BY <1>1, <2>1 DEF UpdateItemModifiers, TypeOK, Line, LiveLines
    <2>3. QED
        BY <1>1, <1>7, <2>1, <2>2 DEF UpdateItemModifiers, TypeOK
<1>11. CASE \E i \in LineIds : VoidItem(o, i)
    <2>1. PICK i \in LineIds : VoidItem(o, i)
        BY <1>11
    <2>2. line'[i].order = o /\ line[i].order = o
        BY <1>1, <2>1 DEF VoidItem, TypeOK, Line
    <2>3. QED
        BY <1>1, <1>7, <2>1, <2>2 DEF VoidItem, TypeOK
<1>12. QED
    BY <1>2, <1>3, <1>5, <1>6, <1>8, <1>9, <1>10, <1>11 DEF EditCart

\* A split recalculates both bills.
LEMMA BillsSplit ==
    ASSUME Bills, NEW o \in OrderIds, NEW t \in OrderIds, NEW F \in SUBSET LineIds,
           NEW part \in Parts, SplitOrder(o, t, F, part)
    PROVE  BillIsCurrent' /\ UnbilledIsFree'
<1> USE OrdersAssumption
<1>1. TypeOK /\ \A i \in LineIds : line[i] \in Line
    BY DEF Bills, Rows, Books, TypeOK
<1>2. /\ status[o] = "open" /\ status' = [status EXCEPT ![t] = "open"]
      /\ rate' = [rate EXCEPT ![t] = rate[o]] /\ discount' = discount
      /\ Recalculate({o, t})
    BY DEF SplitOrder
<1>3. \A p \in {o, t} : status'[p] # "none"
    BY <1>1, <1>2 DEF TypeOK
<1>4. ASSUME NEW p \in OrderIds \ {o, t} PROVE SameLines(p)
    <2>1. ASSUME NEW i \in LineIds
          PROVE  \/ line'[i] = line[i]
                 \/ i \notin LiveLines(line, p) /\ i \notin LiveLines(line', p)
        <3>1. CASE MovedWhole(o, t, i)
            BY <1>1, <3>1 DEF MovedWhole, LiveLines, Line
        <3>2. CASE MovedInPart(o, i)
            BY <1>1, <3>2 DEF MovedInPart, LiveLines, Line
        <3>3. CASE Cloned(o, t, i)
            BY <3>3 DEF Cloned, CloneOf, LiveLines
        <3>4. QED
            BY <1>1, <3>1, <3>2, <3>3, SplitLines
    <2>2. QED
        BY <2>1 DEF SameLines, LiveLines
<1>5. \A p \in OrderIds \ {o, t} : UNCHANGED <<discount[p], rate[p], status[p]>>
    BY <1>1, <1>2 DEF TypeOK
<1>6. QED
    BY <1>2, <1>3, <1>4, <1>5, RecalculateCurrent

\* A merge recalculates the target and every source.
LEMMA BillsMerge ==
    ASSUME Bills, NEW t \in OrderIds, NEW S \in SUBSET OrderIds, MergeOrders(t, S)
    PROVE  BillIsCurrent' /\ UnbilledIsFree'
<1> USE OrdersAssumption
<1>1. TypeOK /\ \A i \in LineIds : line[i] \in Line
    BY DEF Bills, Rows, Books, TypeOK
<1>2. /\ status[t] = "open" /\ line' = MergedLines(t, S)
      /\ status' = [o \in OrderIds |-> IF o \in S THEN "void" ELSE status[o]]
      /\ UNCHANGED <<discount, rate>> /\ Recalculate(S \union {t})
    BY DEF MergeOrders
<1>3. \A p \in S \union {t} : status'[p] # "none"
    BY <1>2
<1>4. ASSUME NEW p \in OrderIds \ (S \union {t}) PROVE SameLines(p)
    <2>1. ASSUME NEW i \in LineIds
          PROVE  \/ line'[i] = line[i]
                 \/ i \notin LiveLines(line, p) /\ i \notin LiveLines(line', p)
        BY <1>1, <1>2 DEF MergedLines, LiveLines, Line
    <2>2. QED
        BY <2>1 DEF SameLines, LiveLines
<1>5. \A p \in OrderIds \ (S \union {t}) : UNCHANGED <<discount[p], rate[p], status[p]>>
    BY <1>2
<1>6. QED
    BY <1>2, <1>3, <1>4, <1>5, RecalculateCurrent

\* Routing to the kitchen changes no line total.
LEMMA RoutedSameLines ==
    ASSUME TypeOK, NEW o, line' = Routed(o), NEW p
    PROVE  SameLines(p)
<1>1. ASSUME NEW i \in LineIds
      PROVE  /\ line'[i].order = line[i].order /\ line'[i].live = line[i].live
             /\ line'[i].qty = line[i].qty /\ line'[i].price = line[i].price
             /\ line'[i].modTotal = line[i].modTotal
    BY DEF Routed, TypeOK, Line
<1>2. QED
    BY <1>1 DEF SameLines, LiveLines, LineTotal

\* Moving money changes no line, discount or rate.
LEMMA BillsMoveMoney ==
    ASSUME Bills, NEW o \in OrderIds, MoveMoney(o) \/ GenerateKots(o)
    PROVE  BillIsCurrent' /\ UnbilledIsFree'
<1> USE OrdersAssumption
<1>1. TypeOK
    BY DEF Bills, Rows, Books
<1>2. UNCHANGED <<total, discount, rate>>
    BY DEF MoveMoney, AddPayment, RefundPayment, SettleAndInvoice, VoidInvoice, CompleteCheckout,
           InitiateRefund, GenerateKots, cart, bill
<1>3. line' = line \/ line' = Routed(o)
    BY DEF MoveMoney, AddPayment, RefundPayment, SettleAndInvoice, VoidInvoice, CompleteCheckout,
           InitiateRefund, GenerateKots, cart
<1>4. \A p \in OrderIds : SameLines(p)
    BY <1>1, <1>3, SameLinesIfUnchanged, RoutedSameLines
<1>5. \/ status' = status
      \/ status[o] # "none" /\ status' = [status EXCEPT ![o] = "settled"]
      \/ status[o] # "none" /\ status' = [status EXCEPT ![o] = "void"]
    <2>1. CASE \E a \in Amounts, full \in BOOLEAN, restock \in BOOLEAN : InitiateRefund(o, a, full, restock)
        BY <1>1, <2>1 DEF InitiateRefund, TypeOK
    <2>2. CASE CompleteCheckout(o)
        BY <2>2 DEF CompleteCheckout, Settle
    <2>3. CASE SettleAndInvoice(o)
        BY <2>3 DEF SettleAndInvoice, Settle
    <2>4. CASE \/ \E a \in Amounts, k \in Keys \union {NoKey} : AddPayment(o, a, k) \/ RefundPayment(o, a, k)
               \/ VoidInvoice(o)
               \/ GenerateKots(o)
        BY <2>4 DEF AddPayment, RefundPayment, VoidInvoice, GenerateKots
    <2>5. QED
        BY <2>1, <2>2, <2>3, <2>4 DEF MoveMoney
<1>6. \A p \in OrderIds : status'[p] = "none" <=> status[p] = "none"
    BY <1>1, <1>5 DEF TypeOK
<1>7. QED
    BY <1>2, <1>4, <1>6, UntouchedCurrent

\* Bills is inductive.
LEMMA BillsNext == Bills /\ [Next]_vars => Bills'
<1> SUFFICES ASSUME Bills, [Next]_vars PROVE Bills'
    OBVIOUS
<1>1. Rows'
    BY RowsNext DEF Bills
<1>2. CASE UNCHANGED vars
    <2>1. UNCHANGED <<line, status, total, discount, rate>>
        BY <1>2 DEF vars, cart, bill
    <2>2. QED
        BY <1>1, <2>1, SameLinesIfUnchanged, UntouchedCurrent DEF Bills
<1>3. CASE Next
    <2>1. PICK o \in OrderIds : EditCart(o) \/ MoveLines(o) \/ MoveMoney(o) \/ GenerateKots(o)
        BY <1>3 DEF Next
    <2>2. BillIsCurrent' /\ UnbilledIsFree'
        BY <2>1, BillsEditCart, BillsSplit, BillsMerge, BillsMoveMoney DEF MoveLines
    <2>3. QED
        BY <1>1, <2>2 DEF Bills
<1>4. QED
    BY <1>2, <1>3

\* An empty database has its bills in order.
LEMMA BillsInit == Init => Bills
<1> SUFFICES ASSUME Init PROVE Bills
    OBVIOUS
<1>1. Rows
    BY RowsInit
<1>2. BillIsCurrent /\ UnbilledIsFree
    BY DEF Init, BillIsCurrent, UnbilledIsFree
<1>3. QED
    BY <1>1, <1>2 DEF Bills

\* The stored bill of every order is the bill of the lines it has now.
THEOREM BillCurrent == Spec => []BillIsCurrent
<1>1. Bills => BillIsCurrent
    BY DEF Bills
<1>2. Spec => []Bills
    BY BillsInit, BillsNext, PTL DEF Spec
<1>3. QED
    BY <1>1, <1>2, PTL

-----------------------------------------------------------------------------
(* Closed carts *)

FrozenStep ==
    \A i \in LineIds :
        /\ line[i].order # NoOrder /\ status[line[i].order] \in {"settled", "void"} =>
             /\ line'[i].order = line[i].order
             /\ line'[i].qty = line[i].qty /\ line'[i].modTotal = line[i].modTotal
             /\ line'[i].live => line[i].live
        /\ line[i].order = NoOrder /\ line'[i].order # NoOrder => status'[line'[i].order] = "open"

\* A closed order's lines only lose their active status.
LEMMA FrozenNext == Rows /\ [Next]_vars => FrozenStep
<1> SUFFICES ASSUME Rows, [Next]_vars PROVE FrozenStep
    OBVIOUS
<1> USE OrdersAssumption
<1>1. TypeOK /\ \A i \in LineIds : line[i] \in Line
    BY DEF Rows, Books, TypeOK
<1>2. LineSteps
    BY RowsNext
<1>3. ASSUME NEW i \in LineIds
      PROVE  /\ line[i].order # NoOrder /\ status[line[i].order] \in {"settled", "void"} =>
                  LineKept(i)
             /\ line[i].order = NoOrder /\ line'[i].order # NoOrder => status'[line'[i].order] = "open"
    BY <1>2 DEF LineSteps, LineKept, LineOpened, LineMoved
<1>4. ASSUME NEW i \in LineIds, line[i].order # NoOrder, status[line[i].order] \in {"settled", "void"}
      PROVE  line'[i].qty = line[i].qty /\ line'[i].modTotal = line[i].modTotal
    <2> DEFINE Kept == line'[i].qty = line[i].qty /\ line'[i].modTotal = line[i].modTotal
    <2>1. CASE line' = line
        BY <2>1
    <2>2. ASSUME NEW o \in OrderIds, line' = Routed(o) PROVE Kept
        BY <1>1, <2>2 DEF Routed, Line
    <2>3. ASSUME NEW o \in OrderIds, EditCart(o) PROVE Kept
        <3>1. CASE \E j \in LineIds, n \in Quantities, p \in Prices, d \in Deltas : AddItem(o, j, n, p, d)
            BY <1>1, <1>4, <3>1 DEF AddItem, TypeOK
        <3>2. CASE \E j \in LineIds, n \in Quantities \union {0} : SetItemQty(o, j, n)
            BY <1>1, <1>4, <3>2 DEF SetItemQty, LiveLines, TypeOK
        <3>3. CASE \E j \in LineIds, d \in Deltas : UpdateItemModifiers(o, j, d)
            BY <1>1, <1>4, <3>3 DEF UpdateItemModifiers, LiveLines, TypeOK
        <3>4. CASE \E j \in LineIds : VoidItem(o, j)
            BY <1>1, <3>4 DEF VoidItem, Line, TypeOK
        <3>5. CASE \/ \E r \in ChargeRates : CreateOrder(o, r) \/ SetServiceCharge(o, r)
                   \/ \E d \in Discounts : ApplyDiscount(o, d)
                   \/ VoidOrder(o)
            BY <2>1, <3>5 DEF CreateOrder, SetServiceCharge, ApplyDiscount, VoidOrder, cart
        <3>6. QED
            BY <2>3, <3>1, <3>2, <3>3, <3>4, <3>5 DEF EditCart
    <2>4. ASSUME NEW o \in OrderIds, NEW t \in OrderIds, NEW F \in SUBSET LineIds, NEW part \in Parts,
                 SplitOrder(o, t, F, part)
          PROVE  Kept
        <3>1. status[o] = "open"
            BY <2>4 DEF SplitOrder
        <3>2. ~MovedWhole(o, t, i) /\ ~MovedInPart(o, i) /\ ~Cloned(o, t, i)
            BY <1>4, <3>1 DEF MovedWhole, MovedInPart, Cloned, LiveLines
        <3>3. QED
            BY <1>1, <2>1, <2>4, <3>2, SplitLines
    <2>5. ASSUME NEW t \in OrderIds, NEW S \in SUBSET OrderIds, MergeOrders(t, S) PROVE Kept
        BY <1>1, <2>5 DEF MergeOrders, MergedLines, Line
    <2>6. ASSUME NEW o \in OrderIds, MoveMoney(o) \/ GenerateKots(o) PROVE Kept
        <3>1. line' = line \/ line' = Routed(o)
            BY <2>6 DEF MoveMoney, AddPayment, RefundPayment, SettleAndInvoice, VoidInvoice,
                        CompleteCheckout, InitiateRefund, GenerateKots, cart
        <3>2. QED
            BY <2>1, <2>2, <3>1
    <2>7. CASE UNCHANGED vars
        BY <2>1, <2>7 DEF vars, cart
    <2>8. CASE Next
        BY <2>3, <2>4, <2>5, <2>6, <2>8 DEF Next, MoveLines
    <2>9. QED
        BY <2>7, <2>8
<1>5. QED
    BY <1>3, <1>4 DEF FrozenStep, LineKept

\* Nobody adds to, requantifies, re-modifies or takes lines out of a closed order.
THEOREM CartFrozen == Spec => ClosedCartFrozen
<1>1. Rows /\ [Next]_vars => [FrozenStep]_vars
    BY FrozenNext
<1>2. Spec => [][FrozenStep]_vars
    BY <1>1, RowsAlways, PTL DEF Spec
<1>3. QED
    BY <1>2 DEF FrozenStep, ClosedCartFrozen

-----------------------------------------------------------------------------
(* Units *)

\* What a line counts for: its quantity while it is active.
UnitsOf(l) == IF l.live THEN l.qty ELSE 0
Units(ln) == [i \in LineIds |-> UnitsOf(ln[i])]

LEMMA UnitsSummable ==
    ASSUME NEW ln \in [LineIds -> Line]
    PROVE  IsSummable(Units(ln)) /\ DOMAIN Units(ln) = LineIds
BY OrdersAssumption DEF IsSummable, Units, UnitsOf, Line

\* The active quantity is the sum of what every line counts for.
LEMMA LiveQtyUnits ==
    ASSUME NEW ln \in [LineIds -> Line]
    PROVE  LiveQty(ln) = SumOver(Units(ln))
<1> DEFINE u == Units(ln)
           L == {j \in LineIds : ln[j].live}
<1>1. IsSummable(u) /\ DOMAIN u = LineIds /\ L \in SUBSET DOMAIN u
    BY UnitsSummable
<1>2. [i \in L |-> ln[i].qty] = [i \in L |-> u[i]] /\ \A i \in LineIds \ L : u[i] = 0
    BY DEF Units, UnitsOf
<1>3. LiveQty(ln) = SumOver([i \in L |-> u[i]])
    BY <1>2 DEF LiveQty
<1> HIDE DEF u, L
<1>4. SumOver(u) = SumOver([i \in L |-> u[i]])
    BY <1>1, <1>2, SumOverSupport
<1>5. QED
    BY <1>3, <1>4 DEF u

\* A split takes from each line moved in part what its clone gets.
LEMMA SplitConserves ==
    ASSUME Rows, TypeOK', NEW o \in OrderIds, NEW t \in OrderIds, NEW F \in SUBSET LineIds,
           NEW part \in Parts, SplitOrder(o, t, F, part)
    PROVE  LiveQty(line') = LiveQty(line)
<1> DEFINE P == DOMAIN part
           clones == {part[j][2] : j \in P}
           origin(c) == CHOOSE j \in P : part[j][2] = c
           to == [i \in P |-> part[i][2]]
           n == [i \in P |-> part[i][1]]
           f == Units(line)
           g == Units(line')
<1>1. line \in [LineIds -> Line] /\ line' \in [LineIds -> Line]
    BY DEF Rows, Books, TypeOK
<1>2. \A i \in P : i \in LineIds /\ part[i][1] \in Nat \ {0} /\ part[i][2] \in LineIds
    BY PartsTyped
<1>3. /\ F \subseteq LiveLines(line, o) /\ P \subseteq LiveLines(line, o)
      /\ F \intersect P = {}
      /\ \A i \in P : part[i][1] < line[i].qty /\ line[part[i][2]].order = NoOrder
      /\ \A i, j \in P : part[i][2] = part[j][2] => i = j
    BY DEF SplitOrder
<1>4. line' = [i \in LineIds |->
                  CASE i \in F -> [line[i] EXCEPT !.order = t]
                    [] i \in P -> [line[i] EXCEPT !.qty = Remainder(@, part[i][1])]
                    [] i \in clones -> CloneOf(line[origin(i)], t, part[origin(i)][1])
                    [] OTHER -> line[i]]
    BY DEF SplitOrder
<1>5. \A i \in LiveLines(line, o) : i \in LineIds /\ line[i].live /\ i \notin clones
    BY <1>3, OrdersAssumption DEF LiveLines
<1>6. \A i \in clones : i \in LineIds /\ i \notin F /\ i \notin P /\ ~line[i].live
    BY <1>2, <1>3, <1>5 DEF Rows, LinesOwned
<1>7. \A i \in P : origin(part[i][2]) = i
    BY <1>3
<1>8. ASSUME NEW i \in P
      PROVE  g[i] = f[i] - n[i] /\ g[to[i]] = f[to[i]] + n[i]
    <2> DEFINE c == part[i][2]
    <2>1. /\ i \in LineIds /\ i \notin F /\ i \notin clones
          /\ c \in clones /\ c \in LineIds /\ part[i][1] \in Nat
        BY <1>2, <1>3, <1>5
    <2>2. line'[i] = [line[i] EXCEPT !.qty = line[i].qty - part[i][1]]
        BY <1>4, <2>1 DEF Remainder
    <2>3. c \notin F /\ c \notin P /\ ~line[c].live
        BY <1>6, <2>1
    <2>4. line'[c] = CloneOf(line[i], t, part[i][1])
        BY <1>4, <1>7, <2>1, <2>3
    <2>5. line[i] \in Line /\ line[i].live
        BY <1>1, <1>3, <1>5, <2>1
    <2>6. f[i] = line[i].qty /\ g[i] = line[i].qty - part[i][1]
        BY <2>1, <2>2, <2>5 DEF Units, UnitsOf, Line
    <2>7. f[c] = 0 /\ g[c] = part[i][1]
        BY <2>1, <2>3, <2>4 DEF Units, UnitsOf, CloneOf
    <2>8. n[i] = part[i][1] /\ to[i] = c
        OBVIOUS
    <2> HIDE DEF f, g, n, to
    <2>9. QED
        BY <2>1, <2>6, <2>7, <2>8
<1>9. ASSUME NEW i \in LineIds, i \notin P, \A j \in P : to[j] # i
      PROVE  g[i] = f[i]
    <2>1. i \notin clones
        BY <1>9
    <2>2. line'[i] = line[i] \/ line'[i] = [line[i] EXCEPT !.order = t]
        BY <1>4, <1>9, <2>1
    <2>3. line[i] \in Line
        BY <1>1
    <2>4. line'[i].live = line[i].live /\ line'[i].qty = line[i].qty
        BY <2>2, <2>3 DEF Line
    <2>5. QED
        BY <2>4 DEF Units, UnitsOf
<1>10. IsSummable(f) /\ IsSummable(g) /\ DOMAIN f = LineIds /\ DOMAIN g = LineIds
    BY <1>1, UnitsSummable
<1>11. P \in SUBSET LineIds /\ to \in [P -> LineIds \ P] /\ n \in [P -> Int]
    BY <1>2, <1>6
<1>12. \A i, j \in P : to[i] = to[j] => i = j
    BY <1>3
<1> HIDE DEF P, to, n, f, g
<1>13. SumOver(g) = SumOver(f)
    BY <1>8, <1>9, <1>10, <1>11, <1>12, SumOverTransfer
<1>14. QED
    BY <1>1, <1>13, LiveQtyUnits DEF f, g

\* A merge changes the orders of lines and nothing else of them.
LEMMA MergeConserves ==
    ASSUME Rows, TypeOK', NEW t \in OrderIds, NEW S \in SUBSET OrderIds, MergeOrders(t, S)
    PROVE  LiveQty(line') = LiveQty(line)
<1>1. line \in [LineIds -> Line] /\ line' \in [LineIds -> Line]
    BY DEF Rows, Books, TypeOK
<1>2. \A i \in LineIds : line'[i].live = line[i].live /\ line'[i].qty = line[i].qty
    BY <1>1 DEF MergeOrders, MergedLines, Line
<1>3. Units(line') = Units(line)
    BY <1>2 DEF Units, UnitsOf
<1>4. QED
    BY <1>1, <1>3, LiveQtyUnits

Conserves ==
    /\ (\E i \in LineIds : Moved(i)) \/ (\E o \in OrderIds : BornWithLines(o))
         => LiveQty(line') = LiveQty(line)
    /\ \A i \in LineIds : Moved(i) =>
         status[line[i].order] = "open" /\ status'[line'[i].order] = "open"

\* A step that leaves each line with its order, or puts it on an open one, moves nothing.
LEMMA NothingMoved ==
    ASSUME Rows,
           \A i \in LineIds : \/ line'[i].order = line[i].order
                              \/ line[i].order = NoOrder /\ status[line'[i].order] = "open"
    PROVE  Conserves
<1>1. \A i \in LineIds : ~Moved(i)
    BY DEF Moved
<1>2. ASSUME NEW o \in OrderIds, BornWithLines(o) PROVE FALSE
    <2>1. PICK i \in LineIds : line'[i].order = o
        BY <1>2 DEF BornWithLines, LiveLines
    <2>2. line[i].order = o /\ o # NoOrder
        BY <1>2, <2>1, OrdersAssumption DEF BornWithLines
    <2>3. QED
        BY <1>2, <2>2 DEF BornWithLines, Rows, LinesOwned
<1>3. QED
    BY <1>1, <1>2 DEF Conserves

LEMMA ConservesNext == Rows /\ [Next]_vars => Conserves
<1> SUFFICES ASSUME Rows, [Next]_vars PROVE Conserves
    OBVIOUS
<1> DEFINE Stays(i) == \/ line'[i].order = line[i].order
                       \/ line[i].order = NoOrder /\ status[line'[i].order] = "open"
<1>1. TypeOK /\ TypeOK' /\ \A i \in LineIds : line[i] \in Line
    BY NextTyped DEF Rows, Books, TypeOK
<1>2. CASE \A i \in LineIds : Stays(i)
    BY <1>2, NothingMoved
<1>3. CASE line' = line
    BY <1>2, <1>3
<1>4. ASSUME NEW o \in OrderIds, EditCart(o) PROVE Conserves
    <2>1. CASE \E i \in LineIds, n \in Quantities, p \in Prices, d \in Deltas : AddItem(o, i, n, p, d)
        <3>1. \A i \in LineIds : Stays(i)
            BY <1>1, <2>1 DEF AddItem, TypeOK
        <3>2. QED
            BY <1>2, <3>1
    <2>2. CASE \E i \in LineIds, n \in Quantities \union {0} : SetItemQty(o, i, n)
        <3>1. \A i \in LineIds : Stays(i)
            BY <1>1, <2>2 DEF SetItemQty, Line, TypeOK
        <3>2. QED
            BY <1>2, <3>1
    <2>3. CASE \E i \in LineIds, d \in Deltas : UpdateItemModifiers(o, i, d)
        <3>1. \A i \in LineIds : Stays(i)
            BY <1>1, <2>3 DEF UpdateItemModifiers, Line, TypeOK
        <3>2. QED
            BY <1>2, <3>1
    <2>4. CASE \E i \in LineIds : VoidItem(o, i)
        <3>1. \A i \in LineIds : Stays(i)
            BY <1>1, <2>4 DEF VoidItem, Line, TypeOK
        <3>2. QED
            BY <1>2, <3>1
    <2>5. CASE \/ \E r \in ChargeRates : CreateOrder(o, r) \/ SetServiceCharge(o, r)
               \/ \E d \in Discounts : ApplyDiscount(o, d)
               \/ VoidOrder(o)
        BY <1>3, <2>5 DEF CreateOrder, SetServiceCharge, ApplyDiscount, VoidOrder, cart
    <2>6. QED
        BY <1>4, <2>1, <2>2, <2>3, <2>4, <2>5 DEF EditCart
<1>5. ASSUME NEW o \in OrderIds, NEW t \in OrderIds, NEW F \in SUBSET LineIds, NEW part \in Parts,
             SplitOrder(o, t, F, part)
      PROVE  Conserves
    <2>1. status[o] = "open" /\ status'[t] = "open"
        BY <1>1, <1>5 DEF SplitOrder, TypeOK
    <2>2. ASSUME NEW i \in LineIds, Moved(i)
          PROVE  line[i].order = o /\ line'[i].order = t
        <3>1. line'[i] # line[i] /\ ~Cloned(o, t, i)
            BY <2>2 DEF Moved, Cloned
        <3>2. ~MovedInPart(o, i)
            BY <1>1, <2>2 DEF Moved, MovedInPart, Line
        <3>3. MovedWhole(o, t, i)
            BY <1>1, <1>5, <3>1, <3>2, SplitLines
        <3>4. QED
            BY <1>1, <3>3 DEF MovedWhole, LiveLines, Line
    <2>3. LiveQty(line') = LiveQty(line)
        BY <1>1, <1>5, SplitConserves
    <2>4. QED
        BY <2>1, <2>2, <2>3 DEF Conserves
<1>6. ASSUME NEW t \in OrderIds, NEW S \in SUBSET OrderIds, MergeOrders(t, S)
      PROVE  Conserves
    <2>1. status[t] = "open" /\ status'[t] = "open" /\ \A s \in S : status[s] = "open"
        BY <1>1, <1>6 DEF MergeOrders, TypeOK
    <2>2. ASSUME NEW i \in LineIds, Moved(i)
          PROVE  line[i].order \in S /\ line'[i].order = t
        BY <1>1, <1>6, <2>2 DEF Moved, MergeOrders, MergedLines, Line
    <2>3. LiveQty(line') = LiveQty(line)
        BY <1>1, <1>6, MergeConserves
    <2>4. QED
        BY <2>1, <2>2, <2>3 DEF Conserves
<1>7. ASSUME NEW o \in OrderIds, MoveMoney(o) \/ GenerateKots(o) PROVE Conserves
    <2>1. line' = line \/ line' = Routed(o)
        BY <1>7 DEF MoveMoney, AddPayment, RefundPayment, SettleAndInvoice, VoidInvoice,
                    CompleteCheckout, InitiateRefund, GenerateKots, cart
    <2>2. CASE line' = Routed(o)
        <3>1. \A i \in LineIds : Stays(i)
            BY <1>1, <2>2 DEF Routed, Line
        <3>2. QED
            BY <1>2, <3>1
    <2>3. QED
        BY <1>3, <2>1, <2>2
<1>8. CASE UNCHANGED vars
    BY <1>3, <1>8 DEF vars, cart
<1>9. CASE Next
    BY <1>4, <1>5, <1>6, <1>7, <1>9 DEF Next, MoveLines
<1>10. QED
    BY <1>8, <1>9

\* However many lines a split or a merge moves, whole or in part, and whatever was
\* edited, voided or paid before: no unit of what the customers ordered is created
\* or lost, and lines change hands between open orders alone.
THEOREM UnitsConserved == Spec => MovesConserveUnits
<1>1. Rows /\ [Next]_vars => [Conserves]_vars
    BY ConservesNext
<1>2. Spec => [][Conserves]_vars
    BY <1>1, RowsAlways, PTL DEF Spec
<1>3. QED
    BY <1>2 DEF Conserves, MovesConserveUnits

-----------------------------------------------------------------------------
(* The life cycle.  Every step changes the status and the invoice of at most  *)
(* one order, except a merge, which cancels its sources, and a split, which   *)
(* opens one order; Books rules out the stages a client should never see.     *)

\* A step that gives order o the status s and the invoice status d, and leaves
\* every other order alone, moves o to the stage of s and d.
LEMMA OneStage ==
    ASSUME TypeOK, NEW o \in OrderIds, NEW s, NEW d,
           status' = [status EXCEPT ![o] = s], invStatus' = [invStatus EXCEPT ![o] = d]
    PROVE  Life' = [Life EXCEPT ![o] = Stage(s, d)]
<1>1. status \in [OrderIds -> OrderStatus] /\ invStatus \in [OrderIds -> InvoiceStatus]
    BY DEF TypeOK
<1>2. ASSUME NEW p \in OrderIds
      PROVE  Stage(status'[p], invStatus'[p]) =
               IF p = o THEN Stage(s, d) ELSE Stage(status[p], invStatus[p])
    BY <1>1
<1>3. QED
    BY <1>2 DEF Life

\* A step that touches neither statuses nor invoices is a stutter.
LEMMA SameStages ==
    ASSUME status' = status, invStatus' = invStatus
    PROVE  Life' = Life
BY DEF Life

\* Cart edits open an order, cancel an open one, or leave every stage alone.
LEMMA LifecycleEditCart ==
    ASSUME Books, NEW o \in OrderIds, EditCart(o)
    PROVE  [Lifecycle!Next]_Life
<1>1. TypeOK /\ StatusMatchesInvoice
    BY DEF Books
<1>2. status \in [OrderIds -> OrderStatus] /\ invStatus \in [OrderIds -> InvoiceStatus]
    BY <1>1 DEF TypeOK
<1>3. invStatus' = [invStatus EXCEPT ![o] = invStatus[o]]
    <2>1. invStatus' = invStatus
        BY DEF EditCart, CreateOrder, SetServiceCharge, AddItem, SetItemQty,
               UpdateItemModifiers, VoidItem, ApplyDiscount, VoidOrder, doc
    <2>2. QED
        BY <2>1, <1>2
<1>4. CASE \E r \in ChargeRates : CreateOrder(o, r)
    <2>1. status[o] = "none" /\ status' = [status EXCEPT ![o] = "open"]
        BY <1>4 DEF CreateOrder
    <2>2. invStatus[o] = "none"
        BY <2>1, <1>1 DEF StatusMatchesInvoice
    <2>3. Life[o] = "absent" /\ Life' = [Life EXCEPT ![o] = "open"]
        BY <2>1, <2>2, <1>1, <1>3, OneStage DEF Life, Stage
    <2>4. Lifecycle!Open(o)
        BY <2>3 DEF Lifecycle!Open, Lifecycle!Becomes
    <2>5. QED
        BY <2>4 DEF Lifecycle!Next
<1>5. CASE VoidOrder(o)
    <2>1. status[o] \in {"open", "void"} /\ status' = [status EXCEPT ![o] = "void"]
        BY <1>5 DEF VoidOrder
    <2>2. CASE status[o] = "void"
        <3>1. status' = status /\ invStatus' = invStatus
            BY <2>1, <2>2, <1>2, <1>3
        <3>2. QED
            BY <3>1, SameStages
    <2>3. CASE status[o] = "open"
        <3>1. invStatus[o] = "none"
            BY <2>3, <1>1 DEF StatusMatchesInvoice
        <3>2. Life[o] = "open" /\ Life' = [Life EXCEPT ![o] = "cancelled"]
            BY <2>1, <2>3, <3>1, <1>1, <1>3, OneStage DEF Life, Stage
        <3>3. Life' = [p \in OrderIds |-> IF p \in {o} THEN "cancelled" ELSE Life[p]]
            BY <3>2 DEF Life
        <3>4. Lifecycle!Cancel({o})
            BY <3>2, <3>3 DEF Lifecycle!Cancel
        <3>5. QED
            BY <3>4 DEF Lifecycle!Next
    <2>4. QED
        BY <2>1, <2>2, <2>3
<1>6. CASE ~VoidOrder(o) /\ ~\E r \in ChargeRates : CreateOrder(o, r)
    <2>1. status' = status /\ invStatus' = invStatus
        BY <1>6 DEF EditCart, SetServiceCharge, AddItem, SetItemQty,
               UpdateItemModifiers, VoidItem, ApplyDiscount, doc
    <2>2. QED
        BY <2>1, SameStages
<1>7. QED
    BY <1>4, <1>5, <1>6

\* A split opens its target, a merge cancels its sources.
LEMMA LifecycleMoveLines ==
    ASSUME Books, NEW o \in OrderIds, MoveLines(o)
    PROVE  [Lifecycle!Next]_Life
<1>1. TypeOK /\ StatusMatchesInvoice
    BY DEF Books
<1>2. status \in [OrderIds -> OrderStatus] /\ invStatus \in [OrderIds -> InvoiceStatus]
    BY <1>1 DEF TypeOK
<1>3. CASE \E t \in OrderIds, F \in SUBSET LineIds, part \in Parts : SplitOrder(o, t, F, part)
    <2>1. PICK t \in OrderIds, F \in SUBSET LineIds, part \in Parts : SplitOrder(o, t, F, part)
        BY <1>3
    <2>2. status[t] = "none" /\ status' = [status EXCEPT ![t] = "open"] /\ invStatus' = invStatus
        BY <2>1 DEF SplitOrder, doc
    <2>3. invStatus[t] = "none" /\ invStatus' = [invStatus EXCEPT ![t] = "none"]
        BY <2>2, <1>1, <1>2 DEF StatusMatchesInvoice
    <2>4. Life[t] = "absent" /\ Life' = [Life EXCEPT ![t] = "open"]
        BY <2>2, <2>3, <1>1, OneStage DEF Life, Stage
    <2>5. Lifecycle!Open(t)
        BY <2>4 DEF Lifecycle!Open, Lifecycle!Becomes
    <2>6. QED
        BY <2>5 DEF Lifecycle!Next
<1>4. CASE \E S \in SUBSET OrderIds : MergeOrders(o, S)
    <2>1. PICK S \in SUBSET OrderIds : MergeOrders(o, S)
        BY <1>4
    <2>2. /\ \A s \in S : status[s] = "open"
          /\ status' = [p \in OrderIds |-> IF p \in S THEN "void" ELSE status[p]]
          /\ invStatus' = invStatus
        BY <2>1 DEF MergeOrders, doc
    <2>3. \A s \in S : invStatus[s] = "none"
        BY <2>2, <1>1 DEF StatusMatchesInvoice
    <2>4. \A s \in S : Life[s] = "open"
        BY <2>2, <2>3 DEF Life, Stage
    <2>5. ASSUME NEW p \in OrderIds
          PROVE  Life'[p] = IF p \in S THEN "cancelled" ELSE Life[p]
        BY <2>2, <2>3 DEF Life, Stage
    <2>6. Life' = [p \in OrderIds |-> IF p \in S THEN "cancelled" ELSE Life[p]]
        BY <2>5 DEF Life
    <2>7. Lifecycle!Cancel(S)
        BY <2>4, <2>6 DEF Lifecycle!Cancel
    <2>8. QED
        BY <2>7 DEF Lifecycle!Next
<1>5. QED
    BY <1>3, <1>4 DEF MoveLines

\* An order that is settled now invoices an open order.
LEMMA LifecycleSettle ==
    ASSUME Books, NEW o \in OrderIds, status[o] \in {"open", "settled"},
           invStatus[o] = "none", Settle(o)
    PROVE  Lifecycle!Next
<1>1. TypeOK /\ status[o] = "open"
    BY DEF Books, StatusMatchesInvoice
<1>2. Life[o] = "open" /\ Life' = [Life EXCEPT ![o] = "invoiced"]
    BY <1>1, OneStage DEF Settle, Life, Stage
<1>3. Lifecycle!Invoice(o)
    BY <1>2 DEF Lifecycle!Invoice, Lifecycle!Becomes
<1>4. QED
    BY <1>3 DEF Lifecycle!Next

\* A full refund of an invoiced order is the stage change; any other is a stutter.
LEMMA LifecycleRefund ==
    ASSUME Books, NEW o \in OrderIds, NEW a \in Amounts, NEW full \in BOOLEAN,
           NEW restock \in BOOLEAN, InitiateRefund(o, a, full, restock)
    PROVE  [Lifecycle!Next]_Life
<1>1. TypeOK /\ StatusMatchesInvoice
    BY DEF Books
<1>2. status \in [OrderIds -> OrderStatus] /\ invStatus \in [OrderIds -> InvoiceStatus]
    BY <1>1 DEF TypeOK
<1> DEFINE isFull == full \/ refundRows[o] + a >= total[o]
<1>3. /\ status[o] \in {"settled", "void"}
      /\ status' = [status EXCEPT ![o] = IF isFull THEN "void" ELSE @]
      /\ invStatus' = [invStatus EXCEPT ![o] = IF isFull /\ @ # "none" THEN "void" ELSE @]
    BY DEF InitiateRefund
<1>4. CASE ~isFull
    <2>1. status' = status /\ invStatus' = invStatus
        BY <1>2, <1>3, <1>4
    <2>2. QED
        BY <2>1, SameStages
<1>5. CASE isFull /\ status[o] = "settled"
    <2>1. invStatus[o] \in {"issued", "void"}
        BY <1>1, <1>2, <1>5 DEF StatusMatchesInvoice, InvoiceStatus
    <2>2. status' = [status EXCEPT ![o] = "void"] /\ invStatus' = [invStatus EXCEPT ![o] = "void"]
        BY <1>2, <1>3, <1>5, <2>1
    <2>3. Life[o] \in {"invoiced", "writtenOff"} /\ Life' = [Life EXCEPT ![o] = "refunded"]
        BY <1>1, <1>5, <2>1, <2>2, OneStage DEF Life, Stage
    <2>4. Lifecycle!Refund(o)
        BY <2>3 DEF Lifecycle!Refund, Lifecycle!Becomes
    <2>5. QED
        BY <2>4 DEF Lifecycle!Next
<1>6. CASE isFull /\ status[o] = "void"
    <2>1. invStatus[o] \in {"none", "void"}
        BY <1>1, <1>2, <1>6 DEF StatusMatchesInvoice, InvoiceStatus
    <2>2. status' = status /\ invStatus' = invStatus
        BY <1>2, <1>3, <1>6, <2>1
    <2>3. QED
        BY <2>2, SameStages
<1>7. QED
    BY <1>3, <1>4, <1>5, <1>6

\* Payments change no stage; settlement, checkout and void_invoice change one.
LEMMA LifecycleMoveMoney ==
    ASSUME Books, NEW o \in OrderIds, MoveMoney(o)
    PROVE  [Lifecycle!Next]_Life
<1>1. TypeOK /\ StatusMatchesInvoice
    BY DEF Books
<1>2. status \in [OrderIds -> OrderStatus] /\ invStatus \in [OrderIds -> InvoiceStatus]
    BY <1>1 DEF TypeOK
<1>3. CASE \E a \in Amounts, k \in Keys \union {NoKey} : AddPayment(o, a, k) \/ RefundPayment(o, a, k)
    <2>1. status' = status /\ invStatus' = invStatus
        BY <1>3 DEF AddPayment, RefundPayment, doc
    <2>2. QED
        BY <2>1, SameStages
<1>4. CASE SettleAndInvoice(o)
    BY <1>4, LifecycleSettle DEF SettleAndInvoice
<1>5. CASE VoidInvoice(o)
    <2>1. /\ invStatus[o] # "none" /\ status' = [status EXCEPT ![o] = status[o]]
          /\ invStatus' = [invStatus EXCEPT ![o] = "void"]
        BY <1>2, <1>5 DEF VoidInvoice
    <2>2. CASE invStatus[o] = "void"
        <3>1. status' = status /\ invStatus' = invStatus
            BY <1>2, <2>1, <2>2
        <3>2. QED
            BY <3>1, SameStages
    <2>3. CASE invStatus[o] = "issued"
        <3>1. status[o] = "settled"
            BY <1>1, <1>2, <2>3 DEF StatusMatchesInvoice, OrderStatus
        <3>2. Life[o] = "invoiced" /\ Life' = [Life EXCEPT ![o] = "writtenOff"]
            BY <1>1, <2>1, <2>3, <3>1, OneStage DEF Life, Stage
        <3>3. Lifecycle!WriteOff(o)
            BY <3>2 DEF Lifecycle!WriteOff, Lifecycle!Becomes
        <3>4. QED
            BY <3>3 DEF Lifecycle!Next
    <2>4. QED
        BY <1>2, <2>1, <2>2, <2>3 DEF InvoiceStatus
<1>6. CASE CompleteCheckout(o)
    <2>1. \/ status' = status /\ invStatus' = invStatus
          \/ invStatus[o] = "none" /\ status[o] = "open" /\ Settle(o)
        BY <1>6 DEF CompleteCheckout, doc
    <2>2. QED
        BY <2>1, SameStages, LifecycleSettle
<1>7. CASE \E a \in Amounts, full \in BOOLEAN, restock \in BOOLEAN : InitiateRefund(o, a, full, restock)
    BY <1>7, LifecycleRefund
<1>8. QED
    BY <1>3, <1>4, <1>5, <1>6, <1>7 DEF MoveMoney

\* Every step of the engine is a step of the life cycle or a stutter.
LEMMA LifecycleStep == Books /\ [Next]_vars => [Lifecycle!Next]_Life
<1> SUFFICES ASSUME Books, [Next]_vars PROVE [Lifecycle!Next]_Life
    OBVIOUS
<1>1. CASE UNCHANGED vars
    BY <1>1, SameStages DEF vars, doc
<1>2. CASE Next
    <2>1. PICK o \in OrderIds : EditCart(o) \/ MoveLines(o) \/ MoveMoney(o) \/ GenerateKots(o)
        BY <1>2 DEF Next
    <2>2. CASE GenerateKots(o)
        BY <2>2, SameStages DEF GenerateKots, doc
    <2>3. QED
        BY <2>1, <2>2, LifecycleEditCart, LifecycleMoveLines, LifecycleMoveMoney
<1>3. QED
    BY <1>1, <1>2

\* No order exists yet.
LEMMA LifecycleInit == Init => Lifecycle!Init
<1> SUFFICES ASSUME Init PROVE Lifecycle!Init
    OBVIOUS
<1>1. \A o \in OrderIds : Stage(status[o], invStatus[o]) = "absent"
    BY DEF Init, Stage
<1>2. QED
    BY <1>1 DEF Lifecycle!Init, Life

\* The order engine implements the life cycle: for any orders, lines, prices and
\* amounts, and any sequence of its transactions, an order only ever takes the
\* steps OrderLifecycle allows (order_service, invoice_service, refund_service).
THEOREM OrdersImplementLifecycle == Spec => ImplementsLifecycle
<1>1. Spec => Lifecycle!Init /\ [][Lifecycle!Next]_Life
    BY LifecycleInit, LifecycleStep, BooksAlways, PTL DEF Spec
<1>2. QED
    BY <1>1 DEF ImplementsLifecycle, Lifecycle!Spec
=============================================================================
