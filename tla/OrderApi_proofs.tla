--------------------------- MODULE OrderApi_proofs ---------------------------
(***************************************************************************)
(* Proofs about concurrent requests on one order.  Typed is the types;      *)
(* Covered says that no row a request has read shows more money paid than   *)
(* has been captured, so that a request that saves such a row cannot make   *)
(* an order look paid; Guarded is about the requests that look again under  *)
(* the row's lock: what the holder of the lock has read is still so.        *)
(***************************************************************************)
EXTENDS MCOrderApi, Sums_proofs

mixVars == <<row, qty, active, captured, refunded, keyUsed, doc, sold,
             lock, pc, call, seen, mix>>

Row == [status : {"open", "settled", "void"}, total : Nat, paid : Int]
Carts == UNION {[S -> Nat] : S \in SUBSET Lines}
Places == {"idle", "read", "cleared", "recalculated", "locked", "done"}

RowsTyped ==
    /\ row \in Row
    /\ qty \in [Lines -> Nat]
    /\ active \in SUBSET Lines
    /\ captured \in Nat
    /\ refunded \in Nat
    /\ doc \in [status : {"none", "issued"}, total : Nat]
    /\ sold \in [Lines -> Nat]
RequestsTyped ==
    /\ lock \in Requests \union {NoRequest}
    /\ pc \in [Requests -> Places]
    /\ call \in [Requests -> Calls \union {[view |-> "none"]}]
    /\ \A r \in Requests : pc[r] # "idle" => call[r] \in Calls
    /\ seen \in [Requests -> [row : Row, cart : Carts]]
Typed == RowsTyped /\ RequestsTyped

Covered ==
    /\ row.paid <= captured
    /\ \A r \in Requests : seen[r].row.paid <= captured
    /\ doc.status = "issued" => doc.total <= captured

\* The holder of the lock: what it read is what is there.
Holds(r) == lock = r /\ seen[r].cart = Cart /\ row.status # "settled"

Guarded ==
    /\ \A r \in Requests : pc[r] # "idle" => call[r].view \in RecheckViews
    /\ \A r \in Requests : pc[r] \in {"idle", "read", "locked", "done"}
    /\ \A r \in Requests : pc[r] = "locked" => Holds(r)
    /\ row.total = SumOver(Cart)
    /\ doc.status # "none" => row.status = "settled"
    /\ doc.status = "none" => sold = [i \in Lines |-> 0]
    /\ SumOver(sold) \in {0, doc.total}

GuardedOnRecheck == mix = RecheckViews => Guarded

-----------------------------------------------------------------------------
(* Types *)

LEMMA CartsSum ==
    ASSUME NEW c \in Carts
    PROVE  SumOver(c) \in Nat /\ DOMAIN c \subseteq Lines /\ \A i \in DOMAIN c : c[i] \in Nat
<1>1. DOMAIN c \subseteq Lines /\ \A i \in DOMAIN c : c[i] \in Nat
    BY DEF Carts
<1>2. IsFiniteSet(DOMAIN c)
    BY <1>1, ApiAssumption, FS_Subset
<1>3. QED
    BY <1>1, <1>2, SumOverNat

LEMMA CartTyped ==
    ASSUME RowsTyped
    PROVE  Cart \in Carts /\ DOMAIN Cart = active /\ Snapshot \in [row : Row, cart : Carts]
<1>1. Cart \in [active -> Nat] /\ active \in SUBSET Lines
    BY DEF Cart, RowsTyped
<1>2. Cart \in Carts
    BY <1>1 DEF Carts
<1>3. QED
    BY <1>1, <1>2 DEF Snapshot, RowsTyped

\* recalculate gives a natural total and touches nothing else of the row.
LEMMA RecalculatedTyped ==
    ASSUME row \in Row, qty' \in [Lines -> Nat], active' \in SUBSET Lines, Recalculated
    PROVE  /\ row' \in Row /\ row'.status = row.status /\ row'.paid = row.paid
           /\ row'.total = SumOver(Cart')
<1>1. Cart' = [i \in active' |-> qty'[i]]
    BY DEF Cart
<1>2. Cart' \in [active' -> Nat]
    BY <1>1
<1>3. Cart' \in Carts
    BY <1>2 DEF Carts
<1>4. SumOver(Cart') \in Nat
    BY <1>3, CartsSum
<1>5. row' = [row EXCEPT !.total = SumOver(Cart')]
    BY <1>1 DEF Recalculated
<1> HIDE DEF Cart
<1>6. QED
    BY <1>4, <1>5 DEF Row

\* What clients ask for.
LEMMA CallsTyped ==
    ASSUME NEW c \in Calls
    PROVE  /\ c.view \in {"pay", "refund"} => c.amount \in Nat \ {0}
           /\ c.view = "bump" => c.line \in Lines /\ c.by \in {-1, 1}
BY ApiAssumption DEF Calls

\* Every step of a request is one of a request that was received and moves it on.
LEMMA ServeShape ==
    ASSUME RequestsTyped, NEW r \in Requests, Serve(r)
    PROVE  /\ pc[r] # "idle" /\ call' = call
           /\ \E p \in Places : pc' = [pc EXCEPT ![r] = p]
BY DEF Serve, Refuse, Add, Bump, ClearLines, ClearRead, ClearSave, PayPart, CheckoutBegin,
       CheckoutCommit, Refund, Reopen, Complete, Void, ChecksOut, At, Answer, Places

LEMMA RowsServe ==
    ASSUME Typed, NEW r \in Requests, Serve(r)
    PROVE  RowsTyped'
<1> USE DEF Typed
<1>0. /\ row \in Row /\ qty \in [Lines -> Nat] /\ active \in SUBSET Lines
      /\ captured \in Nat /\ refunded \in Nat /\ sold \in [Lines -> Nat]
      /\ doc \in [status : {"none", "issued"}, total : Nat]
      /\ seen[r] \in [row : Row, cart : Carts]
    BY DEF RowsTyped, RequestsTyped
<1>1. CASE Kept
    BY <1>1 DEF Kept, db, ledger, RowsTyped
<1>2. ASSUME UNCHANGED <<ledger, doc, sold>>, qty' \in [Lines -> Nat], active' \in SUBSET Lines,
             Recalculated
      PROVE  RowsTyped'
    <2>1. row' \in Row
        BY <1>0, <1>2, RecalculatedTyped
    <2>2. QED
        BY <1>0, <1>2, <2>1 DEF RowsTyped, ledger
<1>3. ASSUME captured' \in Nat, refunded' \in Nat, UNCHANGED <<qty, active, doc, sold>>, Recompute
      PROVE  RowsTyped'
    BY <1>0, <1>3 DEF RowsTyped, Recompute, Row
<1>4. CASE Refuse(r)
    BY <1>1, <1>4 DEF Refuse
<1>5. CASE Add(r)
    <2>1. ASSUME NEW i \in Lines, qty' = [qty EXCEPT ![i] = 1], active' = active \union {i},
                 Recalculated, UNCHANGED <<ledger, doc, sold>>
          PROVE  RowsTyped'
        BY <1>0, <1>2, <2>1
    <2>2. QED
        BY <1>1, <1>5, <2>1 DEF Add
<1>6. CASE Bump(r)
    <2> DEFINE i == call[r].line
               n == seen[r].cart[i] + call[r].by
    <2>1. call[r] \in Calls /\ call[r].view = "bump"
        BY <1>6 DEF Bump, At, RequestsTyped
    <2>2. i \in Lines /\ call[r].by \in {-1, 1}
        BY <2>1, CallsTyped
    <2>3. CASE row.status = "open" /\ i \in active /\ i \in DOMAIN seen[r].cart
        <3>1. seen[r].cart[i] \in Nat
            BY <1>0, <2>3, CartsSum
        <3>2. n \in Int
            BY <2>2, <3>1
        <3>3. /\ qty' = IF n > 0 THEN [qty EXCEPT ![i] = n] ELSE qty
              /\ active' = IF n > 0 THEN active ELSE active \ {i}
              /\ Recalculated /\ UNCHANGED <<ledger, doc, sold>>
            BY <1>6, <2>3 DEF Bump
        <3> HIDE DEF n, i
        <3>4. qty' \in [Lines -> Nat] /\ active' \in SUBSET Lines
            BY <1>0, <2>2, <3>2, <3>3
        <3>5. QED
            BY <1>2, <3>3, <3>4
    <2>4. CASE ~(row.status = "open" /\ i \in active /\ i \in DOMAIN seen[r].cart)
        BY <1>1, <1>6, <2>4 DEF Bump
    <2>5. QED
        BY <2>3, <2>4
<1>7. CASE ClearLines(r)
    BY <1>0, <1>7 DEF ClearLines, RowsTyped, ledger
<1>8. CASE ClearRead(r)
    BY <1>1, <1>8 DEF ClearRead, Kept
<1>9. CASE ClearSave(r)
    <2>1. SumOver(seen[r].cart) \in Nat /\ seen[r].row \in Row
        BY <1>0, CartsSum
    <2>2. row' \in Row
        BY <1>9, <2>1 DEF ClearSave, Row
    <2>3. QED
        BY <1>0, <1>9, <2>2 DEF ClearSave, RowsTyped, ledger
<1>10. CASE PayPart(r)
    <2>1. call[r].amount \in Nat
        BY <1>10, CallsTyped DEF PayPart, At, RequestsTyped
    <2>2. QED
        BY <1>0, <1>1, <1>3, <1>10, <2>1 DEF PayPart
<1>11. CASE CheckoutBegin(r)
    BY <1>1, <1>11 DEF CheckoutBegin
<1>12. CASE CheckoutCommit(r)
    <2> DEFINE w == [row EXCEPT !.paid = captured + row.total - refunded]
    <2>1. CASE doc.status = "none" /\ (row.status = "void" \/ Due(w) > 0)
        BY <1>1, <1>12, <2>1 DEF CheckoutCommit
    <2>2. CASE ~(doc.status = "none" /\ (row.status = "void" \/ Due(w) > 0))
        <3>1. /\ captured' = captured + row.total
              /\ sold' = [i \in Lines |-> IF i \in DOMAIN seen[r].cart
                                          THEN sold[i] + seen[r].cart[i] ELSE sold[i]]
              /\ UNCHANGED <<qty, active, refunded>>
              /\ Settled(w) \/ (row' = w /\ UNCHANGED doc)
            BY <1>12, <2>2 DEF CheckoutCommit
        <3>2. w \in Row /\ captured + row.total \in Nat
            BY <1>0 DEF Row
        <3>3. row' \in Row /\ doc' \in [status : {"none", "issued"}, total : Nat]
            <4> HIDE DEF w
            <4>1. QED
                BY <1>0, <3>1, <3>2 DEF Settled, Row
        <3>4. \A i \in DOMAIN seen[r].cart : seen[r].cart[i] \in Nat
            BY <1>0, CartsSum
        <3>5. sold' \in [Lines -> Nat]
            BY <1>0, <3>1, <3>4
        <3> HIDE DEF w
        <3>6. QED
            BY <1>0, <3>1, <3>2, <3>3, <3>5 DEF RowsTyped
    <2>3. QED
        BY <2>1, <2>2
<1>13. CASE Refund(r)
    <2>1. call[r].amount \in Nat
        BY <1>13, CallsTyped DEF Refund, At, RequestsTyped
    <2>2. QED
        BY <1>0, <1>1, <1>3, <1>13, <2>1 DEF Refund
<1>14. CASE Reopen(r)
    BY <1>0, <1>14 DEF Reopen, RowsTyped, Row, ledger
<1>15. CASE Complete(r)
    <2>1. Kept \/ (Settled(row) /\ UNCHANGED <<qty, active, ledger, sold>>)
        BY <1>15 DEF Complete, Settle
    <2>2. QED
        BY <1>0, <1>1, <2>1 DEF RowsTyped, Settled, Row, ledger
<1>16. CASE Void(r)
    <2>1. Kept \/ (row' = [row EXCEPT !.status = "void"] /\ UNCHANGED <<qty, active, ledger, doc, sold>>)
        BY <1>16 DEF Void
    <2>2. QED
        BY <1>0, <1>1, <2>1 DEF RowsTyped, Row, ledger
<1>17. QED
    BY <1>4, <1>5, <1>6, <1>7, <1>8, <1>9, <1>10, <1>11, <1>12, <1>13, <1>14, <1>15, <1>16 DEF Serve

LEMMA RequestsServe ==
    ASSUME Typed, NEW r \in Requests, Serve(r)
    PROVE  RequestsTyped'
<1> USE DEF Typed
<1>1. /\ Cart \in Carts /\ Snapshot \in [row : Row, cart : Carts]
      /\ seen \in [Requests -> [row : Row, cart : Carts]]
      /\ lock \in Requests \union {NoRequest} /\ pc \in [Requests -> Places]
    BY CartTyped DEF RequestsTyped
<1>2. lock' \in {lock, r, NoRequest}
    BY DEF Serve, Refuse, Add, Bump, ClearLines, ClearRead, ClearSave, PayPart, CheckoutBegin,
           CheckoutCommit, Refund, Reopen, Complete, Void, Answer
<1>3. \/ seen' = seen
      \/ seen' = [seen EXCEPT ![r] = Snapshot]
      \/ seen' = [seen EXCEPT ![r].cart = Cart]
    BY DEF Serve, Refuse, Add, Bump, ClearLines, ClearRead, ClearSave, PayPart, CheckoutBegin,
           CheckoutCommit, Refund, Reopen, Complete, Void, Answer
<1> HIDE DEF Cart, Snapshot
<1>4. seen' \in [Requests -> [row : Row, cart : Carts]]
    <2> DEFINE E == [row : Row, cart : Carts]
    <2>1. [seen[r] EXCEPT !.cart = Cart] \in E
        BY <1>1
    <2>2. \E e \in E : seen' = [seen EXCEPT ![r] = e]
        BY <1>1, <1>3, <2>1
    <2> HIDE DEF E
    <2>3. QED
        BY <1>1, <2>2 DEF E
<1>5. PICK p \in Places : pc[r] # "idle" /\ call' = call /\ pc' = [pc EXCEPT ![r] = p]
    BY ServeShape
<1>6. \A q \in Requests : pc'[q] # "idle" => call'[q] \in Calls
    BY <1>1, <1>5 DEF RequestsTyped
<1>7. QED
    BY <1>1, <1>2, <1>4, <1>5, <1>6 DEF RequestsTyped

LEMMA TypedReceive ==
    ASSUME Typed, NEW r \in Requests, NEW c \in Calls, Receive(r, c)
    PROVE  Typed'
<1>1. RowsTyped'
    BY DEF Typed, RowsTyped, Receive, db, ledger
<1>2. Snapshot \in [row : Row, cart : Carts]
    BY CartTyped DEF Typed
<1> HIDE DEF Snapshot
<1>3. QED
    BY <1>1, <1>2 DEF Typed, RequestsTyped, Receive, Places

LEMMA TypedInit == Init => Typed
<1> SUFFICES ASSUME Init PROVE Typed
    OBVIOUS
<1>1. IsFiniteSet(active) /\ active \in SUBSET Lines
    BY ApiAssumption, FS_Subset DEF Init
<1>2. row \in Row
    BY <1>1, FS_CardinalityType DEF Init, Row
<1>3. <<>> \in Carts
    <2>1. <<>> \in [{} -> Nat]
        OBVIOUS
    <2>2. QED
        BY <2>1 DEF Carts
<1>4. QED
    BY <1>1, <1>2, <1>3 DEF Init, Typed, RowsTyped, RequestsTyped, Places

-----------------------------------------------------------------------------
(* Invoices *)

\* What a step does to the money a row may show: the row keeps what it said was
\* paid, or says what a request read, or says no more than was captured.
MoneyStep ==
    /\ captured <= captured'
    /\ row'.paid <= captured'
    /\ doc' # doc => doc.status = "none" /\ doc'.total <= captured'

LEMMA MoneyServe ==
    ASSUME Typed, Covered, NEW r \in Requests, Serve(r)
    PROVE  MoneyStep
<1>0. /\ row \in Row /\ captured \in Nat /\ refunded \in Nat /\ seen[r] \in [row : Row, cart : Carts]
      /\ row.paid <= captured /\ seen[r].row.paid <= captured
      /\ qty \in [Lines -> Nat] /\ active \in SUBSET Lines
    BY DEF Typed, RowsTyped, RequestsTyped, Covered
<1>1. ASSUME UNCHANGED <<captured, doc>>, row'.paid = row.paid PROVE MoneyStep
    BY <1>0, <1>1 DEF MoneyStep
<1>2. CASE Kept
    BY <1>1, <1>2 DEF Kept, db, ledger
<1>3. ASSUME captured' \in Nat, captured <= captured', refunded' \in Nat, UNCHANGED doc, Recompute
      PROVE  MoneyStep
    BY <1>0, <1>3 DEF MoneyStep, Recompute, Row
<1>4. ASSUME UNCHANGED <<ledger, doc, sold>>, Recalculated PROVE MoneyStep
    BY <1>0, <1>1, <1>4 DEF Recalculated, ledger, Row
<1>5. CASE Refuse(r) \/ CheckoutBegin(r) \/ ClearRead(r)
    BY <1>2, <1>5 DEF Refuse, CheckoutBegin, ClearRead, Kept
<1>6. CASE Add(r) \/ Bump(r)
    BY <1>2, <1>4, <1>6 DEF Add, Bump
<1>7. CASE ClearLines(r)
    BY <1>1, <1>7 DEF ClearLines, ledger
<1>8. CASE ClearSave(r)
    <2>1. row'.paid = seen[r].row.paid /\ UNCHANGED <<captured, doc>>
        BY <1>0, <1>8 DEF ClearSave, Row, ledger
    <2>2. QED
        BY <1>0, <2>1 DEF MoneyStep
<1>9. CASE PayPart(r)
    <2>1. call[r].amount \in Nat
        BY <1>9, CallsTyped DEF PayPart, At, Typed, RequestsTyped
    <2>2. QED
        BY <1>0, <1>2, <1>3, <1>9, <2>1 DEF PayPart
<1>10. CASE Refund(r)
    <2>1. call[r].amount \in Nat
        BY <1>10, CallsTyped DEF Refund, At, Typed, RequestsTyped
    <2>2. QED
        BY <1>0, <1>2, <1>3, <1>10, <2>1 DEF Refund
<1>11. CASE CheckoutCommit(r)
    <2> DEFINE w == [row EXCEPT !.paid = captured + row.total - refunded]
    <2>1. \/ Kept
          \/ captured' = captured + row.total /\ doc.status = "none" /\ Settled(w)
          \/ captured' = captured + row.total /\ row' = w /\ UNCHANGED doc
        BY <1>11 DEF CheckoutCommit
    <2>2. w.paid = captured + row.total - refunded /\ w.total = row.total /\ row.total \in Nat
          /\ [w EXCEPT !.status = "settled"].paid = w.paid
        BY <1>0 DEF Row
    <2> HIDE DEF w
    <2>3. CASE captured' = captured + row.total /\ doc.status = "none" /\ Settled(w)
        <3>1. row'.paid = captured + row.total - refunded /\ doc'.total = row.total
            BY <2>2, <2>3 DEF Settled
        <3>2. QED
            BY <1>0, <2>2, <2>3, <3>1 DEF MoneyStep
    <2>4. CASE captured' = captured + row.total /\ row' = w /\ UNCHANGED doc
        BY <1>0, <2>2, <2>4 DEF MoneyStep
    <2>5. QED
        BY <1>2, <2>1, <2>3, <2>4
<1>12. CASE Reopen(r)
    BY <1>0, <1>1, <1>12 DEF Reopen, Row, ledger
<1>13. CASE Complete(r)
    <2>1. CASE Kept
        BY <1>2, <2>1
    <2>2. CASE ~Kept
        <3>1. /\ doc.status = "none" /\ ~(Due(row) > 0)
              /\ Settled(row) /\ UNCHANGED <<qty, active, ledger, sold>>
            BY <1>13, <2>2 DEF Complete, Settle
        <3>2. row'.paid = row.paid /\ doc'.total = row.total
            BY <1>0, <3>1 DEF Settled, Row
        <3>3. row.total <= row.paid
            BY <1>0, <3>1 DEF Due, Row
        <3>4. row.total \in Nat /\ row.paid \in Int /\ captured' = captured
            BY <1>0, <3>1 DEF Row, ledger
        <3>5. QED
            BY <1>0, <3>1, <3>2, <3>3, <3>4 DEF MoneyStep
    <2>3. QED
        BY <2>1, <2>2
<1>14. CASE Void(r)
    <2>1. Kept \/ (row' = [row EXCEPT !.status = "void"] /\ UNCHANGED <<qty, active, ledger, doc, sold>>)
        BY <1>14 DEF Void
    <2>2. QED
        BY <1>0, <1>1, <1>2, <2>1 DEF Row, ledger
<1>15. QED
    BY <1>5, <1>6, <1>7, <1>8, <1>9, <1>10, <1>11, <1>12, <1>13, <1>14 DEF Serve

\* What a request reads is what the row says or what it read before.
LEMMA SeenRows ==
    ASSUME Typed, NEW r \in Requests, Serve(r) \/ \E c \in Calls : Receive(r, c), NEW q \in Requests
    PROVE  seen'[q].row \in {seen[q].row, row}
<1>1. seen \in [Requests -> [row : Row, cart : Carts]]
    BY DEF Typed, RequestsTyped
<1>2. \/ seen' = seen
      \/ seen' = [seen EXCEPT ![r] = Snapshot]
      \/ seen' = [seen EXCEPT ![r].cart = Cart]
    BY DEF Serve, Refuse, Add, Bump, ClearLines, ClearRead, ClearSave, PayPart, CheckoutBegin,
           CheckoutCommit, Refund, Reopen, Complete, Void, Answer, Receive
<1>3. Snapshot.row = row
    BY DEF Snapshot
<1> HIDE DEF Snapshot, Cart
<1>4. QED
    BY <1>1, <1>2, <1>3

Safe == Typed /\ Covered

LEMMA SafeNext ==
    Safe /\ [MixNext]_mixVars => Safe' /\ (UNCHANGED mixVars \/ MoneyStep)
<1> SUFFICES ASSUME Safe, [MixNext]_mixVars PROVE Safe' /\ (UNCHANGED mixVars \/ MoneyStep)
    OBVIOUS
<1>1. CASE UNCHANGED mixVars
    <2>1. Typed'
        BY <1>1 DEF Safe, Typed, RowsTyped, RequestsTyped, mixVars
    <2>2. Covered'
        BY <1>1 DEF Safe, Covered, mixVars
    <2>3. QED
        BY <1>1, <2>1, <2>2 DEF Safe
<1>2. ASSUME NEW r \in Requests, Serve(r) \/ \E c \in Calls : Receive(r, c)
      PROVE  Safe' /\ MoneyStep
    <2>1. Typed'
        BY <1>2, RowsServe, RequestsServe, TypedReceive DEF Safe, Typed
    <2>2. MoneyStep
        <3>1. CASE Serve(r)
            BY <3>1, MoneyServe DEF Safe
        <3>2. CASE \E c \in Calls : Receive(r, c)
            BY <3>2 DEF Receive, db, ledger, MoneyStep, Safe, Covered, Typed, RowsTyped
        <3>3. QED
            BY <1>2, <3>1, <3>2
    <2>3. \A q \in Requests : seen'[q].row \in {seen[q].row, row}
        BY <1>2, SeenRows DEF Safe
    <2>4. /\ captured \in Nat /\ captured' \in Nat /\ row \in Row /\ row' \in Row
          /\ \A q \in Requests : seen[q].row \in Row
          /\ doc \in [status : {"none", "issued"}, total : Nat]
        BY <2>1 DEF Safe, Typed, RowsTyped, RequestsTyped
    <2>5. \A q \in Requests : seen'[q].row.paid <= captured'
        BY <2>2, <2>3, <2>4 DEF Safe, Covered, MoneyStep, Row
    <2>6. doc'.status = "issued" => doc'.total <= captured'
        BY <2>2, <2>4 DEF Safe, Covered, MoneyStep
    <2>7. QED
        BY <2>1, <2>2, <2>5, <2>6 DEF Safe, Covered, MoneyStep
<1>3. CASE MixNext
    BY <1>2, <1>3 DEF MixNext
<1>4. QED
    BY <1>1, <1>3

LEMMA SafeInit == MixInit => Safe
<1> SUFFICES ASSUME MixInit PROVE Safe
    OBVIOUS
<1>1. Typed
    BY TypedInit DEF MixInit
<1>2. Covered
    BY DEF MixInit, Init, Covered
<1>3. QED
    BY <1>1, <1>2 DEF Safe

LEMMA MixSteps == MixSpec => MixInit /\ [][MixNext]_mixVars
BY PTL DEF MixSpec, mixVars

LEMMA SafeAlways == MixSpec => []Safe
BY SafeInit, SafeNext, MixSteps, PTL

InvoiceStep ==
    /\ doc.status # "none" => doc' = doc
    /\ doc'.status = "issued" => doc'.total <= captured'

\* However many requests race, and although some save the order as they read it
\* before: one invoice, for good, and for no more than the money captured.
THEOREM OneInvoice == MixSpec => InvoiceFinal
<1>1. Safe /\ [MixNext]_mixVars => InvoiceStep \/ UNCHANGED vars
    <2> SUFFICES ASSUME Safe, [MixNext]_mixVars PROVE InvoiceStep \/ UNCHANGED vars
        OBVIOUS
    <2>1. Safe' /\ (UNCHANGED mixVars \/ MoneyStep)
        BY SafeNext
    <2>2. CASE UNCHANGED mixVars
        BY <2>2 DEF mixVars, vars, db, ledger, worker
    <2>3. CASE MoneyStep
        BY <2>1, <2>3 DEF MoneyStep, InvoiceStep, Safe, Covered
    <2>4. QED
        BY <2>1, <2>2, <2>3
<1>2. MixSpec => [][InvoiceStep]_vars
    BY <1>1, SafeAlways, MixSteps, PTL
<1>3. QED
    BY <1>2 DEF InvoiceStep, InvoiceFinal

-----------------------------------------------------------------------------
(* Requests that look again under the lock *)

\* A request that has the lock, or is at any place but "read", is not one of the
\* views that read twice without it.
LEMMA RecheckPlaces ==
    ASSUME Guarded, NEW r \in Requests, Serve(r)
    PROVE  \/ Refuse(r) \/ Add(r) \/ Bump(r) \/ PayPart(r) \/ CheckoutBegin(r)
           \/ CheckoutCommit(r) \/ Refund(r) \/ Complete(r) \/ Void(r)
BY DEF Serve, Guarded, RecheckViews, ClearLines, ClearRead, ClearSave, Reopen, At

\* The first three parts of Guarded, of the requests.
GuardedPlaces ==
    /\ \A r \in Requests : pc[r] # "idle" => call[r].view \in RecheckViews
    /\ \A r \in Requests : pc[r] \in {"idle", "read", "locked", "done"}
GuardedHolds == \A r \in Requests : pc[r] = "locked" => Holds(r)
GuardedRows ==
    /\ row.total = SumOver(Cart)
    /\ doc.status # "none" => row.status = "settled"
    /\ doc.status = "none" => sold = [i \in Lines |-> 0]
    /\ SumOver(sold) \in {0, doc.total}

LEMMA GuardedParts == Guarded <=> GuardedPlaces /\ GuardedHolds /\ GuardedRows
BY DEF Guarded, GuardedPlaces, GuardedHolds, GuardedRows

LEMMA SoldZero ==
    ASSUME sold = [i \in Lines |-> 0]
    PROVE  SumOver(sold) = 0
BY ApiAssumption, SumOverZero

LEMMA GuardedRowsServe ==
    ASSUME Typed, Guarded, NEW r \in Requests, Serve(r)
    PROVE  GuardedRows'
<1>0. /\ row \in Row /\ captured \in Nat /\ refunded \in Nat /\ seen[r] \in [row : Row, cart : Carts]
      /\ qty \in [Lines -> Nat] /\ active \in SUBSET Lines /\ sold \in [Lines -> Nat]
      /\ doc \in [status : {"none", "issued"}, total : Nat]
    BY DEF Typed, RowsTyped, RequestsTyped
<1>1. /\ row.total = SumOver(Cart)
      /\ doc.status # "none" => row.status = "settled"
      /\ doc.status = "none" => sold = [i \in Lines |-> 0]
      /\ SumOver(sold) \in {0, doc.total}
    BY DEF Guarded
<1>2. ASSUME UNCHANGED <<qty, active, doc, sold>>, row'.total = row.total, row'.status = row.status
      PROVE  GuardedRows'
    <2>1. Cart' = Cart
        BY <1>2 DEF Cart
    <2>2. QED
        BY <1>1, <1>2, <2>1 DEF GuardedRows
<1>3. CASE Kept
    BY <1>2, <1>3 DEF Kept, db
<1>4. ASSUME Recompute, UNCHANGED <<qty, active, doc, sold>> PROVE GuardedRows'
    BY <1>0, <1>2, <1>4 DEF Recompute, Row
<1>5. ASSUME UNCHANGED <<ledger, doc, sold>>, Recalculated, row.status = "open", RowsTyped'
      PROVE  GuardedRows'
    <2>1. row'.status = row.status /\ row'.total = SumOver(Cart')
        BY <1>0, <1>5, RecalculatedTyped DEF RowsTyped
    <2>2. doc.status = "none"
        BY <1>1, <1>5
    <2>3. QED
        BY <1>1, <1>5, <2>1, <2>2 DEF GuardedRows
<1>6. CASE Refuse(r) \/ CheckoutBegin(r)
    BY <1>3, <1>6 DEF Refuse, CheckoutBegin
<1>7. CASE Add(r) \/ Bump(r)
    BY <1>3, <1>5, <1>7, RowsServe DEF Add, Bump
<1>8. CASE PayPart(r) \/ Refund(r)
    BY <1>3, <1>4, <1>8 DEF PayPart, Refund
<1>9. CASE CheckoutCommit(r)
    <2> DEFINE w == [row EXCEPT !.paid = captured + row.total - refunded]
    <2>1. lock = r /\ seen[r].cart = Cart /\ row.status # "settled"
        BY <1>9 DEF CheckoutCommit, Guarded, Holds
    <2>2. doc.status = "none" /\ sold = [i \in Lines |-> 0]
        BY <1>0, <1>1, <2>1
    <2>3. CASE ~Kept
        <3>1. /\ sold' = [i \in Lines |-> IF i \in DOMAIN seen[r].cart
                                          THEN sold[i] + seen[r].cart[i] ELSE sold[i]]
              /\ UNCHANGED <<qty, active>>
              /\ Settled(w)
            BY <1>9, <2>2, <2>3 DEF CheckoutCommit
        <3>2. row'.status = "settled" /\ row'.total = row.total
              /\ doc'.status = "issued" /\ doc'.total = row.total
            BY <1>0, <3>1 DEF Settled, Row
        <3>3. Cart' = Cart /\ DOMAIN Cart = active
            BY <3>1 DEF Cart
        <3>4. SumOver(sold') = SumOver(Cart)
            <4>1. \A i \in Lines : sold'[i] = IF i \in active THEN qty[i] ELSE 0
                BY <1>0, <2>1, <2>2, <3>1, <3>3 DEF Cart
            <4>2. DOMAIN sold' = Lines /\ IsSummable(sold')
                BY <1>0, <3>1, <4>1, ApiAssumption DEF IsSummable
            <4>3. active \in SUBSET DOMAIN sold' /\ \A i \in DOMAIN sold' \ active : sold'[i] = 0
                BY <1>0, <4>1, <4>2
            <4>4. SumOver(sold') = SumOver([i \in active |-> sold'[i]])
                BY <4>2, <4>3, SumOverSupport
            <4>5. [i \in active |-> sold'[i]] = Cart
                BY <1>0, <4>1 DEF Cart
            <4>6. QED
                BY <4>4, <4>5
        <3>5. QED
            BY <1>1, <3>2, <3>3, <3>4 DEF GuardedRows
    <2>4. QED
        BY <1>3, <2>3
<1>10. CASE Complete(r)
    <2>1. CASE ~Kept
        <3>1. doc.status = "none" /\ Settled(row) /\ UNCHANGED <<qty, active, ledger, sold>>
            BY <1>10, <2>1 DEF Complete, Settle
        <3>2. row'.status = "settled" /\ row'.total = row.total /\ doc'.status = "issued"
            BY <1>0, <3>1 DEF Settled, Row
        <3>3. Cart' = Cart /\ SumOver(sold') = 0
            BY <1>1, <3>1, SoldZero DEF Cart
        <3>4. QED
            BY <1>1, <3>2, <3>3 DEF GuardedRows
    <2>2. QED
        BY <1>3, <2>1
<1>11. CASE Void(r)
    <2>1. CASE ~Kept
        <3>1. /\ row.status # "settled" /\ row' = [row EXCEPT !.status = "void"]
              /\ UNCHANGED <<qty, active, ledger, doc, sold>>
            BY <1>11, <2>1 DEF Void
        <3>2. row'.total = row.total /\ doc.status = "none" /\ Cart' = Cart
            BY <1>0, <1>1, <3>1 DEF Row, Cart
        <3>3. QED
            BY <1>1, <3>1, <3>2 DEF GuardedRows
    <2>2. QED
        BY <1>3, <2>1
<1>12. QED
    BY <1>6, <1>7, <1>8, <1>9, <1>10, <1>11, RecheckPlaces

\* While one request holds the lock no other writes.
LEMMA GuardedHoldsServe ==
    ASSUME Typed, Guarded, NEW r \in Requests, Serve(r)
    PROVE  GuardedHolds'
<1>1. pc \in [Requests -> Places] /\ NoRequest \notin Requests
      /\ seen \in [Requests -> [row : Row, cart : Carts]]
    BY ApiAssumption DEF Typed, RequestsTyped
<1>2. \A q \in Requests : pc[q] = "locked" => lock = q /\ seen[q].cart = Cart /\ row.status # "settled"
    BY DEF Guarded, Holds
<1>3. CASE Refuse(r)
    <2>1. UNCHANGED <<row, qty, active, lock, seen>> /\ pc' = [pc EXCEPT ![r] = "done"]
        BY <1>3 DEF Refuse, Kept, db, Answer
    <2>2. Cart' = Cart
        BY <2>1 DEF Cart
    <2>3. QED
        BY <1>1, <1>2, <2>1, <2>2 DEF GuardedHolds, Holds
<1>4. CASE Free /\ Answer(r)
    <2>1. \A q \in Requests : pc[q] # "locked"
        BY <1>1, <1>2, <1>4 DEF Free
    <2>2. QED
        BY <1>1, <1>4, <2>1 DEF Answer, GuardedHolds
<1>5. CASE Add(r) \/ Bump(r) \/ PayPart(r) \/ Refund(r) \/ Complete(r) \/ Void(r)
    BY <1>4, <1>5 DEF Add, Bump, PayPart, Refund, Complete, Void
<1>6. CASE CheckoutBegin(r)
    <2>1. CASE Answer(r)
        BY <1>4, <1>6, <2>1 DEF CheckoutBegin
    <2>2. CASE ~Answer(r)
        <3>1. /\ Free /\ Kept /\ row.status # "settled" /\ lock' = r
              /\ seen' = [seen EXCEPT ![r] = Snapshot] /\ pc' = [pc EXCEPT ![r] = "locked"]
            BY <1>6, <2>2 DEF CheckoutBegin, Sellable
        <3>2. Cart' = Cart /\ row' = row /\ Snapshot.cart = Cart
            BY <3>1 DEF Kept, db, Cart, Snapshot
        <3>3. \A q \in Requests : pc'[q] = "locked" => q = r
            BY <1>1, <1>2, <3>1 DEF Free
        <3>4. seen'[r].cart = Cart
            BY <1>1, <3>1, <3>2
        <3>5. QED
            BY <3>1, <3>2, <3>3, <3>4 DEF GuardedHolds, Holds
    <2>3. QED
        BY <2>1, <2>2
<1>7. CASE CheckoutCommit(r)
    BY <1>1, <1>2, <1>7 DEF CheckoutCommit, GuardedHolds
<1>8. QED
    BY <1>3, <1>5, <1>6, <1>7, RecheckPlaces

LEMMA GuardedPlacesServe ==
    ASSUME Typed, Guarded, NEW r \in Requests, Serve(r)
    PROVE  GuardedPlaces'
<1>1. pc \in [Requests -> Places] /\ pc[r] # "idle" /\ call' = call
    BY ServeShape DEF Typed, RequestsTyped
<1>2. pc' = [pc EXCEPT ![r] = "done"] \/ pc' = [pc EXCEPT ![r] = "locked"]
    BY RecheckPlaces DEF Refuse, Add, Bump, PayPart, CheckoutBegin, CheckoutCommit, Refund,
                         Complete, Void, Answer
<1>3. QED
    BY <1>1, <1>2 DEF Guarded, GuardedPlaces

LEMMA GuardedReceive ==
    ASSUME Typed, Guarded, NEW r \in Requests, NEW c \in Calls, c.view \in RecheckViews, Receive(r, c)
    PROVE  Guarded'
<1>1. /\ pc \in [Requests -> Places] /\ call \in [Requests -> Calls \union {[view |-> "none"]}]
      /\ seen \in [Requests -> [row : Row, cart : Carts]]
    BY DEF Typed, RequestsTyped
<1>2. /\ pc[r] = "idle" /\ call' = [call EXCEPT ![r] = c] /\ pc' = [pc EXCEPT ![r] = "read"]
      /\ seen' = [seen EXCEPT ![r] = Snapshot]
      /\ UNCHANGED <<row, qty, active, doc, sold, lock>>
    BY DEF Receive, db, ledger
<1>3. Cart' = Cart
    BY <1>2 DEF Cart
<1>4. GuardedPlaces'
    BY <1>1, <1>2 DEF Guarded, GuardedPlaces
<1>5. \A q \in Requests : pc'[q] = "locked" => pc[q] = "locked" /\ q # r
    BY <1>1, <1>2
<1>6. \A q \in Requests \ {r} : seen'[q] = seen[q]
    BY <1>1, <1>2
<1>7. GuardedHolds'
    BY <1>2, <1>3, <1>5, <1>6 DEF Guarded, GuardedHolds, Holds
<1>8. GuardedRows'
    BY <1>2, <1>3 DEF Guarded, GuardedRows
<1>9. QED
    BY <1>4, <1>7, <1>8 DEF Guarded, GuardedPlaces, GuardedHolds, GuardedRows

GuardedSafe == Safe /\ GuardedOnRecheck

LEMMA GuardedNext == GuardedSafe /\ [MixNext]_mixVars => GuardedSafe'
<1> SUFFICES ASSUME GuardedSafe, [MixNext]_mixVars PROVE GuardedSafe'
    OBVIOUS
<1>1. Safe' /\ Typed
    BY SafeNext DEF GuardedSafe, Safe
<1>2. CASE UNCHANGED mixVars
    <2>1. Cart' = Cart
        BY <1>2 DEF Cart, mixVars
    <2>2. GuardedOnRecheck'
        BY <1>2, <2>1 DEF GuardedSafe, GuardedOnRecheck, Guarded, Holds, mixVars
    <2>3. QED
        BY <1>1, <2>2 DEF GuardedSafe
<1>3. ASSUME NEW r \in Requests, Serve(r), UNCHANGED mix PROVE GuardedOnRecheck'
    BY <1>1, <1>3, GuardedRowsServe, GuardedHoldsServe, GuardedPlacesServe
       DEF GuardedSafe, GuardedOnRecheck, Guarded, GuardedPlaces, GuardedHolds, GuardedRows
<1>4. ASSUME NEW r \in Requests, NEW c \in Calls, c.view \in mix, Receive(r, c), UNCHANGED mix
      PROVE  GuardedOnRecheck'
    BY <1>1, <1>4, GuardedReceive DEF GuardedSafe, GuardedOnRecheck
<1>5. CASE MixNext
    BY <1>1, <1>3, <1>4, <1>5 DEF MixNext, GuardedSafe
<1>6. QED
    BY <1>2, <1>5

LEMMA GuardedInit == MixInit => GuardedSafe
<1> SUFFICES ASSUME MixInit PROVE GuardedSafe
    OBVIOUS
<1>1. Safe
    BY SafeInit
<1>2. active \in SUBSET Lines /\ qty = [i \in Lines |-> IF i \in active THEN 1 ELSE 0]
    BY DEF MixInit, Init
<1>3. DOMAIN Cart = active /\ \A i \in active : Cart[i] = 1
    BY <1>2 DEF Cart
<1>4. IsFiniteSet(active)
    BY <1>2, ApiAssumption, FS_Subset
<1>5. SumOver(Cart) = Cardinality(active)
    BY <1>3, <1>4, SumOverOnes
<1>6. sold = [i \in Lines |-> 0] /\ SumOver(sold) = 0
    BY SoldZero DEF MixInit, Init
<1>7. Guarded
    BY <1>5, <1>6 DEF MixInit, Init, Guarded
<1>8. QED
    BY <1>1, <1>7 DEF GuardedSafe, GuardedOnRecheck

LEMMA GuardedAlways == MixSpec => []GuardedSafe
BY GuardedInit, GuardedNext, MixSteps, PTL

\* Two checkouts, a payment by key, a manual settlement and a cancellation may
\* race in any order: the units taken from stock are none or the ones invoiced.
THEOREM SoldOnce == MixSpec => []SoldIsInvoicedOnRecheck
<1>1. GuardedSafe => SoldIsInvoicedOnRecheck
    BY DEF GuardedSafe, GuardedOnRecheck, Guarded, SoldIsInvoicedOnRecheck, SoldIsInvoiced
<1>2. QED
    BY <1>1, GuardedAlways, PTL

\* Whatever is added or changed while others pay: the stored total is that of the
\* lines as soon as no request is half done.
THEOREM TotalFollows == MixSpec => []TotalFollowsLinesOnRecheck
<1>1. GuardedSafe => TotalFollowsLinesOnRecheck
    BY DEF GuardedSafe, GuardedOnRecheck, Guarded, TotalFollowsLinesOnRecheck, TotalFollowsLines
<1>2. QED
    BY <1>1, GuardedAlways, PTL
=============================================================================
