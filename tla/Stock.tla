------------------------------- MODULE Stock --------------------------------
(***************************************************************************)
(* The stock of one product: the balance of each of its stock records (one *)
(* per warehouse), its batches, and the documents that move it: transfers, *)
(* purchase orders, adjustments, damage reports, sales and returns.        *)
(*                                                                         *)
(* A service call is one transaction and one action, except where it acts  *)
(* on what it read before it held the row lock: damage reports and keyed   *)
(* consumption take several steps.  Quantities are whole; costs, alerts    *)
(* and audit entries are left out.  A transfer has one line (a product     *)
(* occurs in a transfer once) and every removal by an adjustment has one   *)
(* movement type, whatever its reason.                                     *)
(***************************************************************************)
EXTENDS Integers, FiniteSets, Sums

CONSTANTS
    Warehouses,
    Items,          \* warehouses that have a stock record for the product
    Batches,        \* batches, numbered first expired first
    Home,           \* the stock record of each batch
    Orders,         \* purchase orders
    Lines,          \* their lines,
    OrderOf,        \* with the order,
    ItemOf,         \* the stock record,
    Asked,          \* the quantity
    LotOf,          \* and the batch number the supplier delivers under
    Transfers,
    Adjustments,
    Reports,        \* damage reports
    Calls,          \* deliveries of one keyed consumption
    Wanted,         \* its stock record and quantity
    MaxQty,         \* largest quantity one document or receipt moves
    Traded,         \* quantities of sales, returns and opening balances
    MaxBegun        \* bound on documents, sales, returns and the like together

NoBatch == 0

ASSUME StockAssumption ==
    /\ Items \subseteq Warehouses
    /\ IsFiniteSet(Items) /\ IsFiniteSet(Lines) /\ IsFiniteSet(Transfers)
    /\ IsFiniteSet(Batches) /\ Batches \subseteq Nat \ {NoBatch}
    /\ Home \in [Batches -> Items]
    /\ OrderOf \in [Lines -> Orders] /\ ItemOf \in [Lines -> Items]
    /\ Asked \in [Lines -> Nat \ {0}] /\ LotOf \in [Lines -> Batches]
    /\ \A l \in Lines : Home[LotOf[l]] = ItemOf[l]
    /\ Wanted \in [item : Items, qty : Nat \ {0}]
    /\ Traded \subseteq Nat \ {0}
    /\ MaxQty \in Nat \ {0} /\ MaxBegun \in Nat

VARIABLES
    onHand,         \* InventoryItem.quantity_on_hand
    batchQty,       \* Batch.quantity
    moved,          \* sum of the StockMovement rows of each type
    keyed,          \* some movement carries the consumption's key
    transfer, order, line, adjustment, report,      \* the documents' rows
    call,           \* where each keyed consumption is
    begun           \* documents, sales, returns, openings and consumptions so far

docs == <<transfer, order, line, adjustment, report, call>>
vars == <<onHand, batchQty, moved, keyed, docs, begun>>

MovementType == {"purchase", "sale", "transfer_in", "transfer_out", "adjustment_add",
                 "adjustment_remove", "damaged", "return_customer", "opening"}
TransferStatus      == {"draft", "in_transit", "received"}
PurchaseOrderStatus == {"draft", "partially_received", "received"}

Qty == 1..MaxQty
BatchIds == Batches \union {NoBatch}
BatchesOf(i) == {b \in Batches : Home[b] = i}

NoTransfer   == [status |-> "none"]
NoAdjustment == [approved |-> FALSE, item |-> "none"]
NoReport     == [pc |-> "idle"]

TransferRows ==
    [status : TransferStatus, item : Items, to : Warehouses, batch : BatchIds,
     requested : Nat, dispatched : Nat, received : Nat, deleted : BOOLEAN]
LineRows == [ordered : Nat, received : Nat]
AdjustmentRows ==
    [approved : BOOLEAN, item : Items, batch : BatchIds, before : Int, after : Int]
ReportRows ==
    [pc : {"read", "drafted", "done"}, item : Items, batch : BatchIds, qty : Nat,
     after : Int, before : Int]

Init ==
    /\ onHand     = [i \in Items |-> 0]
    /\ batchQty   = [b \in Batches |-> 0]
    /\ moved      = [m \in MovementType |-> 0]
    /\ keyed      = FALSE
    /\ transfer   = [t \in Transfers |-> NoTransfer]
    /\ order      = [o \in Orders |-> "none"]
    /\ line       = [l \in Lines |-> [ordered |-> 0, received |-> 0]]
    /\ adjustment = [a \in Adjustments |-> NoAdjustment]
    /\ report     = [r \in Reports |-> NoReport]
    /\ call       = [c \in Calls |-> "idle"]
    /\ begun     = 0

Begin == begun < MaxBegun /\ begun' = begun + 1

-----------------------------------------------------------------------------
(* apply_stock_movement *)

Post(i, type, q) ==
    /\ onHand' = [onHand EXCEPT ![i] = @ + q]
    /\ moved' = [moved EXCEPT ![type] = @ + q]

PostBatch(b, q) ==
    batchQty' = IF b = NoBatch THEN batchQty ELSE [batchQty EXCEPT ![b] = @ + q]

\* A check of one of the two balances.
CoveredByItem(i, b, q)  == onHand[i] + q >= 0
CoveredByBatch(i, b, q) == b # NoBatch => batchQty[b] + q >= 0

\* Neither the record nor the batch may go below zero.
Covered(i, b, q) ==
    /\ onHand[i] + q >= 0
    /\ b # NoBatch => batchQty[b] + q >= 0

Move(i, type, q, b) == Covered(i, b, q) /\ Post(i, type, q) /\ PostBatch(b, q)

\* Checkout may sell more than there is; neither names a batch.
Direct(i, type, q) ==
    /\ Begin
    /\ Post(i, type, q)
    /\ UNCHANGED <<batchQty, keyed, docs>>

Sell(i, q)   == Direct(i, "sale", -q)
Return(i, q) == Direct(i, "return_customer", q)
Open(i, q)   == Direct(i, "opening", q)

-----------------------------------------------------------------------------
(* Transfers *)

CreateTransfer(t, i, w, b, q) ==
    /\ Begin
    /\ transfer[t].status = "none"
    /\ w # i
    /\ transfer' = [transfer EXCEPT ![t] =
         [status |-> "draft", item |-> i, to |-> w, batch |-> b, requested |-> q,
          dispatched |-> 0, received |-> 0, deleted |-> FALSE]]
    /\ UNCHANGED <<onHand, batchQty, moved, keyed, order, line, adjustment, report, call>>

\* PATCH and DELETE of the view set, which look at no status.
EditTransfer(t) ==
    /\ transfer[t].status # "none" /\ ~transfer[t].deleted
    /\ \/ \E w \in Warehouses : transfer' = [transfer EXCEPT ![t].to = w]
       \/ transfer' = [transfer EXCEPT ![t].deleted = TRUE]
    /\ UNCHANGED <<onHand, batchQty, moved, keyed, order, line, adjustment, report, call, begun>>

DispatchTransfer(t) ==
    LET r == transfer[t] IN
    /\ r.status = "draft" /\ ~r.deleted
    /\ Move(r.item, "transfer_out", -r.requested, r.batch)
    /\ transfer' = [transfer EXCEPT ![t].status = "in_transit",
                                    ![t].dispatched = r.requested]
    /\ UNCHANGED <<keyed, order, line, adjustment, report, call, begun>>

\* A transfer received whether or not it was received before.
ReceiveTransferAgain(t) ==
    LET r == transfer[t] IN
    /\ r.status \in {"in_transit", "received"} /\ ~r.deleted
    /\ r.to \in Items
    /\ Move(r.to, "transfer_in", r.dispatched, r.batch)
    /\ transfer' = [transfer EXCEPT ![t].status = "received",
                                    ![t].received = r.dispatched]
    /\ UNCHANGED <<keyed, order, line, adjustment, report, call, begun>>

\* The batch is the line's, whose home is the record the stock came from.
ReceiveTransfer(t) ==
    LET r == transfer[t] IN
    /\ r.status = "in_transit" /\ ~r.deleted
    /\ r.to \in Items
    /\ Move(r.to, "transfer_in", r.dispatched, r.batch)
    /\ transfer' = [transfer EXCEPT ![t].status = "received",
                                    ![t].received = r.dispatched]
    /\ UNCHANGED <<keyed, order, line, adjustment, report, call, begun>>

-----------------------------------------------------------------------------
(* Purchase orders *)

LinesOf(o) == {l \in Lines : OrderOf[l] = o}

CreatePurchaseOrder(o) ==
    /\ Begin
    /\ order[o] = "none"
    /\ order' = [order EXCEPT ![o] = "draft"]
    /\ line' = [l \in Lines |->
                  IF OrderOf[l] = o THEN [line[l] EXCEPT !.ordered = Asked[l]] ELSE line[l]]
    /\ UNCHANGED <<onHand, batchQty, moved, keyed, transfer, adjustment, report, call>>

Pending(l) == line[l].ordered - line[l].received

\* A receipt checked against the quantity ordered alone.
AcceptableUpToOrdered(l, q) == q <= line[l].ordered
Acceptable(l, q) == q <= Pending(l)

Complete(o, rows) == \A l \in LinesOf(o) : rows[l].received >= rows[l].ordered
Begun(o, rows)    == \E l \in LinesOf(o) : rows[l].received > 0

\* A status that one complete line decides.
StatusByAny(o, rows) ==
    CASE \E l \in LinesOf(o) : rows[l].received >= rows[l].ordered -> "received"
      [] ~Begun(o, rows) -> order[o]
      [] OTHER -> "partially_received"

StatusAfter(o, rows) ==
    CASE Complete(o, rows) -> "received"
      [] ~Complete(o, rows) /\ Begun(o, rows) -> "partially_received"
      [] OTHER -> order[o]

\* Each receipt names a line by its id, a line of another order too, and may
\* name the batch; the status is derived for the order of the call alone.
ReceivePurchaseOrder(o, got, lots) ==
    LET rows == [l \in Lines |-> [line[l] EXCEPT !.received = @ + got[l]]]
        into(i)  == SumOver([l \in {k \in Lines : ItemOf[k] = i} |-> got[l]])
        intoB(b) == SumOver([l \in {k \in lots : LotOf[k] = b} |-> got[l]])
    IN
    /\ order[o] \notin {"none", "received"}
    /\ \A l \in Lines : got[l] > 0 => order[OrderOf[l]] # "none" /\ Acceptable(l, got[l])
    /\ onHand' = [i \in Items |-> onHand[i] + into(i)]
    /\ batchQty' = [b \in Batches |-> batchQty[b] + intoB(b)]
    /\ moved' = [moved EXCEPT !["purchase"] = @ + SumOver(got)]
    /\ line' = rows
    /\ order' = [order EXCEPT ![o] = StatusAfter(o, rows)]
    /\ UNCHANGED <<keyed, transfer, adjustment, report, call, begun>>

-----------------------------------------------------------------------------
(* Adjustments and damage *)

CreateAdjustment(a, i, b, q) ==
    /\ Begin
    /\ adjustment[a] = NoAdjustment
    /\ adjustment' = [adjustment EXCEPT ![a] =
         [approved |-> FALSE, item |-> i, batch |-> b, before |-> onHand[i], after |-> q]]
    /\ UNCHANGED <<onHand, batchQty, moved, keyed, transfer, order, line, report, call>>

\* The difference found at the count is posted to whatever the balance is now.
Adjust(i, b, delta, down) ==
    IF delta = 0 THEN UNCHANGED <<onHand, batchQty, moved>>
    ELSE Move(i, IF delta > 0 THEN "adjustment_add" ELSE down, delta, b)

ApproveAdjustment(a) ==
    LET r == adjustment[a] IN
    /\ r # NoAdjustment /\ ~r.approved
    /\ Adjust(r.item, r.batch, r.after - r.before, "adjustment_remove")
    /\ adjustment' = [adjustment EXCEPT ![a].approved = TRUE]
    /\ UNCHANGED <<keyed, transfer, order, line, report, call, begun>>

UnmovedByReport ==
    UNCHANGED <<onHand, batchQty, moved, keyed, transfer, order, line, adjustment, call>>

\* record_damaged_stock reads the balance without a lock to say what is left
\* (what is left may not be negative: ck_adj_line__qty_after_nonneg);
ReadDamaged(r, i, b, q) ==
    /\ Begin
    /\ report[r] = NoReport
    /\ q <= onHand[i]
    /\ report' = [report EXCEPT ![r] =
         [pc |-> "read", item |-> i, batch |-> b, qty |-> q,
          after |-> onHand[i] - q, before |-> 0]]
    /\ UnmovedByReport

\* create_adjustment reads it again,
DraftDamaged(r) ==
    /\ report[r].pc = "read"
    /\ report' = [report EXCEPT ![r].pc = "drafted",
                                ![r].before = onHand[report[r].item]]
    /\ UNCHANGED begun /\ UnmovedByReport

\* and approving posts the difference of the two reads.
WriteOffDamaged(r) ==
    LET d == report[r] IN
    /\ d.pc = "drafted"
    /\ Adjust(d.item, d.batch, d.after - d.before, "damaged")
    /\ report' = [report EXCEPT ![r].pc = "done"]
    /\ UNCHANGED <<keyed, transfer, order, line, adjustment, call, begun>>

-----------------------------------------------------------------------------
(* consume_stock: keyed, first expired first out *)

At(c, p) == call[c] = p
Goto(c, p) == call' = [call EXCEPT ![c] = p]

\* The key is looked up before any row is locked.
CheckKey(c) ==
    /\ At(c, "idle")
    /\ IF \A d \in Calls : At(d, "idle") THEN Begin ELSE UNCHANGED begun
    /\ Goto(c, IF keyed THEN "done" ELSE "checked")
    /\ UNCHANGED <<onHand, batchQty, moved, keyed, transfer, order, line, adjustment,
                   report>>

Before(b) == SumOver([d \in {e \in BatchesOf(Home[b]) : e < b} |-> batchQty[d]])
After(b)  == SumOver([d \in {e \in BatchesOf(Home[b]) : e > b} |-> batchQty[d]])
Bounded(n, hi) == IF n < 0 THEN 0 ELSE IF n > hi THEN hi ELSE n

\* Last expired first.
TakeLatest(b) == IF Home[b] = Wanted.item THEN Bounded(Wanted.qty - After(b), batchQty[b]) ELSE 0

\* What is taken of batch b: every batch of the record before it goes first.
Take(b) == IF Home[b] = Wanted.item THEN Bounded(Wanted.qty - Before(b), batchQty[b]) ELSE 0

Remainder == Wanted.qty - SumOver([b \in Batches |-> Take(b)])

\* The first posting carries the key.  A call that checked before another one
\* committed finds the key there: it skips that posting and makes the others.
FirstPosting ==
    LET taken == {b \in Batches : Take(b) > 0}
    IN  IF taken = {} THEN NoBatch ELSE CHOOSE b \in taken : \A d \in taken : b <= d

Skipped(b) == keyed /\ b = FirstPosting

Deducted ==
    LET parts == [b \in BatchIds |-> IF Skipped(b) THEN 0
                                     ELSE IF b = NoBatch THEN Remainder ELSE Take(b)]
    IN  SumOver(parts)

Consume(c) ==
    /\ At(c, "checked")
    /\ Wanted.qty <= onHand[Wanted.item]
    /\ batchQty' = [b \in Batches |-> batchQty[b] - (IF Skipped(b) THEN 0 ELSE Take(b))]
    /\ onHand' = [onHand EXCEPT ![Wanted.item] = @ - Deducted]
    /\ moved' = [moved EXCEPT !["sale"] = @ - Deducted]
    /\ keyed' = TRUE
    /\ Goto(c, "done")
    /\ UNCHANGED <<transfer, order, line, adjustment, report, begun>>

-----------------------------------------------------------------------------

LotsOf(i) == BatchesOf(i) \union {NoBatch}

TransferStep(t) ==
    \/ \E i \in Items, w \in Warehouses, q \in Qty : \E b \in LotsOf(i) :
         CreateTransfer(t, i, w, b, q)
    \/ EditTransfer(t) \/ DispatchTransfer(t) \/ ReceiveTransfer(t)

OrderStep(o) ==
    \/ CreatePurchaseOrder(o)
    \/ \E got \in [Lines -> 0..MaxQty] :
         \E lots \in SUBSET {l \in Lines : got[l] > 0} : ReceivePurchaseOrder(o, got, lots)

AdjustmentStep(a) ==
    \/ \E i \in Items, q \in 0..MaxQty : \E b \in LotsOf(i) : CreateAdjustment(a, i, b, q)
    \/ ApproveAdjustment(a)

ReportStep(r) ==
    \/ \E i \in Items, q \in Qty : \E b \in LotsOf(i) : ReadDamaged(r, i, b, q)
    \/ DraftDamaged(r) \/ WriteOffDamaged(r)

Next ==
    \/ \E i \in Items, q \in Traded : Sell(i, q) \/ Return(i, q) \/ Open(i, q)
    \/ \E t \in Transfers : TransferStep(t)
    \/ \E o \in Orders : OrderStep(o)
    \/ \E a \in Adjustments : AdjustmentStep(a)
    \/ \E r \in Reports : ReportStep(r)
    \/ \E c \in Calls : CheckKey(c) \/ Consume(c)

Spec == Init /\ [][Next]_vars

-----------------------------------------------------------------------------
(* Properties *)

TypeOK ==
    /\ onHand \in [Items -> Int]
    /\ batchQty \in [Batches -> Nat]
    /\ moved \in [MovementType -> Int]
    /\ keyed \in BOOLEAN
    /\ transfer \in [Transfers -> TransferRows \union {NoTransfer}]
    /\ order \in [Orders -> PurchaseOrderStatus \union {"none"}]
    /\ line \in [Lines -> LineRows]
    /\ adjustment \in [Adjustments -> AdjustmentRows \union {NoAdjustment}]
    /\ report \in [Reports -> ReportRows \union {NoReport}]
    /\ call \in [Calls -> {"idle", "checked", "done"}]
    /\ begun \in 0..MaxBegun

InTransit(t) ==
    IF transfer[t].status = "none" THEN 0 ELSE transfer[t].dispatched - transfer[t].received

External == MovementType \ {"transfer_in", "transfer_out"}

\* Transfers make and lose no stock: what the records hold and what is on its
\* way, in a deleted transfer too, is what all other movements brought in
\* (dispatch_transfer, receive_transfer, PATCH and DELETE between them).
StockConserved ==
    SumOver(onHand) + SumOver([t \in Transfers |-> InTransit(t)])
      = SumOver([m \in External |-> moved[m]])

\* Purchases brought in what the order lines account for, no line received more
\* than was ordered, through whichever order it was received, and an order is
\* closed only when each of its lines is complete.
ReceiptsMatchOrders ==
    /\ moved["purchase"] = SumOver([l \in Lines |-> line[l].received])
    /\ \A l \in Lines : line[l].received <= line[l].ordered
    /\ \A o \in Orders : order[o] = "received" => Complete(o, line)

\* Every unit is in a record or accounted for, and what purchase orders say they
\* received is what was booked for them (movement_service, purchase_service).
StockAgrees == StockConserved /\ ReceiptsMatchOrders

\* A record is short by no more than was sold at the counter: every other
\* movement is refused when it would leave less than nothing.
OnlySalesOversell == \A i \in Items : onHand[i] < 0 => onHand[i] >= moved["sale"]

\* The first call of a consumption takes from a batch only when those of the
\* record that expire before it are used up (lock_fefo_batches).
FirstExpiredFirstOut ==
    [][\A c \in Calls : Consume(c) /\ ~keyed =>
         \A b, d \in Batches :
             Home[b] = Home[d] /\ b < d /\ batchQty'[d] < batchQty[d] => batchQty'[b] = 0]_vars
=============================================================================
