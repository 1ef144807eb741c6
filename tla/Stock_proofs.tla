---------------------------- MODULE Stock_proofs ----------------------------
(***************************************************************************)
(* For any warehouses, batches, documents and quantities: the ledger is    *)
(* well typed, transfers neither make nor lose stock, purchases agree with *)
(* their orders, only counter sales leave a record short, and a            *)
(* consumption empties batches in the order they expire.                   *)
(***************************************************************************)
EXTENDS Stock, Sums_proofs

-----------------------------------------------------------------------------
(* Types *)

\* A posting changes one balance and one kind of movement, by the same amount.
LEMMA Posted ==
    ASSUME TypeOK, NEW i \in Items, NEW type \in MovementType, NEW q \in Int, Post(i, type, q)
    PROVE  /\ onHand' \in [Items -> Int] /\ moved' \in [MovementType -> Int]
           /\ onHand'[i] = onHand[i] + q /\ moved'[type] = moved[type] + q
           /\ \A j \in Items \ {i} : onHand'[j] = onHand[j]
           /\ \A m \in MovementType \ {type} : moved'[m] = moved[m]
  BY DEF TypeOK, Post

LEMMA BatchTyped ==
    ASSUME TypeOK, NEW b \in BatchIds, NEW q \in Int, PostBatch(b, q),
           b # NoBatch => batchQty[b] + q >= 0
    PROVE  batchQty' \in [Batches -> Nat]
  BY DEF TypeOK, PostBatch, BatchIds

\* What a document moves is refused if it would leave less than nothing.
LEMMA MoveTyped ==
    ASSUME TypeOK, NEW i \in Items, NEW type \in MovementType, NEW q \in Int,
           NEW b \in BatchIds, Move(i, type, q, b)
    PROVE  /\ onHand' \in [Items -> Int] /\ moved' \in [MovementType -> Int]
           /\ batchQty' \in [Batches -> Nat] /\ onHand'[i] >= 0
<1>1. Covered(i, b, q) /\ Post(i, type, q) /\ PostBatch(b, q)
  BY DEF Move
<1>2. onHand[i] + q >= 0 /\ (b # NoBatch => batchQty[b] + q >= 0)
  BY <1>1 DEF Covered
<1> QED
  BY <1>1, <1>2, Posted, BatchTyped

LEMMA AdjustTyped ==
    ASSUME TypeOK, NEW i \in Items, NEW b \in BatchIds, NEW delta \in Int,
           NEW down \in MovementType, Adjust(i, b, delta, down)
    PROVE  /\ onHand' \in [Items -> Int] /\ moved' \in [MovementType -> Int]
           /\ batchQty' \in [Batches -> Nat]
<1>1. CASE delta = 0
  BY <1>1 DEF Adjust, TypeOK
<1>2. CASE delta # 0
  <2>1. (IF delta > 0 THEN "adjustment_add" ELSE down) \in MovementType
    BY DEF MovementType
  <2> QED
    BY <1>2, <2>1, MoveTyped DEF Adjust
<1> QED
  BY <1>1, <1>2

LEMMA InitTyped == Init => TypeOK
<1> SUFFICES ASSUME Init PROVE TypeOK
  OBVIOUS
<1>1. /\ onHand \in [Items -> Int] /\ batchQty \in [Batches -> Nat]
      /\ moved \in [MovementType -> Int]
  BY DEF Init
<1>5. keyed \in BOOLEAN
  BY DEF Init
<1>2. /\ line \in [Lines -> LineRows]
      /\ order \in [Orders -> PurchaseOrderStatus \union {"none"}]
      /\ call \in [Calls -> {"idle", "checked", "done"}]
  BY DEF Init, LineRows
<1>3. /\ transfer \in [Transfers -> TransferRows \union {NoTransfer}]
      /\ adjustment \in [Adjustments -> AdjustmentRows \union {NoAdjustment}]
      /\ report \in [Reports -> ReportRows \union {NoReport}]
  BY DEF Init
<1>4. begun \in 0..MaxBegun
  BY StockAssumption DEF Init
<1> QED
  BY <1>1, <1>2, <1>3, <1>4, <1>5 DEF TypeOK

LEMMA BeginTyped == ASSUME TypeOK, Begin PROVE begun' \in 0..MaxBegun
  BY StockAssumption DEF TypeOK, Begin

\* The rows of the documents, and what they name.
LEMMA TransferRow ==
    ASSUME TypeOK, NEW t \in Transfers, transfer[t].status # "none"
    PROVE  /\ transfer[t] \in TransferRows
           /\ transfer[t].status \in TransferStatus /\ transfer[t].deleted \in BOOLEAN
           /\ transfer[t].item \in Items /\ transfer[t].to \in Warehouses
           /\ transfer[t].batch \in BatchIds /\ transfer[t].requested \in Nat
           /\ transfer[t].dispatched \in Nat /\ transfer[t].received \in Nat
  BY DEF TypeOK, TransferRows, NoTransfer

LEMMA AdjustmentRow ==
    ASSUME TypeOK, NEW a \in Adjustments, adjustment[a] # NoAdjustment
    PROVE  /\ adjustment[a] \in AdjustmentRows
           /\ adjustment[a].item \in Items /\ adjustment[a].batch \in BatchIds
           /\ adjustment[a].before \in Int /\ adjustment[a].after \in Int
  BY DEF TypeOK, AdjustmentRows

LEMMA ReportRow ==
    ASSUME TypeOK, NEW r \in Reports, report[r].pc # "idle"
    PROVE  /\ report[r] \in ReportRows
           /\ report[r].item \in Items /\ report[r].batch \in BatchIds
           /\ report[r].before \in Int /\ report[r].after \in Int
  BY DEF TypeOK, ReportRows, NoReport

LEMMA LotsAreBatches == \A i \in Items : LotsOf(i) \subseteq BatchIds
  BY DEF LotsOf, BatchesOf, BatchIds

LEMMA TransferStepTyped ==
    ASSUME TypeOK, NEW t \in Transfers, TransferStep(t) PROVE TypeOK'
<1>1. ASSUME NEW i \in Items, NEW w \in Warehouses, NEW q \in Qty, NEW b \in LotsOf(i),
             CreateTransfer(t, i, w, b, q)
      PROVE  TypeOK'
  <2>1. [status |-> "draft", item |-> i, to |-> w, batch |-> b, requested |-> q,
         dispatched |-> 0, received |-> 0, deleted |-> FALSE] \in TransferRows
    BY LotsAreBatches, StockAssumption DEF TransferRows, TransferStatus, Qty
  <2>2. begun' \in 0..MaxBegun
    BY <1>1, BeginTyped DEF CreateTransfer
  <2> QED
    BY <1>1, <2>1, <2>2 DEF CreateTransfer, TypeOK
<1>2. ASSUME EditTransfer(t) PROVE TypeOK'
  <2>1. transfer[t] \in TransferRows
    BY <1>2, TransferRow DEF EditTransfer
  <2>2. /\ \A w \in Warehouses : [transfer[t] EXCEPT !.to = w] \in TransferRows
        /\ [transfer[t] EXCEPT !.deleted = TRUE] \in TransferRows
    BY <2>1 DEF TransferRows
  <2>3. transfer' \in [Transfers -> TransferRows \union {NoTransfer}]
    BY <1>2, <2>2 DEF EditTransfer, TypeOK
  <2>4. UNCHANGED <<onHand, batchQty, moved, keyed, order, line, adjustment, report, call, begun>>
    BY <1>2 DEF EditTransfer
  <2> QED
    BY <2>3, <2>4 DEF TypeOK
<1>3. ASSUME DispatchTransfer(t) PROVE TypeOK'
  <2>1. transfer[t].status # "none"
    BY <1>3 DEF DispatchTransfer
  <2>2. [transfer[t] EXCEPT !.status = "in_transit", !.dispatched = transfer[t].requested]
          \in TransferRows
    BY <2>1, TransferRow DEF TransferRows, TransferStatus
  <2>3. transfer' \in [Transfers -> TransferRows \union {NoTransfer}]
    BY <1>3, <2>2 DEF DispatchTransfer, TypeOK
  <2>4. onHand' \in [Items -> Int] /\ moved' \in [MovementType -> Int] /\ batchQty' \in [Batches -> Nat]
    <3>1. Move(transfer[t].item, "transfer_out", -transfer[t].requested, transfer[t].batch)
      BY <1>3 DEF DispatchTransfer
    <3>2. -transfer[t].requested \in Int /\ "transfer_out" \in MovementType
      BY <2>1, TransferRow DEF MovementType
    <3> QED
      BY <2>1, <3>1, <3>2, TransferRow, MoveTyped
  <2> QED
    BY <1>3, <2>3, <2>4 DEF DispatchTransfer, TypeOK
<1>4. ASSUME ReceiveTransfer(t) PROVE TypeOK'
  <2>1. transfer[t].status # "none"
    BY <1>4 DEF ReceiveTransfer
  <2>2. [transfer[t] EXCEPT !.status = "received", !.received = transfer[t].dispatched]
          \in TransferRows
    BY <2>1, TransferRow DEF TransferRows, TransferStatus
  <2>3. transfer' \in [Transfers -> TransferRows \union {NoTransfer}]
    BY <1>4, <2>2 DEF ReceiveTransfer, TypeOK
  <2>4. onHand' \in [Items -> Int] /\ moved' \in [MovementType -> Int] /\ batchQty' \in [Batches -> Nat]
    BY <1>4, <2>1, TransferRow, MoveTyped DEF ReceiveTransfer, MovementType
  <2> QED
    BY <1>4, <2>3, <2>4 DEF ReceiveTransfer, TypeOK
<1> QED
  BY <1>1, <1>2, <1>3, <1>4 DEF TransferStep

\* Quantities received, and the sums of what a receipt books.
LEMMA ReceiptSums ==
    ASSUME NEW got \in [Lines -> Nat], NEW S \in SUBSET Lines
    PROVE  SumOver([l \in S |-> got[l]]) \in Nat
  BY StockAssumption, FS_Subset, SumOverNat

LEMMA OrderStepTyped ==
    ASSUME TypeOK, NEW o \in Orders, OrderStep(o) PROVE TypeOK'
<1>1. ASSUME CreatePurchaseOrder(o) PROVE TypeOK'
  <2>1. begun' \in 0..MaxBegun
    BY <1>1, BeginTyped DEF CreatePurchaseOrder
  <2>2. line' \in [Lines -> LineRows]
    BY <1>1, StockAssumption DEF CreatePurchaseOrder, TypeOK, LineRows
  <2>3. order' \in [Orders -> PurchaseOrderStatus \union {"none"}]
    BY <1>1 DEF CreatePurchaseOrder, TypeOK, PurchaseOrderStatus
  <2> QED
    BY <1>1, <2>1, <2>2, <2>3 DEF CreatePurchaseOrder, TypeOK
<1>2. ASSUME NEW got \in [Lines -> 0..MaxQty], NEW lots \in SUBSET {l \in Lines : got[l] > 0},
             ReceivePurchaseOrder(o, got, lots)
      PROVE  TypeOK'
  <2> DEFINE rows == [l \in Lines |-> [line[l] EXCEPT !.received = @ + got[l]]]
  <2>1. got \in [Lines -> Nat]
    BY StockAssumption
  <2>2. \A i \in Items : SumOver([l \in {k \in Lines : ItemOf[k] = i} |-> got[l]]) \in Nat
    BY <2>1, ReceiptSums
  <2>3. \A b \in Batches : SumOver([l \in {k \in lots : LotOf[k] = b} |-> got[l]]) \in Nat
    BY <2>1, ReceiptSums
  <2>4. SumOver(got) \in Nat
    BY <2>1, StockAssumption, SumOverNat
  <2>5. onHand' \in [Items -> Int]
    <3>1. onHand' = [i \in Items |-> onHand[i] + SumOver([l \in {k \in Lines : ItemOf[k] = i} |-> got[l]])]
      BY <1>2 DEF ReceivePurchaseOrder
    <3> QED
      BY <2>2, <3>1 DEF TypeOK
  <2>6. batchQty' \in [Batches -> Nat]
    <3>1. batchQty' = [b \in Batches |-> batchQty[b] + SumOver([l \in {k \in lots : LotOf[k] = b} |-> got[l]])]
      BY <1>2 DEF ReceivePurchaseOrder
    <3> QED
      BY <2>3, <3>1 DEF TypeOK
  <2>7. moved' \in [MovementType -> Int]
    BY <1>2, <2>4 DEF ReceivePurchaseOrder, TypeOK, MovementType
  <2>8. line' \in [Lines -> LineRows]
    <3>1. line' = rows
      BY <1>2 DEF ReceivePurchaseOrder
    <3>2. \A l \in Lines : [line[l] EXCEPT !.received = @ + got[l]] \in LineRows
      BY <2>1 DEF TypeOK, LineRows
    <3> QED
      BY <3>1, <3>2
  <2>9. order' \in [Orders -> PurchaseOrderStatus \union {"none"}]
    <3>1. StatusAfter(o, rows) \in PurchaseOrderStatus \union {"none"}
      BY DEF StatusAfter, TypeOK, PurchaseOrderStatus
    <3> QED
      BY <1>2, <3>1 DEF ReceivePurchaseOrder, TypeOK
  <2>10. UNCHANGED <<keyed, transfer, adjustment, report, call, begun>>
    BY <1>2 DEF ReceivePurchaseOrder
  <2> QED
    BY <2>5, <2>6, <2>7, <2>8, <2>9, <2>10 DEF TypeOK
<1> QED
  BY <1>1, <1>2 DEF OrderStep

LEMMA AdjustmentStepTyped ==
    ASSUME TypeOK, NEW a \in Adjustments, AdjustmentStep(a) PROVE TypeOK'
<1>1. ASSUME NEW i \in Items, NEW q \in 0..MaxQty, NEW b \in LotsOf(i), CreateAdjustment(a, i, b, q)
      PROVE  TypeOK'
  <2>1. [approved |-> FALSE, item |-> i, batch |-> b, before |-> onHand[i], after |-> q]
          \in AdjustmentRows
    BY LotsAreBatches, StockAssumption DEF AdjustmentRows, TypeOK
  <2>2. begun' \in 0..MaxBegun
    BY <1>1, BeginTyped DEF CreateAdjustment
  <2> QED
    BY <1>1, <2>1, <2>2 DEF CreateAdjustment, TypeOK
<1>2. ASSUME ApproveAdjustment(a) PROVE TypeOK'
  <2>1. adjustment[a] # NoAdjustment
    BY <1>2 DEF ApproveAdjustment
  <2>2. [adjustment[a] EXCEPT !.approved = TRUE] \in AdjustmentRows
    BY <2>1, AdjustmentRow DEF AdjustmentRows
  <2>3. adjustment' \in [Adjustments -> AdjustmentRows \union {NoAdjustment}]
    BY <1>2, <2>2 DEF ApproveAdjustment, TypeOK
  <2>4. onHand' \in [Items -> Int] /\ moved' \in [MovementType -> Int] /\ batchQty' \in [Batches -> Nat]
    BY <1>2, <2>1, AdjustmentRow, AdjustTyped DEF ApproveAdjustment, MovementType
  <2> QED
    BY <1>2, <2>3, <2>4 DEF ApproveAdjustment, TypeOK
<1> QED
  BY <1>1, <1>2 DEF AdjustmentStep

LEMMA ReportStepTyped ==
    ASSUME TypeOK, NEW r \in Reports, ReportStep(r) PROVE TypeOK'
<1>1. ASSUME NEW i \in Items, NEW q \in Qty, NEW b \in LotsOf(i), ReadDamaged(r, i, b, q)
      PROVE  TypeOK'
  <2>1. [pc |-> "read", item |-> i, batch |-> b, qty |-> q, after |-> onHand[i] - q, before |-> 0]
          \in ReportRows
    BY LotsAreBatches, StockAssumption DEF ReportRows, TypeOK, Qty
  <2>2. begun' \in 0..MaxBegun
    BY <1>1, BeginTyped DEF ReadDamaged
  <2> QED
    BY <1>1, <2>1, <2>2 DEF ReadDamaged, UnmovedByReport, TypeOK
<1>2. ASSUME DraftDamaged(r) PROVE TypeOK'
  <2>1. report[r] \in ReportRows /\ onHand[report[r].item] \in Int
    BY <1>2, ReportRow DEF DraftDamaged, TypeOK
  <2>2. [report[r] EXCEPT !.pc = "drafted", !.before = onHand[report[r].item]] \in ReportRows
    BY <2>1 DEF ReportRows
  <2>3. report' \in [Reports -> ReportRows \union {NoReport}]
    BY <1>2, <2>2 DEF DraftDamaged, TypeOK
  <2> QED
    BY <1>2, <2>3 DEF DraftDamaged, UnmovedByReport, TypeOK
<1>3. ASSUME WriteOffDamaged(r) PROVE TypeOK'
  <2>1. report[r].pc # "idle"
    BY <1>3 DEF WriteOffDamaged
  <2>2. [report[r] EXCEPT !.pc = "done"] \in ReportRows
    BY <2>1, ReportRow DEF ReportRows
  <2>3. report' \in [Reports -> ReportRows \union {NoReport}]
    BY <1>3, <2>2 DEF WriteOffDamaged, TypeOK
  <2>4. onHand' \in [Items -> Int] /\ moved' \in [MovementType -> Int] /\ batchQty' \in [Batches -> Nat]
    BY <1>3, <2>1, ReportRow, AdjustTyped DEF WriteOffDamaged, MovementType
  <2> QED
    BY <1>3, <2>3, <2>4 DEF WriteOffDamaged, TypeOK
<1> QED
  BY <1>1, <1>2, <1>3 DEF ReportStep

-----------------------------------------------------------------------------
(* What a consumption takes                                                *)

\* Sums of batch balances.
LEMMA BatchSums ==
    ASSUME TypeOK, NEW S \in SUBSET Batches
    PROVE  /\ IsSummable(batchQty) /\ DOMAIN batchQty = Batches
           /\ SumOver([b \in S |-> batchQty[b]]) = SumTable(batchQty)[S]
           /\ SumTable(batchQty)[S] \in Nat
<1>1. IsSummable(batchQty) /\ DOMAIN batchQty = Batches
  BY StockAssumption DEF TypeOK, IsSummable
<1>2. \A b \in DOMAIN batchQty : batchQty[b] \in Nat
  BY DEF TypeOK
<1> QED
  BY <1>1, <1>2, SumOverPart, SumTableNat DEF IsSummable

LEMMA BeforeNat ==
    ASSUME TypeOK, NEW b \in Batches
    PROVE  Before(b) \in Nat
<1>1. {e \in BatchesOf(Home[b]) : e < b} \in SUBSET Batches
  BY DEF BatchesOf
<1> QED
  BY <1>1, BatchSums DEF Before

\* No batch gives more than it has, nor more than is wanted.
LEMMA TakeRange ==
    ASSUME TypeOK, NEW b \in Batches
    PROVE  Take(b) \in Nat /\ Take(b) <= batchQty[b] /\ Take(b) <= Wanted.qty
<1>1. batchQty[b] \in Nat /\ Wanted.qty \in Nat
  BY StockAssumption DEF TypeOK
<1> QED
  BY <1>1, BeforeNat DEF Take, Bounded

LEMMA TakenSum ==
    ASSUME TypeOK
    PROVE  SumOver([b \in Batches |-> Take(b)]) \in Nat
  BY TakeRange, StockAssumption, SumOverNat

Part(b) == IF b = NoBatch THEN Remainder ELSE Take(b)

\* The parts are what is wanted, neither more nor less.
LEMMA PartsAreWanted ==
    ASSUME TypeOK
    PROVE  /\ IsSummable([b \in BatchIds |-> Part(b)])
           /\ SumOver([b \in BatchIds |-> Part(b)]) = Wanted.qty
<1> DEFINE parts == [b \in BatchIds |-> Part(b)]
           takes == SumOver([b \in Batches |-> Take(b)])
<1>1. Wanted.qty \in Nat /\ takes \in Nat
  BY StockAssumption, TakenSum
<1>2. Part(NoBatch) = Wanted.qty - takes
  BY DEF Part, Remainder
<1>3. NoBatch \notin Batches /\ BatchIds = Batches \union {NoBatch} /\ IsFiniteSet(BatchIds)
  BY StockAssumption, FS_AddElement DEF BatchIds
<1>4. \A b \in Batches : Part(b) = Take(b) /\ Take(b) \in Int
  BY <1>3, TakeRange DEF Part
<1>5. \A b \in BatchIds : Part(b) \in Int
  BY <1>1, <1>2, <1>3, <1>4
<1>6. IsSummable(parts) /\ DOMAIN parts = BatchIds
  BY <1>3, <1>5 DEF IsSummable
<1>7. /\ parts[NoBatch] = Part(NoBatch) /\ BatchIds \ {NoBatch} = Batches
      /\ [b \in Batches |-> parts[b]] = [b \in Batches |-> Take(b)]
  BY <1>3, <1>4
<1> HIDE DEF parts
<1>8. SumOver(parts) = parts[NoBatch] + SumTable(parts)[Batches]
  BY <1>3, <1>6, <1>7, SumOverSplit
<1>9. SumTable(parts)[Batches] = takes
  BY <1>3, <1>6, <1>7, SumOverPart
<1>10. SumOver(parts) = Wanted.qty
  BY <1>1, <1>2, <1>7, <1>8, <1>9
<1> QED
  BY <1>6, <1>10 DEF parts

\* The posting that carries the key takes at most what is wanted.
LEMMA FirstPart ==
    ASSUME TypeOK
    PROVE  FirstPosting \in BatchIds /\ Part(FirstPosting) \in 0..Wanted.qty
<1> DEFINE taken == {b \in Batches : Take(b) > 0}
<1>1. Wanted.qty \in Nat /\ NoBatch \notin Batches
  BY StockAssumption
<1>2. CASE taken = {}
  <2>1. \A b \in Batches : Take(b) = 0
    BY <1>2, TakeRange
  <2>2. SumOver([b \in Batches |-> Take(b)]) = 0
    BY <2>1, StockAssumption, SumOverZero
  <2>3. FirstPosting = NoBatch
    BY <1>2 DEF FirstPosting
  <2> QED
    BY <1>1, <2>2, <2>3 DEF Part, Remainder, BatchIds
<1>3. CASE taken # {}
  <2>1. \E b \in taken : \A d \in taken : b <= d
    BY <1>3, StockAssumption, LeastElement
  <2>2. FirstPosting \in taken
    BY <1>3, <2>1 DEF FirstPosting
  <2> QED
    BY <1>1, <2>2, TakeRange DEF Part, BatchIds
<1> QED
  BY <1>2, <1>3

\* A call deducts what is wanted, but for a posting it skips.
LEMMA DeductedRange ==
    ASSUME TypeOK
    PROVE  Deducted \in 0..Wanted.qty
<1> DEFINE parts == [b \in BatchIds |-> Part(b)]
           posted == [b \in BatchIds |-> IF Skipped(b) THEN 0 ELSE Part(b)]
<1>1. Deducted = SumOver(posted)
  BY DEF Deducted, Part
<1>2. IsSummable(parts) /\ SumOver(parts) = Wanted.qty /\ DOMAIN parts = BatchIds
  BY PartsAreWanted
<1>3. \A b \in BatchIds : Part(b) \in Int
  BY <1>2 DEF IsSummable
<1>4. IsSummable(posted) /\ DOMAIN posted = BatchIds
  BY <1>2, <1>3 DEF IsSummable
<1>5. Wanted.qty \in Nat
  BY StockAssumption
<1>6. CASE ~keyed
  <2>1. \A b \in BatchIds : posted[b] = parts[b]
    BY <1>6 DEF Skipped
  <2> HIDE DEF parts, posted
  <2>2. SumOver(posted) = SumOver(parts)
    BY <1>2, <1>4, <2>1, SumOverSame
  <2> QED
    BY <1>1, <1>2, <1>5, <2>2
<1>7. CASE keyed
  <2>1. /\ posted[FirstPosting] = 0 /\ parts[FirstPosting] = Part(FirstPosting)
        /\ \A b \in BatchIds \ {FirstPosting} : posted[b] = parts[b]
    BY <1>7, FirstPart DEF Skipped
  <2> HIDE DEF parts, posted
  <2>2. SumOver(posted) = SumOver(parts) + (posted[FirstPosting] - parts[FirstPosting])
    BY <1>2, <1>4, <2>1, FirstPart, SumOverChange
  <2> QED
    BY <1>1, <1>2, <1>5, <2>1, <2>2, FirstPart
<1> QED
  BY <1>6, <1>7

LEMMA CallStepTyped ==
    ASSUME TypeOK, NEW c \in Calls, CheckKey(c) \/ Consume(c) PROVE TypeOK'
<1>1. CASE CheckKey(c)
  <2>1. begun' \in 0..MaxBegun
    BY <1>1, BeginTyped DEF CheckKey, TypeOK
  <2>2. call' \in [Calls -> {"idle", "checked", "done"}]
    BY <1>1 DEF CheckKey, Goto, TypeOK
  <2>3. UNCHANGED <<onHand, batchQty, moved, keyed, transfer, order, line, adjustment, report>>
    BY <1>1 DEF CheckKey
  <2> QED
    BY <2>1, <2>2, <2>3 DEF TypeOK
<1>2. CASE Consume(c)
  <2>1. onHand' \in [Items -> Int] /\ moved' \in [MovementType -> Int]
    <3>1. Deducted \in Int
      BY DeductedRange, StockAssumption
    <3>2. /\ onHand' = [onHand EXCEPT ![Wanted.item] = onHand[Wanted.item] - Deducted]
          /\ moved' = [moved EXCEPT !["sale"] = moved["sale"] - Deducted]
      BY <1>2 DEF Consume
    <3> QED
      BY <3>1, <3>2, StockAssumption DEF TypeOK, MovementType
  <2>2. batchQty' \in [Batches -> Nat]
    <3>1. \A b \in Batches : batchQty[b] - (IF Skipped(b) THEN 0 ELSE Take(b)) \in Nat
      BY TakeRange DEF TypeOK
    <3> QED
      BY <1>2, <3>1 DEF Consume
  <2>3. call' \in [Calls -> {"idle", "checked", "done"}]
    BY <1>2 DEF Consume, Goto, TypeOK
  <2>4. keyed' \in BOOLEAN
    BY <1>2 DEF Consume
  <2>5. UNCHANGED <<transfer, order, line, adjustment, report, begun>>
    BY <1>2 DEF Consume
  <2> QED
    BY <2>1, <2>2, <2>3, <2>4, <2>5 DEF TypeOK
<1> QED
  BY <1>1, <1>2

LEMMA DirectTyped ==
    ASSUME TypeOK, NEW i \in Items, NEW type \in MovementType, NEW q \in Int, Direct(i, type, q)
    PROVE  TypeOK'
<1>1. onHand' \in [Items -> Int] /\ moved' \in [MovementType -> Int] /\ begun' \in 0..MaxBegun
  BY Posted, BeginTyped DEF Direct
<1>2. UNCHANGED <<batchQty, keyed, docs>>
  BY DEF Direct
<1> QED
  BY <1>1, <1>2 DEF TypeOK, docs

\* The three postings of the checkout, in one form.
LEMMA CounterStep ==
    ASSUME NEW i \in Items, NEW q \in Traded, Sell(i, q) \/ Return(i, q) \/ Open(i, q)
    PROVE  /\ q \in Nat \ {0}
           /\ \E type \in {"sale", "return_customer", "opening"} :
                Direct(i, type, IF type = "sale" THEN -q ELSE q)
  BY StockAssumption DEF Sell, Return, Open

LEMMA TypeStep == TypeOK /\ [Next]_vars => TypeOK'
<1> SUFFICES ASSUME TypeOK, [Next]_vars PROVE TypeOK'
  OBVIOUS
<1>1. ASSUME NEW i \in Items, NEW q \in Traded, Sell(i, q) \/ Return(i, q) \/ Open(i, q)
      PROVE  TypeOK'
  <2>1. PICK type \in {"sale", "return_customer", "opening"} :
          Direct(i, type, IF type = "sale" THEN -q ELSE q)
    BY <1>1, CounterStep
  <2>2. type \in MovementType /\ (IF type = "sale" THEN -q ELSE q) \in Int
    BY <1>1, CounterStep DEF MovementType
  <2> QED
    BY <2>1, <2>2, DirectTyped
<1>2. CASE UNCHANGED vars
  BY <1>2 DEF vars, docs, TypeOK
<1> QED
  BY <1>1, <1>2, TransferStepTyped, OrderStepTyped, AdjustmentStepTyped, ReportStepTyped,
     CallStepTyped DEF Next

\* In every reachable state balances, movement totals and document rows have
\* their types; in particular no batch ever holds less than nothing.
THEOREM TypeCorrect == Spec => []TypeOK
  BY InitTyped, TypeStep, PTL DEF Spec

\* A consumption is one posting in all, though it may write several.
LEMMA ConsumePosts ==
    ASSUME TypeOK, NEW c \in Calls, Consume(c)
    PROVE  Post(Wanted.item, "sale", -Deducted)
<1>1. /\ onHand' = [onHand EXCEPT ![Wanted.item] = onHand[Wanted.item] - Deducted]
      /\ moved' = [moved EXCEPT !["sale"] = moved["sale"] - Deducted]
  BY DEF Consume
<1>2. Deducted \in Int /\ Wanted.item \in Items
  BY DeductedRange, StockAssumption
<1> HIDE DEF Deducted
<1>3. /\ onHand[Wanted.item] - Deducted = onHand[Wanted.item] + (-Deducted)
      /\ moved["sale"] - Deducted = moved["sale"] + (-Deducted)
  BY <1>2 DEF TypeOK, MovementType
<1> QED
  BY <1>1, <1>3 DEF Post

-----------------------------------------------------------------------------
(* Shortages                                                               *)

SalesTakeOut == moved["sale"] <= 0
Shortages == SalesTakeOut /\ OnlySalesOversell

\* A covered movement that is no sale leaves its record with nothing less than zero.
LEMMA MoveKeepsShortages ==
    ASSUME TypeOK, Shortages, NEW i \in Items, NEW type \in MovementType \ {"sale"},
           NEW q \in Int, NEW b \in BatchIds, Move(i, type, q, b)
    PROVE  Shortages'
<1>1. Post(i, type, q) /\ "sale" \in MovementType
  BY DEF Move, MovementType
<1>2. moved'["sale"] = moved["sale"] /\ \A j \in Items \ {i} : onHand'[j] = onHand[j]
  BY <1>1, Posted
<1>3. onHand'[i] \in Int /\ onHand'[i] >= 0
  BY MoveTyped
<1> QED
  BY <1>2, <1>3 DEF Shortages, SalesTakeOut, OnlySalesOversell

LEMMA AdjustKeepsShortages ==
    ASSUME TypeOK, Shortages, NEW i \in Items, NEW b \in BatchIds, NEW delta \in Int,
           NEW down \in MovementType \ {"sale"}, Adjust(i, b, delta, down)
    PROVE  Shortages'
<1>1. CASE delta = 0
  BY <1>1 DEF Adjust, Shortages, SalesTakeOut, OnlySalesOversell
<1>2. CASE delta # 0
  <2>1. (IF delta > 0 THEN "adjustment_add" ELSE down) \in MovementType \ {"sale"}
    BY DEF MovementType
  <2> QED
    BY <1>2, <2>1, MoveKeepsShortages DEF Adjust
<1> QED
  BY <1>1, <1>2

LEMMA UnmovedKeepsShortages ==
    ASSUME Shortages, UNCHANGED <<onHand, moved>> PROVE Shortages'
  BY DEF Shortages, SalesTakeOut, OnlySalesOversell

\* What comes in makes nothing shorter.
LEMMA IncomeKeepsShortages ==
    ASSUME TypeOK, Shortages, moved'["sale"] = moved["sale"],
           \A j \in Items : onHand'[j] \in Int /\ onHand'[j] >= onHand[j]
    PROVE  Shortages'
<1>1. moved["sale"] \in Int /\ \A j \in Items : onHand[j] \in Int
  BY DEF TypeOK, MovementType
<1> QED
  BY <1>1 DEF Shortages, SalesTakeOut, OnlySalesOversell

\* A sale takes no more from its record than it writes in the ledger.
LEMMA SaleKeepsShortages ==
    ASSUME TypeOK, Shortages, NEW i \in Items, NEW q \in Nat, Post(i, "sale", -q)
    PROVE  Shortages'
<1>1. -q \in Int /\ "sale" \in MovementType
  BY DEF MovementType
<1>2. /\ moved["sale"] \in Int /\ \A j \in Items : onHand[j] \in Int
      /\ onHand'[i] = onHand[i] + (-q) /\ moved'["sale"] = moved["sale"] + (-q)
      /\ \A j \in Items \ {i} : onHand'[j] = onHand[j]
  BY <1>1, Posted DEF TypeOK
<1>3. moved'["sale"] <= moved["sale"] /\ moved["sale"] <= 0
  BY <1>2 DEF Shortages, SalesTakeOut
<1>4. ASSUME NEW j \in Items, onHand'[j] < 0 PROVE onHand'[j] >= moved'["sale"]
  <2>1. onHand[j] >= moved["sale"]
    BY <1>2, <1>3 DEF Shortages, OnlySalesOversell
  <2>2. CASE j = i
    BY <1>2, <2>1, <2>2
  <2>3. CASE j # i
    BY <1>2, <1>3, <2>1, <2>3
  <2> QED
    BY <2>2, <2>3
<1> QED
  BY <1>2, <1>3, <1>4 DEF Shortages, SalesTakeOut, OnlySalesOversell

LEMMA ShortageStep == TypeOK /\ Shortages /\ [Next]_vars => Shortages'
<1> SUFFICES ASSUME TypeOK, Shortages, [Next]_vars PROVE Shortages'
  OBVIOUS
<1>1. ASSUME NEW i \in Items, NEW q \in Traded, Sell(i, q) \/ Return(i, q) \/ Open(i, q)
      PROVE  Shortages'
  <2>1. q \in Nat
    BY <1>1, CounterStep
  <2>2. CASE Sell(i, q)
    BY <2>1, <2>2, SaleKeepsShortages DEF Sell, Direct
  <2>3. CASE Return(i, q) \/ Open(i, q)
    <3>1. PICK type \in MovementType \ {"sale"} : Post(i, type, q)
      BY <2>3 DEF Return, Open, Direct, MovementType
    <3>2. /\ moved'["sale"] = moved["sale"] /\ onHand'[i] = onHand[i] + q
          /\ onHand' \in [Items -> Int] /\ \A j \in Items \ {i} : onHand'[j] = onHand[j]
      BY <2>1, <3>1, Posted DEF MovementType
    <3>3. \A j \in Items : onHand[j] \in Int
      BY DEF TypeOK
    <3>4. \A j \in Items : onHand'[j] \in Int /\ onHand'[j] >= onHand[j]
      BY <2>1, <3>2, <3>3
    <3> QED
      BY <3>2, <3>4, IncomeKeepsShortages
  <2> QED
    BY <1>1, <2>2, <2>3
<1>2. ASSUME NEW t \in Transfers, TransferStep(t) PROVE Shortages'
  <2>1. ASSUME DispatchTransfer(t) PROVE Shortages'
    <3>1. transfer[t].status # "none"
      BY <2>1 DEF DispatchTransfer
    <3>2. Move(transfer[t].item, "transfer_out", -transfer[t].requested, transfer[t].batch)
      BY <2>1 DEF DispatchTransfer
    <3>3. -transfer[t].requested \in Int /\ "transfer_out" \in MovementType \ {"sale"}
      BY <3>1, TransferRow DEF MovementType
    <3> QED
      BY <3>1, <3>2, <3>3, TransferRow, MoveKeepsShortages
  <2>2. ASSUME ReceiveTransfer(t) PROVE Shortages'
    <3>1. transfer[t].status # "none" /\ transfer[t].to \in Items
      BY <2>2 DEF ReceiveTransfer
    <3>2. Move(transfer[t].to, "transfer_in", transfer[t].dispatched, transfer[t].batch)
      BY <2>2 DEF ReceiveTransfer
    <3>3. transfer[t].dispatched \in Int /\ "transfer_in" \in MovementType \ {"sale"}
      BY <3>1, TransferRow DEF MovementType
    <3> QED
      BY <3>1, <3>2, <3>3, TransferRow, MoveKeepsShortages
  <2> QED
    BY <1>2, <2>1, <2>2, UnmovedKeepsShortages DEF TransferStep, CreateTransfer, EditTransfer
<1>3. ASSUME NEW o \in Orders, OrderStep(o) PROVE Shortages'
  <2>1. ASSUME NEW got \in [Lines -> 0..MaxQty], NEW lots \in SUBSET {l \in Lines : got[l] > 0},
               ReceivePurchaseOrder(o, got, lots)
        PROVE  Shortages'
    <3>1. got \in [Lines -> Nat]
      BY StockAssumption
    <3>2. \A i \in Items : SumOver([l \in {k \in Lines : ItemOf[k] = i} |-> got[l]]) \in Nat
      BY <3>1, ReceiptSums
    <3>3. onHand' = [i \in Items |-> onHand[i] + SumOver([l \in {k \in Lines : ItemOf[k] = i} |-> got[l]])]
      BY <2>1 DEF ReceivePurchaseOrder
    <3>4. moved'["sale"] = moved["sale"]
      BY <2>1 DEF ReceivePurchaseOrder, TypeOK, MovementType
    <3>5. \A j \in Items : onHand'[j] \in Int /\ onHand'[j] >= onHand[j]
      BY <3>2, <3>3 DEF TypeOK
    <3> QED
      BY <3>4, <3>5, IncomeKeepsShortages
  <2> QED
    BY <1>3, <2>1, UnmovedKeepsShortages DEF OrderStep, CreatePurchaseOrder
<1>4. ASSUME NEW a \in Adjustments, AdjustmentStep(a) PROVE Shortages'
  <2>1. ASSUME ApproveAdjustment(a) PROVE Shortages'
    <3>1. adjustment[a] # NoAdjustment
      BY <2>1 DEF ApproveAdjustment
    <3>2. Adjust(adjustment[a].item, adjustment[a].batch, adjustment[a].after - adjustment[a].before,
                 "adjustment_remove")
      BY <2>1 DEF ApproveAdjustment
    <3> QED
      BY <3>1, <3>2, AdjustmentRow, AdjustKeepsShortages DEF MovementType
  <2> QED
    BY <1>4, <2>1, UnmovedKeepsShortages DEF AdjustmentStep, CreateAdjustment
<1>5. ASSUME NEW r \in Reports, ReportStep(r) PROVE Shortages'
  <2>1. ASSUME WriteOffDamaged(r) PROVE Shortages'
    <3>1. report[r].pc # "idle"
      BY <2>1 DEF WriteOffDamaged
    <3>2. Adjust(report[r].item, report[r].batch, report[r].after - report[r].before, "damaged")
      BY <2>1 DEF WriteOffDamaged
    <3> QED
      BY <3>1, <3>2, ReportRow, AdjustKeepsShortages DEF MovementType
  <2> QED
    BY <1>5, <2>1, UnmovedKeepsShortages
    DEF ReportStep, ReadDamaged, DraftDamaged, UnmovedByReport
<1>6. ASSUME NEW c \in Calls, CheckKey(c) \/ Consume(c) PROVE Shortages'
  <2>1. CASE Consume(c)
    <3>1. Deducted \in Nat /\ Wanted.item \in Items
      BY DeductedRange, StockAssumption
    <3>2. Post(Wanted.item, "sale", -Deducted)
      BY <2>1, ConsumePosts
    <3> QED
      BY <3>1, <3>2, SaleKeepsShortages
  <2> QED
    BY <1>6, <2>1, UnmovedKeepsShortages DEF CheckKey
<1>7. CASE UNCHANGED vars
  BY <1>7, UnmovedKeepsShortages DEF vars
<1> QED
  BY <1>1, <1>2, <1>3, <1>4, <1>5, <1>6, <1>7 DEF Next

\* A stock record is short by no more than the counter sold: transfers,
\* adjustments, write-offs and consumptions never take it below zero.
THEOREM SalesAloneOversell == Spec => []OnlySalesOversell
<1>1. Init => Shortages
  BY DEF Init, Shortages, SalesTakeOut, OnlySalesOversell, MovementType
<1>2. Shortages => OnlySalesOversell
  BY DEF Shortages
<1> QED
  BY <1>1, <1>2, ShortageStep, TypeCorrect, PTL DEF Spec

-----------------------------------------------------------------------------
(* Conservation                                                            *)

InExternal == [m \in External |-> moved[m]]
OnTheWay   == [t \in Transfers |-> InTransit(t)]

AllSummable ==
    /\ IsSummable(onHand) /\ DOMAIN onHand = Items
    /\ IsSummable(InExternal) /\ DOMAIN InExternal = External
    /\ IsSummable(OnTheWay) /\ DOMAIN OnTheWay = Transfers
    /\ SumOver(onHand) \in Int /\ SumOver(InExternal) \in Int /\ SumOver(OnTheWay) \in Int

LEMMA Summable == TypeOK => AllSummable
<1> SUFFICES ASSUME TypeOK PROVE AllSummable
  OBVIOUS
<1>1. IsSummable(onHand) /\ DOMAIN onHand = Items
  BY StockAssumption DEF TypeOK, IsSummable
<1>2. IsFiniteSet(External)
  <2>1. IsFiniteSet({}) /\ External = {"purchase", "sale", "adjustment_add", "adjustment_remove",
                                       "damaged", "return_customer", "opening"}
    BY FS_EmptySet DEF External, MovementType
  <2>2. IsFiniteSet({"purchase"})
    BY FS_Singleton
  <2>3. IsFiniteSet({"purchase", "sale"})
    BY <2>2, FS_AddElement
  <2>4. IsFiniteSet({"purchase", "sale", "adjustment_add"})
    BY <2>3, FS_AddElement
  <2>5. IsFiniteSet({"purchase", "sale", "adjustment_add", "adjustment_remove"})
    BY <2>4, FS_AddElement
  <2>6. IsFiniteSet({"purchase", "sale", "adjustment_add", "adjustment_remove", "damaged"})
    BY <2>5, FS_AddElement
  <2>7. IsFiniteSet({"purchase", "sale", "adjustment_add", "adjustment_remove", "damaged",
                     "return_customer"})
    BY <2>6, FS_AddElement
  <2> QED
    BY <2>1, <2>7, FS_AddElement
<1>3. IsSummable(InExternal) /\ DOMAIN InExternal = External
  BY <1>2 DEF TypeOK, IsSummable, InExternal, External
<1>4. \A t \in Transfers : InTransit(t) \in Int
  BY TransferRow DEF InTransit
<1>5. IsSummable(OnTheWay) /\ DOMAIN OnTheWay = Transfers
  BY <1>4, StockAssumption DEF IsSummable, OnTheWay
<1> QED
  BY <1>1, <1>3, <1>5, SumOverInt DEF AllSummable

\* A posting moves both sums by its quantity, or the first alone if it is one
\* half of a transfer.
LEMMA PostedSums ==
    ASSUME TypeOK, TypeOK', NEW i \in Items, NEW type \in MovementType, NEW q \in Int,
           Post(i, type, q)
    PROVE  /\ SumOver(onHand') = SumOver(onHand) + q
           /\ type \in External => SumOver(InExternal') = SumOver(InExternal) + q
           /\ type \notin External => SumOver(InExternal') = SumOver(InExternal)
<1>1. /\ onHand[i] \in Int /\ onHand'[i] = onHand[i] + q
      /\ moved[type] \in Int /\ moved'[type] = moved[type] + q
      /\ \A j \in Items \ {i} : onHand'[j] = onHand[j]
      /\ \A m \in MovementType \ {type} : moved'[m] = moved[m]
  BY Posted DEF TypeOK
<1>2. /\ IsSummable(onHand) /\ DOMAIN onHand = Items
      /\ IsSummable(InExternal) /\ DOMAIN InExternal = External
      /\ SumOver(onHand) \in Int /\ SumOver(InExternal) \in Int
  BY Summable DEF AllSummable
<1>2a. AllSummable'
  BY Summable, PTL
<1>3. /\ IsSummable(onHand') /\ DOMAIN onHand' = Items
      /\ IsSummable(InExternal') /\ DOMAIN InExternal' = External
  BY <1>2a DEF AllSummable
<1>4. SumOver(onHand') = SumOver(onHand) + (onHand'[i] - onHand[i])
  BY <1>1, <1>2, <1>3, SumOverChange
<1>5. \A m \in External : InExternal[m] = moved[m] /\ InExternal'[m] = moved'[m]
  BY DEF InExternal
<1>6. CASE type \in External
  <2>1. \A m \in External \ {type} : InExternal'[m] = InExternal[m]
    BY <1>1, <1>5 DEF External
  <2>2. SumOver(InExternal') = SumOver(InExternal) + (InExternal'[type] - InExternal[type])
    BY <1>2, <1>3, <1>6, <2>1, SumOverChange
  <2> QED
    BY <1>1, <1>2, <1>4, <1>5, <1>6, <2>2
<1>7. CASE type \notin External
  <2>1. \A m \in External : InExternal'[m] = InExternal[m]
    BY <1>1, <1>5, <1>7 DEF External
  <2>2. SumOver(InExternal') = SumOver(InExternal)
    BY <1>2, <1>3, <2>1, SumOverSame
  <2> QED
    BY <1>1, <1>2, <1>4, <1>7, <2>2
<1> QED
  BY <1>6, <1>7

LEMMA Conserved == StockConserved <=> SumOver(onHand) + SumOver(OnTheWay) = SumOver(InExternal)
  BY DEF StockConserved, OnTheWay, InExternal

\* A posting from outside, or a step that posts nothing and keeps what is on its way.
LEMMA ExternalKeepsStock ==
    ASSUME TypeOK, TypeOK', StockConserved, UNCHANGED transfer,
           \/ UNCHANGED <<onHand, moved>>
           \/ \E i \in Items, type \in External, q \in Int : Post(i, type, q)
    PROVE  StockConserved'
<1>1. OnTheWay' = OnTheWay
  BY DEF OnTheWay, InTransit
<1>2. CASE UNCHANGED <<onHand, moved>>
  BY <1>1, <1>2, Conserved DEF StockConserved, InTransit
<1>3. ASSUME NEW i \in Items, NEW type \in External, NEW q \in Int, Post(i, type, q)
      PROVE  StockConserved'
  <2>1. type \in MovementType
    BY DEF External
  <2>2. /\ SumOver(onHand') = SumOver(onHand) + q
        /\ SumOver(InExternal') = SumOver(InExternal) + q
    BY <1>3, <2>1, PostedSums
  <2>3. SumOver(onHand') + SumOver(OnTheWay') = SumOver(InExternal')
    BY <1>1, <2>2, Summable, Conserved DEF AllSummable
  <2> QED
    BY <2>3 DEF StockConserved, OnTheWay, InExternal
<1> QED
  BY <1>2, <1>3

LEMMA AdjustIsExternal ==
    ASSUME NEW i \in Items, NEW b \in BatchIds, NEW delta \in Int, NEW down \in External,
           Adjust(i, b, delta, down)
    PROVE  \/ UNCHANGED <<onHand, moved>>
           \/ \E j \in Items, type \in External, q \in Int : Post(j, type, q)
<1>1. (IF delta > 0 THEN "adjustment_add" ELSE down) \in External
  BY DEF External, MovementType
<1> QED
  BY <1>1 DEF Adjust, Move

\* A transfer's own step changes what is on its way by what it posts.
LEMMA TransferKeepsStock ==
    ASSUME TypeOK, TypeOK', StockConserved, NEW t \in Transfers,
           \A u \in Transfers \ {t} : transfer'[u] = transfer[u],
           NEW i \in Items, NEW type \in {"transfer_in", "transfer_out"}, NEW q \in Int,
           Post(i, type, q), InTransit(t)' = InTransit(t) - q
    PROVE  StockConserved'
<1>1. type \in MovementType /\ type \notin External
  BY DEF MovementType, External
<1>2. SumOver(onHand') = SumOver(onHand) + q /\ SumOver(InExternal') = SumOver(InExternal)
  BY <1>1, PostedSums
<1>3. /\ IsSummable(OnTheWay) /\ DOMAIN OnTheWay = Transfers
      /\ SumOver(OnTheWay) \in Int /\ SumOver(onHand) \in Int /\ SumOver(InExternal) \in Int
  BY Summable DEF AllSummable
<1>3a. AllSummable'
  BY Summable, PTL
<1>4. IsSummable(OnTheWay') /\ DOMAIN OnTheWay' = Transfers
  BY <1>3a DEF AllSummable
<1>5. /\ \A u \in Transfers \ {t} : OnTheWay'[u] = OnTheWay[u]
      /\ OnTheWay'[t] = OnTheWay[t] - q /\ OnTheWay[t] \in Int
  BY <1>3 DEF OnTheWay, InTransit, IsSummable
<1>6. SumOver(OnTheWay') = SumOver(OnTheWay) + (OnTheWay'[t] - OnTheWay[t])
  BY <1>3, <1>4, <1>5, SumOverChange
<1>7. SumOver(OnTheWay') = SumOver(OnTheWay) - q
  BY <1>3, <1>5, <1>6
<1>8. SumOver(onHand') + SumOver(OnTheWay') = SumOver(InExternal')
  BY <1>2, <1>3, <1>7, Conserved
<1> QED
  BY <1>8 DEF StockConserved, OnTheWay, InExternal

\* A receipt books in the records, together, what it books as purchased.
LEMMA ReceiptKeepsStock ==
    ASSUME TypeOK, TypeOK', StockConserved, NEW o \in Orders, NEW got \in [Lines -> Nat],
           NEW lots \in SUBSET Lines, ReceivePurchaseOrder(o, got, lots)
    PROVE  StockConserved'
<1> DEFINE into == [i \in Items |-> SumOver([l \in {k \in Lines : ItemOf[k] = i} |-> got[l]])]
<1>1. IsSummable(got) /\ DOMAIN got = Lines
  BY StockAssumption DEF IsSummable
<1>2. /\ into = [i \in Items |-> SumOver([l \in {k \in DOMAIN got : ItemOf[k] = i} |-> got[l]])]
      /\ IsFiniteSet(Items) /\ ItemOf \in [DOMAIN got -> Items] /\ DOMAIN into = Items
  BY <1>1, StockAssumption
<1>3. /\ onHand' = [i \in Items |-> onHand[i] + into[i]]
      /\ moved' = [moved EXCEPT !["purchase"] = moved["purchase"] + SumOver(got)]
      /\ UNCHANGED transfer
  BY DEF ReceivePurchaseOrder
<1> HIDE DEF into
<1>4. IsSummable(into) /\ SumOver(into) = SumOver(got)
  BY <1>1, <1>2, SumOverFibers
<1>5. AllSummable /\ AllSummable'
  BY Summable, PTL
<1>6. SumOver(onHand') = SumOver(onHand) + SumOver(got)
  <2>1. \A i \in Items : onHand'[i] = onHand[i] + into[i]
    BY <1>3
  <2>2. /\ IsSummable(onHand) /\ DOMAIN onHand = Items
        /\ IsSummable(onHand') /\ DOMAIN onHand' = Items
    BY <1>5 DEF AllSummable
  <2>3. SumOver(onHand') = SumOver(onHand) + SumOver(into)
    <3>1. /\ DOMAIN into = DOMAIN onHand /\ DOMAIN onHand' = DOMAIN onHand
          /\ \A i \in DOMAIN onHand : onHand'[i] = onHand[i] + into[i]
      BY <1>2, <2>1, <2>2
    <3> QED
      BY <1>4, <2>2, <3>1, SumOverPlus
  <2> QED
    BY <1>4, <2>3
<1>7. SumOver(InExternal') = SumOver(InExternal) + SumOver(got)
  <2>1. /\ "purchase" \in External /\ moved["purchase"] \in Int /\ SumOver(got) \in Int
        /\ \A m \in External : InExternal[m] = moved[m] /\ InExternal'[m] = moved'[m]
    BY <1>1, SumOverInt DEF External, MovementType, InExternal, TypeOK
  <2>2. /\ \A m \in External \ {"purchase"} : InExternal'[m] = InExternal[m]
        /\ InExternal'["purchase"] = InExternal["purchase"] + SumOver(got)
    BY <1>3, <2>1 DEF TypeOK, External
  <2>3. SumOver(InExternal') = SumOver(InExternal) + (InExternal'["purchase"] - InExternal["purchase"])
    BY <1>5, <2>1, <2>2, SumOverChange DEF AllSummable
  <2> QED
    BY <1>5, <2>1, <2>2, <2>3 DEF AllSummable
<1>8. OnTheWay' = OnTheWay
  BY <1>3 DEF OnTheWay, InTransit
<1>9. SumOver(onHand') + SumOver(OnTheWay') = SumOver(InExternal')
  BY <1>1, <1>5, <1>6, <1>7, <1>8, SumOverInt, Conserved DEF AllSummable
<1> QED
  BY <1>9 DEF StockConserved, OnTheWay, InExternal

\* What a transfer has sent and received is nought until it does.
FreshTransfers ==
    \A t \in Transfers :
        /\ transfer[t].status = "draft" => transfer[t].dispatched = 0
        /\ transfer[t].status \in {"draft", "in_transit"} => transfer[t].received = 0

Conserving == StockConserved /\ FreshTransfers

\* The row of a transfer that a step rewrites.
LEMMA RowRewritten ==
    ASSUME TypeOK, NEW t \in Transfers, NEW row, transfer' = [transfer EXCEPT ![t] = row]
    PROVE  transfer'[t] = row /\ \A u \in Transfers \ {t} : transfer'[u] = transfer[u]
  BY DEF TypeOK

LEMMA TransferStepConserves ==
    ASSUME TypeOK, TypeOK', Conserving, NEW t \in Transfers, TransferStep(t) PROVE Conserving'
<1> USE DEF Conserving
<1>1. ASSUME NEW i \in Items, NEW w \in Warehouses, NEW q \in Qty, NEW b \in LotsOf(i),
             CreateTransfer(t, i, w, b, q)
      PROVE  Conserving'
  <2>1. /\ \A u \in Transfers \ {t} : transfer'[u] = transfer[u]
        /\ transfer[t].status = "none" /\ transfer'[t].status = "draft"
        /\ transfer'[t].dispatched = 0 /\ transfer'[t].received = 0
    BY <1>1 DEF CreateTransfer, TypeOK
  <2>2. \A u \in Transfers : InTransit(u)' = InTransit(u)
    BY <2>1 DEF InTransit
  <2>3. OnTheWay' = OnTheWay
    BY <2>2 DEF OnTheWay
  <2>4. SumOver(onHand') + SumOver(OnTheWay') = SumOver(InExternal')
    BY <1>1, <2>3, Conserved DEF CreateTransfer, InExternal
  <2>5. StockConserved'
    BY <2>4 DEF StockConserved, OnTheWay, InExternal
  <2> QED
    BY <2>1, <2>5 DEF FreshTransfers
<1>2. ASSUME EditTransfer(t) PROVE Conserving'
  <2>1. PICK row \in {[transfer[t] EXCEPT !.to = w] : w \in Warehouses}
                       \union {[transfer[t] EXCEPT !.deleted = TRUE]} :
          transfer' = [transfer EXCEPT ![t] = row]
    BY <1>2 DEF EditTransfer, TypeOK
  <2>2. transfer[t] \in TransferRows
    BY <1>2, TransferRow DEF EditTransfer
  <2>3. /\ row.status = transfer[t].status /\ row.dispatched = transfer[t].dispatched
        /\ row.received = transfer[t].received
    BY <2>2 DEF TransferRows
  <2>4. \A u \in Transfers : /\ transfer'[u].status = transfer[u].status
                             /\ transfer'[u].dispatched = transfer[u].dispatched
                             /\ transfer'[u].received = transfer[u].received
    BY <2>1, <2>3, RowRewritten
  <2>5. OnTheWay' = OnTheWay
    BY <2>4 DEF OnTheWay, InTransit
  <2>6. SumOver(onHand') + SumOver(OnTheWay') = SumOver(InExternal')
    BY <1>2, <2>5, Conserved DEF EditTransfer, InExternal
  <2>7. StockConserved'
    BY <2>6 DEF StockConserved, OnTheWay, InExternal
  <2> QED
    BY <2>4, <2>7 DEF FreshTransfers
<1>3. ASSUME DispatchTransfer(t) PROVE Conserving'
  <2> DEFINE row == [transfer[t] EXCEPT !.status = "in_transit",
                                        !.dispatched = transfer[t].requested]
  <2>1. transfer[t] \in TransferRows /\ transfer[t].status = "draft"
    BY <1>3, TransferRow DEF DispatchTransfer
  <2>2. Post(transfer[t].item, "transfer_out", -transfer[t].requested)
    BY <1>3 DEF DispatchTransfer, Move
  <2>3. transfer' = [transfer EXCEPT ![t] = row]
    BY <1>3 DEF DispatchTransfer, TypeOK
  <2>4. -transfer[t].requested \in Int /\ transfer[t].item \in Items /\ transfer[t].requested \in Int
    BY <2>1 DEF TransferRows
  <2>5. /\ row.status = "in_transit" /\ row.dispatched = transfer[t].requested
        /\ row.received = transfer[t].received
    BY <2>1 DEF TransferRows
  <2> HIDE DEF row
  <2>6. transfer'[t] = row /\ \A u \in Transfers \ {t} : transfer'[u] = transfer[u]
    BY <2>3, RowRewritten
  <2>7. transfer[t].dispatched = 0 /\ transfer[t].received = 0
    BY <2>1 DEF FreshTransfers
  <2>8. InTransit(t)' = InTransit(t) - (-transfer[t].requested)
    BY <2>1, <2>4, <2>5, <2>6, <2>7 DEF InTransit
  <2>9. StockConserved'
    BY <2>2, <2>4, <2>6, <2>8, TransferKeepsStock
  <2> QED
    BY <2>5, <2>6, <2>7, <2>9 DEF FreshTransfers
<1>4. ASSUME ReceiveTransfer(t) PROVE Conserving'
  <2> DEFINE row == [transfer[t] EXCEPT !.status = "received",
                                        !.received = transfer[t].dispatched]
  <2>1. transfer[t] \in TransferRows /\ transfer[t].status = "in_transit"
    BY <1>4, TransferRow DEF ReceiveTransfer
  <2>2. Post(transfer[t].to, "transfer_in", transfer[t].dispatched) /\ transfer[t].to \in Items
    BY <1>4 DEF ReceiveTransfer, Move
  <2>3. transfer' = [transfer EXCEPT ![t] = row]
    BY <1>4 DEF ReceiveTransfer, TypeOK
  <2>4. transfer[t].dispatched \in Int
    BY <2>1 DEF TransferRows
  <2>5. /\ row.status = "received" /\ row.dispatched = transfer[t].dispatched
        /\ row.received = transfer[t].dispatched
    BY <2>1 DEF TransferRows
  <2> HIDE DEF row
  <2>6. transfer'[t] = row /\ \A u \in Transfers \ {t} : transfer'[u] = transfer[u]
    BY <2>3, RowRewritten
  <2>7. transfer[t].received = 0
    BY <2>1 DEF FreshTransfers
  <2>8. InTransit(t)' = InTransit(t) - transfer[t].dispatched
    BY <2>1, <2>4, <2>5, <2>6, <2>7 DEF InTransit
  <2>9. StockConserved'
    BY <2>2, <2>4, <2>6, <2>8, TransferKeepsStock
  <2> QED
    BY <2>5, <2>6, <2>9 DEF FreshTransfers
<1> QED
  BY <1>1, <1>2, <1>3, <1>4 DEF TransferStep

LEMMA ConservingStep == TypeOK /\ TypeOK' /\ Conserving /\ [Next]_vars => Conserving'
<1> SUFFICES ASSUME TypeOK, TypeOK', Conserving, [Next]_vars PROVE Conserving'
  OBVIOUS
<1> USE DEF Conserving
<1>0. ASSUME UNCHANGED transfer PROVE FreshTransfers'
  BY <1>0 DEF FreshTransfers
<1>1. ASSUME NEW i \in Items, NEW q \in Traded, Sell(i, q) \/ Return(i, q) \/ Open(i, q)
      PROVE  Conserving'
  <2>1. PICK type \in {"sale", "return_customer", "opening"} :
          Direct(i, type, IF type = "sale" THEN -q ELSE q)
    BY <1>1, CounterStep
  <2>2. type \in External /\ (IF type = "sale" THEN -q ELSE q) \in Int
    BY <1>1, CounterStep DEF External, MovementType
  <2> QED
    BY <1>0, <2>1, <2>2, ExternalKeepsStock DEF Direct, docs
<1>2. ASSUME NEW t \in Transfers, TransferStep(t) PROVE Conserving'
  BY <1>2, TransferStepConserves
<1>3. ASSUME NEW o \in Orders, OrderStep(o) PROVE Conserving'
  <2>1. ASSUME CreatePurchaseOrder(o) PROVE Conserving'
    BY <1>0, <2>1, ExternalKeepsStock DEF CreatePurchaseOrder
  <2>2. ASSUME NEW got \in [Lines -> 0..MaxQty], NEW lots \in SUBSET {l \in Lines : got[l] > 0},
               ReceivePurchaseOrder(o, got, lots)
        PROVE  Conserving'
    <3>1. got \in [Lines -> Nat] /\ lots \in SUBSET Lines
      BY StockAssumption
    <3>2. UNCHANGED transfer
      BY <2>2 DEF ReceivePurchaseOrder
    <3> QED
      BY <1>0, <2>2, <3>1, <3>2, ReceiptKeepsStock
  <2> QED
    BY <1>3, <2>1, <2>2 DEF OrderStep
<1>4. ASSUME NEW a \in Adjustments, AdjustmentStep(a) PROVE Conserving'
  <2>1. ASSUME ApproveAdjustment(a) PROVE Conserving'
    <3>1. adjustment[a] # NoAdjustment
      BY <2>1 DEF ApproveAdjustment
    <3>2. Adjust(adjustment[a].item, adjustment[a].batch, adjustment[a].after - adjustment[a].before,
                 "adjustment_remove")
      BY <2>1 DEF ApproveAdjustment
    <3>3. "adjustment_remove" \in External
      BY DEF External, MovementType
    <3>4. \/ UNCHANGED <<onHand, moved>>
          \/ \E j \in Items, type \in External, q \in Int : Post(j, type, q)
      <4>1. /\ adjustment[a].item \in Items /\ adjustment[a].batch \in BatchIds
            /\ adjustment[a].after - adjustment[a].before \in Int
        BY <3>1, AdjustmentRow
      <4> QED
        BY <3>2, <3>3, <4>1, AdjustIsExternal
    <3> QED
      BY <1>0, <2>1, <3>4, ExternalKeepsStock DEF ApproveAdjustment
  <2>2. ASSUME NEW i \in Items, NEW q \in 0..MaxQty, NEW b \in LotsOf(i), CreateAdjustment(a, i, b, q)
        PROVE  Conserving'
    BY <1>0, <2>2, ExternalKeepsStock DEF CreateAdjustment
  <2> QED
    BY <1>4, <2>1, <2>2 DEF AdjustmentStep
<1>5. ASSUME NEW r \in Reports, ReportStep(r) PROVE Conserving'
  <2>1. ASSUME WriteOffDamaged(r) PROVE Conserving'
    <3>1. report[r].pc # "idle"
      BY <2>1 DEF WriteOffDamaged
    <3>2. Adjust(report[r].item, report[r].batch, report[r].after - report[r].before, "damaged")
      BY <2>1 DEF WriteOffDamaged
    <3>3. "damaged" \in External
      BY DEF External, MovementType
    <3>4. \/ UNCHANGED <<onHand, moved>>
          \/ \E j \in Items, type \in External, q \in Int : Post(j, type, q)
      <4>1. /\ report[r].item \in Items /\ report[r].batch \in BatchIds
            /\ report[r].after - report[r].before \in Int
        BY <3>1, ReportRow
      <4> QED
        BY <3>2, <3>3, <4>1, AdjustIsExternal
    <3> QED
      BY <1>0, <2>1, <3>4, ExternalKeepsStock DEF WriteOffDamaged
  <2>2. CASE UNCHANGED <<onHand, moved, transfer>>
    BY <1>0, <2>2, ExternalKeepsStock
  <2> QED
    BY <1>5, <2>1, <2>2 DEF ReportStep, ReadDamaged, DraftDamaged, UnmovedByReport
<1>6. ASSUME NEW c \in Calls, CheckKey(c) \/ Consume(c) PROVE Conserving'
  <2>1. CASE CheckKey(c)
    BY <1>0, <2>1, ExternalKeepsStock DEF CheckKey
  <2>2. CASE Consume(c)
    <3>1. -Deducted \in Int /\ Wanted.item \in Items /\ "sale" \in External
      BY DeductedRange, StockAssumption DEF External, MovementType
    <3>2. Post(Wanted.item, "sale", -Deducted)
      BY <2>2, ConsumePosts
    <3> QED
      BY <1>0, <2>2, <3>1, <3>2, ExternalKeepsStock DEF Consume
  <2> QED
    BY <1>6, <2>1, <2>2
<1>7. CASE UNCHANGED vars
  BY <1>0, <1>7, ExternalKeepsStock DEF vars, docs
<1> QED
  BY <1>1, <1>2, <1>3, <1>4, <1>5, <1>6, <1>7 DEF Next

-----------------------------------------------------------------------------
(* Purchases and their orders                                              *)

\* A line has nothing ordered before its purchase order is there.
UnorderedLines == \A l \in Lines : order[OrderOf[l]] = "none" => line[l].ordered = 0

Receipts == ReceiptsMatchOrders /\ UnorderedLines

\* Steps that book no purchase and touch no order.
LEMMA ReceiptsUntouched ==
    ASSUME Receipts, UNCHANGED <<order, line>>, moved'["purchase"] = moved["purchase"]
    PROVE  Receipts'
  BY DEF Receipts, UnorderedLines, ReceiptsMatchOrders, Complete, LinesOf

LEMMA PostKeepsReceipts ==
    ASSUME TypeOK, NEW i \in Items, NEW type \in MovementType \ {"purchase"}, NEW q \in Int,
           Post(i, type, q)
    PROVE  moved'["purchase"] = moved["purchase"]
  BY Posted DEF MovementType

LEMMA AdjustKeepsReceipts ==
    ASSUME TypeOK, NEW i \in Items, NEW b \in BatchIds, NEW delta \in Int,
           NEW down \in MovementType \ {"purchase"}, Adjust(i, b, delta, down)
    PROVE  moved'["purchase"] = moved["purchase"]
<1>1. (IF delta > 0 THEN "adjustment_add" ELSE down) \in MovementType \ {"purchase"}
  BY DEF MovementType
<1> QED
  BY <1>1, PostKeepsReceipts DEF Adjust, Move

LEMMA CreateOrderKeepsReceipts ==
    ASSUME TypeOK, Receipts, NEW o \in Orders, CreatePurchaseOrder(o)
    PROVE  Receipts'
<1>1. /\ order[o] = "none" /\ order' = [order EXCEPT ![o] = "draft"] /\ moved' = moved
      /\ line' = [l \in Lines |->
                   IF OrderOf[l] = o THEN [line[l] EXCEPT !.ordered = Asked[l]] ELSE line[l]]
  BY DEF CreatePurchaseOrder
<1>2. \A l \in Lines : line[l] \in LineRows /\ OrderOf[l] \in Orders
  BY StockAssumption DEF TypeOK
<1>3. /\ \A l \in Lines : line'[l].received = line[l].received
      /\ \A l \in Lines : OrderOf[l] = o => line'[l].ordered = Asked[l]
      /\ \A l \in Lines : OrderOf[l] # o => line'[l] = line[l]
  BY <1>1, <1>2 DEF LineRows
<1>4. [l \in Lines |-> line'[l].received] = [l \in Lines |-> line[l].received]
  BY <1>3
<1>5. moved'["purchase"] = SumOver([l \in Lines |-> line'[l].received])
  BY <1>1, <1>4 DEF Receipts, ReceiptsMatchOrders
<1>6. ASSUME NEW l \in Lines PROVE line'[l].received <= line'[l].ordered
  <2>1. line[l].received <= line[l].ordered /\ line[l].received \in Nat /\ Asked[l] \in Nat
    BY <1>2, StockAssumption DEF Receipts, ReceiptsMatchOrders, LineRows
  <2>2. CASE OrderOf[l] # o
    BY <1>3, <2>1, <2>2
  <2>3. CASE OrderOf[l] = o
    <3>1. line[l].ordered = 0
      BY <1>1, <2>3 DEF Receipts, UnorderedLines
    <3> QED
      BY <1>3, <2>1, <2>3, <3>1
  <2> QED
    BY <2>2, <2>3
<1>7. ASSUME NEW p \in Orders, order'[p] = "received" PROVE Complete(p, line')
  <2>1. p # o /\ order[p] = "received"
    BY <1>1, <1>7 DEF TypeOK
  <2> QED
    BY <1>3, <2>1 DEF Receipts, ReceiptsMatchOrders, Complete, LinesOf
<1>8. UnorderedLines'
  <2>1. \A p \in Orders \ {o} : order'[p] = order[p]
    BY <1>1 DEF TypeOK
  <2>2. order'[o] = "draft"
    BY <1>1 DEF TypeOK
  <2> QED
    BY <1>2, <1>3, <2>1, <2>2 DEF Receipts, UnorderedLines
<1> QED
  BY <1>5, <1>6, <1>7, <1>8 DEF Receipts, ReceiptsMatchOrders

\* A receipt is booked line by line, up to what each line has pending.
LEMMA ReceiveKeepsReceipts ==
    ASSUME TypeOK, Receipts, NEW o \in Orders, NEW got \in [Lines -> Nat],
           NEW lots \in SUBSET Lines, ReceivePurchaseOrder(o, got, lots)
    PROVE  Receipts'
<1>1. /\ order[o] \notin {"none", "received"}
      /\ \A l \in Lines : got[l] > 0 => order[OrderOf[l]] # "none" /\ Acceptable(l, got[l])
      /\ moved' = [moved EXCEPT !["purchase"] = moved["purchase"] + SumOver(got)]
      /\ line' = [l \in Lines |-> [line[l] EXCEPT !.received = line[l].received + got[l]]]
      /\ order' = [order EXCEPT ![o] = StatusAfter(o, line')]
  BY DEF ReceivePurchaseOrder
<1>2. \A l \in Lines : /\ line[l] \in LineRows /\ line[l].received \in Nat /\ line[l].ordered \in Nat
                       /\ OrderOf[l] \in Orders
  BY StockAssumption DEF TypeOK, LineRows
<1>3. \A l \in Lines : /\ line'[l].received = line[l].received + got[l]
                       /\ line'[l].ordered = line[l].ordered
  BY <1>1, <1>2 DEF LineRows
<1>4. \A l \in Lines : line[l].received <= line[l].ordered
  BY DEF Receipts, ReceiptsMatchOrders
<1>5. ASSUME NEW l \in Lines PROVE line'[l].received <= line'[l].ordered
  <2>1. CASE got[l] = 0
    BY <1>2, <1>3, <1>4, <2>1
  <2>2. CASE got[l] # 0
    <3>1. got[l] <= line[l].ordered - line[l].received /\ got[l] \in Nat
      BY <1>1, <2>2 DEF Acceptable, Pending
    <3> QED
      BY <1>2, <1>3, <3>1
  <2> QED
    BY <2>1, <2>2
<1>6. moved'["purchase"] = SumOver([l \in Lines |-> line'[l].received])
  <2> DEFINE before == [l \in Lines |-> line[l].received]
             after == [l \in Lines |-> line'[l].received]
  <2>1. IsSummable(before) /\ DOMAIN before = Lines
    BY <1>2, StockAssumption DEF IsSummable
  <2>2. IsSummable(after) /\ DOMAIN after = Lines
    BY <1>2, <1>3, StockAssumption DEF IsSummable
  <2>3. IsSummable(got) /\ DOMAIN got = Lines
    BY StockAssumption DEF IsSummable
  <2>4. \A l \in Lines : after[l] = before[l] + got[l]
    BY <1>3
  <2>5. moved["purchase"] = SumOver(before)
    BY DEF Receipts, ReceiptsMatchOrders
  <2> HIDE DEF before, after
  <2>6. SumOver(after) = SumOver(before) + SumOver(got)
    BY <2>1, <2>2, <2>3, <2>4, SumOverPlus
  <2>7. moved'["purchase"] = SumOver(after)
    BY <1>1, <2>5, <2>6 DEF TypeOK, MovementType
  <2> QED
    BY <2>7 DEF after
<1>7. ASSUME NEW p \in Orders, order'[p] = "received" PROVE Complete(p, line')
  <2>1. CASE p = o
    <3>1. StatusAfter(o, line') = "received"
      BY <1>1, <1>7, <2>1 DEF TypeOK
    <3> QED
      BY <1>1, <2>1, <3>1 DEF StatusAfter
  <2>2. CASE p # o
    <3>1. order[p] = "received"
      BY <1>1, <1>7, <2>2 DEF TypeOK
    <3>2. \A l \in LinesOf(p) : line[l].received >= line[l].ordered
      BY <3>1 DEF Receipts, ReceiptsMatchOrders, Complete
    <3>3. ASSUME NEW l \in LinesOf(p) PROVE line'[l].received >= line'[l].ordered
      <4>1. l \in Lines /\ got[l] \in Nat
        BY DEF LinesOf
      <4> QED
        BY <1>2, <1>3, <3>2, <4>1
    <3> QED
      BY <3>3 DEF Complete
  <2> QED
    BY <2>1, <2>2
<1>8. UnorderedLines'
  <2>1. \A p \in Orders : order'[p] = "none" => order[p] = "none"
    <3>1. StatusAfter(o, line') # "none"
      BY <1>1 DEF StatusAfter
    <3> QED
      BY <1>1, <3>1 DEF TypeOK
  <2> QED
    BY <1>2, <1>3, <2>1 DEF Receipts, UnorderedLines
<1> QED
  BY <1>5, <1>6, <1>7, <1>8 DEF Receipts, ReceiptsMatchOrders

LEMMA ReceiptsStep == TypeOK /\ Receipts /\ [Next]_vars => Receipts'
<1> SUFFICES ASSUME TypeOK, Receipts, [Next]_vars PROVE Receipts'
  OBVIOUS
<1>1. ASSUME NEW i \in Items, NEW q \in Traded, Sell(i, q) \/ Return(i, q) \/ Open(i, q)
      PROVE  Receipts'
  <2>1. PICK type \in {"sale", "return_customer", "opening"} :
          Direct(i, type, IF type = "sale" THEN -q ELSE q)
    BY <1>1, CounterStep
  <2>2. type \in MovementType \ {"purchase"} /\ (IF type = "sale" THEN -q ELSE q) \in Int
    BY <1>1, CounterStep DEF MovementType
  <2>3. moved'["purchase"] = moved["purchase"]
    BY <2>1, <2>2, PostKeepsReceipts DEF Direct
  <2> QED
    BY <2>1, <2>3, ReceiptsUntouched DEF Direct, docs
<1>2. ASSUME NEW t \in Transfers, TransferStep(t) PROVE Receipts'
  <2>1. ASSUME DispatchTransfer(t) PROVE Receipts'
    <3>1. /\ transfer[t].item \in Items /\ -transfer[t].requested \in Int
          /\ Post(transfer[t].item, "transfer_out", -transfer[t].requested)
          /\ "transfer_out" \in MovementType \ {"purchase"}
      BY <2>1, TransferRow DEF DispatchTransfer, Move, MovementType
    <3> QED
      BY <2>1, <3>1, PostKeepsReceipts, ReceiptsUntouched DEF DispatchTransfer
  <2>2. ASSUME ReceiveTransfer(t) PROVE Receipts'
    <3>1. /\ transfer[t].to \in Items /\ transfer[t].dispatched \in Int
          /\ Post(transfer[t].to, "transfer_in", transfer[t].dispatched)
          /\ "transfer_in" \in MovementType \ {"purchase"}
      BY <2>2, TransferRow DEF ReceiveTransfer, Move, MovementType
    <3> QED
      BY <2>2, <3>1, PostKeepsReceipts, ReceiptsUntouched DEF ReceiveTransfer
  <2> QED
    BY <1>2, <2>1, <2>2, ReceiptsUntouched DEF TransferStep, CreateTransfer, EditTransfer
<1>3. ASSUME NEW o \in Orders, OrderStep(o) PROVE Receipts'
  <2>1. ASSUME NEW got \in [Lines -> 0..MaxQty], NEW lots \in SUBSET {l \in Lines : got[l] > 0},
               ReceivePurchaseOrder(o, got, lots)
        PROVE  Receipts'
    <3>1. got \in [Lines -> Nat] /\ lots \in SUBSET Lines
      BY StockAssumption
    <3> QED
      BY <2>1, <3>1, ReceiveKeepsReceipts
  <2> QED
    BY <1>3, <2>1, CreateOrderKeepsReceipts DEF OrderStep
<1>4. ASSUME NEW a \in Adjustments, AdjustmentStep(a) PROVE Receipts'
  <2>1. ASSUME ApproveAdjustment(a) PROVE Receipts'
    <3>1. Adjust(adjustment[a].item, adjustment[a].batch, adjustment[a].after - adjustment[a].before,
                 "adjustment_remove")
      BY <2>1 DEF ApproveAdjustment
    <3>2. /\ adjustment[a].item \in Items /\ adjustment[a].batch \in BatchIds
          /\ adjustment[a].after - adjustment[a].before \in Int
          /\ "adjustment_remove" \in MovementType \ {"purchase"}
      BY <2>1, AdjustmentRow DEF ApproveAdjustment, MovementType
    <3>3. moved'["purchase"] = moved["purchase"]
      BY <3>1, <3>2, AdjustKeepsReceipts
    <3> QED
      BY <2>1, <3>3, ReceiptsUntouched DEF ApproveAdjustment
  <2> QED
    BY <1>4, <2>1, ReceiptsUntouched DEF AdjustmentStep, CreateAdjustment
<1>5. ASSUME NEW r \in Reports, ReportStep(r) PROVE Receipts'
  <2>1. ASSUME WriteOffDamaged(r) PROVE Receipts'
    <3>1. Adjust(report[r].item, report[r].batch, report[r].after - report[r].before, "damaged")
      BY <2>1 DEF WriteOffDamaged
    <3>2. /\ report[r].item \in Items /\ report[r].batch \in BatchIds
          /\ report[r].after - report[r].before \in Int
          /\ "damaged" \in MovementType \ {"purchase"}
      BY <2>1, ReportRow DEF WriteOffDamaged, MovementType
    <3>3. moved'["purchase"] = moved["purchase"]
      BY <3>1, <3>2, AdjustKeepsReceipts
    <3> QED
      BY <2>1, <3>3, ReceiptsUntouched DEF WriteOffDamaged
  <2> QED
    BY <1>5, <2>1, ReceiptsUntouched DEF ReportStep, ReadDamaged, DraftDamaged, UnmovedByReport
<1>6. ASSUME NEW c \in Calls, CheckKey(c) \/ Consume(c) PROVE Receipts'
  <2>1. CASE Consume(c)
    <3>1. /\ -Deducted \in Int /\ Wanted.item \in Items
          /\ "sale" \in MovementType \ {"purchase"}
      BY DeductedRange, StockAssumption DEF MovementType
    <3>2. moved'["purchase"] = moved["purchase"]
      BY <2>1, <3>1, ConsumePosts, PostKeepsReceipts
    <3> QED
      BY <2>1, <3>2, ReceiptsUntouched DEF Consume
  <2> QED
    BY <1>6, <2>1, ReceiptsUntouched DEF CheckKey
<1>7. CASE UNCHANGED vars
  BY <1>7, ReceiptsUntouched DEF vars, docs
<1> QED
  BY <1>1, <1>2, <1>3, <1>4, <1>5, <1>6, <1>7 DEF Next

LEMMA InitAgrees == Init => Conserving /\ Receipts
<1> SUFFICES ASSUME Init PROVE Conserving /\ Receipts
  OBVIOUS
<1>1. FreshTransfers /\ \A t \in Transfers : InTransit(t) = 0
  BY DEF Init, FreshTransfers, InTransit, NoTransfer
<1>2. AllSummable
  BY InitTyped, Summable
<1>3. SumOver(onHand) = 0
  BY <1>2, SumOverZero DEF Init, AllSummable, IsSummable
<1>4. SumOver(OnTheWay) = 0
  BY <1>1, <1>2, SumOverZero DEF OnTheWay, AllSummable, IsSummable
<1>5. SumOver(InExternal) = 0
  BY <1>2, SumOverZero DEF Init, InExternal, External, AllSummable, IsSummable
<1>6. SumOver([l \in Lines |-> line[l].received]) = 0
  BY StockAssumption, SumOverZero DEF Init
<1>7. StockConserved
  BY <1>3, <1>4, <1>5, Conserved
<1> QED
  BY <1>1, <1>6, <1>7
  DEF Init, Conserving, Receipts, ReceiptsMatchOrders, UnorderedLines, Complete, MovementType

\* Whatever is transferred, received, adjusted, written off, sold and returned, in
\* any order: every unit is in a record, on its way or accounted for, no order
\* line receives more than was ordered, through whichever order it is received,
\* and an order is closed when all its lines are complete.
THEOREM StockAndOrdersAgree == Spec => []StockAgrees
<1>1. Conserving /\ Receipts => StockAgrees
  BY DEF Conserving, Receipts, StockAgrees
<1> QED
  BY <1>1, InitAgrees, ConservingStep, ReceiptsStep, TypeCorrect, PTL DEF Spec

-----------------------------------------------------------------------------
(* First expired, first out                                                *)

\* A batch goes untouched until every batch before it is used up.
LEMMA EarlierFirst ==
    ASSUME TypeOK, NEW b \in Batches, NEW d \in Batches, Home[b] = Home[d], b < d, Take(d) > 0
    PROVE  Take(b) = batchQty[b]
<1> DEFINE upTo(x) == {e \in BatchesOf(Home[x]) : e < x}
           s == SumTable(batchQty)
           later == upTo(d) \ (upTo(b) \union {b})
<1>1. /\ b \in Nat /\ d \in Nat /\ batchQty[b] \in Nat /\ Wanted.qty \in Nat
      /\ upTo(b) \in SUBSET Batches /\ upTo(d) \in SUBSET Batches /\ later \in SUBSET Batches
  BY StockAssumption DEF TypeOK, BatchesOf
<1>2. /\ upTo(b) \union {b} \in SUBSET Batches /\ {b} \in SUBSET (Batches \ upTo(b))
      /\ later \in SUBSET (Batches \ (upTo(b) \union {b}))
      /\ (upTo(b) \union {b}) \union later = upTo(d)
  <2>1. \A e \in Batches : e \in Nat
    BY StockAssumption
  <2>2. upTo(b) \union {b} \subseteq upTo(d)
    <3>1. ASSUME NEW e \in upTo(b) PROVE e \in upTo(d)
      <4>1. e \in Batches /\ Home[e] = Home[b] /\ e < b
        BY DEF BatchesOf
      <4>2. e < d
        BY <1>1, <2>1, <4>1
      <4> QED
        BY <4>1, <4>2 DEF BatchesOf
    <3>2. b \in upTo(d)
      BY DEF BatchesOf
    <3> QED
      BY <3>1, <3>2
  <2>3. b \notin upTo(b)
    BY <1>1
  <2> HIDE DEF upTo
  <2> QED
    BY <1>1, <2>2, <2>3
<1>3. IsSummable(batchQty) /\ DOMAIN batchQty = Batches
  BY BatchSums
<1>4. Before(b) = s[upTo(b)] /\ Before(d) = s[upTo(d)] /\ s[later] \in Nat /\ s[upTo(b)] \in Nat
  BY <1>1, BatchSums DEF Before
<1> HIDE DEF upTo, later
<1>5. s[{b}] = batchQty[b]
  <2>1. s[{b}] = batchQty[b] + s[{b} \ {b}]
    <3>1. {b} \in SUBSET DOMAIN batchQty /\ b \in {b}
      BY <1>3
    <3> QED
      BY <1>3, <3>1, SumTableRemove
  <2>2. {b} \ {b} = {} /\ s[{}] = 0
    BY <1>3, SumTableEmpty
  <2> QED
    BY <1>1, <2>1, <2>2
<1>6. s[upTo(b) \union {b}] = s[upTo(b)] + s[{b}]
  BY <1>1, <1>2, <1>3, SumTableUnion
<1>7. s[upTo(d)] = s[upTo(b) \union {b}] + s[later]
  BY <1>2, <1>3, SumTableUnion
<1>8. Before(d) >= Before(b) + batchQty[b]
  BY <1>1, <1>4, <1>5, <1>6, <1>7
<1>9. Home[d] = Wanted.item /\ Wanted.qty - Before(d) > 0
  BY <1>1, BeforeNat DEF Take, Bounded, TypeOK
<1>10. Wanted.qty - Before(b) >= batchQty[b]
  BY <1>1, <1>8, <1>9, BeforeNat
<1> QED
  BY <1>1, <1>9, <1>10, BeforeNat DEF Take, Bounded

\* The first delivery of a consumption takes from a batch of the record only when
\* it leaves nothing of those that expire earlier.
THEOREM EarliestFirst == Spec => FirstExpiredFirstOut
<1>1. ASSUME TypeOK, NEW c \in Calls, Consume(c), ~keyed, NEW b \in Batches, NEW d \in Batches,
             Home[b] = Home[d], b < d, batchQty'[d] < batchQty[d]
      PROVE  batchQty'[b] = 0
  <2>1. \A x \in Batches : batchQty'[x] = batchQty[x] - Take(x)
    BY <1>1 DEF Consume, Skipped
  <2>2. Take(d) > 0
    BY <1>1, <2>1, TakeRange DEF TypeOK
  <2>3. Take(b) = batchQty[b]
    BY <1>1, <2>2, EarlierFirst
  <2> QED
    BY <1>1, <2>1, <2>3 DEF TypeOK
<1>2. TypeOK => [\A c \in Calls : Consume(c) /\ ~keyed =>
         \A b, d \in Batches :
             Home[b] = Home[d] /\ b < d /\ batchQty'[d] < batchQty[d] => batchQty'[b] = 0]_vars
  BY <1>1
<1> QED
  BY <1>2, TypeCorrect, PTL DEF FirstExpiredFirstOut
=============================================================================
