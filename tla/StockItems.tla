------------------------------ MODULE StockItems ------------------------------
(***************************************************************************)
(* The stock records of one product in one warehouse, as its screens and   *)
(* REST resources keep them.  Creating a record is three transactions;     *)
(* every movement locks the record and adds a ledger row; a REST update    *)
(* reads a row, and saves the whole of it later.  Reconciliation reads the *)
(* balance and then sums the ledger.                                       *)
(*                                                                         *)
(* Quantities and costs are whole.  A record has one batch, which is not   *)
(* deleted; a purchase order has one line.                                 *)
(***************************************************************************)
EXTENDS Integers, FiniteSets, FiniteSetsExt

CONSTANTS
    StockRows,    \* rows of InventoryItem for the product, by number
    Hands,        \* requests under way at the same time
    Quantities,
    Costs,        \* unit costs, 0 where none is given
    Floors,       \* values of minimum_stock
    MaxBegun,     \* bound on requests and movements
    NoStockRow

VARIABLES
    record,       \* rows of InventoryItem
    lot,          \* Batch.quantity of each record, -1 where there is no batch
    linked,       \* Product.inventory_item_id
    order,        \* the purchase order and its line
    hand,         \* requests between two of their transactions
    begun,
    sums,         \* sums of the StockMovement rows of each record and batch
    costs,        \* unit costs that went into each record's average
    asked,        \* the minimum last asked for
    savedOver,    \* rows a stale copy was saved over, batches edited
    loose         \* records whose creation broke off, or linked when deleted

stockItemVars == <<record, lot, linked, order, hand, begun, sums, costs, asked, savedOver, loose>>

Idle == [step |-> "idle"]
Fresh == [live |-> FALSE, new |-> TRUE]
NoOrder == [status |-> "none"]

NewRecord == [live |-> TRUE, new |-> FALSE, qty |-> 0, cost |-> 0, floor |-> 0, active |-> TRUE]

(* Either nothing, or a record with a first delivery that cost nothing,       *)
(* in a batch.                                                               *)
Init ==
    /\ \E first \in {{}, {CHOOSE i \in StockRows : \A j \in StockRows : i <= j}} :
         /\ record = [i \in StockRows |->
                        IF i \in first THEN [NewRecord EXCEPT !.qty = 1] ELSE Fresh]
         /\ lot = [i \in StockRows |-> IF i \in first THEN 1 ELSE -1]
         /\ linked = IF first = {} THEN NoStockRow ELSE CHOOSE i \in first : TRUE
         /\ sums = [i \in StockRows |->
                      IF i \in first THEN [all |-> 1, lot |-> 1] ELSE [all |-> 0, lot |-> 0]]
         /\ costs = [i \in StockRows |-> IF i \in first THEN {0} ELSE {}]
    /\ order = NoOrder
    /\ hand = [r \in Hands |-> Idle] /\ begun = 0
    /\ asked = [i \in StockRows |-> 0]
    /\ savedOver = {} /\ loose = {}

Live == {i \in StockRows : record[i].live}

Begin == begun < MaxBegun /\ begun' = begun + 1
Starts(r, h) == hand[r] = Idle /\ hand' = [hand EXCEPT ![r] = h]
Goes(r, step) == hand' = [hand EXCEPT ![r].step = step]
Ends(r) == hand' = [hand EXCEPT ![r] = Idle]

-----------------------------------------------------------------------------
(* Movements *)

\* A quotient rounded to the nearest, a half to the even neighbour.
Quantize(t, n) ==
    LET d == t \div n  rest == 2 * (t % n) IN
    IF rest < n \/ (rest = n /\ d % 2 = 0) THEN d ELSE d + 1

\* An average over a balance that was sold below zero.
AverageOverOversold(old, cost, q, c) ==
    IF old + q <= 0 THEN c ELSE Quantize(old * cost + q * c, old + q)

\* Weighted with what there is; the last cost where nothing was left.
Average(old, cost, q, c) ==
    IF old <= 0 \/ old + q <= 0 THEN c ELSE Quantize(old * cost + q * c, old + q)

\* A movement of q at cost c; the average follows only what has a cost.
Post(i, q, c, tracked) ==
    LET i0 == record[i] IN
    /\ record' = [record EXCEPT ![i].qty = @ + q,
         ![i].cost = IF q > 0 /\ c > 0 THEN Average(i0.qty, @, q, c) ELSE @]
    /\ sums' = [sums EXCEPT ![i].all = @ + q, ![i].lot = IF tracked THEN @ + q ELSE @]
    /\ costs' = [costs EXCEPT ![i] = IF q > 0 /\ (c > 0 \/ i0.cost = 0) THEN @ \union {c} ELSE @]

\* Checkout and refunds find the product's record themselves, and may oversell.
Sell(i, q) ==
    /\ Begin /\ i \in Live /\ record[i].active
    /\ Post(i, -q, 0, FALSE)
    /\ UNCHANGED <<lot, linked, order, hand, asked, savedOver, loose>>

Restock(i, q) ==
    /\ Begin /\ i \in Live
    /\ Post(i, q, 0, FALSE)
    /\ UNCHANGED <<lot, linked, order, hand, asked, savedOver, loose>>

\* Damaged stock comes out of the record and of its batch.
WriteOff(i, q) ==
    /\ Begin /\ i \in Live /\ record[i].qty >= q /\ lot[i] >= q
    /\ Post(i, -q, 0, TRUE)
    /\ lot' = [lot EXCEPT ![i] = @ - q]
    /\ UNCHANGED <<linked, order, hand, asked, savedOver, loose>>

-----------------------------------------------------------------------------
(* Creating a record, from the screen or by REST *)

\* The screen offers products without a record only.
Offered == Live = {}

AskForRecord(r, q, c, screen) ==
    /\ Begin /\ (screen => Offered)
    /\ Starts(r, [step |-> "find", row |-> NoStockRow, qty |-> q, cost |-> c])
    /\ UNCHANGED <<record, lot, linked, order, sums, costs, asked, savedOver, loose>>

FindRecord(r) ==
    /\ hand[r].step = "find"
    /\ \/ Live = {} /\ Goes(r, "insert")
       \/ \E i \in Live : hand' = [hand EXCEPT ![r].row = i, ![r].step = "opening"]
    /\ UNCHANGED <<record, lot, linked, order, begun, sums, costs, asked, savedOver, loose>>

\* A second record of the product is refused by the unique constraint.
InsertRecord(r) ==
    /\ hand[r].step = "insert"
    /\ \/ Live # {} /\ Ends(r) /\ UNCHANGED record
       \/ /\ Live = {}
          /\ \E i \in StockRows :
               /\ record[i] = Fresh /\ \A j \in StockRows : j < i => record[j] # Fresh
               /\ record' = [record EXCEPT ![i] = NewRecord]
               /\ hand' = [hand EXCEPT ![r].row = i, ![r].step = "opening"]
    /\ UNCHANGED <<lot, linked, order, begun, sums, costs, asked, savedOver, loose>>

PostOpening(r) ==
    LET i == hand[r].row  q == hand[r].qty IN
    /\ hand[r].step = "opening"
    /\ \/ q = 0 /\ Goes(r, "link") /\ UNCHANGED <<record, sums, costs, loose>>
       \/ /\ q > 0 /\ i \in Live
          /\ Post(i, q, hand[r].cost, FALSE) /\ Goes(r, "link") /\ UNCHANGED loose
       \/ /\ q > 0 /\ i \notin Live
          /\ Ends(r) /\ loose' = loose \union {i} /\ UNCHANGED <<record, sums, costs>>
    /\ UNCHANGED <<lot, linked, order, begun, asked, savedOver>>

LinkProduct(r) ==
    LET i == hand[r].row IN
    /\ hand[r].step = "link"
    /\ linked' = i
    /\ loose' = IF i \in Live THEN loose ELSE loose \union {i}
    /\ Ends(r)
    /\ UNCHANGED <<record, lot, order, begun, sums, costs, asked, savedOver>>

\* The process stops between two of the transactions.
BreaksOff(r) ==
    /\ hand[r].step \in {"opening", "link"}
    /\ loose' = loose \union {hand[r].row}
    /\ Ends(r)
    /\ UNCHANGED <<record, lot, linked, order, begun, sums, costs, asked, savedOver>>

-----------------------------------------------------------------------------
(* Editing records and batches *)

\* set_reorder_levels writes the levels it is given and nothing else.
WithLevels(i, n) == [record EXCEPT ![i].floor = n]

\* The form has already changed the instance that is compared with it, so that
\* the active flag is never saved.
SetLevels(i, n) ==
    /\ Begin /\ i \in Live
    /\ record' = WithLevels(i, n)
    /\ asked' = [asked EXCEPT ![i] = n]
    /\ UNCHANGED <<lot, linked, order, hand, sums, costs, savedOver, loose>>

DeleteRecord(i) ==
    /\ Begin /\ i \in Live
    /\ record' = [record EXCEPT ![i].live = FALSE]
    /\ UNCHANGED <<lot, linked, order, hand, sums, costs, asked, savedOver, loose>>

OpenRecord(r, i) ==
    /\ Begin /\ i \in Live
    /\ Starts(r, [step |-> "record", row |-> i, copy |-> record[i]])
    /\ UNCHANGED <<record, lot, linked, order, sums, costs, asked, savedOver, loose>>

SavedOver(kind, key, current, copy) ==
    IF current = copy THEN savedOver ELSE savedOver \union {<<kind, key>>}

\* The quantities are read-only fields, but the save writes every column.
SaveRecord(r) ==
    LET i == hand[r].row  copy == hand[r].copy IN
    /\ hand[r].step = "record" /\ Ends(r)
    /\ IF Live \subseteq {i}
       THEN /\ \/ /\ \E on \in BOOLEAN :
                       record' = [record EXCEPT ![i] = [copy EXCEPT !.active = on]]
                  /\ UNCHANGED asked
               \/ \E n \in Floors :
                    /\ record' = [record EXCEPT ![i] = [copy EXCEPT !.floor = n]]
                    /\ asked' = [asked EXCEPT ![i] = n]
            /\ savedOver' = SavedOver("record", i, record[i], copy)
       ELSE UNCHANGED <<record, asked, savedOver>>
    /\ UNCHANGED <<lot, linked, order, begun, sums, costs, loose>>

OpenLot(r, i) ==
    /\ Begin /\ lot[i] >= 0
    /\ Starts(r, [step |-> "lot", row |-> i, copy |-> lot[i]])
    /\ UNCHANGED <<record, lot, linked, order, sums, costs, asked, savedOver, loose>>

\* A batch's quantity may be edited, and is written back when it is not.
SaveLot(r) ==
    LET i == hand[r].row IN
    /\ hand[r].step = "lot" /\ Ends(r)
    /\ \E q \in Quantities \union {hand[r].copy} :
         /\ lot' = [lot EXCEPT ![i] = q]
         /\ savedOver' = SavedOver("lot", i, lot[i], q)
    /\ UNCHANGED <<record, linked, order, begun, sums, costs, asked, loose>>

-----------------------------------------------------------------------------
(* Purchasing *)

CreateOrder(i, q, c) ==
    /\ Begin /\ order = NoOrder /\ i \in Live /\ record[i].active
    /\ order' = [status |-> "draft", row |-> i, ordered |-> q, cost |-> c, got |-> 0]
    /\ UNCHANGED <<record, lot, linked, hand, sums, costs, asked, savedOver, loose>>

StatusAfter(got) == IF got >= order.ordered THEN "received" ELSE "partially_received"

\* A delivery, under a batch number or none, at the order's cost.
ReceiveOrder(q, tracked) ==
    LET i == order.row IN
    /\ Begin /\ order.status \in {"draft", "partially_received"}
    /\ q <= order.ordered - order.got /\ i \in Live
    /\ Post(i, q, order.cost, tracked)
    /\ lot' = [lot EXCEPT ![i] = IF tracked THEN Max({@, 0}) + q ELSE @]
    /\ order' = [order EXCEPT !.got = @ + q, !.status = StatusAfter(order.got + q)]
    /\ UNCHANGED <<linked, hand, asked, savedOver, loose>>

OpenOrder(r) ==
    /\ Begin /\ order # NoOrder
    /\ Starts(r, [step |-> "order", row |-> order.row, copy |-> order.status])
    /\ UNCHANGED <<record, lot, linked, order, sums, costs, asked, savedOver, loose>>

SaveOrder(r) ==
    /\ hand[r].step = "order" /\ Ends(r)
    /\ order' = [order EXCEPT !.status = hand[r].copy]
    /\ savedOver' = SavedOver("order", order.row, order.status, hand[r].copy)
    /\ UNCHANGED <<record, lot, linked, begun, sums, costs, asked, loose>>

-----------------------------------------------------------------------------
(* Reconciliation: two queries *)

ReadBalance(r, i) ==
    /\ Begin /\ i \in Live
    /\ Starts(r, [step |-> "balance", row |-> i, qty |-> record[i].qty, then |-> sums[i].all])
    /\ UNCHANGED <<record, lot, linked, order, sums, costs, asked, savedOver, loose>>

SumLedger(r) ==
    LET h == hand[r] IN
    /\ h.step = "balance"
    /\ hand' = [hand EXCEPT ![r] =
         [step |-> "told", row |-> h.row, discrepancy |-> h.qty - sums[h.row].all,
          disturbed |-> sums[h.row].all # h.then]]
    /\ UNCHANGED <<record, lot, linked, order, begun, sums, costs, asked, savedOver, loose>>

Answer(r) ==
    /\ hand[r].step = "told" /\ Ends(r)
    /\ UNCHANGED <<record, lot, linked, order, begun, sums, costs, asked, savedOver, loose>>

-----------------------------------------------------------------------------

Next ==
    \/ \E r \in Hands :
         \/ \E q \in Quantities \union {0}, c \in Costs, screen \in BOOLEAN :
              AskForRecord(r, q, c, screen)
         \/ FindRecord(r) \/ InsertRecord(r) \/ PostOpening(r) \/ LinkProduct(r) \/ BreaksOff(r)
         \/ \E i \in StockRows : OpenRecord(r, i) \/ OpenLot(r, i) \/ ReadBalance(r, i)
         \/ SaveRecord(r) \/ SaveLot(r) \/ OpenOrder(r) \/ SaveOrder(r)
         \/ SumLedger(r) \/ Answer(r)
    \/ \E i \in StockRows :
         \/ DeleteRecord(i)
         \/ \E n \in Floors : SetLevels(i, n)
         \/ \E q \in Quantities : Sell(i, q) \/ Restock(i, q) \/ WriteOff(i, q)
         \/ \E q \in Quantities, c \in Costs : CreateOrder(i, q, c)
    \/ \E q \in Quantities, tracked \in BOOLEAN : ReceiveOrder(q, tracked)

Untouched(kind) == {i \in StockRows : ~record[i].new /\ <<kind, i>> \notin savedOver}

\* The balance of a record and the quantity of its batch are the sums of their
\* movements, whoever moves stock meanwhile, unless a row is saved over
\* (StockMovement's docstring, apply_stock_movement).
LedgersAgree ==
    /\ \A i \in Untouched("record") : record[i].qty = sums[i].all
    /\ \A i \in Untouched("lot") : lot[i] >= 0 => lot[i] = sums[i].lot

\* The average cost lies between the lowest and the highest cost that came in,
\* after overselling too (_recompute_wac).
AverageIsAnAverage ==
    \A i \in Untouched("record") :
        IF costs[i] = {} THEN record[i].cost = 0
        ELSE record[i].cost \in Min(costs[i])..Max(costs[i])

Creating == {hand[r].row : r \in {q \in Hands : hand[q].step \in {"opening", "link"}}}

\* The product points at its record, unless the creation broke off or the record
\* was deleted while it went on (InventoryItemViewSet.create).
ProductIsLinked ==
    \A i \in (Live \intersect Untouched("record")) \ (Creating \union loose) :
        linked = i \/ linked \in loose

\* Reorder levels and the status of an order stay as their last change left them.
LevelsStay ==
    /\ \A i \in Untouched("record") : record[i].floor = asked[i]
    /\ \A i \in Untouched("order") :
         order # NoOrder /\ order.row = i /\ order.got > 0 => order.status = StatusAfter(order.got)

\* A discrepancy is reported for rows that were saved over, or when stock moved
\* between the two queries (reconcile_item).
AlarmsAreReal ==
    \A r \in Hands :
        hand[r].step = "told" /\ hand[r].discrepancy # 0 =>
            hand[r].disturbed \/ hand[r].row \notin Untouched("record")

\* Stock records, their ledgers, their costs and the documents about them agree,
\* whatever is created, moved, deleted or reconciled at the same time.
RecordsAgree ==
    LedgersAgree /\ AverageIsAnAverage /\ ProductIsLinked /\ LevelsStay /\ AlarmsAreReal
=============================================================================
