------------------------------ MODULE StockAlerts ------------------------------
(***************************************************************************)
(* The alerts of one stock record.  Every movement is followed, after its  *)
(* commit, by an evaluation under the record's lock; the scan lists        *)
(* records and batches first and raises alerts from its list; people       *)
(* acknowledge and resolve alerts.                                         *)
(***************************************************************************)
EXTENDS Integers, FiniteSets

CONSTANTS
    MinimumStock,    \* InventoryItem.minimum_stock
    MaxOnHand,       \* bound on the quantity
    MaxDue           \* bound on the evaluations not yet run

VARIABLES
    onHand,          \* quantity_on_hand
    batch,           \* the record's batch: how near its expiry date is
    alerts,          \* types with an OPEN row of InventoryAlert
    acknowledged,    \* types with an ACKNOWLEDGED row
    due,             \* movements committed and not yet evaluated
    scan,            \* what a scan has listed and not yet raised
    disturbed        \* an evaluation was lost, or alerts changed without one

alertVars == <<onHand, batch, alerts, acknowledged, due, scan, disturbed>>

AlertType == {"out_of_stock", "low_stock", "expiry_soon", "expired"}
StockTypes == {"out_of_stock", "low_stock"}
BatchAges == {"empty", "fresh", "soon", "past"}
Levels == -1..MaxOnHand
NotScanning == "none"

Init ==
    /\ onHand = MaxOnHand
    /\ batch = "fresh"
    /\ alerts = {}
    /\ acknowledged = {}
    /\ due = 0
    /\ scan = NotScanning
    /\ disturbed = FALSE

Condition(type) ==
    CASE type = "out_of_stock" -> onHand <= 0
      [] type = "low_stock"    -> onHand > 0 /\ onHand <= MinimumStock
      [] type = "expiry_soon"  -> batch = "soon"
      [] type = "expired"      -> batch = "past"

(* apply_stock_movement, and its on_commit hook that may never run.        *)
Movement(level) ==
    /\ due < MaxDue /\ level # onHand
    /\ onHand' = level
    /\ \/ due' = due + 1 /\ UNCHANGED disturbed
       \/ disturbed' = TRUE /\ UNCHANGED due
    /\ UNCHANGED <<batch, alerts, acknowledged, scan>>

(* Other movements and time do this to the batch.                          *)
AgeBatch(age) ==
    /\ batch' = age
    /\ UNCHANGED <<onHand, alerts, acknowledged, due, scan, disturbed>>

(* A level at the minimum taken for enough.                                *)
EvaluatedAtMinimum ==
    IF MinimumStock <= 0 THEN alerts
    ELSE IF onHand >= MinimumStock THEN alerts \ StockTypes
    ELSE alerts \union {type \in StockTypes : Condition(type)}

Evaluated ==
    IF MinimumStock <= 0 THEN alerts
    ELSE IF onHand > MinimumStock THEN alerts \ StockTypes
    ELSE alerts \union {type \in StockTypes : Condition(type)}

Evaluate ==
    /\ due > 0
    /\ due' = due - 1
    /\ alerts' = Evaluated
    /\ disturbed' = FALSE
    /\ UNCHANGED <<onHand, batch, acknowledged, scan>>

(* The scan: one query and one list per type of alert.                     *)
List(type) ==
    /\ scan = NotScanning
    /\ Condition(type)
    /\ type \in StockTypes => MinimumStock > 0
    /\ scan' = type
    /\ UNCHANGED <<onHand, batch, alerts, acknowledged, due, disturbed>>

RaiseListed ==
    /\ scan # NotScanning
    /\ alerts' = alerts \union {scan}
    /\ disturbed' = (disturbed \/ (scan \in StockTypes /\ ~Condition(scan)))
    /\ scan' = NotScanning
    /\ UNCHANGED <<onHand, batch, acknowledged, due>>

Acknowledge(type) ==
    /\ type \in alerts
    /\ alerts' = alerts \ {type}
    /\ acknowledged' = acknowledged \union {type}
    /\ disturbed' = TRUE
    /\ UNCHANGED <<onHand, batch, due, scan>>

Resolve(type) ==
    /\ \/ type \in alerts /\ alerts' = alerts \ {type} /\ UNCHANGED acknowledged
       \/ type \in acknowledged /\ acknowledged' = acknowledged \ {type} /\ UNCHANGED alerts
    /\ disturbed' = TRUE
    /\ UNCHANGED <<onHand, batch, due, scan>>

Next ==
    \/ \E level \in Levels : Movement(level)
    \/ \E age \in BatchAges : AgeBatch(age)
    \/ Evaluate \/ RaiseListed
    \/ \E type \in AlertType : List(type) \/ Acknowledge(type) \/ Resolve(type)

Spec == Init /\ [][Next]_alertVars

(* When every movement has been evaluated, the record has the alert its    *)
(* level asks for, and none for stock when the level is above the minimum, *)
(* in whatever order movements commit and evaluations and scans run.       *)
AlertsFollowStock ==
    (due = 0 /\ ~disturbed /\ MinimumStock > 0) =>
        /\ \A type \in StockTypes : Condition(type) => type \in alerts
        /\ onHand > MinimumStock => alerts \intersect StockTypes = {}
=============================================================================
