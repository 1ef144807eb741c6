----------------------------- MODULE MCPremises -----------------------------
(* What a restaurant's premises do beside the order itself: the stock ledger *)
(* (Stock), its alerts, the dining room, printing, combo offers, products,   *)
(* receipts, the rows all of these lock, tills, the kitchen's display and    *)
(* the listing of offers.  They are modelled with no state in common, so a   *)
(* behaviour is one of one of them, and what is checked holds of all of them *)
(* together.                                                                 *)
EXTENDS Stock, Sequences

CONSTANTS
    Kitchen, Store, Depot, PO1, PO2,
    Tables, NoTable, TableOrders, TableRequests, FormStatuses,
    JobTypes, Printers, MaxRetries, MaxSends,
    MinimumStock, MaxOnHand, MaxDue,
    Transactions, OrderIds, TableIds, ItemIds,
    Products, UnitPrice, Offers, Selections, CartLines, CartCombos, Quantities, NoCombo,
    CatalogProducts, MenuPrices, Writers,
    Invoices, Names, Blank, Styles,
    Tills, Presses, Carts, CartItems, MaxUnits, MaxPresses, NoCart, NoTicket,
    Cooks, TicketRows, MaxTurns,
    Checks, Dialogs, Days, UseRows, MaxLoose, Deals,
    ItemPrice, OrderOfRow

\* The ids of stock records are numbers, as a transaction names finitely many.
ASSUME LocksAssumption == IsFiniteSet(ItemIds) /\ ItemIds \subseteq Int

\* A stock record's behaviour starts with more on hand than its minimum.
ASSUME AlertsAssumption ==
    MinimumStock \in Int /\ MaxOnHand \in Int /\ MinimumStock < MaxOnHand

\* "No table", "no cart" and "no ticket" are none of the others; rows are finitely many.
ASSUME PremisesAssumption ==
    /\ NoTable \notin Tables /\ NoCart \notin Carts
    /\ IsFiniteSet(UseRows) /\ IsFiniteSet(CartItems) /\ IsFiniteSet(Products)
    /\ MaxUnits \in Nat \ {0}
    /\ \A q \in 1..MaxUnits, n \in {"", "extra"} : NoTicket # [qty |-> q, note |-> n]

\* What an offer's columns hold; a limit of 0 is none.
ASSUME DealsAssumption ==
    \A f \in Deals : f.value \in Nat /\ f.minimum \in Int /\ f.units \in Int

\* Prices, quantities and an offer's value are numbers, the latter not negative ones.
ASSUME CombosAssumption ==
    /\ IsFiniteSet(CartLines) /\ NoCombo \notin CartCombos
    /\ Quantities \subseteq Nat \ {0}
    /\ UnitPrice \in [Products -> Nat]
    /\ Selections \subseteq Seq(Products \X (Nat \ {0}))
    /\ \A offer \in Offers :
         /\ offer.type \in {"fixed_price", "percentage", "flat_discount"}
         /\ offer.value \in Nat
         /\ offer.groups \in Seq([of : SUBSET Products, min : Nat])

VARIABLES
    part,
    table, seat, visit, edited,
    sale, job, draft, printer, queue, paper, sends,
    level, batch, alerts, acknowledged, due, scan, disturbed,
    service, wants, holds,
    cartLine, cartCombo, editedCombos,
    product, told, writer, untold, overwritten,
    config, settled, snapshot, soldAs, copies,
    till, cart, item, press, pressed, intended, late, crossed, left,
    open, ticket, cooked, tap, turns, crossing,
    check, active, today, use, dialog

(* Two batches at the second stock record; two purchase orders, the first with *)
(* two lines, whose lots differ, and the second with one.                      *)
BatchHomes     == [b \in {1, 2} |-> Store]
LineOrders     == [l \in {1, 2, 3} |-> IF l < 3 THEN PO1 ELSE PO2]
LineItems      == [l \in {1, 2, 3} |-> Store]
LineQuantities == [l \in {1, 2, 3} |-> IF l = 1 THEN 2 ELSE 1]
LineLots       == [l \in {1, 2, 3} |-> IF l = 2 THEN 2 ELSE 1]
TwoUnits       == [item |-> Store, qty |-> 2]

(* A burger and some fries; offers of each type, with groups and without.    *)
UnitPrices == [p \in Products |-> IF p = "burger" THEN 5 ELSE 2]
SomeOffers ==
    {[type |-> "fixed_price", value |-> 6,
      groups |-> <<[of |-> {"burger"}, min |-> 1], [of |-> {"burger", "fries"}, min |-> 2]>>],
     [type |-> "percentage", value |-> 50, groups |-> <<>>],
     [type |-> "flat_discount", value |-> 3, groups |-> <<[of |-> {"fries"}, min |-> 1]>>]}
SomeSelections == {<<<<"burger", 1>>, <<"fries", 1>>, <<"fries", 1>>>>, <<<<"burger", 2>>>>}

(* A single unit once a day, and the whole of a cart once an order, on the   *)
(* first day only.                                                           *)
Deal(limit, units, minimum, days) ==
    [limit |-> limit, value |-> 1, people |-> "all", units |-> units, minimum |-> minimum,
     days |-> days]
SomeDeals == {Deal("daily", 1, 0, {1, 2}), Deal("once_per_order", 0, 1, {1})}

TeaAndCake == [x \in {"tea", "cake"} |-> IF x = "tea" THEN 1 ELSE 2]
OneDinner  == [k \in TicketRows |-> "dinner"]

Dining   == INSTANCE Tables
Printing == INSTANCE PrintJobs
Alerts   == INSTANCE StockAlerts WITH onHand <- level
Locking  == INSTANCE RowLocks
Cart     == INSTANCE Combos WITH edited <- editedCombos
Menu     == INSTANCE Products WITH Products <- CatalogProducts
Billed   == INSTANCE Receipts WITH order <- settled
Counter  == INSTANCE Counter WITH Meal <- Products
Board    == INSTANCE KitchenBoard
Listing  == INSTANCE OfferListings

stockVars   == <<onHand, batchQty, moved, keyed, transfer, order, line, adjustment, report,
                 call, begun>>
diningVars  == <<table, seat, visit, edited>>
paperVars   == <<sale, job, draft, printer, queue, paper, sends>>
warningVars == <<level, batch, alerts, acknowledged, due, scan, disturbed>>
rowVars     == <<service, wants, holds>>
offerVars   == <<cartLine, cartCombo, editedCombos>>
menuVars    == <<product, told, writer, untold, overwritten>>
billedVars  == <<config, settled, snapshot, soldAs, copies>>
tillVars    == <<till, cart, item, press, pressed, intended, late, crossed, left>>
dealVars    == <<check, active, today, use, dialog>>
boardVars   == <<open, ticket, cooked, tap, turns, crossing>>

Parts == {"stock", "dining", "printing", "alerts", "locking", "cart", "menu", "billed",
          "tills", "board", "deals"}

PremisesInit ==
    /\ part \in Parts
    /\ Init /\ Dining!Init /\ Printing!Init /\ Alerts!Init /\ Locking!Init /\ Cart!Init
    /\ Menu!Init /\ Billed!Init /\ Board!Init /\ Listing!Init
    /\ Counter!Init /\ (part # "tills" => item = [i \in CartItems |-> Counter!NoItem])

PremisesNext ==
    \/ /\ part = "stock" /\ Next
       /\ UNCHANGED <<part, diningVars, paperVars, warningVars, rowVars, offerVars, menuVars,
                      billedVars, tillVars, boardVars, dealVars>>
    \/ /\ part = "dining" /\ Dining!Next
       /\ UNCHANGED <<part, stockVars, paperVars, warningVars, rowVars, offerVars, menuVars,
                      billedVars, tillVars, boardVars, dealVars>>
    \/ /\ part = "printing" /\ Printing!Next
       /\ UNCHANGED <<part, stockVars, diningVars, warningVars, rowVars, offerVars, menuVars,
                      billedVars, tillVars, boardVars, dealVars>>
    \/ /\ part = "alerts" /\ Alerts!Next
       /\ UNCHANGED <<part, stockVars, diningVars, paperVars, rowVars, offerVars, menuVars,
                      billedVars, tillVars, boardVars, dealVars>>
    \/ /\ part = "locking" /\ Locking!Next
       /\ UNCHANGED <<part, stockVars, diningVars, paperVars, warningVars, offerVars, menuVars,
                      billedVars, tillVars, boardVars, dealVars>>
    \/ /\ part = "cart" /\ Cart!Next
       /\ UNCHANGED <<part, stockVars, diningVars, paperVars, warningVars, rowVars, menuVars,
                      billedVars, tillVars, boardVars, dealVars>>
    \/ /\ part = "menu" /\ Menu!Next
       /\ UNCHANGED <<part, stockVars, diningVars, paperVars, warningVars, rowVars, offerVars,
                      billedVars, tillVars, boardVars, dealVars>>
    \/ /\ part = "billed" /\ Billed!Next
       /\ UNCHANGED <<part, stockVars, diningVars, paperVars, warningVars, rowVars, offerVars,
                      menuVars, tillVars, boardVars, dealVars>>
    \/ /\ part = "tills" /\ Counter!Next
       /\ UNCHANGED <<part, stockVars, diningVars, paperVars, warningVars, rowVars, offerVars,
                      menuVars, billedVars, boardVars, dealVars>>
    \/ /\ part = "board" /\ Board!Next
       /\ UNCHANGED <<part, stockVars, diningVars, paperVars, warningVars, rowVars, offerVars,
                      menuVars, billedVars, tillVars, dealVars>>
    \/ /\ part = "deals" /\ Listing!Next
       /\ UNCHANGED <<part, stockVars, diningVars, paperVars, warningVars, rowVars, offerVars,
                      menuVars, billedVars, tillVars, boardVars>>

PremisesSpec ==
    PremisesInit /\ [][PremisesNext]_<<part, stockVars, diningVars, paperVars, warningVars,
                                       rowVars, offerVars, menuVars, billedVars, tillVars,
                                       boardVars, dealVars>>

\* Who follows events knows the rest: a record has the alert its level asks for
\* once every movement is evaluated (_evaluate_low_stock_alert beside the scans),
\* and readers of the catalog's events know the menu (product_service).
FollowersKnow == Alerts!AlertsFollowStock /\ Menu!EventsTellTheMenu

\* Payments, dispatches, adjustments and checkouts never wait in a circle
\* (lock_fefo_batches, select_for_update and the invoice counter).
OrderedNeverCircle == Locking!OrderedNeverCircle

\* What a bill takes off for a combo is the savings the combo shows, and a
\* combo recognised in the cart loses no unit (add_combo, apply_retrospective_combo).
CombosKeepTheCart == Cart!CombosKeepTheCart

\* A job shown as printed came out of a printer (execute_print_job), and history
\* pages and payloads show the sale as it was (create_invoice_snapshot).
PaperIsTrue == Printing!PrintedIsOnPaper /\ Billed!SnapshotShowsSale

\* No cart, press or dish is lost, and an order is paid once, unless requests
\* overlap or a till lets go of its cart (the web point of sale's session); an
\* offer is used as its limit, days and minimum say unless the listing pressed is
\* out of date (evaluate_order_combos); a table shown as merged can be split again,
\* whatever the unlocked writers of the point of sale and the order API do
\* (table_service.split_tables).
TillsKeepTrack ==
    Counter!TillsKeepTrack /\ Listing!UsesAreAllowed /\ Dining!MergedCanBeSplit

\* Tickets and their items follow the presses that no other overtook (the
\* kitchen's display).
CooksAgree == Board!CooksAgree
=============================================================================
