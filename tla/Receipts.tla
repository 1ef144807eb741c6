------------------------------- MODULE Receipts -------------------------------
(***************************************************************************)
(* What a receipt shows: the snapshot frozen by the checkout, the live     *)
(* order, or the tenant's invoice configuration.  A copy is sent to the    *)
(* print service as a payload and as the HTML that service prints; the     *)
(* history page is rendered from the snapshot.                             *)
(***************************************************************************)
EXTENDS Integers, FiniteSets, FiniteSetsExt

CONSTANTS
    Invoices,     \* settled orders and their invoices
    Names,        \* restaurant names (with address, GSTIN, ...) of the configuration
    Blank,        \* no restaurant name: the tenant's own name stands in
    Styles,       \* header, logo and show_* columns of the configuration
    ItemPrice     \* items an order may have, with their line totals

VARIABLES
    config,       \* InvoiceConfiguration of the tenant
    order,        \* active items of each settled order
    snapshot,     \* InvoiceSnapshot of each invoice, or NoSnapshot
    soldAs,       \* what was true of each sale when it was made
    copies        \* what the last copy of each invoice showed

receiptVars == <<config, order, snapshot, soldAs, copies>>

SaleItems == DOMAIN ItemPrice
NoSale == [settled |-> FALSE]
NoSnapshot == [taken |-> FALSE]
NoCopy == [payload |-> "none"]

Init ==
    /\ config = [name |-> Blank, style |-> CHOOSE s \in Styles : TRUE]
    /\ order = [i \in Invoices |-> {}]
    /\ snapshot = [i \in Invoices |-> NoSnapshot]
    /\ soldAs = [i \in Invoices |-> NoSale]
    /\ copies = [i \in Invoices |-> NoCopy]

Total(items) == MapThenSumSet(LAMBDA x : ItemPrice[x], items)

(* The form writes every column as its user left it; two forms at once,    *)
(* or a logo uploaded meanwhile, leave the columns of the later save.      *)
SaveConfig(n, s) ==
    /\ config' = [name |-> n, style |-> s]
    /\ UNCHANGED <<order, snapshot, soldAs, copies>>

ResetConfig ==
    /\ config' = [name |-> Blank, style |-> CHOOSE s \in Styles : TRUE]
    /\ UNCHANGED <<order, snapshot, soldAs, copies>>

Settled(i) == soldAs[i].settled

Settle(i, items) ==
    /\ ~Settled(i)
    /\ order' = [order EXCEPT ![i] = items]
    /\ soldAs' = [soldAs EXCEPT ![i] = [settled |-> TRUE, name |-> config.name, items |-> items]]

CreateSnapshot(items) ==
    [taken |-> TRUE, name |-> config.name, items |-> items, total |-> Total(items)]

(* The configuration's name wherever it has one.                           *)
PayloadOfToday(snap, items) ==
    [style |-> config.style,
     name |-> IF config.name # Blank THEN config.name
              ELSE IF snap.taken THEN snap.name ELSE Blank,
     items |-> IF snap.taken /\ snap.items # {} THEN snap.items ELSE items,
     total |-> Total(items)]

(* build_receipt_payload: business and items from the snapshot if it has   *)
(* them, totals from the order, the rest from the configuration.           *)
Payload(snap, items) ==
    [style |-> config.style,
     name |-> IF snap.taken /\ snap.name # Blank THEN snap.name ELSE config.name,
     items |-> IF snap.taken /\ snap.items # {} THEN snap.items ELSE items,
     total |-> Total(items)]

(* render_receipt_html does not look for a snapshot.                       *)
LiveReceipt(items) ==
    [style |-> config.style, name |-> config.name, items |-> items, total |-> Total(items)]

Copy(snap, items) == [payload |-> Payload(snap, items), html |-> LiveReceipt(items)]

(* complete_checkout_transaction also prints, where there is a printer.    *)
Checkout(i, items) ==
    /\ Settle(i, items)
    /\ snapshot' = [snapshot EXCEPT ![i] = CreateSnapshot(items)]
    /\ \/ copies' = [copies EXCEPT ![i] = Copy(CreateSnapshot(items), items)]
       \/ copies' = copies
    /\ UNCHANGED config

(* A snapshot that could not be made is logged and the sale goes on; an    *)
(* order settled by a payment gets none.                                   *)
SettleWithoutSnapshot(i, items) ==
    /\ Settle(i, items)
    /\ UNCHANGED <<config, snapshot, copies>>

(* void_item asks nothing of the order's status, and recalculates it.      *)
VoidItem(i, x) ==
    /\ Settled(i) /\ x \in order[i]
    /\ order' = [order EXCEPT ![i] = @ \ {x}]
    /\ UNCHANGED <<config, snapshot, soldAs, copies>>

Reprint(i) ==
    /\ Settled(i)
    /\ copies' = [copies EXCEPT ![i] = Copy(snapshot[i], order[i])]
    /\ UNCHANGED <<config, order, snapshot, soldAs>>

Next ==
    \/ \E n \in Names \union {Blank}, s \in Styles : SaveConfig(n, s)
    \/ ResetConfig
    \/ \E i \in Invoices :
          \/ \E items \in (SUBSET SaleItems) \ {{}} : Checkout(i, items) \/ SettleWithoutSnapshot(i, items)
          \/ \E x \in SaleItems : VoidItem(i, x)
          \/ Reprint(i)

Spec == Init /\ [][Next]_receiptVars

ShowsSale(i, receipt) ==
    /\ soldAs[i].name # Blank => receipt.name = soldAs[i].name
    /\ receipt.items = soldAs[i].items

(* The history page, and the payload of a copy, show the business and the  *)
(* items of the sale whatever was configured or voided afterwards, and the *)
(* page's lines add up to its total.                                       *)
SnapshotShowsSale ==
    \A i \in Invoices : snapshot[i].taken =>
        /\ ShowsSale(i, snapshot[i])
        /\ snapshot[i].total = Total(soldAs[i].items)
        /\ copies[i] # NoCopy => ShowsSale(i, copies[i].payload)
=============================================================================
