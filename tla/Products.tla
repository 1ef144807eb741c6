------------------------------- MODULE Products -------------------------------
(***************************************************************************)
(* Products of the catalog and the events told of them.  The service reads *)
(* a product without a lock, writes every column of the row back and puts  *)
(* its events in the outbox of the same transaction; the REST endpoints    *)
(* and the CSV import write the row and tell nothing.                      *)
(***************************************************************************)
EXTENDS FiniteSets

CONSTANTS
    Products,
    MenuPrices,
    Writers      \* calls that change a product, by form, REST or CSV

VARIABLES
    product,     \* rows of Product: [live, price], or NoProduct
    told,        \* what the events so far say of each
    writer,      \* the row each call has read
    untold,      \* products somebody wrote past the service
    overwritten  \* products a call wrote back after another had changed them

productVars == <<product, told, writer, untold, overwritten>>

NoProduct == [live |-> FALSE]
Row(p) == [live |-> TRUE, price |-> p]
Ready == [at |-> "ready"]

Init ==
    /\ product = [p \in Products |-> NoProduct]
    /\ told = [p \in Products |-> NoProduct]
    /\ writer = [w \in Writers |-> Ready]
    /\ untold = {} /\ overwritten = {}

(* The sku, and with it the identity, is kept unique by a constraint.      *)
CreateProduct(p) ==
    /\ product[p] = NoProduct
    /\ \E n \in MenuPrices : product' = [product EXCEPT ![p] = Row(n)]
    /\ told' = [told EXCEPT ![p] = product'[p]]
    /\ UNCHANGED <<writer, untold, overwritten>>

(* A row of the import, or a POST, for a product that does not exist.      *)
CreateUntold(p) ==
    /\ product[p] = NoProduct
    /\ \E n \in MenuPrices : product' = [product EXCEPT ![p] = Row(n)]
    /\ untold' = untold \union {p}
    /\ UNCHANGED <<told, writer, overwritten>>

Read(w, p, by) ==
    /\ writer[w] = Ready
    /\ product[p].live
    /\ writer' = [writer EXCEPT ![w] = [at |-> by, of |-> p, seen |-> product[p]]]
    /\ UNCHANGED <<product, told, untold, overwritten>>

WriteBack(w, n) ==
    LET p == writer[w].of IN
    /\ product' = [product EXCEPT ![p] = Row(n)]
    /\ overwritten' = IF product[p] = writer[w].seen THEN overwritten ELSE overwritten \union {p}
    /\ writer' = [writer EXCEPT ![w] = Ready]

(* Events with the row as it was read.                                     *)
AnnounceOld(p, old, new) ==
    told' = IF old = new THEN told ELSE [told EXCEPT ![p] = Row(old)]

(* ProductUpdated, and ProductPriceChanged if the diff has a price.        *)
Announce(p, old, new) ==
    told' = IF old = new THEN told ELSE [told EXCEPT ![p] = Row(new)]

UpdateProduct(w) ==
    /\ writer[w].at = "service"
    /\ \E n \in MenuPrices :
          /\ WriteBack(w, n)
          /\ Announce(writer[w].of, writer[w].seen.price, n)
    /\ UNCHANGED untold

UpdateUntold(w) ==
    /\ writer[w].at = "rest"
    /\ \E n \in MenuPrices : WriteBack(w, n)
    /\ untold' = untold \union {writer[w].of}
    /\ UNCHANGED told

(* Writes is_deleted and deleted_at only.                                  *)
DeleteProduct(p) ==
    /\ product[p].live
    /\ product' = [product EXCEPT ![p] = NoProduct]
    /\ told' = [told EXCEPT ![p] = NoProduct]
    /\ UNCHANGED <<writer, untold, overwritten>>

DeleteUntold(p) ==
    /\ product[p].live
    /\ product' = [product EXCEPT ![p] = NoProduct]
    /\ untold' = untold \union {p}
    /\ UNCHANGED <<told, writer, overwritten>>

(* The form does not validate, or the transaction fails.                   *)
GiveUp(w) ==
    /\ writer[w] # Ready
    /\ writer' = [writer EXCEPT ![w] = Ready]
    /\ UNCHANGED <<product, told, untold, overwritten>>

Next ==
    \/ \E p \in Products : CreateProduct(p) \/ CreateUntold(p) \/ DeleteProduct(p) \/ DeleteUntold(p)
    \/ \E w \in Writers, p \in Products, by \in {"service", "rest"} : Read(w, p, by)
    \/ \E w \in Writers : UpdateProduct(w) \/ UpdateUntold(w) \/ GiveUp(w)

Spec == Init /\ [][Next]_productVars

(* "The audit row and the outbox event are written inside the same         *)
(* transaction as the business change, so they can never diverge from it"  *)
(* (product_service.py): somebody who follows the events knows what is on  *)
(* the menu and for how much, of every product nobody wrote past the       *)
(* service and no two calls changed at once (the second may bring a        *)
(* deleted product back, or an old price, without an event saying so).     *)
EventsTellTheMenu ==
    \A p \in Products \ (untold \union overwritten) : told[p] = product[p]
=============================================================================
