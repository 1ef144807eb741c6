-------------------------------- MODULE Counter --------------------------------
(***************************************************************************)
(* The tills of the web point of sale.  A till is a browser session that   *)
(* points at the order on its screen.  A request takes the pointer when it *)
(* starts and the session is written as a whole when it ends, unless it    *)
(* fails; in between each service call locks the order, but quantities are *)
(* computed from what was read before the lock.                            *)
(***************************************************************************)
EXTENDS Integers, FiniteSets

CONSTANTS
    Tills,
    Presses,      \* requests under way at the same time
    Carts,        \* rows of Order
    CartItems,    \* rows of OrderItem, by number
    Products,
    Meal,         \* the products of the combo on sale
    MaxUnits,     \* bound on the quantity of a line
    MaxPresses,   \* bound on the requests
    NoCart, NoTicket

VARIABLES
    till,         \* active_order_id of each session
    cart,         \* rows of Order, with the payments captured
    item,         \* rows of OrderItem with their KOTItem
    press,        \* requests of the tills
    pressed,      \* how many there were
    intended,     \* the quantity each line's presses ask for
    late,         \* lines changed after the kitchen had them
    crossed,      \* carts that two requests had at once
    left          \* carts a till let go of, or that were voided elsewhere

counterVars == <<till, cart, item, press, pressed, intended, late, crossed, left>>

Idle == [step |-> "idle"]
NoItem == [live |-> FALSE, cart |-> NoCart]

NewItem(o, p, combo) ==
    [live |-> TRUE, cart |-> o, product |-> p, qty |-> 1, note |-> "", combo |-> combo,
     ticket |-> NoTicket]
Sent(i) == [i EXCEPT !.ticket = [qty |-> i.qty, note |-> i.note]]

(* Either nothing, or guests at a table whose first dish is being cooked.  *)
Init ==
    /\ till = [t \in Tills |-> NoCart]
    /\ \E seated \in {{}, {CHOOSE o \in Carts : TRUE}}, p \in Products :
         LET dish == IF seated = {} THEN {} ELSE {CHOOSE i \in CartItems : TRUE} IN
         /\ cart = [o \in Carts |-> [state |-> IF o \in seated THEN "open" ELSE "none",
                                    table |-> o \in seated, paid |-> 0]]
         /\ item = [i \in CartItems |->
                      IF i \in dish THEN Sent(NewItem(CHOOSE o \in seated : TRUE, p, FALSE)) ELSE NoItem]
         /\ intended = [i \in CartItems |-> IF i \in dish THEN 1 ELSE 0]
    /\ press = [r \in Presses |-> Idle] /\ pressed = 0
    /\ late = {} /\ crossed = {} /\ left = {}

IsOpen(o) == o # NoCart /\ cart[o].state = "open"
FreshCarts == {o \in Carts : cart[o].state = "none"}
LinesOf(o) == {i \in CartItems : o # NoCart /\ item[i].cart = o}
Active(o) == {i \in LinesOf(o) : item[i].live}
Mine(r) == press[r].mine

(* Requests that have the session or the cart of another in their hands.   *)
Others(r, t, o) ==
    {q \in Presses \ {r} : /\ press[q] # Idle
                           /\ press[q].at = t \/ (o # NoCart /\ Mine(q) = o)}
Shared(r, t, o) ==
    IF Others(r, t, o) = {} THEN {}
    ELSE ({o} \union {Mine(q) : q \in Others(r, t, o)}) \ {NoCart}

Begin(r, t) ==
    /\ press[r] = Idle /\ pressed < MaxPresses
    /\ pressed' = pressed + 1
    /\ press' = [press EXCEPT ![r] =
                   [step |-> "begun", at |-> t, mine |-> till[t], written |-> FALSE]]
    /\ crossed' = crossed \union Shared(r, t, till[t])
    /\ UNCHANGED <<till, cart, item, intended, late, left>>

Points(r, o, step) ==
    press' = [press EXCEPT ![r].mine = o, ![r].written = TRUE, ![r].step = step]
Goes(r, step) == press' = [press EXCEPT ![r].step = step]

OpenCart(o, atTable) == cart' = [cart EXCEPT ![o].state = "open", ![o].table = atTable]

(* The order of the session if it is open, or a new one.                   *)
FindCart(r) ==
    /\ press[r].step = "begun"
    /\ IF IsOpen(Mine(r))
       THEN Goes(r, "cart") /\ UNCHANGED <<cart, crossed>>
       ELSE \E o \in FreshCarts :
              /\ OpenCart(o, FALSE)
              /\ Points(r, o, "cart")
              /\ crossed' = crossed \union Shared(r, press[r].at, o)
    /\ UNCHANGED <<till, pressed, item, intended, late, left>>

FreeItems == {i \in CartItems : item[i] = NoItem}

NewLines(o, products) == CHOOSE f \in [products -> FreeItems] :
    \A p, q \in products : p # q => f[p] # f[q]

AddLines(r, products, combo) ==
    LET o == Mine(r)
        at == NewLines(o, products)
        added == {at[p] : p \in products}
        of == [i \in added |-> CHOOSE p \in products : at[p] = i]
    IN  /\ Cardinality(products) <= Cardinality(FreeItems)
        /\ item' = [i \in CartItems |->
                      IF i \in added THEN NewItem(o, of[i], combo) ELSE item[i]]
        /\ intended' = [i \in CartItems |-> IF i \in added THEN 1 ELSE intended[i]]

(* A tap on a product: one more of the first line that has it, whatever    *)
(* kind of line that is, or a new line.                                    *)
TapProduct(r, p) ==
    LET same == {i \in Active(Mine(r)) : item[i].product = p} IN
    /\ press[r].step = "cart"
    /\ IF same # {}
       THEN \E i \in same :
              /\ press' = [press EXCEPT ![r] = [step |-> "set", at |-> @.at, mine |-> @.mine,
                             written |-> @.written, line |-> i, by |-> 1, qty |-> item[i].qty + 1]]
              /\ UNCHANGED <<item, intended>>
       ELSE /\ IsOpen(Mine(r)) /\ AddLines(r, {p}, FALSE) /\ Goes(r, "done")
    /\ UNCHANGED <<till, pressed, cart, late, crossed, left>>

(* A product with modifiers is always a line of its own.                   *)
AddWithModifiers(r, p) ==
    /\ press[r].step = "cart" /\ IsOpen(Mine(r))
    /\ AddLines(r, {p}, FALSE)
    /\ Goes(r, "done")
    /\ UNCHANGED <<till, pressed, cart, late, crossed, left>>

(* A combo, or a choice its groups refuse.                                 *)
AddCombo(r, valid) ==
    /\ press[r].step = "cart" /\ (valid => IsOpen(Mine(r)))
    /\ IF valid THEN AddLines(r, Meal, TRUE) ELSE UNCHANGED <<item, intended>>
    /\ Goes(r, "done")
    /\ UNCHANGED <<till, pressed, cart, late, crossed, left>>

(* The plus and minus of a line, which is looked for in the order only.    *)
PressLine(r, i, by) ==
    /\ press[r].step = "begun" /\ i \in LinesOf(Mine(r))
    /\ press' = [press EXCEPT ![r] = [step |-> "set", at |-> @.at, mine |-> @.mine,
                   written |-> @.written, line |-> i, by |-> by, qty |-> item[i].qty + by]]
    /\ UNCHANGED <<till, pressed, cart, item, intended, late, crossed, left>>

Changed(i) == IF item[i].ticket # NoTicket THEN late \union {i} ELSE late

SetQty(r) ==
    LET i == press[r].line  n == press[r].qty IN
    /\ press[r].step = "set" /\ IsOpen(Mine(r)) /\ item[i].live /\ n <= MaxUnits
    /\ item' = [item EXCEPT ![i] = IF n <= 0 THEN [@ EXCEPT !.live = FALSE] ELSE [@ EXCEPT !.qty = n]]
    /\ intended' = [intended EXCEPT ![i] = @ + press[r].by]
    /\ late' = Changed(i)
    /\ press' = [press EXCEPT ![r] = [step |-> "done", at |-> @.at, mine |-> @.mine,
                   written |-> @.written]]
    /\ UNCHANGED <<till, pressed, cart, crossed, left>>

EditNote(r, i, n) ==
    /\ press[r].step = "begun" /\ IsOpen(Mine(r)) /\ i \in Active(Mine(r))
    /\ item' = [item EXCEPT ![i].note = n]
    /\ late' = Changed(i)
    /\ Goes(r, "done")
    /\ UNCHANGED <<till, pressed, cart, intended, crossed, left>>

(* A line is voided whatever has become of the order; a combo is not.      *)
RemoveItem(r, i) ==
    /\ press[r].step = "begun" /\ i \in LinesOf(Mine(r))
    /\ item' = [item EXCEPT ![i].live = FALSE]
    /\ Goes(r, "done")
    /\ UNCHANGED <<till, pressed, cart, intended, late, crossed, left>>

RemoveCombo(r) ==
    LET shares == {i \in Active(Mine(r)) : item[i].combo} IN
    /\ press[r].step = "begun" /\ IsOpen(Mine(r)) /\ shares # {}
    /\ item' = [i \in CartItems |-> IF i \in shares THEN [item[i] EXCEPT !.live = FALSE] ELSE item[i]]
    /\ Goes(r, "done")
    /\ UNCHANGED <<till, pressed, cart, intended, late, crossed, left>>

(* Every void is tried; the pointer goes whether or not it succeeded.      *)
ClearCart(r) ==
    /\ press[r].step = "begun" /\ Mine(r) # NoCart
    /\ cart' = [cart EXCEPT ![Mine(r)].state = IF @ = "settled" THEN @ ELSE "void"]
    /\ Points(r, NoCart, "done")
    /\ UNCHANGED <<till, pressed, item, intended, late, crossed, left>>

(* The lines that have no ticket (or, in a form of the code, those that are   *)
(* no part of a combo), and their tickets.                                 *)
PendingProducts(o) == {i \in Active(o) : item[i].ticket = NoTicket /\ ~item[i].combo}
Pending(o) == {i \in Active(o) : item[i].ticket = NoTicket}

SendToKitchen(o) ==
    item' = [i \in CartItems |-> IF i \in Pending(o) THEN Sent(item[i]) ELSE item[i]]

(* The order is not looked at: only a line without a ticket matters.       *)
SaveOrder(r) ==
    /\ press[r].step = "begun" /\ Mine(r) # NoCart
    /\ SendToKitchen(Mine(r))
    /\ Points(r, NoCart, "done")
    /\ UNCHANGED <<till, pressed, cart, intended, late, crossed, left>>

\* Orders the checkout takes money for, and a form that only refuses void ones.
PayableUnlessVoid(o) == cart[o].state \in {"open", "settled"}
Payable(o) == cart[o].state = "open"

(* The checkout is one transaction; the request that finds the order       *)
(* settled has nothing to do, and one that fails shows the error and keeps *)
(* the pointer.  A second press has the same key while the first runs, or  *)
(* a new one after the screen was opened again: either may start.          *)
Pay(r) ==
    LET o == Mine(r) IN
    /\ press[r].step = "begun" /\ o # NoCart
    /\ \/ /\ Payable(o) /\ Active(o) # {}
          /\ cart' = [cart EXCEPT ![o].state = "settled", ![o].paid = @ + 1]
          /\ SendToKitchen(o)
          /\ Points(r, NoCart, "done")
       \/ /\ ~Payable(o) /\ cart[o].state = "settled"
          /\ Points(r, NoCart, "done")
          /\ UNCHANGED <<cart, item>>
       \/ /\ cart[o].state = "void" \/ Active(o) = {}
          /\ cart[o].state # "settled"
          /\ Goes(r, "done")
          /\ UNCHANGED <<cart, item>>
    /\ UNCHANGED <<till, pressed, intended, late, crossed, left>>

(* A table on the map: its open order, or a new one, takes the place of    *)
(* whatever is on the screen.                                              *)
SelectTable(r, o) ==
    /\ press[r].step = "begun" /\ o # Mine(r)
    /\ \/ o \in FreshCarts /\ OpenCart(o, TRUE)
       \/ IsOpen(o) /\ cart[o].table /\ UNCHANGED cart
    /\ Points(r, o, "done")
    /\ crossed' = crossed \union Shared(r, press[r].at, o)
    /\ left' = left \union ({Mine(r)} \ {NoCart})
    /\ UNCHANGED <<till, pressed, item, intended, late>>

(* The main screen drops an order that is not open any more.               *)
ShowScreen(r) ==
    /\ press[r].step = "begun" /\ Mine(r) # NoCart /\ ~IsOpen(Mine(r))
    /\ Points(r, NoCart, "done")
    /\ UNCHANGED <<till, pressed, cart, item, intended, late, crossed, left>>

End(r) ==
    /\ press[r].step = "done"
    /\ till' = IF press[r].written THEN [till EXCEPT ![press[r].at] = Mine(r)] ELSE till
    /\ press' = [press EXCEPT ![r] = Idle]
    /\ UNCHANGED <<pressed, cart, item, intended, late, crossed, left>>

(* An error 500: what was committed stays, the session is not written.     *)
Fail(r) ==
    /\ press[r].step \in {"cart", "set", "done"}
    /\ left' = IF press[r].written THEN left \union ({Mine(r)} \ {NoCart}) ELSE left
    /\ press' = [press EXCEPT ![r] = Idle]
    /\ UNCHANGED <<till, pressed, cart, item, intended, late, crossed>>

(* The API voids an order; a cashier logs out.                             *)
VoidElsewhere(o) ==
    /\ IsOpen(o)
    /\ cart' = [cart EXCEPT ![o].state = "void"]
    /\ left' = left \union {o}
    /\ UNCHANGED <<till, pressed, item, press, intended, late, crossed>>

LogOut(t) ==
    /\ till[t] # NoCart /\ {r \in Presses : press[r] # Idle /\ press[r].at = t} = {}
    /\ till' = [till EXCEPT ![t] = NoCart]
    /\ left' = left \union {till[t]}
    /\ UNCHANGED <<pressed, cart, item, press, intended, late, crossed>>

Next ==
    \/ \E r \in Presses :
         \/ \E t \in Tills : Begin(r, t)
         \/ FindCart(r)
         \/ \E p \in Products : TapProduct(r, p) \/ AddWithModifiers(r, p)
         \/ \E valid \in BOOLEAN : AddCombo(r, valid)
         \/ \E i \in CartItems, by \in {-1, 1} : PressLine(r, i, by)
         \/ SetQty(r)
         \/ \E i \in CartItems : EditNote(r, i, "extra") \/ RemoveItem(r, i)
         \/ RemoveCombo(r) \/ ClearCart(r) \/ SaveOrder(r) \/ Pay(r)
         \/ \E o \in Carts : SelectTable(r, o)
         \/ ShowScreen(r) \/ End(r) \/ Fail(r)
    \/ \E o \in Carts : VoidElsewhere(o)
    \/ \E t \in Tills : LogOut(t)

Spec == Init /\ [][Next]_counterVars

\* A cart that the kitchen does not know stays on a till's screen, unless two
\* requests had it at once or its till let it go (the session's pointer).
CartsAreReached ==
    \A o \in Carts :
        IsOpen(o) /\ Pending(o) # {} =>
            \/ \E t \in Tills : till[t] = o
            \/ \E r \in Presses : press[r] # Idle /\ Mine(r) = o
            \/ o \in crossed \union left

\* A line has as many units as its presses ask for, unless two requests had its
\* order at once (POSAddToCartView and POSUpdateItemView read before they lock).
PressesCount ==
    \A i \in CartItems : item[i].live => item[i].qty = intended[i] \/ item[i].cart \in crossed

\* Whatever overlaps, an order is paid once, and what was paid the kitchen has, in
\* the quantity and with the note paid for unless the line was changed after it
\* was sent: no second ticket follows (complete_checkout_transaction).
KitchenHasWhatIsPaid ==
    \A o \in Carts : cart[o].state = "settled" =>
        /\ cart[o].paid = 1
        /\ \A i \in Active(o) :
              /\ item[i].ticket # NoTicket
              /\ i \notin late => item[i].ticket.qty = item[i].qty /\ item[i].ticket.note = item[i].note

TillsKeepTrack == CartsAreReached /\ PressesCount /\ KitchenHasWhatIsPaid
=============================================================================
