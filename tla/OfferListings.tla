---------------------------- MODULE OfferListings ----------------------------
(***************************************************************************)
(* Which combo offers a till may apply: the discount dialog lists what an  *)
(* order is eligible for, and applying looks at none of it again.  One     *)
(* product at price 1 stands for the cart, so minimum value, minimum items *)
(* and required products or categories are one number.                     *)
(***************************************************************************)
EXTENDS Integers, FiniteSets

CONSTANTS
    Checks,      \* orders
    Deals,       \* [limit, value, people, units, minimum, days]
    Dialogs,     \* tills with the dialog open
    Days,        \* 1..n, all of one month
    UseRows,     \* rows of OrderCombo
    MaxLoose     \* bound: units of an order outside combos

VARIABLES
    check,       \* [open, loose], loose: active units in no combo
    active,      \* offers with status ACTIVE
    today,
    use,         \* [check, deal, day, fresh, owed], or NoUse
    dialog       \* what a till shows: [check, shown, fresh], or Closed

dealVars == <<check, active, today, use, dialog>>

NoUse == [deal |-> "none"]
Closed == [shown |-> {}]

Init ==
    /\ check = [c \in Checks |-> [open |-> TRUE, loose |-> 0]]
    /\ active = Deals
    /\ today = 1
    /\ use = [u \in UseRows |-> NoUse]
    /\ dialog = [t \in Dialogs |-> Closed]

Uses(f) == {u \in UseRows : use[u] # NoUse /\ use[u].deal = f}

(* is_currently_available.                                                 *)
Available(f) == f \in active /\ today \in f.days

(* Orders keep no customer, so an offer that asks for one finds none.      *)
ForAnyone(f) == f.people = "all"

(* The uses of this order only.                                            *)
UsesLeftHere(c, f) ==
    f.value > 0 => Cardinality({u \in Uses(f) : use[u].check = c}) < f.value

(* The overall limit reads a counter that no code increments.              *)
UsesLeft(c, f) ==
    f.value > 0 =>
        CASE f.limit = "once_per_order" -> {u \in Uses(f) : use[u].check = c} = {}
          [] f.limit = "daily" -> Cardinality({u \in Uses(f) : use[u].day = today}) < f.value
          [] f.limit = "monthly" -> Cardinality(Uses(f)) < f.value
          [] f.limit = "once_per_customer" -> FALSE
          [] OTHER -> TRUE

(* _match_combo: an offer without groups takes the whole cart.             *)
Matches(c, f) == check[c].loose >= f.units

Eligible(c, f) ==
    /\ Available(f) /\ ForAnyone(f)
    /\ check[c].loose >= f.minimum
    /\ UsesLeft(c, f) /\ Matches(c, f)

OpenDialog(t, c) ==
    /\ check[c].open
    /\ LET shown == {f \in Deals : Eligible(c, f)}
       IN  dialog' = [dialog EXCEPT ![t] = IF shown = {} THEN Closed
                        ELSE [check |-> c, shown |-> shown, fresh |-> shown]]
    /\ UNCHANGED <<check, active, today, use>>

(* What a dialog shows of these offers is no longer so.                    *)
Outdated(stale) ==
    [t \in Dialogs |-> IF dialog[t] = Closed THEN Closed
                       ELSE [dialog[t] EXCEPT !.fresh = @ \ stale[dialog[t].check]]]

(* The counts over all orders, and the cart of this one, have changed.     *)
AfterUse(c, f) ==
    Outdated([d \in Checks |-> IF d = c THEN Deals
                               ELSE IF f.limit \in {"daily", "monthly"} THEN {f} ELSE {}])

(* What the offer asks of a cart, at the time it is used.                  *)
AsOffered(c, f) == Available(f) /\ check[c].loose >= f.minimum

Record(c, f, taken, fresh) ==
    /\ check[c].open
    /\ \E u \in UseRows :
          /\ use[u] = NoUse /\ \A v \in UseRows : v < u => use[v] # NoUse
          /\ use' = [use EXCEPT ![u] = [check |-> c, deal |-> f, day |-> today,
                                        fresh |-> fresh, owed |-> ~fresh \/ AsOffered(c, f)]]
    /\ check' = [check EXCEPT ![c].loose = @ - taken]
    /\ dialog' = AfterUse(c, f)
    /\ UNCHANGED <<active, today>>

Taken(c, f) == IF f.units = 0 THEN check[c].loose ELSE f.units

(* The button sends the offer; the order is whichever the till's session   *)
(* holds by then.                                                          *)
Apply(t, f, c) ==
    /\ f \in dialog[t].shown /\ Matches(c, f)
    /\ Record(c, f, Taken(c, f), c = dialog[t].check /\ f \in dialog[t].fresh)

(* The API: what is in the cart, or new items chosen for the offer.        *)
ApplyUnlisted(c, f) ==
    \/ Matches(c, f) /\ Record(c, f, Taken(c, f), FALSE)
    \/ Record(c, f, 0, FALSE)

RemoveUse(u) ==
    /\ use[u] # NoUse /\ check[use[u].check].open
    /\ use' = [use EXCEPT ![u] = NoUse]
    /\ UNCHANGED <<check, active, today, dialog>>

AddUnit(c) ==
    /\ check[c].open /\ check[c].loose < MaxLoose
    /\ check' = [check EXCEPT ![c].loose = @ + 1]
    /\ UNCHANGED <<active, today, use, dialog>>

TakeUnit(c) ==
    /\ check[c].open /\ check[c].loose > 0
    /\ check' = [check EXCEPT ![c].loose = @ - 1]
    /\ dialog' = Outdated([d \in Checks |-> IF d = c THEN Deals ELSE {}])
    /\ UNCHANGED <<active, today, use>>

(* Settled or voided; its uses count for ever.                             *)
Close(c) ==
    /\ check[c].open
    /\ check' = [check EXCEPT ![c] = [open |-> FALSE, loose |-> 0]]
    /\ UNCHANGED <<active, today, use, dialog>>

EditDeal(f) ==
    /\ active' = IF f \in active THEN active \ {f} ELSE active \union {f}
    /\ dialog' = Outdated([d \in Checks |-> {f}])
    /\ UNCHANGED <<check, today, use>>

NextDay ==
    /\ today + 1 \in Days
    /\ today' = today + 1
    /\ dialog' = Outdated([d \in Checks |-> Deals])
    /\ UNCHANGED <<check, active, use>>

Next ==
    \/ \E t \in Dialogs, c \in Checks :
          OpenDialog(t, c) \/ \E f \in dialog[t].shown : Apply(t, f, c)
    \/ \E c \in Checks :
          \/ AddUnit(c) \/ TakeUnit(c) \/ Close(c)
          \/ \E f \in Deals : ApplyUnlisted(c, f)
    \/ \E u \in UseRows : RemoveUse(u)
    \/ \E f \in Deals : EditDeal(f)
    \/ NextDay

Spec == Init /\ [][Next]_dealVars

(* An offer with a limit is used at most as often as it says, on its days, by *)
(* carts worth its minimum, as long as every use was a press on a listing  *)
(* that no other use, edit, midnight or change of the cart had overtaken.  *)
UsesAreAllowed ==
    \A f \in Deals : LET all == Uses(f) IN
        /\ f.value > 0 /\ (\A u \in all : use[u].fresh) =>
              CASE f.limit = "once_per_order" ->
                      \A u, v \in all : use[u].check = use[v].check => u = v
                [] f.limit = "daily" ->
                      \A d \in Days : Cardinality({u \in all : use[u].day = d}) <= f.value
                [] f.limit = "monthly" -> Cardinality(all) <= f.value
                [] OTHER -> TRUE
        /\ \A u \in all : use[u].owed
=============================================================================
