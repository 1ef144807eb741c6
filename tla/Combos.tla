-------------------------------- MODULE Combos --------------------------------
(***************************************************************************)
(* Combo offers on one open order: sold as a set of chosen products, or    *)
(* recognised afterwards among the lines already in the cart.  Each call   *)
(* holds the order's row lock from its first read to its commit.  Money is *)
(* in cents; modifiers are left out.                                       *)
(***************************************************************************)
EXTENDS Integers, FiniteSets, Sequences, Sums

CONSTANTS
    Products,
    UnitPrice,     \* of each product
    Offers,        \* [type, value, groups], a group [of |-> products, min |-> n]
    Selections,    \* what a client picks for a combo: sequences of <<product, qty>>
    CartLines,     \* rows of OrderItem, by number; a voided one is free again
    CartCombos,    \* rows of OrderCombo
    Quantities,
    NoCombo

VARIABLES
    cartLine,      \* [product, qty, disc, combo], or NoLine
    cartCombo,     \* the combos of the order, or NoOffer
    edited         \* combos one of whose lines was changed or voided by itself

cartVars == <<cartLine, cartCombo, edited>>

NoLine == [live |-> FALSE]
NoOffer == [type |-> "none"]

Init ==
    /\ cartLine = [i \in CartLines |-> NoLine]
    /\ cartCombo = [c \in CartCombos |-> NoOffer]
    /\ edited = {}

(* n/d in whole cents, a half away from zero.                              *)
HalfUp(n, d) ==
    IF n >= 0 THEN (2 * n + d) \div (2 * d) ELSE 0 - ((d - 2 * n) \div (2 * d))
AtLeastZero(n) == IF n > 0 THEN n ELSE 0
Smaller(m, n) == IF m < n THEN m ELSE n

Live == {i \in CartLines : cartLine[i].live}
NewLine(p, n, d, c) == [live |-> TRUE, product |-> p, qty |-> n, disc |-> d, combo |-> c]

(* A row for each of K, where there are as many.                           *)
Free == {i \in CartLines : cartLine[i] = NoLine}
Room(K) == Cardinality(Free) >= Cardinality(K)
NewRows(K) == CHOOSE at \in [K -> Free] : \A j, k \in K : at[j] = at[k] => j = k

AddItem(p, n) ==
    /\ Room({p})
    /\ cartLine' = [cartLine EXCEPT ![NewRows({p})[p]] = NewLine(p, n, 0, NoCombo)]
    /\ UNCHANGED <<cartCombo, edited>>

(* The line's discount stays what it was for the old quantity.             *)
SetItemQty(i, n) ==
    /\ i \in Live
    /\ cartLine' = [cartLine EXCEPT ![i] = IF n = 0 THEN NoLine
                                           ELSE [@ EXCEPT !.qty = n]]
    /\ edited' = edited \union ({cartLine[i].combo} \ {NoCombo})
    /\ UNCHANGED cartCombo

(* What add_combo takes for items worth v, and so takes off.               *)
Target(offer, v) ==
    CASE offer.type = "fixed_price" -> offer.value
      [] offer.type = "percentage" -> HalfUp(v * (100 - offer.value), 100)
      [] offer.type = "flat_discount" -> AtLeastZero(v - offer.value)
SoldSavings(offer, v) == AtLeastZero(v - Target(offer, v))

(* Every share rounded by itself, the last one too.                        *)
RoundedShares(worth, v, off) ==
    [j \in DOMAIN worth |-> IF v = 0 THEN 0 ELSE HalfUp(off * worth[j], v)]

(* Shares in proportion, the last one what is left over.                   *)
SoldShares(worth, v, off) ==
    LET rounded == RoundedShares(worth, v, off) IN
    [j \in DOMAIN worth |->
        IF v > 0 /\ j = Len(worth) THEN off - SumIn(rounded, 1..(j - 1)) ELSE rounded[j]]

AddCombo(c, offer, sel) ==
    /\ cartCombo[c] = NoOffer /\ Room(DOMAIN sel)
    /\ LET worth == [j \in DOMAIN sel |-> sel[j][2] * UnitPrice[sel[j][1]]]
           v == SumOver(worth)
           off == SoldSavings(offer, v)
           share == SoldShares(worth, v, off)
           at == NewRows(DOMAIN sel)
       IN  /\ cartLine' = [i \in CartLines |->
                 IF \E j \in DOMAIN sel : at[j] = i
                 THEN LET j == CHOOSE k \in DOMAIN sel : at[k] = i
                      IN  NewLine(sel[j][1], sel[j][2], share[j], c)
                 ELSE cartLine[i]]
           /\ cartCombo' = [cartCombo EXCEPT ![c] =
                              [type |-> offer.type, by |-> "sale", savings |-> off, worth |-> v]]
    /\ UNCHANGED edited

(* The loops of _match_combo: group after group, line after line in the    *)
(* order the query returned them; once over the lines for a whole cart.    *)
Walk(offer, lines) ==
    IF offer.groups = <<>> THEN [k \in DOMAIN lines |-> [group |-> 1, line |-> lines[k]]]
    ELSE [k \in 1..(Len(offer.groups) * Len(lines)) |->
            [group |-> 1 + ((k - 1) \div Len(lines)), line |-> lines[1 + ((k - 1) % Len(lines))]]]

TakenFor(took, walk, g) == SumIn(took, {k \in DOMAIN walk : walk[k].group = g})
TakenFrom(took, walk, i) == SumIn(took, {k \in DOMAIN walk : walk[k].line = i})

(* As much as is left of the line and as the group still needs.            *)
Takes(offer, walk, took, k) ==
    LET group == offer.groups[walk[k].group]
        i == walk[k].line
    IN  IF cartLine[i].product \in group.of
        THEN Smaller(cartLine[i].qty - TakenFrom(took, walk, i),
                     group.min - TakenFor(took, walk, walk[k].group))
        ELSE 0

Matched(offer, walk) ==
    LET after[n \in 0..Len(walk)] ==
          IF n = 0 THEN [k \in DOMAIN walk |-> 0]
          ELSE LET took == after[n - 1] IN [took EXCEPT ![n] = Takes(offer, walk, took, n)]
    IN  after[Len(walk)]

Whole(walk) == [k \in DOMAIN walk |-> cartLine[walk[k].line].qty]

Satisfied(offer, took, walk) ==
    \A g \in DOMAIN offer.groups : TakenFor(took, walk, g) = offer.groups[g].min

(* The savings of what was matched, worth v, in hundredths of a cent: they *)
(* are shared before they are rounded.                                     *)
Savings(offer, v) ==
    AtLeastZero(CASE offer.type = "fixed_price" -> 100 * (v - offer.value)
                  [] offer.type = "percentage" -> v * offer.value
                  [] offer.type = "flat_discount" -> 100 * offer.value)

(* A line matched whole joins the combo; of one matched in part the        *)
(* matched units go to a copy.  Who takes the last unit finds it whole.    *)
Place(took, walk, at, k) ==
    LET i == walk[k].line IN
    IF SumIn(took, {m \in 1..k : walk[m].line = i}) = cartLine[i].qty THEN i ELSE at[k]

(* A copy beside a line that keeps all its units.                          *)
KeptAll(took, walk, i) == cartLine[i].qty
Kept(took, walk, i) == cartLine[i].qty - TakenFrom(took, walk, i)

Assigned(c, took, walk, worth, v, saved) ==
    LET refs == {k \in DOMAIN walk : took[k] > 0}
        at == NewRows(refs)
        place == [k \in refs |-> Place(took, walk, at, k)]
    IN  [i \in CartLines |->
           IF \E k \in refs : place[k] = i
           THEN LET k == CHOOSE m \in refs : place[m] = i
                    l == cartLine[walk[k].line]
                IN  NewLine(l.product, took[k],
                            IF v = 0 THEN l.disc ELSE HalfUp(saved * worth[k], 100 * v), c)
           ELSE IF i \in Live THEN [cartLine[i] EXCEPT !.qty = Kept(took, walk, i)]
           ELSE NoLine]

Assignable == {i \in Live : cartLine[i].combo = NoCombo}

(* The query names no order of the lines.                                  *)
QueryOrders(S) == {s \in [1..Cardinality(S) -> S] : \A j, k \in DOMAIN s : s[j] = s[k] => j = k}

ApplyRetrospectiveCombo(c, offer, lines) ==
    /\ cartCombo[c] = NoOffer
    /\ LET walk == Walk(offer, lines)
           took == IF offer.groups = <<>> THEN Whole(walk) ELSE Matched(offer, walk)
           worth == [k \in DOMAIN walk |-> took[k] * UnitPrice[cartLine[walk[k].line].product]]
           v == SumOver(worth)
           saved == Savings(offer, v)
       IN  /\ Satisfied(offer, took, walk)
           /\ Room({k \in DOMAIN walk : took[k] > 0})
           /\ cartLine' = Assigned(c, took, walk, worth, v, saved)
           /\ cartCombo' = [cartCombo EXCEPT ![c] =
                 [type |-> offer.type, by |-> "match", savings |-> HalfUp(saved, 100), worth |-> v]]
    /\ UNCHANGED edited

(* Its lines are voided and the row is deleted.                            *)
RemoveCombo(c) ==
    /\ cartCombo[c] # NoOffer
    /\ cartLine' = [i \in CartLines |->
                      IF i \in Live /\ cartLine[i].combo = c THEN NoLine ELSE cartLine[i]]
    /\ cartCombo' = [cartCombo EXCEPT ![c] = NoOffer]
    /\ edited' = edited \ {c}

Next ==
    \/ \E p \in Products, n \in Quantities : AddItem(p, n)
    \/ \E i \in CartLines, n \in {0} \union Quantities : SetItemQty(i, n)
    \/ \E c \in CartCombos, offer \in Offers :
          \/ \E sel \in Selections : AddCombo(c, offer, sel)
          \/ \E lines \in QueryOrders(Assignable) : ApplyRetrospectiveCombo(c, offer, lines)
    \/ \E c \in CartCombos : RemoveCombo(c)

Spec == Init /\ [][Next]_cartVars

LinesOf(c) == {i \in Live : cartLine[i].combo = c}
Given(c) == SumOver([i \in LinesOf(c) |-> cartLine[i].disc])
Units(p) == SumOver([i \in {j \in Live : cartLine[j].product = p} |-> cartLine[i].qty])

(* What the bill takes off for a combo is the savings the combo shows: to  *)
(* the cent for one that was sold, and for one that was recognised to half *)
(* a cent for each line and for the savings themselves, each of which is   *)
(* rounded; nobody pays twice for, or loses, the remainder.                *)
SharesMakeTheSavings ==
    \A c \in CartCombos \ edited :
        cartCombo[c] # NoOffer =>
            LET gap == Given(c) - cartCombo[c].savings
                roundings == Cardinality(LinesOf(c)) + 1
            IN  IF cartCombo[c].by = "sale" THEN gap = 0
                ELSE cartCombo[c].worth > 0 => 2 * gap \in (0 - roundings)..roundings

(* At every step what is taken off for a combo is its savings, and         *)
(* recognising one splits lines and loses nothing: the cart has the same   *)
(* units of every product as before.                                       *)
CombosKeepTheCart ==
    [][/\ SharesMakeTheSavings'
       /\ \A c \in CartCombos :
             cartCombo[c] = NoOffer /\ cartCombo'[c] # NoOffer /\ cartCombo'[c].by = "match"
                => \A p \in Products : Units(p)' = Units(p)]_cartVars
=============================================================================
