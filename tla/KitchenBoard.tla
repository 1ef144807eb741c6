----------------------------- MODULE KitchenBoard -----------------------------
(***************************************************************************)
(* The kitchen's display: tickets that several cooks press at once, and    *)
(* the API that moves the tickets of an order, or any ticket.  A press     *)
(* reads the row, computes the next state from what it read, and writes    *)
(* that one column.                                                        *)
(***************************************************************************)
EXTENDS Integers, FiniteSets

CONSTANTS
    Cooks,        \* presses under way at the same time
    TicketRows,   \* rows of KOT
    OrderOfRow,   \* the order of each
    MaxTurns      \* bound on the presses for each ticket

VARIABLES
    open,         \* orders that are open
    ticket,       \* status of each KOT
    cooked,       \* is_completed of its item
    tap,          \* what each cook's request has read
    turns,        \* presses on the item
    crossing      \* tickets whose item two requests toggled at once

boardVars == <<open, ticket, cooked, tap, turns, crossing>>

NoTap == [does |-> "nothing"]

Init ==
    /\ open = {OrderOfRow[k] : k \in TicketRows}
    /\ ticket = [k \in TicketRows |-> "none"]
    /\ cooked = [k \in TicketRows |-> FALSE]
    /\ tap = [c \in Cooks |-> NoTap]
    /\ turns = [k \in TicketRows |-> 0]
    /\ crossing = {}

Rank == [none |-> 0, new |-> 1, preparing |-> 2, ready |-> 3, served |-> 4, cancelled |-> 5]

(* What the screen shows; a press may come from a screen that is out of date. *)
Board == {k \in TicketRows : ticket[k] \in {"new", "preparing", "ready"}}

SendTicket(k) ==
    /\ ticket[k] = "none"
    /\ ticket' = [ticket EXCEPT ![k] = "new"]
    /\ UNCHANGED <<open, cooked, tap, turns, crossing>>

(* Voiding or settling an order leaves its tickets as they are.            *)
CloseOrder(o) ==
    /\ o \in open
    /\ open' = open \ {o}
    /\ UNCHANGED <<ticket, cooked, tap, turns, crossing>>

PressStatus(c, k, to) ==
    /\ tap[c] = NoTap /\ ticket[k] # "none"
    /\ tap' = [tap EXCEPT ![c] = [does |-> "status", ticket |-> k, seen |-> ticket[k], to |-> to]]
    /\ UNCHANGED <<open, ticket, cooked, turns, crossing>>

\* The status after a press, and after one that does not mind where the ticket is.
MovedAnyway(seen, to) == to
Moved(seen, to) ==
    IF \/ to = "preparing" /\ seen = "new"
       \/ to = "ready" /\ seen = "preparing"
    THEN to ELSE seen

WriteStatus(c) ==
    /\ tap[c].does = "status"
    /\ ticket' = [ticket EXCEPT ![tap[c].ticket] = Moved(tap[c].seen, tap[c].to)]
    /\ tap' = [tap EXCEPT ![c] = NoTap]
    /\ UNCHANGED <<open, cooked, turns, crossing>>

Toggling(k) == {c \in Cooks : tap[c].does = "toggle" /\ tap[c].ticket = k}

PressItem(c, k) ==
    /\ tap[c] = NoTap /\ ticket[k] # "none" /\ turns[k] < MaxTurns
    /\ tap' = [tap EXCEPT ![c] = [does |-> "toggle", ticket |-> k, seen |-> cooked[k]]]
    /\ crossing' = IF Toggling(k) = {} THEN crossing ELSE crossing \union {k}
    /\ turns' = [turns EXCEPT ![k] = @ + 1]
    /\ UNCHANGED <<open, ticket, cooked>>

WriteItem(c) ==
    /\ tap[c].does = "toggle"
    /\ cooked' = [cooked EXCEPT ![tap[c].ticket] = ~tap[c].seen]
    /\ tap' = [tap EXCEPT ![c] = NoTap]
    /\ UNCHANGED <<open, ticket, turns, crossing>>

(* The order's status: only forward, and only while it is open.            *)
MoveOrder(o, s) ==
    /\ o \in open
    /\ ticket' = [k \in TicketRows |->
                    IF OrderOfRow[k] = o /\ k \in Board /\ Rank[ticket[k]] < Rank[s]
                    THEN s ELSE ticket[k]]
    /\ UNCHANGED <<open, cooked, tap, turns, crossing>>

(* The ticket's own status: any.                                           *)
PatchTicket(k, s) ==
    /\ ticket[k] # "none"
    /\ ticket' = [ticket EXCEPT ![k] = s]
    /\ UNCHANGED <<open, cooked, tap, turns, crossing>>

Next ==
    \/ \E k \in TicketRows :
         \/ SendTicket(k)
         \/ \E s \in DOMAIN Rank \ {"none"} : PatchTicket(k, s)
    \/ \E o \in open : CloseOrder(o) \/ \E s \in {"preparing", "ready", "served"} : MoveOrder(o, s)
    \/ \E c \in Cooks :
         \/ \E k \in TicketRows :
              \/ \E to \in {"preparing", "ready"} : PressStatus(c, k, to)
              \/ PressItem(c, k)
         \/ WriteStatus(c) \/ WriteItem(c)

Spec == Init /\ [][Next]_boardVars

\* A ticket goes back only by a press that another step overtook, or by the
\* ticket's own API, and one that has gone from the board returns no other way
\* (KDSUpdateStatusView.post, OrderViewSet.status, KOTViewSet.status).
TicketsMoveOn ==
    [][\A k \in TicketRows : Rank[ticket'[k]] < Rank[ticket[k]] =>
         \/ \E c \in Cooks : tap[c].does = "status" /\ tap[c].ticket = k /\ tap[c].seen # ticket[k]
         \/ \E s \in DOMAIN Rank \ {"none"} : PatchTicket(k, s)]_boardVars

\* An item is marked done after an odd number of presses, unless two presses read
\* it at once (KDSBumpItemView.post).
MarksFollowPresses ==
    [](\A k \in TicketRows \ crossing :
         Toggling(k) = {} => (cooked[k] <=> turns[k] % 2 = 1))

CooksAgree == TicketsMoveOn /\ MarksFollowPresses
=============================================================================
