-------------------------------- MODULE Tables --------------------------------
(***************************************************************************)
(* The dining room: tables with their status and merge group, the orders   *)
(* opened at them, and everyone who writes either.  The table services     *)
(* lock the row; the point of sale, the order API and the forms read       *)
(* first, without a lock, and write later, one statement at a time.        *)
(***************************************************************************)
EXTENDS Integers, FiniteSets

CONSTANTS
    Tables,
    NoTable,
    TableOrders,     \* orders that can be opened
    TableRequests,   \* requests under way at the same time
    FormStatuses     \* statuses a form or a PATCH sends

VARIABLES
    table,           \* rows of DiningTable
    seat,            \* rows of Order: whether open, and table_id
    visit,           \* what each request has read and has yet to do
    edited           \* tables a form was saved over

tableVars == <<table, seat, visit, edited>>

Idle == [does |-> "nothing"]

Init ==
    /\ table = [t \in Tables |-> [status |-> "vacant", group |-> NoTable, live |-> TRUE]]
    /\ seat = [o \in TableOrders |-> [state |-> "none", table |-> NoTable]]
    /\ visit = [r \in TableRequests |-> Idle]
    /\ edited = {}

LiveTables == {t \in Tables : table[t].live}
OpenAt(t) == {o \in TableOrders : seat[o].state = "open" /\ seat[o].table = t}
Fresh(o) == seat[o].state = "none"

WithStatus(t, status) == [table EXCEPT ![t].status = status]
OpenedAt(o, t) == [seat EXCEPT ![o] = [state |-> "open", table |-> t]]

(* The services, each one transaction under the row's lock.                *)
CanSeat(t) == table[t].live /\ table[t].status \in {"vacant", "reserved"}
Seated(t) == IF CanSeat(t) THEN WithStatus(t, "occupied") ELSE table
Released(t) == IF t # NoTable /\ table[t].live THEN WithStatus(t, "vacant") ELSE table

SeatGuests(t) ==
    /\ CanSeat(t)
    /\ table' = Seated(t)
    /\ UNCHANGED <<seat, visit, edited>>

ReserveTable(t) ==
    /\ table[t].live /\ table[t].status = "vacant"
    /\ table' = WithStatus(t, "reserved")
    /\ UNCHANGED <<seat, visit, edited>>

ReleaseTable(t) ==
    /\ table[t].live
    /\ table' = Released(t)
    /\ UNCHANGED <<seat, visit, edited>>

BlockTable(t) ==
    /\ table[t].live
    /\ table' = WithStatus(t, "blocked")
    /\ UNCHANGED <<seat, visit, edited>>

Merged(p, secondaries) ==
    [t \in Tables |->
        IF t \in (secondaries \intersect LiveTables) \ {p}
        THEN [table[t] EXCEPT !.group = p, !.status = "merged"]
        ELSE table[t]]

MergeTables(p, secondaries) ==
    /\ table[p].live /\ table[p].status # "merged"
    /\ \A t \in (secondaries \intersect LiveTables) \ {p} : table[t].status # "occupied"
    /\ table' = Merged(p, secondaries)
    /\ UNCHANGED <<seat, visit, edited>>

(* Splitting that only takes the tables out of the group.                  *)
SplitKeepsStatus(p) ==
    [t \in Tables |->
        IF table[t].live /\ table[t].group = p THEN [table[t] EXCEPT !.group = NoTable]
        ELSE table[t]]

Split(p) ==
    [t \in Tables |->
        IF table[t].live /\ table[t].group = p
        THEN [table[t] EXCEPT !.group = NoTable, !.status = "vacant"]
        ELSE table[t]]

SplitTables(p) ==
    /\ table[p].live
    /\ table' = Split(p)
    /\ UNCHANGED <<seat, visit, edited>>

(* The point of sale: a waiter taps a table.                               *)
Finish(r) == visit' = [visit EXCEPT ![r] = Idle]

TapTable(r, t) ==
    /\ visit[r] = Idle /\ table[t].live
    /\ table[t].status \in {"vacant", "occupied"}
    /\ visit' = [visit EXCEPT ![r] = [does |-> "tap", at |-> t, seen |-> table[t].status]]
    /\ UNCHANGED <<table, seat, edited>>

OpenOrder(r, o) ==
    /\ visit[r].does = "tap" /\ visit[r].seen = "vacant" /\ Fresh(o)
    /\ seat' = OpenedAt(o, visit[r].at)
    /\ visit' = [visit EXCEPT ![r] = [does |-> "save", at |-> visit[r].at, status |-> "occupied"]]
    /\ UNCHANGED <<table, edited>>

ShowOrder(r) ==
    /\ visit[r].does = "tap" /\ visit[r].seen = "occupied"
    /\ IF OpenAt(visit[r].at) # {}
       THEN Finish(r)
       ELSE visit' = [visit EXCEPT ![r] = [does |-> "save", at |-> visit[r].at, status |-> "vacant"]]
    /\ UNCHANGED <<table, seat, edited>>

SaveStatus(r) ==
    /\ visit[r].does = "save"
    /\ table' = WithStatus(visit[r].at, visit[r].status)
    /\ Finish(r)
    /\ UNCHANGED <<seat, edited>>

(* Transfer of an order to another table, from the board.                  *)
AskTransfer(r, s, d) ==
    /\ visit[r] = Idle
    /\ table[s].live /\ table[s].status = "occupied"
    /\ visit' = [visit EXCEPT ![r] = [does |-> "transfer", from |-> s, to |-> d]]
    /\ UNCHANGED <<table, seat, edited>>

FindOrder(r) ==
    /\ visit[r].does = "transfer"
    /\ LET s == visit[r].from  d == visit[r].to IN
       IF table[d].live /\ table[d].status = "vacant" /\ OpenAt(s) # {}
       THEN \E o \in OpenAt(s) :
              visit' = [visit EXCEPT ![r] =
                          [does |-> "carry", order |-> o, from |-> s, to |-> d]]
       ELSE Finish(r)
    /\ UNCHANGED <<table, seat, edited>>

CarryOrder(r) ==
    /\ visit[r].does = "carry"
    /\ seat' = [seat EXCEPT ![visit[r].order].table = visit[r].to]
    /\ visit' = [visit EXCEPT ![r] =
                   [does |-> "vacate", from |-> visit[r].from, to |-> visit[r].to]]
    /\ UNCHANGED <<table, edited>>

VacateSource(r) ==
    /\ visit[r].does = "vacate"
    /\ table' = WithStatus(visit[r].from, "vacant")
    /\ visit' = [visit EXCEPT ![r] = [does |-> "save", at |-> visit[r].to, status |-> "occupied"]]
    /\ UNCHANGED <<seat, edited>>

(* Settling at the counter frees the table after the commit; voiding an    *)
(* order frees nothing.                                                    *)
Checkout(r, o) ==
    /\ visit[r] = Idle /\ seat[o].state = "open"
    /\ seat' = [seat EXCEPT ![o].state = "closed"]
    /\ IF seat[o].table = NoTable
       THEN UNCHANGED visit
       ELSE visit' = [visit EXCEPT ![r] =
                        [does |-> "save", at |-> seat[o].table, status |-> "vacant"]]
    /\ UNCHANGED <<table, edited>>

VoidOrder(o) ==
    /\ seat[o].state = "open"
    /\ seat' = [seat EXCEPT ![o].state = "closed"]
    /\ UNCHANGED <<table, visit, edited>>

(* The order API: the order is written first, the table service follows in *)
(* its own transaction and its refusal is ignored.                         *)
CreateAt(r, o, t) ==
    /\ visit[r] = Idle /\ Fresh(o)
    /\ seat' = OpenedAt(o, t)
    /\ visit' = [visit EXCEPT ![r] = [does |-> "seat", at |-> t]]
    /\ UNCHANGED <<table, edited>>

AssignTable(r, o, t) ==
    /\ visit[r] = Idle /\ ~Fresh(o) /\ table[t].live
    /\ seat' = [seat EXCEPT ![o].table = t]
    /\ visit' = [visit EXCEPT ![r] = [does |-> "seat", at |-> t]]
    /\ UNCHANGED <<table, edited>>

TrySeat(r) ==
    /\ visit[r].does = "seat"
    /\ table' = Seated(visit[r].at)
    /\ Finish(r)
    /\ UNCHANGED <<seat, edited>>

ReadOrder(r, o, does) ==
    /\ visit[r] = Idle /\ seat[o].table # NoTable
    /\ visit' = [visit EXCEPT ![r] = [does |-> does, order |-> o, old |-> seat[o].table]]
    /\ UNCHANGED <<table, seat, edited>>

LeaveTable(r) ==
    /\ visit[r].does = "leave"
    /\ seat' = [seat EXCEPT ![visit[r].order].table = NoTable]
    /\ visit' = [visit EXCEPT ![r] = [does |-> "release", at |-> visit[r].old]]
    /\ UNCHANGED <<table, edited>>

TryRelease(r) ==
    /\ visit[r].does = "release"
    /\ table' = Released(visit[r].at)
    /\ Finish(r)
    /\ UNCHANGED <<seat, edited>>

MoveOrder(r, t) ==
    /\ visit[r].does = "move" /\ table[t].live
    /\ seat' = [seat EXCEPT ![visit[r].order].table = t]
    /\ LET freed == Released(visit[r].old) IN
       table' = IF freed[t].status \in {"vacant", "reserved"}
                THEN [freed EXCEPT ![t].status = "occupied"]
                ELSE freed
    /\ Finish(r)
    /\ UNCHANGED edited

(* The table API: orders and occupancy move together or not at all.        *)
AskMove(r, s, d) ==
    /\ visit[r] = Idle /\ s # d
    /\ table[s].live /\ table[d].live /\ table[d].status = "vacant"
    /\ visit' = [visit EXCEPT ![r] =
                   [does |-> "occupancy", from |-> s, to |-> d, seen |-> table[s].status]]
    /\ UNCHANGED <<table, seat, edited>>

MoveTable(r) ==
    /\ visit[r].does = "occupancy"
    /\ LET s == visit[r].from
           d == visit[r].to
           carried == [o \in TableOrders |->
                         IF o \in OpenAt(s) THEN [seat[o] EXCEPT !.table = d] ELSE seat[o]]
       IN \/ /\ visit[r].seen \notin {"occupied", "reserved"}
             /\ seat' = carried
             /\ UNCHANGED table
          \/ /\ visit[r].seen \in {"occupied", "reserved"}
             /\ IF table[s].live /\ CanSeat(d)
                THEN /\ seat' = carried
                     /\ table' = [table EXCEPT ![s].status = "vacant", ![d].status = "occupied"]
                ELSE UNCHANGED <<seat, table>>
    /\ Finish(r)
    /\ UNCHANGED edited

(* Forms and the REST resource read the whole row and save the whole row;  *)
(* deleting is saving it with its deletion mark.                           *)
ReadForm(r, t) ==
    /\ visit[r] = Idle /\ table[t].live
    /\ visit' = [visit EXCEPT ![r] = [does |-> "form", at |-> t, row |-> table[t]]]
    /\ UNCHANGED <<table, seat, edited>>

SaveForm(r) ==
    /\ visit[r].does = "form"
    /\ LET row == visit[r].row IN
       \/ \E status \in FormStatuses \union {row.status}, group \in Tables \union {row.group} :
             table' = [table EXCEPT ![visit[r].at] =
                         [row EXCEPT !.status = status, !.group = group]]
       \/ table' = [table EXCEPT ![visit[r].at] = [row EXCEPT !.live = FALSE]]
    /\ edited' = edited \union {visit[r].at}
    /\ Finish(r)
    /\ UNCHANGED seat

Next ==
    \/ \E t \in Tables : SeatGuests(t) \/ ReserveTable(t) \/ ReleaseTable(t) \/ BlockTable(t) \/ SplitTables(t)
    \/ \E p \in Tables, ss \in SUBSET Tables : ss # {} /\ MergeTables(p, ss)
    \/ \E o \in TableOrders : VoidOrder(o)
    \/ \E r \in TableRequests :
          \/ ShowOrder(r) \/ SaveStatus(r) \/ FindOrder(r) \/ CarryOrder(r) \/ VacateSource(r)
          \/ TrySeat(r) \/ LeaveTable(r) \/ TryRelease(r) \/ MoveTable(r) \/ SaveForm(r)
          \/ \E t \in Tables : TapTable(r, t) \/ MoveOrder(r, t) \/ ReadForm(r, t)
          \/ \E s, d \in Tables : AskTransfer(r, s, d) \/ AskMove(r, s, d)
          \/ \E o \in TableOrders :
                \/ OpenOrder(r, o) \/ Checkout(r, o)
                \/ \E does \in {"leave", "move"} : ReadOrder(r, o, does)
                \/ \E t \in Tables : CreateAt(r, o, t) \/ AssignTable(r, o, t)

Spec == Init /\ [][Next]_tableVars

(* A table shown as merged has the primary table by which split_tables     *)
(* finds and frees it, whatever the unlocked writers of the point of sale  *)
(* and the order API do in between; only a form can undo that.             *)
MergedCanBeSplit ==
    \A t \in Tables \ edited : table[t].status = "merged" => table[t].group # NoTable
=============================================================================
