------------------------- MODULE FrontOfHouse_proofs -------------------------
(***************************************************************************)
(* Proofs about the dining room, the listing of offers, the tills, the     *)
(* kitchen's display and the combos of a cart, the parts of MCPremises a   *)
(* guest's order meets: for any tables, dialogs, sessions, requests and    *)
(* presses at the same time, and for any offers, prices and lines.         *)
(***************************************************************************)
EXTENDS Premises_proofs

-----------------------------------------------------------------------------
(* Tables *)

LEMMA DiningSteps == PremisesSpec => Dining!Init /\ [][Dining!Next]_diningVars
<1>1. PremisesInit => Dining!Init
    BY DEF PremisesInit
<1>2. [PremisesNext]_premisesVars => [Dining!Next]_diningVars
    BY DEF PremisesNext, premisesVars, diningVars
<1>3. PremisesSpec => PremisesInit /\ [][PremisesNext]_premisesVars
    BY PTL DEF PremisesSpec, premisesVars
<1>4. QED
    BY <1>1, <1>2, <1>3, PTL

IsTableRow(x) == x = [status |-> x.status, group |-> x.group, live |-> x.live]

\* Whoever writes a status without a lock writes one of these two, and a form writes a
\* row that it read.
DiningInv ==
    /\ DOMAIN table = Tables /\ DOMAIN visit = TableRequests
    /\ \A t \in Tables : IsTableRow(table[t])
    /\ \A r \in TableRequests :
         /\ visit[r].does = "save" => visit[r].status \in {"vacant", "occupied"}
         /\ visit[r].does = "form" => IsTableRow(visit[r].row) /\ visit[r].at \in Tables
    /\ Dining!MergedCanBeSplit

\* A row with another group and status.
LEMMA TableRowStored ==
    ASSUME NEW x, IsTableRow(x), NEW g, NEW s
    PROVE  /\ IsTableRow([x EXCEPT !.group = g, !.status = s])
           /\ [x EXCEPT !.group = g, !.status = s].group = g
           /\ [x EXCEPT !.group = g, !.status = s].status = s
<1>1. PICK y : y = [x EXCEPT !.group = g, !.status = s]
    OBVIOUS
<1>2. y = [status |-> s, group |-> g, live |-> x.live]
    BY <1>1 DEF IsTableRow
<1>3. QED
    BY <1>1, <1>2 DEF IsTableRow

\* A row that is deleted.
LEMMA TableRowDeleted ==
    ASSUME NEW x, IsTableRow(x)
    PROVE  IsTableRow([x EXCEPT !.live = FALSE])
<1>1. PICK no \in BOOLEAN : no = FALSE
    OBVIOUS
<1>2. PICK y : y = [x EXCEPT !.live = no]
    OBVIOUS
<1>3. y = [status |-> x.status, group |-> x.group, live |-> no]
    BY <1>2 DEF IsTableRow
<1>4. QED
    BY <1>1, <1>2, <1>3 DEF IsTableRow

LEMMA DiningInit == Dining!Init => DiningInv
<1> SUFFICES ASSUME Dining!Init PROVE DiningInv
    OBVIOUS
<1>1. \A t \in Tables : table[t] = [status |-> "vacant", group |-> NoTable, live |-> TRUE]
    BY DEF Dining!Init
<1>2. \A t \in Tables : IsTableRow(table[t]) /\ table[t].status = "vacant"
    BY <1>1 DEF IsTableRow
<1>3. \A r \in TableRequests : visit[r].does = "nothing"
    BY DEF Dining!Init, Dining!Idle
<1>4. DOMAIN table = Tables /\ DOMAIN visit = TableRequests
    BY DEF Dining!Init
<1>5. QED
    BY <1>2, <1>3, <1>4 DEF DiningInv, Dining!MergedCanBeSplit

\* A row that keeps its status and group or gets a status other than merged.
Harmless(t) ==
    /\ IsTableRow(table'[t])
    /\ table'[t].status = "merged" => table[t].status = "merged" /\ table'[t].group = table[t].group

LEMMA DiningNext == DiningInv /\ [Dining!Next]_diningVars => DiningInv'
<1> SUFFICES ASSUME DiningInv, [Dining!Next]_diningVars PROVE DiningInv'
    OBVIOUS
<1>t. /\ DOMAIN table = Tables /\ DOMAIN visit = TableRequests
      /\ \A t \in Tables : IsTableRow(table[t])
      /\ \A t \in Tables \ edited : table[t].status = "merged" => table[t].group # NoTable
      /\ \A r \in TableRequests :
           /\ visit[r].does = "save" => visit[r].status \in {"vacant", "occupied"}
           /\ visit[r].does = "form" => IsTableRow(visit[r].row) /\ visit[r].at \in Tables
    BY DEF DiningInv, Dining!MergedCanBeSplit
\* What is left of each step: its tables and its requests.
<1>h. ASSUME DOMAIN table' = Tables, \A t \in Tables : Harmless(t), edited' = edited,
             DOMAIN visit' = TableRequests,
             \A r \in TableRequests :
                /\ visit'[r].does = "save" => visit'[r].status \in {"vacant", "occupied"}
                /\ visit'[r].does = "form" => IsTableRow(visit'[r].row) /\ visit'[r].at \in Tables
      PROVE  DiningInv'
    BY <1>h, <1>t DEF Harmless, DiningInv, Dining!MergedCanBeSplit
\* A new status in one row.
<1>s. ASSUME NEW x, NEW s \in {"vacant", "occupied", "reserved", "blocked"}, table' = Dining!WithStatus(x, s)
      PROVE  DOMAIN table' = Tables /\ \A t \in Tables : Harmless(t)
    <2>1. table' = [table EXCEPT ![x].status = s]
        BY <1>s DEF Dining!WithStatus
    <2>2. ASSUME NEW t \in Tables PROVE Harmless(t)
        <3>1. CASE t = x
            BY <1>t, <2>1, <3>1 DEF Harmless, IsTableRow
        <3>2. CASE t # x
            BY <1>t, <2>1, <3>2 DEF Harmless
        <3>3. QED
            BY <3>1, <3>2
    <2>3. QED
        BY <1>t, <2>1, <2>2
\* The tables as they were.
<1>u. ASSUME table' = table PROVE DOMAIN table' = Tables /\ \A t \in Tables : Harmless(t)
    BY <1>t, <1>u DEF Harmless
\* A request that goes on with v.
<1>v. ASSUME NEW r \in TableRequests, NEW v, visit' = [visit EXCEPT ![r] = v],
             v.does = "save" => v.status \in {"vacant", "occupied"},
             v.does = "form" => IsTableRow(v.row) /\ v.at \in Tables
      PROVE  /\ DOMAIN visit' = TableRequests
             /\ \A q \in TableRequests :
                  /\ visit'[q].does = "save" => visit'[q].status \in {"vacant", "occupied"}
                  /\ visit'[q].does = "form" => IsTableRow(visit'[q].row) /\ visit'[q].at \in Tables
    BY <1>t, <1>v
<1>f. ASSUME NEW r \in TableRequests, Dining!Finish(r)
      PROVE  /\ DOMAIN visit' = TableRequests
             /\ \A q \in TableRequests :
                  /\ visit'[q].does = "save" => visit'[q].status \in {"vacant", "occupied"}
                  /\ visit'[q].does = "form" => IsTableRow(visit'[q].row) /\ visit'[q].at \in Tables
    BY <1>t, <1>f DEF Dining!Finish, Dining!Idle
<1>0. CASE UNCHANGED diningVars
    BY <1>0, <1>h, <1>t, <1>u DEF diningVars
<1>1. ASSUME NEW t \in Tables,
             Dining!SeatGuests(t) \/ Dining!ReserveTable(t) \/ Dining!ReleaseTable(t) \/ Dining!BlockTable(t)
      PROVE  DiningInv'
    <2>1. visit' = visit /\ edited' = edited
        BY <1>1 DEF Dining!SeatGuests, Dining!ReserveTable, Dining!ReleaseTable, Dining!BlockTable
    <2>2. \/ table' = Dining!WithStatus(t, "occupied") \/ table' = Dining!WithStatus(t, "reserved")
          \/ table' = Dining!WithStatus(t, "vacant") \/ table' = Dining!WithStatus(t, "blocked") \/ table' = table
        BY <1>1 DEF Dining!SeatGuests, Dining!ReserveTable, Dining!ReleaseTable, Dining!BlockTable,
                    Dining!Seated, Dining!Released
    <2>3. QED
        BY <1>h, <1>s, <1>t, <1>u, <2>1, <2>2
<1>2. ASSUME NEW t \in Tables, Dining!SplitTables(t) PROVE DiningInv'
    <2>1. /\ visit' = visit /\ edited' = edited
          /\ table' = [u \in Tables |-> IF table[u].live /\ table[u].group = t
                                        THEN [table[u] EXCEPT !.group = NoTable, !.status = "vacant"]
                                        ELSE table[u]]
        BY <1>2 DEF Dining!SplitTables, Dining!Split
    <2>2. ASSUME NEW u \in Tables PROVE Harmless(u)
        <3>1. CASE table[u].live /\ table[u].group = t
            <4>1. table'[u] = [table[u] EXCEPT !.group = NoTable, !.status = "vacant"]
                BY <2>1, <3>1
            <4>2. PICK row : row = table[u] /\ IsTableRow(row)
                BY <1>t
            <4>3. table'[u] = [status |-> "vacant", group |-> NoTable, live |-> row.live]
                BY <4>1, <4>2 DEF IsTableRow
            <4>4. QED
                BY <4>3 DEF Harmless, IsTableRow
        <3>2. CASE ~(table[u].live /\ table[u].group = t)
            BY <1>t, <2>1, <3>2 DEF Harmless
        <3>3. QED
            BY <3>1, <3>2
    <2>3. QED
        BY <1>h, <1>t, <2>1, <2>2
<1>3. ASSUME NEW p \in Tables, NEW ss \in SUBSET Tables, Dining!MergeTables(p, ss) PROVE DiningInv'
    <2>0. PICK into : into = (ss \intersect Dining!LiveTables) \ {p}
        OBVIOUS
    <2>1. /\ visit' = visit /\ edited' = edited
          /\ table' = [u \in Tables |-> IF u \in into
                                        THEN [table[u] EXCEPT !.group = p, !.status = "merged"]
                                        ELSE table[u]]
        BY <1>3, <2>0 DEF Dining!MergeTables, Dining!Merged
    <2>2. DOMAIN table' = Tables /\ \A u \in Tables : IsTableRow(table'[u])
        BY <1>t, <2>1, TableRowStored
    <2>3. ASSUME NEW u \in Tables \ edited, table'[u].status = "merged" PROVE table'[u].group # NoTable
        <3>1. CASE u \in into
            <4>1. table'[u] = [table[u] EXCEPT !.group = p, !.status = "merged"]
                BY <2>1, <3>1
            <4>2. PICK row : row = table[u] /\ IsTableRow(row)
                BY <1>t
            <4>3. table'[u] = [status |-> "merged", group |-> p, live |-> row.live]
                BY <4>1, <4>2 DEF IsTableRow
            <4>4. table'[u].group = p
                BY <4>3
            <4>5. NoTable \notin Tables
                BY PremisesAssumption, Zenon
            <4>6. QED
                BY <4>4, <4>5
        <3>2. CASE u \notin into
            BY <1>t, <2>1, <2>3, <3>2
        <3>3. QED
            BY <3>1, <3>2
    <2>4. QED
        BY <1>t, <2>1, <2>2, <2>3 DEF DiningInv, Dining!MergedCanBeSplit
<1>4. ASSUME NEW o \in TableOrders, Dining!VoidOrder(o) PROVE DiningInv'
    BY <1>4, <1>h, <1>t, <1>u DEF Dining!VoidOrder
\* Requests that write no table yet.
<1>5. ASSUME NEW r \in TableRequests, NEW t \in Tables, Dining!TapTable(r, t) PROVE DiningInv'
    BY <1>5, <1>h, <1>u, <1>v DEF Dining!TapTable
<1>6. ASSUME NEW r \in TableRequests, NEW o \in TableOrders, Dining!OpenOrder(r, o) PROVE DiningInv'
    BY <1>6, <1>h, <1>u, <1>v DEF Dining!OpenOrder
<1>7. ASSUME NEW r \in TableRequests, Dining!ShowOrder(r) PROVE DiningInv'
    BY <1>7, <1>f, <1>h, <1>u, <1>v DEF Dining!ShowOrder
<1>8. ASSUME NEW r \in TableRequests, Dining!SaveStatus(r) PROVE DiningInv'
    <2>0. PICK x : x = visit[r].at
        OBVIOUS
    <2>1. PICK s \in {"vacant", "occupied"} : s = visit[r].status
        BY <1>8, <1>t DEF Dining!SaveStatus
    <2>2. table' = Dining!WithStatus(x, s) /\ Dining!Finish(r) /\ edited' = edited
        BY <1>8, <2>0, <2>1 DEF Dining!SaveStatus
    <2>3. QED
        BY <1>f, <1>h, <1>s, <2>2
<1>9. ASSUME NEW r \in TableRequests, NEW s \in Tables, NEW d \in Tables, Dining!AskTransfer(r, s, d) PROVE DiningInv'
    BY <1>9, <1>h, <1>u, <1>v DEF Dining!AskTransfer
<1>10. ASSUME NEW r \in TableRequests, Dining!FindOrder(r) PROVE DiningInv'
    <2>1. table' = table /\ edited' = edited
        BY <1>10 DEF Dining!FindOrder
    <2>2. Dining!Finish(r) \/ \E v : visit' = [visit EXCEPT ![r] = v] /\ v.does = "carry"
        <3>1. PICK s, d : s = visit[r].from /\ d = visit[r].to
            OBVIOUS
        <3>2. Dining!Finish(r)
              \/ \E o \in Dining!OpenAt(s) :
                    visit' = [visit EXCEPT ![r] = [does |-> "carry", order |-> o, from |-> s, to |-> d]]
            BY <1>10, <3>1 DEF Dining!FindOrder
        <3>3. \A o : [does |-> "carry", order |-> o, from |-> s, to |-> d].does = "carry"
            OBVIOUS
        <3>4. QED
            BY <3>2, <3>3
    <2>3. QED
        BY <1>f, <1>h, <1>u, <1>v, <2>1, <2>2
<1>11. ASSUME NEW r \in TableRequests, Dining!CarryOrder(r) PROVE DiningInv'
    BY <1>11, <1>h, <1>u, <1>v DEF Dining!CarryOrder
<1>12. ASSUME NEW r \in TableRequests, Dining!VacateSource(r) PROVE DiningInv'
    <2>1. PICK x : x = visit[r].from
        OBVIOUS
    <2>2. table' = Dining!WithStatus(x, "vacant") /\ edited' = edited
        BY <1>12, <2>1 DEF Dining!VacateSource
    <2>3. visit' = [visit EXCEPT ![r] = [does |-> "save", at |-> visit[r].to, status |-> "occupied"]]
        BY <1>12 DEF Dining!VacateSource
    <2>4. QED
        BY <1>h, <1>s, <1>v, <2>2, <2>3
<1>13. ASSUME NEW r \in TableRequests, NEW o \in TableOrders, Dining!Checkout(r, o) PROVE DiningInv'
    <2>1. table' = table /\ edited' = edited
        BY <1>13 DEF Dining!Checkout
    <2>2. \/ visit' = visit
          \/ visit' = [visit EXCEPT ![r] = [does |-> "save", at |-> seat[o].table, status |-> "vacant"]]
        BY <1>13 DEF Dining!Checkout
    <2>3. QED
        BY <1>h, <1>t, <1>u, <1>v, <2>1, <2>2
<1>14. ASSUME NEW r \in TableRequests, NEW o \in TableOrders, NEW t \in Tables,
              Dining!CreateAt(r, o, t) \/ Dining!AssignTable(r, o, t)
       PROVE  DiningInv'
    BY <1>14, <1>h, <1>u, <1>v DEF Dining!CreateAt, Dining!AssignTable
<1>15. ASSUME NEW r \in TableRequests, Dining!TrySeat(r) PROVE DiningInv'
    <2>1. PICK x : x = visit[r].at
        OBVIOUS
    <2>2. table' = Dining!WithStatus(x, "occupied") \/ table' = table
        BY <1>15, <2>1 DEF Dining!TrySeat, Dining!Seated
    <2>3. Dining!Finish(r) /\ edited' = edited
        BY <1>15 DEF Dining!TrySeat
    <2>4. QED
        BY <1>f, <1>h, <1>s, <1>u, <2>2, <2>3
<1>16. ASSUME NEW r \in TableRequests, NEW o \in TableOrders, NEW does \in {"leave", "move"}, Dining!ReadOrder(r, o, does)
       PROVE  DiningInv'
    BY <1>16, <1>h, <1>u, <1>v DEF Dining!ReadOrder
<1>17. ASSUME NEW r \in TableRequests, Dining!LeaveTable(r) PROVE DiningInv'
    BY <1>17, <1>h, <1>u, <1>v DEF Dining!LeaveTable
<1>18. ASSUME NEW r \in TableRequests, Dining!TryRelease(r) PROVE DiningInv'
    <2>1. PICK x : x = visit[r].at
        OBVIOUS
    <2>2. table' = Dining!WithStatus(x, "vacant") \/ table' = table
        BY <1>18, <2>1 DEF Dining!TryRelease, Dining!Released
    <2>3. Dining!Finish(r) /\ edited' = edited
        BY <1>18 DEF Dining!TryRelease
    <2>4. QED
        BY <1>f, <1>h, <1>s, <1>u, <2>2, <2>3
<1>19. ASSUME NEW r \in TableRequests, NEW t \in Tables, Dining!MoveOrder(r, t) PROVE DiningInv'
    <2>1. PICK x : x = visit[r].old
        OBVIOUS
    <2>2. PICK freed : freed = Dining!Released(x)
        OBVIOUS
    <2>3. freed = table \/ freed = [table EXCEPT ![x].status = "vacant"]
        BY <2>2 DEF Dining!Released, Dining!WithStatus
    <2>4. table' = freed \/ table' = [freed EXCEPT ![t].status = "occupied"]
        BY <1>19, <2>1, <2>2 DEF Dining!MoveOrder
    <2>5. /\ DOMAIN freed = Tables
          /\ \A u \in Tables : IsTableRow(freed[u]) /\ (freed[u].status = "merged" => freed[u] = table[u])
        <3>1. CASE freed = table
            BY <1>t, <3>1
        <3>2. CASE freed = [table EXCEPT ![x].status = "vacant"]
            BY <1>t, <3>2 DEF IsTableRow
        <3>3. QED
            BY <2>3, <3>1, <3>2
    <2>6. DOMAIN table' = Tables /\ \A u \in Tables : Harmless(u)
        <3>1. CASE table' = freed
            BY <2>5, <3>1 DEF Harmless
        <3>2. CASE table' = [freed EXCEPT ![t].status = "occupied"]
            BY <2>5, <3>2 DEF Harmless, IsTableRow
        <3>3. QED
            BY <2>4, <3>1, <3>2
    <2>7. Dining!Finish(r) /\ edited' = edited
        BY <1>19 DEF Dining!MoveOrder
    <2>8. QED
        BY <1>f, <1>h, <2>6, <2>7
<1>20. ASSUME NEW r \in TableRequests, NEW s \in Tables, NEW d \in Tables, Dining!AskMove(r, s, d) PROVE DiningInv'
    BY <1>20, <1>h, <1>u, <1>v DEF Dining!AskMove
<1>21. ASSUME NEW r \in TableRequests, Dining!MoveTable(r) PROVE DiningInv'
    <2>1. PICK s, d : s = visit[r].from /\ d = visit[r].to
        OBVIOUS
    <2>2. table' = table \/ table' = [table EXCEPT ![s].status = "vacant", ![d].status = "occupied"]
        BY <1>21, <2>1 DEF Dining!MoveTable
    <2>3. CASE table' = [table EXCEPT ![s].status = "vacant", ![d].status = "occupied"]
        <3>1. PICK half : half = [table EXCEPT ![s].status = "vacant"]
            OBVIOUS
        <3>2. table' = [half EXCEPT ![d].status = "occupied"]
            BY <2>3, <3>1
        <3>3. /\ DOMAIN half = Tables
              /\ \A u \in Tables : IsTableRow(half[u]) /\ (half[u].status = "merged" => half[u] = table[u])
            BY <1>t, <3>1 DEF IsTableRow
        <3>4. DOMAIN table' = Tables /\ \A u \in Tables : Harmless(u)
            BY <3>2, <3>3 DEF Harmless, IsTableRow
        <3>5. QED
            BY <1>21, <1>f, <1>h, <3>4 DEF Dining!MoveTable
    <2>4. CASE table' = table
        BY <1>21, <1>f, <1>h, <1>u, <2>4 DEF Dining!MoveTable
    <2>5. QED
        BY <2>2, <2>3, <2>4
<1>22. ASSUME NEW r \in TableRequests, NEW t \in Tables, Dining!ReadForm(r, t) PROVE DiningInv'
    BY <1>22, <1>h, <1>t, <1>u, <1>v DEF Dining!ReadForm
<1>23. ASSUME NEW r \in TableRequests, Dining!SaveForm(r) PROVE DiningInv'
    <2>0. PICK row : row = visit[r].row
        OBVIOUS
    <2>1. PICK at \in Tables : at = visit[r].at /\ IsTableRow(row)
        <3>1. visit[r].does = "form"
            BY <1>23 DEF Dining!SaveForm
        <3>2. QED
            BY <1>t, <2>0, <3>1
    <2>2. \E new : IsTableRow(new) /\ table' = [table EXCEPT ![at] = new]
        <3>1. \/ \E status, group : table' = [table EXCEPT ![at] = [row EXCEPT !.status = status, !.group = group]]
              \/ table' = [table EXCEPT ![at] = [row EXCEPT !.live = FALSE]]
            <4>1. \/ \E status \in FormStatuses \union {visit[r].row.status},
                        group \in Tables \union {visit[r].row.group} :
                        table' = [table EXCEPT ![visit[r].at] = [visit[r].row EXCEPT !.status = status, !.group = group]]
                  \/ table' = [table EXCEPT ![visit[r].at] = [visit[r].row EXCEPT !.live = FALSE]]
                BY <1>23, Zenon DEF Dining!SaveForm
            <4>2. QED
                BY <2>0, <2>1, <4>1
        <3>2. ASSUME NEW status, NEW group,
                     table' = [table EXCEPT ![at] = [row EXCEPT !.status = status, !.group = group]]
              PROVE  \E new : IsTableRow(new) /\ table' = [table EXCEPT ![at] = new]
            <4>1. PICK new : new = [row EXCEPT !.status = status, !.group = group]
                OBVIOUS
            <4>2. new = [status |-> status, group |-> group, live |-> row.live]
                BY <2>1, <4>1 DEF IsTableRow
            <4>3. QED
                BY <3>2, <4>1, <4>2 DEF IsTableRow
        <3>3. ASSUME table' = [table EXCEPT ![at] = [row EXCEPT !.live = FALSE]]
              PROVE  \E new : IsTableRow(new) /\ table' = [table EXCEPT ![at] = new]
            BY <2>1, <3>3, TableRowDeleted
        <3>4. QED
            BY <3>1, <3>2, <3>3
    <2>3. edited' = edited \union {at} /\ Dining!Finish(r)
        <3>1. edited' = edited \union {visit[r].at} /\ Dining!Finish(r)
            BY <1>23, Zenon DEF Dining!SaveForm
        <3>2. QED
            BY <2>1, <3>1
    <2>4. QED
        BY <1>f, <1>t, <2>2, <2>3 DEF DiningInv, Dining!MergedCanBeSplit
<1>n. CASE Dining!Next
    BY <1>n, <1>1, <1>2, <1>3, <1>4, <1>5, <1>6, <1>7, <1>8, <1>9, <1>10, <1>11, <1>12, <1>13, <1>14, <1>15, <1>16,
       <1>17, <1>18, <1>19, <1>20, <1>21, <1>22, <1>23 DEF Dining!Next
<1> QED
    BY <1>0, <1>n

-----------------------------------------------------------------------------
(* Listed offers *)

LEMMA ListingSteps == PremisesSpec => Listing!Init /\ [][Listing!Next]_dealVars
<1>1. PremisesInit => Listing!Init
    BY DEF PremisesInit
<1>2. [PremisesNext]_premisesVars => [Listing!Next]_dealVars
    BY DEF PremisesNext, premisesVars, dealVars
<1>3. PremisesSpec => PremisesInit /\ [][PremisesNext]_premisesVars
    BY PTL DEF PremisesSpec, premisesVars
<1>4. QED
    BY <1>1, <1>2, <1>3, PTL

LEMMA DealsCount == \A f \in Deals : f.value \in Nat /\ f.minimum \in Int /\ f.units \in Int
BY DealsAssumption DEF DealsAssumption

LEMMA SameCount ==
    ASSUME NEW S
    PROVE  Listing!Cardinality(S) = Cardinality(S)
BY DEF Listing!Cardinality, Cardinality

\* The uses of an offer on a day or by an order, and those that a fresh listing showed.
\* Offers whose uses are limited.
Limited(f, limit) == f.value > 0 /\ f.limit = limit

UsesIn(rows, f) == {u \in UseRows : rows[u] # Listing!NoUse /\ rows[u].deal = f}
UsedOn(f, d)  == {u \in UsesIn(use, f) : use[u].day = d}
UsedBy(f, c)  == {u \in UsesIn(use, f) : use[u].check = c}
FreshOn(f, d) == {u \in UsedOn(f, d) : use[u].fresh}
FreshBy(f, c) == {u \in UsedBy(f, c) : use[u].fresh}
FreshOf(f)    == {u \in UsesIn(use, f) : use[u].fresh}

\* What a listing promises of an offer it still shows rightly.
Usable(c, f) ==
    /\ f \in active /\ today \in f.days /\ check[c].loose >= f.minimum
    /\ Limited(f, "once_per_order") => UsedBy(f, c) = {}
    /\ Limited(f, "daily") => Cardinality(UsedOn(f, today)) < f.value
    /\ Limited(f, "monthly") => Cardinality(UsesIn(use, f)) < f.value

IsUse(x) == x = [check |-> x.check, deal |-> x.deal, day |-> x.day, fresh |-> x.fresh, owed |-> x.owed]
IsListing(x) == x = [check |-> x.check, shown |-> x.shown, fresh |-> x.fresh]

ListingRight(t) ==
    dialog[t] # Listing!Closed =>
        /\ IsListing(dialog[t]) /\ dialog[t].check \in Checks
        /\ dialog[t].shown \subseteq Deals /\ dialog[t].fresh \subseteq Deals
        /\ check[dialog[t].check].open => \A f \in dialog[t].fresh : Usable(dialog[t].check, f)

RowsTyped ==
    /\ DOMAIN check = Checks /\ DOMAIN use = UseRows /\ DOMAIN dialog = Dialogs
    /\ \A c \in Checks : check[c] = [open |-> check[c].open, loose |-> check[c].loose] /\ check[c].loose \in Int
    /\ \A u \in UseRows : use[u] # Listing!NoUse => use[u].owed = TRUE /\ use[u].fresh \in BOOLEAN

WithinLimits ==
    \A f \in Deals :
        /\ Limited(f, "daily") => \A d : Cardinality(FreshOn(f, d)) <= f.value
        /\ Limited(f, "once_per_order") => \A c : \A u, v \in FreshBy(f, c) : u = v
        /\ Limited(f, "monthly") => Cardinality(FreshOf(f)) <= f.value

DealInv == RowsTyped /\ WithinLimits /\ \A t \in Dialogs : ListingRight(t)

LEMMA UsesFinite ==
    /\ \A f, d : IsFiniteSet(UsedOn(f, d)) /\ Cardinality(UsedOn(f, d)) \in Nat
    /\ \A f, d : IsFiniteSet(FreshOn(f, d)) /\ Cardinality(FreshOn(f, d)) \in Nat
                 /\ Cardinality(FreshOn(f, d)) <= Cardinality(UsedOn(f, d))
    /\ \A f : IsFiniteSet(UsesIn(use, f)) /\ Cardinality(UsesIn(use, f)) \in Nat
    /\ \A f : IsFiniteSet(FreshOf(f)) /\ Cardinality(FreshOf(f)) \in Nat
              /\ Cardinality(FreshOf(f)) <= Cardinality(UsesIn(use, f))
<1>1. IsFiniteSet(UseRows)
    BY PremisesAssumption, Zenon DEF PremisesAssumption
<1>2. ASSUME NEW S \in SUBSET UseRows, NEW T \in SUBSET S
      PROVE  /\ IsFiniteSet(S) /\ Cardinality(S) \in Nat /\ IsFiniteSet(T) /\ Cardinality(T) \in Nat
             /\ Cardinality(T) <= Cardinality(S)
    BY <1>1, <1>2, FS_Subset, FS_CardinalityType
<1>3. ASSUME NEW f, NEW d
      PROVE  /\ UsesIn(use, f) \in SUBSET UseRows /\ FreshOf(f) \in SUBSET UsesIn(use, f)
             /\ UsedOn(f, d) \in SUBSET UseRows /\ FreshOn(f, d) \in SUBSET UsedOn(f, d)
    BY DEF UsedOn, UsesIn, FreshOn, FreshOf
<1>4. QED
    BY <1>2, <1>3

LEMMA RecordsDiffer ==
    /\ \A c, f, d, b, o : [check |-> c, deal |-> f, day |-> d, fresh |-> b, owed |-> o] # Listing!NoUse
    /\ \A c, s, g : [check |-> c, shown |-> s, fresh |-> g] # Listing!Closed
<1>1. ASSUME NEW c, NEW f, NEW d, NEW b, NEW o
      PROVE  [check |-> c, deal |-> f, day |-> d, fresh |-> b, owed |-> o] # Listing!NoUse
    <2>1. "check" \in DOMAIN [check |-> c, deal |-> f, day |-> d, fresh |-> b, owed |-> o]
        OBVIOUS
    <2>2. "check" \notin DOMAIN Listing!NoUse
        BY DEF Listing!NoUse
    <2>3. QED
        BY <2>1, <2>2
<1>2. ASSUME NEW c, NEW s, NEW g
      PROVE  [check |-> c, shown |-> s, fresh |-> g] # Listing!Closed
    <2>1. "check" \in DOMAIN [check |-> c, shown |-> s, fresh |-> g]
        OBVIOUS
    <2>2. "check" \notin DOMAIN Listing!Closed
        BY DEF Listing!Closed
    <2>3. QED
        BY <2>1, <2>2
<1>3. QED
    BY <1>1, <1>2

\* The listing looks at the offers' uses as they are.
LEMMA EligibleUsable ==
    ASSUME NEW c, NEW f \in Deals, Listing!Eligible(c, f)
    PROVE  Usable(c, f)
<1>1. /\ f \in active /\ today \in f.days /\ check[c].loose >= f.minimum /\ Listing!UsesLeft(c, f)
    BY DEF Listing!Eligible, Listing!Available
<1>2. Listing!Uses(f) = UsesIn(use, f)
    BY DEF Listing!Uses, UsesIn
<1>3. CASE Limited(f, "once_per_order")
    BY <1>1, <1>2, <1>3 DEF Usable, Listing!UsesLeft, UsedBy, Limited
<1>4. CASE Limited(f, "daily")
    <2>1. Listing!Cardinality({u \in Listing!Uses(f) : use[u].day = today}) < f.value
        BY <1>1, <1>4 DEF Listing!UsesLeft, Limited
    <2>2. Cardinality(UsedOn(f, today)) < f.value
        BY <1>2, <2>1, SameCount DEF UsedOn
    <2>3. QED
        BY <1>1, <1>4, <2>2 DEF Usable, Limited
<1>5. CASE Limited(f, "monthly")
    <2>1. Listing!Cardinality(Listing!Uses(f)) < f.value
        BY <1>1, <1>5 DEF Listing!UsesLeft, Limited
    <2>2. Cardinality(UsesIn(use, f)) < f.value
        BY <1>2, <2>1, SameCount
    <2>3. QED
        BY <1>1, <1>5, <2>2 DEF Usable, Limited
<1>6. QED
    BY <1>1, <1>3, <1>4, <1>5 DEF Usable

LEMMA DealInit == Listing!Init => DealInv
<1> SUFFICES ASSUME Listing!Init PROVE DealInv
    OBVIOUS
<1>1. RowsTyped
    BY DEF Listing!Init, RowsTyped
<1>2. \A f : UsesIn(use, f) = {}
    BY DEF Listing!Init, UsesIn
<1>3. \A f, d : FreshOn(f, d) = {} /\ FreshBy(f, d) = {} /\ FreshOf(f) = {}
    BY <1>2 DEF UsedOn, UsedBy, FreshOn, FreshBy, FreshOf
<1>4. WithinLimits
    <2>1. Cardinality({}) = 0
        BY FS_EmptySet
    <2>2. \A f \in Deals : 0 <= f.value
        BY DealsCount
    <2>3. QED
        BY <1>3, <2>1, <2>2 DEF WithinLimits
<1>5. \A t \in Dialogs : ListingRight(t)
    BY DEF Listing!Init, ListingRight
<1>6. QED
    BY <1>1, <1>4, <1>5 DEF DealInv

LEMMA DealNext == DealInv /\ [Listing!Next]_dealVars => DealInv'
<1> SUFFICES ASSUME DealInv, [Listing!Next]_dealVars PROVE DealInv'
    OBVIOUS
<1>t. RowsTyped /\ WithinLimits /\ \A t \in Dialogs : ListingRight(t)
    BY DEF DealInv
\* Listings of which some offers went stale.
<1>o. ASSUME NEW stale, dialog' = Listing!Outdated(stale),
             \A c \in Checks, f \in Deals : check'[c].open /\ f \notin stale[c] =>
                 check[c].open /\ (Usable(c, f) => Usable(c, f)')
      PROVE  DOMAIN dialog' = Dialogs /\ \A t \in Dialogs : ListingRight(t)'
    <2>1. dialog' = [t \in Dialogs |-> IF dialog[t] = Listing!Closed THEN Listing!Closed
                        ELSE [dialog[t] EXCEPT !.fresh = @ \ stale[dialog[t].check]]]
        BY <1>o DEF Listing!Outdated
    <2>2. ASSUME NEW t \in Dialogs, dialog[t] # Listing!Closed PROVE ListingRight(t)'
        <3>1. PICK x : x = dialog[t]
            OBVIOUS
        <3>2. /\ IsListing(x) /\ x.check \in Checks /\ x.shown \subseteq Deals /\ x.fresh \subseteq Deals
              /\ check[x.check].open => \A f \in x.fresh : Usable(x.check, f)
            BY <1>t, <2>2, <3>1 DEF ListingRight
        <3>3. PICK c \in Checks, g \in SUBSET Deals : c = x.check /\ g = x.fresh
            BY <3>2
        <3>4. dialog'[t] = [x EXCEPT !.fresh = x.fresh \ stale[x.check]]
            BY <2>1, <2>2, <3>1
        <3>5. dialog'[t] = [check |-> c, shown |-> x.shown, fresh |-> g \ stale[c]]
            BY <3>2, <3>3, <3>4 DEF IsListing
        <3>6. check'[c].open => \A f \in g \ stale[c] : Usable(c, f)'
            BY <1>o, <3>2, <3>3
        <3>7. IsListing(dialog'[t]) /\ dialog'[t].check = c /\ dialog'[t].shown = x.shown /\ dialog'[t].fresh = g \ stale[c]
            BY <3>5 DEF IsListing
        <3>8. \A f : Usable(dialog[t].check, f)' <=> Usable(c, f)'
            BY <3>7 DEF Usable, UsedBy, UsesIn
        <3>9. QED
            BY <3>2, <3>6, <3>7, <3>8 DEF ListingRight
    <2>3. ASSUME NEW t \in Dialogs, dialog[t] = Listing!Closed PROVE ListingRight(t)'
        BY <2>1, <2>3 DEF ListingRight, Listing!Closed
    <2>4. QED
        BY <2>1, <2>2, <2>3
\* Listings as they were.
<1>u. ASSUME dialog' = dialog,
             \A c \in Checks, f \in Deals : check'[c].open =>
                 check[c].open /\ (Usable(c, f) => Usable(c, f)')
      PROVE  DOMAIN dialog' = Dialogs /\ \A t \in Dialogs : ListingRight(t)'
    <2>1. ASSUME NEW t \in Dialogs, dialog[t] # Listing!Closed PROVE ListingRight(t)'
        <3>1. PICK c \in Checks, g \in SUBSET Deals : c = dialog[t].check /\ g = dialog[t].fresh
            BY <1>t, <2>1 DEF ListingRight
        <3>2. check'[c].open => \A f \in g : Usable(c, f)'
            BY <1>t, <1>u, <2>1, <3>1 DEF ListingRight
        <3>3. \A f : Usable(dialog[t].check, f)' <=> Usable(c, f)'
            BY <1>u, <3>1 DEF Usable, UsedBy, UsesIn
        <3>4. QED
            BY <1>t, <1>u, <2>1, <3>1, <3>2, <3>3 DEF ListingRight
    <2>2. ASSUME NEW t \in Dialogs, dialog[t] = Listing!Closed PROVE ListingRight(t)'
        BY <1>u, <2>2 DEF ListingRight, Listing!Closed
    <2>3. QED
        BY <1>t, <1>u, <2>1, <2>2 DEF RowsTyped
\* No use more.
<1>w. ASSUME \A f, d : FreshOn(f, d)' \subseteq FreshOn(f, d), \A f, c : FreshBy(f, c)' \subseteq FreshBy(f, c),
             \A f : FreshOf(f)' \subseteq FreshOf(f)
      PROVE  WithinLimits'
    <2>1. ASSUME NEW f \in Deals, Limited(f, "daily"), NEW d PROVE Cardinality(FreshOn(f, d)') <= f.value
        <3>1. /\ Cardinality(FreshOn(f, d)') \in Nat /\ Cardinality(FreshOn(f, d)) \in Nat
              /\ Cardinality(FreshOn(f, d)') <= Cardinality(FreshOn(f, d))
            BY <1>w, UsesFinite, FS_Subset, FS_CardinalityType
        <3>2. Cardinality(FreshOn(f, d)) <= f.value /\ f.value \in Nat
            BY <1>t, <2>1, DealsCount DEF WithinLimits
        <3>3. QED
            BY <3>1, <3>2
    <2>2. ASSUME NEW f \in Deals, Limited(f, "once_per_order"), NEW c PROVE \A u, v \in FreshBy(f, c)' : u = v
        BY <1>t, <1>w, <2>2 DEF WithinLimits
    <2>3. ASSUME NEW f \in Deals, Limited(f, "monthly") PROVE Cardinality(FreshOf(f)') <= f.value
        <3>1. /\ Cardinality(FreshOf(f)') \in Nat /\ Cardinality(FreshOf(f)) \in Nat
              /\ Cardinality(FreshOf(f)') <= Cardinality(FreshOf(f))
            BY <1>w, UsesFinite, FS_Subset, FS_CardinalityType
        <3>2. Cardinality(FreshOf(f)) <= f.value /\ f.value \in Nat
            BY <1>t, <2>3, DealsCount DEF WithinLimits
        <3>3. QED
            BY <3>1, <3>2
    <2>4. QED
        BY <2>1, <2>2, <2>3 DEF WithinLimits, Limited
\* The uses as they were.
<1>v. ASSUME use' = use
      PROVE  /\ \A f, d : UsedOn(f, d)' = UsedOn(f, d) /\ UsedBy(f, d)' = UsedBy(f, d)
             /\ \A f, d : FreshOn(f, d)' = FreshOn(f, d) /\ FreshBy(f, d)' = FreshBy(f, d)
             /\ \A f : UsesIn(use', f) = UsesIn(use, f) /\ FreshOf(f)' = FreshOf(f)
    BY <1>v DEF UsedOn, UsedBy, FreshOn, FreshBy, UsesIn, FreshOf
<1>c. ASSUME use' = use, DOMAIN dialog' = Dialogs, \A t \in Dialogs : ListingRight(t)',
             DOMAIN check' = Checks,
             \A c \in Checks : check'[c] = [open |-> check'[c].open, loose |-> check'[c].loose] /\ check'[c].loose \in Int
      PROVE  DealInv'
    <2>1. WithinLimits'
        BY <1>c, <1>v, <1>w
    <2>2. RowsTyped'
        BY <1>c, <1>t DEF RowsTyped
    <2>3. QED
        BY <1>c, <2>1, <2>2 DEF DealInv
<1>0. CASE UNCHANGED dealVars
    <2>1. UNCHANGED <<check, active, today, use, dialog>>
        BY <1>0 DEF dealVars
    <2>2. \A c, f : Usable(c, f)' <=> Usable(c, f)
        BY <1>v, <2>1 DEF Usable, Limited
    <2>3. QED
        BY <1>c, <1>t, <1>u, <2>1, <2>2 DEF RowsTyped
<1>1. ASSUME NEW t \in Dialogs, NEW c \in Checks, Listing!OpenDialog(t, c) PROVE DealInv'
    <2>0. PICK shown : shown = {f \in Deals : Listing!Eligible(c, f)}
        OBVIOUS
    <2>1. /\ dialog' = [dialog EXCEPT ![t] = IF shown = {} THEN Listing!Closed
                                             ELSE [check |-> c, shown |-> shown, fresh |-> shown]]
          /\ UNCHANGED <<check, active, today, use>>
        BY <1>1, <2>0 DEF Listing!OpenDialog
    <2>2. \A d, f : Usable(d, f)' <=> Usable(d, f)
        BY <1>v, <2>1 DEF Usable, Limited
    <2>3. DOMAIN dialog' = Dialogs
        BY <1>t, <2>1 DEF RowsTyped
    <2>4. ListingRight(t)'
        <3>1. CASE shown = {}
            BY <1>t, <2>1, <3>1 DEF ListingRight, RowsTyped
        <3>2. CASE shown # {}
            <4>1. dialog'[t] = [check |-> c, shown |-> shown, fresh |-> shown]
                BY <1>t, <2>1, <3>2 DEF RowsTyped
            <4>2. IsListing(dialog'[t]) /\ dialog'[t].check = c /\ dialog'[t].shown = shown /\ dialog'[t].fresh = shown
                BY <4>1 DEF IsListing
            <4>3. \A f \in shown : Usable(c, f)
                BY <2>0, EligibleUsable
            <4>4. \A f : Usable(dialog[t].check, f)' <=> Usable(c, f)'
                BY <4>2 DEF Usable, UsedBy, UsesIn
            <4>5. shown \subseteq Deals
                BY <2>0
            <4>6. QED
                BY <2>2, <4>2, <4>3, <4>4, <4>5 DEF ListingRight
        <3>3. QED
            BY <3>1, <3>2
    <2>5. ASSUME NEW s \in Dialogs \ {t} PROVE ListingRight(s)'
        <3>1. dialog'[s] = dialog[s]
            BY <1>t, <2>1 DEF RowsTyped
        <3>2. \A f : Usable(dialog[s].check, f)' <=> Usable(dialog[s].check, f)
            <4>1. PICK d : d = dialog[s].check
                OBVIOUS
            <4>2. \A f : Usable(dialog[s].check, f)' <=> Usable(d, f)'
                BY <3>1, <4>1 DEF Usable, UsedBy, UsesIn
            <4>3. QED
                BY <2>2, <4>1, <4>2
        <3>3. QED
            BY <1>t, <2>1, <3>1, <3>2 DEF ListingRight
    <2>6. QED
        BY <1>c, <1>t, <2>1, <2>3, <2>4, <2>5 DEF RowsTyped
\* A use is recorded.
<1>2. ASSUME NEW c \in Checks, NEW f \in Deals, NEW taken \in Int, NEW fresh \in BOOLEAN,
             fresh => Usable(c, f), Listing!Record(c, f, taken, fresh)
      PROVE  DealInv'
    <2>1. PICK u \in UseRows :
             /\ use[u] = Listing!NoUse
             /\ use' = [use EXCEPT ![u] = [check |-> c, deal |-> f, day |-> today, fresh |-> fresh,
                                           owed |-> ~fresh \/ Listing!AsOffered(c, f)]]
        BY <1>2 DEF Listing!Record
    <2>2. /\ check' = [check EXCEPT ![c].loose = @ - taken] /\ dialog' = Listing!AfterUse(c, f)
          /\ active' = active /\ today' = today /\ check[c].open
        BY <1>2 DEF Listing!Record
    <2>3. PICK b \in BOOLEAN : b = (~fresh \/ Listing!AsOffered(c, f))
        OBVIOUS
    <2>4. b = TRUE
        <3>1. fresh => Listing!AsOffered(c, f)
            BY <1>2 DEF Usable, Listing!AsOffered, Listing!Available
        <3>2. QED
            BY <2>3, <3>1
    <2>5. PICK x : x = [check |-> c, deal |-> f, day |-> today, fresh |-> fresh, owed |-> b]
        OBVIOUS
    <2>6. /\ x # Listing!NoUse /\ x.check = c /\ x.deal = f /\ x.day = today /\ x.fresh = fresh /\ x.owed = TRUE
        BY <2>4, <2>5, RecordsDiffer
    <2>7. use' = [use EXCEPT ![u] = x]
        BY <2>1, <2>3, <2>5
    <2>8. /\ DOMAIN use' = UseRows /\ use'[u] = x /\ \A v \in UseRows \ {u} : use'[v] = use[v]
        BY <1>t, <2>7 DEF RowsTyped
    <2>9. /\ \A g, d : UsedOn(g, d)' = IF g = f /\ d = today THEN UsedOn(g, d) \union {u} ELSE UsedOn(g, d)
          /\ \A g, d : UsedBy(g, d)' = IF g = f /\ d = c THEN UsedBy(g, d) \union {u} ELSE UsedBy(g, d)
          /\ \A g : UsesIn(use', g) = IF g = f THEN UsesIn(use, g) \union {u} ELSE UsesIn(use, g)
        BY <2>1, <2>6, <2>8 DEF UsedOn, UsedBy, UsesIn
    <2>10. u \notin UsedOn(f, today) /\ u \notin UsedBy(f, c) /\ u \notin UsesIn(use, f)
        BY <2>1 DEF UsedOn, UsedBy, UsesIn
    <2>11. /\ \A g, d : FreshOn(g, d)' = IF g = f /\ d = today /\ fresh THEN FreshOn(g, d) \union {u} ELSE FreshOn(g, d)
           /\ \A g, d : FreshBy(g, d)' = IF g = f /\ d = c /\ fresh THEN FreshBy(g, d) \union {u} ELSE FreshBy(g, d)
           /\ \A g : FreshOf(g)' = IF g = f /\ fresh THEN FreshOf(g) \union {u} ELSE FreshOf(g)
        BY <2>1, <2>6, <2>8 DEF FreshOn, FreshBy, FreshOf, UsedOn, UsedBy, UsesIn
    <2>12. /\ DOMAIN check' = Checks
           /\ \A d \in Checks : check'[d] = [open |-> check'[d].open, loose |-> check'[d].loose] /\ check'[d].loose \in Int
           /\ \A d \in Checks : check'[d].open = check[d].open /\ (d # c => check'[d] = check[d])
        BY <1>t, <2>2 DEF RowsTyped
    <2>13. RowsTyped'
        <3>1. DOMAIN dialog' = Dialogs
            BY <2>2 DEF Listing!AfterUse, Listing!Outdated
        <3>2. \A v \in UseRows : use'[v] # Listing!NoUse => use'[v].owed = TRUE /\ use'[v].fresh \in BOOLEAN
            BY <1>t, <2>6, <2>8 DEF RowsTyped
        <3>3. QED
            BY <2>8, <2>12, <3>1, <3>2 DEF RowsTyped
    <2>14. WithinLimits'
        <3>1. ASSUME NEW g \in Deals, Limited(g, "daily"), NEW d PROVE Cardinality(FreshOn(g, d)') <= g.value
            <4>1. Cardinality(FreshOn(g, d)) <= g.value /\ g.value \in Nat
                BY <1>t, <3>1, DealsCount DEF WithinLimits
            <4>2. CASE g = f /\ d = today /\ fresh
                <5>1. Cardinality(UsedOn(g, d)) < g.value
                    BY <1>2, <3>1, <4>2 DEF Usable
                <5>2. u \notin FreshOn(g, d)
                    BY <2>10, <4>2 DEF FreshOn
                <5>3. Cardinality(FreshOn(g, d) \union {u}) = Cardinality(FreshOn(g, d)) + 1
                    BY <5>2, UsesFinite, FS_AddElement
                <5>4. /\ Cardinality(FreshOn(g, d)) \in Nat /\ Cardinality(UsedOn(g, d)) \in Nat
                      /\ Cardinality(FreshOn(g, d)) <= Cardinality(UsedOn(g, d))
                    BY UsesFinite
                <5>5. Cardinality(FreshOn(g, d) \union {u}) <= g.value
                    BY <4>1, <5>1, <5>3, <5>4
                <5>6. QED
                    BY <2>11, <4>2, <5>5
            <4>3. CASE ~(g = f /\ d = today /\ fresh)
                BY <2>11, <4>1, <4>3
            <4>4. QED
                BY <4>2, <4>3
        <3>2. ASSUME NEW g \in Deals, Limited(g, "once_per_order"), NEW d PROVE \A v, w \in FreshBy(g, d)' : v = w
            <4>1. \A v, w \in FreshBy(g, d) : v = w
                BY <1>t, <3>2 DEF WithinLimits
            <4>2. CASE g = f /\ d = c /\ fresh
                <5>1. UsedBy(g, d) = {}
                    BY <1>2, <3>2, <4>2 DEF Usable
                <5>2. FreshBy(g, d)' = {u}
                    BY <2>11, <4>2, <5>1 DEF FreshBy
                <5>3. QED
                    BY <5>2
            <4>3. CASE ~(g = f /\ d = c /\ fresh)
                BY <2>11, <4>1, <4>3
            <4>4. QED
                BY <4>2, <4>3
        <3>3. ASSUME NEW g \in Deals, Limited(g, "monthly") PROVE Cardinality(FreshOf(g)') <= g.value
            <4>1. Cardinality(FreshOf(g)) <= g.value /\ g.value \in Nat
                BY <1>t, <3>3, DealsCount DEF WithinLimits
            <4>2. CASE g = f /\ fresh
                <5>1. Cardinality(UsesIn(use, g)) < g.value
                    BY <1>2, <3>3, <4>2 DEF Usable
                <5>2. u \notin FreshOf(g)
                    BY <2>10, <4>2 DEF FreshOf
                <5>3. Cardinality(FreshOf(g) \union {u}) = Cardinality(FreshOf(g)) + 1
                    BY <5>2, UsesFinite, FS_AddElement
                <5>4. /\ Cardinality(FreshOf(g)) \in Nat /\ Cardinality(UsesIn(use, g)) \in Nat
                      /\ Cardinality(FreshOf(g)) <= Cardinality(UsesIn(use, g))
                    BY UsesFinite
                <5>5. Cardinality(FreshOf(g) \union {u}) <= g.value
                    BY <4>1, <5>1, <5>3, <5>4
                <5>6. QED
                    BY <2>11, <4>2, <5>5
            <4>3. CASE ~(g = f /\ fresh)
                BY <2>11, <4>1, <4>3
            <4>4. QED
                BY <4>2, <4>3
        <3>4. QED
            BY <3>1, <3>2, <3>3 DEF WithinLimits, Limited
    <2>15. \A t \in Dialogs : ListingRight(t)'
        <3>1. PICK stale : stale = [d \in Checks |-> IF d = c THEN Deals
                                      ELSE IF f.limit \in {"daily", "monthly"} THEN {f} ELSE {}]
            OBVIOUS
        <3>2. dialog' = Listing!Outdated(stale)
            BY <2>2, <3>1 DEF Listing!AfterUse
        <3>3. ASSUME NEW d \in Checks, NEW g \in Deals, check'[d].open, g \notin stale[d]
              PROVE  check[d].open /\ (Usable(d, g) => Usable(d, g)')
            <4>1. d # c /\ (g = f => ~Limited(g, "daily") /\ ~Limited(g, "monthly"))
                BY <3>1, <3>3 DEF Limited
            <4>2. /\ check'[d] = check[d] /\ UsedBy(g, d)' = UsedBy(g, d)
                  /\ g # f => UsedOn(g, today)' = UsedOn(g, today) /\ UsesIn(use', g) = UsesIn(use, g)
                <5>1. check'[d] = check[d] /\ UsedBy(g, d)' = UsedBy(g, d)
                    BY <2>9, <2>12, <4>1
                <5>2. UsedOn(g, today)' = {v \in UsesIn(use', g) : use'[v].day = today}
                    BY <2>2 DEF UsedOn
                <5>3. g # f => UsedOn(g, today)' = UsedOn(g, today)
                    <6>1. PICK day : day = today
                        OBVIOUS
                    <6>2. UsedOn(g, day)' = {v \in UsesIn(use', g) : use'[v].day = day}
                        BY DEF UsedOn
                    <6>3. QED
                        BY <2>9, <5>2, <6>1, <6>2
                <5>4. QED
                    BY <2>9, <5>1, <5>3
            <4>3. \A limit : Limited(g, limit)' <=> Limited(g, limit)
                BY DEF Limited
            <4>4. QED
                BY <2>2, <3>3, <4>1, <4>2, <4>3, Zenon DEF Usable
        <3>4. QED
            BY <1>o, <3>2, <3>3
    <2>16. QED
        BY <2>13, <2>14, <2>15 DEF DealInv
<1>3. ASSUME NEW t \in Dialogs, NEW c \in Checks, NEW f \in dialog[t].shown, Listing!Apply(t, f, c) PROVE DealInv'
    <2>1. dialog[t] # Listing!Closed
        BY <1>3 DEF Listing!Closed
    <2>2. f \in Deals
        BY <1>3, <1>t, <2>1 DEF ListingRight
    <2>3. PICK fresh \in BOOLEAN : fresh = (c = dialog[t].check /\ f \in dialog[t].fresh)
        OBVIOUS
    <2>4. PICK taken : taken = Listing!Taken(c, f)
        OBVIOUS
    <2>5. taken \in Int
        BY <1>t, <2>2, <2>4, DealsCount DEF Listing!Taken, RowsTyped
    <2>6. Listing!Record(c, f, taken, fresh)
        BY <1>3, <2>3, <2>4 DEF Listing!Apply
    <2>7. check[c].open
        BY <2>6 DEF Listing!Record
    <2>8. fresh => Usable(c, f)
        BY <1>t, <2>1, <2>3, <2>7 DEF ListingRight
    <2>9. QED
        BY <1>2, <2>2, <2>5, <2>6, <2>8
<1>4. ASSUME NEW c \in Checks, NEW f \in Deals, Listing!ApplyUnlisted(c, f) PROVE DealInv'
    <2>1. PICK taken : taken = Listing!Taken(c, f)
        OBVIOUS
    <2>2. taken \in Int
        BY <1>t, <2>1, DealsCount DEF Listing!Taken, RowsTyped
    <2>3. PICK fresh \in BOOLEAN : fresh = FALSE
        OBVIOUS
    <2>4. Listing!Record(c, f, taken, fresh) \/ Listing!Record(c, f, 0, fresh)
        BY <1>4, <2>1, <2>3 DEF Listing!ApplyUnlisted
    <2>5. fresh => Usable(c, f)
        BY <2>3
    <2>6. CASE Listing!Record(c, f, taken, fresh)
        BY <1>2, <2>2, <2>5, <2>6
    <2>7. CASE Listing!Record(c, f, 0, fresh)
        BY <1>2, <2>5, <2>7
    <2>8. QED
        BY <2>4, <2>6, <2>7
<1>5. ASSUME NEW u \in UseRows, Listing!RemoveUse(u) PROVE DealInv'
    <2>1. use' = [use EXCEPT ![u] = Listing!NoUse] /\ UNCHANGED <<check, active, today, dialog>>
        BY <1>5 DEF Listing!RemoveUse
    <2>2. DOMAIN use' = UseRows /\ use'[u] = Listing!NoUse /\ \A v \in UseRows \ {u} : use'[v] = use[v]
        BY <1>t, <2>1 DEF RowsTyped
    <2>3. \A f, d : UsedOn(f, d)' \subseteq UsedOn(f, d) /\ UsedBy(f, d)' \subseteq UsedBy(f, d)
        BY <2>2 DEF UsedOn, UsedBy, UsesIn
    <2>4. /\ \A f, d : FreshOn(f, d)' \subseteq FreshOn(f, d) /\ FreshBy(f, d)' \subseteq FreshBy(f, d)
          /\ \A f : FreshOf(f)' \subseteq FreshOf(f) /\ UsesIn(use', f) \subseteq UsesIn(use, f)
        BY <2>2 DEF FreshOn, FreshBy, FreshOf, UsedOn, UsedBy, UsesIn
    <2>5. WithinLimits'
        BY <1>w, <2>4
    <2>6. RowsTyped'
        BY <1>t, <2>1, <2>2 DEF RowsTyped
    <2>7. PICK day : day = today
        OBVIOUS
    <2>8. ASSUME NEW c \in Checks, NEW f \in Deals, Usable(c, f) PROVE Usable(c, f)'
        <3>1. Limited(f, "once_per_order") => UsedBy(f, c)' = {}
            BY <2>3, <2>8 DEF Usable
        <3>2. ASSUME Limited(f, "daily") PROVE Cardinality(UsedOn(f, day)') < f.value
            <4>1. Cardinality(UsedOn(f, day)) < f.value /\ f.value \in Nat
                BY <2>7, <2>8, <3>2, DealsCount DEF Usable
            <4>2. /\ Cardinality(UsedOn(f, day)') <= Cardinality(UsedOn(f, day))
                  /\ Cardinality(UsedOn(f, day)') \in Nat /\ Cardinality(UsedOn(f, day)) \in Nat
                BY <2>3, UsesFinite, FS_Subset, FS_CardinalityType
            <4>3. QED
                BY <4>1, <4>2
        <3>3. UsedOn(f, today)' = UsedOn(f, day)'
            BY <2>1, <2>7 DEF UsedOn
        <3>4. ASSUME Limited(f, "monthly") PROVE Cardinality(UsesIn(use', f)) < f.value
            <4>1. Cardinality(UsesIn(use, f)) < f.value /\ f.value \in Nat
                BY <2>8, <3>4, DealsCount DEF Usable
            <4>2. /\ Cardinality(UsesIn(use', f)) <= Cardinality(UsesIn(use, f))
                  /\ Cardinality(UsesIn(use', f)) \in Nat /\ Cardinality(UsesIn(use, f)) \in Nat
                BY <2>4, UsesFinite, FS_Subset, FS_CardinalityType
            <4>3. QED
                BY <4>1, <4>2
        <3>5. \A limit : Limited(f, limit)' <=> Limited(f, limit)
            BY DEF Limited
        <3>6. QED
            BY <2>1, <2>8, <3>1, <3>2, <3>3, <3>4, <3>5 DEF Usable
    <2>9. \A t \in Dialogs : ListingRight(t)'
        BY <1>u, <2>1, <2>8
    <2>10. QED
        BY <2>5, <2>6, <2>9 DEF DealInv
\* The cart of an order changes.
<1>6. ASSUME NEW c \in Checks, Listing!AddUnit(c) PROVE DealInv'
    <2>1. check' = [check EXCEPT ![c].loose = @ + 1] /\ UNCHANGED <<active, today, use, dialog>>
        BY <1>6 DEF Listing!AddUnit
    <2>2. /\ DOMAIN check' = Checks
          /\ \A d \in Checks : check'[d] = [open |-> check'[d].open, loose |-> check'[d].loose] /\ check'[d].loose \in Int
          /\ \A d \in Checks : check'[d].open = check[d].open /\ check'[d].loose >= check[d].loose
        BY <1>t, <2>1 DEF RowsTyped
    <2>3. ASSUME NEW d \in Checks, NEW f \in Deals, Usable(d, f) PROVE Usable(d, f)'
        <3>1. check[d].loose \in Int /\ check'[d].loose \in Int /\ f.minimum \in Int /\ check[d].loose >= f.minimum
            BY <1>t, <2>2, <2>3, DealsCount DEF RowsTyped, Usable
        <3>2. check'[d].loose >= f.minimum
            BY <2>2, <3>1
        <3>3. QED
            BY <1>v, <2>1, <2>3, <3>2 DEF Usable, Limited
    <2>4. DOMAIN dialog' = Dialogs /\ \A t \in Dialogs : ListingRight(t)'
        BY <1>u, <2>1, <2>2, <2>3
    <2>5. QED
        BY <1>c, <2>1, <2>2, <2>4
<1>7. ASSUME NEW c \in Checks, Listing!TakeUnit(c) PROVE DealInv'
    <2>0. PICK stale : stale = [d \in Checks |-> IF d = c THEN Deals ELSE {}]
        OBVIOUS
    <2>1. /\ check' = [check EXCEPT ![c].loose = @ - 1] /\ UNCHANGED <<active, today, use>>
          /\ dialog' = Listing!Outdated(stale)
        BY <1>7, <2>0 DEF Listing!TakeUnit
    <2>2. /\ DOMAIN check' = Checks
          /\ \A d \in Checks : check'[d] = [open |-> check'[d].open, loose |-> check'[d].loose] /\ check'[d].loose \in Int
          /\ \A d \in Checks : check'[d].open = check[d].open /\ (d # c => check'[d] = check[d])
        BY <1>t, <2>1 DEF RowsTyped
    <2>3. ASSUME NEW d \in Checks, NEW f \in Deals, f \notin stale[d], Usable(d, f) PROVE Usable(d, f)'
        <3>1. check'[d] = check[d]
            BY <2>0, <2>2, <2>3
        <3>2. QED
            BY <1>v, <2>1, <2>3, <3>1 DEF Usable, Limited
    <2>4. DOMAIN dialog' = Dialogs /\ \A t \in Dialogs : ListingRight(t)'
        BY <1>o, <2>1, <2>2, <2>3
    <2>5. QED
        BY <1>c, <2>1, <2>2, <2>4
<1>8. ASSUME NEW c \in Checks, Listing!Close(c) PROVE DealInv'
    <2>1. check' = [check EXCEPT ![c] = [open |-> FALSE, loose |-> 0]] /\ UNCHANGED <<active, today, use, dialog>>
        BY <1>8 DEF Listing!Close
    <2>2. /\ DOMAIN check' = Checks
          /\ \A d \in Checks : check'[d] = [open |-> check'[d].open, loose |-> check'[d].loose] /\ check'[d].loose \in Int
          /\ \A d \in Checks : check'[d].open => check'[d] = check[d]
        <3>1. DOMAIN check' = Checks /\ \A d \in Checks \ {c} : check'[d] = check[d]
            BY <1>t, <2>1 DEF RowsTyped
        <3>2. check'[c] = [open |-> FALSE, loose |-> 0]
            BY <1>t, <2>1 DEF RowsTyped
        <3>3. check'[c].open = FALSE /\ check'[c].loose = 0
            BY <3>2
        <3>4. check'[c] = [open |-> check'[c].open, loose |-> check'[c].loose] /\ check'[c].loose \in Int
            BY <3>2, <3>3
        <3>5. ASSUME NEW d \in Checks
              PROVE  /\ check'[d] = [open |-> check'[d].open, loose |-> check'[d].loose] /\ check'[d].loose \in Int
                     /\ check'[d].open => check'[d] = check[d]
            <4>1. CASE d = c
                BY <3>3, <3>4, <4>1
            <4>2. CASE d # c
                BY <1>t, <3>1, <4>2 DEF RowsTyped
            <4>3. QED
                BY <4>1, <4>2
        <3>6. QED
            BY <3>1, <3>5
    <2>3. ASSUME NEW d \in Checks, NEW f \in Deals, check'[d].open, Usable(d, f) PROVE Usable(d, f)'
        BY <1>v, <2>1, <2>2, <2>3 DEF Usable, Limited
    <2>4. DOMAIN dialog' = Dialogs /\ \A t \in Dialogs : ListingRight(t)'
        BY <1>u, <2>1, <2>2, <2>3
    <2>5. QED
        BY <1>c, <2>1, <2>2, <2>4
<1>9. ASSUME NEW f \in Deals, Listing!EditDeal(f) PROVE DealInv'
    <2>0. PICK stale : stale = [d \in Checks |-> {f}]
        OBVIOUS
    <2>1. /\ active' = IF f \in active THEN active \ {f} ELSE active \union {f}
          /\ dialog' = Listing!Outdated(stale) /\ UNCHANGED <<check, today, use>>
        BY <1>9, <2>0 DEF Listing!EditDeal
    <2>2. ASSUME NEW d \in Checks, NEW g \in Deals, g \notin stale[d], Usable(d, g) PROVE Usable(d, g)'
        <3>1. g \in active => g \in active'
            BY <2>0, <2>1, <2>2
        <3>2. QED
            BY <1>v, <2>1, <2>2, <3>1 DEF Usable, Limited
    <2>3. DOMAIN dialog' = Dialogs /\ \A t \in Dialogs : ListingRight(t)'
        BY <1>o, <2>1, <2>2
    <2>4. QED
        BY <1>c, <1>t, <2>1, <2>3 DEF RowsTyped
<1>10. CASE Listing!NextDay
    <2>0. PICK stale : stale = [d \in Checks |-> Deals]
        OBVIOUS
    <2>1. dialog' = Listing!Outdated(stale) /\ UNCHANGED <<check, active, use>>
        BY <1>10, <2>0 DEF Listing!NextDay
    <2>2. DOMAIN dialog' = Dialogs /\ \A t \in Dialogs : ListingRight(t)'
        BY <1>o, <2>0, <2>1
    <2>3. QED
        BY <1>c, <1>t, <2>1, <2>2 DEF RowsTyped
<1> QED
    BY <1>0, <1>1, <1>3, <1>4, <1>5, <1>6, <1>7, <1>8, <1>9, <1>10 DEF Listing!Next

LEMMA DealsAllowed == DealInv => Listing!UsesAreAllowed
<1> SUFFICES ASSUME DealInv, NEW f \in Deals
             PROVE  /\ (\A u \in UsesIn(use, f) : use[u].fresh) =>
                         /\ Limited(f, "once_per_order") =>
                              \A u, v \in UsesIn(use, f) : use[u].check = use[v].check => u = v
                         /\ Limited(f, "daily") =>
                              \A d \in Days : Listing!Cardinality({u \in UsesIn(use, f) : use[u].day = d}) <= f.value
                         /\ Limited(f, "monthly") => Listing!Cardinality(UsesIn(use, f)) <= f.value
                    /\ \A u \in UsesIn(use, f) : use[u].owed
    <2>1. \A f \in Deals : Listing!Uses(f) = UsesIn(use, f)
        BY DEF Listing!Uses, UsesIn
    <2>2. QED
        BY <2>1 DEF Listing!UsesAreAllowed, Limited
<1>1. \A u \in UsesIn(use, f) : use[u].owed
    BY DEF DealInv, RowsTyped, UsesIn
<1>2. ASSUME \A u \in UsesIn(use, f) : use[u].fresh, Limited(f, "once_per_order"),
             NEW u \in UsesIn(use, f), NEW v \in UsesIn(use, f), use[u].check = use[v].check
      PROVE  u = v
    <2>1. PICK c : c = use[u].check
        OBVIOUS
    <2>2. u \in FreshBy(f, c) /\ v \in FreshBy(f, c)
        BY <1>2, <2>1 DEF FreshBy, UsedBy
    <2>3. QED
        BY <1>2, <2>2 DEF DealInv, WithinLimits
<1>3. ASSUME \A u \in UsesIn(use, f) : use[u].fresh, Limited(f, "daily"), NEW d \in Days
      PROVE  Listing!Cardinality({u \in UsesIn(use, f) : use[u].day = d}) <= f.value
    <2>1. {u \in UsesIn(use, f) : use[u].day = d} = FreshOn(f, d)
        BY <1>3 DEF FreshOn, UsedOn
    <2>2. Cardinality(FreshOn(f, d)) <= f.value
        BY <1>3 DEF DealInv, WithinLimits
    <2>3. QED
        BY <2>1, <2>2, SameCount
<1>4. ASSUME \A u \in UsesIn(use, f) : use[u].fresh, Limited(f, "monthly")
      PROVE  Listing!Cardinality(UsesIn(use, f)) <= f.value
    <2>1. UsesIn(use, f) = FreshOf(f)
        BY <1>4 DEF FreshOf
    <2>2. Cardinality(FreshOf(f)) <= f.value
        BY <1>4 DEF DealInv, WithinLimits
    <2>3. QED
        BY <2>1, <2>2, SameCount
<1>5. QED
    BY <1>1, <1>2, <1>3, <1>4

-----------------------------------------------------------------------------
(* Tills *)

LEMMA CounterSteps == PremisesSpec => Counter!Init /\ [][Counter!Next]_tillVars
<1>1. PremisesInit => Counter!Init
    BY DEF PremisesInit
<1>2. [PremisesNext]_premisesVars => [Counter!Next]_tillVars
    BY DEF PremisesNext, premisesVars, tillVars
<1>3. PremisesSpec => PremisesInit /\ [][PremisesNext]_premisesVars
    BY PTL DEF PremisesSpec, premisesVars
<1>4. QED
    BY <1>1, <1>2, <1>3, PTL

SomeCarts == Carts \union {NoCart}

\* A request under way: one that sets a quantity has the line and what it read.
Pressing(r) == press[r] # Counter!Idle
PressRow(x) ==
    /\ x = [step |-> x.step, at |-> x.at, mine |-> x.mine, written |-> x.written]
    /\ x.step \in {"begun", "cart", "done"} /\ x.at \in Tills /\ x.mine \in SomeCarts
    /\ x.written \in BOOLEAN /\ (x.step = "begun" => x.written = FALSE)
SettingRow(x) ==
    /\ x = [step |-> "set", at |-> x.at, mine |-> x.mine, written |-> x.written,
            line |-> x.line, by |-> x.by, qty |-> x.qty]
    /\ x.at \in Tills /\ x.mine \in SomeCarts /\ x.written \in BOOLEAN
    /\ x.line \in CartItems /\ x.by \in Int /\ x.qty \in Int

\* Requests that share a cart or a session have their carts crossed; until its request
\* writes, a session has the cart the request took from it.
PressesTyped ==
    /\ DOMAIN till = Tills /\ \A t \in Tills : till[t] \in SomeCarts
    /\ DOMAIN press = Presses
    /\ \A r \in Presses : Pressing(r) => PressRow(press[r]) \/ SettingRow(press[r])
SharingCrosses ==
    \A r \in Presses : \A q \in Presses \ {r} : Pressing(r) /\ Pressing(q) =>
        /\ press[r].mine = press[q].mine => press[r].mine \in crossed \union {NoCart}
        /\ press[r].at = press[q].at => press[r].mine \in crossed \union {NoCart}
SessionsKeep ==
    \A r \in Presses : Pressing(r) /\ ~press[r].written =>
        \/ till[press[r].at] = press[r].mine
        \/ {till[press[r].at], press[r].mine} \subseteq crossed \union {NoCart}
PointersRight == PressesTyped /\ SharingCrosses /\ SessionsKeep

CartRow(x) ==
    /\ x = [state |-> x.state, table |-> x.table, paid |-> x.paid]
    /\ x.state \in {"none", "open", "settled", "void"}
    /\ x.paid = IF x.state = "settled" THEN 1 ELSE 0
Notes == {"", "extra"}
LineRow(x) ==
    /\ x = [live |-> x.live, cart |-> x.cart, product |-> x.product, qty |-> x.qty,
            note |-> x.note, combo |-> x.combo, ticket |-> x.ticket]
    /\ x.live \in BOOLEAN /\ x.qty \in 1..MaxUnits /\ x.note \in Notes

CartsTyped == DOMAIN cart = Carts /\ \A o \in Carts : CartRow(cart[o])
LinesTyped ==
    /\ DOMAIN item = CartItems /\ DOMAIN intended = CartItems
    /\ \A i \in CartItems : intended[i] \in Int /\ (item[i] = Counter!NoItem \/ LineRow(item[i]))
\* What a ticket says is what its line has, unless the line was changed since.
TicketsMatch ==
    \A i \in CartItems : item[i] # Counter!NoItem /\ item[i].ticket # NoTicket /\ i \notin late =>
        item[i].ticket = [qty |-> item[i].qty, note |-> item[i].note]
SettledIsSent == \A o \in Carts : cart[o].state = "settled" => Counter!Pending(o) = {}
\* A quantity about to be set is the one its press asks for.
SetsRight ==
    \A r \in Presses : press[r].step = "set" =>
        LET i == press[r].line IN
        /\ item[i] # Counter!NoItem /\ item[i].cart = press[r].mine
        /\ item[i].live => press[r].qty = intended[i] + press[r].by \/ press[r].mine \in crossed
LinesRight == CartsTyped /\ LinesTyped /\ TicketsMatch /\ SettledIsSent /\ SetsRight /\ Counter!PressesCount

\* A cart is held by a request, or by a session that no request is about to turn away.
HeldBySession(o, t) ==
    /\ till[t] = o
    /\ \A r \in Presses : Pressing(r) /\ press[r].at = t /\ press[r].written => press[r].mine = o
Held(o) ==
    \/ \E r \in Presses : Pressing(r) /\ press[r].mine = o
    \/ \E t \in Tills : HeldBySession(o, t)
Waiting(o) == Counter!IsOpen(o) /\ Counter!Pending(o) # {}
WaitingIsHeld == \A o \in Carts : Waiting(o) => o \in crossed \union left \/ Held(o)

TillInv == PointersRight /\ LinesRight /\ WaitingIsHeld

LEMMA SameCardinal ==
    ASSUME NEW S
    PROVE  Counter!Cardinality(S) = Cardinality(S)
BY DEF Counter!Cardinality, Cardinality

LEMMA TillBasics ==
    /\ NoCart \notin Carts /\ IsFiniteSet(CartItems) /\ IsFiniteSet(Products)
    /\ MaxUnits \in Nat /\ 1 \in 1..MaxUnits
    /\ \A q \in 1..MaxUnits : \A n \in Notes : NoTicket # [qty |-> q, note |-> n]
<1>1. NoCart \notin Carts
    BY PremisesAssumption, Zenon DEF PremisesAssumption
<1>2. IsFiniteSet(CartItems) /\ IsFiniteSet(Products)
    BY PremisesAssumption, Zenon DEF PremisesAssumption
<1>3. MaxUnits \in Nat \ {0}
    BY PremisesAssumption, Zenon DEF PremisesAssumption
<1>4. \A q \in 1..MaxUnits, n \in {"", "extra"} : NoTicket # [qty |-> q, note |-> n]
    BY PremisesAssumption, Zenon DEF PremisesAssumption
<1>5. MaxUnits \in Nat /\ 1 \in 1..MaxUnits
    BY <1>3
<1>6. QED
    BY <1>1, <1>2, <1>4, <1>5, Zenon DEF Notes

\* Products find rows of their own when there are rows enough.
LEMMA PlacesExist ==
    ASSUME NEW goods, NEW free, IsFiniteSet(goods), IsFiniteSet(free),
           Cardinality(goods) <= Cardinality(free)
    PROVE  \E f \in [goods -> free] : \A p, q \in goods : p # q => f[p] # f[q]
<1>1. PICK n \in Nat : n = Cardinality(goods) /\ ExistsBijection(1..n, goods)
    BY FS_CardinalityType
<1>2. PICK m \in Nat : m = Cardinality(free) /\ ExistsBijection(1..m, free)
    BY FS_CardinalityType
<1>3. PICK g : g \in Surjection(1..n, goods)
    BY <1>1 DEF ExistsBijection, Bijection
<1>4. PICK h : h \in Injection(1..m, free)
    BY <1>2 DEF ExistsBijection, Bijection
<1> DEFINE number(p) == CHOOSE k \in 1..n : g[k] = p
           f == [p \in goods |-> h[number(p)]]
<1>5. \A p \in goods : number(p) \in 1..n /\ g[number(p)] = p
    BY <1>3 DEF Surjection
<1>6. \A p \in goods : number(p) \in 1..m
    <2>1. n <= m
        BY <1>1, <1>2
    <2>2. \A k \in 1..n : k \in 1..m
        BY <2>1
    <2>3. QED
        BY <1>5, <2>2
<1>7. /\ h \in [1..m -> free]
      /\ \A j, k \in 1..m : h[j] = h[k] => j = k
    BY <1>4 DEF Injection, IsInjective
<1>8. f \in [goods -> free]
    BY <1>6, <1>7
<1>9. ASSUME NEW p \in goods, NEW q \in goods, f[p] = f[q] PROVE p = q
    <2>1. h[number(p)] = h[number(q)]
        BY <1>9
    <2>2. number(p) = number(q)
        BY <1>6, <1>7, <2>1
    <2>3. QED
        BY <1>5, <2>2
<1>10. QED
    BY <1>8, <1>9

\* Lines as they are made and sent.
NewOn(o, x) ==
    /\ LineRow(x) /\ x # Counter!NoItem
    /\ x.live = TRUE /\ x.cart = o /\ x.qty = 1 /\ x.ticket = NoTicket
Copied(x, y) ==
    /\ LineRow(y) /\ y # Counter!NoItem
    /\ y.live = x.live /\ y.cart = x.cart /\ y.qty = x.qty /\ y.note = x.note
    /\ y.ticket = [qty |-> y.qty, note |-> y.note] /\ y.ticket # NoTicket

LEMMA NewRow ==
    ASSUME NEW o, NEW p, NEW combo
    PROVE  NewOn(o, Counter!NewItem(o, p, combo))
<1>x. PICK x : x = Counter!NewItem(o, p, combo)
    OBVIOUS
<1>1. PICK none \in Notes : none = ""
    BY Zenon DEF Notes
<1>2. x = [live |-> TRUE, cart |-> o, product |-> p, qty |-> 1, note |-> none,
           combo |-> combo, ticket |-> NoTicket]
    BY <1>1, <1>x, Zenon DEF Counter!NewItem
<1>3. x.live = TRUE /\ x.cart = o /\ x.product = p /\ x.qty = 1 /\ x.note = none
      /\ x.combo = combo /\ x.ticket = NoTicket
    BY <1>2
<1>4. LineRow(x)
    BY <1>2, <1>3, TillBasics DEF LineRow
<1>5. x # Counter!NoItem
    BY <1>2 DEF Counter!NoItem
<1> QED
    BY <1>3, <1>4, <1>5, <1>x, Zenon DEF NewOn

LEMMA SentRow ==
    ASSUME NEW x, LineRow(x)
    PROVE  Copied(x, Counter!Sent(x))
<1>y. PICK y : y = Counter!Sent(x)
    OBVIOUS
<1>1. x = [live |-> x.live, cart |-> x.cart, product |-> x.product, qty |-> x.qty,
           note |-> x.note, combo |-> x.combo, ticket |-> x.ticket]
      /\ x.live \in BOOLEAN /\ x.qty \in 1..MaxUnits /\ x.note \in Notes
    BY DEF LineRow
<1>2. PICK slip : slip = [qty |-> x.qty, note |-> x.note]
    OBVIOUS
<1>3. y = [x EXCEPT !.ticket = slip]
    BY <1>2, <1>y DEF Counter!Sent
<1>4. y = [live |-> x.live, cart |-> x.cart, product |-> x.product, qty |-> x.qty,
           note |-> x.note, combo |-> x.combo, ticket |-> slip]
    BY <1>1, <1>3
<1>5. y.live = x.live /\ y.cart = x.cart /\ y.product = x.product /\ y.qty = x.qty
      /\ y.note = x.note /\ y.combo = x.combo /\ y.ticket = slip
    BY <1>4
<1>6. slip # NoTicket
    BY <1>1, <1>2, TillBasics
<1>7. LineRow(y) /\ y # Counter!NoItem
    BY <1>1, <1>4, <1>5 DEF LineRow, Counter!NoItem
<1> QED
    BY <1>2, <1>5, <1>6, <1>7, <1>y, Zenon DEF Copied

LEMMA TillInit == Counter!Init => TillInv
<1> SUFFICES ASSUME Counter!Init PROVE TillInv
    OBVIOUS
<1>1. /\ till = [t \in Tills |-> NoCart] /\ press = [r \in Presses |-> Counter!Idle]
    BY Zenon DEF Counter!Init
<1>2. PointersRight
    BY <1>1, TillBasics DEF PointersRight, PressesTyped, SharingCrosses, SessionsKeep, Pressing, SomeCarts
<1>3. \A r \in Presses : press[r].step # "set"
    BY <1>1 DEF Counter!Idle
<1>4. PICK seated \in {{}, {CHOOSE o \in Carts : TRUE}}, p \in Products :
         LET dish == IF seated = {} THEN {} ELSE {CHOOSE i \in CartItems : TRUE} IN
         /\ cart = [o \in Carts |-> [state |-> IF o \in seated THEN "open" ELSE "none",
                                    table |-> o \in seated, paid |-> 0]]
         /\ item = [i \in CartItems |->
                      IF i \in dish THEN Counter!Sent(Counter!NewItem(CHOOSE o \in seated : TRUE, p, FALSE))
                      ELSE Counter!NoItem]
         /\ intended = [i \in CartItems |-> IF i \in dish THEN 1 ELSE 0]
    BY Zenon DEF Counter!Init
<1>5. PICK s : s = CHOOSE o \in seated : TRUE
    OBVIOUS
<1>6. PICK dish : dish = IF seated = {} THEN {} ELSE {CHOOSE i \in CartItems : TRUE}
    OBVIOUS
<1>7. PICK no \in BOOLEAN : no = FALSE
    OBVIOUS
<1>f. PICK fresh : fresh = Counter!NewItem(s, p, no)
    OBVIOUS
<1>8. PICK row : row = Counter!Sent(fresh)
    OBVIOUS
<1>9. /\ cart = [o \in Carts |-> [state |-> IF o \in seated THEN "open" ELSE "none",
                                  table |-> o \in seated, paid |-> 0]]
      /\ item = [i \in CartItems |-> IF i \in dish THEN row ELSE Counter!NoItem]
      /\ intended = [i \in CartItems |-> IF i \in dish THEN 1 ELSE 0]
    BY <1>4, <1>5, <1>6, <1>7, <1>8, <1>f, Zenon
<1>i. item = [i \in CartItems |-> IF i \in dish THEN row ELSE Counter!NoItem]
      /\ intended = [i \in CartItems |-> IF i \in dish THEN 1 ELSE 0]
    BY <1>9, Zenon
<1>l. LineRow(fresh) /\ fresh.live = TRUE /\ fresh.qty = 1
    <2>1. NewOn(s, Counter!NewItem(s, p, no))
        BY NewRow
    <2>2. NewOn(s, fresh)
        BY <1>f, <2>1, Zenon
    <2>3. QED
        BY <2>2 DEF NewOn
<1>10. /\ LineRow(row) /\ row # Counter!NoItem /\ row.live = TRUE /\ row.qty = 1
       /\ row.ticket = [qty |-> row.qty, note |-> row.note] /\ row.ticket # NoTicket
    BY <1>8, <1>l, SentRow, Zenon DEF Copied
<1>12. \A i \in CartItems : item[i].live => item[i] = row /\ intended[i] = 1
    BY <1>i DEF Counter!NoItem
<1>13. \A o \in Carts : Counter!Pending(o) = {}
    BY <1>10, <1>12 DEF Counter!Pending, Counter!Active, Counter!LinesOf
<1>14. CartsTyped
    <2>1. ASSUME NEW o \in Carts PROVE CartRow(cart[o])
        <3>1. PICK b : b = (o \in seated)
            OBVIOUS
        <3>2. cart[o] = [state |-> IF o \in seated THEN "open" ELSE "none", table |-> o \in seated, paid |-> 0]
            BY <1>9, Zenon
        <3>3. PICK w \in {"open", "none"} : w = IF o \in seated THEN "open" ELSE "none"
            OBVIOUS
        <3>4. cart[o] = [state |-> w, table |-> b, paid |-> 0]
            BY <3>1, <3>2, <3>3, Zenon
        <3>5. cart[o].state = w /\ cart[o].table = b /\ cart[o].paid = 0
            BY <3>4
        <3>6. QED
            BY <3>4, <3>5 DEF CartRow
    <2>2. QED
        BY <1>9, <2>1, Zenon DEF CartsTyped
<1>15. LinesTyped /\ TicketsMatch
    <2>1. \A i \in CartItems : item[i] = row \/ item[i] = Counter!NoItem
        BY <1>i
    <2>2. DOMAIN item = CartItems /\ DOMAIN intended = CartItems /\ \A i \in CartItems : intended[i] \in Int
        BY <1>i
    <2>3. QED
        BY <1>10, <2>1, <2>2 DEF LinesTyped, TicketsMatch
<1>16. SettledIsSent /\ SetsRight /\ WaitingIsHeld
    BY <1>3, <1>13 DEF SettledIsSent, SetsRight, WaitingIsHeld, Waiting
<1>17. Counter!PressesCount
    BY <1>10, <1>12 DEF Counter!PressesCount
<1>18. QED
    BY <1>2, <1>14, <1>15, <1>16, <1>17 DEF TillInv, LinesRight

\* What a request's step does to the requests: it goes on with what it holds, turns to
\* another cart, or is over.
OthersStay(r) == DOMAIN press' = Presses /\ \A q \in Presses \ {r} : press'[q] = press[q]
GoesOn(r) ==
    /\ OthersStay(r) /\ Pressing(r)
    /\ PressRow(press'[r]) \/ SettingRow(press'[r])
    /\ press'[r].at = press[r].at /\ press'[r].mine = press[r].mine /\ press'[r].written = press[r].written
TurnsTo(r, o) ==
    /\ OthersStay(r) /\ Pressing(r) /\ press[r].written = FALSE
    /\ PressRow(press'[r])
    /\ press'[r].at = press[r].at /\ press'[r].mine = o /\ press'[r].written = TRUE

LEMMA RowsArePressing ==
    \A x : PressRow(x) \/ SettingRow(x) => x # Counter!Idle
BY DEF PressRow, SettingRow, Counter!Idle

LEMMA StepsArePressing ==
    ASSUME PressesTyped, NEW r \in Presses, press[r].step \in {"begun", "cart", "done"}
    PROVE  Pressing(r) /\ PressRow(press[r])
BY DEF PressesTyped, Pressing, PressRow, SettingRow, Counter!Idle

LEMMA GoingOn ==
    ASSUME PressesTyped, NEW r \in Presses, press[r].step \in {"begun", "cart"},
           NEW s \in {"cart", "done"}, Counter!Goes(r, s)
    PROVE  GoesOn(r) /\ press'[r].step = s
<1>1. Pressing(r) /\ PressRow(press[r])
    BY StepsArePressing
<1>2. press' = [press EXCEPT ![r].step = s] /\ DOMAIN press = Presses
    BY DEF Counter!Goes, PressesTyped
<1>3. OthersStay(r) /\ press'[r] = [press[r] EXCEPT !.step = s]
    BY <1>2 DEF OthersStay
<1>4. PICK a, m, w : a = press[r].at /\ m = press[r].mine /\ w = press[r].written
    OBVIOUS
<1>5. press[r] = [step |-> press[r].step, at |-> a, mine |-> m, written |-> w]
      /\ a \in Tills /\ m \in SomeCarts /\ w \in BOOLEAN
    BY <1>1, <1>4 DEF PressRow
<1>6. press'[r] = [step |-> s, at |-> a, mine |-> m, written |-> w]
    BY <1>3, <1>5
<1>7. press'[r].step = s /\ press'[r].at = a /\ press'[r].mine = m /\ press'[r].written = w
    BY <1>6
<1>8. PressRow(press'[r])
    BY <1>5, <1>6, <1>7 DEF PressRow
<1>9. QED
    BY <1>1, <1>3, <1>4, <1>7, <1>8 DEF GoesOn

LEMMA Turning ==
    ASSUME PressesTyped, NEW r \in Presses, press[r].step = "begun", NEW o \in SomeCarts,
           NEW s \in {"cart", "done"}, Counter!Points(r, o, s)
    PROVE  TurnsTo(r, o) /\ press'[r].step = s
<1>1. Pressing(r) /\ PressRow(press[r])
    BY StepsArePressing
<1>2. press' = [press EXCEPT ![r].mine = o, ![r].written = TRUE, ![r].step = s] /\ DOMAIN press = Presses
    BY DEF Counter!Points, PressesTyped
<1>4. PICK a, m, w : a = press[r].at /\ m = press[r].mine /\ w = press[r].written
    OBVIOUS
<1>5. press[r] = [step |-> "begun", at |-> a, mine |-> m, written |-> w] /\ a \in Tills /\ w = FALSE
    BY <1>1, <1>4 DEF PressRow
<1>6. OthersStay(r) /\ press'[r] = [step |-> s, at |-> a, mine |-> o, written |-> TRUE]
    BY <1>2, <1>5 DEF OthersStay
<1>7. press'[r].step = s /\ press'[r].at = a /\ press'[r].mine = o /\ press'[r].written = TRUE
    BY <1>6
<1>8. PressRow(press'[r])
    BY <1>5, <1>6, <1>7 DEF PressRow
<1>9. QED
    BY <1>1, <1>4, <1>5, <1>6, <1>7, <1>8 DEF TurnsTo

LEMMA GoingOnKeeps ==
    ASSUME PointersRight, NEW r \in Presses, GoesOn(r), UNCHANGED <<till, crossed>>
    PROVE  PointersRight'
<1>1. \A q \in Presses : Pressing(q)' =>
        /\ Pressing(q) /\ press'[q].at = press[q].at
        /\ press'[q].mine = press[q].mine /\ press'[q].written = press[q].written
    BY DEF GoesOn, OthersStay, Pressing
<1>2. PressesTyped'
    BY DEF PointersRight, PressesTyped, GoesOn, OthersStay, Pressing
<1>3. SharingCrosses' /\ SessionsKeep'
    BY <1>1 DEF PointersRight, SharingCrosses, SessionsKeep
<1>4. QED
    BY <1>2, <1>3 DEF PointersRight

LEMMA TurningKeeps ==
    ASSUME PointersRight, NEW r \in Presses, NEW o \in SomeCarts, TurnsTo(r, o), UNCHANGED till,
           \/ o = NoCart /\ UNCHANGED crossed
           \/ crossed' = crossed \union Counter!Shared(r, press[r].at, o)
    PROVE  PointersRight'
<1>1. \A q \in Presses \ {r} : press'[q] = press[q]
    BY DEF TurnsTo, OthersStay
<1>2. PressesTyped'
    BY DEF PointersRight, PressesTyped, TurnsTo, OthersStay, Pressing
<1>3. \A c \in crossed : c \in crossed'
    OBVIOUS
<1>4. SessionsKeep'
    BY <1>1, <1>3 DEF PointersRight, SessionsKeep, TurnsTo, Pressing
<1>5. ASSUME NEW q \in Presses \ {r}, Pressing(q),
             (o # NoCart /\ press[q].mine = o) \/ press[q].at = press[r].at, press[q].mine # NoCart \/ o # NoCart
      PROVE  {o, press[q].mine} \subseteq crossed' \union {NoCart}
    <2>1. CASE crossed' = crossed \union Counter!Shared(r, press[r].at, o)
        <3>1. q \in Counter!Others(r, press[r].at, o)
            BY <1>5 DEF Counter!Others, Counter!Mine, Pressing
        <3>2. {o, press[q].mine} \ {NoCart} \subseteq Counter!Shared(r, press[r].at, o)
            BY <3>1 DEF Counter!Shared, Counter!Mine
        <3>3. QED
            BY <2>1, <3>2
    <2>2. CASE o = NoCart /\ UNCHANGED crossed
        BY <1>5, <2>2 DEF PointersRight, SharingCrosses, TurnsTo
    <2>3. QED
        BY <2>1, <2>2
<1>6. SharingCrosses'
    <2> SUFFICES ASSUME NEW p \in Presses, NEW q \in Presses \ {p}, Pressing(p)', Pressing(q)',
                        (press[p].mine = press[q].mine)' \/ (press[p].at = press[q].at)'
                 PROVE  (press[p].mine)' \in crossed' \union {NoCart}
        BY DEF SharingCrosses
    <2>1. CASE p # r /\ q # r
        BY <1>1, <1>3, <2>1 DEF PointersRight, SharingCrosses, Pressing
    <2>2. CASE p = r
        BY <1>1, <1>5, <2>2 DEF TurnsTo, Pressing
    <2>3. CASE q = r
        BY <1>1, <1>5, <2>3 DEF TurnsTo, Pressing
    <2>4. QED
        BY <2>1, <2>2, <2>3
<1>7. QED
    BY <1>2, <1>4, <1>6 DEF PointersRight

\* A request that has read the quantity it is to change, and one that changed it.
SetsOff(r, i, by, n) ==
    press' = [press EXCEPT ![r] = [step |-> "set", at |-> @.at, mine |-> @.mine,
                written |-> @.written, line |-> i, by |-> by, qty |-> n]]
HasSet(r) ==
    press' = [press EXCEPT ![r] = [step |-> "done", at |-> @.at, mine |-> @.mine,
                written |-> @.written]]

LEMMA SettingOff ==
    ASSUME PressesTyped, NEW r \in Presses, press[r].step \in {"begun", "cart"},
           NEW i \in CartItems, NEW by \in Int, NEW n \in Int, SetsOff(r, i, by, n)
    PROVE  /\ GoesOn(r) /\ press'[r].step = "set"
           /\ press'[r].line = i /\ press'[r].by = by /\ press'[r].qty = n
<1>1. Pressing(r) /\ PressRow(press[r])
    BY StepsArePressing
<1>4. PICK a, m, w : a = press[r].at /\ m = press[r].mine /\ w = press[r].written
    OBVIOUS
<1>5. a \in Tills /\ m \in SomeCarts /\ w \in BOOLEAN
    BY <1>1, <1>4 DEF PressRow
<1>6. OthersStay(r) /\ press'[r] = [step |-> "set", at |-> a, mine |-> m, written |-> w,
                                    line |-> i, by |-> by, qty |-> n]
    BY <1>4 DEF PressesTyped, OthersStay, SetsOff
<1>7. /\ press'[r].step = "set" /\ press'[r].at = a /\ press'[r].mine = m /\ press'[r].written = w
      /\ press'[r].line = i /\ press'[r].by = by /\ press'[r].qty = n
    BY <1>6
<1>8. SettingRow(press'[r])
    BY <1>5, <1>6, <1>7 DEF SettingRow
<1>9. QED
    BY <1>1, <1>4, <1>6, <1>7, <1>8 DEF GoesOn

LEMMA HavingSet ==
    ASSUME PressesTyped, NEW r \in Presses, press[r].step = "set", HasSet(r)
    PROVE  SettingRow(press[r]) /\ GoesOn(r) /\ press'[r].step = "done"
<1>1. Pressing(r) /\ SettingRow(press[r])
    BY DEF PressesTyped, Pressing, PressRow, SettingRow, Counter!Idle
<1>4. PICK a, m, w : a = press[r].at /\ m = press[r].mine /\ w = press[r].written
    OBVIOUS
<1>5. a \in Tills /\ m \in SomeCarts /\ w \in BOOLEAN
    BY <1>1, <1>4 DEF SettingRow
<1>6. OthersStay(r) /\ press'[r] = [step |-> "done", at |-> a, mine |-> m, written |-> w]
    BY <1>4 DEF PressesTyped, OthersStay, HasSet
<1>7. press'[r].step = "done" /\ press'[r].at = a /\ press'[r].mine = m /\ press'[r].written = w
    BY <1>6
<1>8. PressRow(press'[r])
    BY <1>5, <1>6, <1>7 DEF PressRow
<1>9. QED
    BY <1>1, <1>4, <1>6, <1>7, <1>8 DEF GoesOn

LEMMA Beginning ==
    ASSUME PointersRight, NEW r \in Presses, NEW t \in Tills, Counter!Begin(r, t)
    PROVE  /\ OthersStay(r) /\ ~Pressing(r) /\ Pressing(r)' /\ press'[r].step = "begun"
           /\ PointersRight'
<1>0. /\ press[r] = Counter!Idle /\ UNCHANGED till
      /\ press' = [press EXCEPT ![r] = [step |-> "begun", at |-> t, mine |-> till[t], written |-> FALSE]]
      /\ crossed' = crossed \union Counter!Shared(r, t, till[t])
    BY DEF Counter!Begin
<1>1. PICK o : o = till[t]
    OBVIOUS
<1>2. OthersStay(r) /\ press'[r] = [step |-> "begun", at |-> t, mine |-> o, written |-> FALSE]
    BY <1>0, <1>1 DEF PointersRight, PressesTyped, OthersStay
<1>3. press'[r].step = "begun" /\ press'[r].at = t /\ press'[r].mine = o /\ press'[r].written = FALSE
    BY <1>2
<1>4. PressRow(press'[r])
    BY <1>1, <1>2, <1>3 DEF PressRow, PointersRight, PressesTyped
<1>5. ~Pressing(r) /\ Pressing(r)'
    BY <1>0, <1>4, RowsArePressing DEF Pressing
<1>6. PressesTyped'
    BY <1>0, <1>2, <1>4 DEF PointersRight, PressesTyped, OthersStay, Pressing
<1>7. SessionsKeep'
    BY <1>0, <1>1, <1>2, <1>3 DEF PointersRight, SessionsKeep, OthersStay, Pressing
<1>8. ASSUME NEW q \in Presses \ {r}, Pressing(q), (o # NoCart /\ press[q].mine = o) \/ press[q].at = t
      PROVE  {o, press[q].mine} \subseteq crossed' \union {NoCart}
    <2>1. q \in Counter!Others(r, t, o)
        BY <1>8 DEF Counter!Others, Counter!Mine, Pressing
    <2>2. {o, press[q].mine} \ {NoCart} \subseteq Counter!Shared(r, t, o)
        BY <2>1 DEF Counter!Shared, Counter!Mine
    <2>3. QED
        BY <1>0, <1>1, <2>2
<1>9. SharingCrosses'
    <2> SUFFICES ASSUME NEW p \in Presses, NEW q \in Presses \ {p}, Pressing(p)', Pressing(q)',
                        (press[p].mine = press[q].mine)' \/ (press[p].at = press[q].at)'
                 PROVE  (press[p].mine)' \in crossed' \union {NoCart}
        BY DEF SharingCrosses
    <2>1. CASE p # r /\ q # r
        BY <1>0, <1>2, <2>1 DEF PointersRight, SharingCrosses, OthersStay, Pressing
    <2>2. CASE p = r
        BY <1>2, <1>3, <1>8, <2>2 DEF OthersStay, Pressing
    <2>3. CASE q = r
        BY <1>2, <1>3, <1>8, <2>3 DEF OthersStay, Pressing
    <2>4. QED
        BY <2>1, <2>2, <2>3
<1>10. QED
    BY <1>2, <1>3, <1>5, <1>6, <1>7, <1>9 DEF PointersRight

\* A request that is over leaves the session as it found it, or writes what it has.
LEMMA Ending ==
    ASSUME PointersRight, NEW r \in Presses, Pressing(r), press' = [press EXCEPT ![r] = Counter!Idle],
           UNCHANGED crossed,
           \/ UNCHANGED till
           \/ press[r].written /\ till' = [till EXCEPT ![press[r].at] = press[r].mine]
    PROVE  OthersStay(r) /\ ~Pressing(r)' /\ PointersRight'
<1>1. OthersStay(r) /\ press'[r] = Counter!Idle
    BY DEF PointersRight, PressesTyped, OthersStay
<1>2. PICK t, o : t = press[r].at /\ o = press[r].mine
    OBVIOUS
<1>3. t \in Tills /\ o \in SomeCarts
    BY <1>2 DEF PointersRight, PressesTyped, PressRow, SettingRow
<1>4. DOMAIN till' = Tills /\ \A x \in Tills : till'[x] = till[x] \/ (x = t /\ till'[x] = o)
    BY <1>2, <1>3 DEF PointersRight, PressesTyped
<1>5. PressesTyped'
    BY <1>1, <1>3, <1>4 DEF PointersRight, PressesTyped, OthersStay, Pressing
<1>6. SharingCrosses'
    BY <1>1 DEF PointersRight, SharingCrosses, OthersStay, Pressing
<1>7. ASSUME NEW q \in Presses, Pressing(q)', ~(press[q].written)'
      PROVE  \/ (till[press[q].at] = press[q].mine)'
             \/ {till[press[q].at], press[q].mine}' \subseteq crossed' \union {NoCart}
    <2>1. q # r /\ press'[q] = press[q] /\ Pressing(q)
        BY <1>1, <1>7 DEF OthersStay, Pressing
    <2>2. PICK x : x = press[q].at
        OBVIOUS
    <2>3. x \in Tills
        BY <2>1, <2>2 DEF PointersRight, PressesTyped, PressRow, SettingRow
    <2>4. CASE till'[x] = till[x]
        BY <1>7, <2>1, <2>2, <2>4 DEF PointersRight, SessionsKeep
    <2>5. CASE x = t /\ till'[x] = o
        <3>1. {o, press[q].mine} \subseteq crossed \union {NoCart}
            BY <1>2, <2>1, <2>2, <2>5 DEF PointersRight, SharingCrosses
        <3>2. QED
            BY <2>1, <2>2, <2>5, <3>1
    <2>6. QED
        BY <1>4, <2>3, <2>4, <2>5
<1>8. SessionsKeep'
    BY <1>7 DEF SessionsKeep
<1>9. QED
    BY <1>1, <1>5, <1>6, <1>8 DEF PointersRight, Pressing

\* Lines that are left, voided or sent, and requests that ask for no other quantity.
Quieter ==
    /\ DOMAIN item' = CartItems
    /\ \A i \in CartItems :
          \/ item'[i] = item[i]
          \/ /\ item[i] # Counter!NoItem /\ item'[i] # Counter!NoItem /\ LineRow(item'[i])
             /\ item'[i].cart = item[i].cart /\ item'[i].qty = item[i].qty /\ item'[i].note = item[i].note
             /\ item'[i].live => item[i].live
             /\ \/ item'[i].ticket = item[i].ticket
                \/ /\ item'[i].ticket = [qty |-> item'[i].qty, note |-> item'[i].note]
                   /\ item'[i].ticket # NoTicket
NoNewSets == \A q \in Presses : press'[q].step = "set" => press'[q] = press[q]

LEMMA QuietLines ==
    ASSUME PressesTyped, LinesRight, Quieter, NoNewSets, UNCHANGED <<intended, late>>,
           crossed \subseteq crossed', CartsTyped',
           \A o \in Carts : cart'[o].state = "settled" => cart[o].state = "settled" \/ Counter!Pending(o)' = {}
    PROVE  LinesRight' /\ \A o \in Carts : Counter!Pending(o)' \subseteq Counter!Pending(o)
<1>1. ASSUME NEW o \in Carts, NEW i \in Counter!Pending(o)' PROVE i \in Counter!Pending(o)
    <2>1. i \in CartItems /\ o # NoCart /\ item'[i].cart = o /\ item'[i].live /\ item'[i].ticket = NoTicket
        BY <1>1 DEF Counter!Pending, Counter!Active, Counter!LinesOf
    <2>2. item[i].cart = o /\ item[i].live /\ item[i].ticket = NoTicket
        BY <2>1 DEF Quieter
    <2>3. QED
        BY <2>1, <2>2 DEF Counter!Pending, Counter!Active, Counter!LinesOf
<1>2. LinesTyped'
    BY DEF LinesRight, LinesTyped, Quieter
<1>3. TicketsMatch'
    BY DEF LinesRight, TicketsMatch, Quieter
<1>4. SettledIsSent'
    BY <1>1 DEF LinesRight, SettledIsSent
<1>5. Counter!PressesCount'
    BY DEF LinesRight, Counter!PressesCount, Quieter
<1>6. ASSUME NEW r \in Presses, press'[r].step = "set", NEW i, i = press'[r].line
      PROVE  /\ item'[i] # Counter!NoItem /\ item'[i].cart = press'[r].mine
             /\ item'[i].live => press'[r].qty = intended'[i] + press'[r].by \/ press'[r].mine \in crossed'
    <2>1. press'[r] = press[r]
        BY <1>6 DEF NoNewSets
    <2>2. i \in CartItems
        BY <1>6, <2>1 DEF PressesTyped, Pressing, PressRow, SettingRow, Counter!Idle
    <2>3. /\ item[i] # Counter!NoItem /\ item[i].cart = press[r].mine
          /\ item[i].live => press[r].qty = intended[i] + press[r].by \/ press[r].mine \in crossed
        BY <1>6, <2>1 DEF LinesRight, SetsRight
    <2>4. QED
        BY <2>1, <2>2, <2>3 DEF Quieter
<1>7. SetsRight'
    BY <1>6 DEF SetsRight
<1>8. QED
    BY <1>1, <1>2, <1>3, <1>4, <1>5, <1>7 DEF LinesRight

\* The lines of an order are sent: none of it is left to send.
LEMMA Sending ==
    ASSUME LinesTyped, NEW o \in Carts, Counter!SendToKitchen(o)
    PROVE  Quieter /\ Counter!Pending(o)' = {}
<1>1. item' = [i \in CartItems |-> IF i \in Counter!Pending(o) THEN Counter!Sent(item[i]) ELSE item[i]]
    BY DEF Counter!SendToKitchen
<1>2. \A i \in CartItems \ Counter!Pending(o) : item'[i] = item[i]
    BY <1>1
<1>3. ASSUME NEW i \in Counter!Pending(o)
      PROVE  i \in CartItems /\ item[i] # Counter!NoItem /\ Copied(item[i], item'[i])
    <2>1. i \in CartItems /\ item[i].live
        BY <1>3 DEF Counter!Pending, Counter!Active, Counter!LinesOf
    <2>2. item[i] # Counter!NoItem /\ LineRow(item[i])
        BY <2>1 DEF LinesTyped, Counter!NoItem
    <2>3. item'[i] = Counter!Sent(item[i])
        BY <1>1, <2>1, <1>3
    <2>4. QED
        BY <2>1, <2>2, <2>3, SentRow
<1>4. Quieter
    BY <1>1, <1>2, <1>3 DEF Quieter, Copied
<1>5. ASSUME NEW i \in Counter!Pending(o)' PROVE FALSE
    <2>1. i \in CartItems /\ item'[i].cart = o /\ item'[i].live /\ item'[i].ticket = NoTicket /\ o # NoCart
        BY <1>5 DEF Counter!Pending, Counter!Active, Counter!LinesOf
    <2>2. i \notin Counter!Pending(o)
        BY <1>3, <2>1 DEF Copied
    <2>3. QED
        BY <1>2, <2>1, <2>2 DEF Counter!Pending, Counter!Active, Counter!LinesOf
<1>6. QED
    BY <1>4, <1>5

\* A line loses its life and nothing else.
LEMMA VoidedRow ==
    ASSUME NEW x, LineRow(x), NEW y, y = [x EXCEPT !.live = FALSE]
    PROVE  /\ LineRow(y) /\ y # Counter!NoItem /\ y.live = FALSE /\ y.cart = x.cart
           /\ y.qty = x.qty /\ y.note = x.note /\ y.ticket = x.ticket
<1>1. x = [live |-> x.live, cart |-> x.cart, product |-> x.product, qty |-> x.qty,
           note |-> x.note, combo |-> x.combo, ticket |-> x.ticket]
      /\ x.qty \in 1..MaxUnits /\ x.note \in Notes
    BY DEF LineRow
<1>2. y = [live |-> FALSE, cart |-> x.cart, product |-> x.product, qty |-> x.qty,
           note |-> x.note, combo |-> x.combo, ticket |-> x.ticket]
    BY <1>1
<1>3. /\ y.live = FALSE /\ y.cart = x.cart /\ y.product = x.product /\ y.qty = x.qty
      /\ y.note = x.note /\ y.combo = x.combo /\ y.ticket = x.ticket
    BY <1>2
<1>4. LineRow(y) /\ y # Counter!NoItem
    BY <1>1, <1>2, <1>3 DEF LineRow, Counter!NoItem
<1>5. QED
    BY <1>3, <1>4

\* Rows without a line get one of the order, as many as there are products.
LEMMA Adding ==
    ASSUME LinesTyped, NEW r \in Presses, NEW goods, IsFiniteSet(goods), NEW combo,
           Counter!AddLines(r, goods, combo)
    PROVE  /\ DOMAIN item' = CartItems /\ DOMAIN intended' = CartItems
           /\ \A i \in CartItems :
                 \/ item'[i] = item[i] /\ intended'[i] = intended[i]
                 \/ item[i] = Counter!NoItem /\ NewOn(press[r].mine, item'[i]) /\ intended'[i] = 1
<1> DEFINE at == Counter!NewLines(press[r].mine, goods)
           added == {at[p] : p \in goods}
           of == [i \in added |-> CHOOSE p \in goods : at[p] = i]
<1>1. /\ Counter!Cardinality(goods) <= Counter!Cardinality(Counter!FreeItems)
      /\ item' = [i \in CartItems |->
                    IF i \in added THEN Counter!NewItem(press[r].mine, of[i], combo) ELSE item[i]]
      /\ intended' = [i \in CartItems |-> IF i \in added THEN 1 ELSE intended[i]]
    BY Zenon DEF Counter!AddLines, Counter!Mine
<1>2. \E f \in [goods -> Counter!FreeItems] : \A p, q \in goods : p # q => f[p] # f[q]
    <2>1. IsFiniteSet(Counter!FreeItems)
        BY TillBasics, FS_Subset DEF Counter!FreeItems
    <2>2. Cardinality(goods) <= Cardinality(Counter!FreeItems)
        BY <1>1, SameCardinal
    <2>3. QED
        BY <2>1, <2>2, PlacesExist
<1>3. at \in [goods -> Counter!FreeItems]
    BY <1>2, Zenon DEF Counter!NewLines
<1>4. \A i \in added : item[i] = Counter!NoItem
    BY <1>3 DEF Counter!FreeItems
<1> HIDE DEF at, added, of
<1>5. ASSUME NEW i \in CartItems
      PROVE  \/ item'[i] = item[i] /\ intended'[i] = intended[i]
             \/ item[i] = Counter!NoItem /\ NewOn(press[r].mine, item'[i]) /\ intended'[i] = 1
    <2>1. CASE i \in added
        <3>1. item'[i] = Counter!NewItem(press[r].mine, of[i], combo) /\ intended'[i] = 1
            BY <1>1, <2>1
        <3>2. NewOn(press[r].mine, item'[i])
            BY <3>1, NewRow
        <3>3. QED
            BY <1>4, <2>1, <3>1, <3>2
    <2>2. CASE i \notin added
        BY <1>1, <2>2
    <2>3. QED
        BY <2>1, <2>2
<1>6. DOMAIN item' = CartItems /\ DOMAIN intended' = CartItems
    BY <1>1
<1>7. QED
    BY <1>5, <1>6

LEMMA AddedLines ==
    ASSUME PressesTyped, LinesRight, NEW r \in Presses, Counter!IsOpen(press[r].mine),
           NEW goods, IsFiniteSet(goods), NEW combo, Counter!AddLines(r, goods, combo),
           NoNewSets, UNCHANGED <<cart, late, crossed>>
    PROVE  LinesRight' /\ \A o \in Carts \ {press[r].mine} : Counter!Pending(o)' \subseteq Counter!Pending(o)
<1>1. PICK m : m = press[r].mine
    OBVIOUS
<1>2. /\ DOMAIN item' = CartItems /\ DOMAIN intended' = CartItems
      /\ \A i \in CartItems :
            \/ item'[i] = item[i] /\ intended'[i] = intended[i]
            \/ item[i] = Counter!NoItem /\ NewOn(m, item'[i]) /\ intended'[i] = 1
    BY <1>1, Adding DEF LinesRight
<1>3. cart[m].state # "settled"
    BY <1>1 DEF Counter!IsOpen
<1>4. ASSUME NEW o \in Carts \ {m} PROVE Counter!Pending(o)' \subseteq Counter!Pending(o)
    BY <1>2, <1>4 DEF NewOn, Counter!Pending, Counter!Active, Counter!LinesOf
<1>5. CartsTyped'
    BY DEF LinesRight, CartsTyped
<1>6. LinesTyped'
    BY <1>2 DEF LinesRight, LinesTyped, NewOn
<1>7. TicketsMatch'
    BY <1>2 DEF LinesRight, TicketsMatch, NewOn
<1>8. SettledIsSent'
    BY <1>3, <1>4 DEF LinesRight, SettledIsSent
<1>9. Counter!PressesCount'
    BY <1>2 DEF LinesRight, Counter!PressesCount, NewOn
<1>10. ASSUME NEW q \in Presses, press'[q].step = "set", NEW i, i = press'[q].line
       PROVE  /\ item'[i] # Counter!NoItem /\ item'[i].cart = press'[q].mine
              /\ item'[i].live => press'[q].qty = intended'[i] + press'[q].by \/ press'[q].mine \in crossed'
    <2>1. press'[q] = press[q]
        BY <1>10 DEF NoNewSets
    <2>2. i \in CartItems
        BY <1>10, <2>1 DEF PressesTyped, Pressing, PressRow, SettingRow, Counter!Idle
    <2>3. /\ item[i] # Counter!NoItem /\ item[i].cart = press[q].mine
          /\ item[i].live => press[q].qty = intended[i] + press[q].by \/ press[q].mine \in crossed
        BY <1>10, <2>1 DEF LinesRight, SetsRight
    <2>4. item'[i] = item[i] /\ intended'[i] = intended[i]
        BY <1>2, <2>2, <2>3
    <2>5. QED
        BY <2>1, <2>3, <2>4
<1>11. SetsRight'
    BY <1>10 DEF SetsRight
<1>12. QED
    BY <1>1, <1>4, <1>5, <1>6, <1>7, <1>8, <1>9, <1>11 DEF LinesRight

\* A line is about to be set to one unit more or less than it has.
LEMMA AboutToSet ==
    ASSUME PressesTyped, LinesRight, NEW r \in Presses, NEW i \in Counter!LinesOf(press[r].mine),
           NEW by \in Int, item[i].qty \in Int, GoesOn(r),
           press'[r].line = i, press'[r].by = by, press'[r].qty = item[i].qty + by,
           UNCHANGED <<cart, item, intended, late, crossed>>
    PROVE  LinesRight'
<1>1. i \in CartItems /\ item[i] # Counter!NoItem /\ item[i].cart = press[r].mine
    BY TillBasics DEF Counter!LinesOf, Counter!NoItem
<1>2. item[i].live => item[i].qty = intended[i] \/ item[i].cart \in crossed
    BY <1>1 DEF LinesRight, Counter!PressesCount
<1>3. ASSUME NEW q \in Presses, press'[q].step = "set", NEW j, j = press'[q].line
      PROVE  /\ item'[j] # Counter!NoItem /\ item'[j].cart = press'[q].mine
             /\ item'[j].live => press'[q].qty = intended'[j] + press'[q].by \/ press'[q].mine \in crossed'
    <2>1. CASE q = r
        BY <1>1, <1>2, <1>3, <2>1 DEF GoesOn
    <2>2. CASE q # r
        <3>1. press'[q] = press[q]
            BY <2>2 DEF GoesOn, OthersStay
        <3>2. /\ item[j] # Counter!NoItem /\ item[j].cart = press[q].mine
              /\ item[j].live => press[q].qty = intended[j] + press[q].by \/ press[q].mine \in crossed
            BY <1>3, <3>1 DEF LinesRight, SetsRight
        <3>3. QED
            BY <3>1, <3>2
    <2>3. QED
        BY <2>1, <2>2
<1>4. SetsRight'
    BY <1>3 DEF SetsRight
<1>5. CartsTyped' /\ LinesTyped' /\ TicketsMatch' /\ Counter!PressesCount'
    BY DEF LinesRight, CartsTyped, LinesTyped, TicketsMatch, Counter!PressesCount
<1>6. SettledIsSent'
    BY DEF LinesRight, SettledIsSent, Counter!Pending, Counter!Active, Counter!LinesOf
<1>7. QED
    BY <1>4, <1>5, <1>6 DEF LinesRight

LEMMA QuantitySet ==
    ASSUME PointersRight, LinesRight, NEW r \in Presses, Counter!SetQty(r)
    PROVE  /\ GoesOn(r) /\ LinesRight' /\ UNCHANGED <<till, cart, crossed, left>>
           /\ \A o \in Carts : Counter!Pending(o)' \subseteq Counter!Pending(o)
<1>1. PICK i, n, by, m : i = press[r].line /\ n = press[r].qty /\ by = press[r].by /\ m = press[r].mine
    OBVIOUS
<1>2. /\ press[r].step = "set" /\ Counter!IsOpen(m) /\ item[i].live /\ n <= MaxUnits
      /\ item' = [item EXCEPT ![i] = IF n <= 0 THEN [@ EXCEPT !.live = FALSE] ELSE [@ EXCEPT !.qty = n]]
      /\ intended' = [intended EXCEPT ![i] = @ + by]
      /\ late' = Counter!Changed(i)
      /\ HasSet(r) /\ UNCHANGED <<till, cart, crossed, left>>
    BY <1>1 DEF Counter!SetQty, Counter!Mine, HasSet
<1>3. PressesTyped
    BY DEF PointersRight
<1>4. SettingRow(press[r]) /\ GoesOn(r) /\ press'[r].step = "done"
    BY <1>2, <1>3, HavingSet
<1>5. i \in CartItems /\ n \in Int /\ by \in Int /\ m \in Carts
    BY <1>1, <1>2, <1>4 DEF SettingRow, SomeCarts, Counter!IsOpen
<1>6. item[i].cart = m /\ (n = intended[i] + by \/ m \in crossed)
    BY <1>1, <1>2 DEF LinesRight, SetsRight
<1>7. PICK x : x = item[i]
    OBVIOUS
<1>8. LineRow(x) /\ x # Counter!NoItem /\ x.live = TRUE /\ x.cart = m
    BY <1>2, <1>5, <1>6, <1>7 DEF LinesRight, LinesTyped, LineRow, Counter!NoItem
<1>9. PICK y : y = IF n <= 0 THEN [x EXCEPT !.live = FALSE] ELSE [x EXCEPT !.qty = n]
    OBVIOUS
<1>10. /\ LineRow(y) /\ y # Counter!NoItem /\ y.cart = m /\ y.ticket = x.ticket
       /\ y.live => y.qty = n
    <2>1. CASE n <= 0
        <3>1. y = [x EXCEPT !.live = FALSE]
            BY <1>9, <2>1
        <3>2. QED
            BY <1>8, <3>1, VoidedRow
    <2>2. CASE ~(n <= 0)
        <3>1. x = [live |-> x.live, cart |-> x.cart, product |-> x.product, qty |-> x.qty,
                   note |-> x.note, combo |-> x.combo, ticket |-> x.ticket]
              /\ x.live \in BOOLEAN /\ x.note \in Notes
            BY <1>8 DEF LineRow
        <3>2. y = [live |-> x.live, cart |-> x.cart, product |-> x.product, qty |-> n,
                   note |-> x.note, combo |-> x.combo, ticket |-> x.ticket]
            BY <1>9, <2>2, <3>1
        <3>3. /\ y.live = x.live /\ y.cart = x.cart /\ y.product = x.product /\ y.qty = n
              /\ y.note = x.note /\ y.combo = x.combo /\ y.ticket = x.ticket
            BY <3>2
        <3>4. n \in 1..MaxUnits
            BY <1>2, <1>5, <2>2, TillBasics
        <3>5. LineRow(y) /\ y # Counter!NoItem
            BY <3>1, <3>2, <3>3, <3>4 DEF LineRow, Counter!NoItem
        <3>6. QED
            BY <1>8, <3>3, <3>5
    <2>3. QED
        BY <2>1, <2>2
<1>11. /\ DOMAIN item' = CartItems /\ item'[i] = y
       /\ \A j \in CartItems \ {i} : item'[j] = item[j]
    BY <1>2, <1>5, <1>7, <1>9 DEF LinesRight, LinesTyped
<1>12. /\ DOMAIN intended' = CartItems /\ intended'[i] = intended[i] + by /\ intended[i] \in Int
       /\ \A j \in CartItems \ {i} : intended'[j] = intended[j]
    BY <1>2, <1>5 DEF LinesRight, LinesTyped
<1>13. late \subseteq late' /\ (x.ticket # NoTicket => i \in late')
    BY <1>2, <1>7 DEF Counter!Changed
<1>14. CartsTyped'
    BY <1>2 DEF LinesRight, CartsTyped
<1>15. LinesTyped'
    BY <1>5, <1>10, <1>11, <1>12 DEF LinesRight, LinesTyped
<1>16. TicketsMatch'
    BY <1>10, <1>11, <1>13 DEF LinesRight, TicketsMatch
<1>17. Counter!PressesCount'
    BY <1>2, <1>6, <1>10, <1>11, <1>12 DEF LinesRight, Counter!PressesCount
<1>18. ASSUME NEW o \in Carts PROVE Counter!Pending(o)' \subseteq Counter!Pending(o)
    BY <1>5, <1>7, <1>8, <1>10, <1>11 DEF Counter!Pending, Counter!Active, Counter!LinesOf
<1>19. SettledIsSent'
    BY <1>2, <1>18 DEF LinesRight, SettledIsSent
<1>20. ASSUME NEW q \in Presses, press'[q].step = "set", NEW j, j = press'[q].line
       PROVE  /\ item'[j] # Counter!NoItem /\ item'[j].cart = press'[q].mine
              /\ item'[j].live => press'[q].qty = intended'[j] + press'[q].by \/ press'[q].mine \in crossed'
    <2>1. q # r /\ press'[q] = press[q]
        BY <1>4, <1>20 DEF GoesOn, OthersStay
    <2>2. j \in CartItems /\ Pressing(q)
        BY <1>3, <1>20, <2>1 DEF PressesTyped, Pressing, PressRow, SettingRow, Counter!Idle
    <2>3. /\ item[j] # Counter!NoItem /\ item[j].cart = press[q].mine
          /\ item[j].live => press[q].qty = intended[j] + press[q].by \/ press[q].mine \in crossed
        BY <1>20, <2>1 DEF LinesRight, SetsRight
    <2>4. CASE j # i
        BY <1>2, <1>11, <1>12, <2>1, <2>2, <2>3, <2>4
    <2>5. CASE j = i
        <3>1. press[q].mine = m /\ Pressing(r)
            BY <1>6, <1>4, <2>3, <2>5 DEF GoesOn
        <3>2. m \in crossed
            BY <1>1, <1>5, <2>1, <2>2, <3>1, TillBasics DEF PointersRight, SharingCrosses
        <3>3. QED
            BY <1>2, <1>10, <1>11, <2>1, <2>5, <3>1, <3>2
    <2>6. QED
        BY <2>4, <2>5
<1>21. SetsRight'
    BY <1>20 DEF SetsRight
<1>22. QED
    BY <1>2, <1>4, <1>14, <1>15, <1>16, <1>17, <1>18, <1>19, <1>21 DEF LinesRight

LEMMA NoteEdited ==
    ASSUME PointersRight, LinesRight, NEW r \in Presses, NEW i \in CartItems, NEW n \in Notes,
           Counter!EditNote(r, i, n)
    PROVE  /\ GoesOn(r) /\ LinesRight' /\ UNCHANGED <<till, cart, crossed, left>>
           /\ \A o \in Carts : Counter!Pending(o)' \subseteq Counter!Pending(o)
<1>1. /\ press[r].step = "begun" /\ item[i].live /\ item' = [item EXCEPT ![i].note = n]
      /\ late' = Counter!Changed(i) /\ Counter!Goes(r, "done")
      /\ UNCHANGED <<till, pressed, cart, intended, crossed, left>>
    BY DEF Counter!EditNote, Counter!Active
<1>2. PressesTyped
    BY DEF PointersRight
<1>3. GoesOn(r) /\ press'[r].step = "done"
    BY <1>1, <1>2, GoingOn
<1>4. PICK x : x = item[i]
    OBVIOUS
<1>5. LineRow(x) /\ x # Counter!NoItem /\ x.live = TRUE
    BY <1>1, <1>4 DEF LinesRight, LinesTyped, LineRow, Counter!NoItem
<1>6. PICK y : y = [x EXCEPT !.note = n]
    OBVIOUS
<1>7. /\ LineRow(y) /\ y # Counter!NoItem /\ y.live = x.live /\ y.cart = x.cart
      /\ y.ticket = x.ticket /\ y.qty = x.qty
    <2>1. x = [live |-> x.live, cart |-> x.cart, product |-> x.product, qty |-> x.qty,
               note |-> x.note, combo |-> x.combo, ticket |-> x.ticket]
          /\ x.live \in BOOLEAN /\ x.qty \in 1..MaxUnits
        BY <1>5 DEF LineRow
    <2>2. y = [live |-> x.live, cart |-> x.cart, product |-> x.product, qty |-> x.qty,
               note |-> n, combo |-> x.combo, ticket |-> x.ticket]
        BY <1>6, <2>1
    <2>3. /\ y.live = x.live /\ y.cart = x.cart /\ y.product = x.product /\ y.qty = x.qty
          /\ y.note = n /\ y.combo = x.combo /\ y.ticket = x.ticket
        BY <2>2
    <2>4. LineRow(y) /\ y # Counter!NoItem
        BY <2>1, <2>2, <2>3 DEF LineRow, Counter!NoItem
    <2>5. QED
        BY <2>3, <2>4
<1>8. /\ DOMAIN item' = CartItems /\ item'[i] = y
      /\ \A j \in CartItems \ {i} : item'[j] = item[j]
    BY <1>1, <1>4, <1>6 DEF LinesRight, LinesTyped
<1>9. late \subseteq late' /\ (x.ticket # NoTicket => i \in late')
    BY <1>1, <1>4 DEF Counter!Changed
<1>10. CartsTyped' /\ LinesTyped'
    BY <1>1, <1>7, <1>8 DEF LinesRight, CartsTyped, LinesTyped
<1>11. TicketsMatch'
    BY <1>7, <1>8, <1>9 DEF LinesRight, TicketsMatch
<1>12. Counter!PressesCount'
    BY <1>1, <1>4, <1>7, <1>8 DEF LinesRight, Counter!PressesCount
<1>13. ASSUME NEW o \in Carts PROVE Counter!Pending(o)' \subseteq Counter!Pending(o)
    BY <1>4, <1>7, <1>8 DEF Counter!Pending, Counter!Active, Counter!LinesOf
<1>14. SettledIsSent'
    BY <1>1, <1>13 DEF LinesRight, SettledIsSent
<1>15. ASSUME NEW q \in Presses, press'[q].step = "set", NEW j, j = press'[q].line
       PROVE  /\ item'[j] # Counter!NoItem /\ item'[j].cart = press'[q].mine
              /\ item'[j].live => press'[q].qty = intended'[j] + press'[q].by \/ press'[q].mine \in crossed'
    <2>1. q # r /\ press'[q] = press[q]
        BY <1>3, <1>15 DEF GoesOn, OthersStay
    <2>2. j \in CartItems
        BY <1>2, <1>15, <2>1 DEF PressesTyped, Pressing, PressRow, SettingRow, Counter!Idle
    <2>3. /\ item[j] # Counter!NoItem /\ item[j].cart = press[q].mine
          /\ item[j].live => press[q].qty = intended[j] + press[q].by \/ press[q].mine \in crossed
        BY <1>15, <2>1 DEF LinesRight, SetsRight
    <2>4. QED
        BY <1>1, <1>4, <1>7, <1>8, <2>1, <2>2, <2>3
<1>16. SetsRight'
    BY <1>15 DEF SetsRight
<1>17. QED
    BY <1>1, <1>3, <1>10, <1>11, <1>12, <1>13, <1>14, <1>16 DEF LinesRight

LEMMA StepsThatSetNothing ==
    ASSUME NEW r \in Presses, OthersStay(r), press'[r].step # "set"
    PROVE  NoNewSets
BY DEF OthersStay, NoNewSets

\* A request goes on: only the order it has can have more to send.
LEMMA GoingWith ==
    ASSUME TillInv, NEW r \in Presses, GoesOn(r), UNCHANGED <<till, cart, crossed, left>>, LinesRight',
           \A o \in Carts \ {press[r].mine} : Counter!Pending(o)' \subseteq Counter!Pending(o)
    PROVE  TillInv'
<1>1. PointersRight'
    BY GoingOnKeeps DEF TillInv
<1>2. PICK m : m = press[r].mine
    OBVIOUS
<1>3. Held(m)'
    BY <1>2 , RowsArePressing DEF GoesOn, Held, Pressing
<1>4. ASSUME NEW o, Held(o) PROVE Held(o)'
    <2>1. ASSUME NEW q \in Presses, Pressing(q), press[q].mine = o PROVE Held(o)'
        BY <2>1, RowsArePressing DEF GoesOn, OthersStay, Held, Pressing
    <2>2. ASSUME NEW t \in Tills, HeldBySession(o, t) PROVE HeldBySession(o, t)'
        BY <2>2 DEF GoesOn, OthersStay, HeldBySession, Pressing
    <2>3. QED
        BY <1>4, <2>1, <2>2 DEF Held
<1>5. ASSUME NEW o \in Carts, Waiting(o)' PROVE o \in crossed' \union left' \/ Held(o)'
    <2>1. CASE o = m
        BY <1>3, <2>1
    <2>2. CASE o # m
        <3>1. Waiting(o)
            BY <1>2, <1>5, <2>2 DEF Waiting, Counter!IsOpen
        <3>2. QED
            BY <1>4, <3>1 DEF TillInv, WaitingIsHeld
    <2>3. QED
        BY <2>1, <2>2
<1>6. QED
    BY <1>1, <1>5 DEF TillInv, WaitingIsHeld

LEMMA GoingQuietly ==
    ASSUME TillInv, NEW r \in Presses, GoesOn(r), press'[r].step # "set", Quieter,
           UNCHANGED <<till, cart, crossed, left, intended, late>>
    PROVE  TillInv'
<1>1. NoNewSets
    BY StepsThatSetNothing DEF GoesOn
<1>2. CartsTyped'
    BY DEF TillInv, LinesRight, CartsTyped
<1>3. LinesRight' /\ \A o \in Carts : Counter!Pending(o)' \subseteq Counter!Pending(o)
    BY <1>1, <1>2, QuietLines DEF TillInv, PointersRight
<1>4. QED
    BY <1>3, GoingWith

\* A request turns to another cart: the one it had has nothing to send, or is let go.
LEMMA Turned ==
    ASSUME TillInv, NEW r \in Presses, NEW o \in SomeCarts, TurnsTo(r, o), press'[r].step # "set",
           Quieter, UNCHANGED <<till, intended, late>>, CartsTyped',
           \A c \in Carts : cart'[c].state = "settled" => cart[c].state = "settled" \/ Counter!Pending(c)' = {},
           \A c \in Carts \ {o} : cart'[c].state = "open" => cart[c].state = "open",
           \/ o = NoCart /\ UNCHANGED crossed
           \/ crossed' = crossed \union Counter!Shared(r, press[r].at, o),
           left \subseteq left',
           NEW m, m = press[r].mine, m \in Carts \ {o} => m \in left' \/ ~Waiting(m)'
    PROVE  TillInv'
<1>1. PointersRight'
    BY TurningKeeps DEF TillInv
<1>2. crossed \subseteq crossed'
    OBVIOUS
<1>3. NoNewSets
    BY StepsThatSetNothing DEF TurnsTo
<1>4. LinesRight' /\ \A c \in Carts : Counter!Pending(c)' \subseteq Counter!Pending(c)
    BY <1>2, <1>3, QuietLines DEF TillInv, PointersRight
<1>5. Held(o)'
    BY RowsArePressing DEF TurnsTo, Held, Pressing
<1>6. ASSUME NEW c \in Carts \ {m}, Held(c) PROVE Held(c)' \/ c \in crossed
    <2>1. ASSUME NEW q \in Presses, Pressing(q), press[q].mine = c PROVE Held(c)'
        BY <1>6, <2>1 DEF TurnsTo, OthersStay, Held, Pressing
    <2>2. ASSUME NEW t \in Tills, HeldBySession(c, t) PROVE HeldBySession(c, t)' \/ c \in crossed
        <3>1. CASE t = press[r].at
            BY <1>6, <2>2, <3>1, TillBasics DEF TurnsTo, HeldBySession, TillInv, PointersRight, SessionsKeep
        <3>2. CASE t # press[r].at
            BY <2>2, <3>2 DEF TurnsTo, OthersStay, HeldBySession, Pressing
        <3>3. QED
            BY <3>1, <3>2
    <2>3. QED
        BY <1>6, <2>1, <2>2 DEF Held
<1>7. ASSUME NEW c \in Carts, Waiting(c)' PROVE c \in crossed' \union left' \/ Held(c)'
    <2>1. CASE c = o
        BY <1>5, <2>1
    <2>2. CASE c = m /\ c # o
        BY <1>7, <2>2
    <2>3. CASE c # m /\ c # o
        <3>1. Waiting(c)
            BY <1>4, <1>7, <2>3 DEF Waiting, Counter!IsOpen
        <3>2. c \in crossed \union left \/ Held(c)
            BY <3>1 DEF TillInv, WaitingIsHeld
        <3>3. QED
            BY <1>2, <1>6, <2>3, <3>2
    <2>4. QED
        BY <2>1, <2>2, <2>3
<1>8. QED
    BY <1>1, <1>4, <1>7 DEF TillInv, WaitingIsHeld

\* What the steps do to an order: open it, void it, or take the money for it.
LEMMA CartSteps ==
    ASSUME CartsTyped, NEW o \in Carts, NEW s \in {"open", "void", "settled"}, DOMAIN cart' = Carts,
           \A c \in Carts \ {o} : cart'[c] = cart[c], CartRow(cart'[o]), cart'[o].state = s
    PROVE  CartsTyped'
BY DEF CartsTyped

LEMMA CartOpened ==
    ASSUME CartsTyped, NEW o \in Counter!FreshCarts, NEW b \in BOOLEAN, Counter!OpenCart(o, b)
    PROVE  /\ o \in Carts /\ CartsTyped' /\ cart'[o].state = "open"
           /\ \A c \in Carts \ {o} : cart'[c] = cart[c]
<1>1. o \in Carts /\ cart[o].state = "none" /\ DOMAIN cart = Carts
    BY DEF Counter!FreshCarts, CartsTyped
<1>2. PICK x : x = cart[o]
    OBVIOUS
<1>3. x = [state |-> "none", table |-> x.table, paid |-> x.paid] /\ x.paid = 0
    BY <1>1, <1>2 DEF CartsTyped, CartRow
<1>4. cart' = [cart EXCEPT ![o].state = "open", ![o].table = b]
    BY DEF Counter!OpenCart
<1>5. cart'[o] = [state |-> "open", table |-> b, paid |-> 0]
    BY <1>1, <1>2, <1>3, <1>4
<1>6. DOMAIN cart' = Carts /\ \A c \in Carts \ {o} : cart'[c] = cart[c]
    BY <1>1, <1>4
<1>y. PICK y : y = cart'[o]
    OBVIOUS
<1>7. y.state = "open" /\ y.table = b /\ y.paid = 0
    BY <1>5, <1>y
<1>8. CartRow(cart'[o]) /\ cart'[o].state = "open"
    BY <1>5, <1>7, <1>y, Zenon DEF CartRow
<1>9. QED
    BY <1>1, <1>6, <1>8, CartSteps

LEMMA CartVoided ==
    ASSUME CartsTyped, NEW o \in Carts, cart[o].state # "settled", cart' = [cart EXCEPT ![o].state = "void"]
    PROVE  /\ CartsTyped' /\ cart'[o].state = "void"
           /\ \A c \in Carts \ {o} : cart'[c] = cart[c]
<1>1. DOMAIN cart = Carts
    BY DEF CartsTyped
<1>2. PICK x : x = cart[o]
    OBVIOUS
<1>3. x = [state |-> x.state, table |-> x.table, paid |-> x.paid] /\ x.paid = 0
    BY <1>2 DEF CartsTyped, CartRow
<1>5. cart'[o] = [state |-> "void", table |-> x.table, paid |-> 0]
    BY <1>1, <1>2, <1>3
<1>6. DOMAIN cart' = Carts /\ \A c \in Carts \ {o} : cart'[c] = cart[c]
    BY <1>1
<1>7. cart'[o].state = "void" /\ cart'[o].table = x.table /\ cart'[o].paid = 0
    BY <1>5
<1>8. CartRow(cart'[o])
    BY <1>5, <1>7 DEF CartRow
<1>9. QED
    BY <1>6, <1>7, <1>8, CartSteps

LEMMA CartPaid ==
    ASSUME CartsTyped, NEW o \in Carts, cart[o].state = "open",
           cart' = [cart EXCEPT ![o].state = "settled", ![o].paid = @ + 1]
    PROVE  /\ CartsTyped' /\ cart'[o].state = "settled"
           /\ \A c \in Carts \ {o} : cart'[c] = cart[c]
<1>1. DOMAIN cart = Carts
    BY DEF CartsTyped
<1>2. PICK x : x = cart[o]
    OBVIOUS
<1>3. x = [state |-> x.state, table |-> x.table, paid |-> x.paid] /\ x.paid = 0
    BY <1>2 DEF CartsTyped, CartRow
<1>5. cart'[o] = [state |-> "settled", table |-> x.table, paid |-> 1]
    BY <1>1, <1>2, <1>3
<1>6. DOMAIN cart' = Carts /\ \A c \in Carts \ {o} : cart'[c] = cart[c]
    BY <1>1
<1>y. PICK y, b : y = cart'[o] /\ b = x.table
    OBVIOUS
<1>z. y = [state |-> "settled", table |-> b, paid |-> 1]
    BY <1>5, <1>y, Zenon
<1>7. y.state = "settled" /\ y.table = b /\ y.paid = 1
    BY <1>z, Zenon
<1>8. CartRow(cart'[o]) /\ cart'[o].state = "settled"
    BY <1>z, <1>7, <1>y, Zenon DEF CartRow
<1>9. QED
    BY <1>6, <1>8, CartSteps

LEMMA Untouched == LinesTyped /\ UNCHANGED item => Quieter
BY DEF LinesTyped, Quieter

\* Some lines lose their lives.
LEMMA SomeVoided ==
    ASSUME LinesTyped, NEW gone \in SUBSET CartItems, \A i \in gone : item[i] # Counter!NoItem,
           item' = [i \in CartItems |-> IF i \in gone THEN [item[i] EXCEPT !.live = FALSE] ELSE item[i]]
    PROVE  Quieter
<1>1. ASSUME NEW i \in gone
      PROVE  /\ item'[i] # Counter!NoItem /\ LineRow(item'[i]) /\ item'[i].live = FALSE
             /\ item'[i].cart = item[i].cart /\ item'[i].qty = item[i].qty /\ item'[i].note = item[i].note
             /\ item'[i].ticket = item[i].ticket
    <2>1. LineRow(item[i]) /\ item'[i] = [item[i] EXCEPT !.live = FALSE]
        BY <1>1 DEF LinesTyped
    <2>2. QED
        BY <2>1, VoidedRow
<1>2. \A i \in CartItems \ gone : item'[i] = item[i]
    OBVIOUS
<1>3. QED
    BY <1>1, <1>2 DEF Quieter

LEMMA TillNext == TillInv /\ [Counter!Next]_tillVars => TillInv'
<1> SUFFICES ASSUME TillInv, [Counter!Next]_tillVars PROVE TillInv'
    OBVIOUS
<1>i. PressesTyped /\ PointersRight /\ LinesRight /\ LinesTyped /\ CartsTyped
    BY DEF TillInv, PointersRight, LinesRight
<1>t. UNCHANGED item => Quieter
    BY <1>i, Untouched
<1>c. UNCHANGED cart => CartsTyped'
    BY <1>i DEF CartsTyped
<1>e. ASSUME NEW r \in Presses, press[r].step = "begun"
      PROVE  Pressing(r) /\ press[r].mine \in SomeCarts
    BY <1>i, <1>e, StepsArePressing DEF PressRow
<1>m. \A r : Counter!Mine(r) = press[r].mine
    BY DEF Counter!Mine
\* A stuttering step.
<1>0. CASE UNCHANGED tillVars
    <2>1. UNCHANGED <<till, cart, item, press, pressed, intended, late, crossed, left>>
        BY <1>0 DEF tillVars
    <2>2. PointersRight'
        BY <1>i, <2>1 DEF PointersRight, PressesTyped, SharingCrosses, SessionsKeep, Pressing
    <2>3. \A o \in Carts : Counter!Pending(o)' = Counter!Pending(o)
        BY <2>1 DEF Counter!Pending, Counter!Active, Counter!LinesOf
    <2>4. LinesRight'
        BY <1>i, <2>1, <2>3 DEF LinesRight, CartsTyped, LinesTyped, TicketsMatch, SettledIsSent, SetsRight,
            Counter!PressesCount
    <2>5. WaitingIsHeld'
        BY <2>1, <2>3 DEF TillInv, WaitingIsHeld, Waiting, Held, HeldBySession, Pressing, Counter!IsOpen
    <2>6. QED
        BY <2>2, <2>4, <2>5 DEF TillInv
\* A request begins.
<1>1. ASSUME NEW r \in Presses, NEW t \in Tills, Counter!Begin(r, t) PROVE TillInv'
    <2>1. /\ OthersStay(r) /\ ~Pressing(r) /\ Pressing(r)' /\ press'[r].step = "begun" /\ PointersRight'
        BY <1>1, <1>i, Beginning
    <2>2. UNCHANGED <<till, cart, item, intended, late, left>> /\ crossed \subseteq crossed'
        BY <1>1 DEF Counter!Begin
    <2>3. press'[r].written = FALSE
        BY <2>1 DEF PointersRight, PressesTyped, PressRow, SettingRow, Pressing
    <2>4. LinesRight' /\ \A o \in Carts : Counter!Pending(o)' \subseteq Counter!Pending(o)
        BY <1>i, <1>t, <1>c, <2>1, <2>2, QuietLines, StepsThatSetNothing
    <2>5. ASSUME NEW o, Held(o) PROVE Held(o)'
        <3>1. ASSUME NEW q \in Presses, Pressing(q), press[q].mine = o PROVE Held(o)'
            BY <2>1, <3>1 DEF OthersStay, Held, Pressing
        <3>2. ASSUME NEW x \in Tills, HeldBySession(o, x) PROVE HeldBySession(o, x)'
            BY <2>1, <2>2, <2>3, <3>2 DEF OthersStay, HeldBySession, Pressing
        <3>3. QED
            BY <2>5, <3>1, <3>2 DEF Held
    <2>6. ASSUME NEW o \in Carts, Waiting(o)' PROVE o \in crossed' \union left' \/ Held(o)'
        <3>1. Waiting(o)
            BY <2>2, <2>4, <2>6 DEF Waiting, Counter!IsOpen
        <3>2. QED
            BY <2>2, <2>5, <3>1 DEF TillInv, WaitingIsHeld
    <2>7. QED
        BY <2>1, <2>4, <2>6 DEF TillInv, WaitingIsHeld
\* It finds the order of the session, or opens one.
<1>2. ASSUME NEW r \in Presses, Counter!FindCart(r) PROVE TillInv'
    <2>1. press[r].step = "begun" /\ UNCHANGED <<till, pressed, item, intended, late, left>>
        BY <1>2 DEF Counter!FindCart
    <2>2. CASE Counter!IsOpen(press[r].mine)
        <3>1. Counter!Goes(r, "cart") /\ UNCHANGED <<cart, crossed>>
            BY <1>2, <1>m, <2>2 DEF Counter!FindCart
        <3>2. GoesOn(r) /\ press'[r].step = "cart"
            BY <1>i, <2>1, <3>1, GoingOn
        <3>3. QED
            BY <1>t, <2>1, <3>1, <3>2, GoingQuietly
    <2>3. CASE ~Counter!IsOpen(press[r].mine)
        <3>1. PICK o \in Counter!FreshCarts :
                /\ Counter!OpenCart(o, FALSE) /\ Counter!Points(r, o, "cart")
                /\ crossed' = crossed \union Counter!Shared(r, press[r].at, o)
            BY <1>2, <1>m, <2>3 DEF Counter!FindCart
        <3>2. /\ o \in Carts /\ CartsTyped' /\ cart'[o].state = "open"
              /\ \A c \in Carts \ {o} : cart'[c] = cart[c]
            BY <1>i, <3>1, CartOpened
        <3>3. TurnsTo(r, o) /\ press'[r].step = "cart"
            BY <1>i, <2>1, <3>1, <3>2, Turning DEF SomeCarts
        <3>4. PICK m : m = press[r].mine
            OBVIOUS
        <3>5. m \in Carts \ {o} => ~Waiting(m)'
            BY <1>e, <2>1, <2>3, <3>2, <3>4, TillBasics DEF Waiting, Counter!IsOpen
        <3>6. \A c \in Carts : cart'[c].state = "settled" => cart[c].state = "settled"
            BY <3>2
        <3>7. \A c \in Carts \ {o} : cart'[c].state = "open" => cart[c].state = "open"
            BY <3>2
        <3>8. o \in SomeCarts /\ left \subseteq left' /\ press'[r].step # "set"
            BY <2>1, <3>2, <3>3 DEF SomeCarts
        <3>9. QED
            BY <1>t, <2>1, <3>1, <3>2, <3>3, <3>4, <3>5, <3>6, <3>7, <3>8, Turned
    <2>4. QED
        BY <2>2, <2>3
\* A tap on a product.
<1>3. ASSUME NEW r \in Presses, NEW goods, IsFiniteSet(goods), NEW combo \in BOOLEAN,
             press[r].step = "cart", Counter!IsOpen(press[r].mine),
             Counter!AddLines(r, goods, combo), Counter!Goes(r, "done"),
             UNCHANGED <<till, cart, late, crossed, left>>
      PROVE  TillInv'
    <2>1. GoesOn(r) /\ press'[r].step = "done"
        BY <1>3, <1>i, GoingOn
    <2>2. NoNewSets
        BY <2>1, StepsThatSetNothing DEF GoesOn
    <2>3. LinesRight' /\ \A o \in Carts \ {press[r].mine} : Counter!Pending(o)' \subseteq Counter!Pending(o)
        BY <1>3, <1>i, <2>2, AddedLines
    <2>4. QED
        BY <1>3, <2>1, <2>3, GoingWith
<1>4. ASSUME NEW r \in Presses, NEW i \in Counter!LinesOf(press[r].mine), NEW by \in Int,
             press[r].step \in {"begun", "cart"}, SetsOff(r, i, by, item[i].qty + by),
             UNCHANGED <<till, cart, item, intended, late, crossed, left>>
      PROVE  TillInv'
    <2>1. i \in CartItems /\ item[i] # Counter!NoItem
        BY TillBasics DEF Counter!LinesOf, Counter!NoItem
    <2>2. item[i].qty \in Int
        BY <1>i, <2>1, TillBasics DEF LinesTyped, LineRow
    <2>3. PICK n \in Int : n = item[i].qty + by
        BY <2>2
    <2>4. GoesOn(r) /\ press'[r].step = "set" /\ press'[r].line = i /\ press'[r].by = by /\ press'[r].qty = n
        BY <1>4, <1>i, <2>1, <2>3, SettingOff
    <2>5. LinesRight'
        BY <1>4, <1>i, <2>2, <2>3, <2>4, AboutToSet
    <2>6. \A o \in Carts : Counter!Pending(o)' \subseteq Counter!Pending(o)
        BY <1>4 DEF Counter!Pending, Counter!Active, Counter!LinesOf
    <2>7. QED
        BY <1>4, <2>4, <2>5, <2>6, GoingWith
<1>5. ASSUME NEW r \in Presses, NEW p \in Products, Counter!TapProduct(r, p) PROVE TillInv'
    <2>1. press[r].step = "cart" /\ UNCHANGED <<till, pressed, cart, late, crossed, left>>
        BY <1>5 DEF Counter!TapProduct
    <2>2. ASSUME NEW i \in Counter!Active(press[r].mine), UNCHANGED <<item, intended>>,
                 SetsOff(r, i, 1, item[i].qty + 1)
          PROVE  TillInv'
        BY <1>4, <2>1, <2>2 DEF Counter!Active
    <2>3. CASE Counter!IsOpen(press[r].mine) /\ Counter!AddLines(r, {p}, FALSE) /\ Counter!Goes(r, "done")
        <3>1. IsFiniteSet({p})
            BY FS_Singleton
        <3>2. QED
            BY <1>3, <2>1, <2>3, <3>1
    <2>4. \/ \E i \in Counter!Active(press[r].mine) :
                SetsOff(r, i, 1, item[i].qty + 1) /\ UNCHANGED <<item, intended>>
          \/ Counter!IsOpen(press[r].mine) /\ Counter!AddLines(r, {p}, FALSE) /\ Counter!Goes(r, "done")
        BY <1>5, <1>m, Zenon DEF Counter!TapProduct, SetsOff
    <2>5. QED
        BY <2>2, <2>3, <2>4
<1>6. ASSUME NEW r \in Presses, NEW p \in Products, Counter!AddWithModifiers(r, p) PROVE TillInv'
    <2>1. IsFiniteSet({p})
        BY FS_Singleton
    <2>2. QED
        BY <1>3, <1>6, <1>m, <2>1 DEF Counter!AddWithModifiers
<1>7. ASSUME NEW r \in Presses, NEW valid \in BOOLEAN, Counter!AddCombo(r, valid) PROVE TillInv'
    <2>1. /\ press[r].step = "cart" /\ Counter!Goes(r, "done")
          /\ UNCHANGED <<till, pressed, cart, late, crossed, left>>
        BY <1>7 DEF Counter!AddCombo
    <2>2. CASE valid
        BY <1>3, <1>7, <1>m, <2>1, <2>2, TillBasics DEF Counter!AddCombo
    <2>3. CASE ~valid
        <3>1. UNCHANGED <<item, intended>>
            BY <1>7, <2>3 DEF Counter!AddCombo
        <3>2. GoesOn(r) /\ press'[r].step = "done"
            BY <1>i, <2>1, GoingOn
        <3>3. QED
            BY <1>t, <2>1, <3>1, <3>2, GoingQuietly
    <2>4. QED
        BY <2>2, <2>3
\* The presses on a line.
<1>8. ASSUME NEW r \in Presses, NEW i \in CartItems, NEW by \in {-1, 1}, Counter!PressLine(r, i, by)
      PROVE  TillInv'
    <2>1. /\ press[r].step = "begun" /\ i \in Counter!LinesOf(press[r].mine)
          /\ SetsOff(r, i, by, item[i].qty + by)
          /\ UNCHANGED <<till, cart, item, intended, late, crossed, left>>
        BY <1>8, <1>m, Zenon DEF Counter!PressLine, SetsOff
    <2>2. by \in Int
        OBVIOUS
    <2>3. QED
        BY <1>4, <2>1, <2>2
<1>9. ASSUME NEW r \in Presses, Counter!SetQty(r) PROVE TillInv'
    BY <1>9, <1>i, QuantitySet, GoingWith
<1>10. ASSUME NEW r \in Presses, NEW i \in CartItems, Counter!EditNote(r, i, "extra") PROVE TillInv'
    <2>1. PICK n \in Notes : n = "extra"
        BY Zenon DEF Notes
    <2>2. Counter!EditNote(r, i, n)
        BY <1>10, <2>1, Zenon
    <2>3. QED
        BY <1>i, <2>2, NoteEdited, GoingWith
<1>11. ASSUME NEW r \in Presses, NEW i \in CartItems, Counter!RemoveItem(r, i) PROVE TillInv'
    <2>1. /\ press[r].step = "begun" /\ i \in Counter!LinesOf(press[r].mine) /\ Counter!Goes(r, "done")
          /\ item' = [item EXCEPT ![i].live = FALSE]
          /\ UNCHANGED <<till, pressed, cart, intended, late, crossed, left>>
        BY <1>11, <1>m DEF Counter!RemoveItem
    <2>2. item[i] # Counter!NoItem
        BY <2>1, TillBasics DEF Counter!LinesOf, Counter!NoItem
    <2>3. PICK gone \in SUBSET CartItems : gone = {i}
        OBVIOUS
    <2>g. /\ \A j \in gone : item[j] # Counter!NoItem
          /\ item' = [j \in CartItems |-> IF j \in gone THEN [item[j] EXCEPT !.live = FALSE] ELSE item[j]]
        BY <1>i, <2>1, <2>2, <2>3 DEF LinesTyped
    <2>4. Quieter
        BY <1>i, <2>g, SomeVoided
    <2>5. GoesOn(r) /\ press'[r].step = "done"
        BY <1>i, <2>1, GoingOn
    <2>6. QED
        BY <2>1, <2>4, <2>5, GoingQuietly
<1>12. ASSUME NEW r \in Presses, Counter!RemoveCombo(r) PROVE TillInv'
    <2>1. PICK gone : gone = {i \in Counter!Active(press[r].mine) : item[i].combo}
        OBVIOUS
    <2>2. /\ press[r].step = "begun" /\ Counter!Goes(r, "done")
          /\ item' = [i \in CartItems |-> IF i \in gone THEN [item[i] EXCEPT !.live = FALSE] ELSE item[i]]
          /\ UNCHANGED <<till, pressed, cart, intended, late, crossed, left>>
        BY <1>12, <1>m, <2>1 DEF Counter!RemoveCombo
    <2>3. gone \in SUBSET CartItems /\ \A i \in gone : item[i] # Counter!NoItem
        BY <2>1 DEF Counter!Active, Counter!LinesOf, Counter!NoItem
    <2>4. Quieter
        BY <1>i, <2>2, <2>3, SomeVoided
    <2>5. GoesOn(r) /\ press'[r].step = "done"
        BY <1>i, <2>2, GoingOn
    <2>6. QED
        BY <2>2, <2>4, <2>5, GoingQuietly
\* The session's order is let go: cleared, saved, paid or left for another.
<1>l. ASSUME NEW r \in Presses, press[r].step = "begun", Counter!Points(r, NoCart, "done"),
             UNCHANGED <<till, pressed, intended, late, crossed, left>>, Quieter, CartsTyped',
             \A c \in Carts : cart'[c].state = "settled" => cart[c].state = "settled" \/ Counter!Pending(c)' = {},
             \A c \in Carts : cart'[c].state = "open" => cart[c].state = "open",
             NEW m, m = press[r].mine, ~Waiting(m)'
      PROVE  TillInv'
    <2>1. NoCart \in SomeCarts
        BY DEF SomeCarts
    <2>2. TurnsTo(r, NoCart) /\ press'[r].step = "done"
        BY <1>i, <1>l, <2>1, Turning
    <2>3. /\ press'[r].step # "set" /\ left \subseteq left' /\ UNCHANGED <<till, intended, late>>
          /\ NoCart = NoCart /\ UNCHANGED crossed
          /\ \A c \in Carts \ {NoCart} : cart'[c].state = "open" => cart[c].state = "open"
          /\ m \in Carts \ {NoCart} => m \in left' \/ ~Waiting(m)'
        BY <1>l, <2>2
    <2>4. QED
        BY <1>l, <2>1, <2>2, <2>3, Turned
<1>13. ASSUME NEW r \in Presses, Counter!ClearCart(r) PROVE TillInv'
    <2>0. PICK m : m = press[r].mine
        OBVIOUS
    <2>1. /\ press[r].step = "begun" /\ m # NoCart /\ Counter!Points(r, NoCart, "done")
          /\ cart' = [cart EXCEPT ![m].state = IF @ = "settled" THEN @ ELSE "void"]
          /\ UNCHANGED <<till, pressed, item, intended, late, crossed, left>>
        BY <1>13, <1>m, <2>0 DEF Counter!ClearCart
    <2>2. m \in Carts
        BY <1>e, <2>0, <2>1 DEF SomeCarts
    <2>3. /\ CartsTyped' /\ cart'[m].state \in {"settled", "void"}
          /\ cart'[m].state = "settled" => cart[m].state = "settled"
          /\ \A c \in Carts \ {m} : cart'[c] = cart[c]
        <3>1. CASE cart[m].state = "settled"
            <4>1. PICK x : x = cart[m]
                OBVIOUS
            <4>2. x = [state |-> "settled", table |-> x.table, paid |-> x.paid] /\ DOMAIN cart = Carts
                BY <1>i, <2>2, <3>1, <4>1 DEF CartsTyped, CartRow
            <4>3. [x EXCEPT !.state = "settled"] = x
                BY <4>2
            <4>4. cart' = [cart EXCEPT ![m] = x]
                BY <2>1, <3>1, <4>1, <4>3
            <4>5. DOMAIN cart' = Carts /\ \A c \in Carts : cart'[c] = cart[c]
                BY <4>1, <4>2, <4>4
            <4>6. QED
                BY <1>i, <2>2, <3>1, <4>5 DEF CartsTyped
        <3>2. CASE cart[m].state # "settled"
            <4>1. cart' = [cart EXCEPT ![m].state = "void"]
                BY <2>1, <3>2
            <4>2. QED
                BY <1>i, <2>2, <3>2, <4>1, CartVoided
        <3>3. QED
            BY <3>1, <3>2
    <2>4. ~Waiting(m)'
        BY <2>3 DEF Waiting, Counter!IsOpen
    <2>5. /\ \A c \in Carts : cart'[c].state = "settled" => cart[c].state = "settled"
          /\ \A c \in Carts : cart'[c].state = "open" => cart[c].state = "open"
        BY <2>3
    <2>6. QED
        BY <1>l, <1>t, <2>0, <2>1, <2>3, <2>4, <2>5
<1>14. ASSUME NEW r \in Presses, Counter!SaveOrder(r) PROVE TillInv'
    <2>0. PICK m : m = press[r].mine
        OBVIOUS
    <2>1. /\ press[r].step = "begun" /\ m # NoCart /\ Counter!Points(r, NoCart, "done")
          /\ Counter!SendToKitchen(m)
          /\ UNCHANGED <<till, pressed, cart, intended, late, crossed, left>>
        BY <1>14, <1>m, <2>0 DEF Counter!SaveOrder
    <2>2. m \in Carts
        BY <1>e, <2>0, <2>1 DEF SomeCarts
    <2>3. Quieter /\ Counter!Pending(m)' = {}
        BY <1>i, <2>1, <2>2, Sending
    <2>4. ~Waiting(m)'
        BY <2>3 DEF Waiting
    <2>5. /\ \A c \in Carts : cart'[c].state = "settled" => cart[c].state = "settled"
          /\ \A c \in Carts : cart'[c].state = "open" => cart[c].state = "open"
        BY <2>1
    <2>6. QED
        BY <1>l, <1>c, <2>0, <2>1, <2>3, <2>4, <2>5
<1>15. ASSUME NEW r \in Presses, Counter!Pay(r) PROVE TillInv'
    <2>0. PICK m : m = press[r].mine
        OBVIOUS
    <2>1. /\ press[r].step = "begun" /\ m # NoCart
          /\ UNCHANGED <<till, pressed, intended, late, crossed, left>>
        BY <1>15, <1>m, <2>0 DEF Counter!Pay
    <2>2. m \in Carts
        BY <1>e, <2>0, <2>1 DEF SomeCarts
    <2>3. CASE /\ Counter!Payable(m) /\ Counter!SendToKitchen(m) /\ Counter!Points(r, NoCart, "done")
               /\ cart' = [cart EXCEPT ![m].state = "settled", ![m].paid = @ + 1]
        <3>1. Quieter /\ Counter!Pending(m)' = {}
            BY <1>i, <2>2, <2>3, Sending
        <3>2. CartsTyped' /\ cart'[m].state = "settled" /\ \A c \in Carts \ {m} : cart'[c] = cart[c]
            BY <1>i, <2>2, <2>3, CartPaid DEF Counter!Payable
        <3>3. ~Waiting(m)'
            BY <3>1 DEF Waiting
        <3>4. /\ \A c \in Carts : cart'[c].state = "settled" => cart[c].state = "settled" \/ Counter!Pending(c)' = {}
              /\ \A c \in Carts : cart'[c].state = "open" => cart[c].state = "open"
            BY <3>1, <3>2
        <3>5. QED
            BY <1>l, <2>0, <2>1, <2>3, <3>1, <3>2, <3>3, <3>4
    <2>4. CASE cart[m].state = "settled" /\ Counter!Points(r, NoCart, "done") /\ UNCHANGED <<cart, item>>
        <3>1. ~Waiting(m)'
            BY <2>4 DEF Waiting, Counter!IsOpen
        <3>2. QED
            BY <1>l, <1>c, <1>t, <2>0, <2>1, <2>4, <3>1
    <2>5. CASE Counter!Goes(r, "done") /\ UNCHANGED <<cart, item>>
        <3>1. GoesOn(r) /\ press'[r].step = "done"
            BY <1>i, <2>1, <2>5, GoingOn
        <3>2. QED
            BY <1>t, <2>1, <2>5, <3>1, GoingQuietly
    <2>6. QED
        BY <1>15, <1>m, <2>0, <2>3, <2>4, <2>5 DEF Counter!Pay
<1>16. ASSUME NEW r \in Presses, NEW o \in Carts, Counter!SelectTable(r, o) PROVE TillInv'
    <2>0. PICK m : m = press[r].mine
        OBVIOUS
    <2>1. /\ press[r].step = "begun" /\ o # m /\ Counter!Points(r, o, "done")
          /\ crossed' = crossed \union Counter!Shared(r, press[r].at, o)
          /\ left' = left \union ({m} \ {NoCart})
          /\ UNCHANGED <<till, pressed, item, intended, late>>
          /\ (o \in Counter!FreshCarts /\ Counter!OpenCart(o, TRUE)) \/ UNCHANGED cart
        BY <1>16, <1>m, <2>0 DEF Counter!SelectTable
    <2>2. /\ CartsTyped' /\ \A c \in Carts \ {o} : cart'[c] = cart[c]
          /\ cart'[o].state = "settled" => cart[o].state = "settled"
        BY <1>i, <1>c, <2>1, CartOpened
    <2>3. TurnsTo(r, o) /\ press'[r].step = "done" /\ o \in SomeCarts
        BY <1>i, <2>1, Turning DEF SomeCarts
    <2>4. m \in Carts => m \in left'
        BY <2>1, TillBasics
    <2>5. /\ \A c \in Carts : cart'[c].state = "settled" => cart[c].state = "settled"
          /\ \A c \in Carts \ {o} : cart'[c].state = "open" => cart[c].state = "open"
          /\ left \subseteq left'
        BY <2>1, <2>2
    <2>6. QED
        BY <1>t, <2>0, <2>1, <2>2, <2>3, <2>4, <2>5, Turned
<1>17. ASSUME NEW r \in Presses, Counter!ShowScreen(r) PROVE TillInv'
    <2>0. PICK m : m = press[r].mine
        OBVIOUS
    <2>1. /\ press[r].step = "begun" /\ ~Counter!IsOpen(m) /\ Counter!Points(r, NoCart, "done")
          /\ UNCHANGED <<till, pressed, cart, item, intended, late, crossed, left>>
        BY <1>17, <1>m, <2>0 DEF Counter!ShowScreen
    <2>2. ~Waiting(m)'
        BY <2>1 DEF Waiting, Counter!IsOpen
    <2>3. QED
        BY <1>l, <1>c, <1>t, <2>0, <2>1, <2>2
\* A request ends or fails; an order is voided elsewhere; a cashier logs out.
<1>f. ASSUME NEW r \in Presses, Pressing(r), press' = [press EXCEPT ![r] = Counter!Idle],
             UNCHANGED <<cart, item, intended, late, crossed>>, left \subseteq left',
             \/ UNCHANGED till /\ (press[r].written => press[r].mine \in left' \union {NoCart})
             \/ press[r].written /\ till' = [till EXCEPT ![press[r].at] = press[r].mine]
      PROVE  TillInv'
    <2>1. OthersStay(r) /\ ~Pressing(r)' /\ PointersRight'
        BY <1>f, <1>i, Ending
    <2>2. press'[r].step # "set"
        BY <2>1 DEF Pressing, Counter!Idle
    <2>3. LinesRight' /\ \A o \in Carts : Counter!Pending(o)' \subseteq Counter!Pending(o)
        BY <1>f, <1>i, <1>t, <1>c, <2>1, <2>2, QuietLines, StepsThatSetNothing
    <2>4. PICK x, m : x = press[r].at /\ m = press[r].mine
        OBVIOUS
    <2>5. x \in Tills /\ DOMAIN till = Tills
        BY <1>f, <1>i, <2>4 DEF PressesTyped, PressRow, SettingRow
    \* What the others at the till hold.
    <2>6. ASSUME NEW q \in Presses, Pressing(q)', press'[q].at = x, m \notin crossed \union {NoCart} PROVE FALSE
        BY <1>f, <1>i, <2>1, <2>4, <2>6 DEF OthersStay, PointersRight, SharingCrosses, Pressing
    <2>7. ASSUME NEW o \in Carts, Held(o), o \notin crossed \union left' PROVE Held(o)'
        <3>1. ASSUME NEW q \in Presses \ {r}, Pressing(q), press[q].mine = o PROVE Held(o)'
            BY <2>1, <3>1 DEF OthersStay, Held, Pressing
        <3>2. CASE m = o
            <4>1. till'[x] = o
                <5>1. CASE press[r].written /\ till' = [till EXCEPT ![x] = m]
                    BY <2>5, <3>2, <5>1
                <5>2. CASE UNCHANGED till /\ ~press[r].written
                    <6>1. o \notin crossed \union {NoCart}
                        BY <2>7, TillBasics
                    <6>2. till[x] = m
                        BY <1>f, <1>i, <2>4, <3>2, <5>2, <6>1 DEF PointersRight, SessionsKeep
                    <6>3. QED
                        BY <3>2, <5>2, <6>2
                <5>3. m \notin left' \union {NoCart}
                    BY <2>7, <3>2, TillBasics
                <5>4. QED
                    BY <1>f, <2>4, <5>1, <5>2, <5>3
            <4>2. HeldBySession(o, x)'
                BY <2>6, <2>7, <3>2, <4>1, TillBasics DEF HeldBySession
            <4>3. QED
                BY <2>5, <4>2 DEF Held
        <3>3. ASSUME NEW t \in Tills, HeldBySession(o, t), m # o PROVE HeldBySession(o, t)'
            <4>1. till'[t] = o
                BY <1>f, <2>4, <2>5, <3>3 DEF HeldBySession
            <4>2. QED
                BY <2>1, <3>3, <4>1 DEF HeldBySession, OthersStay, Pressing
        <3>4. QED
            BY <2>4, <2>7, <3>1, <3>2, <3>3 DEF Held
    <2>8. ASSUME NEW o \in Carts, Waiting(o)' PROVE o \in crossed' \union left' \/ Held(o)'
        <3>1. Waiting(o)
            BY <1>f, <2>3, <2>8 DEF Waiting, Counter!IsOpen
        <3>2. QED
            BY <1>f, <2>7, <3>1 DEF TillInv, WaitingIsHeld
    <2>9. QED
        BY <2>1, <2>3, <2>8 DEF TillInv, WaitingIsHeld
<1>18. ASSUME NEW r \in Presses, Counter!End(r) PROVE TillInv'
    <2>1. Pressing(r)
        BY <1>18 DEF Counter!End, Pressing, Counter!Idle
    <2>2. CASE press[r].written
        BY <1>18, <1>f, <1>m, <2>1, <2>2 DEF Counter!End
    <2>3. CASE ~press[r].written
        BY <1>18, <1>f, <2>1, <2>3 DEF Counter!End
    <2>4. QED
        BY <2>2, <2>3
<1>19. ASSUME NEW r \in Presses, Counter!Fail(r) PROVE TillInv'
    <2>1. Pressing(r)
        BY <1>19 DEF Counter!Fail, Pressing, Counter!Idle
    <2>2. left \subseteq left' /\ (press[r].written => press[r].mine \in left' \union {NoCart})
        BY <1>19, <1>m DEF Counter!Fail
    <2>3. QED
        BY <1>19, <1>f, <2>1, <2>2 DEF Counter!Fail
<1>o. ASSUME UNCHANGED <<press, item, intended, late, crossed>>, PointersRight', CartsTyped',
             \A c \in Carts : cart'[c].state = "settled" => cart[c].state = "settled",
             \A c \in Carts : c \notin left' => (cart'[c].state = "open" => cart[c].state = "open"),
             left \subseteq left', \A t \in Tills : till'[t] = till[t] \/ till[t] \in left' \union {NoCart}
      PROVE  TillInv'
    <2>1. NoNewSets /\ Quieter
        BY <1>o, <1>t DEF NoNewSets
    <2>2. LinesRight' /\ \A o \in Carts : Counter!Pending(o)' \subseteq Counter!Pending(o)
        BY <1>o, <1>i, <2>1, QuietLines
    <2>3. ASSUME NEW o \in Carts, Held(o), o \notin left' PROVE Held(o)'
        BY <1>o, <2>3, TillBasics DEF Held, HeldBySession, Pressing
    <2>4. ASSUME NEW o \in Carts, Waiting(o)' PROVE o \in crossed' \union left' \/ Held(o)'
        <3>1. CASE o \notin left'
            <4>1. Waiting(o)
                BY <1>o, <2>2, <2>4, <3>1 DEF Waiting, Counter!IsOpen
            <4>2. QED
                BY <1>o, <2>3, <3>1, <4>1 DEF TillInv, WaitingIsHeld
        <3>2. QED
            BY <3>1
    <2>5. QED
        BY <1>o, <2>2, <2>4 DEF TillInv, WaitingIsHeld
<1>20. ASSUME NEW o \in Carts, Counter!VoidElsewhere(o) PROVE TillInv'
    <2>1. /\ cart[o].state = "open" /\ cart' = [cart EXCEPT ![o].state = "void"] /\ left' = left \union {o}
          /\ UNCHANGED <<till, pressed, item, press, intended, late, crossed>>
        BY <1>20 DEF Counter!VoidElsewhere, Counter!IsOpen
    <2>2. CartsTyped' /\ cart'[o].state = "void" /\ \A c \in Carts \ {o} : cart'[c] = cart[c]
        BY <1>i, <2>1, CartVoided
    <2>3. PointersRight'
        BY <1>i, <2>1 DEF PointersRight, PressesTyped, SharingCrosses, SessionsKeep, Pressing
    <2>4. QED
        BY <1>o, <2>1, <2>2, <2>3
<1>21. ASSUME NEW t \in Tills, Counter!LogOut(t) PROVE TillInv'
    <2>1. /\ {r \in Presses : press[r] # Counter!Idle /\ press[r].at = t} = {}
          /\ till' = [till EXCEPT ![t] = NoCart] /\ left' = left \union {till[t]}
          /\ UNCHANGED <<pressed, cart, item, press, intended, late, crossed>>
        BY <1>21 DEF Counter!LogOut
    <2>2. DOMAIN till' = Tills /\ till'[t] = NoCart /\ \A x \in Tills \ {t} : till'[x] = till[x]
        BY <1>i, <2>1 DEF PressesTyped
    <2>3. PressesTyped'
        BY <1>i, <2>1, <2>2 DEF PressesTyped, Pressing, SomeCarts
    <2>4. SharingCrosses'
        BY <1>i, <2>1 DEF PointersRight, SharingCrosses, Pressing
    <2>5. ASSUME NEW r \in Presses, Pressing(r) PROVE press[r].at \in Tills \ {t}
        BY <1>i, <2>1, <2>5 DEF PressesTyped, PressRow, SettingRow, Pressing
    <2>6. SessionsKeep'
        BY <1>i, <2>1, <2>2, <2>5 DEF PointersRight, SessionsKeep, Pressing
    <2>7. PointersRight'
        BY <2>3, <2>4, <2>6 DEF PointersRight
    <2>8. QED
        BY <1>o, <1>c, <2>1, <2>2, <2>7
<1> QED
    BY <1>0, <1>1, <1>2, <1>5, <1>6, <1>7, <1>8, <1>9, <1>10, <1>11, <1>12, <1>13, <1>14, <1>15,
       <1>16, <1>17, <1>18, <1>19, <1>20, <1>21 DEF Counter!Next

LEMMA TillsRight == TillInv => Counter!TillsKeepTrack
<1> SUFFICES ASSUME TillInv PROVE Counter!TillsKeepTrack
    OBVIOUS
<1>1. Counter!CartsAreReached
    BY DEF TillInv, WaitingIsHeld, Waiting, Held, HeldBySession, Pressing, Counter!CartsAreReached, Counter!Mine
<1>2. Counter!PressesCount
    BY DEF TillInv, LinesRight
<1>3. Counter!KitchenHasWhatIsPaid
    <2> SUFFICES ASSUME NEW o \in Carts, cart[o].state = "settled"
                 PROVE  /\ cart[o].paid = 1
                        /\ \A i \in Counter!Active(o) :
                              /\ item[i].ticket # NoTicket
                              /\ i \notin late => item[i].ticket.qty = item[i].qty /\ item[i].ticket.note = item[i].note
        BY DEF Counter!KitchenHasWhatIsPaid
    <2>1. cart[o].paid = 1
        BY DEF TillInv, LinesRight, CartsTyped, CartRow
    <2>2. ASSUME NEW i \in Counter!Active(o)
          PROVE  /\ item[i].ticket # NoTicket
                 /\ i \notin late => item[i].ticket.qty = item[i].qty /\ item[i].ticket.note = item[i].note
        <3>1. item[i].ticket # NoTicket
            BY DEF TillInv, LinesRight, SettledIsSent, Counter!Pending
        <3>2. i \in CartItems /\ item[i] # Counter!NoItem
            BY DEF Counter!Active, Counter!LinesOf, Counter!NoItem
        <3>3. i \notin late => item[i].ticket = [qty |-> item[i].qty, note |-> item[i].note]
            BY <3>1, <3>2 DEF TillInv, LinesRight, TicketsMatch
        <3>4. QED
            BY <3>1, <3>3
    <2>3. QED
        BY <2>1, <2>2
<1>4. QED
    BY <1>1, <1>2, <1>3 DEF Counter!TillsKeepTrack

\* However requests of the tills overlap, fail or let their order go: a cart the kitchen
\* does not know is on a screen, a line has the units its presses ask for, and what is
\* paid is paid once and sent, unless two requests had the order at once; an offer is
\* used within its limit by fresh listings; a table shown as merged can be split again
\* (the session of the web point of sale, evaluate_order_combos, table_service).
THEOREM TillsTracked == PremisesSpec => []TillsKeepTrack
<1>1. TillInv /\ DealInv /\ DiningInv => TillsKeepTrack
    BY TillsRight, DealsAllowed DEF DiningInv, TillsKeepTrack
<1>2. PremisesSpec => []TillInv
    BY TillInit, TillNext, CounterSteps, PTL
<1>3. PremisesSpec => []DealInv
    BY DealInit, DealNext, ListingSteps, PTL
<1>4. PremisesSpec => []DiningInv
    BY DiningInit, DiningNext, DiningSteps, PTL
<1>5. QED
    BY <1>1, <1>2, <1>3, <1>4, PTL

-----------------------------------------------------------------------------
(* The kitchen's display *)

LEMMA BoardSteps == PremisesSpec => Board!Init /\ [][Board!Next]_boardVars
<1>1. PremisesInit => Board!Init
    BY DEF PremisesInit
<1>2. [PremisesNext]_premisesVars => [Board!Next]_boardVars
    BY DEF PremisesNext, premisesVars, boardVars
<1>3. PremisesSpec => PremisesInit /\ [][PremisesNext]_premisesVars
    BY PTL DEF PremisesSpec, premisesVars
<1>4. QED
    BY <1>1, <1>2, <1>3, PTL

Odd(n) == n % 2 = 1

LEMMA OddAlternates ==
    /\ ~Odd(0)
    /\ \A n \in Nat : Odd(n + 1) <=> ~Odd(n)
BY DEF Odd

TicketStages == {"none", "new", "preparing", "ready", "served", "cancelled"}

LEMMA StagesRanked ==
    /\ DOMAIN Board!Rank = TicketStages
    /\ \A s \in TicketStages : Board!Rank[s] \in Nat
    /\ \A s \in TicketStages \ {"none"} : Board!Rank["none"] < Board!Rank[s]
BY DEF Board!Rank, TicketStages

\* A press moves a ticket on or leaves it as it was read.
LEMMA PressMovesOn ==
    ASSUME NEW seen \in TicketStages, NEW to \in {"preparing", "ready"}
    PROVE  /\ Board!Moved(seen, to) \in TicketStages
           /\ Board!Rank[seen] <= Board!Rank[Board!Moved(seen, to)]
BY DEF Board!Moved, Board!Rank, TicketStages

TapsTyped ==
    /\ DOMAIN tap = Cooks
    /\ \A c \in Cooks :
         /\ tap[c].does \in {"status", "toggle"} => tap[c].ticket \in TicketRows
         /\ tap[c].does = "status" =>
              tap[c].seen \in TicketStages /\ tap[c].to \in {"preparing", "ready"}
         /\ tap[c].does = "toggle" => tap[c].seen \in BOOLEAN

\* Between the press of an item and its write the mark is what the press has read, and
\* behind by that press.
MarkRight(k) ==
    /\ Board!Toggling(k) = {} => (cooked[k] <=> Odd(turns[k]))
    /\ \A c, d \in Board!Toggling(k) :
         c = d /\ (tap[c].seen <=> cooked[k]) /\ (cooked[k] <=> ~Odd(turns[k]))

BoardInv ==
    /\ DOMAIN ticket = TicketRows /\ DOMAIN cooked = TicketRows /\ DOMAIN turns = TicketRows
    /\ \A k \in TicketRows : ticket[k] \in TicketStages /\ cooked[k] \in BOOLEAN /\ turns[k] \in Nat
    /\ TapsTyped
    /\ \A k \in TicketRows \ crossing : MarkRight(k)

LEMMA BoardInit == Board!Init => BoardInv
<1> SUFFICES ASSUME Board!Init PROVE BoardInv
    OBVIOUS
<1>1. DOMAIN tap = Cooks /\ \A c \in Cooks : tap[c].does = "nothing"
    BY DEF Board!Init, Board!NoTap
<1>2. /\ DOMAIN ticket = TicketRows /\ DOMAIN cooked = TicketRows /\ DOMAIN turns = TicketRows
      /\ \A k \in TicketRows : ticket[k] = "none" /\ cooked[k] = FALSE /\ turns[k] = 0
    BY DEF Board!Init
<1>3. \A k \in TicketRows : Board!Toggling(k) = {}
    BY <1>1 DEF Board!Toggling
<1>4. TapsTyped
    BY <1>1 DEF TapsTyped
<1>5. \A k \in TicketRows : MarkRight(k)
    BY <1>2, <1>3, OddAlternates DEF MarkRight
<1>6. ASSUME NEW k \in TicketRows
      PROVE  ticket[k] \in TicketStages /\ cooked[k] \in BOOLEAN /\ turns[k] \in Nat
    <2>1. ticket[k] \in TicketStages
        BY <1>2 DEF TicketStages
    <2>2. cooked[k] \in BOOLEAN
        <3>1. cooked[k] = FALSE
            BY <1>2
        <3>2. QED
            BY <3>1
    <2>3. turns[k] \in Nat
        BY <1>2
    <2>4. QED
        BY <2>1, <2>2, <2>3
<1>7. QED
    BY <1>2, <1>4, <1>5, <1>6 DEF BoardInv

LEMMA BoardNext == BoardInv /\ [Board!Next]_boardVars => BoardInv'
<1> SUFFICES ASSUME BoardInv, [Board!Next]_boardVars PROVE BoardInv'
    OBVIOUS
<1>t. /\ DOMAIN ticket = TicketRows /\ DOMAIN cooked = TicketRows /\ DOMAIN turns = TicketRows
      /\ \A k \in TicketRows : ticket[k] \in TicketStages /\ cooked[k] \in BOOLEAN /\ turns[k] \in Nat
      /\ TapsTyped
    BY DEF BoardInv
<1>m. \A k \in TicketRows \ crossing : MarkRight(k)
    BY DEF BoardInv
<1>f. ASSUME UNCHANGED <<cooked, tap, turns, crossing>>, DOMAIN ticket' = TicketRows,
             \A k \in TicketRows : ticket'[k] \in TicketStages
      PROVE  BoardInv'
    <2>1. TapsTyped' /\ \A k \in TicketRows \ crossing' : MarkRight(k)'
        BY <1>t, <1>m, <1>f DEF TapsTyped, MarkRight, Board!Toggling
    <2>2. QED
        BY <1>t, <1>f, <2>1 DEF BoardInv
<1>1. CASE UNCHANGED boardVars
    BY <1>1, <1>f, <1>t DEF boardVars
<1>2. ASSUME NEW k \in TicketRows, Board!SendTicket(k) PROVE BoardInv'
    BY <1>2, <1>f, <1>t DEF Board!SendTicket, TicketStages
<1>3. ASSUME NEW k \in TicketRows, NEW s \in DOMAIN Board!Rank \ {"none"}, Board!PatchTicket(k, s)
      PROVE  BoardInv'
    BY <1>3, <1>f, <1>t, StagesRanked DEF Board!PatchTicket
<1>4. ASSUME NEW o \in open, Board!CloseOrder(o) PROVE BoardInv'
    BY <1>4, <1>f, <1>t DEF Board!CloseOrder
<1>5. ASSUME NEW o \in open, NEW s \in {"preparing", "ready", "served"}, Board!MoveOrder(o, s)
      PROVE  BoardInv'
    BY <1>5, <1>f, <1>t DEF Board!MoveOrder, TicketStages
<1>6. ASSUME NEW c \in Cooks, NEW k \in TicketRows, NEW to \in {"preparing", "ready"},
             Board!PressStatus(c, k, to)
      PROVE  BoardInv'
    <2>1. PICK read : read = [does |-> "status", ticket |-> k, seen |-> ticket[k], to |-> to]
        OBVIOUS
    <2>2. tap' = [tap EXCEPT ![c] = read] /\ tap[c].does = "nothing"
        BY <1>6, <2>1 DEF Board!PressStatus, Board!NoTap
    <2>3. read.does = "status" /\ read.ticket = k /\ read.seen = ticket[k] /\ read.to = to
        BY <2>1
    <2>4. UNCHANGED <<ticket, cooked, turns, crossing>>
        BY <1>6 DEF Board!PressStatus
    <2>5. TapsTyped'
        BY <1>t, <2>2, <2>3 DEF TapsTyped
    <2>6. \A j \in TicketRows : Board!Toggling(j)' = Board!Toggling(j)
        BY <1>t, <2>2, <2>3 DEF TapsTyped, Board!Toggling
    <2>7. \A d \in Cooks : tap[d].does = "toggle" => tap'[d] = tap[d]
        BY <1>t, <2>2 DEF TapsTyped
    <2>8. \A j \in TicketRows \ crossing' : MarkRight(j)'
        BY <1>m, <2>4, <2>6, <2>7 DEF MarkRight, Board!Toggling
    <2>9. QED
        BY <1>t, <2>4, <2>5, <2>8 DEF BoardInv
<1>7. ASSUME NEW c \in Cooks, Board!WriteStatus(c) PROVE BoardInv'
    <2>1. PICK done : done = Board!NoTap
        OBVIOUS
    <2>2. tap' = [tap EXCEPT ![c] = done] /\ done.does = "nothing" /\ tap[c].does = "status"
        BY <1>7, <2>1 DEF Board!WriteStatus, Board!NoTap
    <2>3. tap[c].ticket \in TicketRows /\ Board!Moved(tap[c].seen, tap[c].to) \in TicketStages
        BY <1>t, <2>2, PressMovesOn DEF TapsTyped
    <2>4. ticket' = [ticket EXCEPT ![tap[c].ticket] = Board!Moved(tap[c].seen, tap[c].to)]
        BY <1>7 DEF Board!WriteStatus
    <2>5. UNCHANGED <<cooked, turns, crossing>>
        BY <1>7 DEF Board!WriteStatus
    <2>6. DOMAIN ticket' = TicketRows /\ \A k \in TicketRows : ticket'[k] \in TicketStages
        BY <1>t, <2>3, <2>4
    <2>7. TapsTyped'
        BY <1>t, <2>2 DEF TapsTyped
    <2>8. \A j \in TicketRows : Board!Toggling(j)' = Board!Toggling(j)
        BY <1>t, <2>2 DEF TapsTyped, Board!Toggling
    <2>9. \A d \in Cooks : tap[d].does = "toggle" => tap'[d] = tap[d]
        BY <1>t, <2>2 DEF TapsTyped
    <2>10. \A j \in TicketRows \ crossing' : MarkRight(j)'
        BY <1>m, <2>5, <2>8, <2>9 DEF MarkRight, Board!Toggling
    <2>11. QED
        BY <1>t, <2>5, <2>6, <2>7, <2>10 DEF BoardInv
<1>8. ASSUME NEW c \in Cooks, NEW k \in TicketRows, Board!PressItem(c, k) PROVE BoardInv'
    <2>1. PICK read : read = [does |-> "toggle", ticket |-> k, seen |-> cooked[k]]
        OBVIOUS
    <2>2. tap' = [tap EXCEPT ![c] = read] /\ tap[c].does = "nothing"
        BY <1>8, <2>1 DEF Board!PressItem, Board!NoTap
    <2>3. read.does = "toggle" /\ read.ticket = k /\ read.seen = cooked[k]
        BY <2>1
    <2>4. /\ UNCHANGED <<ticket, cooked>>
          /\ crossing' = IF Board!Toggling(k) = {} THEN crossing ELSE crossing \union {k}
          /\ turns' = [turns EXCEPT ![k] = @ + 1]
        BY <1>8 DEF Board!PressItem
    <2>5. TapsTyped'
        BY <1>t, <2>2, <2>3 DEF TapsTyped
    <2>6. \A d \in Cooks : d # c => tap'[d] = tap[d]
        BY <1>t, <2>2 DEF TapsTyped
    <2>7. tap'[c] = read
        BY <1>t, <2>2 DEF TapsTyped
    <2>8. DOMAIN turns' = TicketRows /\ \A j \in TicketRows : turns'[j] \in Nat
        BY <1>t, <2>4
    <2>9. ASSUME NEW j \in TicketRows \ crossing' PROVE MarkRight(j)'
        <3>1. j \notin crossing /\ MarkRight(j) /\ (j = k => Board!Toggling(k) = {})
            BY <1>m, <2>4, <2>9
        <3>2. CASE j # k
            <4>1. Board!Toggling(j)' = Board!Toggling(j) /\ c \notin Board!Toggling(j)
                BY <2>2, <2>3, <2>6, <2>7, <3>2 DEF Board!Toggling
            <4>2. turns'[j] = turns[j] /\ cooked' = cooked
                BY <1>t, <2>4, <3>2
            <4>3. QED
                BY <2>6, <3>1, <4>1, <4>2 DEF MarkRight, Board!Toggling
        <3>3. CASE j = k
            <4>1. Board!Toggling(k)' = {c}
                BY <2>3, <2>6, <2>7, <3>1, <3>3 DEF Board!Toggling
            <4>2. turns'[k] = turns[k] + 1 /\ turns[k] \in Nat
                BY <1>t, <2>4
            <4>3. Odd(turns'[k]) <=> ~Odd(turns[k])
                BY <4>2, OddAlternates
            <4>4. cooked[k] <=> Odd(turns[k])
                BY <3>1, <3>3 DEF MarkRight
            <4>5. QED
                BY <2>3, <2>4, <2>7, <3>3, <4>1, <4>3, <4>4 DEF MarkRight
        <3>4. QED
            BY <3>2, <3>3
    <2>10. QED
        BY <1>t, <2>4, <2>5, <2>8, <2>9 DEF BoardInv
<1>9. ASSUME NEW c \in Cooks, Board!WriteItem(c) PROVE BoardInv'
    <2>1. PICK done : done = Board!NoTap
        OBVIOUS
    <2>2. tap' = [tap EXCEPT ![c] = done] /\ done.does = "nothing" /\ tap[c].does = "toggle"
        BY <1>9, <2>1 DEF Board!WriteItem, Board!NoTap
    <2>3. PICK k \in TicketRows : k = tap[c].ticket
        BY <1>t, <2>2 DEF TapsTyped
    <2>4. PICK b \in BOOLEAN : (b <=> ~tap[c].seen) /\ cooked' = [cooked EXCEPT ![k] = b]
        BY <1>9, <2>3 DEF Board!WriteItem
    <2>5. UNCHANGED <<ticket, turns, crossing>>
        BY <1>9 DEF Board!WriteItem
    <2>6. DOMAIN cooked' = TicketRows /\ \A j \in TicketRows : cooked'[j] \in BOOLEAN
        BY <1>t, <2>4
    <2>7. TapsTyped'
        BY <1>t, <2>2 DEF TapsTyped
    <2>8. \A d \in Cooks : d # c => tap'[d] = tap[d]
        BY <1>t, <2>2 DEF TapsTyped
    <2>9. tap'[c] = done
        BY <1>t, <2>2 DEF TapsTyped
    <2>10. ASSUME NEW j \in TicketRows \ crossing' PROVE MarkRight(j)'
        <3>1. MarkRight(j)
            BY <1>m, <2>5, <2>10
        <3>2. CASE j # k
            <4>1. Board!Toggling(j)' = Board!Toggling(j) /\ c \notin Board!Toggling(j)
                BY <2>2, <2>3, <2>8, <2>9, <3>2 DEF Board!Toggling
            <4>2. cooked'[j] = cooked[j] /\ turns' = turns
                BY <1>t, <2>4, <2>5, <3>2
            <4>3. QED
                BY <2>8, <3>1, <4>1, <4>2 DEF MarkRight, Board!Toggling
        <3>3. CASE j = k
            <4>1. c \in Board!Toggling(k)
                BY <2>2, <2>3 DEF Board!Toggling
            <4>2. /\ \A d \in Board!Toggling(k) : d = c
                  /\ tap[c].seen <=> cooked[k]
                  /\ cooked[k] <=> ~Odd(turns[k])
                BY <3>1, <3>3, <4>1 DEF MarkRight
            <4>3. Board!Toggling(k)' = {}
                BY <2>2, <2>8, <2>9, <4>2 DEF Board!Toggling
            <4>4. cooked'[k] = b
                BY <1>t, <2>4
            <4>5. QED
                BY <2>4, <2>5, <3>3, <4>2, <4>3, <4>4 DEF MarkRight
        <3>4. QED
            BY <3>2, <3>3
    <2>11. QED
        BY <1>t, <2>5, <2>6, <2>7, <2>10 DEF BoardInv
<1>n. CASE Board!Next
    BY <1>n, <1>2, <1>3, <1>4, <1>5, <1>6, <1>7, <1>8, <1>9 DEF Board!Next
<1> QED
    BY <1>1, <1>n

TicketsGoBack ==
    \A k \in TicketRows : Board!Rank[ticket'[k]] < Board!Rank[ticket[k]] =>
         \/ \E c \in Cooks : tap[c].does = "status" /\ tap[c].ticket = k /\ tap[c].seen # ticket[k]
         \/ \E s \in DOMAIN Board!Rank \ {"none"} : Board!PatchTicket(k, s)

\* Only a press that was overtaken, or the ticket's own API, moves a ticket back.
LEMMA BoardMovesOn == BoardInv /\ [Board!Next]_boardVars => [TicketsGoBack]_boardVars
<1> SUFFICES ASSUME BoardInv, Board!Next PROVE TicketsGoBack
    OBVIOUS
<1> SUFFICES ASSUME NEW k \in TicketRows, Board!Rank[ticket'[k]] < Board!Rank[ticket[k]]
             PROVE  \/ \E c \in Cooks : tap[c].does = "status" /\ tap[c].ticket = k /\ tap[c].seen # ticket[k]
                    \/ \E s \in DOMAIN Board!Rank \ {"none"} : Board!PatchTicket(k, s)
    BY DEF TicketsGoBack
<1>t. DOMAIN ticket = TicketRows /\ (\A j \in TicketRows : ticket[j] \in TicketStages) /\ TapsTyped
    BY DEF BoardInv
<1>r. Board!Rank[ticket[k]] \in Nat
    BY <1>t, StagesRanked
<1>0. ticket'[k] # ticket[k]
    BY <1>r
<1>2. ASSUME NEW j \in TicketRows, Board!SendTicket(j) PROVE FALSE
    <2>1. ticket[j] = "none" /\ ticket' = [ticket EXCEPT ![j] = "new"]
        BY <1>2 DEF Board!SendTicket
    <2>2. ticket'[k] = "new" /\ ticket[k] = "none"
        BY <1>0, <1>t, <2>1
    <2>3. QED
        BY <2>2 DEF Board!Rank
<1>3. ASSUME NEW j \in TicketRows, NEW s \in DOMAIN Board!Rank \ {"none"}, Board!PatchTicket(j, s)
      PROVE  Board!PatchTicket(k, s)
    <2>1. j = k
        BY <1>0, <1>3, <1>t DEF Board!PatchTicket
    <2>2. QED
        BY <1>3, <2>1
<1>5. ASSUME NEW o \in open, NEW s \in {"preparing", "ready", "served"}, Board!MoveOrder(o, s)
      PROVE  FALSE
    <2>1. Board!Rank[ticket[k]] < Board!Rank[s] /\ ticket'[k] = s
        BY <1>0, <1>5 DEF Board!MoveOrder
    <2>2. Board!Rank[s] \in Nat
        BY StagesRanked DEF TicketStages
    <2>3. QED
        BY <1>r, <2>1, <2>2
<1>7. ASSUME NEW c \in Cooks, Board!WriteStatus(c)
      PROVE  tap[c].does = "status" /\ tap[c].ticket = k /\ tap[c].seen # ticket[k]
    <2>1. tap[c].does = "status" /\ ticket' = [ticket EXCEPT ![tap[c].ticket] = Board!Moved(tap[c].seen, tap[c].to)]
        BY <1>7 DEF Board!WriteStatus
    <2>2. tap[c].seen \in TicketStages /\ tap[c].to \in {"preparing", "ready"}
        BY <1>t, <2>1 DEF TapsTyped
    <2>3. tap[c].ticket = k /\ ticket'[k] = Board!Moved(tap[c].seen, tap[c].to)
        BY <1>0, <1>t, <2>1
    <2>4. /\ Board!Moved(tap[c].seen, tap[c].to) \in TicketStages
          /\ Board!Rank[tap[c].seen] <= Board!Rank[Board!Moved(tap[c].seen, tap[c].to)]
        BY <2>2, PressMovesOn
    <2>5. Board!Rank[ticket'[k]] \in Nat /\ Board!Rank[tap[c].seen] \in Nat
        BY <2>2, <2>3, <2>4, StagesRanked
    <2>6. tap[c].seen # ticket[k]
        BY <1>r, <2>3, <2>4, <2>5
    <2>7. QED
        BY <2>1, <2>3, <2>6
<1>8. ticket' # ticket
    BY <1>0
<1>9. CASE \E j \in TicketRows : Board!SendTicket(j) \/ \E s \in DOMAIN Board!Rank \ {"none"} : Board!PatchTicket(j, s)
    BY <1>9, <1>2, <1>3
<1>10. CASE \E o \in open : Board!CloseOrder(o) \/ \E s \in {"preparing", "ready", "served"} : Board!MoveOrder(o, s)
    BY <1>10, <1>5, <1>8 DEF Board!CloseOrder
<1>11. CASE \E c \in Cooks : \/ \E j \in TicketRows : \/ \E to \in {"preparing", "ready"} : Board!PressStatus(c, j, to)
                                                      \/ Board!PressItem(c, j)
                             \/ Board!WriteStatus(c) \/ Board!WriteItem(c)
    <2>1. PICK c \in Cooks : Board!WriteStatus(c)
        BY <1>8, <1>11 DEF Board!PressStatus, Board!PressItem, Board!WriteItem
    <2>2. QED
        BY <1>7, <2>1
<1>12. QED
    BY <1>9, <1>10, <1>11 DEF Board!Next

\* However many cooks press at once and whatever the API does beside them: a ticket goes
\* back only by a press that was overtaken or by the ticket's own API, and an item is
\* marked after an odd number of presses unless two were under way together
\* (KDSUpdateStatusView, KDSBumpItemView, OrderViewSet.status, KOTViewSet.status).
THEOREM CooksAgreed == PremisesSpec => CooksAgree
<1>1. PremisesSpec => []BoardInv
    BY BoardInit, BoardNext, BoardSteps, PTL
<1>2. PremisesSpec => [][TicketsGoBack]_boardVars
    BY <1>1, BoardMovesOn, BoardSteps, PTL
<1>3. [TicketsGoBack]_boardVars => [\A k \in TicketRows : Board!Rank[ticket'[k]] < Board!Rank[ticket[k]] =>
         \/ \E c \in Cooks : tap[c].does = "status" /\ tap[c].ticket = k /\ tap[c].seen # ticket[k]
         \/ \E s \in DOMAIN Board!Rank \ {"none"} : Board!PatchTicket(k, s)]_Board!boardVars
    BY DEF TicketsGoBack, boardVars, Board!boardVars
<1>4. BoardInv => \A k \in TicketRows \ crossing :
                    Board!Toggling(k) = {} => (cooked[k] <=> turns[k] % 2 = 1)
    BY DEF BoardInv, MarkRight, Odd
<1>5. QED
    BY <1>1, <1>2, <1>3, <1>4, PTL DEF CooksAgree, Board!CooksAgree, Board!TicketsMoveOn, Board!MarksFollowPresses

-----------------------------------------------------------------------------
(* Combos on a cart *)

LEMMA ComboSteps == PremisesSpec => Cart!Init /\ [][Cart!Next]_offerVars
<1>1. PremisesInit => Cart!Init
    BY DEF PremisesInit
<1>2. [PremisesNext]_premisesVars => [Cart!Next]_offerVars
    BY DEF PremisesNext, premisesVars, offerVars
<1>3. PremisesSpec => PremisesInit /\ [][PremisesNext]_premisesVars
    BY PTL DEF PremisesSpec, premisesVars
<1>4. QED
    BY <1>1, <1>2, <1>3, PTL

LEMMA CartSums ==
    /\ \A f, S : Cart!SumIn(f, S) = SumIn(f, S)
    /\ \A f : Cart!SumOver(f) = SumOver(f)
BY DEF Cart!SumIn, Cart!SumOver, Cart!SumTable, Cart!Pick, SumIn, SumOver, SumTable, Pick

LEMMA CartCount == \A S : Cart!Cardinality(S) = Cardinality(S)
BY DEF Cart!Cardinality, Cardinality

BillRow ==
    [live : {TRUE}, product : Products, qty : Nat \ {0}, disc : Int,
     combo : CartCombos \union {NoCombo}]
ComboRow ==
    [type : {"fixed_price", "percentage", "flat_discount"}, by : {"sale", "match"}, savings : Int,
     worth : Nat]

CartTyped ==
    /\ cartLine \in [CartLines -> {Cart!NoLine} \union BillRow]
    /\ cartCombo \in [CartCombos -> {Cart!NoOffer} \union ComboRow]

\* Each line of a combo belongs to one the order has.
Combined ==
    \A i \in Cart!Live : cartLine[i].combo # NoCombo => cartCombo[cartLine[i].combo] # Cart!NoOffer

CartInv == CartTyped /\ Combined /\ Cart!SharesMakeTheSavings

LEMMA NoLineNoRow == Cart!NoLine \notin BillRow /\ Cart!NoLine.live = FALSE
BY DEF Cart!NoLine, BillRow

LEMMA NoOfferNoRow == Cart!NoOffer \notin ComboRow
BY DEF Cart!NoOffer, ComboRow

LEMMA LinesAre ==
    ASSUME CartTyped
    PROVE  /\ \A i \in Cart!Live : i \in CartLines /\ cartLine[i] \in BillRow
           /\ \A i \in CartLines \ Cart!Live : cartLine[i] = Cart!NoLine
           /\ \A i \in CartLines : cartLine[i] = Cart!NoLine <=> i \notin Cart!Live
BY NoLineNoRow DEF CartTyped, Cart!Live, BillRow

LEMMA NewLineIs ==
    ASSUME NEW p \in Products, NEW n \in Nat \ {0}, NEW d \in Int,
           NEW c \in CartCombos \union {NoCombo}
    PROVE  /\ Cart!NewLine(p, n, d, c) \in BillRow
           /\ Cart!NewLine(p, n, d, c).product = p /\ Cart!NewLine(p, n, d, c).qty = n
           /\ Cart!NewLine(p, n, d, c).disc = d /\ Cart!NewLine(p, n, d, c).combo = c
           /\ Cart!NewLine(p, n, d, c).live = TRUE
BY DEF Cart!NewLine, BillRow

\* Rounding is off by half a cent at most.
LEMMA HalfUpNear ==
    ASSUME NEW n \in Int, NEW d \in Nat \ {0}
    PROVE  /\ Cart!HalfUp(n, d) \in Int
           /\ (2 * d) * Cart!HalfUp(n, d) - 2 * n <= d
           /\ 2 * n - (2 * d) * Cart!HalfUp(n, d) <= d
<1>1. ASSUME NEW m \in Nat
      PROVE  /\ (2 * m + d) \div (2 * d) \in Int
             /\ (2 * d) * ((2 * m + d) \div (2 * d)) - 2 * m <= d
             /\ 2 * m - (2 * d) * ((2 * m + d) \div (2 * d)) <= d
    <2>1. PICK t \in Int, e \in Nat \ {0} : t = 2 * m + d /\ e = 2 * d
        OBVIOUS
    <2>2. t \div e \in Int /\ t % e \in 0..(e - 1) /\ t = e * (t \div e) + (t % e)
        BY <2>1
    <2>3. PICK q \in Int, r \in 0..(e - 1) : q = t \div e /\ t = e * q + r
        BY <2>2
    <2>4. PICK eq \in Int : eq = e * q /\ t = eq + r
        BY <2>1, <2>3
    <2>5. eq - 2 * m <= d /\ 2 * m - eq <= d
        BY <2>1, <2>3, <2>4
    <2>6. QED
        BY <2>1, <2>3, <2>4, <2>5
<1>2. CASE n >= 0
    <2>1. n \in Nat /\ Cart!HalfUp(n, d) = (2 * n + d) \div (2 * d)
        BY <1>2 DEF Cart!HalfUp
    <2>2. QED
        BY <2>1, <1>1
<1>3. CASE ~(n >= 0)
    <2>1. PICK m \in Nat : m = 0 - n
        BY <1>3
    <2>2. Cart!HalfUp(n, d) = 0 - ((d - 2 * n) \div (2 * d))
        BY <1>3 DEF Cart!HalfUp
    <2>3. d - 2 * n = 2 * m + d
        BY <2>1
    <2>4. PICK h \in Int : h = (2 * m + d) \div (2 * d) /\ (2 * d) * h - 2 * m <= d
                             /\ 2 * m - (2 * d) * h <= d
        BY <1>1
    <2>5. Cart!HalfUp(n, d) = 0 - h
        BY <2>2, <2>3, <2>4
    <2>6. (2 * d) * (0 - h) = 0 - (2 * d) * h
        BY <2>4
    <2>7. PICK dh \in Int : dh = (2 * d) * h
        BY <2>4
    <2>8. QED
        BY <2>1, <2>4, <2>5, <2>6, <2>7
<1>4. QED
    BY <1>2, <1>3

\* Where there are rows enough, each of K gets one of its own.
LEMMA NewRowsAre ==
    ASSUME CartTyped, NEW K, IsFiniteSet(K), Cart!Room(K)
    PROVE  /\ Cart!NewRows(K) \in [K -> Cart!Free]
           /\ \A j, k \in K : Cart!NewRows(K)[j] = Cart!NewRows(K)[k] => j = k
<1>1. IsFiniteSet(Cart!Free)
    BY CombosAssumption, FS_Subset DEF Cart!Free
<1>2. PICK n \in Nat, m \in Nat : n = Cardinality(Cart!Free) /\ m = Cardinality(K) /\ m <= n
    BY <1>1, FS_CardinalityType, CartCount DEF Cart!Room
<1>3. PICK a \in Bijection(1..m, K) : TRUE
    BY <1>2, FS_CardinalityType DEF ExistsBijection
<1>4. PICK b \in Bijection(1..n, Cart!Free) : TRUE
    BY <1>1, <1>2, FS_CardinalityType DEF ExistsBijection
<1>5. /\ a \in [1..m -> K] /\ \A k \in K : \E j \in 1..m : a[j] = k
    BY <1>3 DEF Bijection, Injection, Surjection
<1>6. b \in [1..n -> Cart!Free] /\ \A i, j \in 1..n : b[i] = b[j] => i = j
    BY <1>4 DEF Bijection, Injection, Surjection, IsInjective
<1> DEFINE back == [k \in K |-> CHOOSE j \in 1..m : a[j] = k]
           at == [k \in K |-> b[back[k]]]
<1>7. \A k \in K : back[k] \in 1..m /\ a[back[k]] = k
    BY <1>5
<1>8. at \in [K -> Cart!Free]
    BY <1>2, <1>6, <1>7
<1>9. \A j, k \in K : at[j] = at[k] => j = k
    BY <1>2, <1>6, <1>7
<1> HIDE DEF at
<1>10. QED
    BY <1>8, <1>9 DEF Cart!NewRows

Shared(c) ==
    cartCombo[c] # Cart!NoOffer =>
        LET gap == Cart!Given(c) - cartCombo[c].savings
            roundings == Cardinality(Cart!LinesOf(c)) + 1
        IN  IF cartCombo[c].by = "sale" THEN gap = 0
            ELSE cartCombo[c].worth > 0 => 2 * gap \in (0 - roundings)..roundings

LEMMA SharedAll ==
    /\ Cart!SharesMakeTheSavings <=> \A c \in CartCombos \ editedCombos : Shared(c)
    /\ Cart!SharesMakeTheSavings' <=> \A c \in CartCombos \ editedCombos' : Shared(c)'
BY CartCount DEF Cart!SharesMakeTheSavings, Shared

LEMMA LinesOfAre ==
    ASSUME CartTyped, NEW c
    PROVE  /\ Cart!LinesOf(c) = {i \in CartLines : cartLine[i] # Cart!NoLine /\ cartLine[i].combo = c}
           /\ IsFiniteSet(Cart!LinesOf(c))
<1>1. Cart!LinesOf(c) = {i \in CartLines : cartLine[i] # Cart!NoLine /\ cartLine[i].combo = c}
    BY LinesAre DEF Cart!LinesOf, Cart!Live
<1>2. Cart!LinesOf(c) \in SUBSET CartLines
    BY <1>1
<1>3. QED
    BY <1>1, <1>2, CombosAssumption, FS_Subset

\* A combo none of whose lines a step touches keeps its savings.
LEMMA SharesKept ==
    ASSUME CartTyped, CartTyped', NEW c \in CartCombos, Shared(c), cartCombo'[c] = cartCombo[c],
           \A i \in CartLines : i \in Cart!LinesOf(c) \/ i \in Cart!LinesOf(c)'
              => cartLine'[i] = cartLine[i]
    PROVE  Shared(c)'
<1>1. Cart!LinesOf(c) \subseteq CartLines /\ Cart!LinesOf(c)' \subseteq CartLines
    BY DEF Cart!LinesOf, Cart!Live
<1>2. \A i \in CartLines : i \in Cart!LinesOf(c)' <=> i \in Cart!LinesOf(c)
    BY <1>1 DEF Cart!LinesOf, Cart!Live
<1>3. Cart!LinesOf(c)' = Cart!LinesOf(c)
    BY <1>1, <1>2
<1>4. Cart!Given(c)' = Cart!Given(c)
    <2>1. [i \in Cart!LinesOf(c)' |-> cartLine'[i].disc] = [i \in Cart!LinesOf(c) |-> cartLine[i].disc]
        BY <1>1, <1>3
    <2>2. QED
        BY <2>1 DEF Cart!Given
<1>5. QED
    BY <1>3, <1>4 DEF Shared

LEMMA CartInit == Cart!Init => CartInv
<1> SUFFICES ASSUME Cart!Init PROVE CartInv
    OBVIOUS
<1>1. CartTyped
    BY DEF Cart!Init, CartTyped
<1>2. \A i \in CartLines : cartLine[i] = Cart!NoLine
    BY DEF Cart!Init
<1>3. Combined
    BY <1>1, <1>2, LinesAre DEF Combined, Cart!Live
<1>4. \A c \in CartCombos : cartCombo[c] = Cart!NoOffer
    BY DEF Cart!Init
<1>5. Cart!SharesMakeTheSavings
    BY <1>4, SharedAll DEF Shared
<1>6. QED
    BY <1>1, <1>3, <1>5 DEF CartInv

\* One line more, or less, or of another quantity.
LEMMA LineWritten ==
    ASSUME CartInv, NEW i \in CartLines, NEW x \in {Cart!NoLine} \union BillRow,
           cartLine' = [cartLine EXCEPT ![i] = x], UNCHANGED cartCombo,
           editedCombos \subseteq editedCombos',
           x # Cart!NoLine => x.combo = NoCombo \/ (i \in Cart!Live /\ x.combo = cartLine[i].combo),
           i \in Cart!Live => cartLine[i].combo \in editedCombos' \union {NoCombo}
    PROVE  CartInv'
<1>1. CartTyped /\ Combined /\ Cart!SharesMakeTheSavings
    BY DEF CartInv
<1>2. CartTyped'
    BY <1>1 DEF CartTyped
<1>3. cartLine'[i] = x /\ \A j \in CartLines \ {i} : cartLine'[j] = cartLine[j]
    BY <1>1 DEF CartTyped
<1>4. \A j \in CartLines : j \in Cart!Live' <=> cartLine'[j] # Cart!NoLine
    BY <1>2, NoLineNoRow DEF CartTyped, Cart!Live, BillRow
<1>5. Combined'
    <2> SUFFICES ASSUME NEW j \in Cart!Live', cartLine'[j].combo # NoCombo
                 PROVE  cartCombo'[cartLine'[j].combo] # Cart!NoOffer
        BY DEF Combined
    <2>1. j \in CartLines
        BY DEF Cart!Live
    <2>2. CASE j = i
        BY <2>2, <1>1, <1>3, <1>4, <2>1 DEF Combined
    <2>3. CASE j # i
        <3>1. j \in Cart!Live
            BY <1>1, <1>3, <1>4, <2>1, <2>3, LinesAre
        <3>2. QED
            BY <1>1, <1>3, <2>1, <2>3, <3>1 DEF Combined
    <2>4. QED
        BY <2>2, <2>3
<1>6. ASSUME NEW c \in CartCombos \ editedCombos' PROVE Shared(c)'
    <2>1. c \in CartCombos /\ c # NoCombo /\ c \notin editedCombos /\ Shared(c)
        BY <1>1, SharedAll, CombosAssumption
    <2>2. i \notin Cart!LinesOf(c)
        BY <2>1 DEF Cart!LinesOf
    <2>3. i \notin Cart!LinesOf(c)'
        <3>1. SUFFICES ASSUME i \in Cart!LinesOf(c)' PROVE FALSE
            OBVIOUS
        <3>2. i \in Cart!Live' /\ cartLine'[i].combo = c
            BY <3>1 DEF Cart!LinesOf
        <3>3. x # Cart!NoLine /\ x.combo = c
            BY <3>2, <1>3, <1>4
        <3>4. QED
            BY <3>3, <2>1
    <2>4. \A j \in CartLines : j \in Cart!LinesOf(c) \/ j \in Cart!LinesOf(c)'
             => cartLine'[j] = cartLine[j]
        BY <2>2, <2>3, <1>3
    <2>5. QED
        BY <1>1, <1>2, <2>1, <2>4, SharesKept
<1>7. Cart!SharesMakeTheSavings'
    BY <1>6, SharedAll
<1>8. QED
    BY <1>2, <1>5, <1>7 DEF CartInv

LEMMA CartAddItem ==
    ASSUME CartInv, NEW p \in Products, NEW n \in Quantities, Cart!AddItem(p, n)
    PROVE  CartInv'
<1>1. CartTyped
    BY DEF CartInv
<1>2. n \in Nat \ {0}
    BY CombosAssumption
<1> DEFINE i == Cart!NewRows({p})[p]
           x == Cart!NewLine(p, n, 0, NoCombo)
<1>3. IsFiniteSet({p}) /\ Cart!Room({p})
    BY FS_Singleton DEF Cart!AddItem
<1>4. i \in Cart!Free
    BY <1>1, <1>3, NewRowsAre
<1>5. i \in CartLines /\ i \notin Cart!Live
    BY <1>1, <1>4, LinesAre DEF Cart!Free
<1>6. x \in BillRow /\ x.combo = NoCombo
    <2>1. 0 \in Int /\ NoCombo \in CartCombos \union {NoCombo}
        OBVIOUS
    <2>2. QED
        BY <1>2, <2>1 DEF Cart!NewLine, BillRow
<1>7. cartLine' = [cartLine EXCEPT ![i] = x] /\ UNCHANGED <<cartCombo, editedCombos>>
    BY DEF Cart!AddItem
<1> HIDE DEF i, x
<1>8. QED
    BY <1>5, <1>6, <1>7, LineWritten

LEMMA CartSetItemQty ==
    ASSUME CartInv, NEW i \in CartLines, NEW n \in {0} \union Quantities, Cart!SetItemQty(i, n)
    PROVE  CartInv'
<1>1. CartTyped
    BY DEF CartInv
<1>2. i \in Cart!Live /\ cartLine[i] \in BillRow
    BY <1>1, LinesAre DEF Cart!SetItemQty
<1>3. PICK x : x = IF n = 0 THEN Cart!NoLine ELSE [cartLine[i] EXCEPT !.qty = n]
    OBVIOUS
<1>4. cartLine' = [cartLine EXCEPT ![i] = x]
    BY <1>1, <1>3 DEF Cart!SetItemQty, CartTyped
<1>5. n = 0 \/ n \in Nat \ {0}
    BY CombosAssumption
<1>6. x \in {Cart!NoLine} \union BillRow
    BY <1>2, <1>3, <1>5 DEF BillRow
<1>7. x # Cart!NoLine => x.combo = cartLine[i].combo
    BY <1>2, <1>3 DEF BillRow
<1>8. /\ UNCHANGED cartCombo /\ editedCombos \subseteq editedCombos'
      /\ cartLine[i].combo \in editedCombos' \union {NoCombo}
    BY DEF Cart!SetItemQty
<1>9. QED
    BY <1>2, <1>4, <1>6, <1>7, <1>8, LineWritten

\* A new combo takes rows that were free or belonged to none; the rest stays as it was.
Joins(c, K, place, d) ==
    /\ \A j, k \in K : place[j] = place[k] => j = k
    /\ \A k \in K :
         /\ place[k] \in Cart!Live => cartLine[place[k]].combo = NoCombo
         /\ cartLine'[place[k]] \in BillRow
         /\ cartLine'[place[k]].combo = c /\ cartLine'[place[k]].disc = d[k]
    /\ \A i \in CartLines : (\A k \in K : place[k] # i) =>
         \/ cartLine'[i] = cartLine[i]
         \/ /\ i \in Cart!Live /\ cartLine[i].combo = NoCombo
            /\ cartLine'[i] \in BillRow /\ cartLine'[i].combo = NoCombo

LEMMA Joined ==
    ASSUME CartInv, CartTyped', NEW c \in CartCombos, cartCombo[c] = Cart!NoOffer,
           NEW row \in ComboRow, cartCombo' = [cartCombo EXCEPT ![c] = row], UNCHANGED editedCombos,
           NEW K, IsFiniteSet(K), NEW place \in [K -> CartLines], NEW d \in [K -> Int],
           Joins(c, K, place, d)
    PROVE  /\ Cardinality(Cart!LinesOf(c)') = Cardinality(K)
           /\ Cart!Given(c)' = SumOver(d)
           /\ Shared(c)' => CartInv'
<1>1. CartTyped /\ Combined /\ Cart!SharesMakeTheSavings /\ c # NoCombo
    BY CombosAssumption DEF CartInv
<1>2. /\ cartCombo'[c] = row /\ \A b \in CartCombos \ {c} : cartCombo'[b] = cartCombo[b]
      /\ row # Cart!NoOffer
    BY <1>1, NoOfferNoRow DEF CartTyped
<1>3. \A i \in CartLines : i \in Cart!Live' <=> cartLine'[i] # Cart!NoLine
    BY NoLineNoRow DEF CartTyped, Cart!Live, BillRow
<1>4. \A i \in CartLines : i \in Cart!Live <=> cartLine[i] # Cart!NoLine
    BY <1>1, LinesAre
<1>5. ASSUME NEW i \in CartLines, \A k \in K : place[k] # i, i \in Cart!Live'
      PROVE  i \in Cart!Live /\ cartLine'[i].combo = cartLine[i].combo /\ cartLine[i].combo # c
    <2>1. i \in Cart!Live /\ cartLine'[i].combo = cartLine[i].combo
        BY <1>3, <1>4, <1>5 DEF Joins
    <2>2. cartLine[i].combo # c
        BY <1>1, <2>1 DEF Combined
    <2>3. QED
        BY <2>1, <2>2
<1>6. \A k \in K : place[k] \in Cart!Live' /\ place[k] \in CartLines
    BY <1>3, NoLineNoRow DEF Joins
<1>7. /\ \A k \in K : place[k] \in Cart!LinesOf(c)'
      /\ \A i \in Cart!LinesOf(c)' : i \in CartLines /\ \E k \in K : place[k] = i
    <2>1. \A k \in K : place[k] \in Cart!LinesOf(c)'
        BY <1>6 DEF Joins, Cart!LinesOf
    <2>2. ASSUME NEW i \in Cart!LinesOf(c)' PROVE i \in CartLines /\ \E k \in K : place[k] = i
        <3>1. i \in CartLines /\ i \in Cart!Live' /\ cartLine'[i].combo = c
            BY DEF Cart!LinesOf, Cart!Live
        <3>2. QED
            BY <3>1, <1>5
    <2>3. QED
        BY <2>1, <2>2
<1>8. Cardinality(Cart!LinesOf(c)') = Cardinality(K)
    <2>1. PICK T : T = Cart!LinesOf(c)'
        OBVIOUS
    <2>2. place \in [K -> T] /\ \A i \in T : \E k \in K : place[k] = i
        BY <1>7, <2>1
    <2>3. place \in Bijection(K, T)
        BY <2>2 DEF Joins, Bijection, Injection, Surjection, IsInjective
    <2>4. ExistsBijection(K, T)
        BY <2>3 DEF ExistsBijection
    <2>5. Cardinality(T) = Cardinality(K)
        BY <2>4, FS_Bijection
    <2>6. QED
        BY <2>1, <2>5
<1>9. Cart!Given(c)' = SumOver(d)
    <2>1. PICK g : g = [i \in Cart!LinesOf(c)' |-> cartLine'[i].disc]
        OBVIOUS
    <2>2. DOMAIN g = Cart!LinesOf(c)' /\ DOMAIN d = K
        BY <2>1
    <2>3. \A i \in DOMAIN g : i \in CartLines /\ \E k \in K : place[k] = i
        BY <1>7, <2>2
    <2>4. \A k \in K : place[k] \in DOMAIN g /\ g[place[k]] = d[k]
        BY <1>7, <2>1, <2>2 DEF Joins
    <2>5. \A i \in DOMAIN g : g[i] \in Int
        BY <2>3, <2>4
    <2>6. IsFiniteSet(DOMAIN g)
        <3>1. DOMAIN g \in SUBSET CartLines
            BY <2>3
        <3>2. QED
            BY <3>1, CombosAssumption, FS_Subset
    <2>7. IsSummable(d) /\ IsSummable(g)
        BY <2>2, <2>5, <2>6 DEF IsSummable
    <2>8. place \in [DOMAIN d -> DOMAIN g]
        BY <2>2, <2>4
    <2>9. \A j, k \in DOMAIN d : place[j] = place[k] => j = k
        BY <2>2 DEF Joins
    <2>10. (\A i \in DOMAIN g : \E k \in DOMAIN d : place[k] = i) /\ \A k \in DOMAIN d : g[place[k]] = d[k]
        BY <2>2, <2>3, <2>4
    <2>11. SumOver(g) = SumOver(d)
        BY <2>7, <2>8, <2>9, <2>10, SumOverRenamed
    <2>12. Cart!Given(c)' = SumOver(g)
        BY <2>1, CartSums DEF Cart!Given
    <2>13. QED
        BY <2>11, <2>12
<1>10. Combined'
    <2> SUFFICES ASSUME NEW i \in Cart!Live', cartLine'[i].combo # NoCombo
                 PROVE  cartCombo'[cartLine'[i].combo] # Cart!NoOffer
        BY DEF Combined
    <2>1. i \in CartLines
        BY DEF Cart!Live
    <2>2. CASE \E k \in K : place[k] = i
        BY <2>2, <1>2 DEF Joins
    <2>3. CASE ~ \E k \in K : place[k] = i
        <3>1. i \in Cart!Live /\ cartLine'[i].combo = cartLine[i].combo /\ cartLine[i].combo # c
            BY <1>5, <2>1, <2>3
        <3>2. cartLine[i].combo \in CartCombos
            BY <1>1, <3>1, LinesAre DEF BillRow
        <3>3. QED
            BY <3>1, <3>2, <1>1, <1>2 DEF Combined
    <2>4. QED
        BY <2>2, <2>3
<1>11. ASSUME NEW b \in CartCombos \ editedCombos, b # c PROVE Shared(b)'
    <2>1. Shared(b) /\ b # NoCombo
        BY <1>1, SharedAll, CombosAssumption
    <2>2. ASSUME NEW i \in CartLines, i \in Cart!LinesOf(b) \/ i \in Cart!LinesOf(b)'
          PROVE  cartLine'[i] = cartLine[i]
        <3>1. ASSUME NEW k \in K, place[k] = i PROVE FALSE
            <4>1. ~ (i \in Cart!LinesOf(b)')
                BY <1>11, <3>1 DEF Joins, Cart!LinesOf
            <4>2. ~ (i \in Cart!LinesOf(b))
                BY <2>1, <3>1 DEF Joins, Cart!LinesOf
            <4>3. QED
                BY <2>2, <4>1, <4>2
        <3>2. \/ cartLine'[i] = cartLine[i]
              \/ /\ i \in Cart!Live /\ cartLine[i].combo = NoCombo
                 /\ cartLine'[i] \in BillRow /\ cartLine'[i].combo = NoCombo
            BY <3>1 DEF Joins
        <3>3. CASE cartLine[i].combo = NoCombo /\ cartLine'[i].combo = NoCombo
            <4>1. i \notin Cart!LinesOf(b)
                BY <3>3, <2>1 DEF Cart!LinesOf
            <4>2. ~ (i \in Cart!LinesOf(b)')
                BY <3>3, <2>1 DEF Cart!LinesOf
            <4>3. QED
                BY <2>2, <4>1, <4>2
        <3>4. QED
            BY <3>2, <3>3
    <2>3. cartCombo'[b] = cartCombo[b]
        BY <1>2, <1>11
    <2>4. QED
        BY <1>1, <2>1, <2>2, <2>3, SharesKept
<1>12. Shared(c)' => CartInv'
    <2> SUFFICES ASSUME Shared(c)' PROVE CartInv'
        OBVIOUS
    <2>1. \A b \in CartCombos \ editedCombos' : Shared(b)'
        BY <1>11
    <2>2. QED
        BY <2>1, <1>10, SharedAll DEF CartInv
<1>13. QED
    BY <1>8, <1>9, <1>12

LEMMA WorthIs ==
    ASSUME NEW sel \in Selections
    PROVE  /\ Len(sel) \in Nat /\ DOMAIN sel = 1..Len(sel)
           /\ \A j \in DOMAIN sel : /\ sel[j][1] \in Products /\ sel[j][2] \in Nat \ {0}
                                    /\ sel[j][2] * UnitPrice[sel[j][1]] \in Nat
<1>1. sel \in Seq(Products \X (Nat \ {0}))
    BY CombosAssumption
<1>2. Len(sel) \in Nat /\ DOMAIN sel = 1..Len(sel) /\ sel \in [1..Len(sel) -> Products \X (Nat \ {0})]
    BY <1>1, LenProperties
<1>3. ASSUME NEW j \in DOMAIN sel
      PROVE  /\ sel[j][1] \in Products /\ sel[j][2] \in Nat \ {0}
             /\ sel[j][2] * UnitPrice[sel[j][1]] \in Nat
    <2>1. sel[j] \in Products \X (Nat \ {0})
        BY <1>2
    <2>2. sel[j][1] \in Products /\ sel[j][2] \in Nat \ {0}
        BY <2>1
    <2>3. PICK n \in Nat, u \in Nat : n = sel[j][2] /\ u = UnitPrice[sel[j][1]]
        BY <2>2, CombosAssumption
    <2>4. n * u \in Nat
        OBVIOUS
    <2>5. QED
        BY <2>2, <2>3, <2>4
<1>4. QED
    BY <1>2, <1>3

\* add_combo takes nothing off what is worth nothing.
LEMMA SoldSavingsIs ==
    ASSUME NEW offer \in Offers, NEW v \in Nat
    PROVE  Cart!SoldSavings(offer, v) \in Nat /\ (v = 0 => Cart!SoldSavings(offer, v) = 0)
<1>1. /\ offer.type \in {"fixed_price", "percentage", "flat_discount"} /\ offer.value \in Nat
    BY CombosAssumption
<1>2. PICK w \in Nat : w = offer.value
    BY <1>1
<1>3. Cart!Target(offer, v) \in Int /\ (v = 0 => Cart!Target(offer, v) >= 0)
    <2>1. CASE offer.type = "fixed_price"
        <3>1. Cart!Target(offer, v) = w
            BY <2>1, <1>2 DEF Cart!Target
        <3>2. QED
            BY <3>1
    <2>2. CASE offer.type = "percentage"
        <3>1. Cart!Target(offer, v) = Cart!HalfUp(v * (100 - w), 100)
            BY <2>2, <1>2 DEF Cart!Target
        <3>2. PICK n \in Int : n = v * (100 - w) /\ (v = 0 => n = 0)
            <4>1. 100 - w \in Int /\ v \in Int
                BY <1>2
            <4>2. v * (100 - w) \in Int
                BY <4>1, Distributes
            <4>3. v = 0 => v * (100 - w) = 0
                BY <4>1
            <4>4. QED
                BY <4>2, <4>3
        <3>3. PICK h \in Int : h = Cart!HalfUp(n, 100) /\ 2 * n - (2 * 100) * h <= 100
            BY HalfUpNear
        <3>4. QED
            BY <3>1, <3>2, <3>3
    <2>3. CASE offer.type = "flat_discount"
        <3>1. Cart!Target(offer, v) = Cart!AtLeastZero(v - w)
            BY <2>3, <1>2 DEF Cart!Target
        <3>2. QED
            BY <3>1, <1>2 DEF Cart!AtLeastZero
    <2>4. QED
        BY <1>1, <2>1, <2>2, <2>3
<1>4. QED
    BY <1>3 DEF Cart!SoldSavings, Cart!AtLeastZero

\* The shares of what is sold make its savings, to the cent.
LEMMA SoldSharesAddUp ==
    ASSUME NEW n \in Nat, NEW worth \in [1..n -> Nat], NEW v \in Nat, v = SumOver(worth),
           NEW off \in Nat, v = 0 => off = 0
    PROVE  /\ Cart!SoldShares(worth, v, off) \in [1..n -> Int]
           /\ SumOver(Cart!SoldShares(worth, v, off)) = off
<1> DEFINE rounded == Cart!RoundedShares(worth, v, off)
           share == Cart!SoldShares(worth, v, off)
<1>1. Len(worth) = n /\ DOMAIN worth = 1..n /\ IsFiniteSet(1..n)
    BY FS_Interval
<1>2. rounded \in [1..n -> Int] /\ (v = 0 => \A j \in 1..n : rounded[j] = 0)
    <2>1. ASSUME NEW j \in 1..n
          PROVE  /\ (IF v = 0 THEN 0 ELSE Cart!HalfUp(off * worth[j], v)) \in Int
        <3>1. CASE v = 0
            BY <3>1
        <3>2. CASE v # 0
            <4>1. PICK w \in Nat : w = worth[j]
                OBVIOUS
            <4>2. PICK x \in Int : x = off * w
                BY <4>1
            <4>3. v \in Nat \ {0}
                BY <3>2
            <4>4. Cart!HalfUp(x, v) \in Int
                BY <4>2, <4>3, HalfUpNear
            <4>5. QED
                BY <3>2, <4>1, <4>2, <4>4
        <3>3. QED
            BY <3>1, <3>2
    <2>2. QED
        BY <1>1, <2>1 DEF Cart!RoundedShares
<1>3. IsSummable(rounded) /\ DOMAIN rounded = 1..n
    BY <1>1, <1>2 DEF IsSummable
<1> HIDE DEF rounded
<1>4. \A j \in 1..n : (1..(j - 1)) \in SUBSET DOMAIN rounded
    BY <1>3
<1>5. \A j \in 1..n : SumIn(rounded, 1..(j - 1)) \in Int
    BY <1>3, <1>4, SumInInt
<1>6. share = [j \in 1..n |-> IF v > 0 /\ j = n THEN off - SumIn(rounded, 1..(j - 1)) ELSE rounded[j]]
    BY <1>1, CartSums DEF Cart!SoldShares, rounded
<1>7. share \in [1..n -> Int]
    BY <1>2, <1>5, <1>6
<1>8. IsSummable(share) /\ DOMAIN share = 1..n
    BY <1>1, <1>7 DEF IsSummable
<1> HIDE DEF share
<1>9. CASE v = 0
    <2>1. \A j \in DOMAIN share : share[j] = 0
        BY <1>2, <1>6, <1>8, <1>9
    <2>2. SumOver(share) = 0
        BY <1>1, <1>8, <2>1, SumOverZero
    <2>3. QED
        BY <1>7, <1>9, <2>2 DEF share
<1>10. CASE v > 0
    <2>1. n # 0
        <3>1. SUFFICES ASSUME n = 0 PROVE FALSE
            OBVIOUS
        <3>2. DOMAIN worth = {}
            BY <3>1, <1>1
        <3>3. SumOver(worth) = 0
            BY <3>2, SumOverEmpty
        <3>4. QED
            BY <3>3, <1>10
    <2>2. n \in DOMAIN share /\ share[n] = off - SumIn(rounded, 1..(n - 1))
        BY <1>6, <1>8, <1>10, <2>1
    <2>3. SumOver(share) = share[n] + SumIn(share, DOMAIN share \ {n})
        BY <1>8, <2>2, SumOverSplit DEF SumIn
    <2>4. DOMAIN share \ {n} = 1..(n - 1)
        BY <1>8, <2>1
    <2>5. SumIn(share, 1..(n - 1)) = SumIn(rounded, 1..(n - 1))
        <3>1. \A j \in 1..(n - 1) : share[j] = rounded[j]
            BY <1>6
        <3>2. 1..(n - 1) \subseteq DOMAIN share /\ 1..(n - 1) \subseteq DOMAIN rounded
            BY <1>3, <1>8
        <3>3. QED
            BY <1>3, <1>8, <3>1, <3>2, SumInSame
    <2>6. PICK a \in Int : a = SumIn(rounded, 1..(n - 1))
        BY <1>5, <2>1
    <2>7. SumOver(share) = off
        <3>1. share[n] = off - a
            BY <2>2, <2>6
        <3>2. SumIn(share, DOMAIN share \ {n}) = a
            BY <2>4, <2>5, <2>6
        <3>3. SumOver(share) = (off - a) + a
            BY <2>3, <3>1, <3>2
        <3>4. QED
            BY <3>3, <2>6
    <2>8. QED
        BY <1>7, <2>7 DEF share
<1>11. QED
    BY <1>9, <1>10

LEMMA CartAddCombo ==
    ASSUME CartInv, NEW c \in CartCombos, NEW offer \in Offers, NEW sel \in Selections,
           Cart!AddCombo(c, offer, sel)
    PROVE  CartInv'
<1>1. CartTyped /\ c # NoCombo
    BY CombosAssumption DEF CartInv
<1>2. PICK n \in Nat : n = Len(sel) /\ DOMAIN sel = 1..n
    BY WorthIs
<1>3. \A j \in 1..n : /\ sel[j][1] \in Products /\ sel[j][2] \in Nat \ {0}
                      /\ sel[j][2] * UnitPrice[sel[j][1]] \in Nat
    BY <1>2, WorthIs
<1>4. PICK worth : worth = [j \in 1..n |-> sel[j][2] * UnitPrice[sel[j][1]]]
    OBVIOUS
<1>5. worth \in [1..n -> Nat] /\ IsFiniteSet(1..n)
    <2>1. IsFiniteSet(1..n)
        BY FS_Interval
    <2>2. worth \in [1..n -> Nat]
        BY <1>3, <1>4
    <2>3. QED
        BY <2>1, <2>2
<1>6. PICK v \in Nat : v = SumOver(worth)
    BY <1>5, SumOverNat
<1>7. PICK off \in Nat : off = Cart!SoldSavings(offer, v) /\ (v = 0 => off = 0)
    BY SoldSavingsIs
<1>8. PICK share \in [1..n -> Int] : share = Cart!SoldShares(worth, v, off) /\ SumOver(share) = off
    BY <1>5, <1>6, <1>7, SoldSharesAddUp
<1>9. PICK at : at = Cart!NewRows(1..n)
    BY SMTT(40)
<1>10. /\ cartCombo[c] = Cart!NoOffer /\ Cart!Room(1..n)
       /\ cartLine' = [i \in CartLines |->
             IF \E j \in 1..n : at[j] = i
             THEN Cart!NewLine(sel[CHOOSE k \in 1..n : at[k] = i][1], sel[CHOOSE k \in 1..n : at[k] = i][2],
                               share[CHOOSE k \in 1..n : at[k] = i], c)
             ELSE cartLine[i]]
       /\ cartCombo' = [cartCombo EXCEPT ![c] =
             [type |-> offer.type, by |-> "sale", savings |-> off, worth |-> v]]
       /\ UNCHANGED editedCombos
    BY <1>2, <1>4, <1>6, <1>7, <1>8, <1>9, CartSums DEF Cart!AddCombo
<1>11. at \in [1..n -> Cart!Free] /\ \A j, k \in 1..n : at[j] = at[k] => j = k
    BY <1>1, <1>5, <1>9, <1>10, NewRowsAre
<1>12. at \in [1..n -> CartLines] /\ \A k \in 1..n : at[k] \notin Cart!Live
    BY <1>1, <1>11, LinesAre DEF Cart!Free
<1>13. ASSUME NEW k \in 1..n
       PROVE  /\ cartLine'[at[k]] \in BillRow
              /\ cartLine'[at[k]].combo = c /\ cartLine'[at[k]].disc = share[k]
    <2>1. (CHOOSE j \in 1..n : at[j] = at[k]) = k
        BY <1>11
    <2>2. cartLine'[at[k]] = Cart!NewLine(sel[k][1], sel[k][2], share[k], c)
        BY <1>10, <1>12, <2>1
    <2>3. /\ sel[k][1] \in Products /\ sel[k][2] \in Nat \ {0} /\ share[k] \in Int
          /\ c \in CartCombos \union {NoCombo}
        BY <1>3
    <2>4. QED
        BY <2>2, <2>3 DEF Cart!NewLine, BillRow
<1>14. \A i \in CartLines : (\A k \in 1..n : at[k] # i) => cartLine'[i] = cartLine[i]
    BY <1>10
<1>15. CartTyped'
    <2>1. \A i \in CartLines : cartLine'[i] \in {Cart!NoLine} \union BillRow
        BY <1>1, <1>13, <1>14 DEF CartTyped
    <2>2. DOMAIN cartLine' = CartLines /\ cartLine' = [i \in CartLines |-> cartLine'[i]]
        BY <1>10
    <2>3. cartLine' \in [CartLines -> {Cart!NoLine} \union BillRow]
        BY <2>1, <2>2
    <2>4. [type |-> offer.type, by |-> "sale", savings |-> off, worth |-> v] \in ComboRow
        BY CombosAssumption DEF ComboRow
    <2>5. cartCombo' \in [CartCombos -> {Cart!NoOffer} \union ComboRow]
        BY <1>1, <1>10, <2>4 DEF CartTyped
    <2>6. QED
        BY <2>3, <2>5 DEF CartTyped
<1>16. Joins(c, 1..n, at, share)
    BY <1>11, <1>12, <1>13, <1>14 DEF Joins
<1>17. PICK sold : sold = [type |-> offer.type, by |-> "sale", savings |-> off, worth |-> v]
    OBVIOUS
<1>18. sold \in ComboRow /\ sold.by = "sale" /\ sold.savings = off
    BY <1>17, CombosAssumption DEF ComboRow
<1>19. cartCombo' = [cartCombo EXCEPT ![c] = sold] /\ cartCombo[c] = Cart!NoOffer /\ UNCHANGED editedCombos
    BY <1>10, <1>17
<1>20. Cart!Given(c)' = SumOver(share) /\ (Shared(c)' => CartInv')
    BY <1>5, <1>12, <1>15, <1>16, <1>18, <1>19, Joined
<1>21. cartCombo'[c] = sold
    BY <1>1, <1>19 DEF CartTyped
<1>22. Cart!Given(c)' - cartCombo'[c].savings = 0
    BY <1>8, <1>18, <1>20, <1>21
<1>23. Shared(c)'
    BY <1>18, <1>21, <1>22 DEF Shared
<1>24. QED
    BY <1>20, <1>23

LEMMA CartRemoveCombo ==
    ASSUME CartInv, NEW c \in CartCombos, Cart!RemoveCombo(c)
    PROVE  CartInv'
<1>1. CartTyped /\ Combined /\ Cart!SharesMakeTheSavings
    BY DEF CartInv
<1>2. /\ cartLine' = [i \in CartLines |->
                        IF i \in Cart!Live /\ cartLine[i].combo = c THEN Cart!NoLine ELSE cartLine[i]]
      /\ cartCombo' = [cartCombo EXCEPT ![c] = Cart!NoOffer]
      /\ editedCombos' = editedCombos \ {c}
    BY DEF Cart!RemoveCombo
<1>3. CartTyped'
    BY <1>1, <1>2 DEF CartTyped
<1>4. \A i \in CartLines : i \in Cart!Live' <=> cartLine'[i] # Cart!NoLine
    BY <1>3, NoLineNoRow DEF CartTyped, Cart!Live, BillRow
<1>5. \A i \in CartLines : i \in Cart!Live' => /\ i \in Cart!Live /\ cartLine'[i] = cartLine[i]
                                               /\ cartLine[i].combo # c
    BY <1>1, <1>2, <1>4, LinesAre
<1>6. Combined'
    <2> SUFFICES ASSUME NEW i \in Cart!Live', cartLine'[i].combo # NoCombo
                 PROVE  cartCombo'[cartLine'[i].combo] # Cart!NoOffer
        BY DEF Combined
    <2>1. i \in CartLines
        BY DEF Cart!Live
    <2>2. i \in Cart!Live /\ cartLine'[i] = cartLine[i] /\ cartLine[i].combo # c
        BY <2>1, <1>5
    <2>3. cartLine[i].combo \in CartCombos
        BY <1>1, <2>2, LinesAre DEF BillRow
    <2>4. cartCombo'[cartLine[i].combo] = cartCombo[cartLine[i].combo]
        BY <1>1, <1>2, <2>2, <2>3 DEF CartTyped
    <2>5. QED
        BY <1>1, <2>2, <2>4 DEF Combined
<1>7. ASSUME NEW b \in CartCombos \ editedCombos' PROVE Shared(b)'
    <2>1. CASE b = c
        <3>1. cartCombo'[b] = Cart!NoOffer
            BY <1>1, <1>2, <2>1 DEF CartTyped
        <3>2. QED
            BY <3>1 DEF Shared
    <2>2. CASE b # c
        <3>1. Shared(b) /\ cartCombo'[b] = cartCombo[b]
            BY <1>1, <1>2, <2>2, SharedAll DEF CartTyped
        <3>2. ASSUME NEW i \in CartLines, i \in Cart!LinesOf(b) \/ i \in Cart!LinesOf(b)'
              PROVE  cartLine'[i] = cartLine[i]
            <4>1. CASE i \in Cart!LinesOf(b)
                BY <4>1, <1>2, <2>2 DEF Cart!LinesOf
            <4>2. CASE i \in Cart!LinesOf(b)'
                BY <4>2, <1>5 DEF Cart!LinesOf
            <4>3. QED
                BY <3>2, <4>1, <4>2
        <3>3. QED
            BY <1>1, <1>3, <3>1, <3>2, SharesKept
    <2>3. QED
        BY <2>1, <2>2
<1>8. QED
    BY <1>3, <1>6, <1>7, SharedAll DEF CartInv

\* The loops of the matching visit assignable lines, a whole cart's once each.
IsWalk(offer, walk, n) ==
    /\ walk \in [1..n -> [group : Int, line : Cart!Assignable]]
    /\ offer.groups = <<>> => \A j, k \in 1..n : walk[j].line = walk[k].line => j = k
    /\ offer.groups # <<>> => \A k \in 1..n : walk[k].group \in 1..Len(offer.groups)

LEMMA GroupsAre ==
    ASSUME NEW offer \in Offers
    PROVE  /\ Len(offer.groups) \in Nat /\ DOMAIN offer.groups = 1..Len(offer.groups)
           /\ \A g \in DOMAIN offer.groups : offer.groups[g].min \in Nat
           /\ offer.groups # <<>> => Len(offer.groups) # 0
<1>1. offer.groups \in Seq([of : SUBSET Products, min : Nat])
    BY CombosAssumption
<1>2. /\ Len(offer.groups) \in Nat /\ DOMAIN offer.groups = 1..Len(offer.groups)
      /\ offer.groups \in [1..Len(offer.groups) -> [of : SUBSET Products, min : Nat]]
    BY <1>1, LenProperties
<1>3. \A g \in DOMAIN offer.groups : offer.groups[g].min \in Nat
    BY <1>2
<1>4. offer.groups # <<>> => Len(offer.groups) # 0
    BY <1>1, EmptySeq
<1>5. QED
    BY <1>2, <1>3, <1>4

LEMMA DivisionIs ==
    ASSUME NEW m \in Nat, NEW n \in Nat \ {0}, NEW g \in Nat, m < g * n
    PROVE  (m \div n) \in 0..(g - 1) /\ (m % n) \in 0..(n - 1)
<1>1. m \div n \in Int /\ (m % n) \in 0..(n - 1) /\ m = n * (m \div n) + (m % n)
    OBVIOUS
<1>2. PICK q \in Int, r \in 0..(n - 1) : q = m \div n /\ r = m % n /\ m = n * q + r
    BY <1>1
<1>3. q >= 0
    <2>1. SUFFICES ASSUME q <= -1 PROVE FALSE
        BY <1>2
    <2>2. n * q <= 0 - n
        BY <1>2, <2>1
    <2>3. QED
        BY <1>2, <2>2
<1>4. q <= g - 1
    <2>1. SUFFICES ASSUME q >= g PROVE FALSE
        BY <1>2
    <2>2. n * q >= g * n
        BY <1>2, <2>1
    <2>3. PICK a \in Int, b \in Int : a = n * q /\ b = g * n
        BY <1>2
    <2>4. QED
        BY <1>2, <2>2, <2>3
<1>5. QED
    BY <1>2, <1>3, <1>4

LEMMA WalkIs ==
    ASSUME CartTyped, NEW offer \in Offers, NEW lines \in Cart!QueryOrders(Cart!Assignable)
    PROVE  \E n \in Nat : IsWalk(offer, Cart!Walk(offer, lines), n)
<1>1. IsFiniteSet(Cart!Assignable)
    <2>1. Cart!Assignable \in SUBSET CartLines
        BY DEF Cart!Assignable, Cart!Live
    <2>2. QED
        BY <2>1, CombosAssumption, FS_Subset
<1>2. PICK m \in Nat : m = Cardinality(Cart!Assignable)
    BY <1>1, FS_CardinalityType
<1>3. lines \in [1..m -> Cart!Assignable] /\ \A j, k \in 1..m : lines[j] = lines[k] => j = k
    BY <1>2, CartCount DEF Cart!QueryOrders
<1>4. DOMAIN lines = 1..m /\ Len(lines) = m
    BY <1>3
<1>5. CASE offer.groups = <<>>
    <2>1. Cart!Walk(offer, lines) = [k \in 1..m |-> [group |-> 1, line |-> lines[k]]]
        BY <1>4, <1>5 DEF Cart!Walk
    <2>2. IsWalk(offer, Cart!Walk(offer, lines), m)
        BY <1>3, <1>5, <2>1 DEF IsWalk
    <2>3. QED
        BY <2>2
<1>6. CASE offer.groups # <<>>
    <2>1. PICK g \in Nat : g = Len(offer.groups)
        BY GroupsAre
    <2>2. PICK n \in Nat : n = g * m
        OBVIOUS
    <2>3. PICK walk : walk = Cart!Walk(offer, lines)
        OBVIOUS
    <2>4. walk = [k \in 1..n |-> [group |-> 1 + ((k - 1) \div m), line |-> lines[1 + ((k - 1) % m)]]]
        BY <1>4, <1>6, <2>1, <2>2, <2>3 DEF Cart!Walk
    <2>5. ASSUME NEW k \in 1..n
          PROVE  1 + ((k - 1) \div m) \in 1..g /\ lines[1 + ((k - 1) % m)] \in Cart!Assignable
        <3>1. m # 0
            <4>1. SUFFICES ASSUME m = 0 PROVE FALSE
                OBVIOUS
            <4>2. n = 0
                BY <4>1, <2>2
            <4>3. QED
                BY <4>2
        <3>2. k - 1 \in Nat /\ k - 1 < g * m /\ m \in Nat \ {0}
            BY <2>2, <3>1
        <3>3. ((k - 1) \div m) \in 0..(g - 1) /\ ((k - 1) % m) \in 0..(m - 1)
            BY <3>2, DivisionIs
        <3>4. 1 + ((k - 1) % m) \in 1..m
            BY <3>3
        <3>5. QED
            BY <3>3, <3>4, <1>3
    <2>6. IsWalk(offer, walk, n)
        BY <1>6, <2>1, <2>4, <2>5 DEF IsWalk
    <2>7. QED
        BY <2>3, <2>6
<1>7. QED
    BY <1>5, <1>6

LineVisits(walk, n, i) == {k \in 1..n : walk[k].line = i}
GroupVisits(walk, n, g) == {k \in 1..n : walk[k].group = g}

\* What was taken fits: no line gives more than it has.
FitsLines(walk, n, took) ==
    /\ took \in [1..n -> Nat]
    /\ \A i \in Cart!Assignable : SumIn(took, LineVisits(walk, n, i)) <= cartLine[i].qty

\* And no group takes more than it needs.
Fits(offer, walk, n, took) ==
    /\ FitsLines(walk, n, took)
    /\ \A g \in 1..Len(offer.groups) :
         SumIn(took, GroupVisits(walk, n, g)) <= offer.groups[g].min

LEMMA TakenAre ==
    ASSUME NEW offer, NEW n \in Nat, NEW walk, IsWalk(offer, walk, n), NEW took
    PROVE  /\ DOMAIN walk = 1..n /\ Len(walk) = n
           /\ \A i : Cart!TakenFrom(took, walk, i) = SumIn(took, LineVisits(walk, n, i))
           /\ \A g : Cart!TakenFor(took, walk, g) = SumIn(took, GroupVisits(walk, n, g))
<1>1. DOMAIN walk = 1..n /\ Len(walk) = n
    BY DEF IsWalk
<1>2. QED
    BY <1>1, CartSums DEF Cart!TakenFrom, Cart!TakenFor, LineVisits, GroupVisits

LEMMA AssignableAre ==
    ASSUME CartTyped
    PROVE  /\ Cart!Assignable = {i \in CartLines : cartLine[i] # Cart!NoLine /\ cartLine[i].combo = NoCombo}
           /\ \A i \in Cart!Assignable : /\ i \in Cart!Live /\ i \in CartLines
                                         /\ cartLine[i] \in BillRow /\ cartLine[i].qty \in Nat \ {0}
BY LinesAre DEF Cart!Assignable, BillRow, CartTyped

\* One visit takes no more than is left and no more than is needed.
LEMMA TakesFits ==
    ASSUME CartTyped, NEW offer \in Offers, offer.groups # <<>>, NEW n \in Nat, NEW walk,
           IsWalk(offer, walk, n), NEW took, Fits(offer, walk, n, took), NEW k \in 1..n, took[k] = 0
    PROVE  Fits(offer, walk, n, [took EXCEPT ![k] = Cart!Takes(offer, walk, took, k)])
<1>1. PICK x : x = Cart!Takes(offer, walk, took, k)
    OBVIOUS
<1>2. PICK then : then = [took EXCEPT ![k] = x]
    OBVIOUS
<1>3. PICK i \in Cart!Assignable, g \in 1..Len(offer.groups) : i = walk[k].line /\ g = walk[k].group
    BY DEF IsWalk
<1>4. took \in [1..n -> Nat] /\ IsFiniteSet(1..n)
    <2>1. IsFiniteSet(1..n)
        BY FS_Interval
    <2>2. took \in [1..n -> Nat]
        BY DEF Fits, FitsLines
    <2>3. QED
        BY <2>1, <2>2
<1>5. IsSummable(took) /\ DOMAIN took = 1..n
    BY <1>4 DEF IsSummable
<1>6. /\ \A j : LineVisits(walk, n, j) \in SUBSET DOMAIN took
      /\ \A h : GroupVisits(walk, n, h) \in SUBSET DOMAIN took
    BY <1>5 DEF LineVisits, GroupVisits
<1>7. PICK given \in Int, got \in Int :
          /\ given = SumIn(took, LineVisits(walk, n, i)) /\ got = SumIn(took, GroupVisits(walk, n, g))
    BY <1>5, <1>6, SumInInt
<1>8. PICK qty \in Int, least \in Int :
          qty = cartLine[i].qty /\ least = offer.groups[g].min /\ given <= qty /\ got <= least
    <2>1. cartLine[i].qty \in Nat
        BY <1>3, AssignableAre
    <2>2. offer.groups[g].min \in Nat
        BY <1>3, GroupsAre
    <2>3. QED
        BY <2>1, <2>2, <1>3, <1>7, SMTT(40) DEF Fits, FitsLines
<1>9. \/ x = 0
      \/ x = Cart!Smaller(qty - given, least - got)
    BY <1>1, <1>3, <1>7, <1>8, TakenAre DEF Cart!Takes
<1>10. x \in Nat /\ given + x <= qty /\ got + x <= least
    <2>0. /\ given \in Int /\ got \in Int /\ qty \in Int /\ least \in Int
          /\ given <= qty /\ got <= least
        BY <1>7, <1>8, Zenon
    <2>1. CASE x = 0
        BY <2>0, <2>1
    <2>2. CASE x = Cart!Smaller(qty - given, least - got)
        <3>1. PICK a \in Nat, b \in Nat : a = qty - given /\ b = least - got
            BY <2>0
        <3>2. PICK y \in Nat : y = Cart!Smaller(a, b) /\ y <= a /\ y <= b
            BY DEF Cart!Smaller
        <3>3. QED
            BY <2>0, <2>2, <3>1, <3>2
    <2>3. QED
        BY <2>1, <2>2, <1>9
<1>11. then \in [1..n -> Nat] /\ then[k] = x /\ \A j \in 1..n \ {k} : then[j] = took[j]
    BY <1>2, <1>4, <1>10
<1>12. IsSummable(then) /\ DOMAIN then = 1..n
    BY <1>4, <1>11 DEF IsSummable
<1>13. ASSUME NEW S \in SUBSET (1..n)
       PROVE  SumIn(then, S) = SumIn(took, S) + (IF k \in S THEN x ELSE 0)
    <2>0. S \subseteq DOMAIN took /\ S \subseteq DOMAIN then /\ SumIn(took, S) \in Int
        BY <1>5, <1>12, SumInInt
    <2>1. CASE k \in S
        <3>1. \A j \in S \ {k} : then[j] = took[j]
            BY <1>11
        <3>2. SumIn(then, S) = SumIn(took, S) + (then[k] - took[k])
            BY <2>0, <2>1, <3>1, <1>5, <1>12, SumInChange, ZenonT(60)
        <3>3. QED
            BY <2>1, <3>2, <1>10, <1>11
    <2>2. CASE k \notin S
        <3>1. \A j \in S : took[j] = then[j]
            BY <1>11, <2>2
        <3>2. SumIn(took, S) = SumIn(then, S)
            BY <2>0, <3>1, <1>5, <1>12, SumInSame
        <3>3. QED
            BY <2>0, <2>2, <3>2
    <2>3. QED
        BY <2>1, <2>2
<1>14. ASSUME NEW j \in Cart!Assignable PROVE SumIn(then, LineVisits(walk, n, j)) <= cartLine[j].qty
    <2>1. LineVisits(walk, n, j) \in SUBSET (1..n)
        BY DEF LineVisits
    <2>2. k \in LineVisits(walk, n, j) <=> i = j
        BY <1>3 DEF LineVisits
    <2>3. SumIn(then, LineVisits(walk, n, j)) = SumIn(took, LineVisits(walk, n, j)) + (IF i = j THEN x ELSE 0)
        BY <2>1, <2>2, <1>13
    <2>4. CASE i = j
        BY <2>3, <2>4, <1>7, <1>8, <1>10
    <2>5. CASE i # j
        <3>1. PICK a \in Int, b \in Int : a = SumIn(took, LineVisits(walk, n, j)) /\ b = cartLine[j].qty /\ a <= b
            <4>1. SumIn(took, LineVisits(walk, n, j)) \in Int
                BY <1>5, <2>1, SumInInt
            <4>2. cartLine[j].qty \in Int
                BY AssignableAre
            <4>3. QED
                BY <4>1, <4>2 DEF Fits, FitsLines
        <3>2. QED
            BY <2>3, <2>5, <3>1
    <2>6. QED
        BY <2>4, <2>5
<1>15. ASSUME NEW h \in 1..Len(offer.groups)
       PROVE  SumIn(then, GroupVisits(walk, n, h)) <= offer.groups[h].min
    <2>1. GroupVisits(walk, n, h) \in SUBSET (1..n)
        BY DEF GroupVisits
    <2>2. k \in GroupVisits(walk, n, h) <=> g = h
        BY <1>3 DEF GroupVisits
    <2>3. SumIn(then, GroupVisits(walk, n, h)) = SumIn(took, GroupVisits(walk, n, h)) + (IF g = h THEN x ELSE 0)
        BY <2>1, <2>2, <1>13
    <2>4. CASE g = h
        BY <2>3, <2>4, <1>7, <1>8, <1>10
    <2>5. CASE g # h
        <3>1. PICK a \in Int, b \in Int : a = SumIn(took, GroupVisits(walk, n, h)) /\ b = offer.groups[h].min /\ a <= b
            <4>1. SumIn(took, GroupVisits(walk, n, h)) \in Int
                BY <1>5, <2>1, SumInInt
            <4>2. offer.groups[h].min \in Int
                BY GroupsAre
            <4>3. QED
                BY <4>1, <4>2 DEF Fits
        <3>2. QED
            BY <2>3, <2>5, <3>1
    <2>6. QED
        BY <2>4, <2>5
<1>16. Fits(offer, walk, n, then)
    BY <1>11, <1>14, <1>15 DEF Fits, FitsLines
<1>17. QED
    BY <1>1, <1>2, <1>16

\* The matching's loop ends with what fits.
LEMMA MatchedFits ==
    ASSUME CartTyped, NEW offer \in Offers, offer.groups # <<>>, NEW n \in Nat, NEW walk,
           IsWalk(offer, walk, n)
    PROVE  FitsLines(walk, n, Cart!Matched(offer, walk))
<1> DEFINE none == [k \in DOMAIN walk |-> 0]
           Step(t, m) == [t EXCEPT ![m] = Cart!Takes(offer, walk, t, m)]
           Solved(m, a) == a = [j \in 0..m |-> IF j = 0 THEN none ELSE Step(a[j - 1], j)]
           after == CHOOSE a : Solved(Len(walk), a)
<1>1. DOMAIN walk = 1..n /\ Len(walk) = n
    BY TakenAre
<1>2. Cart!Matched(offer, walk) = after[Len(walk)]
    BY DEF Cart!Matched
<1>3. none \in [1..n -> Nat] /\ \A k \in 1..n : none[k] = 0
    BY <1>1
<1>4. Fits(offer, walk, n, none)
    <2>1. IsFiniteSet(1..n)
        BY FS_Interval
    <2>2. IsSummable(none) /\ DOMAIN none = 1..n
        BY <1>3, <2>1 DEF IsSummable
    <2>3. ASSUME NEW S \in SUBSET (1..n) PROVE SumIn(none, S) = 0
        <3>1. IsFiniteSet(S)
            BY <2>1, FS_Subset
        <3>2. SumOver([k \in S |-> none[k]]) = SumIn(none, S)
            BY <2>2, SumOverPart DEF SumIn
        <3>3. \A k \in S : [j \in S |-> none[j]][k] = 0
            BY <1>3
        <3>4. SumOver([k \in S |-> none[k]]) = 0
            BY <3>1, <3>3, SumOverZero
        <3>5. QED
            BY <3>2, <3>4
    <2>4. \A i \in Cart!Assignable : SumIn(none, LineVisits(walk, n, i)) <= cartLine[i].qty
        <3> TAKE i \in Cart!Assignable
        <3>1. LineVisits(walk, n, i) \in SUBSET (1..n)
            BY DEF LineVisits
        <3>2. cartLine[i].qty \in Nat
            BY AssignableAre
        <3>3. QED
            BY <2>3, <3>1, <3>2
    <2>5. \A g \in 1..Len(offer.groups) : SumIn(none, GroupVisits(walk, n, g)) <= offer.groups[g].min
        <3> TAKE g \in 1..Len(offer.groups)
        <3>1. GroupVisits(walk, n, g) \in SUBSET (1..n)
            BY DEF GroupVisits
        <3>2. offer.groups[g].min \in Nat
            BY GroupsAre
        <3>3. QED
            BY <2>3, <3>1, <3>2
    <2>6. QED
        BY <1>3, <2>4, <2>5 DEF Fits, FitsLines
<1>5. ASSUME NEW t, NEW m \in 1..n, Fits(offer, walk, n, t), t[m] = 0
      PROVE  Fits(offer, walk, n, Step(t, m)) /\ \A k \in 1..n \ {m} : Step(t, m)[k] = t[k]
    <2>1. Fits(offer, walk, n, Step(t, m))
        BY <1>5, TakesFits
    <2>2. t \in [1..n -> Nat]
        BY <1>5 DEF Fits, FitsLines
    <2>3. QED
        BY <2>1, <2>2
<1> HIDE DEF none, Step
<1>6. \A m \in Nat : \E a : Solved(m, a)
    <2> DEFINE Bad == {m \in Nat : ~ \E a : Solved(m, a)}
    <2>1. SUFFICES ASSUME Bad # {} PROVE FALSE
        OBVIOUS
    <2>2. PICK m \in Bad : \A k \in Bad : m <= k
        BY <2>1, LeastElement
    <2>3. m # 0
        <3>1. SUFFICES ASSUME m = 0 PROVE FALSE
            OBVIOUS
        <3>2. Solved(0, [j \in 0..0 |-> none])
            OBVIOUS
        <3>3. QED
            BY <2>2, <3>1, <3>2
    <2>4. PICK h \in Nat : m \in Nat /\ h = m - 1 /\ h < m
        <3>1. m \in Nat
            BY <2>2
        <3>2. QED
            BY <2>3, <3>1
    <2>5. PICK a : Solved(m - 1, a)
        <3>1. h \notin Bad
            <4>1. SUFFICES ASSUME h \in Bad PROVE FALSE
                OBVIOUS
            <4>2. m <= h
                BY <2>2, <4>1
            <4>3. QED
                BY <2>4, <4>2
        <3>2. QED
            BY <2>4, <3>1
    <2>6. \A j \in 0..(m - 1) : a[j] = IF j = 0 THEN none ELSE Step(a[j - 1], j)
        BY <2>5
    <2>7. PICK b : b = [j \in 0..m |-> IF j = m THEN Step(a[m - 1], m) ELSE a[j]]
        OBVIOUS
    <2>8. \A j \in 0..m : b[j] = IF j = 0 THEN none ELSE Step(b[j - 1], j)
        <3> TAKE j \in 0..m
        <3>1. CASE j = m
            <4>1. b[j] = Step(a[m - 1], m) /\ b[m - 1] = a[m - 1] /\ j # 0
                BY <2>3, <2>4, <2>7, <3>1
            <4>2. QED
                BY <3>1, <4>1
        <3>2. CASE j # m /\ j # 0
            <4>1. j \in 0..(m - 1) /\ j - 1 \in 0..m /\ j - 1 # m
                BY <2>4, <3>2
            <4>2. b[j] = a[j] /\ b[j - 1] = a[j - 1]
                BY <2>7, <3>2, <4>1
            <4>3. QED
                BY <2>6, <3>2, <4>1, <4>2
        <3>3. CASE j = 0 /\ j # m
            <4>1. j \in 0..(m - 1) /\ b[j] = a[j]
                BY <2>4, <2>7, <3>3
            <4>2. QED
                BY <2>6, <3>3, <4>1
        <3>4. QED
            BY <3>1, <3>2, <3>3
    <2>9. Solved(m, b)
        <3>1. b = [j \in 0..m |-> b[j]]
            BY <2>7
        <3>2. QED
            BY <2>8, <3>1
    <2>10. QED
        BY <2>2, <2>9
<1>7. Solved(n, after)
    BY <1>1, <1>6
<1> HIDE DEF after
<1>8. /\ after[0] = none
      /\ \A j \in 1..n : after[j] = Step(after[j - 1], j)
    <2>1. \A j \in 0..n : after[j] = IF j = 0 THEN none ELSE Step(after[j - 1], j)
        BY <1>7
    <2>2. QED
        BY <2>1
<1>9. \A j \in 0..n : Fits(offer, walk, n, after[j]) /\ \A k \in 1..n : k > j => after[j][k] = 0
    <2> DEFINE Good(j) == Fits(offer, walk, n, after[j]) /\ \A k \in 1..n : k > j => after[j][k] = 0
               Bad == {j \in 0..n : ~ Good(j)}
    <2>1. SUFFICES ASSUME Bad # {} PROVE FALSE
        OBVIOUS
    <2>2. Bad \subseteq Nat
        OBVIOUS
    <2>3. PICK m \in Bad : \A k \in Bad : m <= k
        BY <2>1, <2>2, LeastElement
    <2>4. m # 0
        <3>1. Good(0)
            BY <1>3, <1>4, <1>8
        <3>2. QED
            BY <2>3, <3>1
    <2>5. m \in 1..n /\ m - 1 \in 0..n /\ m - 1 \notin Bad
        BY <2>3, <2>4
    <2>6. Good(m - 1)
        BY <2>5
    <2>7. after[m - 1][m] = 0
        BY <2>5, <2>6
    <2>8. PICK t : t = after[m - 1]
        OBVIOUS
    <2>9. Fits(offer, walk, n, t) /\ t[m] = 0 /\ after[m] = Step(t, m)
        BY <1>8, <2>5, <2>6, <2>7, <2>8
    <2>10. Fits(offer, walk, n, after[m]) /\ \A k \in 1..n \ {m} : after[m][k] = t[k]
        BY <1>5, <2>5, <2>9
    <2>11. \A k \in 1..n : k > m => after[m][k] = 0
        BY <2>5, <2>6, <2>8, <2>10
    <2>12. QED
        BY <2>3, <2>10, <2>11
<1>10. Fits(offer, walk, n, after[n])
    BY <1>9
<1>11. QED
    BY <1>1, <1>2, <1>10 DEF Fits

\* Of a whole cart every line gives what it has.
LEMMA WholeFits ==
    ASSUME CartTyped, NEW offer, offer.groups = <<>>, NEW n \in Nat, NEW walk, IsWalk(offer, walk, n)
    PROVE  FitsLines(walk, n, Cart!Whole(walk))
<1>1. PICK took : took = Cart!Whole(walk)
    OBVIOUS
<1>2. DOMAIN walk = 1..n /\ \A k \in 1..n : walk[k].line \in Cart!Assignable
    BY DEF IsWalk
<1>3. took = [k \in 1..n |-> cartLine[walk[k].line].qty]
    BY <1>1, <1>2 DEF Cart!Whole
<1>4. took \in [1..n -> Nat]
    BY <1>2, <1>3, AssignableAre
<1>5. IsSummable(took) /\ DOMAIN took = 1..n
    <2>1. IsFiniteSet(1..n)
        BY FS_Interval
    <2>2. QED
        BY <1>4, <2>1 DEF IsSummable
<1>6. ASSUME NEW i \in Cart!Assignable PROVE SumIn(took, LineVisits(walk, n, i)) <= cartLine[i].qty
    <2>1. cartLine[i].qty \in Nat
        BY AssignableAre
    <2>2. CASE \E k \in 1..n : walk[k].line = i
        <3>1. PICK k \in 1..n : walk[k].line = i
            BY <2>2
        <3>2. LineVisits(walk, n, i) = {k}
            BY <3>1 DEF LineVisits, IsWalk
        <3>3. SumIn(took, {k}) = took[k]
            BY <1>5, SumInSingle
        <3>4. took[k] = cartLine[i].qty
            BY <1>3, <3>1
        <3>5. QED
            BY <2>1, <3>2, <3>3, <3>4
    <2>3. CASE ~ \E k \in 1..n : walk[k].line = i
        <3>1. LineVisits(walk, n, i) = {}
            BY <2>3 DEF LineVisits
        <3>2. SumIn(took, {}) = 0
            BY <1>5, SumTableEmpty DEF SumIn
        <3>3. QED
            BY <2>1, <3>1, <3>2
    <2>4. QED
        BY <2>2, <2>3
<1>7. QED
    BY <1>1, <1>4, <1>6 DEF FitsLines

\* Each share is its part of the savings, to half a cent.
SharesNear(K, w, d, v, saved) ==
    \A k \in K : /\ (200 * v) * d[k] - (2 * saved) * w[k] <= 100 * v
                 /\ (2 * saved) * w[k] - (200 * v) * d[k] <= 100 * v

\* So they miss the savings, rounded too, by half a cent for each of them and one more.
LEMMA MatchedSharesAddUp ==
    ASSUME NEW K, IsFiniteSet(K), NEW w \in [K -> Nat], NEW d \in [K -> Int], NEW v \in Nat \ {0},
           NEW saved \in Nat, SumOver(w) = v, SharesNear(K, w, d, v, saved),
           NEW h \in Int, h = Cart!HalfUp(saved, 100)
    PROVE  /\ 2 * (SumOver(d) - h) <= Cardinality(K) + 1
           /\ 0 - (Cardinality(K) + 1) <= 2 * (SumOver(d) - h)
<1>1. IsSummable(d) /\ IsSummable(w) /\ DOMAIN d = K /\ DOMAIN w = K
    BY DEF IsSummable
<1>2. PICK s \in Int : s = SumOver(d)
    BY <1>1, SumOverInt
<1>3. PICK c \in Nat : c = Cardinality(K)
    BY FS_CardinalityType
<1>4. PICK a \in Int, b \in Int, e \in Nat : a = 200 * v /\ b = 2 * saved /\ e = 100 * v
    OBVIOUS
<1>5. a * SumOver(d) - b * SumOver(w) <= e * Cardinality(K)
      /\ b * SumOver(w) - a * SumOver(d) <= e * Cardinality(K)
    <2>1. DOMAIN w = DOMAIN d /\ IsSummable(d) /\ IsSummable(w)
        BY <1>1
    <2>2. IsNear(d, w, a, b, e)
        BY <1>1, <1>4 DEF SharesNear, IsNear
    <2>3. /\ a * SumOver(d) - b * SumOver(w) <= e * Cardinality(DOMAIN d)
          /\ b * SumOver(w) - a * SumOver(d) <= e * Cardinality(DOMAIN d)
        BY <1>4, <2>1, <2>2, SumsNear
    <2>4. QED
        BY <1>1, <2>3
<1>6. a * s - b * v <= e * c /\ b * v - a * s <= e * c
    BY <1>2, <1>3, <1>5
<1>7. a * s = v * (200 * s) /\ b * v = v * (2 * saved) /\ e * c = v * (100 * c)
    BY <1>2, <1>4
<1>8. 200 * s - 2 * saved <= 100 * c
    <2>1. PICK t \in Int : t = 200 * s - 2 * saved - 100 * c
        BY <1>2
    <2>2. v * t <= 0
        BY <1>6, <1>7, <2>1
    <2>3. t <= 0
        BY <2>2
    <2>4. QED
        BY <2>1, <2>3
<1>9. 2 * saved - 200 * s <= 100 * c
    <2>1. PICK t \in Int : t = 2 * saved - 200 * s - 100 * c
        BY <1>2
    <2>2. v * t <= 0
        BY <1>6, <1>7, <2>1
    <2>3. t <= 0
        BY <2>2
    <2>4. QED
        BY <2>1, <2>3
<1>10. 200 * h - 2 * saved <= 100 /\ 2 * saved - 200 * h <= 100
    <2>1. saved \in Int /\ 100 \in Nat \ {0}
        OBVIOUS
    <2>2. /\ (2 * 100) * Cart!HalfUp(saved, 100) - 2 * saved <= 100
          /\ 2 * saved - (2 * 100) * Cart!HalfUp(saved, 100) <= 100
        BY <2>1, HalfUpNear
    <2>3. QED
        BY <2>2
<1>11. 2 * (s - h) <= c + 1 /\ 0 - (c + 1) <= 2 * (s - h)
    BY <1>8, <1>9, <1>10
<1>12. QED
    BY <1>2, <1>3, <1>11

\* What a matching takes, and where: K the visits that took, place where their units are.
PlacesFit(walk, n, took, K, place) ==
    /\ K = {k \in 1..n : took[k] > 0}
    /\ place \in [K -> CartLines]
    /\ \A j, k \in K : place[j] = place[k] => j = k
    /\ \A k \in K :
         \/ place[k] \in Cart!Free
         \/ /\ place[k] = walk[k].line
            /\ SumIn(took, LineVisits(walk, n, walk[k].line)) = cartLine[walk[k].line].qty
    /\ \A i \in Cart!Assignable :
         (\A k \in K : place[k] # i) =>
             SumIn(took, LineVisits(walk, n, i)) < cartLine[i].qty

VisitsUpto(walk, k) == {m \in 1..k : walk[m].line = walk[k].line}

LEMMA PlacesAre ==
    ASSUME CartTyped, NEW offer, NEW n \in Nat, NEW walk, IsWalk(offer, walk, n),
           NEW took, FitsLines(walk, n, took), NEW K, K = {k \in 1..n : took[k] > 0}, Cart!Room(K),
           NEW place, place = [k \in K |-> Cart!Place(took, walk, Cart!NewRows(K), k)]
    PROVE  PlacesFit(walk, n, took, K, place)
<1>1. PICK at : at = Cart!NewRows(K)
    OBVIOUS
<1>2. IsFiniteSet(1..n) /\ K \in SUBSET (1..n)
    BY FS_Interval
<1>3. IsFiniteSet(K)
    BY <1>2, FS_Subset
<1>4. at \in [K -> Cart!Free] /\ \A j, k \in K : at[j] = at[k] => j = k
    BY <1>1, <1>3, NewRowsAre, SMTT(40)
<1>5. took \in [1..n -> Nat] /\ \A k \in 1..n : walk[k].line \in Cart!Assignable
    BY DEF FitsLines, IsWalk
<1>6. IsSummable(took) /\ DOMAIN took = 1..n
    BY <1>2, <1>5 DEF IsSummable
<1> DEFINE All(k) == LineVisits(walk, n, walk[k].line)
<1>7. ASSUME NEW k \in K
      PROVE  IF SumIn(took, VisitsUpto(walk, k)) = cartLine[walk[k].line].qty
             THEN place[k] = walk[k].line ELSE place[k] = at[k]
    <2>1. place[k] = Cart!Place(took, walk, at, k)
        BY <1>1
    <2>2. Cart!SumIn(took, VisitsUpto(walk, k)) = SumIn(took, VisitsUpto(walk, k))
        BY CartSums
    <2>3. QED
        BY <2>1, <2>2 DEF Cart!Place, VisitsUpto
<1>8. ASSUME NEW k \in K
      PROVE  /\ VisitsUpto(walk, k) \in SUBSET All(k) /\ All(k) \in SUBSET (1..n)
             /\ k \in VisitsUpto(walk, k)
    BY <1>2 DEF LineVisits, VisitsUpto
<1>9. ASSUME NEW k \in K
      PROVE  /\ SumIn(took, VisitsUpto(walk, k)) \in Int /\ SumIn(took, All(k)) \in Int
             /\ SumIn(took, VisitsUpto(walk, k)) <= SumIn(took, All(k))
             /\ SumIn(took, All(k)) <= cartLine[walk[k].line].qty
             /\ cartLine[walk[k].line].qty \in Nat
    <2>1. /\ VisitsUpto(walk, k) \in SUBSET All(k) /\ All(k) \in SUBSET DOMAIN took
          /\ VisitsUpto(walk, k) \in SUBSET DOMAIN took
        BY <1>6, <1>8
    <2>2. \A j \in All(k) : took[j] \in Nat
        BY <1>5, <1>6, <2>1
    <2>3. walk[k].line \in Cart!Assignable
        BY <1>2, <1>5
    <2>4. SumIn(took, VisitsUpto(walk, k)) \in Int /\ SumIn(took, All(k)) \in Int
        BY <1>6, <2>1, SumInInt
    <2>5. SumIn(took, VisitsUpto(walk, k)) <= SumIn(took, All(k))
        BY <1>6, <2>1, <2>2, SumInPart
    <2>6. SumIn(took, All(k)) <= cartLine[walk[k].line].qty
        BY <2>3 DEF FitsLines
    <2>7. cartLine[walk[k].line].qty \in Nat
        BY <2>3, AssignableAre
    <2>8. QED
        BY <2>4, <2>5, <2>6, <2>7
<1>10. ASSUME NEW j \in K, NEW k \in K, j < k, walk[j].line = walk[k].line
       PROVE  SumIn(took, VisitsUpto(walk, j)) < cartLine[walk[j].line].qty
    <2>1. j \in Int /\ k \in Int
        BY <1>2
    <2>2. /\ VisitsUpto(walk, j) \in SUBSET VisitsUpto(walk, k)
          /\ k \in VisitsUpto(walk, k) \ VisitsUpto(walk, j)
        BY <1>10, <2>1 DEF VisitsUpto
    <2>3. /\ VisitsUpto(walk, k) \in SUBSET DOMAIN took
          /\ VisitsUpto(walk, k) \ VisitsUpto(walk, j) \in SUBSET DOMAIN took
        BY <1>6, <1>8
    <2>4. SumIn(took, VisitsUpto(walk, k))
            = SumIn(took, VisitsUpto(walk, j)) + SumIn(took, VisitsUpto(walk, k) \ VisitsUpto(walk, j))
        <3>1. PICK A, S : A = VisitsUpto(walk, j) /\ S = VisitsUpto(walk, k)
            OBVIOUS
        <3>2. S \in SUBSET DOMAIN took /\ A \in SUBSET S
            BY <2>2, <2>3, <3>1
        <3>3. SumIn(took, S) = SumIn(took, A) + SumIn(took, S \ A)
            BY <1>6, <3>2, SumInSplit
        <3>4. QED
            BY <3>1, <3>3
    <2>5. \A m \in VisitsUpto(walk, k) \ VisitsUpto(walk, j) : took[m] \in Nat
        BY <1>5, <1>6, <2>3
    <2>6. took[k] <= SumIn(took, VisitsUpto(walk, k) \ VisitsUpto(walk, j))
        BY <1>6, <2>2, <2>3, <2>5, SumInOne
    <2>7. took[k] \in Nat /\ took[k] > 0
        BY <1>2, <1>5
    <2>8. SumIn(took, VisitsUpto(walk, k) \ VisitsUpto(walk, j)) \in Int
        BY <1>6, <2>3, SumInInt
    <2>9. PICK x \in Int, y \in Int, z \in Int, q \in Int :
             /\ x = SumIn(took, VisitsUpto(walk, k)) /\ y = SumIn(took, VisitsUpto(walk, j))
             /\ z = SumIn(took, VisitsUpto(walk, k) \ VisitsUpto(walk, j)) /\ q = cartLine[walk[j].line].qty
             /\ x = y + z /\ z > 0 /\ x <= q
        <3>1. SumIn(took, VisitsUpto(walk, k)) \in Int /\ SumIn(took, VisitsUpto(walk, j)) \in Int
              /\ cartLine[walk[j].line].qty \in Int
            BY <1>9
        <3>2. SumIn(took, VisitsUpto(walk, k)) <= cartLine[walk[k].line].qty
            BY <1>9
        <3>3. SumIn(took, VisitsUpto(walk, k) \ VisitsUpto(walk, j)) > 0
            BY <2>6, <2>7, <2>8
        <3>4. SumIn(took, VisitsUpto(walk, k)) <= cartLine[walk[j].line].qty
            BY <1>10, <3>2
        <3>5. QED
            BY <2>4, <2>8, <3>1, <3>3, <3>4
    <2>10. QED
        BY <2>9
<1>11. ASSUME NEW k \in K
       PROVE  place[k] \in CartLines /\ (place[k] = at[k] \/ place[k] = walk[k].line)
              /\ at[k] \in Cart!Free /\ at[k] \notin Cart!Assignable /\ walk[k].line \in Cart!Assignable
    <2>1. at[k] \in Cart!Free
        BY <1>4
    <2>2. walk[k].line \in Cart!Assignable
        BY <1>2, <1>5
    <2>3. at[k] \in CartLines /\ at[k] \notin Cart!Assignable
        BY <2>1, AssignableAre DEF Cart!Free
    <2>4. walk[k].line \in CartLines
        BY <2>2, AssignableAre
    <2>5. QED
        BY <1>7, <2>1, <2>2, <2>3, <2>4
<1>12. place \in [K -> CartLines]
    BY <1>11
<1>13. ASSUME NEW j \in K, NEW k \in K, place[j] = place[k] PROVE j = k
    <2>1. CASE place[j] = at[j] /\ place[k] = at[k]
        BY <2>1, <1>4, <1>13
    <2>2. CASE place[j] # at[j] /\ place[k] # at[k]
        <3>1. /\ place[j] = walk[j].line /\ SumIn(took, VisitsUpto(walk, j)) = cartLine[walk[j].line].qty
              /\ place[k] = walk[k].line /\ SumIn(took, VisitsUpto(walk, k)) = cartLine[walk[k].line].qty
            BY <1>7, <2>2
        <3>2. walk[j].line = walk[k].line
            BY <3>1, <1>13
        <3>3. j \in Int /\ k \in Int /\ cartLine[walk[k].line].qty \in Int
            <4>1. j \in Int /\ k \in Int
                BY <1>2
            <4>2. cartLine[walk[k].line].qty \in Nat
                BY <1>9
            <4>3. QED
                BY <4>1, <4>2
        <3>4. ~ (j < k) /\ ~ (k < j)
            BY <1>10, <3>1, <3>2, <3>3
        <3>5. QED
            BY <3>3, <3>4
    <2>3. CASE place[j] = at[j] /\ place[k] # at[k]
        BY <2>3, <1>11, <1>13
    <2>4. CASE place[j] # at[j] /\ place[k] = at[k]
        BY <2>4, <1>11, <1>13
    <2>5. QED
        BY <2>1, <2>2, <2>3, <2>4
<1>14. ASSUME NEW k \in K
       PROVE  \/ place[k] \in Cart!Free
              \/ /\ place[k] = walk[k].line
                 /\ SumIn(took, All(k)) = cartLine[walk[k].line].qty
    <2>1. CASE SumIn(took, VisitsUpto(walk, k)) = cartLine[walk[k].line].qty
        <3>1. SumIn(took, All(k)) = cartLine[walk[k].line].qty
            <4>1. PICK x \in Int, q \in Nat :
                     /\ x = SumIn(took, All(k)) /\ q = cartLine[walk[k].line].qty
                     /\ SumIn(took, VisitsUpto(walk, k)) <= x /\ x <= q
                BY <1>9
            <4>2. q <= x
                BY <2>1, <4>1
            <4>3. QED
                BY <4>1, <4>2
        <3>2. QED
            BY <1>7, <2>1, <3>1
    <2>2. CASE SumIn(took, VisitsUpto(walk, k)) # cartLine[walk[k].line].qty
        BY <1>7, <1>11, <2>2
    <2>3. QED
        BY <2>1, <2>2
<1>15. ASSUME NEW i \in Cart!Assignable, SumIn(took, LineVisits(walk, n, i)) = cartLine[i].qty
       PROVE  \E k \in K : place[k] = i
    <2>1. LineVisits(walk, n, i) \in SUBSET (1..n) /\ cartLine[i].qty \in Nat \ {0}
        BY AssignableAre DEF LineVisits
    <2> DEFINE Took == {k \in K : walk[k].line = i}
               Left(k) == n - k
    <2>2. Took # {}
        <3>1. SUFFICES ASSUME Took = {} PROVE FALSE
            OBVIOUS
        <3>2. \A k \in LineVisits(walk, n, i) : [j \in LineVisits(walk, n, i) |-> took[j]][k] = 0
            BY <1>5, <2>1, <3>1 DEF LineVisits
        <3>3. IsFiniteSet(LineVisits(walk, n, i))
            BY <1>2, <2>1, FS_Subset
        <3>4. SumOver([j \in LineVisits(walk, n, i) |-> took[j]]) = 0
            BY <3>2, <3>3, SumOverZero
        <3>5. SumOver([j \in LineVisits(walk, n, i) |-> took[j]]) = SumIn(took, LineVisits(walk, n, i))
            BY <1>6, <2>1, SumOverPart DEF SumIn
        <3>6. QED
            BY <1>15, <2>1, <3>4, <3>5
    <2>3. \E k \in Took : \A j \in Took : j <= k
        <3> DEFINE Lefts == {m \in Nat : \E k \in Took : m = n - k}
        <3>1. \A k \in Took : k \in 1..n
            BY <1>2
        <3>2. Lefts # {} /\ Lefts \subseteq Nat
            <4>1. PICK k \in Took : TRUE
                BY <2>2
            <4>2. n - k \in Nat
                BY <3>1, <4>1
            <4>3. QED
                BY <4>1, <4>2
        <3>3. PICK m \in Lefts : \A j \in Lefts : m <= j
            BY <3>2, LeastElement
        <3>4. PICK k \in Took : m = n - k
            BY <3>3
        <3>5. ASSUME NEW j \in Took PROVE j <= k
            <4>1. j \in 1..n /\ k \in 1..n
                BY <3>1, <3>4
            <4>2. n - j \in Lefts
                BY <4>1
            <4>3. m <= n - j
                BY <3>3, <4>2
            <4>4. QED
                BY <3>4, <4>1, <4>3
        <3>6. QED
            BY <3>4, <3>5
    <2>4. PICK k \in Took : \A j \in Took : j <= k
        BY <2>3
    <2>5. k \in K /\ walk[k].line = i /\ k \in 1..n /\ All(k) = LineVisits(walk, n, i)
        BY <1>2, <2>4
    <2>6. ASSUME NEW j \in All(k) \ VisitsUpto(walk, k) PROVE took[j] = 0
        <3>1. j \in 1..n /\ walk[j].line = i /\ ~ (j <= k)
            BY <2>5 DEF LineVisits, VisitsUpto
        <3>2. j \notin K
            BY <2>4, <3>1
        <3>3. QED
            BY <1>5, <3>1, <3>2
    <2>7. SumIn(took, VisitsUpto(walk, k)) = SumIn(took, All(k))
        <3>1. /\ VisitsUpto(walk, k) \in SUBSET All(k) /\ All(k) \in SUBSET DOMAIN took
              /\ All(k) \ VisitsUpto(walk, k) \in SUBSET DOMAIN took
            BY <1>6, <1>8, <2>5
        <3>2. SumIn(took, All(k)) = SumIn(took, VisitsUpto(walk, k)) + SumIn(took, All(k) \ VisitsUpto(walk, k))
            BY <1>6, <3>1, SumInSplit
        <3>3. IsFiniteSet(All(k) \ VisitsUpto(walk, k))
            BY <1>6, <3>1, FS_Subset DEF IsSummable
        <3>4. \A j \in All(k) \ VisitsUpto(walk, k) : [m \in All(k) \ VisitsUpto(walk, k) |-> took[m]][j] = 0
            BY <2>6
        <3>5. SumOver([m \in All(k) \ VisitsUpto(walk, k) |-> took[m]]) = 0
            BY <3>3, <3>4, SumOverZero
        <3>6. SumIn(took, All(k) \ VisitsUpto(walk, k)) = 0
            BY <1>6, <3>1, <3>5, SumOverPart DEF SumIn
        <3>7. SumIn(took, VisitsUpto(walk, k)) \in Int
            BY <1>9, <2>5
        <3>8. QED
            BY <3>2, <3>6, <3>7
    <2>8. SumIn(took, VisitsUpto(walk, k)) = cartLine[walk[k].line].qty
        BY <1>15, <2>5, <2>7
    <2>9. QED
        BY <1>7, <2>5, <2>8
<1>16. ASSUME NEW i \in Cart!Assignable, \A k \in K : place[k] # i
       PROVE  SumIn(took, LineVisits(walk, n, i)) < cartLine[i].qty
    <2>1. SumIn(took, LineVisits(walk, n, i)) # cartLine[i].qty
        BY <1>15, <1>16
    <2>2. SumIn(took, LineVisits(walk, n, i)) <= cartLine[i].qty
        BY DEF FitsLines
    <2>3. cartLine[i].qty \in Int
        BY AssignableAre
    <2>4. LineVisits(walk, n, i) \in SUBSET DOMAIN took
        BY <1>6 DEF LineVisits
    <2>5. SumIn(took, LineVisits(walk, n, i)) \in Int
        BY <1>6, <2>4, SumInInt
    <2>6. QED
        BY <2>1, <2>2, <2>3, <2>5
<1>17. QED
    BY <1>12, <1>13, <1>14, <1>16 DEF PlacesFit

\* The units of a product, over all rows.
OfProduct(i, p) == IF i \in Cart!Live /\ cartLine[i].product = p THEN cartLine[i].qty ELSE 0

LEMMA UnitsIn ==
    ASSUME NEW rows, NEW of \in [CartLines -> Int], NEW L \in SUBSET CartLines,
           \A i \in L : of[i] = rows[i].qty, \A i \in CartLines \ L : of[i] = 0
    PROVE  SumOver([i \in L |-> rows[i].qty]) = SumOver(of)
<1>1. IsSummable(of) /\ DOMAIN of = CartLines
    BY CombosAssumption DEF IsSummable
<1>2. SumOver(of) = SumOver([i \in L |-> of[i]])
    BY <1>1, SumOverSupport
<1>3. [i \in L |-> of[i]] = [i \in L |-> rows[i].qty]
    OBVIOUS
<1>4. QED
    BY <1>2, <1>3

LEMMA UnitsAre ==
    ASSUME CartTyped, CartTyped', NEW p
    PROVE  /\ [i \in CartLines |-> OfProduct(i, p)] \in [CartLines -> Nat]
           /\ [i \in CartLines |-> OfProduct(i, p)'] \in [CartLines -> Nat]
           /\ Cart!Units(p) = SumOver([i \in CartLines |-> OfProduct(i, p)])
           /\ Cart!Units(p)' = SumOver([i \in CartLines |-> OfProduct(i, p)'])
<1>1. PICK u : u = [i \in CartLines |-> OfProduct(i, p)]
    OBVIOUS
<1>2. PICK v : v = [i \in CartLines |-> OfProduct(i, p)']
    OBVIOUS
<1>3. \A i \in Cart!Live : i \in CartLines /\ cartLine[i].qty \in Nat
    <2>1. \A i \in Cart!Live : i \in CartLines /\ cartLine[i] \in BillRow
        BY LinesAre
    <2>2. QED
        BY <2>1 DEF BillRow
<1>4. \A i \in Cart!Live' : i \in CartLines /\ cartLine'[i].qty \in Nat
    <2>1. \A i \in Cart!Live' : i \in CartLines /\ cartLine'[i] \in BillRow
        BY NoLineNoRow DEF CartTyped, Cart!Live
    <2>2. QED
        BY <2>1 DEF BillRow
<1>5. u \in [CartLines -> Nat]
    BY <1>1, <1>3 DEF OfProduct
<1>6. v \in [CartLines -> Nat]
    BY <1>2, <1>4 DEF OfProduct
<1>7. PICK L : L = {i \in Cart!Live : cartLine[i].product = p}
    OBVIOUS
<1>8. PICK M : M = {i \in Cart!Live' : cartLine'[i].product = p}
    OBVIOUS
<1>9. /\ L \in SUBSET CartLines /\ \A i \in L : u[i] = cartLine[i].qty
      /\ \A i \in CartLines \ L : u[i] = 0
    BY <1>1, <1>3, <1>7 DEF OfProduct
<1>10. /\ M \in SUBSET CartLines /\ \A i \in M : v[i] = cartLine'[i].qty
       /\ \A i \in CartLines \ M : v[i] = 0
    BY <1>2, <1>4, <1>8 DEF OfProduct
<1>11. SumOver([i \in L |-> cartLine[i].qty]) = SumOver(u)
    <2>1. PICK rows : rows = cartLine
        OBVIOUS
    <2>2. u \in [CartLines -> Int] /\ \A i \in L : u[i] = rows[i].qty
        BY <1>5, <1>9, <2>1
    <2>3. SumOver([i \in L |-> rows[i].qty]) = SumOver(u)
        BY <1>9, <2>2, UnitsIn
    <2>4. QED
        BY <2>1, <2>3
<1>12. SumOver([i \in M |-> cartLine'[i].qty]) = SumOver(v)
    <2>1. PICK rows : rows = cartLine'
        OBVIOUS
    <2>2. v \in [CartLines -> Int] /\ \A i \in M : v[i] = rows[i].qty
        BY <1>6, <1>10, <2>1
    <2>3. SumOver([i \in M |-> rows[i].qty]) = SumOver(v)
        BY <1>10, <2>2, UnitsIn
    <2>4. QED
        BY <2>1, <2>3
<1>13. Cart!Units(p) = SumOver([i \in L |-> cartLine[i].qty])
    BY <1>7, CartSums DEF Cart!Units
<1>14. Cart!Units(p)' = SumOver([i \in M |-> cartLine'[i].qty])
    BY <1>8, CartSums DEF Cart!Units
<1>15. QED
    BY <1>1, <1>2, <1>5, <1>6, <1>11, <1>12, <1>13, <1>14

\* What each row gives to the visits of it, and gets from the one placed there.
Regrouped(walk, n, took, K, place, c) ==
    \A i \in CartLines :
        IF \E k \in K : place[k] = i
        THEN \E k \in K : /\ place[k] = i /\ cartLine'[i] \in BillRow
                          /\ cartLine'[i].product = cartLine[walk[k].line].product
                          /\ cartLine'[i].qty = took[k] /\ cartLine'[i].combo = c
        ELSE IF i \in Cart!Live
        THEN /\ cartLine'[i] \in BillRow /\ cartLine'[i].product = cartLine[i].product
             /\ cartLine'[i].combo = cartLine[i].combo
             /\ cartLine'[i].qty = cartLine[i].qty - SumIn(took, LineVisits(walk, n, i))
        ELSE cartLine'[i] = Cart!NoLine

LEMMA UnitsRegrouped ==
    ASSUME CartTyped, CartTyped', NEW offer, NEW n \in Nat, NEW walk, IsWalk(offer, walk, n),
           NEW took, FitsLines(walk, n, took), NEW K, NEW place, PlacesFit(walk, n, took, K, place),
           NEW c, Regrouped(walk, n, took, K, place, c), NEW p
    PROVE  Cart!Units(p)' = Cart!Units(p)
<1>1. IsFiniteSet(1..n) /\ took \in [1..n -> Nat]
    BY FS_Interval DEF FitsLines
<1>2. PICK t : t = [k \in 1..n |-> IF cartLine[walk[k].line].product = p THEN took[k] ELSE 0]
    OBVIOUS
<1>3. t \in [1..n -> Nat]
    BY <1>1, <1>2
<1>4. IsSummable(t) /\ DOMAIN t = 1..n /\ IsSummable(took) /\ DOMAIN took = 1..n
    BY <1>1, <1>3 DEF IsSummable
<1>5. K \in SUBSET (1..n) /\ \A k \in 1..n \ K : t[k] = 0
    BY <1>1, <1>2 DEF PlacesFit
<1>6. PICK key : key = [k \in 1..n |-> walk[k].line]
    OBVIOUS
<1>7. \A k \in 1..n : key[k] = walk[k].line /\ key[k] \in CartLines /\ key[k] \in Cart!Assignable
    BY <1>6, AssignableAre DEF IsWalk
<1>8. PICK given : given = [i \in CartLines |-> SumIn(t, {k \in 1..n : key[k] = i})]
    OBVIOUS
<1>9. IsSummable(given) /\ SumOver(given) = SumIn(t, 1..n)
    <2>1. PICK S, L : S = 1..n /\ L = CartLines
        OBVIOUS
    <2>2. IsSummable(t) /\ S \in SUBSET DOMAIN t /\ IsFiniteSet(L) /\ \A k \in S : key[k] \in L
        BY <1>4, <1>7, <2>1, CombosAssumption
    <2>3. /\ IsSummable([i \in L |-> SumIn(t, {k \in S : key[k] = i})])
          /\ SumOver([i \in L |-> SumIn(t, {k \in S : key[k] = i})]) = SumIn(t, S)
        BY <2>2, GroupsAddUp
    <2>4. QED
        BY <1>8, <2>1, <2>3
<1>10. PICK got : got = [i \in CartLines |-> SumIn(t, {k \in K : place[k] = i})]
    OBVIOUS
<1>11. IsSummable(got) /\ SumOver(got) = SumIn(t, K)
    <2>1. PICK S, L : S = K /\ L = CartLines
        OBVIOUS
    <2>2. \A k \in K : place[k] \in CartLines
        BY DEF PlacesFit
    <2>3. IsSummable(t) /\ S \in SUBSET DOMAIN t /\ IsFiniteSet(L) /\ \A k \in S : place[k] \in L
        BY <1>4, <1>5, <2>1, <2>2, CombosAssumption
    <2>4. /\ IsSummable([i \in L |-> SumIn(t, {k \in S : place[k] = i})])
          /\ SumOver([i \in L |-> SumIn(t, {k \in S : place[k] = i})]) = SumIn(t, S)
        BY <2>3, GroupsAddUp
    <2>5. QED
        BY <1>10, <2>1, <2>4
<1>12. SumOver(given) = SumOver(got)
    <2>1. SumIn(t, 1..n) = SumOver(t)
        BY <1>4 DEF SumIn, SumOver
    <2>2. \A k \in DOMAIN t \ K : t[k] = 0
        BY <1>4, <1>5
    <2>3. K \in SUBSET DOMAIN t
        BY <1>4, <1>5
    <2>4. SumOver(t) = SumOver([k \in K |-> t[k]])
        BY <1>4, <2>2, <2>3, SumOverSupport
    <2>5. SumOver([k \in K |-> t[k]]) = SumIn(t, K)
        BY <1>4, <2>3, SumOverPart DEF SumIn
    <2>6. QED
        BY <1>9, <1>11, <2>1, <2>4, <2>5
<1>13. PICK u, v : /\ u = [i \in CartLines |-> OfProduct(i, p)] /\ u \in [CartLines -> Nat]
                   /\ v = [i \in CartLines |-> OfProduct(i, p)'] /\ v \in [CartLines -> Nat]
                   /\ Cart!Units(p) = SumOver(u) /\ Cart!Units(p)' = SumOver(v)
    BY UnitsAre
<1>14. ASSUME NEW i \in CartLines PROVE {k \in 1..n : key[k] = i} = LineVisits(walk, n, i)
    BY <1>7 DEF LineVisits
<1>15. ASSUME NEW i \in CartLines, i \notin Cart!Assignable PROVE given[i] = 0
    <2>1. {k \in 1..n : key[k] = i} = {}
        BY <1>7, <1>15
    <2>2. SumIn(t, {}) = 0
        BY <1>4, SumTableEmpty DEF SumIn
    <2>3. QED
        BY <1>8, <2>1, <2>2
<1>16. ASSUME NEW i \in CartLines, LineVisits(walk, n, i) = {} PROVE SumIn(took, LineVisits(walk, n, i)) = 0
    BY <1>4, <1>16, SumTableEmpty DEF SumIn
<1>17. ASSUME NEW i \in Cart!Assignable
       PROVE  given[i] = IF cartLine[i].product = p THEN SumIn(took, LineVisits(walk, n, i)) ELSE 0
    <2>1. i \in CartLines
        BY AssignableAre
    <2>2. PICK S : S = LineVisits(walk, n, i)
        OBVIOUS
    <2>3. given[i] = SumIn(t, S) /\ S \in SUBSET (1..n) /\ \A k \in S : walk[k].line = i
        BY <1>8, <1>14, <2>1, <2>2 DEF LineVisits
    <2>4. CASE cartLine[i].product = p
        <3>1. S \subseteq DOMAIN t /\ S \subseteq DOMAIN took /\ \A k \in S : t[k] = took[k]
            BY <1>2, <1>4, <2>3, <2>4
        <3>2. SumIn(t, S) = SumIn(took, S)
            BY <1>4, <3>1, SumInSame
        <3>3. QED
            BY <2>2, <2>3, <2>4, <3>2
    <2>5. CASE cartLine[i].product # p
        <3>1. S \in SUBSET DOMAIN t /\ \A k \in S : [j \in S |-> t[j]][k] = 0
            BY <1>2, <1>4, <2>3, <2>5
        <3>2. IsFiniteSet(S)
            BY <1>1, <2>3, FS_Subset
        <3>3. SumOver([j \in S |-> t[j]]) = 0
            BY <3>1, <3>2, SumOverZero
        <3>4. SumOver([j \in S |-> t[j]]) = SumIn(t, S)
            BY <1>4, <3>1, SumOverPart DEF SumIn
        <3>5. QED
            BY <2>3, <2>5, <3>3, <3>4
    <2>6. QED
        BY <2>4, <2>5
<1>18. ASSUME NEW k \in K PROVE got[place[k]] = t[k]
    <2>1. {j \in K : place[j] = place[k]} = {k} /\ place[k] \in CartLines
        BY DEF PlacesFit
    <2>2. SumIn(t, {k}) = t[k]
        BY <1>4, <1>5, SumInSingle
    <2>3. QED
        BY <1>10, <2>1, <2>2
<1>19. ASSUME NEW i \in CartLines, \A k \in K : place[k] # i PROVE got[i] = 0
    <2>1. {j \in K : place[j] = i} = {}
        BY <1>19
    <2>2. SumIn(t, {}) = 0
        BY <1>4, SumTableEmpty DEF SumIn
    <2>3. QED
        BY <1>10, <2>1, <2>2
<1>20. ASSUME NEW i \in CartLines
       PROVE  v[i] + given[i] = u[i] + got[i]
    <2>1. v[i] \in Int /\ u[i] \in Int /\ given[i] \in Int /\ got[i] \in Int
        BY <1>8, <1>9, <1>10, <1>11, <1>13 DEF IsSummable
    <2>2. CASE \E k \in K : place[k] = i
        <3>1. PICK k \in K : /\ place[k] = i /\ cartLine'[i] \in BillRow
                             /\ cartLine'[i].product = cartLine[walk[k].line].product
                             /\ cartLine'[i].qty = took[k]
            BY <2>2 DEF Regrouped
        <3>2. v[i] = t[k]
            <4>1. i \in Cart!Live'
                BY <3>1 DEF Cart!Live, BillRow
            <4>2. QED
                BY <1>2, <1>5, <1>13, <3>1, <4>1 DEF OfProduct
        <3>3. got[i] = t[k]
            BY <1>18, <3>1
        <3>4. u[i] = given[i]
            <4>1. CASE i \in Cart!Free
                <5>1. i \notin Cart!Live /\ i \notin Cart!Assignable
                    BY <4>1, LinesAre DEF Cart!Free, Cart!Assignable
                <5>2. u[i] = 0
                    BY <1>13, <5>1 DEF OfProduct
                <5>3. QED
                    BY <1>15, <5>1, <5>2
            <4>2. CASE i \notin Cart!Free
                <5>1. /\ i = walk[k].line
                      /\ SumIn(took, LineVisits(walk, n, i)) = cartLine[i].qty
                    BY <3>1, <4>2 DEF PlacesFit
                <5>2. i \in Cart!Assignable /\ i \in Cart!Live
                    BY <1>5, <1>7, <5>1, AssignableAre
                <5>3. u[i] = IF cartLine[i].product = p THEN cartLine[i].qty ELSE 0
                    BY <1>13, <5>2 DEF OfProduct
                <5>4. QED
                    BY <1>17, <5>1, <5>2, <5>3
            <4>3. QED
                BY <4>1, <4>2
        <3>5. QED
            BY <2>1, <3>2, <3>3, <3>4
    <2>3. CASE (\A k \in K : place[k] # i) /\ i \in Cart!Live
        <3>1. /\ cartLine'[i] \in BillRow /\ cartLine'[i].product = cartLine[i].product
              /\ cartLine'[i].qty = cartLine[i].qty - SumIn(took, LineVisits(walk, n, i))
            BY <2>3 DEF Regrouped
        <3>2. i \in Cart!Live'
            BY <3>1 DEF Cart!Live, BillRow
        <3>3. /\ u[i] = IF cartLine[i].product = p THEN cartLine[i].qty ELSE 0
              /\ v[i] = IF cartLine[i].product = p THEN cartLine'[i].qty ELSE 0
            BY <1>13, <2>3, <3>1, <3>2 DEF OfProduct
        <3>4. given[i] = IF cartLine[i].product = p THEN SumIn(took, LineVisits(walk, n, i)) ELSE 0
            <4>1. CASE i \in Cart!Assignable
                BY <4>1, <1>17
            <4>2. CASE i \notin Cart!Assignable
                <5>1. LineVisits(walk, n, i) = {}
                    BY <4>2, <1>7 DEF LineVisits
                <5>2. QED
                    BY <4>2, <5>1, <1>15, <1>16
            <4>3. QED
                BY <4>1, <4>2
        <3>5. got[i] = 0
            BY <1>19, <2>3
        <3>6. LineVisits(walk, n, i) \in SUBSET DOMAIN took
            BY <1>4 DEF LineVisits
        <3>7. SumIn(took, LineVisits(walk, n, i)) \in Int
            BY <1>4, <3>6, SumInInt
        <3>8. cartLine[i].qty \in Int
            <4>1. cartLine[i] \in BillRow
                BY <2>3, LinesAre
            <4>2. \A r \in BillRow : r.qty \in Nat
                BY DEF BillRow
            <4>3. QED
                BY <4>1, <4>2
        <3>9. PICK q \in Int, s \in Int : q = cartLine[i].qty /\ s = SumIn(took, LineVisits(walk, n, i))
            BY <3>7, <3>8
        <3>10. CASE cartLine[i].product = p
            <4>1. u[i] = q /\ v[i] = q - s /\ given[i] = s
                BY <3>1, <3>3, <3>4, <3>9, <3>10
            <4>2. QED
                BY <3>5, <3>9, <4>1
        <3>11. CASE cartLine[i].product # p
            BY <3>3, <3>4, <3>5, <3>11
        <3>12. QED
            BY <3>10, <3>11
    <2>4. CASE (\A k \in K : place[k] # i) /\ i \notin Cart!Live
        <3>1. cartLine'[i] = Cart!NoLine
            BY <2>4 DEF Regrouped
        <3>2. i \notin Cart!Live' /\ i \notin Cart!Assignable
            BY <2>4, <3>1, NoLineNoRow DEF Cart!Live, Cart!Assignable
        <3>3. u[i] = 0 /\ v[i] = 0
            BY <1>13, <2>4, <3>2 DEF OfProduct
        <3>4. QED
            BY <1>15, <1>19, <2>4, <3>2, <3>3
    <2>5. QED
        BY <2>2, <2>3, <2>4
<1>21. PICK w : w = [i \in CartLines |-> v[i] + given[i]]
    OBVIOUS
<1>22. /\ IsSummable(u) /\ IsSummable(v) /\ DOMAIN u = CartLines /\ DOMAIN v = CartLines
       /\ DOMAIN given = CartLines /\ DOMAIN got = CartLines
    BY <1>8, <1>10, <1>13, CombosAssumption DEF IsSummable
<1>23. /\ IsSummable(w) /\ DOMAIN w = CartLines /\ \A i \in CartLines : w[i] = v[i] + given[i]
       /\ \A i \in CartLines : w[i] = u[i] + got[i]
    <2>1. DOMAIN w = CartLines /\ \A i \in CartLines : w[i] = v[i] + given[i]
        BY <1>21
    <2>2. \A i \in CartLines : w[i] = u[i] + got[i]
        BY <1>20, <2>1
    <2>3. \A i \in CartLines : u[i] \in Int /\ got[i] \in Int
        BY <1>11, <1>22 DEF IsSummable
    <2>4. \A i \in CartLines : w[i] \in Int
        BY <2>2, <2>3
    <2>5. QED
        BY <2>1, <2>2, <2>4, CombosAssumption DEF IsSummable
<1>24. SumOver(w) = SumOver(v) + SumOver(given)
    BY <1>9, <1>22, <1>23, SumOverPlus
<1>25. SumOver(w) = SumOver(u) + SumOver(got)
    BY <1>11, <1>22, <1>23, SumOverPlus
<1>26. PICK a \in Int, b \in Int, g \in Int :
          a = SumOver(v) /\ b = SumOver(u) /\ g = SumOver(given)
    BY <1>9, <1>22, SumOverInt
<1>27. a + g = b + g
    BY <1>12, <1>24, <1>25, <1>26
<1>28. QED
    BY <1>13, <1>26, <1>27

LEMMA SavingsAre ==
    ASSUME NEW offer \in Offers, NEW v \in Nat
    PROVE  Cart!Savings(offer, v) \in Nat
<1>1. /\ offer.type \in {"fixed_price", "percentage", "flat_discount"} /\ offer.value \in Nat
    BY CombosAssumption
<1>2. PICK w \in Nat : w = offer.value
    BY <1>1
<1>3. v * w \in Int
    BY <1>2
<1>4. PICK s \in Int : Cart!Savings(offer, v) = Cart!AtLeastZero(s)
    <2>1. CASE offer.type = "fixed_price"
        <3>1. 100 * (v - w) \in Int
            BY <1>2
        <3>2. Cart!Savings(offer, v) = Cart!AtLeastZero(100 * (v - w))
            BY <1>2, <2>1 DEF Cart!Savings
        <3>3. QED
            BY <3>1, <3>2
    <2>2. CASE offer.type = "percentage"
        <3>1. Cart!Savings(offer, v) = Cart!AtLeastZero(v * w)
            BY <1>2, <2>2 DEF Cart!Savings
        <3>2. QED
            BY <1>3, <3>1
    <2>3. CASE offer.type = "flat_discount"
        <3>1. 100 * w \in Int
            BY <1>2
        <3>2. Cart!Savings(offer, v) = Cart!AtLeastZero(100 * w)
            BY <1>2, <2>3 DEF Cart!Savings
        <3>3. QED
            BY <3>1, <3>2
    <2>4. QED
        BY <1>1, <2>1, <2>2, <2>3
<1>5. QED
    BY <1>4 DEF Cart!AtLeastZero

\* The match's combo: its row, its lines, and every unit where it was.
LEMMA CartApply ==
    ASSUME CartInv, NEW c \in CartCombos, NEW offer \in Offers,
           NEW lines \in Cart!QueryOrders(Cart!Assignable),
           Cart!ApplyRetrospectiveCombo(c, offer, lines)
    PROVE  CartInv' /\ \A p \in Products : Cart!Units(p)' = Cart!Units(p)
<1>1. CartTyped /\ cartCombo[c] = Cart!NoOffer /\ UNCHANGED editedCombos
    BY DEF CartInv, Cart!ApplyRetrospectiveCombo
<1>2. PICK walk : walk = Cart!Walk(offer, lines)
    OBVIOUS
<1>3. PICK n \in Nat : IsWalk(offer, walk, n)
    BY <1>1, <1>2, WalkIs
<1>4. PICK took : took = IF offer.groups = <<>> THEN Cart!Whole(walk) ELSE Cart!Matched(offer, walk)
    OBVIOUS
<1>5. FitsLines(walk, n, took)
    <2>1. CASE offer.groups = <<>>
        <3>1. FitsLines(walk, n, Cart!Whole(walk))
            BY <1>1, <1>3, <2>1, WholeFits
        <3>2. QED
            BY <1>4, <2>1, <3>1
    <2>2. CASE offer.groups # <<>>
        <3>1. FitsLines(walk, n, Cart!Matched(offer, walk))
            BY <1>1, <1>3, <2>2, MatchedFits
        <3>2. QED
            BY <1>4, <2>2, <3>1
    <2>3. QED
        BY <2>1, <2>2
<1>6. took \in [1..n -> Nat] /\ IsFiniteSet(1..n) /\ DOMAIN walk = 1..n
    <2>1. took \in [1..n -> Nat] /\ DOMAIN walk = 1..n
        BY <1>3, <1>5 DEF FitsLines, IsWalk
    <2>2. IsFiniteSet(1..n)
        BY FS_Interval
    <2>3. QED
        BY <2>1, <2>2
<1>7. \A k \in 1..n : /\ walk[k].line \in Cart!Assignable /\ walk[k].line \in CartLines
                      /\ cartLine[walk[k].line] \in BillRow
                      /\ cartLine[walk[k].line].product \in Products
    <2>1. \A k \in 1..n : walk[k].line \in Cart!Assignable
        BY <1>3 DEF IsWalk
    <2>2. \A k \in 1..n : walk[k].line \in CartLines /\ cartLine[walk[k].line] \in BillRow
        BY <1>1, <2>1, AssignableAre
    <2>3. \A r \in BillRow : r.product \in Products
        BY DEF BillRow
    <2>4. QED
        BY <2>1, <2>2, <2>3
<1>8. PICK worth : worth = [k \in 1..n |-> took[k] * UnitPrice[cartLine[walk[k].line].product]]
    OBVIOUS
<1>9. worth \in [1..n -> Nat]
    <2>1. ASSUME NEW k \in 1..n PROVE took[k] * UnitPrice[cartLine[walk[k].line].product] \in Nat
        <3>1. PICK x \in Nat, y \in Nat : x = took[k] /\ y = UnitPrice[cartLine[walk[k].line].product]
            BY <1>6, <1>7, CombosAssumption
        <3>2. x * y \in Nat
            OBVIOUS
        <3>3. QED
            BY <3>1, <3>2
    <2>2. QED
        BY <1>8, <2>1
<1>10. IsSummable(worth) /\ DOMAIN worth = 1..n
    BY <1>6, <1>9 DEF IsSummable
<1>11. PICK v \in Nat : v = SumOver(worth) /\ v = Cart!SumOver(worth)
    <2>1. \A k \in DOMAIN worth : worth[k] \in Nat
        BY <1>9
    <2>2. SumTable(worth)[DOMAIN worth] \in Nat
        BY <1>6, <1>10, <2>1, SumTableNat
    <2>3. QED
        BY <2>2, CartSums DEF SumOver
<1>12. PICK saved : saved = Cart!Savings(offer, v)
    OBVIOUS
<1>13. saved \in Nat
    BY <1>12, SavingsAre
<1>14. PICK K : K = {k \in 1..n : took[k] > 0}
    OBVIOUS
<1>15. PICK row : row = [type |-> offer.type, by |-> "match", savings |-> Cart!HalfUp(saved, 100),
                         worth |-> v]
    OBVIOUS
<1>16. /\ Cart!Room(K)
       /\ cartLine' = Cart!Assigned(c, took, walk, worth, v, saved)
       /\ cartCombo' = [cartCombo EXCEPT ![c] = row]
    <2>1. worth = [k \in DOMAIN walk |-> took[k] * UnitPrice[cartLine[walk[k].line].product]]
        BY <1>6, <1>8
    <2>2. K = {k \in DOMAIN walk : took[k] > 0}
        BY <1>6, <1>14
    <2>3. QED
        BY <1>2, <1>4, <1>11, <1>12, <1>15, <2>1, <2>2 DEF Cart!ApplyRetrospectiveCombo
<1>17. PICK place : place = [k \in K |-> Cart!Place(took, walk, Cart!NewRows(K), k)]
    OBVIOUS
<1>18. PlacesFit(walk, n, took, K, place)
    BY <1>1, <1>3, <1>5, <1>14, <1>16, <1>17, PlacesAre
<1>19. PICK d : d = [k \in K |-> IF v = 0 THEN cartLine[walk[k].line].disc
                                 ELSE Cart!HalfUp(saved * worth[k], 100 * v)]
    OBVIOUS
<1>20. K \in SUBSET (1..n) /\ IsFiniteSet(K)
    BY <1>6, <1>14, FS_Subset
<1>21. d \in [K -> Int]
    <2>1. ASSUME NEW k \in K
          PROVE  (IF v = 0 THEN cartLine[walk[k].line].disc
                  ELSE Cart!HalfUp(saved * worth[k], 100 * v)) \in Int
        <3>1. CASE v = 0
            <4>1. cartLine[walk[k].line] \in BillRow
                BY <1>7, <1>20
            <4>2. \A r \in BillRow : r.disc \in Int
                BY DEF BillRow
            <4>3. QED
                BY <3>1, <4>1, <4>2
        <3>2. CASE v # 0
            <4>1. PICK x \in Nat : x = worth[k]
                BY <1>9, <1>20
            <4>2. PICK m \in Int, e \in Nat \ {0} : m = saved * x /\ e = 100 * v
                BY <1>13, <3>2
            <4>3. Cart!HalfUp(m, e) \in Int
                BY HalfUpNear, SMTT(40)
            <4>4. QED
                BY <3>2, <4>1, <4>2, <4>3
        <3>3. QED
            BY <3>1, <3>2
    <2>2. QED
        BY <1>19, <2>1
<1>22. cartLine' = [i \in CartLines |->
                      IF \E k \in K : place[k] = i
                      THEN LET k == CHOOSE m \in K : place[m] = i
                           IN  Cart!NewLine(cartLine[walk[k].line].product, took[k], d[k], c)
                      ELSE IF i \in Cart!Live THEN [cartLine[i] EXCEPT !.qty = Cart!Kept(took, walk, i)]
                      ELSE Cart!NoLine]
    <2>1. K = {k \in DOMAIN walk : took[k] > 0}
        BY <1>6, <1>14
    <2>2. \A i : (\E k \in K : place[k] = i) => (CHOOSE m \in K : place[m] = i) \in K
        OBVIOUS
    <2>3. QED
        BY <1>16, <1>17, <1>19, <2>1, <2>2, ZenonT(60) DEF Cart!Assigned
<1>23. ASSUME NEW k \in K
       PROVE  /\ cartLine'[place[k]] \in BillRow
              /\ cartLine'[place[k]].product = cartLine[walk[k].line].product
              /\ cartLine'[place[k]].qty = took[k]
              /\ cartLine'[place[k]].disc = d[k] /\ cartLine'[place[k]].combo = c
    <2>1. place[k] \in CartLines /\ (CHOOSE m \in K : place[m] = place[k]) = k
        BY <1>18 DEF PlacesFit
    <2>2. cartLine'[place[k]] = Cart!NewLine(cartLine[walk[k].line].product, took[k], d[k], c)
        BY <1>22, <2>1
    <2>3. PICK p \in Products, q \in Nat \ {0}, x \in Int :
             p = cartLine[walk[k].line].product /\ q = took[k] /\ x = d[k]
        BY <1>6, <1>7, <1>14, <1>20, <1>21, SMTT(40)
    <2>4. cartLine'[place[k]] = Cart!NewLine(p, q, x, c)
        BY <2>2, <2>3
    <2>5. QED
        BY <2>3, <2>4 DEF Cart!NewLine, BillRow
<1>24. ASSUME NEW i \in CartLines, \A k \in K : place[k] # i, i \in Cart!Live
       PROVE  /\ cartLine'[i] \in BillRow /\ cartLine'[i].product = cartLine[i].product
              /\ cartLine'[i].combo = cartLine[i].combo
              /\ cartLine'[i].qty = cartLine[i].qty - SumIn(took, LineVisits(walk, n, i))
              /\ cartLine[i].combo # NoCombo => cartLine'[i] = cartLine[i]
    <2>1. cartLine'[i] = [cartLine[i] EXCEPT !.qty = Cart!Kept(took, walk, i)]
        BY <1>22, <1>24
    <2>2. Cart!Kept(took, walk, i) = cartLine[i].qty - SumIn(took, LineVisits(walk, n, i))
        BY <1>3, TakenAre DEF Cart!Kept
    <2>3. cartLine[i] \in BillRow
        BY <1>1, <1>24, LinesAre
    <2>4. \A r \in BillRow : r.qty \in Nat \ {0} /\ r = [r EXCEPT !.qty = r.qty]
        BY DEF BillRow
    <2>5. IsSummable(took) /\ LineVisits(walk, n, i) \in SUBSET DOMAIN took
        BY <1>6 DEF IsSummable, LineVisits
    <2>6. SumIn(took, LineVisits(walk, n, i)) \in Int
        BY <2>5, SumInInt
    <2>7. PICK q \in Nat \ {0}, s \in Int : q = cartLine[i].qty /\ s = SumIn(took, LineVisits(walk, n, i))
        BY <2>3, <2>4, <2>6
    <2>8. (cartLine[i].combo # NoCombo => s = 0) /\ s < q
        <3>1. CASE cartLine[i].combo = NoCombo
            <4>1. i \in Cart!Assignable
                BY <1>24, <3>1 DEF Cart!Assignable
            <4>2. SumIn(took, LineVisits(walk, n, i)) < cartLine[i].qty
                BY <1>18, <1>24, <4>1 DEF PlacesFit
            <4>3. QED
                BY <2>7, <3>1, <4>2
        <3>2. CASE cartLine[i].combo # NoCombo
            <4>1. i \notin Cart!Assignable
                BY <3>2 DEF Cart!Assignable
            <4>2. LineVisits(walk, n, i) = {}
                BY <1>7, <4>1 DEF LineVisits
            <4>3. SumIn(took, {}) = 0
                BY <2>5, SumTableEmpty DEF SumIn
            <4>4. QED
                BY <2>7, <4>2, <4>3
        <3>3. QED
            BY <3>1, <3>2
    <2>9. PICK h : h = Cart!Kept(took, walk, i)
        OBVIOUS
    <2>10. PICK r \in BillRow : r = cartLine[i]
        BY <2>3
    <2>11. h = q - s /\ r.qty = q
        BY <2>2, <2>7, <2>9, <2>10
    <2>12. h \in Nat \ {0} /\ (r.combo # NoCombo => h = r.qty)
        BY <2>7, <2>8, <2>9, <2>10, <2>11
    <2>13. cartLine'[i] = [r EXCEPT !.qty = h]
        BY <2>1, <2>9, <2>10
    <2>14. [r EXCEPT !.qty = h] \in BillRow
        BY <2>12 DEF BillRow
    <2>15. LET x == [r EXCEPT !.qty = h] IN
             x.product = r.product /\ x.combo = r.combo /\ x.qty = h
        BY DEF BillRow
    <2>16. r.combo # NoCombo => [r EXCEPT !.qty = h] = r
        BY <2>4, <2>12
    <2>17. QED
        BY <2>7, <2>9, <2>10, <2>11, <2>13, <2>14, <2>15, <2>16
<1>25. ASSUME NEW i \in CartLines, \A k \in K : place[k] # i, i \notin Cart!Live
       PROVE  cartLine'[i] = Cart!NoLine
    BY <1>22, <1>25
<1>26. row \in ComboRow /\ row.by = "match" /\ row.worth = v /\ row.savings = Cart!HalfUp(saved, 100)
    <2>1. saved \in Int /\ 100 \in Nat \ {0}
        BY <1>13
    <2>2. Cart!HalfUp(saved, 100) \in Int
        BY <2>1, HalfUpNear
    <2>3. offer.type \in {"fixed_price", "percentage", "flat_discount"}
        BY CombosAssumption
    <2>4. QED
        BY <1>15, <2>2, <2>3 DEF ComboRow
<1>27. CartTyped'
    <2>1. \A i \in CartLines : cartLine'[i] \in {Cart!NoLine} \union BillRow
        <3> TAKE i \in CartLines
        <3>1. CASE \E k \in K : place[k] = i
            BY <1>23, <3>1
        <3>2. CASE \A k \in K : place[k] # i
            BY <1>24, <1>25, <3>2
        <3>3. QED
            BY <3>1, <3>2
    <2>2. cartLine' = [i \in CartLines |-> cartLine'[i]]
        BY <1>22
    <2>3. cartLine' \in [CartLines -> {Cart!NoLine} \union BillRow]
        BY <2>1, <2>2
    <2>4. cartCombo' \in [CartCombos -> {Cart!NoOffer} \union ComboRow]
        BY <1>1, <1>16, <1>26 DEF CartTyped
    <2>5. QED
        BY <2>3, <2>4 DEF CartTyped
<1>28. Regrouped(walk, n, took, K, place, c)
    <2> SUFFICES ASSUME NEW i \in CartLines
                 PROVE  IF \E k \in K : place[k] = i
                        THEN \E k \in K : /\ place[k] = i /\ cartLine'[i] \in BillRow
                                          /\ cartLine'[i].product = cartLine[walk[k].line].product
                                          /\ cartLine'[i].qty = took[k] /\ cartLine'[i].combo = c
                        ELSE IF i \in Cart!Live
                        THEN /\ cartLine'[i] \in BillRow /\ cartLine'[i].product = cartLine[i].product
                             /\ cartLine'[i].combo = cartLine[i].combo
                             /\ cartLine'[i].qty = cartLine[i].qty - SumIn(took, LineVisits(walk, n, i))
                        ELSE cartLine'[i] = Cart!NoLine
        BY DEF Regrouped
    <2>1. CASE \E k \in K : place[k] = i
        BY <1>23, <2>1
    <2>2. CASE (\A k \in K : place[k] # i) /\ i \in Cart!Live
        BY <1>24, <2>2
    <2>3. CASE (\A k \in K : place[k] # i) /\ i \notin Cart!Live
        BY <1>25, <2>3
    <2>4. QED
        BY <2>1, <2>2, <2>3
<1>29. \A p \in Products : Cart!Units(p)' = Cart!Units(p)
    BY <1>1, <1>3, <1>5, <1>18, <1>27, <1>28, UnitsRegrouped
<1>30. Joins(c, K, place, d)
    <2>1. \A j, k \in K : place[j] = place[k] => j = k
        BY <1>18 DEF PlacesFit
    <2>2. ASSUME NEW k \in K, place[k] \in Cart!Live PROVE cartLine[place[k]].combo = NoCombo
        <3>1. place[k] \notin Cart!Free
            BY <1>1, <2>2, LinesAre DEF Cart!Free, Cart!Live
        <3>2. place[k] = walk[k].line
            BY <1>18, <3>1 DEF PlacesFit
        <3>3. place[k] \in Cart!Assignable
            BY <1>7, <1>20, <3>2
        <3>4. QED
            BY <3>3 DEF Cart!Assignable
    <2>3. ASSUME NEW i \in CartLines, \A k \in K : place[k] # i
          PROVE  \/ cartLine'[i] = cartLine[i]
                 \/ /\ i \in Cart!Live /\ cartLine[i].combo = NoCombo
                    /\ cartLine'[i] \in BillRow /\ cartLine'[i].combo = NoCombo
        <3>1. CASE i \in Cart!Live
            BY <1>24, <2>3, <3>1
        <3>2. CASE i \notin Cart!Live
            BY <1>1, <1>25, <2>3, <3>2, LinesAre
        <3>3. QED
            BY <3>1, <3>2
    <2>4. QED
        BY <1>23, <2>1, <2>2, <2>3 DEF Joins
<1>31. place \in [K -> CartLines]
    BY <1>18 DEF PlacesFit
<1>32. /\ Cardinality(Cart!LinesOf(c)') = Cardinality(K)
       /\ Cart!Given(c)' = SumOver(d)
       /\ Shared(c)' => CartInv'
    BY <1>1, <1>16, <1>20, <1>21, <1>26, <1>27, <1>30, <1>31, Joined
<1>33. cartCombo'[c] = row
    BY <1>1, <1>16 DEF CartTyped
<1>34. CASE v = 0
    <2>1. Shared(c)'
        BY <1>26, <1>33, <1>34 DEF Shared
    <2>2. QED
        BY <1>29, <1>32, <2>1
<1>35. CASE v # 0
    <2>1. PICK w : w = [k \in K |-> worth[k]]
        OBVIOUS
    <2>2. w \in [K -> Nat]
        BY <1>9, <1>20, <2>1
    <2>3. SumOver(w) = v
        <3>1. ASSUME NEW k \in DOMAIN worth \ K PROVE worth[k] = 0
            <4>1. k \in 1..n /\ took[k] = 0
                BY <1>6, <1>10, <1>14
            <4>2. PICK y \in Nat : y = UnitPrice[cartLine[walk[k].line].product]
                BY <1>7, <4>1, CombosAssumption
            <4>3. worth[k] = took[k] * y
                BY <1>8, <4>1, <4>2
            <4>4. QED
                BY <4>1, <4>2, <4>3
        <3>2. K \in SUBSET DOMAIN worth
            BY <1>10, <1>20
        <3>3. SumOver(worth) = SumOver([k \in K |-> worth[k]])
            BY <1>10, <3>1, <3>2, SumOverSupport
        <3>4. QED
            BY <1>11, <2>1, <3>3
    <2>4. \A k \in K : d[k] = Cart!HalfUp(saved * w[k], 100 * v)
        BY <1>19, <1>35, <2>1
    <2>5. v \in Nat \ {0}
        BY <1>35
    <2>6. PICK a \in Nat, b \in Nat, e \in Nat \ {0} : a = 200 * v /\ b = 2 * saved /\ e = 100 * v
        BY <1>13, <2>5
    <2>7. ASSUME NEW k \in K PROVE a * d[k] - b * w[k] <= e /\ b * w[k] - a * d[k] <= e
        <3>1. PICK x \in Nat, y \in Int : x = w[k] /\ y = d[k]
            BY <1>21, <2>2
        <3>2. PICK m \in Int : m = saved * x
            BY <1>13, <3>1
        <3>3. y = Cart!HalfUp(m, e)
            BY <2>4, <2>6, <3>1, <3>2
        <3>4. (2 * e) * y - 2 * m <= e /\ 2 * m - (2 * e) * y <= e
            BY <2>6, <3>2, <3>3, HalfUpNear
        <3>5. 2 * e = a /\ 2 * m = b * x
            BY <1>13, <2>6, <3>1, <3>2
        <3>6. QED
            BY <3>1, <3>4, <3>5
    <2>8. SharesNear(K, w, d, v, saved)
        BY <2>6, <2>7 DEF SharesNear
    <2>9. PICK h \in Int : h = Cart!HalfUp(saved, 100)
        <3>1. saved \in Int /\ 100 \in Nat \ {0}
            BY <1>13
        <3>2. Cart!HalfUp(saved, 100) \in Int
            BY <3>1, HalfUpNear
        <3>3. QED
            BY <3>2
    <2>10. /\ 2 * (SumOver(d) - h) <= Cardinality(K) + 1
           /\ 0 - (Cardinality(K) + 1) <= 2 * (SumOver(d) - h)
        BY <1>13, <1>20, <1>21, <2>2, <2>3, <2>5, <2>8, <2>9, MatchedSharesAddUp, ZenonT(60)
    <2>11. SumOver(d) \in Int /\ Cardinality(K) \in Nat
        <3>1. IsSummable(d)
            BY <1>20, <1>21 DEF IsSummable
        <3>2. QED
            BY <1>20, <3>1, SumOverInt, FS_CardinalityType
    <2>12. PICK s \in Int, z \in Nat : s = SumOver(d) /\ z = Cardinality(K)
        BY <2>11
    <2>13. 2 * (s - h) \in (0 - (z + 1))..(z + 1)
        BY <2>10, <2>12
    <2>14. /\ Cart!Given(c)' = s /\ Cardinality(Cart!LinesOf(c)') = z
           /\ cartCombo'[c].by = "match" /\ cartCombo'[c].savings = h
        BY <1>26, <1>32, <1>33, <2>9, <2>12
    <2>15. Shared(c)'
        BY <2>13, <2>14 DEF Shared
    <2>16. QED
        BY <1>29, <1>32, <2>15
<1>36. QED
    BY <1>34, <1>35, SMTT(40)

LEMMA CartNext == CartInv /\ [Cart!Next]_offerVars => CartInv'
<1> SUFFICES ASSUME CartInv, [Cart!Next]_offerVars PROVE CartInv'
    OBVIOUS
<1>1. ASSUME NEW p \in Products, NEW n \in Quantities, Cart!AddItem(p, n) PROVE CartInv'
    BY <1>1, CartAddItem
<1>2. ASSUME NEW i \in CartLines, NEW n \in {0} \union Quantities, Cart!SetItemQty(i, n) PROVE CartInv'
    BY <1>2, CartSetItemQty
<1>3. ASSUME NEW c \in CartCombos, NEW offer \in Offers, NEW sel \in Selections,
             Cart!AddCombo(c, offer, sel)
      PROVE  CartInv'
    BY <1>3, CartAddCombo
<1>4. ASSUME NEW c \in CartCombos, NEW offer \in Offers,
             NEW lines \in Cart!QueryOrders(Cart!Assignable),
             Cart!ApplyRetrospectiveCombo(c, offer, lines)
      PROVE  CartInv'
    BY <1>4, CartApply
<1>5. ASSUME NEW c \in CartCombos, Cart!RemoveCombo(c) PROVE CartInv'
    BY <1>5, CartRemoveCombo
<1>6. CASE UNCHANGED offerVars
    <2>1. UNCHANGED <<cartLine, cartCombo, editedCombos>>
        BY <1>6 DEF offerVars
    <2>2. CartTyped'
        BY <2>1 DEF CartInv, CartTyped
    <2>3. Combined'
        BY <2>1 DEF CartInv, Combined, Cart!Live
    <2>4. ASSUME NEW c \in CartCombos \ editedCombos PROVE Shared(c)'
        <3>1. Shared(c)
            BY SharedAll DEF CartInv
        <3>2. CartTyped /\ cartCombo'[c] = cartCombo[c] /\ \A i \in CartLines : cartLine'[i] = cartLine[i]
            BY <2>1 DEF CartInv
        <3>3. QED
            BY <2>2, <3>1, <3>2, SharesKept
    <2>5. Cart!SharesMakeTheSavings'
        BY <2>1, <2>4, SharedAll
    <2>6. QED
        BY <2>2, <2>3, <2>5 DEF CartInv
<1>7. QED
    BY <1>1, <1>2, <1>3, <1>4, <1>5, <1>6 DEF Cart!Next

\* A combo that appears by a match comes by no other call.
LEMMA MatchKeepsUnits ==
    ASSUME CartInv, Cart!Next, NEW c \in CartCombos, cartCombo[c] = Cart!NoOffer,
           cartCombo'[c] # Cart!NoOffer, cartCombo'[c].by = "match"
    PROVE  \A p \in Products : Cart!Units(p)' = Cart!Units(p)
<1>1. DOMAIN cartCombo = CartCombos
    BY DEF CartInv, CartTyped
<1>2. ASSUME NEW p \in Products, NEW n \in Quantities, Cart!AddItem(p, n) PROVE FALSE
    BY <1>2 DEF Cart!AddItem
<1>3. ASSUME NEW i \in CartLines, NEW n \in {0} \union Quantities, Cart!SetItemQty(i, n) PROVE FALSE
    BY <1>3 DEF Cart!SetItemQty
<1>4. ASSUME NEW b \in CartCombos, NEW offer \in Offers, NEW sel \in Selections,
             Cart!AddCombo(b, offer, sel)
      PROVE  FALSE
    <2>1. PICK off, v : cartCombo' = [cartCombo EXCEPT ![b] =
                            [type |-> offer.type, by |-> "sale", savings |-> off, worth |-> v]]
        BY <1>4, Zenon DEF Cart!AddCombo
    <2>2. PICK row : cartCombo' = [cartCombo EXCEPT ![b] = row] /\ row.by = "sale"
        BY <2>1
    <2>3. QED
        BY <1>1, <2>2
<1>5. ASSUME NEW b \in CartCombos, NEW offer \in Offers,
             NEW lines \in Cart!QueryOrders(Cart!Assignable),
             Cart!ApplyRetrospectiveCombo(b, offer, lines)
      PROVE  \A p \in Products : Cart!Units(p)' = Cart!Units(p)
    BY <1>5, CartApply
<1>6. ASSUME NEW b \in CartCombos, Cart!RemoveCombo(b) PROVE FALSE
    BY <1>1, <1>6 DEF Cart!RemoveCombo
<1>7. QED
    BY <1>2, <1>3, <1>4, <1>5, <1>6 DEF Cart!Next

\* What is taken off for a combo of the cart is the savings it shows: to the cent for one that was
\* sold as a set, to half a cent for each line and for the savings for one recognised among the
\* lines; and recognising one splits and joins lines and keeps the units of every product
\* (add_combo and apply_retrospective_combo, whatever the offers, the prices and the cart).
THEOREM CombosKept == PremisesSpec => CombosKeepTheCart
<1>1. ASSUME CartInv, CartInv', [Cart!Next]_offerVars
      PROVE  [/\ Cart!SharesMakeTheSavings'
              /\ \A c \in CartCombos :
                    cartCombo[c] = Cart!NoOffer /\ cartCombo'[c] # Cart!NoOffer
                      /\ cartCombo'[c].by = "match"
                        => \A p \in Products : Cart!Units(p)' = Cart!Units(p)]_offerVars
    BY <1>1, MatchKeepsUnits DEF CartInv
<1>2. Cart!Init /\ [][Cart!Next]_offerVars => []CartInv
    BY CartInit, CartNext, PTL
<1>3. PremisesSpec => []CartInv /\ [][Cart!Next]_offerVars
    BY <1>2, ComboSteps, PTL
<1>4. CombosKeepTheCart <=>
         [][/\ Cart!SharesMakeTheSavings'
            /\ \A c \in CartCombos :
                  cartCombo[c] = Cart!NoOffer /\ cartCombo'[c] # Cart!NoOffer
                    /\ cartCombo'[c].by = "match"
                      => \A p \in Products : Cart!Units(p)' = Cart!Units(p)]_offerVars
    BY PTL DEF CombosKeepTheCart, Cart!CombosKeepTheCart, Cart!cartVars, offerVars
<1>5. QED
    BY <1>1, <1>3, <1>4, PTL
=============================================================================
