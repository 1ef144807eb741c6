------------------------------ MODULE Records -------------------------------
(***************************************************************************)
(* The rows that screens and REST resources create, change and delete      *)
(* without a service of their own: departments, shifts, printers,          *)
(* modifiers, suppliers, restaurants, stock documents and the like.        *)
(*                                                                         *)
(* A form or serializer reads a row, changes some columns of its copy and  *)
(* saves every column; no transaction joins the two.  A service locks the  *)
(* row and saves the columns it changed.  Every save writes an audit       *)
(* entry with the columns that differ from the copy; a bulk update writes  *)
(* none.  Which screen a behaviour is about is chosen once, in `desk`;     *)
(* names, amounts and dates are left out, and so are the notifications of  *)
(* leave and payout forms.                                                 *)
(***************************************************************************)
EXTENDS Integers, FiniteSets

CONSTANTS
    Requests,       \* requests under way at once
    MaxPosted       \* how often a document's effect may be posted before a behaviour ends

Desks == {"staff", "shift", "leave", "menu", "offer", "supplier", "warehouse", "printer",
          "restaurant", "table", "adjustment", "transfer", "hours"}

\* A second row where the screen shows a second kind, or where rows compete.
Rows == 1..2
TwoRows == {"staff", "menu", "supplier", "warehouse", "printer"}

VARIABLES
    desk,
    row,            \* the table's row: its deletion flag, status and default flag
    audited,        \* what a reader of the audit log takes the row to be
    request,        \* where a request is, with the copy it read
    overwritten,    \* rows saved from a copy that was out of date, or updated in bulk
    ever,           \* what a row once was: deleted, closed
    posted,         \* how often a document moved stock
    crossed         \* a printer became default between another form's two statements

vars == <<desk, row, audited, request, overwritten, ever, posted, crossed>>

NoRow == [here |-> FALSE, deleted |-> FALSE, status |-> "none", main |-> FALSE]
New(status) == [here |-> TRUE, deleted |-> FALSE, status |-> status, main |-> FALSE]
Columns == {"here", "deleted", "status", "main"}

Idle == [step |-> "idle"]

Init ==
    /\ desk \in Desks
    /\ row = [r \in Rows |-> NoRow] /\ audited = row
    /\ request = [q \in Requests |-> Idle]
    /\ overwritten = {} /\ ever = {} /\ crossed = FALSE
    /\ posted = [r \in Rows |-> 0]

Live(r) == row[r].here /\ ~row[r].deleted

-----------------------------------------------------------------------------
(* What a save does. *)

\* Conditions of the tables: one default warehouse among the live rows, one live
\* supplier per code.
Permitted(rows) ==
    LET alive == {r \in Rows : rows[r].here /\ ~rows[r].deleted} IN
        Cardinality(alive) > 1 =>
            /\ desk = "warehouse" => \E r \in alive : ~rows[r].main
            /\ desk = "supplier" => Cardinality({rows[r].status : r \in alive}) = 2

\* The columns an audit entry lists are those that differ from the object's first state.
Audit(r, copy, new) ==
    audited' = [audited EXCEPT ![r] =
        [c \in Columns |-> IF new[c] # copy[c] THEN new[c] ELSE audited[r][c]]]

Facts(r, new) ==
    {r} \X {f \in {"deleted", "closed"} :
               IF f = "deleted" THEN new.deleted ELSE new.status = f}

Write(r, new) ==
    /\ row' = [row EXCEPT ![r] = new]
    /\ Permitted(row')
    /\ ever' = ever \union Facts(r, new)

Create(r, new) ==
    /\ ~row[r].here /\ (r = 1 \/ desk \in TwoRows)
    /\ Write(r, new) /\ Audit(r, NoRow, new)
    /\ UNCHANGED <<desk, request, overwritten, posted, crossed>>

\* get_object: the manager shows live rows only.
Open(q, r) ==
    /\ request[q] = Idle /\ Live(r)
    /\ request' = [request EXCEPT ![q] = [step |-> "open", at |-> r, copy |-> row[r]]]
    /\ UNCHANGED <<desk, row, audited, overwritten, ever, posted, crossed>>

Opened(q, r) == request[q].step = "open" /\ request[q].at = r
Finish(q) == request' = [request EXCEPT ![q] = Idle]

\* instance.save(): every column of the copy, whatever the row is by now.
SaveAll(q, r, new) ==
    /\ Write(r, new) /\ Audit(r, request[q].copy, new) /\ Finish(q)
    /\ overwritten' = IF row[r] = request[q].copy THEN overwritten ELSE overwritten \union {r}
    /\ UNCHANGED <<desk, posted>>

\* save(update_fields=...): the columns that changed.
SaveSome(r, copy, new) ==
    /\ Write(r, [c \in Columns |-> IF new[c] # copy[c] THEN new[c] ELSE row[r][c]])
    /\ Audit(r, copy, new)
    /\ UNCHANGED <<desk, overwritten, crossed>>

\* Soft deletion (and the modifier views' own flag): related rows stay.
Delete(r) ==
    /\ Live(r)
    /\ SaveSome(r, row[r], [row[r] EXCEPT !.deleted = TRUE])
    /\ UNCHANGED <<request, posted>>

\* A save the table's conditions refuse, a failed validation or a dead worker.
GiveUp(q) ==
    /\ request[q] # Idle /\ Finish(q)
    /\ UNCHANGED <<desk, row, audited, overwritten, ever, posted, crossed>>

\* A form or a serializer of one row, with the rows it may turn a copy into.
Change(r, Edited(_)) ==
    \E q \in Requests :
        \/ Open(q, r)
        \/ /\ Opened(q, r)
           /\ \E new \in Edited(request[q].copy) : SaveAll(q, r, new) /\ UNCHANGED crossed

Screen(r, born, Edited(_)) ==
    \/ \E s \in born : Create(r, New(s))
    \/ Change(r, Edited)
    \/ Delete(r)

Unchanged(copy) == {copy}
OnOff(copy) == {[copy EXCEPT !.status = s] : s \in {"on", "off"}}

-----------------------------------------------------------------------------
(* Staff *)

Departments == desk = "staff" /\ Screen(1, {"on"}, Unchanged)

\* A designation is created in a department that lives, and outlives it.
Designations ==
    desk = "staff" /\ (row[2].here \/ Live(1)) /\ Screen(2, {"on"}, Unchanged)

\* The REST resources of the same rows, with is_active.
StaffResources ==
    \/ desk = "staff" /\ Screen(1, {"on", "off"}, OnOff)
    \/ desk = "shift" /\ Screen(1, {"on", "off"}, OnOff)

Shifts == desk = "shift" /\ Screen(1, {"on", "off"}, OnOff)
WeeklyOffs == desk = "shift" /\ Screen(1, {"on"}, Unchanged)
AttendanceLogs == desk = "shift" /\ Screen(1, {"on", "off"}, OnOff)
Documents == desk = "shift" /\ Screen(1, {"on"}, Unchanged)

LeaveStatus == {"pending", "approved"}
AnyLeaveStatus(copy) == {[copy EXCEPT !.status = s] : s \in LeaveStatus}

\* The forms set any status; the API decides pending requests under a lock.
LeaveForms == desk = "leave" /\ Screen(1, LeaveStatus, AnyLeaveStatus)
PayoutForms == desk = "leave" /\ Screen(1, LeaveStatus, AnyLeaveStatus)

\* A service's step: it locks the live row, checks the status and saves the new one.
Locked(r, from, to) ==
    /\ Live(r) /\ row[r].status \in from
    /\ SaveSome(r, row[r], [row[r] EXCEPT !.status = to])
    /\ UNCHANGED request

LeaveDecision == desk = "leave" /\ Locked(1, {"pending"}, "approved") /\ UNCHANGED posted

-----------------------------------------------------------------------------
(* Menu *)

ModifierGroups == desk = "menu" /\ Screen(1, {"on"}, OnOff)

\* An option is added to a group that lives; copying one asks nothing of the group.
Modifiers ==
    /\ desk = "menu"
    /\ \/ Live(1) /\ Create(2, New("on"))
       \/ Change(2, OnOff)
       \/ Delete(2)

ModifierToggle ==
    /\ desk = "menu"
    /\ \E q \in Requests :
        /\ Opened(q, 2) /\ row[2].here /\ Finish(q)
        /\ SaveSome(2, request[q].copy, [request[q].copy EXCEPT !.status =
                        IF @ = "on" THEN "off" ELSE "on"])
        /\ UNCHANGED posted

\* The product form's dialog.
NewCategory == desk = "offer" /\ Create(1, New("on"))

\* The screens create and change offers; only REST deletes one.
ComboOffers == desk = "offer" /\ (Create(1, New("on")) \/ Change(1, OnOff))
MenuResources == desk = "offer" /\ Screen(1, {"on", "off"}, OnOff)

-----------------------------------------------------------------------------
(* Stock *)

SupplierCodes == {"A", "B"}
AnyCode(copy) == {[copy EXCEPT !.status = c] : c \in SupplierCodes}

\* The service checks the code, locks the row and sets the form's columns.
SupplierForms ==
    /\ desk = "supplier"
    /\ \E r \in Rows :
        \/ \E c \in SupplierCodes : Create(r, New(c))
        \/ \E c \in SupplierCodes : Locked(r, SupplierCodes, c) /\ UNCHANGED posted
        \/ Delete(r)

SupplierResource ==
    desk = "supplier" /\ \E r \in Rows : Screen(r, SupplierCodes, AnyCode)

AnyMain(copy) == {[copy EXCEPT !.main = m] : m \in BOOLEAN}

\* Only REST makes warehouses: create_warehouse passes a column the table lost.
Warehouses ==
    /\ desk = "warehouse"
    /\ \E r \in Rows :
        \/ \E m \in BOOLEAN : Create(r, [New("on") EXCEPT !.main = m])
        \/ Change(r, AnyMain) \/ Delete(r)

Post(r) == posted[r] < MaxPosted /\ posted' = [posted EXCEPT ![r] = @ + 1]

\* Approval locks the draft, posts its lines and saves the approval (the form's
\* "apply now" is a second transaction after the draft's).
Adjustments ==
    /\ desk = "adjustment"
    /\ \/ Create(1, New("draft"))
       \/ Locked(1, {"draft"}, "approved") /\ Post(1)

Transfers ==
    /\ desk = "transfer"
    /\ \/ Create(1, New("draft"))
       \/ Locked(1, {"draft"}, "in_transit") /\ Post(1)
       \/ Locked(1, {"in_transit"}, "received") /\ UNCHANGED posted

\* PUT, PATCH and DELETE of the same documents: the status is read-only in the
\* serializer, and saved with the copy.
DocumentResources ==
    desk \in {"adjustment", "transfer"} /\ (Change(1, Unchanged) \/ Delete(1))

-----------------------------------------------------------------------------
(* Restaurant *)

\* _VALID_TRANSITIONS.
ValidTransitions == [draft     |-> {"active"},
                     active    |-> {"suspended", "closed"},
                     suspended |-> {"active", "closed"},
                     closed    |-> {}]

\* A status changed without a look at the one before.
SetAnyRestaurantStatus(to) ==
    /\ Locked(1, DOMAIN ValidTransitions, to)
    /\ UNCHANGED posted

SetRestaurantStatus(to) ==
    /\ Locked(1, {s \in DOMAIN ValidTransitions : to \in ValidTransitions[s]}, to)
    /\ UNCHANGED posted

Restaurants ==
    /\ desk = "restaurant"
    /\ \/ Screen(1, {"draft"}, Unchanged)
       \/ \E to \in {"active", "suspended", "closed"} : SetRestaurantStatus(to)

\* A form that makes its printer the default first takes the flag from all others, in
\* a bulk update; creation does the same before the insert.
TakeDefault(q, r) ==
    /\ request[q].step = "open" /\ request[q].at = r
    /\ LET others == {s \in Rows \ {r} : Live(s) /\ row[s].main} IN
        /\ row' = [s \in Rows |-> IF s \in others THEN [row[s] EXCEPT !.main = FALSE] ELSE row[s]]
        /\ overwritten' = overwritten \union others
    /\ request' = [request EXCEPT ![q].step = "taken"]
    /\ UNCHANGED <<desk, audited, ever, posted, crossed>>

\* The new printer's form, before anything is written.
Compose(q, r) ==
    /\ request[q] = Idle /\ ~row[r].here
    /\ \A p \in Requests : request[p] # Idle => request[p].at # r
    /\ request' = [request EXCEPT ![q] = [step |-> "open", at |-> r, copy |-> NoRow]]
    /\ UNCHANGED <<desk, row, audited, overwritten, ever, posted, crossed>>

SavePrinter(q, r) ==
    /\ request[q] # Idle /\ request[q].at = r
    /\ LET main == request[q].step = "taken" IN
        /\ SaveAll(q, r, [request[q].copy EXCEPT !.here = TRUE, !.status = "on", !.main = main])
        /\ crossed' = (crossed \/ (main /\ \E p \in Requests \ {q} : request[p].step = "taken"))

PrinterViews ==
    /\ desk = "printer"
    /\ \E r \in Rows :
        \/ \E q \in Requests : Compose(q, r) \/ Open(q, r) \/ TakeDefault(q, r) \/ SavePrinter(q, r)
        \/ Delete(r)

\* The screen refuses to delete a table its copy shows occupied, and saves the whole
\* copy; the services that seat and release lock the row.
Tables ==
    /\ desk = "table"
    /\ \/ Create(1, New("vacant"))
       \/ Locked(1, {"vacant"}, "occupied") /\ UNCHANGED posted
       \/ Locked(1, {"occupied"}, "vacant") /\ UNCHANGED posted
       \/ \E q \in Requests :
            \/ Open(q, 1)
            \/ /\ Opened(q, 1) /\ request[q].copy.status # "occupied"
               /\ SaveAll(q, 1, [request[q].copy EXCEPT !.deleted = TRUE])
               /\ UNCHANGED crossed

\* Floor plans write the columns of the position in bulk; the table's resource saves
\* its copy with any status.
TableResource ==
    /\ desk = "table"
    /\ Screen(1, {"vacant", "occupied"},
              LAMBDA copy : {[copy EXCEPT !.status = s] : s \in {"vacant", "occupied"}})

\* set_business_hours reads or creates the day's row and saves it whole.
BusinessHours == desk = "hours" /\ (Create(1, New("on")) \/ Change(1, OnOff))

\* Stations, counters, holidays and hours as plain resources.
RestaurantResources == desk = "hours" /\ Screen(1, {"on", "off"}, OnOff)

-----------------------------------------------------------------------------
Next ==
    \/ Departments \/ Designations \/ StaffResources \/ Shifts \/ WeeklyOffs
    \/ AttendanceLogs \/ Documents \/ LeaveForms \/ PayoutForms \/ LeaveDecision
    \/ ModifierGroups \/ Modifiers \/ ModifierToggle \/ NewCategory \/ ComboOffers \/ MenuResources
    \/ SupplierForms \/ SupplierResource \/ Warehouses
    \/ Adjustments \/ Transfers \/ DocumentResources
    \/ Restaurants \/ PrinterViews \/ Tables \/ TableResource
    \/ BusinessHours \/ RestaurantResources
    \/ \E q \in Requests : GiveUp(q)

Spec == Init /\ [][Next]_vars

-----------------------------------------------------------------------------
\* A row no stale copy was saved over is what its audit entries say, keeps its
\* deletion and its closing, and posted its document once; and there are two default
\* printers only if one became default between another form's two statements.
RecordsKeep ==
    /\ \A r \in Rows \ overwritten :
        /\ row[r] = audited[r]
        /\ <<r, "deleted">> \in ever => row[r].deleted
        /\ <<r, "closed">> \in ever => row[r].status = "closed"
        /\ posted[r] <= 1
    /\ Cardinality({r \in Rows : Live(r) /\ row[r].main}) > 1 => crossed
=============================================================================
