------------------------------ MODULE StaffRecords ------------------------------
(***************************************************************************)
(* Attendance rows of a day and salary payouts of a period.  Clocking in   *)
(* and running the payroll look for a row and create it when they find     *)
(* none, with no lock and no constraint behind them.                       *)
(***************************************************************************)
EXTENDS Integers, Sequences, FiniteSets

CONSTANTS
    Employees,
    Periods,       \* pay periods
    StaffCalls,    \* calls that clock in or run the payroll
    MaxRows        \* bound on the rows of one employee and day or period

VARIABLES
    onPayroll,     \* employees whose status is active
    attendance,    \* stamps of each attendance row of the day, by employee
    payouts,       \* number of SalaryPayout rows, by employee and period
    staffCall,     \* the call each request is in
    addedByHand,   \* employees for whom a form has added a row
    doubled        \* employees two calls of a kind had in hand at once

staffVars == <<onPayroll, attendance, payouts, staffCall, addedByHand, doubled>>

NoCall == [kind |-> "none", staff |-> {}]
Stamps == {"check_in", "check_out", "break_start", "break_end"}

Init ==
    /\ onPayroll = Employees
    /\ attendance = [e \in Employees |-> <<>>]
    /\ payouts = [e \in Employees |-> [p \in Periods |-> 0]]
    /\ staffCall = [x \in StaffCalls |-> NoCall]
    /\ addedByHand = {}
    /\ doubled = {}

InHand(kind) ==
    UNION {staffCall[y].staff : y \in {z \in StaffCalls : staffCall[z].kind = kind}}

Begin(x, call) ==
    /\ staffCall[x] = NoCall
    /\ staffCall' = [staffCall EXCEPT ![x] = call]
    /\ doubled' = doubled \union (call.staff \intersect InHand(call.kind))

End(x) == staffCall' = [staffCall EXCEPT ![x] = NoCall]

(* An error rolls everything back.                                         *)
Fail(x) ==
    /\ staffCall[x] # NoCall
    /\ End(x)
    /\ UNCHANGED <<onPayroll, attendance, payouts, addedByHand, doubled>>

---------------------------------------------------------------------------
(* clock_in answers with the row of the day when it finds one.             *)
LookUpDay(x, e) ==
    /\ attendance[e] = <<>>
    /\ Begin(x, [kind |-> "clock_in", staff |-> {e}])
    /\ UNCHANGED <<onPayroll, attendance, payouts, addedByHand>>

NewRow(e) ==
    /\ Len(attendance[e]) < MaxRows
    /\ attendance' = [attendance EXCEPT ![e] = Append(@, {"check_in"})]

ClockIn(x) ==
    /\ staffCall[x].kind = "clock_in"
    /\ \E e \in staffCall[x].staff : NewRow(e)
    /\ End(x)
    /\ UNCHANGED <<onPayroll, payouts, addedByHand, doubled>>

(* clock_out, start_break and end_break lock the row and stamp it once.    *)
Stamp(e, i) ==
    /\ \E stamp \in Stamps \ attendance[e][i] :
          /\ stamp = "break_end" => "break_start" \in attendance[e][i]
          /\ attendance' = [attendance EXCEPT ![e][i] = @ \union {stamp}]
    /\ UNCHANGED <<onPayroll, payouts, staffCall, addedByHand, doubled>>

AddAttendance(e) ==
    /\ NewRow(e)
    /\ addedByHand' = addedByHand \union {e}
    /\ UNCHANGED <<onPayroll, payouts, staffCall, doubled>>

---------------------------------------------------------------------------
(* run_payroll goes through the active employees its query found.          *)
StartPayroll(x, p) ==
    /\ Begin(x, [kind |-> "payroll", staff |-> onPayroll, period |-> p,
                 todo |-> onPayroll, made |-> {}])
    /\ UNCHANGED <<onPayroll, attendance, payouts, addedByHand>>

(* A payroll run that makes a payout whatever there is.                    *)
HasNoPayoutYet(e, p) == FALSE

HasPayout(e, p) == payouts[e][p] > 0

(* "Prevent duplicate payout records for the same period"                  *)
PayEmployee(x) ==
    /\ staffCall[x].kind = "payroll"
    /\ \E e \in staffCall[x].todo :
          staffCall' = [staffCall EXCEPT
             ![x].todo = @ \ {e},
             ![x].made = IF HasPayout(e, staffCall[x].period) THEN @ ELSE @ \union {e}]
    /\ UNCHANGED <<onPayroll, attendance, payouts, addedByHand, doubled>>

FinishPayroll(x) ==
    /\ staffCall[x].kind = "payroll" /\ staffCall[x].todo = {}
    /\ \A e \in staffCall[x].made : payouts[e][staffCall[x].period] < MaxRows
    /\ payouts' = [e \in Employees |-> [p \in Periods |->
          payouts[e][p] + IF e \in staffCall[x].made /\ p = staffCall[x].period THEN 1 ELSE 0]]
    /\ End(x)
    /\ UNCHANGED <<onPayroll, attendance, addedByHand, doubled>>

AddPayout(e, p) ==
    /\ payouts[e][p] < MaxRows
    /\ payouts' = [payouts EXCEPT ![e][p] = @ + 1]
    /\ addedByHand' = addedByHand \union {e}
    /\ UNCHANGED <<onPayroll, attendance, staffCall, doubled>>

DeletePayout(e, p) ==
    /\ HasPayout(e, p)
    /\ payouts' = [payouts EXCEPT ![e][p] = @ - 1]
    /\ UNCHANGED <<onPayroll, attendance, staffCall, addedByHand, doubled>>

(* The employee form sets the status.                                      *)
EditEmployee(e) ==
    /\ \E s \in SUBSET {e} : onPayroll' = (onPayroll \ {e}) \union s
    /\ UNCHANGED <<attendance, payouts, staffCall, addedByHand, doubled>>

Next ==
    \/ \E x \in StaffCalls :
          \/ \E e \in Employees : LookUpDay(x, e)
          \/ \E p \in Periods : StartPayroll(x, p)
          \/ ClockIn(x) \/ PayEmployee(x) \/ FinishPayroll(x) \/ Fail(x)
    \/ \E e \in Employees :
          \/ \E i \in DOMAIN attendance[e] : Stamp(e, i)
          \/ AddAttendance(e) \/ EditEmployee(e)
          \/ \E p \in Periods : AddPayout(e, p) \/ DeletePayout(e, p)

Spec == Init /\ [][Next]_staffVars

---------------------------------------------------------------------------
(* One attendance row a day and one payout a period, however often the     *)
(* services are repeated, as long as no two calls of a kind overlap and    *)
(* nobody adds rows by hand.                                               *)
CreatedOnce ==
    \A e \in Employees \ (addedByHand \union doubled) :
        Len(attendance[e]) <= 1 /\ \A p \in Periods : payouts[e][p] <= 1
=============================================================================
