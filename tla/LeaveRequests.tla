----------------------------- MODULE LeaveRequests -----------------------------
(***************************************************************************)
(* Employees' leave of one year and type.  An approval locks the request,  *)
(* reads the balance without a lock and writes the sum back when its       *)
(* transaction ends.  The leave form sets any column, the status too.      *)
(***************************************************************************)
EXTENDS Integers, Sums

CONSTANTS
    Employees,
    Leaves,        \* requests for leave
    LengthsOfLeave,
    Approvers,     \* calls that approve
    MaxUsed        \* bound on the days charged

VARIABLES
    leave,         \* rows of LeaveRequest
    used,          \* LeaveBalance.used, NoBalance before the first approval
    approval,      \* the request and the balance each approver has read
    editedByHand,  \* employees whose requests the form has changed
    overlapped     \* employees two of whose approvals overlapped

leaveVars == <<leave, used, approval, editedByHand, overlapped>>

LeaveStatus == {"pending_manager", "pending_owner", "approved", "rejected"}
Undecided == {"pending_manager", "pending_owner"}
NoLeave == [status |-> "none"]
NoBalance == -1
NoApproval == [of |-> "none"]

Init ==
    /\ leave = [l \in Leaves |-> NoLeave]
    /\ used = [e \in Employees |-> NoBalance]
    /\ approval = [x \in Approvers |-> NoApproval]
    /\ editedByHand = {}
    /\ overlapped = {}

RequestLeave(l) ==
    /\ leave[l] = NoLeave
    /\ \E e \in Employees, n \in LengthsOfLeave :
          leave' = [leave EXCEPT ![l] = [employee |-> e, days |-> n, live |-> TRUE,
                                         status |-> "pending_manager"]]
    /\ UNCHANGED <<used, approval, editedByHand, overlapped>>

LeaveIsLocked(l) ==
    \E x \in Approvers : approval[x] # NoApproval /\ approval[x].of = l

ApprovalsOf(e) ==
    {x \in Approvers : approval[x] # NoApproval /\ leave[approval[x].of].employee = e}

Reachable(l) == leave[l] # NoLeave /\ leave[l].live /\ ~LeaveIsLocked(l)

(* A decision that does not look at the status.                            *)
OpenAgain(l) == Reachable(l)

(* SELECT FOR UPDATE; a request that was decided before is left alone.     *)
Open(l) == Reachable(l) /\ leave[l].status \in Undecided

(* A new balance row makes the next get_or_create wait for its commit.     *)
BeginApproval(x, l) ==
    LET e == leave[l].employee IN
    /\ approval[x] = NoApproval /\ Open(l)
    /\ used[e] = NoBalance => ApprovalsOf(e) = {}
    /\ approval' = [approval EXCEPT ![x] =
                      [of |-> l, balance |-> IF used[e] = NoBalance THEN 0 ELSE used[e]]]
    /\ overlapped' = IF ApprovalsOf(e) = {} THEN overlapped ELSE overlapped \union {e}
    /\ UNCHANGED <<leave, used, editedByHand>>

Approve(x) ==
    /\ approval[x] # NoApproval
    /\ LET l == approval[x].of IN
       /\ approval[x].balance + leave[l].days <= MaxUsed
       /\ leave' = [leave EXCEPT ![l].status = "approved"]
       /\ used' = [used EXCEPT ![leave[l].employee] = approval[x].balance + leave[l].days]
    /\ approval' = [approval EXCEPT ![x] = NoApproval]
    /\ UNCHANGED <<editedByHand, overlapped>>

Rollback(x) ==
    /\ approval[x] # NoApproval
    /\ approval' = [approval EXCEPT ![x] = NoApproval]
    /\ UNCHANGED <<leave, used, editedByHand, overlapped>>

Reject(l) ==
    /\ Open(l)
    /\ leave' = [leave EXCEPT ![l].status = "rejected"]
    /\ UNCHANGED <<used, approval, editedByHand, overlapped>>

(* The form writes the row as its user filled it in.                       *)
EditLeave(l) ==
    /\ Reachable(l)
    /\ \E s \in LeaveStatus, n \in LengthsOfLeave :
          leave' = [leave EXCEPT ![l].status = s, ![l].days = n]
    /\ editedByHand' = editedByHand \union {leave[l].employee}
    /\ UNCHANGED <<used, approval, overlapped>>

DeleteLeave(l) ==
    /\ Reachable(l)
    /\ leave' = [leave EXCEPT ![l].live = FALSE]
    /\ UNCHANGED <<used, approval, editedByHand, overlapped>>

Next ==
    \/ \E l \in Leaves : RequestLeave(l) \/ Reject(l) \/ EditLeave(l) \/ DeleteLeave(l)
    \/ \E x \in Approvers, l \in Leaves : BeginApproval(x, l)
    \/ \E x \in Approvers : Approve(x) \/ Rollback(x)

Spec == Init /\ [][Next]_leaveVars

ApprovedDays(e) ==
    SumOver([l \in Leaves |->
        IF leave[l] # NoLeave /\ leave[l].employee = e /\ leave[l].status = "approved"
        THEN leave[l].days ELSE 0])

(* Approved leave is charged to the balance once: never more than the      *)
(* requests say, and exactly that unless two approvals of one employee     *)
(* overlapped, of which the second wipes out the charge of the first.      *)
LeaveIsChargedOnce ==
    \A e \in Employees \ editedByHand :
        LET charged == IF used[e] = NoBalance THEN 0 ELSE used[e] IN
        /\ charged <= ApprovedDays(e)
        /\ e \notin overlapped => charged = ApprovedDays(e)
=============================================================================
