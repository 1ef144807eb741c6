------------------------------- MODULE PrintJobs -------------------------------
(***************************************************************************)
(* The print jobs of one sale.  The checkout creates them inside its       *)
(* transaction and sends the receipt to the print service from there; a    *)
(* cashier prints again, a member of staff retries a job from the queue    *)
(* and a task goes through the jobs that wait.  The print service is       *)
(* external: it prints or refuses, and its answer may be lost (time-out).  *)
(***************************************************************************)
EXTENDS Integers, FiniteSets

CONSTANTS
    JobTypes,        \* "customer", "kot", and "restaurant", which nothing but the queue prints
    Printers,        \* requests and task runs that print at the same time
    MaxRetries,      \* the 5 of execute_print_job
    MaxSends         \* bound on what is sent to the print service

VARIABLES
    sale,            \* the order: open, settling (uncommitted) or settled
    job,             \* rows of PrintJob, by type
    draft,           \* the rows in the checkout's transaction, {} outside it
    printer,         \* what each request or task holds: a job and its row as read
    queue,           \* jobs the task has listed, with their rows
    paper,           \* jobs that came out of a printer
    sends            \* number of requests to the print service, for MaxSends

printVars == <<sale, job, draft, printer, queue, paper, sends>>

NewJob == [status |-> "pending", retries |-> 0]
NoJob == [status |-> "none", retries |-> 0]
Resting == [at |-> "rest"]

Exists(j) == job[j] # NoJob

Init ==
    /\ sale = "open"
    /\ job = [j \in JobTypes |-> NoJob]
    /\ draft = {}
    /\ printer = [p \in Printers |-> Resting]
    /\ queue = {}
    /\ paper = {}
    /\ sends = 0

(* A POST to the print service: what came out, and whether it answered yes. *)
Send(j, answered) ==
    /\ sends < MaxSends
    /\ sends' = sends + 1
    /\ \/ paper' = paper \union {j}
       \/ ~answered /\ UNCHANGED paper

(* The checkout: one transaction under the order's lock, dispatch included. *)
Settle ==
    /\ sale = "open"
    /\ sale' = "settling"
    /\ draft' = [j \in JobTypes |-> IF Exists(j) THEN job[j] ELSE NewJob]
    /\ UNCHANGED <<job, printer, queue, paper, sends>>

(* A dispatch that does not look at the answer.                            *)
WithReceiptPrinted(rows, answered) == [rows EXCEPT !["customer"].status = "printed"]

WithReceipt(rows, answered) ==
    [rows EXCEPT !["customer"].status = IF answered THEN "printed" ELSE "failed"]

DispatchInCheckout(answered) ==
    /\ sale = "settling"
    /\ Send("customer", answered)
    /\ draft' = WithReceipt(draft, answered)
    /\ sale' = "dispatched"
    /\ UNCHANGED <<job, printer, queue>>

(* No printer is configured, or automatic printing is off.                 *)
SkipDispatch ==
    /\ sale = "settling"
    /\ sale' = "dispatched"
    /\ UNCHANGED <<job, draft, printer, queue, paper, sends>>

Commit ==
    /\ sale = "dispatched"
    /\ sale' = "settled"
    /\ job' = draft
    /\ draft' = {}
    /\ UNCHANGED <<printer, queue, paper, sends>>

(* The process dies, or the database refuses the commit.                   *)
Abort ==
    /\ sale \in {"settling", "dispatched"}
    /\ sale' = "open"
    /\ draft' = {}
    /\ UNCHANGED <<job, printer, queue, paper, sends>>

(* The cashier's reprint of a settled order's receipt.                     *)
Reprint(answered) ==
    /\ sale = "settled"
    /\ Send("customer", answered)
    /\ job' = WithReceipt(job, answered)
    /\ UNCHANGED <<sale, draft, printer, queue>>

(* The print button of a kitchen ticket: before any checkout it creates    *)
(* the ticket's job.                                                       *)
PrintTicket(p) ==
    /\ sale \in {"open", "settled"} /\ printer[p] = Resting
    /\ LET row == IF Exists("kot") THEN job["kot"] ELSE NewJob IN
       /\ job' = [job EXCEPT !["kot"] = row]
       /\ printer' = [printer EXCEPT ![p] = [at |-> "begin", job |-> "kot", row |-> row]]
    /\ UNCHANGED <<sale, draft, queue, paper, sends>>

(* The queue's screen: reprint now, or set back to pending.                *)
ManualReprint(p, j) ==
    /\ Exists(j) /\ printer[p] = Resting
    /\ job' = [job EXCEPT ![j] = NewJob]
    /\ printer' = [printer EXCEPT ![p] = [at |-> "begin", job |-> j, row |-> NewJob]]
    /\ UNCHANGED <<sale, draft, queue, paper, sends>>

Retry(j) ==
    /\ Exists(j)
    /\ job' = [job EXCEPT ![j] = NewJob]
    /\ UNCHANGED <<sale, draft, printer, queue, paper, sends>>

(* The task lists before it binds a tenant: it sees no row, unless its     *)
(* worker still carries the tenant of an earlier task (module Tenancy).    *)
ListWaiting(bound) ==
    /\ queue = {}
    /\ bound
    /\ queue' = {[job |-> j, row |-> job[j]] : j \in {k \in JobTypes : job[k].status \in {"retrying", "pending"}}}
    /\ UNCHANGED <<sale, job, draft, printer, paper, sends>>

TakeNext(p) ==
    /\ printer[p] = Resting
    /\ \E e \in queue :
         /\ queue' = queue \ {e}
         /\ printer' = [printer EXCEPT ![p] = [at |-> "begin", job |-> e.job, row |-> e.row]]
    /\ UNCHANGED <<sale, job, draft, paper, sends>>

(* execute_print_job works on the row it was given.                        *)
SkipPrinted(p) ==
    /\ printer[p].at = "begin" /\ printer[p].row.status = "printed"
    /\ printer' = [printer EXCEPT ![p] = Resting]
    /\ UNCHANGED <<sale, job, draft, queue, paper, sends>>

MarkPrinting(p) ==
    /\ printer[p].at = "begin" /\ printer[p].row.status # "printed"
    /\ job' = [job EXCEPT ![printer[p].job].status = "printing"]
    /\ printer' = [printer EXCEPT ![p].at = "send"]
    /\ UNCHANGED <<sale, draft, queue, paper, sends>>

SendJob(p, answered) ==
    /\ printer[p].at = "send"
    /\ Send(printer[p].job, answered)
    /\ printer' = [printer EXCEPT ![p].at = IF answered THEN "sent" ELSE "refused"]
    /\ UNCHANGED <<sale, job, draft, queue>>

NoPrinter(p) ==
    /\ printer[p].at = "send"
    /\ printer' = [printer EXCEPT ![p].at = "refused"]
    /\ UNCHANGED <<sale, job, draft, queue, paper, sends>>

StorePrinted(p) ==
    /\ printer[p].at = "sent"
    /\ job' = [job EXCEPT ![printer[p].job].status = "printed"]
    /\ printer' = [printer EXCEPT ![p] = Resting]
    /\ UNCHANGED <<sale, draft, queue, paper, sends>>

StoreRefused(p) ==
    /\ printer[p].at = "refused"
    /\ LET tried == printer[p].row.retries IN
       job' = [job EXCEPT ![printer[p].job] =
                 IF tried + 1 < MaxRetries
                 THEN [status |-> "retrying", retries |-> tried + 1]
                 ELSE [status |-> "failed", retries |-> MaxRetries]]
    /\ printer' = [printer EXCEPT ![p] = Resting]
    /\ UNCHANGED <<sale, draft, queue, paper, sends>>

(* The worker dies in between: the row stays as it was last saved.         *)
Die(p) ==
    /\ printer[p] # Resting
    /\ printer' = [printer EXCEPT ![p] = Resting]
    /\ UNCHANGED <<sale, job, draft, queue, paper, sends>>

Next ==
    \/ Settle \/ SkipDispatch \/ Commit \/ Abort
    \/ \E answered \in BOOLEAN : DispatchInCheckout(answered) \/ Reprint(answered)
    \/ \E bound \in BOOLEAN : ListWaiting(bound)
    \/ \E j \in JobTypes : Retry(j)
    \/ \E p \in Printers :
          \/ PrintTicket(p) \/ TakeNext(p) \/ SkipPrinted(p) \/ MarkPrinting(p) \/ NoPrinter(p)
          \/ StorePrinted(p) \/ StoreRefused(p) \/ Die(p)
          \/ \E j \in JobTypes : ManualReprint(p, j)
          \/ \E answered \in BOOLEAN : SendJob(p, answered)

Spec == Init /\ [][Next]_printVars

(* The queue's screen tells the truth when it says printed: the job came   *)
(* out of a printer, although rows are saved from stale copies, answers    *)
(* are lost, workers die and transactions are rolled back.                 *)
PrintedIsOnPaper == \A j \in JobTypes : job[j].status = "printed" => j \in paper

(* Dispatch follows the commit: a receipt on paper belongs to a sale that  *)
(* is in the database (docstring of _dispatch_print_after_commit).         *)
ReceiptFollowsCommit == "customer" \in paper => sale = "settled"
=============================================================================
