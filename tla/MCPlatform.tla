----------------------------- MODULE MCPlatform -----------------------------
(* The services every part of the platform leans on: document numbers, the   *)
(* binding of tenants, cached permissions and settings, notifications, the   *)
(* records of customers and staff, reports, the rows that only screens       *)
(* change, and stock records.  They share no state, so a behaviour is one of *)
(* one of them, and what is checked holds of all together.                   *)
EXTENDS Numbering

CONSTANTS
    Roles, Requests, MaxVersion, MaxEdits,
    Readers, Editors, Values,
    Tenants, NoTenant, MaxDepth,
    MaxNotes, Workers, Sweepers, MaxRetries, MaxMessages, MaxAccepted,
    Customers, Calls, Keys, NoKey, Amounts, Limits, PerCustomer, Thresholds, MaxPosted,
    Employees, Leaves, LengthsOfLeave, Approvers, MaxUsed, Periods, StaffCalls, MaxRows,
    Tabs,
    StockRows, NoStockRow, Hands, Quantities, Costs, Floors, MaxBegun,
    Bills, Items, Sold, Cashier, Category, Cost, Methods, Tender, Discounts, AnyMethod,
    LastDay, PeriodOf, MaxPayments

VARIABLES
    part,
    member, version, entry, request, edit, edits,
    setting, cached, reader, editor, settingEdits,
    process, bound, bypass, guc, broken, aborted, raising, blocks,
    note, owed, queue, worker, listed, bulk, accepted, lost, sentAgain,
    customer, ledger, coupon, redemptions, posted, call, form, postings, overwritten,
    leave, used, approval, editedByHand, overlapped,
    onPayroll, attendance, payouts, staffCall, addedByHand, doubled,
    today, bill, item, payments, invoice,
    desk, row, audited, opened, savedOver, ever, moved, crossed,
    record, lot, linked, order, hand, begun, sums, costs, asked, recopied, loose

Access  == INSTANCE Authorization
Config  == INSTANCE Settings WITH edits <- settingEdits
Binding == INSTANCE Tenancy
Notices == INSTANCE Notifications WITH doubled <- sentAgain
Club    == INSTANCE Customers
Leaving == INSTANCE LeaveRequests
Staff   == INSTANCE StaffRecords
Desk    == INSTANCE Records WITH
    Requests <- Tabs, request <- opened, overwritten <- savedOver, posted <- moved
Shelf   == INSTANCE StockItems WITH savedOver <- recopied

Books   == INSTANCE Reports WITH MaxDay <- LastDay

\* For the run: two orders of one item each, taxed tea at a discount and untaxed
\* salt, in two weeks of one month.
TwoSales == <<[product |-> "tea", amount |-> 4, rate |-> 50],
              [product |-> "salt", amount |-> 2, rate |-> 0]>>
TwoCashiers == <<"ann", "bob">>
TwoCategories == [tea |-> "Drinks", salt |-> "Other"]
OneEach == [tea |-> 1, salt |-> 1]
TwoTenders == <<{"cash"}, {"upi"}>>
HalfOffTea == <<{50}, {}>>
TwoWeeks == [period \in {"week", "month", "year"} |->
               [d \in 1..2 |-> IF period = "week" THEN d ELSE 1]]

ASSUME Access!AuthorizationAssumption

\* Amounts, points, days, quantities and costs are counted up from nothing.
ASSUME PlatformAssumption ==
    /\ IsFiniteSet(Customers) /\ "coupon" \notin Customers
    /\ Amounts \subseteq Nat /\ PerCustomer \in Nat
    /\ IsFiniteSet(Leaves) /\ LengthsOfLeave \subseteq Nat
    /\ MaxRetries \in Nat
    /\ Quantities \subseteq Nat /\ Costs \subseteq Nat

\* Lines cost something or nothing, a discount takes off a percentage, and what is
\* numbered is numbered from one.
ASSUME BooksAssumption ==
    /\ IsFiniteSet(Bills) /\ Bills \subseteq Nat \ {0}
    /\ IsFiniteSet(Items) /\ IsFiniteSet(Methods)
    /\ \A i \in Items : Sold[i].amount \in Nat /\ Sold[i].rate \in Nat
    /\ \A o \in Bills : Tender[o] \subseteq Methods /\ Discounts[o] \subseteq 0..100
    /\ LastDay \in Nat \ {0}

accessVars  == <<member, version, entry, request, edit, edits>>
configVars  == <<setting, cached, reader, editor, settingEdits>>
bindingVars == <<process, bound, bypass, guc, broken, aborted, raising, blocks>>
noticeVars  == <<note, owed, queue, worker, listed, bulk, accepted, lost, sentAgain>>
clubVars    == <<customer, ledger, coupon, redemptions, posted, call, form, postings,
                 overwritten>>
leavingVars == <<leave, used, approval, editedByHand, overlapped>>
recordVars  == <<onPayroll, attendance, payouts, staffCall, addedByHand, doubled>>
bookVars    == <<today, bill, item, payments, invoice>>
deskVars    == <<desk, row, audited, opened, savedOver, ever, moved, crossed>>
shelfVars   == <<record, lot, linked, order, hand, begun, sums, costs, asked, recopied, loose>>
countVars   == <<scope, day, lastNumber, issuer, issued, legacy>>

Parts == {"access", "config", "binding", "notices", "club", "leaving", "records", "books",
          "desk", "shelf", "numbers"}

PlatformInit ==
    /\ part \in Parts
    /\ Init /\ (part # "numbers" => scope = "order")
    /\ Access!Init /\ Notices!Init /\ Leaving!Init /\ Staff!Init /\ Books!Init
    /\ Desk!Init /\ (part # "desk" => desk = "staff")
    /\ Shelf!Init /\ (part # "shelf" => linked = NoStockRow)
    /\ Config!Init /\ (part # "config" => setting["host"]["a"] = CHOOSE v \in Values : TRUE)
    /\ Binding!Init /\ (part # "binding" => process = "web")
    /\ Club!Init /\ (part # "club" => \A n \in Limits : coupon.max <= n)

PlatformNext ==
    \/ /\ part = "access" /\ Access!Next
       /\ UNCHANGED <<part, configVars, bindingVars, noticeVars, clubVars, leavingVars,
                      recordVars, bookVars, deskVars, shelfVars, countVars>>
    \/ /\ part = "config" /\ Config!Next
       /\ UNCHANGED <<part, accessVars, bindingVars, noticeVars, clubVars, leavingVars,
                      recordVars, bookVars, deskVars, shelfVars, countVars>>
    \/ /\ part = "binding" /\ Binding!Next
       /\ UNCHANGED <<part, accessVars, configVars, noticeVars, clubVars, leavingVars,
                      recordVars, bookVars, deskVars, shelfVars, countVars>>
    \/ /\ part = "notices" /\ Notices!Next
       /\ UNCHANGED <<part, accessVars, configVars, bindingVars, clubVars, leavingVars,
                      recordVars, bookVars, deskVars, shelfVars, countVars>>
    \/ /\ part = "club" /\ Club!Next
       /\ UNCHANGED <<part, accessVars, configVars, bindingVars, noticeVars, leavingVars,
                      recordVars, bookVars, deskVars, shelfVars, countVars>>
    \/ /\ part = "leaving" /\ Leaving!Next
       /\ UNCHANGED <<part, accessVars, configVars, bindingVars, noticeVars, clubVars,
                      recordVars, bookVars, deskVars, shelfVars, countVars>>
    \/ /\ part = "records" /\ Staff!Next
       /\ UNCHANGED <<part, accessVars, configVars, bindingVars, noticeVars, clubVars,
                      leavingVars, bookVars, deskVars, shelfVars, countVars>>
    \/ /\ part = "books" /\ Books!Next
       /\ UNCHANGED <<part, accessVars, configVars, bindingVars, noticeVars, clubVars,
                      leavingVars, recordVars, deskVars, shelfVars, countVars>>
    \/ /\ part = "desk" /\ Desk!Next
       /\ UNCHANGED <<part, accessVars, configVars, bindingVars, noticeVars, clubVars,
                      leavingVars, recordVars, bookVars, shelfVars, countVars>>
    \/ /\ part = "shelf" /\ Shelf!Next
       /\ UNCHANGED <<part, accessVars, configVars, bindingVars, noticeVars, clubVars,
                      leavingVars, recordVars, bookVars, deskVars, countVars>>
    \/ /\ part = "numbers" /\ Next
       /\ UNCHANGED <<part, accessVars, configVars, bindingVars, noticeVars, clubVars,
                      leavingVars, recordVars, bookVars, deskVars, shelfVars>>

PlatformSpec ==
    PlatformInit /\ [][PlatformNext]_<<part, accessVars, configVars, bindingVars, noticeVars,
                                       clubVars, leavingVars, recordVars, bookVars, deskVars,
                                       shelfVars, countVars>>

\* Once nobody changes memberships or settings any more, no cached decision or
\* setting stays out of date: entries expire, whatever requests store late and
\* whichever writer forgets the cache or dies (authorization.py, tenants and
\* features services).
CachesCatchUp ==
    /\ part = "access" /\ Access!Fairness => Access!ChangesTakeHold
    /\ part = "config" /\ Config!Fairness => Config!SettledIsServed

\* Work for a tenant touches that tenant's rows only, through nested scopes,
\* rollbacks, lost connections and exceptions (shared/tenancy).
OwnRowsOnly == Binding!OwnRowsOnly

\* A notification goes out once unless somebody sent it again or a send failed
\* half-way, and only a crash or the last retry leaves it on its way for ever
\* (send_notification_task, process_scheduled_notifications).
SentAndOnce == Notices!SentOnce /\ Notices!NoneForgotten

\* Points, wallet, credit and coupon counts follow their ledgers (customers
\* services and their idempotency keys).
CountersFollowRows == Club!CountersFollowRows

\* Leave is charged, attendance opened and salary paid once, unless two calls
\* for one employee overlap or a form steps in (employees services).
StaffBookedOnce == Leaving!LeaveIsChargedOnce /\ Staff!CreatedOnce

\* Report pages, exports and API agree on revenue, rows add up to the figures
\* above them, and tax and money are counted once (reporting views and services).
BooksAgree == part = "books" => Books!BooksAgree

\* Rows that only screens and REST resources look after keep their audit trail,
\* their deletion, their closing and their posting, whatever happens to rows that a
\* stale copy is saved over (shared models, views of six contexts).
RecordsKeep == Desk!RecordsKeep /\ Shelf!RecordsAgree
=============================================================================
