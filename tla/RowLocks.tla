------------------------------- MODULE RowLocks -------------------------------
(***************************************************************************)
(* In which order the services lock rows.  A transaction keeps every row   *)
(* it has locked until it ends, waits for a row another one holds, and is  *)
(* aborted by PostgreSQL when it waits in a circle.  Rows that only one    *)
(* document's transactions lock, before all others, are left out.          *)
(***************************************************************************)
EXTENDS Integers, FiniteSets, Sequences, SequencesExt

CONSTANTS
    Transactions,
    OrderIds, TableIds, ItemIds

VARIABLES
    service,         \* the service each transaction runs
    wants,           \* rows it has yet to lock, in order
    holds            \* rows it has locked

lockVars == <<service, wants, holds>>

Init ==
    /\ service = [x \in Transactions |-> "none"]
    /\ wants = [x \in Transactions |-> <<>>]
    /\ holds = [x \in Transactions |-> {}]

(* The rows as each service comes to them: a table and an id.              *)
Rows(of, ids) == {<<of, id>> : id \in ids}
Counter == <<"counter", 1>>
Several(of, ids) == {Rows(of, ss) : ss \in (SUBSET ids) \ {{}}}

InAnyOrder(rows) == SetToSeqs(rows)
InIdOrder(rows) == {s \in SetToSeqs(rows) : \A i, j \in DOMAIN s : i < j => s[i][2] < s[j][2]}
After(first, sequences) == {first \o s : s \in sequences}
ItemsInIdOrder == UNION {InIdOrder(rows) : rows \in Several("item", ItemIds)}
ItemsAsTheyCome == UNION {InAnyOrder(rows) : rows \in Several("item", ItemIds)}

PayLocks      == {<<o>> : o \in Rows("order", OrderIds)}
MergeLocks    == {s \in UNION {InAnyOrder(os) : os \in Several("order", OrderIds)} : Len(s) > 1}
(* A checkout that numbers its invoice last.                               *)
CheckoutLocksLines ==
    UNION {After(<<o>>, {Append(s, Counter) : s \in ItemsAsTheyCome}) : o \in Rows("order", OrderIds)}
CheckoutLocks == UNION {After(<<o, Counter>>, ItemsAsTheyCome) : o \in Rows("order", OrderIds)}
RefundLocks   == UNION {After(<<o>>, ItemsAsTheyCome) : o \in Rows("order", OrderIds)}
AdjustLocks   == ItemsInIdOrder
DispatchLocks == ItemsInIdOrder
ReceiveLocks  == ItemsAsTheyCome
TableLocks    == {s \in UNION {InAnyOrder(ts) : ts \in Several("table", TableIds)} : Len(s) > 1}

Locks == [pay |-> PayLocks, merge |-> MergeLocks, checkout |-> CheckoutLocks,
          refund |-> RefundLocks, adjust |-> AdjustLocks, dispatch |-> DispatchLocks,
          receive |-> ReceiveLocks, tables |-> TableLocks]

Begin(x, s) ==
    /\ service[x] = "none"
    /\ service' = [service EXCEPT ![x] = s]
    /\ \E rows \in Locks[s] : wants' = [wants EXCEPT ![x] = rows]
    /\ UNCHANGED holds

WaitsFor(x, y) == x # y /\ wants[x] # <<>> /\ Head(wants[x]) \in holds[y]

Lock(x) ==
    /\ wants[x] # <<>>
    /\ \A y \in Transactions : ~WaitsFor(x, y)
    /\ holds' = [holds EXCEPT ![x] = @ \union {Head(wants[x])}]
    /\ wants' = [wants EXCEPT ![x] = Tail(@)]
    /\ UNCHANGED service

End(x) ==
    /\ service' = [service EXCEPT ![x] = "none"]
    /\ wants' = [wants EXCEPT ![x] = <<>>]
    /\ holds' = [holds EXCEPT ![x] = {}]

Finish(x) == service[x] # "none" /\ wants[x] = <<>> /\ End(x)

Circular(xs) == xs # {} /\ \A x \in xs : \E y \in xs : WaitsFor(x, y)

(* The deadlock detector of the database picks a victim.                   *)
AbortVictim(x) == (\E xs \in SUBSET Transactions : x \in xs /\ Circular(xs)) /\ End(x)

Next ==
    \E x \in Transactions :
        \/ \E s \in DOMAIN Locks : Begin(x, s)
        \/ Lock(x) \/ Finish(x) \/ AbortVictim(x)

Spec == Init /\ [][Next]_lockVars

(* Payments, dispatches and adjustments never wait in a circle, as lines   *)
(* are locked in the order of their records' ids; nor do payments and      *)
(* checkouts, although a checkout takes its lines as they come, because    *)
(* each holds the day's invoice counter by then.                           *)
OrderedNeverCircle ==
    \A xs \in SUBSET Transactions :
        LET running == {service[x] : x \in xs} IN
        (running \subseteq {"pay", "adjust", "dispatch"} \/ running \subseteq {"pay", "checkout"})
            => ~Circular(xs)
=============================================================================
