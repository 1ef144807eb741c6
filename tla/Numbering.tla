------------------------------- MODULE Numbering -------------------------------
(***************************************************************************)
(* Numbers from a counter row per day (orders, kitchen tickets, invoices)  *)
(* or month (inventory documents).  The row stays locked, and its new      *)
(* value unseen, until the transaction that took the number ends.          *)
(* Invoices retry on numbers that older software has already issued.       *)
(***************************************************************************)
EXTENDS Integers, FiniteSets

CONSTANTS
    Issuers,         \* transactions that take a number
    MaxDay,          \* bound on the days (or months)
    MaxNumber,       \* bound on the numbers of a day
    MaxAttempts      \* _MAX_NUMBER_ATTEMPTS

ASSUME NumberingAssumption ==
    /\ MaxDay \in Nat \ {0}
    /\ MaxNumber \in Nat
    /\ MaxAttempts \in Nat

VARIABLES
    scope,           \* whether the documents are invoices, with a unique number
    day,
    lastNumber,      \* committed value of each day's counter row
    issuer,          \* the day, value and number each transaction holds
    issued,          \* how many committed documents carry a number of a day
    legacy           \* numbers issued by older counters

numberVars == <<scope, day, lastNumber, issuer, issued, legacy>>

Days == 1..MaxDay
Numbers == 1..MaxNumber
Out == [at |-> "out"]

Init ==
    /\ scope \in {"order", "invoice"}
    /\ day = 1
    /\ lastNumber = [d \in Days |-> 0]
    /\ issuer = [x \in Issuers |-> Out]
    /\ issued = [d \in Days |-> [n \in Numbers |-> 0]]
    /\ legacy \in IF scope = "invoice" THEN SUBSET (Days \X {1, 2}) ELSE {{}}

Midnight ==
    /\ day < MaxDay
    /\ day' = day + 1
    /\ UNCHANGED <<scope, lastNumber, issuer, issued, legacy>>

(* The caller fixes the date, then comes to the counter.                   *)
Arrive(x) ==
    /\ issuer[x] = Out
    /\ issuer' = [issuer EXCEPT ![x] = [at |-> "arrived", on |-> day]]
    /\ UNCHANGED <<scope, day, lastNumber, issued, legacy>>

Holds(x, d) == issuer[x].at \in {"locked", "numbered"} /\ issuer[x].on = d
(* No lock: the counter is read by whoever comes.                          *)
RowIsRead(d) == TRUE

RowIsFree(d) == \A y \in Issuers : ~Holds(y, d)

(* get_or_create, then SELECT FOR UPDATE: waits for the holder's end, also *)
(* when the row is new and not yet committed.                              *)
LockCounter(x) ==
    /\ issuer[x].at = "arrived"
    /\ RowIsFree(issuer[x].on)
    /\ issuer' = [issuer EXCEPT ![x] =
                    [at |-> "locked", on |-> issuer[x].on,
                     value |-> lastNumber[issuer[x].on], attempts |-> 0]]
    /\ UNCHANGED <<scope, day, lastNumber, issued, legacy>>

Taken(d, n) == scope = "invoice" /\ (<<d, n>> \in legacy \/ issued[d][n] > 0)

(* Advance the counter; a taken number is refused by the constraint and    *)
(* the savepoint, and the next one is tried.                               *)
NextNumber(x) ==
    /\ issuer[x].at = "locked" /\ issuer[x].attempts < MaxAttempts
    /\ issuer[x].value < MaxNumber
    /\ LET n == issuer[x].value + 1 IN
       issuer' = [issuer EXCEPT ![x] =
                    [at |-> IF Taken(issuer[x].on, n) THEN "locked" ELSE "numbered",
                     on |-> issuer[x].on, value |-> n, attempts |-> issuer[x].attempts + 1]]
    /\ UNCHANGED <<scope, day, lastNumber, issued, legacy>>

Commit(x) ==
    /\ issuer[x].at = "numbered"
    /\ lastNumber' = [lastNumber EXCEPT ![issuer[x].on] = issuer[x].value]
    /\ issued' = [issued EXCEPT ![issuer[x].on][issuer[x].value] = @ + 1]
    /\ issuer' = [issuer EXCEPT ![x] = Out]
    /\ UNCHANGED <<scope, day, legacy>>

(* Any error of the caller, and running out of attempts.                   *)
Rollback(x) ==
    /\ issuer[x].at \in {"locked", "numbered"}
    /\ issuer' = [issuer EXCEPT ![x] = Out]
    /\ UNCHANGED <<scope, day, lastNumber, issued, legacy>>

Next ==
    \/ Midnight
    \/ \E x \in Issuers : Arrive(x) \/ LockCounter(x) \/ NextNumber(x) \/ Commit(x) \/ Rollback(x)

Spec == Init /\ [][Next]_numberVars

(* "The lock serialises concurrent callers so numbers are gapless and      *)
(* unique" (numbering.py): every number up to the counter belongs to one   *)
(* document, or to one of the older software, whoever rolls back and       *)
(* whatever the date a waiting caller had fixed.                           *)
GaplessAndUnique ==
    \A d \in Days, n \in Numbers :
        LET copies == issued[d][n] + (IF <<d, n>> \in legacy THEN 1 ELSE 0) IN
        /\ copies <= 1
        /\ n <= lastNumber[d] => copies = 1
=============================================================================
