--------------------------- MODULE OrderLifecycle ---------------------------
(***************************************************************************)
(* What the ordering context promises about an order and its tax invoice,  *)
(* taken together (OrderStages): an order is opened, ends either invoiced   *)
(* or cancelled, and what was invoiced can only be written off or refunded. *)
(* Nothing is ever reopened.  Orders and OrderApi implement this.           *)
(***************************************************************************)
CONSTANT OrderIds

VARIABLE life       \* the stage of each order

\* Observation may begin when some orders are already open.
Init == life \in [OrderIds -> {"absent", "open"}]

Becomes(o, stage) == life' = [life EXCEPT ![o] = stage]

Open(o)     == life[o] = "absent" /\ Becomes(o, "open")
Invoice(o)  == life[o] = "open" /\ Becomes(o, "invoiced")
WriteOff(o) == life[o] = "invoiced" /\ Becomes(o, "writtenOff")
Refund(o)   == life[o] \in {"invoiced", "writtenOff"} /\ Becomes(o, "refunded")

\* One order is voided, or all the sources of a merge are.
Cancel(S) ==
    /\ \A o \in S : life[o] = "open"
    /\ life' = [o \in OrderIds |-> IF o \in S THEN "cancelled" ELSE life[o]]

Next ==
    \/ \E o \in OrderIds : Open(o) \/ Invoice(o) \/ WriteOff(o) \/ Refund(o)
    \/ \E S \in SUBSET OrderIds : Cancel(S)

Spec == Init /\ [][Next]_life
=============================================================================
