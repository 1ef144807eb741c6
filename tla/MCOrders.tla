------------------------------ MODULE MCOrders ------------------------------
(***************************************************************************)
(* The order engine's instances, and what its documents, comments and      *)
(* messages say that its code does not do; README.md tells the             *)
(* counterexample.                                                         *)
(***************************************************************************)
EXTENDS Orders, TLC

\* Order and line rows are interchangeable: sound for the safety properties.
Symmetry == Permutations(OrderIds) \union Permutations(LineIds)

InvoicedNow(o) == invStatus[o] = "none" /\ invStatus'[o] = "issued"

\* Claim of checkout_service.py:101, "Record Payment FIRST - this calls
\* _recompute(), setting order.due_amount = 0": a checkout captures what was due.
CheckoutLeavesNothingDue ==
    [][\A o \in OrderIds : InvoicedNow(o) /\ captured'[o] > captured[o]
         => paid'[o] = total'[o]]_vars
=============================================================================
