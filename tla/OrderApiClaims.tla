--------------------------- MODULE OrderApiClaims ---------------------------
(***************************************************************************)
(* What messages, comments and documents say of the order views and their  *)
(* races refute.  Each claim has a run of its own.                         *)
(***************************************************************************)
EXTENDS OrderApi

\* Claim of the message of api/views.py:674, "Cannot reopen a settled order":
\* a settled order is never open again.
SettledNotReopened == [][row.status = "settled" => row'.status # "open"]_vars

\* Claim of docs/api_specification.md:178, "Fully idempotent via idempotency key":
\* a payment whose key was recorded is not captured again.
RetryCapturesNothing ==
    [][\A r \in Requests : call[r].view = "pay" /\ pc[r] # "idle" /\ pc'[r] = "done"
         /\ call[r].key \in keyUsed => captured' = captured]_vars
=============================================================================
