---------------------------- MODULE OutboxClaims ----------------------------
(***************************************************************************)
(* What docs/walkthrough.md:38 says of the outbox sweep: "Sweeper now      *)
(* recovers stuck PENDING and IN_PROGRESS outbox events older than 1       *)
(* minute".  Its tasks return early for IN_PROGRESS events.                *)
(***************************************************************************)
EXTENDS Outbox

\* Grant what the text assumes: the sweep is scheduled.
SweptSpec ==
    /\ FairSpec
    /\ WF_vars(SweepSelect)
    /\ \A e \in Events : WF_vars(SweepSend(e))

\* Claim of docs/walkthrough.md:38: an event whose dispatch died while it was in
\* progress is taken up by a later sweep and processed in the end.
SweepRecovers ==
    \A e \in Events : status[e] = "in_progress" ~> status[e] = "processed"
=============================================================================
