----------------------------- MODULE MCOrderApi -----------------------------
(* Requests on one order, of one of two mixes of views.  The first has the   *)
(* views that save an order as they read it before; the second has those     *)
(* whose services look again under the row's lock.                           *)
EXTENDS OrderApi

StaleViews   == {"add", "clear", "pay", "web_pay", "reopen", "complete", "void"}
RecheckViews == {"add", "bump", "pay", "web_pay", "refund", "complete", "void", "cancel"}

VARIABLE mix     \* the views that clients call

MixInit == Init /\ mix \in {StaleViews, RecheckViews}

MixNext ==
    \E r \in Requests :
        \/ Serve(r) /\ UNCHANGED mix
        \/ \E c \in Calls : c.view \in mix /\ Receive(r, c) /\ UNCHANGED mix

\* The server runs every request it took to its answer, as in FairSpec.
MixSpec ==
    /\ MixInit /\ [][MixNext]_<<row, qty, active, captured, refunded, keyUsed, doc, sold,
                                lock, pc, call, seen, mix>>
    /\ \A r \in Requests : WF_vars(Serve(r))

\* A request that saves what it read before may bring back an open order or an
\* old total (finding SettledNotReopened); without one an order is sold once.
SoldIsInvoicedOnRecheck == mix = RecheckViews => SoldIsInvoiced

\* So does the total of the order follow its lines.
TotalFollowsLinesOnRecheck == mix = RecheckViews => TotalFollowsLines
=============================================================================
