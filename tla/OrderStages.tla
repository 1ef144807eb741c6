---------------------------- MODULE OrderStages ----------------------------
(* What a client can tell of an order: its status and its invoice's status. *)

\* The stage of an order whose Order.status is s and whose invoice is in state d;
\* "broken" when the two contradict each other.
Stage(s, d) ==
    CASE s = "none" /\ d = "none"      -> "absent"
      [] s = "open" /\ d = "none"      -> "open"
      [] s = "settled" /\ d = "issued" -> "invoiced"
      [] s = "settled" /\ d = "void"   -> "writtenOff"
      [] s = "void" /\ d = "none"      -> "cancelled"
      [] s = "void" /\ d = "void"      -> "refunded"
      [] OTHER                         -> "broken"
=============================================================================
