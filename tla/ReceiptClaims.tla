---------------------------- MODULE ReceiptClaims ----------------------------
(* What the repository says of its receipts and the code does not do. *)
EXTENDS Receipts

TeaAndCake == [x \in {"tea", "cake"} |-> IF x = "tea" THEN 1 ELSE 2]

\* InvoiceSnapshot: "Historical invoices always render from their snapshot, not
\* live config."  The HTML that is sent to the printer does.
PrintsShowSale ==
    \A i \in Invoices : snapshot[i].taken /\ copies[i] # NoCopy => ShowsSale(i, copies[i].html)
=============================================================================
