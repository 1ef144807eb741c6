-------------------------------- MODULE Reports --------------------------------
(***************************************************************************)
(* The report pages, exports and API resources.  Each one is a query of    *)
(* its own, at its own moment, over orders, their items, payments and      *)
(* invoices, with its own idea of which rows count; no figure is stored.   *)
(* The steps are those of the order engine that change what a query sees,  *)
(* at the grain of a report: see Orders for the engine itself.  TIME_ZONE  *)
(* is UTC, so the local date and the date of now() are one date.           *)
(***************************************************************************)
EXTENDS Integers, Sequences, FiniteSets, FiniteSetsExt, Sums

CONSTANTS
    Bills,         \* rows of the order table, by number
    Items,         \* rows of the order_item table, by number
    Sold,          \* item -> [product, amount, rate]: line total and GST percent
    Cashier,       \* order -> created_by
    Category,      \* product -> its category's name, "Other" when it has no row
    Cost,          \* product -> average cost of one of its stock records, or 0
    Methods,       \* payment methods
    Tender,        \* order -> the methods its guests may pay by
    Discounts,     \* order -> the percentages taken off it
    AnyMethod,     \* no filter on the method
    MaxDay,        \* bound on the calendar
    PeriodOf,      \* "week", "month", "year" -> day -> the period it is in
    MaxPayments    \* bound on the payment rows

VARIABLES
    today,         \* the date
    bill,          \* order: its status, opening date and stored bill
    item,          \* order_item: its order and whether it is active
    payments,      \* payment rows in the order they were captured
    invoice        \* order -> [day, status] of its Invoice, or NoInvoice

reportVars == <<today, bill, item, payments, invoice>>

Days == 1..MaxDay
NoBill == [status |-> "none", opened |-> 0, off |-> 0, subtotal |-> 0,
           discount |-> 0, tax |-> 0, total |-> 0, paid |-> 0]
NoItem == [order |-> 0, active |-> FALSE]
NoInvoice == [status |-> "none", day |-> 0]

Init ==
    /\ today = 1
    /\ bill = [o \in Bills |-> NoBill]
    /\ item = [i \in Items |-> NoItem]
    /\ payments = <<>>
    /\ invoice = [o \in Bills |-> NoInvoice]

-----------------------------------------------------------------------------
(* What the order engine does to the rows *)

Lines(S) == {i \in Items : item[i].order \in S}
LineTotals == [i \in Items |-> Sold[i].amount]

(* recalculate: a percentage off, then GST on what is left of each line.   *)
LiveOf(rows, o) == {i \in Items : rows[i].order = o /\ rows[i].active}
TaxesAt(off) == [i \in Items |-> (Sold[i].amount * (100 - off) * Sold[i].rate) \div 10000]
Billed(b, off, subtotal, tax) ==
    LET discount == (subtotal * off) \div 100
    IN  [b EXCEPT !.off = off, !.subtotal = subtotal, !.discount = discount,
                  !.tax = tax, !.total = subtotal - discount + tax]
BillFrom(rows, o, off) ==
    Billed(bill[o], off, SumIn(LineTotals, LiveOf(rows, o)), SumIn(TaxesAt(off), LiveOf(rows, o)))

BillOfStale(o, off) == BillFrom(item, o, off)
BillOf(o, off) == BillFrom(item', o, off)

Due(o) == bill[o].total - bill[o].paid
Status(o) == bill[o].status

Captured(o, kind) == {n \in DOMAIN payments : payments[n].order = o /\ payments[n].kind = kind}
TotalOf(N) == SumIn([n \in DOMAIN payments |-> payments[n].amount], N)
NetPaid(o) == TotalOf(Captured(o, "payment")) - TotalOf(Captured(o, "refund"))

Capture(o, kind, m, a) ==
    /\ Len(payments) < MaxPayments
    /\ payments' = Append(payments, [order |-> o, kind |-> kind, method |-> m,
                                     amount |-> a, day |-> today])

NextDay ==
    /\ today < MaxDay
    /\ today' = today + 1
    /\ UNCHANGED <<bill, item, payments, invoice>>

(* Orders are numbered in turn.                                            *)
CreateOrder(o) ==
    /\ Status(o) = "none"
    /\ \A b \in Bills : b < o => Status(b) # "none"
    /\ bill' = [bill EXCEPT ![o] = [NoBill EXCEPT !.status = "open", !.opened = today]]
    /\ UNCHANGED <<today, item, payments, invoice>>

AddItem(o, i) ==
    /\ Status(o) = "open"
    /\ item[i] = NoItem
    /\ item' = [item EXCEPT ![i] = [order |-> o, active |-> TRUE]]
    /\ bill' = [bill EXCEPT ![o] = BillOf(o, bill[o].off)]
    /\ UNCHANGED <<today, payments, invoice>>

(* Whatever the order's status; the row stays, with its line total.        *)
VoidItem(i) ==
    /\ item[i].active
    /\ item' = [item EXCEPT ![i].active = FALSE]
    /\ bill' = [bill EXCEPT ![item[i].order] = BillOf(item[i].order, bill[item[i].order].off)]
    /\ UNCHANGED <<today, payments, invoice>>

ApplyDiscount(o, off) ==
    /\ Status(o) = "open" /\ bill[o].off # off
    /\ UNCHANGED <<today, item, payments, invoice>>
    /\ bill' = [bill EXCEPT ![o] = BillOf(o, off)]

AddPayment(o, m, a) ==
    /\ Status(o) # "none" /\ a > 0
    /\ Capture(o, "payment", m, a)
    /\ bill' = [bill EXCEPT ![o].paid = NetPaid(o) + a]
    /\ UNCHANGED <<today, item, invoice>>

SettleAndInvoice(o) ==
    /\ Status(o) = "open" /\ invoice[o] = NoInvoice
    /\ Due(o) <= 0
    /\ bill' = [bill EXCEPT ![o].status = "settled"]
    /\ invoice' = [invoice EXCEPT ![o] = [status |-> "issued", day |-> today]]
    /\ UNCHANGED <<today, item, payments>>

VoidOrder(o) ==
    /\ Status(o) = "open"
    /\ bill' = [bill EXCEPT ![o].status = "void"]
    /\ UNCHANGED <<today, item, payments, invoice>>

(* RefundLookupView: what may still be refunded, which the page proposes.  *)
Refundable(o) ==
    LET left == bill[o].total - TotalOf(Captured(o, "refund")) IN IF left > 0 THEN left ELSE 0

(* The full amount voids the order and its invoice; paid_amount stays.  No *)
(* method is asked for: it is that of the first payment, or cash.          *)
InitiateRefund(o, a) ==
    LET paidBy == Captured(o, "payment")
        m == IF paidBy = {} THEN "cash" ELSE payments[Min(paidBy)].method
        before == TotalOf(Captured(o, "refund"))
        full == before + a >= bill[o].total
    IN
    /\ Status(o) \in {"settled", "void"}
    /\ a > 0 /\ before + a <= bill[o].total
    /\ Capture(o, "refund", m, a)
    /\ bill' = [bill EXCEPT ![o].status = IF full THEN "void" ELSE @]
    /\ invoice' = [invoice EXCEPT ![o].status = IF full /\ @ # "none" THEN "void" ELSE @]
    /\ UNCHANGED <<today, item>>

Next ==
    \/ NextDay
    \/ \E o \in Bills :
          \/ CreateOrder(o) \/ SettleAndInvoice(o) \/ VoidOrder(o)
          \/ \E i \in Items : AddItem(o, i)
          \/ \E off \in Discounts[o] : ApplyDiscount(o, off)
          \/ \E m \in Tender[o] : AddPayment(o, m, Due(o))
          \/ \E a \in {1, Refundable(o)} : InitiateRefund(o, a)
    \/ \E i \in Items : VoidItem(i)

Spec == Init /\ [][Next]_reportVars

-----------------------------------------------------------------------------
(* Queries *)

(* get_date_range: the presets, and the last eight days for anything else. *)
FirstOf(period, d) == Min({e \in Days : PeriodOf[period][e] = PeriodOf[period][d]})
DateRange(preset) ==
    CASE preset = "today"        -> today..today
      [] preset = "yesterday"    -> (today - 1)..(today - 1)
      [] preset = "last_7_days"  -> (today - 6)..today
      [] preset = "last_30_days" -> (today - 29)..today
      [] preset = "this_month"   -> FirstOf("month", today)..today
      [] preset = "last_month"   ->
            {d \in Days : \E last \in Days : /\ last = FirstOf("month", today) - 1
                                           /\ PeriodOf["month"][d] = PeriodOf["month"][last]}
      [] OTHER                   -> (today - 7)..today

OpenedIn(range) == {o \in Bills : Status(o) # "none" /\ bill[o].opened \in range}
SettledIn(range) == {o \in OpenedIn(range) : Status(o) = "settled"}
NotVoid(S) == {o \in S : Status(o) # "void"}
Column(c) == [o \in Bills |-> bill[o][c]]
Total(S) == SumIn(Column("total"), S)
Tax(S) == SumIn(Column("tax"), S)
Gross(S) == SumIn(Column("subtotal"), S)
PaidFor(S, kind) == UNION {Captured(o, kind) : o \in S}
CapturedIn(range, kind) ==
    {n \in DOMAIN payments : payments[n].kind = kind /\ payments[n].day \in range}

(* DashboardHomeView: its refunds are the totals of the cancelled orders.  *)
Home(d) ==
    LET all == OpenedIn({d})
        cancelled == {o \in all : Status(o) = "void"}
    IN  [revenue |-> Total(NotVoid(all)), orders |-> Cardinality(all \ cancelled),
         cancelled |-> Cardinality(cancelled), refunds |-> Total(cancelled),
         chart |-> [e \in (d - 13)..d |-> Total(NotVoid(OpenedIn({e})))]]

(* DashboardSummaryView: the same day, with the refunds that were paid.    *)
Summary(d) ==
    LET orders == OpenedIn({d})
    IN  [sales |-> Total(NotVoid(orders)), orders |-> Cardinality(NotVoid(orders)),
         refunds |-> TotalOf(PaidFor(orders, "refund")),
         pending |-> Total(NotVoid(orders) \ SettledIn({d}))]

(* BillingDashboardView: payments by the day their order was opened.       *)
BillingDay(d) ==
    LET orders == OpenedIn({d})
    IN  [revenue |-> Total(SettledIn({d})), bills |-> Cardinality(SettledIn({d})),
         gst |-> Tax(SettledIn({d})),
         by |-> [m \in Methods |-> TotalOf({n \in PaidFor(orders, "payment") : payments[n].method = m})],
         refunds |-> TotalOf(PaidFor(orders, "refund")),
         pending |-> Total(NotVoid(orders) \ SettledIn({d}))]

(* The filter on a payment method joins the captured payments, both kinds, *)
(* and an order is there once for each of them.                            *)
Times(o, m) ==
    IF m = AnyMethod THEN 1
    ELSE Cardinality({n \in DOMAIN payments : payments[n].order = o /\ payments[n].method = m})

Joined(m) == [o \in Bills |-> Times(o, m)]
JoinedColumn(c, m) == [o \in Bills |-> Times(o, m) * bill[o][c]]
SalesRow(S, m) ==
    [orders |-> SumIn(Joined(m), S),
     gross |-> SumIn(JoinedColumn("subtotal", m), S),
     discounts |-> SumIn(JoinedColumn("discount", m), S),
     taxes |-> SumIn(JoinedColumn("tax", m), S),
     net |-> SumIn(JoinedColumn("total", m), S)]

(* SalesReportView: one row for each value of the key, of settled orders   *)
(* (by customer and by discount type the sums are the same).               *)
Keyed(key) ==
    [o \in Bills |-> CASE key = "day"     -> bill[o].opened
                      [] key = "cashier" -> Cashier[o]
                      [] key = "branch"  -> "Main Branch"
                      [] OTHER           -> PeriodOf[key][bill[o].opened]]
Sales(range, m) == {o \in SettledIn(range) : Times(o, m) > 0}
SalesRows(key, range, m) ==
    LET of == Keyed(key)  S == Sales(range, m) IN
    [k \in {of[o] : o \in S} |-> SalesRow({o \in S : of[o] = k}, m)]

(* Its rows of refunds: of orders in the range in any status, by the       *)
(* refund's own date, which may be after the range.                        *)
RefundRows(range) ==
    LET refunds == PaidFor(OpenedIn(range), "refund")
    IN  [d \in {payments[n].day : n \in refunds} |->
           TotalOf({n \in refunds : payments[n].day = d})]

(* Its figures above the rows, refunds and payments by their own date and  *)
(* whatever the filters.                                                   *)
SalesKpis(range, m) ==
    LET S == Sales(range, m)
    IN  [sales |-> SalesRow(S, m),
         refunds |-> TotalOf(CapturedIn(range, "refund")),
         by |-> [w \in Methods |-> TotalOf({n \in CapturedIn(range, "payment") :
                                             payments[n].method = w})],
         categories |-> [c \in {Category[Sold[i].product] : i \in Lines(S)} |->
                           SumIn(LineTotals, {i \in Lines(S) : Category[Sold[i].product] = c})]]

(* SalesMetricsView: years are grouped by month.                           *)
SalesMetrics(period, range) ==
    SalesRows(IF period = "year" THEN "month" ELSE period, range, AnyMethod)

(* SalesChartsView.                                                        *)
Chart(range) == [d \in {bill[o].opened : o \in SettledIn(range)} |-> Total(SettledIn({d}))]

(* ItemReportView: every item row of a settled order, active or voided.    *)
ItemRows(range) ==
    LET rows == Lines(SettledIn(range))
    IN  [p \in {Sold[i].product : i \in rows} |->
           LET its == {i \in rows : Sold[i].product = p}
               revenue == SumIn(LineTotals, its)
           IN  [qty |-> Cardinality(its), revenue |-> revenue, category |-> Category[p],
                cost |-> Cost[p] * Cardinality(its),
                profit |-> revenue - Cost[p] * Cardinality(its)]]

(* TopSellingItemsView and ProfitReportsView: the same columns.            *)
TopItems(range) == [p \in DOMAIN ItemRows(range) |->
                      [revenue |-> ItemRows(range)[p].revenue, profit |-> ItemRows(range)[p].profit]]
Profits(range) == [p \in DOMAIN ItemRows(range) |->
                     [revenue |-> ItemRows(range)[p].revenue, cost |-> ItemRows(range)[p].cost]]

(* TopCategoriesView.                                                      *)
TopCategories(range) ==
    LET rows == Lines(SettledIn(range))
    IN  [c \in {Category[Sold[i].product] : i \in rows} |->
           SumIn(LineTotals, {i \in rows : Category[Sold[i].product] = c})]

(* PaymentSummaryView: payments of the settled orders, by method.          *)
PaymentSummary(range) ==
    [m \in Methods |-> TotalOf({n \in PaidFor(SettledIn(range), "payment") : payments[n].method = m})]

(* TaxReportView.                                                          *)
TaxReport(range) ==
    LET S == SettledIn(range)
        taxed == {o \in S : bill[o].tax > 0}
        after == [o \in Bills |-> bill[o].subtotal - bill[o].discount]
    IN  [taxable |-> SumIn(after, taxed),
         exempt |-> Gross({o \in S : bill[o].tax = 0}),
         nonTaxable |-> SumIn([o \in Bills |-> bill[o].subtotal - after[o]], taxed),
         tax |-> Tax(S)]

(* TaxSummaryView: open orders too; collected means nothing is due.        *)
TaxSummary(range) ==
    LET S == NotVoid(OpenedIn(range))
    IN  [tax |-> Tax(S),
         collected |-> Tax({o \in S : Due(o) = 0}),
         outstanding |-> Tax({o \in S : Due(o) > 0})]

(* PaymentHistoryView: today's total takes refunds as money collected.     *)
CollectedOn(d) == TotalOf(CapturedIn({d}, "payment")) + TotalOf(CapturedIn({d}, "refund"))

(* get_hsn_summary: the order's whole tax, once for each of its item rows. *)
HsnSummary(range) ==
    LET rows == Lines(SettledIn(range))
    IN  [r \in {Sold[i].rate : i \in rows} |->
           LET its == {i \in rows : Sold[i].rate = r}
           IN  [qty |-> Cardinality(its),
                taxable |-> SumIn(LineTotals, its),
                tax |-> SumIn([i \in rows |-> bill[item[i].order].tax], its)]]

(* get_b2b_b2c_summary: invoices by their date, void ones among them.      *)
Filed(range) ==
    LET S == {o \in Bills : invoice[o] # NoInvoice /\ invoice[o].day \in range}
    IN  [count |-> Cardinality(S), tax |-> Tax(S), total |-> Total(S)]

(* GSTReportsView and GSTFilingView: both, for one range.                  *)
GstReports(range) == [hsn |-> HsnSummary(range), b2c |-> Filed(range)]

(* ExportService.generate.                                                 *)
Export(type, range) ==
    CASE type = "sales"     -> SalesRows("day", range, AnyMethod)
      [] type = "items"     -> ItemRows(range)
      [] type = "tax"       -> GstReports(range).hsn
      [] type = "staff"     -> SalesRows("cashier", range, AnyMethod)
      [] type = "financial" -> [sales |-> SalesRow(SettledIn(range), AnyMethod),
                                refunds |-> TotalOf(CapturedIn(range, "refund"))]

-----------------------------------------------------------------------------
(* Properties *)

Presets == {"today", "yesterday", "last_7_days", "this_month", "last_month", "custom"}
Ranges == {DateRange(p) \intersect Days : p \in Presets} \ {{}}
AddUp(rows, column) == SumOver([k \in DOMAIN rows |-> rows[k][column]])

(* A day's revenue is the same on the home page, in the API and on the     *)
(* billing page, where it is what is settled and what is pending.          *)
PagesAgree ==
    \A d \in Days :
        LET home == Home(d)
            billing == BillingDay(d)
            summary == Summary(d)
        IN  /\ home.revenue = billing.revenue + billing.pending
            /\ summary.sales = home.revenue /\ summary.orders = home.orders
            /\ summary.pending = billing.pending /\ summary.refunds = billing.refunds
            /\ home.orders + home.cancelled = Cardinality(OpenedIn({d}))
            /\ \A e \in Days : d \in DOMAIN Home(e).chart => Home(e).chart[d] = home.revenue
            /\ billing.revenue = SalesKpis({d}, AnyMethod).sales.net

(* However sales are split, the rows add up to the figure above them.      *)
SplitsAddUp ==
    \A range \in Ranges :
        LET net(rows) == AddUp(rows, "net")
            plain == SalesKpis(range, AnyMethod)
        IN  /\ \A key \in {"day", "week", "month", "year", "cashier", "branch"} :
                  net(SalesRows(key, range, AnyMethod)) = plain.sales.net
            /\ \A m \in Methods :
                  net(SalesRows("cashier", range, m)) = SalesKpis(range, m).sales.net
            /\ AddUp(SalesRows("day", range, AnyMethod), "orders") = plain.sales.orders
            /\ SumOver(Chart(range)) = plain.sales.net
            /\ AddUp(SalesMetrics("year", range), "taxes") = TaxReport(range).tax
            /\ net(Export("staff", range)) = Export("financial", range).sales.net
            /\ plain.categories = TopCategories(range)

(* Items sold make the gross sales, and so do the three kinds of sales of  *)
(* the tax report, but for voided lines, which only item pages count.      *)
ItemsMakeSales ==
    \A range \in Ranges :
        LET gross == SalesKpis(range, AnyMethod).sales.gross
            voided == SumIn(LineTotals, {i \in Lines(SettledIn(range)) : ~item[i].active})
            tax == TaxReport(range)
        IN  /\ AddUp(ItemRows(range), "revenue") = gross + voided
            /\ AddUp(Export("tax", range), "taxable") = gross + voided
            /\ \A x \in DOMAIN TopItems(range) :
                  TopItems(range)[x].profit = Profits(range)[x].revenue - Profits(range)[x].cost
            /\ tax.taxable + tax.exempt + tax.nonTaxable = gross

(* Tax is collected or outstanding unless an order is overpaid; the GST    *)
(* filing shows at least what was charged by rate, and by invoice also     *)
(* what was refunded in full, whose invoice became void.                   *)
TaxIsAccountedFor ==
    \A range \in Ranges :
        LET summary == TaxSummary(range)
            overpaid == {o \in OpenedIn(range) : Status(o) # "void" /\ Due(o) < 0}
        IN  /\ summary.collected + summary.outstanding + Tax(overpaid) = summary.tax
            /\ summary.tax = TaxReport(range).tax + Tax({o \in OpenedIn(range) : Status(o) = "open"})
            /\ AddUp(HsnSummary(range), "tax") >= TaxReport(range).tax
            /\ GstReports(Days).b2c.tax = TaxReport(Days).tax
                                 + Tax({o \in Bills : Status(o) = "void" /\ invoice[o] # NoInvoice})

(* A payment counts on one day of each page, though not the same day.      *)
MoneyIsCountedOnce ==
    LET all == SumOver([d \in Days |-> CollectedOn(d)])
        kpis == SalesKpis(Days, AnyMethod)
        billed == [m \in Methods |-> SumOver([d \in Days |-> BillingDay(d).by[m]])]
        refunds == SumOver([d \in Days |-> BillingDay(d).refunds])
    IN  /\ billed = kpis.by
        /\ refunds = kpis.refunds
        /\ refunds = SumOver(RefundRows(Days))
        /\ all = SumOver(billed) + refunds
        /\ \A m \in Methods : PaymentSummary(Days)[m] <= billed[m]

BooksAgree ==
    PagesAgree /\ SplitsAddUp /\ ItemsMakeSales /\ TaxIsAccountedFor /\ MoneyIsCountedOnce
=============================================================================
