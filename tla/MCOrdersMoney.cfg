SPECIFICATION Spec
CONSTANTS
    OrderIds = {o1}
    LineIds = {i1}
    NoOrder = NoOrder
    Keys = {k1}
    NoKey = NoKey
    Tracked = {i1}
    Quantities = {1}
    Prices = {2}
    Deltas = {0}
    DiscountValues = {}
    ChargeRates = {0, 50}
    Amounts = {1, 2}
    MaxCaptured = 5
INVARIANTS TypeOK InvoiceBacked StatusMatchesInvoice PaidMatchesLedger StockFollowsSale
PROPERTIES ClosedStaysClosed ImplementsLifecycle
CHECK_DEADLOCK FALSE
