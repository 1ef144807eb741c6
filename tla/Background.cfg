SPECIFICATION BackgroundSpec
CONSTANTS
    Events = {e1}
    Handlers = {h1, h2}
    Workers = {w1, w2}
    MaxRetries = 1
    MaxFaults = 2
    MaxCopies = 1
    Tenants = {1}
    Cycles = {c1, c2}
    BatchSize = 1
    GatewayOrders = {o1}
    OrderOf <- AllOneOrder
    PaymentOf <- AllOnePayment
    Visitors = {v1, v2}
    Emails = {"a", "b"}
    NoPrice = NoPrice
    Names = {"inn", "pub"}
    PlanPrices = {4}
    RowPrices <- RowOrNot
    Coupons <- FourCoupons
    Overrides <- FreeOrNot
    DiscountSets <- NoneOrTwo
    Gst = 18
    MaxChanges = 1
    BillingEvents = {b1, b2}
    Trials = {0, 1}
    Grace = 1
    Period = 2
    Prices = {1}
    MaxTime = 2
INVARIANTS TypeOK EffectAtMostOnce NoTaskForgotten PeriodsAreInvoiced OffersAreKept
PROPERTIES HandledWhereFair UnpaidIsCutOff
CHECK_DEADLOCK FALSE
