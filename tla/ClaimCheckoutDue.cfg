SPECIFICATION Spec
CONSTANTS
    OrderIds = {o1}
    LineIds = {i1}
    NoOrder = NoOrder
    Keys = {}
    NoKey = NoKey
    Tracked = {}
    Quantities = {2}
    Prices = {1}
    Deltas = {0}
    DiscountValues = {}
    ChargeRates = {0}
    Amounts = {1}
    MaxCaptured = 4
PROPERTY CheckoutLeavesNothingDue
CHECK_DEADLOCK FALSE
