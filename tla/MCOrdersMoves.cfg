SPECIFICATION Spec
CONSTANTS
    OrderIds = {o1, o2, o3}
    LineIds = {i1, i2}
    NoOrder = NoOrder
    Keys = {}
    NoKey = NoKey
    Tracked = {}
    Quantities = {1, 2}
    Prices = {1}
    Deltas = {0}
    DiscountValues = {50}
    ChargeRates = {0}
    Amounts = {}
    MaxCaptured = 0
SYMMETRY Symmetry
INVARIANTS BillIsCurrent MergedOrdersAreEmpty
PROPERTIES ClosedCartFrozen MovesConserveUnits
CHECK_DEADLOCK FALSE
