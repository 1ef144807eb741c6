SPECIFICATION PlatformSpec
CONSTANTS
    Issuers = {x1, x2, x3}
    MaxDay = 2
    MaxNumber = 3
    MaxAttempts = 2
    Roles = {"cashier", "manager"}
    Requests = {"r1"}
    MaxVersion = 4
    MaxEdits = 2
    Readers = {r1}
    Editors = {e1, e2}
    Values = {"x", "y"}
    Tenants = {a, b}
    NoTenant = NoTenant
    MaxDepth = 4
    MaxNotes = 2
    Workers = {w1, w2}
    Sweepers = {s1}
    MaxRetries = 1
    MaxMessages = 1
    MaxAccepted = 2
    Customers = {a}
    Calls = {r1, r2}
    Keys = {k}
    NoKey = NoKey
    Amounts = {1}
    Limits = {1}
    PerCustomer = 1
    Thresholds = {1}
    MaxPosted = 2
    Employees = {m1}
    Leaves = {l1, l2}
    LengthsOfLeave = {1, 2}
    Approvers = {x1, x2}
    MaxUsed = 4
    Periods = {p1}
    StaffCalls = {x1, x2}
    MaxRows = 2
    Tabs = {f1, f2}
    StockRows = {1, 2}
    Hands = {h1, h2}
    Quantities = {1, 2}
    Costs = {0, 3}
    Floors = {1}
    MaxBegun = 3
    NoStockRow = 0
    Bills = {1, 2}
    Items = {1, 2}
    Sold <- TwoSales
    Cashier <- TwoCashiers
    Category <- TwoCategories
    Cost <- OneEach
    Methods = {"cash", "upi"}
    Tender <- TwoTenders
    Discounts <- HalfOffTea
    AnyMethod = "any"
    LastDay = 2
    PeriodOf <- TwoWeeks
    MaxPayments = 2
INVARIANTS GaplessAndUnique OwnRowsOnly  CountersFollowRows   
PROPERTY CachesCatchUp
CHECK_DEADLOCK FALSE
