SPECIFICATION PremisesSpec
CONSTANTS
    Kitchen = Kitchen
    Store = Store
    Depot = Depot
    PO1 = PO1
    PO2 = PO2
    Warehouses = {Kitchen, Store, Depot}
    Items = {Kitchen, Store}
    Batches = {1, 2}
    Home <- BatchHomes
    Orders = {PO1, PO2}
    Lines = {1, 2, 3}
    OrderOf <- LineOrders
    ItemOf <- LineItems
    Asked <- LineQuantities
    LotOf <- LineLots
    Transfers = {t1}
    Adjustments = {a1}
    Reports = {d1}
    Calls = {c1, c2}
    Wanted <- TwoUnits
    MaxQty = 1
    Traded = {2}
    MaxBegun = 3
    Tables = {t1, t2}
    NoTable = NoTable
    TableOrders = {o1}
    TableRequests = {r1}
    FormStatuses = {"merged"}
    JobTypes = {"customer", "kot"}
    Printers = {p1}
    MaxRetries = 2
    MaxSends = 2
    MinimumStock = 1
    MaxOnHand = 2
    MaxDue = 1
    Transactions = {x1, x2}
    OrderIds = {1, 2}
    TableIds = {1, 2}
    ItemIds = {1, 2}
    Products = {"burger", "fries"}
    UnitPrice <- UnitPrices
    Offers <- SomeOffers
    Selections <- SomeSelections
    CartLines = {1, 2, 3, 4}
    CartCombos = {c1}
    Quantities = {1, 2}
    NoCombo = NoCombo
    CatalogProducts = {p1}
    MenuPrices = {1, 2}
    Writers = {w1, w2}
    Invoices = {i1}
    Names = {n1, n2}
    Blank = Blank
    Styles = {s1, s2}
    Tills = {tl1}
    Presses = {pr1, pr2}
    Carts = {ct1, ct2}
    CartItems = {1, 2}
    MaxUnits = 2
    MaxPresses = 3
    NoCart = NoCart
    NoTicket = NoTicket
    Cooks = {ck1, ck2}
    TicketRows = {1}
    MaxTurns = 3
    Checks = {ch1, ch2}
    Dialogs = {dg1}
    Days = {1, 2}
    UseRows = {1, 2}
    MaxLoose = 1
    Deals <- SomeDeals
    ItemPrice <- TeaAndCake
    OrderOfRow <- OneDinner
INVARIANTS TypeOK  OnlySalesOversell  FollowersKnow  
PROPERTIES FirstExpiredFirstOut CombosKeepTheCart CooksAgree
CHECK_DEADLOCK FALSE
