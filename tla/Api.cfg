SPECIFICATION MixSpec
CONSTANTS
    Requests = {r1, r2, r3}
    NoRequest = NoRequest
    Views = {"add", "bump", "clear", "pay", "web_pay", "refund", "reopen", "complete", "void", "cancel"}
    Lines = {i1}
    Amounts = {1}
    Keys = {}
    NoKey = NoKey
INVARIANTS SoldIsInvoicedOnRecheck TotalFollowsLinesOnRecheck
PROPERTIES InvoiceFinal EveryRequestAnswered
CHECK_DEADLOCK FALSE
