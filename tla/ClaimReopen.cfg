SPECIFICATION Spec
CONSTANTS
    Requests = {r1, r2}
    NoRequest = NoRequest
    Views = {"web_pay", "reopen"}
    Lines = {i1}
    Amounts = {1}
    Keys = {}
    NoKey = NoKey
PROPERTY SettledNotReopened
CHECK_DEADLOCK FALSE
