SPECIFICATION Spec
CONSTANTS
    Invoices = {i1}
    Names = {n1, n2}
    Blank = Blank
    Styles = {s1, s2}
    ItemPrice <- TeaAndCake
INVARIANT PrintsShowSale
CHECK_DEADLOCK FALSE
