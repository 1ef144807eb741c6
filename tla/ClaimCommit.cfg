SPECIFICATION Spec
CONSTANTS
    JobTypes = {"customer", "kot"}
    Printers = {p1}
    MaxRetries = 2
    MaxSends = 2
INVARIANT ReceiptFollowsCommit
CHECK_DEADLOCK FALSE
