SPECIFICATION SweptSpec
CONSTANTS
    Events = {e1}
    Handlers = {h1}
    Workers = {w1}
    MaxRetries = 0
    MaxFaults = 1
    MaxCopies = 1
PROPERTY SweepRecovers
CHECK_DEADLOCK FALSE
