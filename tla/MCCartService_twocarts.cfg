\* Two requests of one user look for the active cart at once.
SPECIFICATION CartServiceSpec
CONSTANTS
    Users = {u1}
    Products = {"p1"}
    Faults = {}
    MaxSends = 1
    TicksPerSecond = 1
    MaxClock = 1
    Uint32 = 2
    Qtys = {1}
    CartInputs <- MCCartInputs
    PutStatuses = {}
    MaxCarts = 2
    CWorkers = {w1, w2}
INVARIANT OneActiveCart
CHECK_DEADLOCK FALSE
