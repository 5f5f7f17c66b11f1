\* Two handlers on the carts of one user, every fault.  No symmetry: liveness.
SPECIFICATION CartServiceFairSpec
CONSTANTS
    Users = {u1}
    Products = {"p1"}
    Faults = {"drop", "dberror", "crash"}
    MaxSends = 1
    TicksPerSecond = 1
    MaxClock = 1
    Uint32 = 2
    Qtys = {1}
    CartInputs <- MCCartInputs
    PutStatuses = {"paid"}
    MaxCarts = 2
    CWorkers = {w1, w2}
INVARIANT LockedCopyIsCurrent
PROPERTIES ImplementsCartStore RequestsFinish
CHECK_DEADLOCK FALSE
