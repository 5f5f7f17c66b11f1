\* A transaction is inserted for a cart that is no longer active.
SPECIFICATION Spec
CONSTANTS
    Users = {u1}
    Products = {"p1"}
    Faults = {}
    MaxSends = 2
    TicksPerSecond = 1
    MaxClock = 1
    Uint32 = 2
    Qtys = {1}
    CartInputs <- MCCartInputs
    PutStatuses = {"active", "paid"}
    MaxCarts = 2
    TWorkers = {t1, t2}
    Prices = {1}
    Int64Half = 4
    MaxTransactions = 2
    MarkAsPaidCalled = FALSE
    PWorkers = {}
    MaxPayments = 0
PROPERTIES TransactionFromActiveCart
CHECK_DEADLOCK FALSE
