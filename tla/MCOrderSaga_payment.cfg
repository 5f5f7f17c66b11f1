\* Transactions and their payment under every fault; one cart.
SPECIFICATION Spec
CONSTANTS
    Users = {u1}
    Products = {"p1"}
    Faults = {"drop", "resend", "dberror", "crash"}
    MaxSends = 2
    TicksPerSecond = 1
    MaxClock = 3
    Uint32 = 2
    Qtys = {}
    CartInputs <- MCCartInputs
    PutStatuses = {}
    MaxCarts = 1
    TWorkers = {t1, t2}
    Prices = {1}
    Int64Half = 4
    MaxTransactions = 1
    MarkAsPaidCalled = TRUE
    PWorkers = {q1, q2}
    MaxPayments = 2
SYMMETRY Symmetry
PROPERTIES KeepsOrderPromise PaidOnlyByPayment SettledForever
CHECK_DEADLOCK FALSE
