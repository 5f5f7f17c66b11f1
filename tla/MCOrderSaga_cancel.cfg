\* A cancellation that started before the payment undoes it.
SPECIFICATION Spec
CONSTANTS
    Users = {u1}
    Products = {"p1"}
    Faults = {}
    MaxSends = 2
    TicksPerSecond = 1
    MaxClock = 3
    Uint32 = 2
    Qtys = {}
    CartInputs <- MCCartInputs
    PutStatuses = {}
    MaxCarts = 1
    TWorkers = {t1, t2}
    Prices = {1}
    Int64Half = 4
    MaxTransactions = 1
    MarkAsPaidCalled = FALSE
    PWorkers = {q1, q2}
    MaxPayments = 2
PROPERTIES CannotCancelPaid
CHECK_DEADLOCK FALSE
