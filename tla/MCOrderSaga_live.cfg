\* Two users and two handlers, nothing is lost.  No symmetry: liveness.
SPECIFICATION FairSpec
CONSTANTS
    Users = {u1, u2}
    Products = {"p1"}
    Faults = {}
    MaxSends = 1
    TicksPerSecond = 1
    MaxClock = 2
    Uint32 = 2
    Qtys = {}
    CartInputs <- MCCartInputs
    PutStatuses = {}
    MaxCarts = 1
    TWorkers = {t1, t2}
    Prices = {1}
    Int64Half = 4
    MaxTransactions = 2
    MarkAsPaidCalled = FALSE
    PWorkers = {q1}
    MaxPayments = 1
INVARIANTS OrderChain EventsAreBacked NoPaymentForgotten NoCheckoutForgotten
PROPERTIES KeepsOrderPromise PaymentSettles CheckoutCloses
CHECK_DEADLOCK FALSE
