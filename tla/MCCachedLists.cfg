\* Addresses, carts and payments, two handlers of each.  No symmetry: liveness.
SPECIFICATION FairSpec
CONSTANTS
    Users = {u1, u2}
    Products = {"p1"}
    Faults = {"drop", "resend", "dberror", "crash"}
    MaxSends = 1
    TicksPerSecond = 1
    MaxClock = 3
    Uint32 = 2
    Qtys = {1}
    CartInputs <- MCCartInputs
    PutStatuses = {"active"}
    MaxCarts = 1
    PWorkers = {w1, w2}
    MaxPayments = 2
    Owners = {u1, u2}
    LWorkers = {w1, w2}
    ListFaults = {"error", "redis", "cut"}
    AddressContents = {"x", "y"}
    AddressFaults = {"error", "drop", "resend", "crash"}
    MaxAddresses = 1
    MaxAddressEvents = 2
INVARIANTS ListsTypeOK AddressDeletedIsFinal
PROPERTIES ListsAreCaches ListsConverge OutdatedByRace
CHECK_DEADLOCK FALSE
