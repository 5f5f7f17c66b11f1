\* Two users register, or one tries twice; everything may be out of order.
\* No symmetry: liveness.
SPECIFICATION FairSpec
CONSTANTS
    Emails = {"e1", "e2"}
    AccountFaults = {"auth", "kafka", "users", "userdb", "resend"}
    MaxAccounts = 2
    MaxUserEvents = 2
    SearchTopics = {"user.created"}
    SearchFaults = {"elastic", "rebalance"}
    MaxSessions = 2
    Owners = {"users:all"}
    LWorkers = {w1}
    ListFaults = {"error", "redis"}
INVARIANTS AccountsTypeOK UserCopiesAgree
PROPERTIES RegisteredUsersBecomeKnown RegisteredUsersBecomeSearchable UsersListIsCache UsersListConverges
CHECK_DEADLOCK FALSE
