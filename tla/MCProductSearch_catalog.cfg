\* Tables, cached list and events of the product service, every fault of it; the
\* search service never joins.  No symmetry: liveness.
SPECIFICATION FairSpec
CONSTANTS
    Contents = {"x", "y"}
    CategoryIds = {1}
    CategoryNames = {"n"}
    Quantities = {1, 2}
    ProductFaults = {"error", "redis", "cut", "drop", "resend", "crash"}
    GWorkers = {g1, g2}
    MaxProducts = 1
    MaxCategories = 1
    MaxEvents = 2
    MaxStocks = 4
    SearchTopics = {"product.created", "product.updated", "product.deleted"}
    SearchFaults = {}
    MaxSessions = 0
INVARIANTS CatalogTypeOK StockRowsAreBounded
PROPERTIES ListIsCache ProductsOutdatedByRace ListConverges
CHECK_DEADLOCK FALSE
