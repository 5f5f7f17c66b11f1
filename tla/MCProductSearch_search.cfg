\* From the product tables to the search index.  No symmetry: liveness.
SPECIFICATION FairSpec
CONSTANTS
    Contents = {"x"}
    CategoryIds = {1}
    CategoryNames = {}
    Quantities = {}
    ProductFaults = {"drop", "crash"}
    GWorkers = {g1, g2}
    MaxProducts = 1
    MaxCategories = 0
    MaxEvents = 2
    MaxStocks = 0
    SearchTopics = {"product.created", "product.updated", "product.deleted"}
    SearchFaults = {"elastic", "rebalance"}
    MaxSessions = 2
INVARIANTS CatalogTypeOK DeletedIsFinal
PROPERTY ProductsBecomeSearchable
CHECK_DEADLOCK FALSE
