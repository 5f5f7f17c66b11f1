------------------------- MODULE ProductSearchProofs ------------------------
(***************************************************************************)
(* Products, their events and the index: types, the rows of stocks, why a  *)
(* deletion that was announced is final, and what the cached list of all   *)
(* products may show.                                                      *)
(***************************************************************************)
EXTENDS ProductSearch, FiniteSetTheorems, SequenceTheorems, TLAPS

(* The parts of CatalogTypeOK, each with the domains of its functions. *)

TablesOK ==
    /\ ProductTable(products) /\ nextProduct \in 1..MaxProducts + 1
    /\ \A p \in DOMAIN products : p < nextProduct
    /\ DOMAIN categories \subseteq 1..nextCategory - 1 /\ nextCategory \in 1..MaxCategories + 1
    /\ stocks \in Seq([product : 1..MaxProducts, quantity : Quantities])

ListOK == list = NoList \/ (list.cached /\ ProductTable(list.rows))

LogsOK ==
    /\ DOMAIN logs = Topics
    /\ \A t \in Topics : logs[t] \in Seq(ProductEvent(t))

JobsOK ==
    /\ gjob = [w \in GWorkers |-> gjob[w]]
    /\ \A w \in GWorkers : GJobTypeOK(gjob[w])

SessionOK == elasticUp \in BOOLEAN /\ session \in [number : 0..MaxSessions, on : BOOLEAN]

OffsetsOK ==
    /\ DOMAIN position = Topics /\ DOMAIN committed = Topics
    /\ \A t \in Topics :
          /\ position[t] \in 0..Len(logs[t])
          /\ committed[t] \in {NoOffset} \cup 1..Len(logs[t])

SearchOK == ProductTable(index) /\ SessionOK /\ OffsetsOK

CatalogInv == TablesOK /\ ListOK /\ LogsOK /\ JobsOK /\ SearchOK

-----------------------------------------------------------------------------

\* A handler that goes on to local variables of the right shape.
LEMMA EnterKeeps ==
    ASSUME JobsOK, NEW w \in GWorkers, NEW job, GJobTypeOK(job), GEnter(w, job)
    PROVE  JobsOK'
<1>1. gjob' = [v \in GWorkers |-> IF v = w THEN job ELSE gjob[v]]
  BY DEF JobsOK, GEnter
<1>2. \A v \in GWorkers : GJobTypeOK(gjob'[v])
  BY <1>1 DEF JobsOK
<1> QED
  BY <1>1, <1>2 DEF JobsOK, GJobTypeOK

\* The local variables of a handler, by the phase that it is in.
LEMMA JobFields ==
    ASSUME NEW job, GJobTypeOK(job)
    PROVE  /\ job.phase \in {"clear", "publish"} =>
                 \E t \in Topics : job \in [phase : {"clear", "publish"}, topic : {t},
                                            event : ProductEvent(t)]
           /\ job.phase = "save" => ProductTable(job.rows)
           /\ job.phase = "delete" => job \in [phase : {"delete"}, id : 1..MaxProducts]
           /\ job.phase \in {"used", "drop"} =>
                 job \in [phase : {"used", "drop"}, id : 1..MaxCategories]
           /\ job.phase = "stock" =>
                 job \in [phase : {"stock"}, product : 1..MaxProducts,
                          quantity : Quantities, exists : BOOLEAN]
BY DEF GJobTypeOK, GIdle

LEMMA IdleOK == GJobTypeOK(GIdle)
BY DEF GJobTypeOK

\* What is left alone keeps its type.
LEMMA PartsKept ==
    /\ TablesOK /\ UNCHANGED tableVars => TablesOK'
    /\ ListOK /\ UNCHANGED list => ListOK'
    /\ LogsOK /\ UNCHANGED logs => LogsOK'
    /\ JobsOK /\ UNCHANGED gjob => JobsOK'
    /\ SearchOK /\ UNCHANGED <<searchVars, logs>> => SearchOK'
BY DEF TablesOK, tableVars, ListOK, LogsOK, JobsOK, SearchOK, SessionOK, OffsetsOK, searchVars

\* A message that is appended to a log.
LEMMA AppendKeeps ==
    ASSUME LogsOK, NEW t \in Topics, NEW e \in ProductEvent(t),
           logs' = [logs EXCEPT ![t] = Append(@, e)]
    PROVE  /\ LogsOK'
           /\ \A u \in Topics : Len(logs[u]) \in Nat /\ Len(logs'[u]) >= Len(logs[u])
<1>1. \A u \in Topics : logs[u] \in Seq(ProductEvent(u)) /\ Len(logs[u]) \in Nat
  BY DEF LogsOK
<1>2. \A u \in Topics : logs'[u] = IF u = t THEN Append(logs[t], e) ELSE logs[u]
  BY DEF LogsOK
<1>3. Append(logs[t], e) \in Seq(ProductEvent(t)) /\ Len(Append(logs[t], e)) = Len(logs[t]) + 1
  BY <1>1
<1>4. DOMAIN logs' = Topics
  BY DEF LogsOK
<1> QED
  BY <1>1, <1>2, <1>3, <1>4 DEF LogsOK

\* Some of the rows of a table.
LEMMA RowsRestricted ==
    ASSUME NEW f, ProductTable(f), NEW S \in SUBSET DOMAIN f
    PROVE  ProductTable(Restrict(f, S)) /\ DOMAIN Restrict(f, S) = S
BY DEF ProductTable, Restrict

-----------------------------------------------------------------------------
(* Types.  First the handlers of products. *)

LEMMA ProductWritesKeepTypes ==
    ASSUME CatalogInv, UNCHANGED searchVars, NEW w \in GWorkers,
           \/ \E c \in CategoryIds, content \in Contents :
                 \/ CreateProduct(w, c, content)
                 \/ \E p \in DOMAIN products : UpdateProduct(w, p, c, content)
           \/ \E p \in DOMAIN products : DeleteProduct(w, p)
           \/ DeleteRow(w)
    PROVE  CatalogInv'
<1> USE DEF CatalogInv
<1>1. ASSUME NEW c \in CategoryIds, NEW content \in Contents, CreateProduct(w, c, content)
      PROVE  CatalogInv'
  <2> PICK row : row = Product(c, content)
    OBVIOUS
  <2>1. row \in ProductRow
    BY DEF Product, ProductRow
  <2>2. nextProduct \in 1..MaxProducts
    BY <1>1, ProductAssumption DEF CreateProduct, TablesOK
  <2>3. products' = [p \in DOMAIN products \cup {nextProduct} |->
                        IF p = nextProduct THEN row ELSE products[p]]
    BY <1>1 DEF CreateProduct
  <2>4. ProductTable(products') /\ DOMAIN products' = DOMAIN products \cup {nextProduct}
    <3>1. ProductTable(products)
      BY DEF TablesOK
    <3>2. /\ DOMAIN products' = DOMAIN products \cup {nextProduct}
          /\ \A p \in DOMAIN products' :
                products'[p] = IF p = nextProduct THEN row ELSE products[p]
      BY <2>3
    <3> QED
      BY <2>1, <2>2, <3>1, <3>2 DEF ProductTable
  <2>5. TablesOK'
    BY <1>1, <2>2, <2>4, ProductAssumption DEF TablesOK, CreateProduct
  <2>6. GJobTypeOK([phase |-> "clear", topic |-> "product.created",
                    event |-> [id |-> nextProduct, doc |-> row]])
    BY <2>1, <2>2 DEF GJobTypeOK, ProductEvent, Topics
  <2>7. JobsOK'
    BY <1>1, <2>6, EnterKeeps DEF CreateProduct, Changed
  <2> QED
    BY <1>1, <2>5, <2>7, PartsKept DEF CreateProduct
<1>2. ASSUME NEW c \in CategoryIds, NEW content \in Contents, NEW p \in DOMAIN products,
             UpdateProduct(w, p, c, content)
      PROVE  CatalogInv'
  <2> PICK row : row = Product(c, content)
    OBVIOUS
  <2>1. row \in ProductRow /\ p \in 1..MaxProducts
    BY DEF Product, ProductRow, TablesOK, ProductTable
  <2>2. TablesOK'
    BY <1>2, <2>1 DEF TablesOK, UpdateProduct, ProductTable
  <2>3. GJobTypeOK([phase |-> "clear", topic |-> "product.updated",
                    event |-> [id |-> p, doc |-> row]])
    BY <2>1 DEF GJobTypeOK, ProductEvent, Topics
  <2>4. JobsOK'
    BY <1>2, <2>3, EnterKeeps DEF UpdateProduct, Changed
  <2> QED
    BY <1>2, <2>2, <2>4, PartsKept DEF UpdateProduct
<1>3. ASSUME NEW p \in DOMAIN products, DeleteProduct(w, p)
      PROVE  CatalogInv'
  <2>1. GJobTypeOK([phase |-> "delete", id |-> p])
    BY DEF GJobTypeOK, TablesOK, ProductTable
  <2>2. JobsOK'
    BY <1>3, <2>1, EnterKeeps DEF DeleteProduct
  <2> QED
    BY <1>3, <2>2, PartsKept DEF DeleteProduct
<1>4. ASSUME DeleteRow(w)
      PROVE  CatalogInv'
  <2>1. gjob[w].id \in 1..MaxProducts
    BY <1>4, JobFields DEF DeleteRow, AtPhase, JobsOK
  <2>2. TablesOK'
    BY <1>4, RowsRestricted DEF TablesOK, DeleteRow, ProductTable, Restrict
  <2>3. GJobTypeOK([phase |-> "clear", topic |-> "product.deleted", event |-> [id |-> gjob[w].id]])
    BY <2>1 DEF GJobTypeOK, ProductEvent, Topics
  <2>4. JobsOK'
    BY <1>4, <2>3, EnterKeeps DEF DeleteRow, Changed
  <2> QED
    BY <1>4, <2>2, <2>4, PartsKept DEF DeleteRow
<1> QED
  BY <1>1, <1>2, <1>3, <1>4

\* Redis.Del and the publishing.
LEMMA PublishingKeepsTypes ==
    ASSUME CatalogInv, UNCHANGED searchVars, NEW w \in GWorkers,
           ClearList(w) \/ Publish(w) \/ Resend(w)
    PROVE  CatalogInv'
<1> USE DEF CatalogInv
<1>1. PICK t \in Topics : gjob[w] \in [phase : {"clear", "publish"}, topic : {t},
                                       event : ProductEvent(t)]
  BY JobFields DEF JobsOK, ClearList, Publish, Resend, AtPhase
<1>2. CASE ClearList(w)
  <2>1. GJobTypeOK([gjob[w] EXCEPT !.phase = "publish"])
    BY <1>1 DEF GJobTypeOK
  <2>2. JobsOK'
    BY <1>2, <2>1, EnterKeeps DEF ClearList
  <2>3. ListOK'
    BY <1>2 DEF ClearList, ListOK
  <2> QED
    BY <1>2, <2>2, <2>3, PartsKept DEF ClearList
<1>3. ASSUME logs' = [logs EXCEPT ![gjob[w].topic] = Append(@, gjob[w].event)]
      PROVE  LogsOK' /\ SearchOK'
  <2>1. LogsOK' /\ \A u \in Topics : Len(logs[u]) \in Nat /\ Len(logs'[u]) \in Nat
                                     /\ Len(logs'[u]) >= Len(logs[u])
    BY <1>1, <1>3, AppendKeeps DEF LogsOK
  <2> QED
    BY <2>1 DEF SearchOK, SessionOK, OffsetsOK, searchVars
<1>4. CASE Publish(w)
  <2>1. JobsOK'
    BY <1>4, IdleOK, EnterKeeps DEF Publish
  <2> QED
    BY <1>3, <1>4, <2>1, PartsKept DEF Publish
<1>5. CASE Resend(w)
  BY <1>3, <1>5, PartsKept DEF Resend
<1> QED
  BY <1>2, <1>4, <1>5

\* The cached list.
LEMMA ListingKeepsTypes ==
    ASSUME CatalogInv, UNCHANGED searchVars, NEW w \in GWorkers,
           ListProducts(w) \/ SelectProducts(w) \/ SaveList(w) \/ ListExpires
    PROVE  CatalogInv'
<1> USE DEF CatalogInv
<1>1. CASE ListProducts(w)
  <2>1. JobsOK'
    BY <1>1, EnterKeeps DEF ListProducts, GJobTypeOK
  <2> QED
    BY <1>1, <2>1, PartsKept DEF ListProducts
<1>2. CASE SelectProducts(w)
  <2>1. PICK read \in SUBSET DOMAIN products :
            GEnter(w, [phase |-> "save", rows |-> Restrict(products, read)])
    BY <1>2 DEF SelectProducts
  <2>2. GJobTypeOK([phase |-> "save", rows |-> Restrict(products, read)])
    BY RowsRestricted DEF GJobTypeOK, TablesOK
  <2>3. JobsOK'
    BY <2>1, <2>2, EnterKeeps
  <2> QED
    BY <1>2, <2>3, PartsKept DEF SelectProducts
<1>3. CASE SaveList(w)
  <2>1. ProductTable(gjob[w].rows)
    BY <1>3, JobFields DEF JobsOK, SaveList, AtPhase
  <2>2. ListOK'
    BY <1>3, <2>1 DEF SaveList, ListOK, Cached
  <2>3. JobsOK'
    BY <1>3, IdleOK, EnterKeeps DEF SaveList
  <2> QED
    BY <1>3, <2>2, <2>3, PartsKept DEF SaveList
<1>4. CASE ListExpires
  <2>1. ListOK'
    BY <1>4 DEF ListExpires, ListOK
  <2> QED
    BY <1>4, <2>1, PartsKept DEF ListExpires
<1> QED
  BY <1>1, <1>2, <1>3, <1>4

LEMMA CategoriesKeepTypes ==
    ASSUME CatalogInv, UNCHANGED searchVars, NEW w \in GWorkers,
           \/ \E name \in CategoryNames :
                 CreateCategory(w, name) \/ \E c \in CategoryIds : UpdateCategory(w, c, name)
           \/ \E c \in CategoryIds : DeleteCategory(w, c)
           \/ CheckUnused(w)
           \/ DropCategory(w)
    PROVE  CatalogInv'
<1> USE DEF CatalogInv
<1>1. ASSUME NEW name \in CategoryNames, CreateCategory(w, name)
      PROVE  CatalogInv'
  <2>1. TablesOK'
    BY <1>1, ProductAssumption DEF TablesOK, CreateCategory
  <2> QED
    BY <1>1, <2>1, PartsKept DEF CreateCategory
<1>2. ASSUME NEW name \in CategoryNames, NEW c \in CategoryIds, UpdateCategory(w, c, name)
      PROVE  CatalogInv'
  <2>1. TablesOK'
    BY <1>2 DEF TablesOK, UpdateCategory
  <2> QED
    BY <1>2, <2>1, PartsKept DEF UpdateCategory
<1>3. ASSUME NEW c \in CategoryIds, DeleteCategory(w, c)
      PROVE  CatalogInv'
  <2>1. GJobTypeOK([phase |-> "used", id |-> c])
    BY <1>3, ProductAssumption DEF GJobTypeOK, DeleteCategory, TablesOK
  <2>2. JobsOK'
    BY <1>3, <2>1, EnterKeeps DEF DeleteCategory
  <2> QED
    BY <1>3, <2>2, PartsKept DEF DeleteCategory
<1>4. CASE CheckUnused(w)
  <2>1. GJobTypeOK(IF InUse(gjob[w].id) THEN GIdle ELSE [phase |-> "drop", id |-> gjob[w].id])
    BY <1>4, JobFields DEF GJobTypeOK, CheckUnused, AtPhase, JobsOK
  <2>2. JobsOK'
    BY <1>4, <2>1, EnterKeeps DEF CheckUnused
  <2> QED
    BY <1>4, <2>2, PartsKept DEF CheckUnused
<1>5. CASE DropCategory(w)
  <2>1. TablesOK'
    BY <1>5 DEF TablesOK, DropCategory, Restrict
  <2>2. JobsOK'
    BY <1>5, IdleOK, EnterKeeps DEF DropCategory
  <2> QED
    BY <1>5, <2>1, <2>2, PartsKept DEF DropCategory
<1> QED
  BY <1>1, <1>2, <1>3, <1>4, <1>5

LEMMA StockKeepsTypes ==
    ASSUME CatalogInv, UNCHANGED searchVars, NEW w \in GWorkers,
           \/ \E p \in 1..MaxProducts, q \in Quantities : UpdateStock(w, p, q)
           \/ StoreStock(w)
    PROVE  CatalogInv'
<1> USE DEF CatalogInv
<1>1. ASSUME NEW p \in 1..MaxProducts, NEW q \in Quantities, UpdateStock(w, p, q)
      PROVE  CatalogInv'
  <2>1. GJobTypeOK([phase |-> "stock", product |-> p, quantity |-> q,
                    exists |-> StockRows(p) # {}])
    BY DEF GJobTypeOK
  <2>2. JobsOK'
    BY <1>1, <2>1, EnterKeeps DEF UpdateStock
  <2> QED
    BY <1>1, <2>2, PartsKept DEF UpdateStock
<1>2. CASE StoreStock(w)
  <2> DEFINE Row == [product : 1..MaxProducts, quantity : Quantities]
  <2> PICK row : row = [product |-> gjob[w].product, quantity |-> gjob[w].quantity]
    OBVIOUS
  <2>1. row \in Row /\ stocks \in Seq(Row)
    BY <1>2, JobFields DEF StoreStock, AtPhase, JobsOK, TablesOK
  <2>2. \/ stocks' = [i \in DOMAIN stocks |-> IF i \in StockRows(row.product) THEN row ELSE stocks[i]]
        \/ stocks' = Append(stocks, row)
    BY <1>2 DEF StoreStock
  <2> HIDE DEF Row
  <2>3. stocks' \in Seq(Row)
    BY <2>1, <2>2
  <2>4. TablesOK'
    BY <1>2, <2>3 DEF TablesOK, StoreStock, Row
  <2>5. JobsOK'
    BY <1>2, IdleOK, EnterKeeps DEF StoreStock
  <2> QED
    BY <1>2, <2>4, <2>5, PartsKept DEF StoreStock
<1> QED
  BY <1>1, <1>2

LEMMA ProductStepKeepsTypes ==
    ASSUME CatalogInv, ProductStep
    PROVE  CatalogInv'
<1>1. UNCHANGED searchVars /\ ProductNext
  BY DEF ProductStep
<1>2. ASSUME NEW w \in GWorkers, StatementFails(w)
      PROVE  CatalogInv'
  <2>1. JobsOK'
    BY <1>2, IdleOK, EnterKeeps DEF StatementFails, CatalogInv
  <2> QED
    BY <1>1, <1>2, <2>1, PartsKept DEF StatementFails, CatalogInv
<1>3. CASE ProductServiceCrashes
  <2>1. JobsOK'
    BY <1>3, IdleOK DEF ProductServiceCrashes, JobsOK, GJobTypeOK
  <2> QED
    BY <1>1, <1>3, <2>1, PartsKept DEF ProductServiceCrashes, CatalogInv
<1>4. CASE ListExpires
  <2>1. ListOK'
    BY <1>4 DEF ListExpires, ListOK
  <2> QED
    BY <1>1, <1>4, <2>1, PartsKept DEF ListExpires, CatalogInv
<1>5. ASSUME NEW w \in GWorkers, ProductRequest(w)
      PROVE  CatalogInv'
  BY <1>1, <1>5, ProductWritesKeepTypes, ListingKeepsTypes, CategoriesKeepTypes, StockKeepsTypes
  DEF ProductRequest, CatalogRequest, StockRequest
<1>6. ASSUME NEW w \in GWorkers, ProductHandlerRuns(w) \/ Resend(w)
      PROVE  CatalogInv'
  BY <1>1, <1>6, ProductWritesKeepTypes, PublishingKeepsTypes, ListingKeepsTypes,
     CategoriesKeepTypes, StockKeepsTypes
  DEF ProductHandlerRuns
<1> QED
  BY <1>1, <1>2, <1>3, <1>4, <1>5, <1>6 DEF ProductNext

LEMMA SearchStepKeepsTypes ==
    ASSUME CatalogInv, SearchStep
    PROVE  CatalogInv'
<1> USE DEF CatalogInv
<1>1. UNCHANGED productVars
  BY DEF SearchStep
<1>2. TablesOK' /\ ListOK' /\ LogsOK' /\ JobsOK'
  BY <1>1, PartsKept DEF productVars
<1>3. \A t \in Topics : Len(logs[t]) \in Nat /\ logs[t] \in Seq(ProductEvent(t))
  BY DEF LogsOK
<1>4. logs' = logs
  BY <1>1 DEF productVars
<1>5. ASSUME NEW t \in Topics, ConsumeClaim(t, logs)
      PROVE  SearchOK'
  <2> PICK message : message = logs[t][position[t] + 1]
    OBVIOUS
  <2>1. position[t] + 1 \in 1..Len(logs[t])
    BY <1>3, <1>5 DEF ConsumeClaim, SearchOK, OffsetsOK
  <2>2. message \in ProductEvent(t)
    BY <1>3, <2>1
  <2>3. ProductTable(Indexed(t, message))
    <3>1. CASE t = "product.deleted"
      BY <3>1, RowsRestricted DEF Indexed, DeletingTopics, SearchOK
    <3>2. CASE t # "product.deleted"
      <4>1. message.id \in 1..MaxProducts /\ message.doc \in ProductRow
        BY <2>2, <3>2 DEF ProductEvent
      <4>2. t \notin DeletingTopics
        BY <3>2 DEF DeletingTopics, Topics
      <4> QED
        BY <4>1, <4>2 DEF Indexed, SearchOK, ProductTable
    <3> QED
      BY <3>1, <3>2
  <2>4. ProductTable(index')
    BY <1>5, <2>3 DEF ConsumeClaim, SearchOK
  <2>5. /\ DOMAIN position' = Topics
        /\ \A u \in Topics : position'[u] \in 0..Len(logs[u])
    BY <1>3, <1>5, <2>1 DEF ConsumeClaim, SearchOK, OffsetsOK
  <2> QED
    BY <1>4, <1>5, <2>4, <2>5 DEF ConsumeClaim, SearchOK, SessionOK, OffsetsOK
<1>6. ASSUME NEW t \in Topics, CommitOffset(t)
      PROVE  SearchOK'
  <2>1. /\ DOMAIN committed' = Topics
        /\ \A u \in Topics : committed'[u] \in {NoOffset} \cup 1..Len(logs[u])
    BY <1>3, <1>6 DEF CommitOffset, SearchOK, OffsetsOK
  <2> QED
    BY <1>4, <1>6, <2>1 DEF CommitOffset, SearchOK, SessionOK, OffsetsOK
<1>7. CASE JoinGroup(logs)
  <2>1. /\ DOMAIN position' = Topics
        /\ \A u \in Topics : position'[u] \in 0..Len(logs[u])
    BY <1>3, <1>7, SearchTopicsAssumption DEF JoinGroup, ClaimedAt, SearchOK, OffsetsOK, NoOffset
  <2>2. OffsetsOK'
    BY <1>4, <1>7, <2>1 DEF JoinGroup, SearchOK, OffsetsOK
  <2>3. SessionOK'
    BY <1>7, SearchAssumption DEF JoinGroup, SearchOK, SessionOK
  <2> QED
    BY <1>2, <1>7, <2>2, <2>3 DEF JoinGroup, SearchOK
<1>8. CASE EndSession \/ ElasticsearchFails \/ ElasticsearchRecovers
  <2>1. UNCHANGED <<index, position, committed>>
    BY <1>8 DEF EndSession, ElasticsearchFails, ElasticsearchRecovers
  <2>2. OffsetsOK'
    BY <1>4, <2>1 DEF SearchOK, OffsetsOK
  <2>3. SessionOK'
    BY <1>8 DEF EndSession, ElasticsearchFails, ElasticsearchRecovers, SearchOK, SessionOK
  <2> QED
    BY <1>2, <2>1, <2>2, <2>3 DEF SearchOK
<1> QED
  BY <1>2, <1>5, <1>6, <1>7, <1>8, SearchTopicsAssumption DEF SearchStep, SearchClaims, SearchCommits

LEMMA CatalogStep == CatalogInv /\ [Next]_allVars => CatalogInv'
<1>1. ASSUME CatalogInv, UNCHANGED allVars
      PROVE  CatalogInv'
  BY <1>1, PartsKept DEF allVars, productVars, searchVars, CatalogInv
<1> QED
  BY <1>1, ProductStepKeepsTypes, SearchStepKeepsTypes DEF Next

LEMMA CatalogInit == Init => CatalogInv
<1> SUFFICES ASSUME Init PROVE CatalogInv
  OBVIOUS
<1>1. TablesOK /\ ListOK
  BY ProductAssumption DEF Init, ProductInit, TablesOK, ListOK, ProductTable
<1>2. LogsOK /\ JobsOK
  BY IdleOK DEF Init, ProductInit, LogsOK, JobsOK
<1>3. SearchOK
  BY <1>2, SearchTopicsAssumption, SearchAssumption
  DEF Init, SearchInit, ProductInit, SearchOK, SessionOK, OffsetsOK, ProductTable, LogsOK
<1> QED
  BY <1>1, <1>2, <1>3 DEF CatalogInv

\* Every variable of the product service and of the index has its type, and each
\* claim and committed offset of search-service lies inside the log of its topic.
THEOREM CatalogTypeOKCorrect == Spec => []CatalogTypeOK
<1>1. Spec => []CatalogInv
  BY CatalogInit, CatalogStep, PTL DEF Spec
<1>2. CatalogInv => CatalogTypeOK
  BY SearchTopicsAssumption
  DEF CatalogInv, TablesOK, ListOK, LogsOK, JobsOK, SearchOK, SessionOK, OffsetsOK,
      CatalogTypeOK
<1> QED
  BY <1>1, <1>2, PTL

-----------------------------------------------------------------------------
\* Handlers that are about the list or a category, or end.
OtherStep(w) ==
    \/ ListProducts(w) \/ SelectProducts(w) \/ SaveList(w) \/ CheckUnused(w) \/ DropCategory(w)
    \/ StatementFails(w)
    \/ \E c \in CategoryIds : DeleteCategory(w, c)

LEMMA OtherJobs ==
    ASSUME NEW w \in GWorkers, OtherStep(w)
    PROVE  /\ UNCHANGED <<products, nextProduct, stocks, logs>>
           /\ \E job : GEnter(w, job) /\ job.phase \notin {"delete", "clear", "publish", "stock"}
<1>1. UNCHANGED <<products, nextProduct, stocks, logs>>
  BY DEF OtherStep, ListProducts, SelectProducts, SaveList, CheckUnused, DropCategory,
         StatementFails, DeleteCategory, tableVars
<1> DEFINE Enters == \E job : GEnter(w, job) /\ job.phase \notin {"delete", "clear", "publish", "stock"}
<1>2. GEnter(w, GIdle) => Enters
  BY DEF GIdle
<1>3. CASE SaveList(w) \/ DropCategory(w) \/ StatementFails(w)
  BY <1>1, <1>2, <1>3 DEF SaveList, DropCategory, StatementFails
<1>4. CASE ListProducts(w)
  BY <1>1, <1>4 DEF ListProducts
<1>5. CASE SelectProducts(w)
  BY <1>1, <1>5 DEF SelectProducts
<1>6. CASE CheckUnused(w)
  BY <1>1, <1>2, <1>6 DEF CheckUnused
<1>7. CASE \E c \in CategoryIds : DeleteCategory(w, c)
  BY <1>1, <1>7 DEF DeleteCategory
<1> QED
  BY <1>3, <1>4, <1>5, <1>6, <1>7 DEF OtherStep

-----------------------------------------------------------------------------
(* A deletion is final: the events that say so, and the handlers that are  *)
(* about to say so, are about products that are gone.                      *)

Gone(p) == p < nextProduct /\ p \notin DOMAIN products

Announces(job) == job.phase \in {"clear", "publish"} /\ job.topic = "product.deleted"

JobGone(job) ==
    /\ job.phase = "delete" => job.id < nextProduct
    /\ Announces(job) => Gone(job.event.id)

DeletedInv ==
    /\ \A i \in DOMAIN logs["product.deleted"] : Gone(logs["product.deleted"][i].id)
    /\ \A w \in GWorkers : JobGone(gjob[w])

LEMMA DeletedMessages ==
    ASSUME LogsOK, NEW i \in DOMAIN logs["product.deleted"]
    PROVE  logs["product.deleted"][i].id \in Nat
<1> PICK s : s = logs["product.deleted"]
  OBVIOUS
<1>1. s \in Seq([id : 1..MaxProducts])
  BY DEF LogsOK, Topics, ProductEvent
<1>2. i \in 1..Len(s)
  BY <1>1, LenProperties
<1>3. s[i] \in [id : 1..MaxProducts]
  BY <1>1, <1>2, ElementOfSeq
<1> QED
  BY <1>3, ProductAssumption

\* The serial only grows and its next value is the only id that is inserted.
LEMMA GoneForever ==
    ASSUME CatalogInv, [Next]_allVars
    PROVE  /\ nextProduct' \in Nat /\ nextProduct' >= nextProduct
           /\ DOMAIN products' \subseteq DOMAIN products \cup {nextProduct}
           /\ \A p \in Nat : Gone(p) => Gone(p)'
<1>0. nextProduct \in Nat
  BY DEF CatalogInv, TablesOK
<1>1. \/ UNCHANGED <<products, nextProduct>>
      \/ \E w \in GWorkers : \E c \in CategoryIds, content \in Contents :
            \/ CreateProduct(w, c, content)
            \/ \E p \in DOMAIN products : UpdateProduct(w, p, c, content)
      \/ \E w \in GWorkers : DeleteRow(w)
  <2>1. CASE UNCHANGED allVars
    BY <2>1 DEF allVars, productVars, tableVars
  <2>2. CASE SearchStep
    BY <2>2 DEF SearchStep, productVars, tableVars
  <2>3. CASE ProductStep
    BY <2>3
    DEF ProductStep, ProductNext, ProductRequest, CatalogRequest, StockRequest, ProductHandlerRuns,
        tableVars, DeleteProduct, ListProducts, CreateCategory, UpdateCategory, DeleteCategory,
        UpdateStock, ClearList, Publish, Resend, SelectProducts, SaveList, CheckUnused,
        DropCategory, StoreStock, StatementFails, ListExpires, ProductServiceCrashes
  <2> QED
    BY <2>1, <2>2, <2>3 DEF Next
<1>2. /\ nextProduct' \in Nat /\ nextProduct' >= nextProduct
      /\ DOMAIN products' \subseteq DOMAIN products \cup {nextProduct}
  <2>1. ASSUME NEW w \in GWorkers, NEW c, NEW content, CreateProduct(w, c, content)
        PROVE  nextProduct' = nextProduct + 1 /\ DOMAIN products' = DOMAIN products \cup {nextProduct}
    BY <2>1 DEF CreateProduct
  <2>2. ASSUME NEW w \in GWorkers, NEW c, NEW content, NEW p, UpdateProduct(w, p, c, content)
        PROVE  nextProduct' = nextProduct /\ DOMAIN products' = DOMAIN products
    BY <2>2 DEF UpdateProduct
  <2>3. ASSUME NEW w \in GWorkers, DeleteRow(w)
        PROVE  nextProduct' = nextProduct /\ DOMAIN products' \subseteq DOMAIN products
    BY <2>3 DEF DeleteRow, Restrict
  <2> QED
    BY <1>0, <1>1, <2>1, <2>2, <2>3
<1> QED
  BY <1>0, <1>2 DEF Gone

LEMMA JobGoneKept ==
    ASSUME CatalogInv, [Next]_allVars, NEW job, GJobTypeOK(job), JobGone(job)
    PROVE  JobGone(job)'
<1>1. job.phase = "delete" => job.id \in Nat
  BY JobFields
<1>2. Announces(job) => job.event.id \in Nat
  <2> HAVE Announces(job)
  <2> PICK t \in Topics : job \in [phase : {"clear", "publish"}, topic : {t}, event : ProductEvent(t)]
    BY JobFields DEF Announces
  <2> QED
    BY DEF Announces, ProductEvent
<1>3. nextProduct \in Nat
  BY DEF CatalogInv, TablesOK
<1> QED
  BY <1>1, <1>2, <1>3, GoneForever DEF JobGone, Announces

\* What a handler enters is true of the new state.
LEMMA EntersGone ==
    ASSUME CatalogInv, [Next]_allVars, DeletedInv, NEW w \in GWorkers, NEW job,
           GEnter(w, job), JobGone(job)', UNCHANGED logs
    PROVE  DeletedInv'
<1>1. gjob' = [v \in GWorkers |-> IF v = w THEN job ELSE gjob[v]]
  BY DEF CatalogInv, JobsOK, GEnter
<1>2. ASSUME NEW v \in GWorkers PROVE JobGone(gjob[v])'
  <2>1. JobGone(gjob[v]) /\ GJobTypeOK(gjob[v])
    BY DEF DeletedInv, CatalogInv, JobsOK
  <2>2. CASE v = w
    BY <1>1, <2>2 DEF JobGone, Announces, Gone
  <2>3. CASE v # w
    <3> PICK other : other = gjob[v]
      OBVIOUS
    <3>1. JobGone(other)'
      BY <2>1, JobGoneKept
    <3>2. gjob'[v] = other
      BY <1>1, <2>3
    <3> QED
      BY <3>1, <3>2 DEF JobGone, Announces, Gone
  <2> QED
    BY <2>2, <2>3
<1>3. \A i \in DOMAIN logs["product.deleted"] : logs["product.deleted"][i].id \in Nat
  BY DeletedMessages DEF CatalogInv
<1>4. \A i \in DOMAIN logs["product.deleted"] : Gone(logs["product.deleted"][i].id)'
  BY <1>3, GoneForever DEF DeletedInv, Gone
<1> QED
  BY <1>2, <1>4 DEF DeletedInv, Gone

LEMMA AnnouncementsKept ==
    ASSUME CatalogInv, [Next]_allVars, DeletedInv, UNCHANGED <<gjob, logs>>
    PROVE  DeletedInv'
<1>1. ASSUME NEW v \in GWorkers PROVE JobGone(gjob[v])'
  <2> PICK job : job = gjob[v]
    OBVIOUS
  <2>1. JobGone(job) /\ GJobTypeOK(job)
    BY DEF DeletedInv, CatalogInv, JobsOK
  <2>2. JobGone(job)'
    BY <2>1, JobGoneKept
  <2> QED
    BY <2>2 DEF JobGone, Announces, Gone
<1>2. \A i \in DOMAIN logs["product.deleted"] : logs["product.deleted"][i].id \in Nat
  BY DeletedMessages DEF CatalogInv
<1>3. \A i \in DOMAIN logs["product.deleted"] : Gone(logs["product.deleted"][i].id)'
  BY <1>2, GoneForever DEF DeletedInv, Gone
<1> QED
  BY <1>1, <1>3 DEF DeletedInv, Gone

\* Publish and Resend: what is appended was said by a handler that announces it.
LEMMA PublishKeepsDeleted ==
    ASSUME CatalogInv, [Next]_allVars, DeletedInv, NEW w \in GWorkers, Publish(w) \/ Resend(w)
    PROVE  DeletedInv'
<1> PICK job : job = gjob[w]
  OBVIOUS
<1>1. job.phase = "publish" /\ JobGone(job) /\ GJobTypeOK(job)
  BY DEF Publish, Resend, AtPhase, DeletedInv, CatalogInv, JobsOK
<1>2. PICK t \in Topics : job \in [phase : {"clear", "publish"}, topic : {t}, event : ProductEvent(t)]
  BY <1>1, JobFields
<1>3. UNCHANGED <<products, nextProduct>>
  BY DEF Publish, Resend, tableVars
<1>4. \/ UNCHANGED logs
      \/ logs' = [logs EXCEPT ![t] = Append(@, job.event)]
  BY <1>2 DEF Publish, Resend
<1>5. logs["product.deleted"] \in Seq([id : 1..MaxProducts])
  BY DEF CatalogInv, LogsOK, Topics, ProductEvent
<1>6. \A i \in DOMAIN logs'["product.deleted"] : Gone(logs'["product.deleted"][i].id)
  <2>1. CASE logs'["product.deleted"] = logs["product.deleted"]
    BY <2>1 DEF DeletedInv
  <2>2. CASE t = "product.deleted" /\ logs'["product.deleted"] = Append(logs["product.deleted"], job.event)
    <3>1. Gone(job.event.id)
      BY <1>1, <1>2, <2>2 DEF JobGone, Announces
    <3> QED
      BY <1>5, <2>2, <3>1 DEF DeletedInv
  <2> QED
    <3>1. DOMAIN logs = Topics /\ "product.deleted" \in Topics
      BY DEF CatalogInv, LogsOK, Topics
    <3> QED
      BY <1>4, <2>1, <2>2, <3>1
<1>7. gjob' = [v \in GWorkers |-> IF v = w /\ Publish(w) THEN GIdle ELSE gjob[v]]
  BY DEF Publish, Resend, GEnter, CatalogInv, JobsOK
<1>8. \A v \in GWorkers : JobGone(gjob'[v])
  BY <1>7 DEF DeletedInv, JobGone, Announces, GIdle
<1> QED
  BY <1>3, <1>6, <1>8 DEF DeletedInv, JobGone, Gone

\* The other steps of handlers: the next local variables announce a deletion only
\* after the DELETE.
LEMMA HandlersKeepDeleted ==
    ASSUME CatalogInv, [Next]_allVars, DeletedInv, NEW w \in GWorkers,
           \/ \E c \in CategoryIds, content \in Contents :
                 \/ CreateProduct(w, c, content)
                 \/ \E p \in DOMAIN products : UpdateProduct(w, p, c, content)
           \/ \E p \in DOMAIN products : DeleteProduct(w, p)
           \/ DeleteRow(w)
           \/ ClearList(w)
    PROVE  DeletedInv'
<1>1. ASSUME NEW job, GEnter(w, job), JobGone(job)', UNCHANGED logs
      PROVE  DeletedInv'
  BY <1>1, EntersGone
<1>2. ASSUME NEW t \in Topics \ {"product.deleted"}, NEW e, Changed(w, t, e), UNCHANGED logs
      PROVE  DeletedInv'
  <2> PICK job : job = [phase |-> "clear", topic |-> t, event |-> e]
    OBVIOUS
  <2>1. JobGone(job)'
    BY DEF JobGone, Announces
  <2> QED
    BY <1>2, <2>1, EntersGone DEF Changed
<1>3. ASSUME NEW c, NEW content, CreateProduct(w, c, content)
      PROVE  DeletedInv'
  BY <1>2, <1>3 DEF CreateProduct, Topics
<1>4. ASSUME NEW c, NEW content, NEW p, UpdateProduct(w, p, c, content)
      PROVE  DeletedInv'
  BY <1>2, <1>4 DEF UpdateProduct, Topics
<1>5. ASSUME NEW p \in DOMAIN products, DeleteProduct(w, p)
      PROVE  DeletedInv'
  <2> PICK job : job = [phase |-> "delete", id |-> p]
    OBVIOUS
  <2>1. p < nextProduct /\ UNCHANGED nextProduct
    BY <1>5 DEF CatalogInv, TablesOK, DeleteProduct, tableVars
  <2>2. JobGone(job)'
    BY <2>1 DEF JobGone, Announces
  <2> QED
    BY <1>5, <2>2, EntersGone DEF DeleteProduct
<1>6. CASE DeleteRow(w)
  <2> PICK job : job = [phase |-> "clear", topic |-> "product.deleted",
                        event |-> [id |-> gjob[w].id]]
    OBVIOUS
  <2>1. gjob[w].id < nextProduct
    BY <1>6 DEF DeleteRow, AtPhase, DeletedInv, JobGone
  <2>2. gjob[w].id \notin DOMAIN products' /\ UNCHANGED nextProduct
    BY <1>6 DEF DeleteRow, Restrict
  <2>3. JobGone(job)'
    BY <2>1, <2>2 DEF JobGone, Announces, Gone
  <2> QED
    BY <1>6, <2>3, EntersGone DEF DeleteRow, Changed
<1>7. CASE ClearList(w)
  <2> PICK old, job : old = gjob[w] /\ job = [old EXCEPT !.phase = "publish"]
    OBVIOUS
  <2>1. PICK t \in Topics : old \in [phase : {"clear", "publish"}, topic : {t}, event : ProductEvent(t)]
    BY <1>7, JobFields DEF ClearList, AtPhase, CatalogInv, JobsOK
  <2>2. JobGone(old)
    BY DEF DeletedInv
  <2>3. old.phase = "clear" /\ UNCHANGED <<products, nextProduct>>
    BY <1>7 DEF ClearList, AtPhase, tableVars
  <2>4. JobGone(job)'
    BY <2>1, <2>2, <2>3 DEF JobGone, Announces, Gone
  <2> QED
    BY <1>7, <2>4, EntersGone DEF ClearList
<1> QED
  BY <1>3, <1>4, <1>5, <1>6, <1>7

\* Handlers that neither delete nor publish.
LEMMA OtherJobsKeepDeleted ==
    ASSUME CatalogInv, [Next]_allVars, DeletedInv, NEW w \in GWorkers, UNCHANGED logs,
           NEW job, GEnter(w, job), job.phase \notin {"delete", "clear", "publish"}
    PROVE  DeletedInv'
<1>1. JobGone(job)'
  BY DEF JobGone, Announces
<1> QED
  BY <1>1, EntersGone

LEMMA DeletedStep == CatalogInv /\ DeletedInv /\ [Next]_allVars => DeletedInv'
<1> SUFFICES ASSUME CatalogInv, DeletedInv, [Next]_allVars
             PROVE  DeletedInv'
  OBVIOUS
<1>1. CASE UNCHANGED allVars \/ SearchStep
  BY <1>1, AnnouncementsKept DEF allVars, SearchStep, productVars
<1>2. CASE ProductStep
  <2>1. ASSUME NEW w \in GWorkers, OtherStep(w) \/ StockRequest(w) \/ StoreStock(w)
        PROVE  DeletedInv'
    <3>1. UNCHANGED logs
      BY <2>1, OtherJobs DEF StockRequest, UpdateStock, StoreStock
    <3>2. CASE StockRequest(w)
      BY <3>1, <3>2, OtherJobsKeepDeleted DEF StockRequest, UpdateStock
    <3>3. CASE StoreStock(w)
      <4>1. GEnter(w, GIdle) /\ GIdle.phase = "idle"
        BY <3>3 DEF StoreStock, GIdle
      <4> QED
        BY <3>1, <4>1, OtherJobsKeepDeleted
    <3>4. CASE OtherStep(w)
      BY <3>1, <3>4, OtherJobs, OtherJobsKeepDeleted
    <3> QED
      BY <2>1, <3>2, <3>3, <3>4
  <2>2. ASSUME NEW w \in GWorkers, NEW name \in CategoryNames,
               CreateCategory(w, name) \/ \E c \in CategoryIds : UpdateCategory(w, c, name)
        PROVE  DeletedInv'
    BY <2>2, AnnouncementsKept DEF CreateCategory, UpdateCategory
  <2>3. CASE ListExpires
    BY <2>3, AnnouncementsKept DEF ListExpires
  <2>4. CASE ProductServiceCrashes
    <3>1. \A v \in GWorkers : JobGone(gjob[v])'
      BY <2>4 DEF ProductServiceCrashes, JobGone, Announces, GIdle
    <3> QED
      BY <2>4, <3>1 DEF ProductServiceCrashes, DeletedInv, Gone, tableVars
  <2>5. ASSUME NEW w \in GWorkers, ProductRequest(w)
        PROVE  DeletedInv'
    BY <2>1, <2>2, <2>5, HandlersKeepDeleted DEF ProductRequest, CatalogRequest, OtherStep
  <2>6. ASSUME NEW w \in GWorkers, ProductHandlerRuns(w) \/ Resend(w) \/ StatementFails(w)
        PROVE  DeletedInv'
    BY <2>1, <2>6, HandlersKeepDeleted, PublishKeepsDeleted DEF ProductHandlerRuns, OtherStep
  <2> QED
    BY <1>2, <2>3, <2>4, <2>5, <2>6 DEF ProductStep, ProductNext
<1> QED
  BY <1>1, <1>2 DEF Next

\* Whoever reads "product.deleted" may forget the product for good: DeleteProduct
\* sends it after its DELETE, and no id is used twice, whatever the handlers that
\* still work on the product do.
THEOREM DeletedIsFinalCorrect == Spec => []DeletedIsFinal
<1>1. Init => DeletedInv
  BY DEF Init, ProductInit, DeletedInv, JobGone, Announces, GIdle, Topics
<1>2. Spec => []DeletedInv
  BY <1>1, CatalogInit, CatalogStep, DeletedStep, PTL DEF Spec
<1>3. DeletedInv => DeletedIsFinal
  BY DEF DeletedInv, DeletedIsFinal, Gone
<1> QED
  BY <1>2, <1>3, PTL

-----------------------------------------------------------------------------
(* The rows of stocks: a handler adds one only if it looked before there   *)
(* was any, and those that looked so early are handlers, each counted once. *)

Late(p) == {w \in GWorkers : AtPhase(w, "stock") /\ gjob[w].product = p /\ ~gjob[w].exists}

LEMMA StockCounts ==
    ASSUME CatalogInv, NEW p
    PROVE  /\ IsFiniteSet(StockRows(p)) /\ Cardinality(StockRows(p)) \in Nat
           /\ IsFiniteSet(Late(p)) /\ Cardinality(Late(p)) \in Nat
           /\ Cardinality(Late(p)) <= Cardinality(GWorkers)
           /\ Cardinality(GWorkers) \in Nat
<1>1. Len(stocks) \in Nat /\ DOMAIN stocks = 1..Len(stocks)
  BY DEF CatalogInv, TablesOK
<1>2. IsFiniteSet(1..Len(stocks))
  BY <1>1, FS_Interval
<1>3. StockRows(p) \in SUBSET (1..Len(stocks)) /\ Late(p) \in SUBSET GWorkers
  BY <1>1 DEF StockRows, Late
<1> QED
  BY <1>2, <1>3, FS_Subset, FS_CardinalityType, ProductAssumption

\* Fewer handlers that looked too early, and the same rows.
LEMMA FewerLate ==
    ASSUME CatalogInv, NEW p, StockRows(p)' = StockRows(p), Late(p)' \subseteq Late(p),
           Cardinality(StockRows(p)) + Cardinality(Late(p)) <= Cardinality(GWorkers)
    PROVE  (Cardinality(StockRows(p)) + Cardinality(Late(p)) <= Cardinality(GWorkers))'
<1> PICK late, now : late = Late(p) /\ now = Late(p)'
  OBVIOUS
<1>1. IsFiniteSet(late) /\ now \in SUBSET late
  BY StockCounts
<1>2. Cardinality(now) <= Cardinality(late) /\ Cardinality(now) \in Nat
  BY <1>1, FS_Subset, FS_CardinalityType
<1> QED
  BY <1>2, StockCounts

LEMMA RowsStay ==
    ASSUME CatalogInv, StockRowsAreBounded,
           \A p : StockRows(p)' = StockRows(p), \A p : Late(p)' \subseteq Late(p)
    PROVE  StockRowsAreBounded'
<1>1. ASSUME NEW p \in 1..MaxProducts
      PROVE  (Cardinality(StockRows(p)) + Cardinality(Late(p)) <= Cardinality(GWorkers))'
  <2>1. Cardinality(StockRows(p)) + Cardinality(Late(p)) <= Cardinality(GWorkers)
    BY DEF StockRowsAreBounded, Late
  <2>2. StockRows(p)' = StockRows(p) /\ Late(p)' \subseteq Late(p)
    OBVIOUS
  <2> QED
    BY <2>1, <2>2, FewerLate
<1> QED
  BY <1>1 DEF StockRowsAreBounded, Late

\* A handler that goes on to anything but an INSERT of stock.
LEMMA NotLate ==
    ASSUME CatalogInv, UNCHANGED stocks, NEW w \in GWorkers, NEW job, GEnter(w, job),
           job.phase # "stock" \/ job.exists, StockRowsAreBounded
    PROVE  StockRowsAreBounded'
<1>1. gjob' = [v \in GWorkers |-> IF v = w THEN job ELSE gjob[v]]
  BY DEF CatalogInv, JobsOK, GEnter
<1>2. \A p : Late(p)' \subseteq Late(p)
  BY <1>1 DEF Late, AtPhase
<1>3. \A p : StockRows(p)' = StockRows(p)
  BY DEF StockRows
<1> QED
  BY <1>2, <1>3, RowsStay

\* Handlers that do not move.
LEMMA NobodyLate ==
    ASSUME CatalogInv, UNCHANGED stocks, UNCHANGED gjob, StockRowsAreBounded
    PROVE  StockRowsAreBounded'
BY DEF StockRowsAreBounded, StockRows, AtPhase

LEMMA UpdateStockKeepsRows ==
    ASSUME CatalogInv, StockRowsAreBounded, NEW w \in GWorkers,
           NEW q \in 1..MaxProducts, NEW n, UpdateStock(w, q, n)
    PROVE  StockRowsAreBounded'
<1> PICK job : job = [phase |-> "stock", product |-> q, quantity |-> n, exists |-> StockRows(q) # {}]
  OBVIOUS
<1>1. UNCHANGED stocks /\ GEnter(w, job)
  BY DEF UpdateStock, tableVars
<1>2. CASE StockRows(q) # {}
  <2>1. job.exists
    BY <1>2
  <2> QED
    BY <1>1, <2>1, NotLate
<1>3. CASE StockRows(q) = {}
  <2>1. gjob' = [v \in GWorkers |-> IF v = w THEN job ELSE gjob[v]]
    BY <1>1 DEF CatalogInv, JobsOK, GEnter
  <2>2. ASSUME NEW p \in 1..MaxProducts
        PROVE  (Cardinality(StockRows(p)) + Cardinality(Late(p)) <= Cardinality(GWorkers))'
    <3>1. StockRows(p)' = StockRows(p)
      BY <1>1 DEF StockRows
    <3>2. CASE p = q
      <4>1. Cardinality(StockRows(p)') = 0
        BY <1>3, <3>1, <3>2, FS_EmptySet
      <4>2. Late(p)' \in SUBSET GWorkers
        BY DEF Late
      <4>3. Cardinality(Late(p)') <= Cardinality(GWorkers) /\ Cardinality(Late(p)') \in Nat
        BY <4>2, FS_Subset, FS_CardinalityType, ProductAssumption
      <4> QED
        BY <4>1, <4>3
    <3>3. CASE p # q
      <4>1. Late(p)' \subseteq Late(p)
        BY <2>1, <3>3 DEF Late, AtPhase
      <4> QED
        BY <3>1, <4>1, FewerLate DEF StockRowsAreBounded, Late
    <3> QED
      BY <3>2, <3>3
  <2> QED
    BY <2>2 DEF StockRowsAreBounded, Late
<1> QED
  BY <1>2, <1>3

LEMMA StoreStockKeepsRows ==
    ASSUME CatalogInv, StockRowsAreBounded, NEW w \in GWorkers, StoreStock(w)
    PROVE  StockRowsAreBounded'
<1> PICK q, n, row : q = gjob[w].product /\ n = gjob[w].quantity
                     /\ row = [product |-> q, quantity |-> n]
  OBVIOUS
<1> DEFINE Row == [product : 1..MaxProducts, quantity : Quantities]
<1>1. row \in Row /\ stocks \in Seq(Row) /\ AtPhase(w, "stock") /\ gjob[w].exists \in BOOLEAN
  BY JobFields DEF StoreStock, AtPhase, CatalogInv, JobsOK, TablesOK
<1>2. gjob' = [v \in GWorkers |-> IF v = w THEN GIdle ELSE gjob[v]]
  BY DEF StoreStock, CatalogInv, JobsOK, GEnter
<1>3. \A p : Late(p)' = Late(p) \ {w}
  BY <1>2 DEF Late, AtPhase, GIdle
<1>4. CASE gjob[w].exists
  <2>1. stocks' = [i \in DOMAIN stocks |-> IF i \in StockRows(q) THEN row ELSE stocks[i]]
    BY <1>4 DEF StoreStock
  <2>2. \A p : StockRows(p)' = StockRows(p)
    BY <2>1 DEF StockRows
  <2>3. \A p : Late(p)' \subseteq Late(p)
    BY <1>3
  <2> QED
    BY <2>2, <2>3, RowsStay
<1>5. CASE ~gjob[w].exists
  <2>1. stocks' = Append(stocks, row)
    BY <1>5 DEF StoreStock
  <2> HIDE DEF Row
  <2>2. /\ Len(stocks) \in Nat /\ DOMAIN stocks = 1..Len(stocks)
        /\ DOMAIN stocks' = 1..(Len(stocks) + 1)
        /\ \A i \in 1..Len(stocks) : stocks'[i] = stocks[i]
        /\ stocks'[Len(stocks) + 1] = row
    BY <1>1, <2>1
  <2>3. ASSUME NEW p \in 1..MaxProducts
        PROVE  (Cardinality(StockRows(p)) + Cardinality(Late(p)) <= Cardinality(GWorkers))'
    <3>1. CASE p = q
      <4>1. StockRows(p)' = StockRows(p) \cup {Len(stocks) + 1} /\ Len(stocks) + 1 \notin StockRows(p)
        BY <2>2, <3>1 DEF StockRows
      <4>2. Cardinality(StockRows(p)') = Cardinality(StockRows(p)) + 1
        BY <4>1, StockCounts, FS_AddElement
      <4>3. w \in Late(p)
        BY <1>1, <1>5, <3>1 DEF Late
      <4>4. Cardinality(Late(p)') = Cardinality(Late(p)) - 1
        BY <1>3, <4>3, StockCounts, FS_RemoveElement
      <4>5. Cardinality(StockRows(p)) + Cardinality(Late(p)) <= Cardinality(GWorkers)
        BY DEF StockRowsAreBounded, Late
      <4> QED
        BY <4>2, <4>4, <4>5, StockCounts
    <3>2. CASE p # q
      <4>1. StockRows(p)' = StockRows(p)
        BY <2>2, <3>2 DEF StockRows
      <4>2. Late(p)' \subseteq Late(p)
        BY <1>3
      <4> QED
        BY <4>1, <4>2, FewerLate DEF StockRowsAreBounded, Late
    <3> QED
      BY <3>1, <3>2
  <2> QED
    BY <2>3 DEF StockRowsAreBounded, Late
<1> QED
  BY <1>1, <1>4, <1>5

LEMMA StockStep == CatalogInv /\ StockRowsAreBounded /\ [Next]_allVars => StockRowsAreBounded'
<1> SUFFICES ASSUME CatalogInv, StockRowsAreBounded, [Next]_allVars
             PROVE  StockRowsAreBounded'
  OBVIOUS
<1>1. CASE UNCHANGED allVars \/ SearchStep
  BY <1>1, NobodyLate DEF allVars, SearchStep, productVars, tableVars
<1>2. CASE ProductStep
  <2>1. ASSUME NEW w \in GWorkers, UNCHANGED stocks,
               \E job : GEnter(w, job) /\ (job.phase # "stock" \/ job.exists)
        PROVE  StockRowsAreBounded'
    BY <2>1, NotLate
  <2>2. ASSUME NEW w \in GWorkers,
               \/ \E c \in CategoryIds, content \in Contents :
                     \/ CreateProduct(w, c, content)
                     \/ \E p \in DOMAIN products : UpdateProduct(w, p, c, content)
               \/ \E p \in DOMAIN products : DeleteProduct(w, p)
               \/ DeleteRow(w) \/ ClearList(w)
        PROVE  StockRowsAreBounded'
    <3>1. UNCHANGED stocks
      BY <2>2 DEF CreateProduct, UpdateProduct, DeleteProduct, DeleteRow, ClearList, tableVars
    <3>2. \E job : GEnter(w, job) /\ job.phase # "stock"
      <4>1. ASSUME NEW t, NEW e, Changed(w, t, e)
            PROVE  \E job : GEnter(w, job) /\ job.phase # "stock"
        BY <4>1 DEF Changed
      <4>2. CASE ClearList(w)
        <5>1. PICK t \in Topics : gjob[w] \in [phase : {"clear", "publish"}, topic : {t},
                                               event : ProductEvent(t)]
          BY <4>2, JobFields DEF ClearList, AtPhase, CatalogInv, JobsOK
        <5>2. [gjob[w] EXCEPT !.phase = "publish"].phase = "publish"
          BY <5>1
        <5> QED
          BY <4>2, <5>2 DEF ClearList
      <4>3. CASE \E p \in DOMAIN products : DeleteProduct(w, p)
        BY <4>3 DEF DeleteProduct
      <4> QED
        BY <2>2, <4>1, <4>2, <4>3 DEF CreateProduct, UpdateProduct, DeleteRow
    <3> QED
      BY <2>1, <3>1, <3>2
  <2>3. ASSUME NEW w \in GWorkers, Publish(w) \/ Resend(w)
        PROVE  StockRowsAreBounded'
    <3>1. UNCHANGED stocks /\ (GEnter(w, GIdle) \/ UNCHANGED gjob)
      BY <2>3 DEF Publish, Resend, tableVars
    <3>2. GIdle.phase # "stock"
      BY DEF GIdle
    <3> QED
      BY <2>1, <3>1, <3>2, NobodyLate
  <2>4. ASSUME NEW w \in GWorkers, OtherStep(w)
        PROVE  StockRowsAreBounded'
    BY <2>1, <2>4, OtherJobs
  <2>5. ASSUME NEW w \in GWorkers, NEW name \in CategoryNames,
               CreateCategory(w, name) \/ \E c \in CategoryIds : UpdateCategory(w, c, name)
        PROVE  StockRowsAreBounded'
    BY <2>5, NobodyLate DEF CreateCategory, UpdateCategory
  <2>6. CASE ListExpires
    BY <2>6, NobodyLate DEF ListExpires, tableVars
  <2>7. CASE ProductServiceCrashes
    <3>1. UNCHANGED stocks /\ \A p : Late(p)' = {}
      BY <2>7 DEF ProductServiceCrashes, tableVars, Late, AtPhase, GIdle
    <3>2. \A p : StockRows(p)' = StockRows(p) /\ Late(p)' \subseteq Late(p)
      BY <3>1 DEF StockRows
    <3> QED
      BY <3>2, RowsStay
  <2>8. ASSUME NEW w \in GWorkers, ProductRequest(w)
        PROVE  StockRowsAreBounded'
    BY <2>2, <2>4, <2>5, <2>8, UpdateStockKeepsRows
    DEF ProductRequest, CatalogRequest, StockRequest, OtherStep
  <2>9. ASSUME NEW w \in GWorkers, ProductHandlerRuns(w) \/ Resend(w) \/ StatementFails(w)
        PROVE  StockRowsAreBounded'
    BY <2>2, <2>3, <2>4, <2>9, StoreStockKeepsRows DEF ProductHandlerRuns, OtherStep
  <2> QED
    BY <1>2, <2>6, <2>7, <2>8, <2>9 DEF ProductStep, ProductNext
<1> QED
  BY <1>1, <1>2 DEF Next

\* UpdateStock looks for the row and inserts one later, and no index of stocks is
\* unique: yet there are never more rows of a product than handlers, however many
\* requests come, since a row once found is found for ever.
THEOREM StockRowsAreBoundedCorrect == Spec => []StockRowsAreBounded
<1>1. Init => StockRowsAreBounded
  <2> SUFFICES ASSUME Init, NEW p \in 1..MaxProducts
               PROVE  Cardinality(StockRows(p)) + Cardinality(Late(p)) <= Cardinality(GWorkers)
    BY DEF StockRowsAreBounded, Late
  <2>1. StockRows(p) = {}
    BY DEF Init, ProductInit, StockRows
  <2> QED
    BY <2>1, CatalogInit, StockCounts, FS_EmptySet
<1> QED
  BY <1>1, CatalogInit, CatalogStep, StockStep, PTL DEF Spec

-----------------------------------------------------------------------------
(* The list of products: a ListCache, whose readers are the handlers in     *)
(* phase "save".                                                            *)

Shown == IF list.cached THEN Cached(RowSet(list.rows)) ELSE NoList

Held ==
    [w \in GWorkers |-> IF AtPhase(w, "save") THEN Cached(RowSet(gjob[w].rows)) ELSE NoList]

\* The steps, as the list sees them.
ListRests == UNCHANGED <<list, Held>>

ListGoes == list' = NoList /\ UNCHANGED <<products, Held>>

ListIsRead(w) ==
    /\ \E read \in SUBSET DOMAIN products :
          Held' = [Held EXCEPT ![w] = Cached(RowSet(Restrict(products, read)))]
    /\ UNCHANGED <<products, list>>

ListIsSet(w) ==
    /\ AtPhase(w, "save")
    /\ list' = Cached(gjob[w].rows) \/ UNCHANGED list
    /\ Held' = [Held EXCEPT ![w] = NoList]
    /\ UNCHANGED products

ReadersDie == Held' = [w \in GWorkers |-> NoList] /\ UNCHANGED <<products, list>>

\* A handler that neither had a copy of the rows nor has one now.
LEMMA NoCopy ==
    ASSUME JobsOK, NEW w \in GWorkers, NEW job, GEnter(w, job),
           ~AtPhase(w, "save"), job.phase # "save"
    PROVE  UNCHANGED Held
BY DEF JobsOK, GEnter, AtPhase, Held

LEMMA WritesRestList ==
    ASSUME JobsOK, NEW w \in GWorkers,
           \/ \E c \in CategoryIds, content \in Contents :
                 \/ CreateProduct(w, c, content)
                 \/ \E p \in DOMAIN products : UpdateProduct(w, p, c, content)
           \/ \E p \in DOMAIN products : DeleteProduct(w, p)
           \/ DeleteRow(w) \/ ListProducts(w)
           \/ \E c \in CategoryIds : DeleteCategory(w, c)
           \/ CheckUnused(w) \/ DropCategory(w) \/ Publish(w)
           \/ StockRequest(w) \/ StoreStock(w) \/ StatementFails(w)
    PROVE  ListRests
<1>1. UNCHANGED list
  BY DEF CreateProduct, UpdateProduct, DeleteProduct, DeleteRow, ListProducts, DeleteCategory,
         CheckUnused, DropCategory, Publish, StockRequest, UpdateStock, StoreStock, StatementFails
<1>2. ~AtPhase(w, "save")
  BY DEF CreateProduct, UpdateProduct, DeleteProduct, DeleteRow, ListProducts, DeleteCategory,
         CheckUnused, DropCategory, Publish, StockRequest, UpdateStock, StoreStock, StatementFails,
         AtPhase
<1>3. \E job : GEnter(w, job) /\ job.phase # "save"
  <2> DEFINE Enters == \E job : GEnter(w, job) /\ job.phase # "save"
  <2>1. GEnter(w, GIdle) => Enters
    BY DEF GIdle
  <2>2. ASSUME NEW topic, NEW event, Changed(w, topic, event)
        PROVE  Enters
    BY <2>2 DEF Changed
  <2>3. CASE Publish(w) \/ DropCategory(w) \/ StoreStock(w) \/ StatementFails(w)
    BY <2>1, <2>3 DEF Publish, DropCategory, StoreStock, StatementFails
  <2>4. CASE \E c \in CategoryIds, content \in Contents :
                \/ CreateProduct(w, c, content)
                \/ \E p \in DOMAIN products : UpdateProduct(w, p, c, content)
    BY <2>2, <2>4 DEF CreateProduct, UpdateProduct
  <2>5. CASE DeleteRow(w)
    BY <2>2, <2>5 DEF DeleteRow
  <2>6. CASE \E p \in DOMAIN products : DeleteProduct(w, p)
    BY <2>6 DEF DeleteProduct
  <2>7. CASE \E c \in CategoryIds : DeleteCategory(w, c)
    BY <2>7 DEF DeleteCategory
  <2>8. CASE ListProducts(w)
    BY <2>8 DEF ListProducts
  <2>9. CASE CheckUnused(w)
    BY <2>1, <2>9 DEF CheckUnused
  <2>10. CASE StockRequest(w)
    BY <2>10 DEF StockRequest, UpdateStock
  <2> HIDE DEF Enters
  <2> QED
    BY <2>3, <2>4, <2>5, <2>6, <2>7, <2>8, <2>9, <2>10
<1> QED
  BY <1>1, <1>2, <1>3, NoCopy DEF ListRests

LEMMA ListSteps ==
    ASSUME CatalogInv, [Next]_allVars
    PROVE  \/ ListRests \/ ListGoes \/ ReadersDie
           \/ \E w \in GWorkers : ListIsRead(w) \/ ListIsSet(w)
<1>0. JobsOK
  BY DEF CatalogInv
<1>1. CASE UNCHANGED <<list, gjob>>
  BY <1>1 DEF ListRests, Held, AtPhase
<1>2. ASSUME NEW w \in GWorkers, ClearList(w)
      PROVE  ListRests \/ ListGoes
  <2> PICK job : job = [gjob[w] EXCEPT !.phase = "publish"]
    OBVIOUS
  <2>1. job.phase # "save" /\ ~AtPhase(w, "save") /\ GEnter(w, job)
    <3>1. GJobTypeOK(gjob[w]) /\ gjob[w].phase = "clear"
      BY <1>0, <1>2 DEF JobsOK, ClearList, AtPhase
    <3>2. \E t \in Topics : gjob[w] \in [phase : {"clear", "publish"}, topic : {t},
                                            event : ProductEvent(t)]
      BY <3>1, JobFields
    <3>3. job.phase = "publish"
      BY <3>2
    <3> QED
      BY <1>2, <3>1, <3>3 DEF ClearList, AtPhase
  <2>2. UNCHANGED Held
    BY <1>0, <2>1, NoCopy
  <2> QED
    BY <1>2, <2>2 DEF ClearList, tableVars, ListRests, ListGoes
<1>3. ASSUME NEW w \in GWorkers, SelectProducts(w)
      PROVE  ListIsRead(w)
  <2>1. PICK read \in SUBSET DOMAIN products :
           GEnter(w, [phase |-> "save", rows |-> Restrict(products, read)])
    BY <1>3 DEF SelectProducts
  <2>2. Held' = [Held EXCEPT ![w] = Cached(RowSet(Restrict(products, read)))]
    <3> PICK copy : copy = Restrict(products, read)
      OBVIOUS
    <3>1. gjob' = [v \in GWorkers |-> IF v = w THEN [phase |-> "save", rows |-> copy] ELSE gjob[v]]
      BY <1>0, <2>1 DEF JobsOK, GEnter
    <3> QED
      BY <3>1 DEF Held, AtPhase
  <2> QED
    BY <1>3, <2>2 DEF SelectProducts, tableVars, ListIsRead
<1>4. ASSUME NEW w \in GWorkers, SaveList(w)
      PROVE  ListIsSet(w)
  <2>1. gjob' = [v \in GWorkers |-> IF v = w THEN GIdle ELSE gjob[v]]
    BY <1>0, <1>4 DEF SaveList, JobsOK, GEnter
  <2>2. Held' = [Held EXCEPT ![w] = NoList]
    BY <2>1 DEF Held, AtPhase, GIdle
  <2> QED
    BY <1>4, <2>2 DEF SaveList, tableVars, ListIsSet
<1>5. CASE ListExpires
  BY <1>5 DEF ListExpires, tableVars, ListGoes, Held, AtPhase
<1>6. CASE ProductServiceCrashes
  <2>1. Held' = [w \in GWorkers |-> NoList]
    BY <1>6 DEF ProductServiceCrashes, Held, AtPhase, GIdle
  <2> QED
    BY <1>6, <2>1 DEF ProductServiceCrashes, tableVars, ReadersDie
<1>7. ASSUME NEW w \in GWorkers, CatalogRequest(w)
      PROVE  ListRests
  <2>1. ASSUME NEW name \in CategoryNames,
               CreateCategory(w, name) \/ \E c \in CategoryIds : UpdateCategory(w, c, name)
        PROVE  UNCHANGED <<list, gjob>>
    BY <2>1 DEF CreateCategory, UpdateCategory
  <2>2. UNCHANGED <<list, gjob>> => ListRests
    BY DEF ListRests, Held, AtPhase
  <2> QED
    BY <1>0, <1>7, <2>1, <2>2, WritesRestList DEF CatalogRequest
<1>8. ASSUME NEW w \in GWorkers, Resend(w)
      PROVE  UNCHANGED <<list, gjob>>
  BY <1>8 DEF Resend
<1>9. ASSUME NEW w \in GWorkers, StockRequest(w) \/ StatementFails(w) \/ DeleteRow(w) \/ Publish(w)
                                  \/ CheckUnused(w) \/ DropCategory(w) \/ StoreStock(w)
      PROVE  ListRests
  BY <1>0, <1>9, WritesRestList
<1>10. CASE SearchStep \/ UNCHANGED allVars
  BY <1>1, <1>10 DEF SearchStep, allVars, productVars
<1>11. CASE ProductStep
  BY <1>1, <1>2, <1>3, <1>4, <1>5, <1>6, <1>7, <1>8, <1>9, <1>11
  DEF ProductStep, ProductNext, ProductRequest, ProductHandlerRuns
<1> QED
  BY <1>10, <1>11 DEF Next

\* The same steps, in the words of ListCache.
LEMMA ListRefines ==
    ASSUME CatalogInv, [Next]_allVars
    PROVE  [ListOfProducts!Next]_(ListOfProducts!listCacheVars)
<1> DEFINE CacheNext == ListOfProducts!Next
<1>0. /\ ListOfProducts!NoList = NoList
      /\ \A copy : ListOfProducts!Cached(copy) = Cached(copy)
  BY DEF NoList, Cached, ListOfProducts!NoList, ListOfProducts!Cached
<1>1. CASE ListRests
  <2>1. UNCHANGED <<Shown, Held>>
    BY <1>1 DEF ListRests, Shown
  <2> QED
    BY <2>1 DEF ListOfProducts!Next, ListOfProducts!Write, Shown, Held
<1>2. CASE ListGoes
  <2>1. Shown' = NoList /\ UNCHANGED <<RowSet(products), Held>>
    BY <1>2 DEF ListGoes, Shown, NoList, RowSet
  <2>2. ListOfProducts!Vanish
    BY <1>0, <2>1 DEF ListOfProducts!Vanish, Shown, Held
  <2> QED
    BY <2>2 DEF ListOfProducts!Next
<1>3. CASE ReadersDie
  <2>1. UNCHANGED <<RowSet(products), Shown>>
    BY <1>3 DEF ReadersDie, Shown, RowSet
  <2>2. Held' = [r \in GWorkers |-> IF r \in GWorkers THEN NoList ELSE Held[r]]
    BY <1>3 DEF ReadersDie
  <2>3. ListOfProducts!Abandon
    BY <1>0, <2>1, <2>2 DEF ListOfProducts!Abandon, Shown, Held
  <2> QED
    BY <2>3 DEF ListOfProducts!Next
<1>4. ASSUME NEW w \in GWorkers, ListIsRead(w)
      PROVE  CacheNext
  <2>1. PICK read \in SUBSET DOMAIN products :
           Held' = [Held EXCEPT ![w] = Cached(RowSet(Restrict(products, read)))]
    BY <1>4 DEF ListIsRead
  <2> DEFINE copy == RowSet(Restrict(products, read))
  <2>2. copy \subseteq RowSet(products)
    BY DEF RowSet, Restrict
  <2>3. UNCHANGED <<RowSet(products), Shown>>
    BY <1>4 DEF ListIsRead, Shown, RowSet
  <2>4. ListOfProducts!TakeRows(w, copy)
    BY <1>0, <2>1, <2>2, <2>3 DEF ListOfProducts!TakeRows, Shown, Held
  <2> HIDE DEF copy
  <2>5. CASE copy = RowSet(products)
    BY <2>4, <2>5 DEF ListOfProducts!Next, ListOfProducts!Take
  <2>6. CASE copy # RowSet(products)
    <3>1. copy \in (SUBSET RowSet(products)) \ {RowSet(products)}
      BY <2>2, <2>6
    <3>2. ListOfProducts!TakePart(w)
      BY <2>4, <3>1 DEF ListOfProducts!TakePart
    <3> QED
      BY <3>2 DEF ListOfProducts!Next
  <2> QED
    BY <2>5, <2>6
<1>5. ASSUME NEW w \in GWorkers, ListIsSet(w)
      PROVE  CacheNext
  <2>1. UNCHANGED RowSet(products) /\ Held' = [Held EXCEPT ![w] = NoList]
    BY <1>5 DEF ListIsSet, RowSet
  <2>2. Held[w] = Cached(RowSet(gjob[w].rows))
    BY <1>5 DEF ListIsSet, Held
  <2>3. CASE list' = Cached(gjob[w].rows)
    <3>1. Shown' = Cached(RowSet(gjob[w].rows)) /\ Held[w].cached
      BY <2>2, <2>3 DEF Shown, Cached
    <3>2. ListOfProducts!Fill(w)
      BY <1>0, <2>1, <2>2, <3>1 DEF ListOfProducts!Fill, Shown, Held
    <3> QED
      BY <3>2 DEF ListOfProducts!Next
  <2>4. CASE UNCHANGED list
    <3>1. UNCHANGED Shown
      BY <2>4 DEF Shown
    <3>2. Held' = [r \in GWorkers |-> IF r \in {w} THEN NoList ELSE Held[r]]
      BY <2>1 DEF Held
    <3>3. ListOfProducts!Abandon
      BY <1>0, <2>1, <3>1, <3>2 DEF ListOfProducts!Abandon, Shown, Held
    <3> QED
      BY <3>3 DEF ListOfProducts!Next
  <2> QED
    BY <1>5, <2>3, <2>4 DEF ListIsSet
<1> QED
  BY <1>1, <1>2, <1>3, <1>4, <1>5, ListSteps

\* What ListProducts answers is a set of rows that the table held at one moment, or
\* a part of it: whatever is created, updated or deleted meanwhile, whichever Del
\* or Set fails, and wherever the process dies.
THEOREM ListIsCacheCorrect == Spec => ListIsCache
<1>1. Init => ListOfProducts!Init
  BY DEF Init, ProductInit, ListOfProducts!Init, NoList, ListOfProducts!NoList, AtPhase, GIdle
<1> QED
  BY <1>1, CatalogInit, CatalogStep, ListRefines, PTL DEF Spec, ListIsCache, ListOfProducts!Spec

-----------------------------------------------------------------------------
(* How the list gets outdated. *)

\* The three statements that write products leave their handler before its Del.
LEMMA ProductWrites ==
    ASSUME CatalogInv, [Next]_allVars, products' # products
    PROVE  \E w \in GWorkers : ~AtPhase(w, "clear") /\ AtPhase(w, "clear")'
<1>1. ASSUME NEW w \in GWorkers, NEW topic, NEW event, Changed(w, topic, event),
             ~AtPhase(w, "clear")
      PROVE  ~AtPhase(w, "clear") /\ AtPhase(w, "clear")'
  BY <1>1 DEF Changed, GEnter, AtPhase, CatalogInv, JobsOK
<1>2. ASSUME NEW w \in GWorkers, NEW c, NEW content, NEW p,
             CreateProduct(w, c, content) \/ UpdateProduct(w, p, c, content)
      PROVE  ~AtPhase(w, "clear") /\ AtPhase(w, "clear")'
  <2>1. AtPhase(w, "idle")
    BY <1>2 DEF CreateProduct, UpdateProduct
  <2>2. ~AtPhase(w, "clear")
    BY <2>1 DEF AtPhase
  <2> QED
    BY <1>1, <1>2, <2>2 DEF CreateProduct, UpdateProduct
<1>3. ASSUME NEW w \in GWorkers, DeleteRow(w)
      PROVE  ~AtPhase(w, "clear") /\ AtPhase(w, "clear")'
  <2>1. ~AtPhase(w, "clear")
    BY <1>3 DEF DeleteRow, AtPhase
  <2> QED
    BY <1>1, <1>3, <2>1 DEF DeleteRow
<1>4. ProductStep
  BY DEF Next, SearchStep, allVars, productVars, tableVars
<1>5. ASSUME NEW w \in GWorkers, ProductRequest(w)
      PROVE  \E c, content, p : CreateProduct(w, c, content) \/ UpdateProduct(w, p, c, content)
  BY <1>5
  DEF ProductRequest, CatalogRequest, StockRequest, DeleteProduct, ListProducts, CreateCategory,
      UpdateCategory, DeleteCategory, UpdateStock, tableVars
<1>6. ASSUME NEW w \in GWorkers, ProductHandlerRuns(w)
      PROVE  DeleteRow(w)
  BY <1>6
  DEF ProductHandlerRuns, ClearList, Publish, SelectProducts, SaveList, CheckUnused, DropCategory,
      StoreStock, tableVars
<1>7. PICK w \in GWorkers : ProductRequest(w) \/ ProductHandlerRuns(w)
  BY <1>4 DEF ProductStep, ProductNext, Resend, StatementFails, ListExpires, ProductServiceCrashes,
              tableVars
<1> QED
  BY <1>2, <1>3, <1>5, <1>6, <1>7

LEMMA OutdatedSteps ==
    ASSUME CatalogInv, [Next]_allVars,
           ~ListOfProducts!Outdated, ListOfProducts!Outdated'
    PROVE  \/ \E w \in GWorkers : ~AtPhase(w, "clear") /\ AtPhase(w, "clear")'
           \/ \E w \in GWorkers : AtPhase(w, "save") /\ gjob[w].rows # products
<1>1. CASE products' # products
  BY <1>1, ProductWrites
<1>2. CASE products' = products
  <2>1. list.cached => RowSet(list.rows) = RowSet(products)
    BY DEF ListOfProducts!Outdated, Cached
  <2>2. list'.cached /\ RowSet(list'.rows) # RowSet(products)
    BY <1>2 DEF ListOfProducts!Outdated, Cached, NoList, RowSet
  <2>3. list' # list
    BY <2>1, <2>2
  <2>4. list' # NoList
    BY <2>2 DEF NoList
  <2>5. PICK w \in GWorkers : ListIsSet(w)
    BY <2>3, <2>4, ListSteps DEF ListRests, ListGoes, ReadersDie, ListIsRead
  <2>6. list' = Cached(gjob[w].rows) /\ AtPhase(w, "save")
    BY <2>3, <2>5 DEF ListIsSet
  <2>7. gjob[w].rows # products
    BY <2>2, <2>6 DEF Cached
  <2> QED
    BY <2>6, <2>7
<1> QED
  BY <1>1, <1>2

\* The list gets outdated only by a write that will delete it, or by the Set of a
\* listing whose rows are no longer, or never were, all that the table has: there
\* is no third way, so the Del of each write is where it belongs.
THEOREM ProductsOutdatedByRaceCorrect == Spec => ProductsOutdatedByRace
<1>1. ASSUME CatalogInv, [Next]_allVars
      PROVE  [~ListOfProducts!Outdated /\ ListOfProducts!Outdated' =>
                 \/ \E w \in GWorkers : ~AtPhase(w, "clear") /\ AtPhase(w, "clear")'
                 \/ \E w \in GWorkers : AtPhase(w, "save") /\ gjob[w].rows # products]_allVars
  BY <1>1, OutdatedSteps
<1> QED
  BY <1>1, CatalogInit, CatalogStep, PTL DEF Spec, ProductsOutdatedByRace
=============================================================================
