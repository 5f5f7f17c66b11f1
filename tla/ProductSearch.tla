---------------------------- MODULE ProductSearch ---------------------------
(***************************************************************************)
(* Products from the table to what callers see of them: the cached list,   *)
(* and the search index that the product events fill.  Both are copies     *)
(* that nothing compares with the table again.                             *)
(***************************************************************************)
EXTENDS ProductService, SearchService

ASSUME SearchTopicsAssumption == SearchTopics = Topics

allVars == <<productVars, searchVars>>

Init == ProductInit /\ SearchInit

ProductStep == ProductNext /\ UNCHANGED searchVars

SearchClaims == \E t \in SearchTopics : ConsumeClaim(t, logs)

SearchCommits == \E t \in SearchTopics : CommitOffset(t)

SearchStep ==
    /\ \/ JoinGroup(logs)
       \/ SearchClaims
       \/ SearchCommits
       \/ EndSession
       \/ ElasticsearchFails
       \/ ElasticsearchRecovers
    /\ UNCHANGED productVars

Next == ProductStep \/ SearchStep

Spec == Init /\ [][Next]_allVars

-----------------------------------------------------------------------------
(* Fairness: each statement and command of a handler returns; Redis drops   *)
(* a key whose time is over; main joins the group again and again, and the  *)
(* goroutine of each claim takes the next message.  No request has to come. *)

ProductFairness ==
    /\ \A w \in GWorkers : WF_allVars(ProductHandlerRuns(w) /\ UNCHANGED <<subject, searchVars>>)
    /\ WF_allVars(ListExpires /\ UNCHANGED <<subject, searchVars>>)

SearchFairness ==
    /\ WF_allVars(JoinGroup(logs) /\ UNCHANGED productVars)
    /\ \A t \in SearchTopics :
          WF_allVars(ConsumeClaim(t, logs) /\ UNCHANGED productVars)

FairSpec == Spec /\ ProductFairness /\ SearchFairness

-----------------------------------------------------------------------------

ProductRow == [category : CategoryIds, content : Contents]

ProductTable(f) == DOMAIN f \subseteq 1..MaxProducts /\ \A p \in DOMAIN f : f[p] \in ProductRow

ProductEvent(t) ==
    IF t = "product.deleted" THEN [id : 1..MaxProducts]
    ELSE [id : 1..MaxProducts, doc : ProductRow]

GJobTypeOK(job) ==
    \/ job = GIdle \/ job = [phase |-> "query"]
    \/ job.phase = "save" /\ ProductTable(job.rows)
    \/ \E t \in Topics : job \in [phase : {"clear", "publish"}, topic : {t}, event : ProductEvent(t)]
    \/ job \in [phase : {"delete"}, id : 1..MaxProducts]
    \/ job \in [phase : {"used", "drop"}, id : 1..MaxCategories]
    \/ job \in [phase : {"stock"}, product : 1..MaxProducts, quantity : Quantities,
                exists : BOOLEAN]

\* Types of the tables, of what Redis has, of the logs and of the index.
CatalogTypeOK ==
    /\ ProductTable(products) /\ nextProduct \in 1..MaxProducts + 1
    /\ \A p \in DOMAIN products : p < nextProduct
    /\ DOMAIN categories \subseteq 1..nextCategory - 1 /\ nextCategory \in 1..MaxCategories + 1
    /\ stocks \in Seq([product : 1..MaxProducts, quantity : Quantities])
    /\ list = NoList \/ (list.cached /\ ProductTable(list.rows))
    /\ \A t \in Topics : logs[t] \in Seq(ProductEvent(t))
    /\ \A w \in GWorkers : GJobTypeOK(gjob[w])
    /\ ProductTable(index) /\ elasticUp \in BOOLEAN
    /\ session \in [number : 0..MaxSessions, on : BOOLEAN]
    /\ \A t \in SearchTopics :
          /\ position[t] \in 0..Len(logs[t])
          /\ committed[t] \in {NoOffset} \cup 1..Len(logs[t])

\* UpdateStock may insert several rows for one product, but only requests that
\* had looked for a row before there was one: never more rows than handlers,
\* and once there is a row no later request adds another.
StockRowsAreBounded ==
    \A p \in 1..MaxProducts :
        LET late == {w \in GWorkers : AtPhase(w, "stock") /\ gjob[w].product = p
                                         /\ ~gjob[w].exists}
        IN  Cardinality(StockRows(p)) + Cardinality(late) <= Cardinality(GWorkers)

\* Who reads "product.deleted" may forget the product for good: it is published
\* after the DELETE, its id is never used again, and no UPDATE brings it back.
DeletedIsFinal ==
    \A i \in DOMAIN logs["product.deleted"] :
        LET p == logs["product.deleted"][i].id
        IN  p < nextProduct /\ p \notin DOMAIN products

\* The key "products:all", the copies of its readers and the table, as ListCache
\* sees them: a table is the set of its rows.
RowSet(f) == {<<p, f[p]>> : p \in DOMAIN f}

ListOfProducts ==
    INSTANCE ListCache WITH
        Readers <- GWorkers,
        rows <- RowSet(products),
        list <- IF list.cached THEN Cached(RowSet(list.rows)) ELSE NoList,
        taken <- [w \in GWorkers |-> IF AtPhase(w, "save") THEN Cached(RowSet(gjob[w].rows))
                                     ELSE NoList]

\* "products:all" is used as ListCache allows: it shows rows that the table held
\* together at one moment, or a part of them; a listing sets it once, and no
\* handler that writes a product puts anything into it.
ListIsCache == ListOfProducts!Spec

\* The list gets outdated only by a write whose handler goes on to delete it, or
\* by the Set of a listing that was itself overtaken or cut off: no request
\* changes the table of products and leaves the list to its expiry.
ProductsOutdatedByRace ==
    [][~ListOfProducts!Outdated /\ ListOfProducts!Outdated' =>
          \/ \E w \in GWorkers : ~AtPhase(w, "clear") /\ AtPhase(w, "clear")'
          \/ \E w \in GWorkers : AtPhase(w, "save") /\ gjob[w].rows # products]_allVars

\* The list that ListProducts answers may be outdated: a Set after the Del of a
\* concurrent write, a Del that failed, a crash before the Del, rows that were cut
\* off.  It does not stay so: once the table changes no more and the database
\* answers in full, Redis has the rows of the table or nothing, for ever.
ListConverges == ListOfProducts!Converges

\* The index never loses a product by itself: if there is an unread message that
\* has its document, and from now on Elasticsearch works and the product is not
\* deleted, the product gets into the index and stays there; however often the
\* search service is restarted, even before it ever joined its group.
UnreadDocument(p) ==
    \E t \in {"product.created", "product.updated"} :
        \E i \in position[t] + 1 .. Len(logs[t]) : logs[t][i].id = p

ProductsBecomeSearchable ==
    \A p \in 1..MaxProducts :
        [](UnreadDocument(p) /\ [](elasticUp /\ p \in DOMAIN products)
              => <>[](p \in DOMAIN index))
=============================================================================
