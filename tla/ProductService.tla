--------------------------- MODULE ProductService ---------------------------
(***************************************************************************)
(* The product service: the tables products, categories and stocks, the    *)
(* list of all products it keeps in Redis, and the events it publishes.    *)
(*                                                                         *)
(* No handler opens a database transaction.  Each statement commits by     *)
(* itself, and what comes after it (deleting the cached list, publishing)  *)
(* has no error path: it is tried once, and the request succeeds.          *)
(*                                                                         *)
(* The handlers also delete the key "products:category:<id>", which no     *)
(* code sets; it is no state here.                                         *)
(*                                                                         *)
(* No request but UpdateStock reads or writes stocks, and UpdateStock      *)
(* nothing else: a behaviour has requests of one kind, named by subject.   *)
(***************************************************************************)
EXTENDS Integers, Sequences, FiniteSets, Functions

CONSTANTS
    Contents,         \* what name, desc and price of a product may be
    CategoryIds,      \* the category ids a request may name, stored or not
    CategoryNames,    \* what they may be called
    Quantities,       \* the quantities of UpdateStock
    ProductFaults,    \* which faults may happen, see ProductFaultKinds
    GWorkers,         \* concurrent request handlers
    MaxProducts,      \* bound: products ever inserted
    MaxCategories,    \* bound: categories ever inserted
    MaxEvents,        \* bound: messages of a topic
    MaxStocks         \* bound: rows of stocks

ProductFaultKinds ==
    {"error",     \* a statement fails and the handler returns the error
     "redis",     \* a Redis command fails; nobody looks at its error
     "cut",       \* the connection breaks while ListProducts reads the rows
     "drop",      \* a message is not sent; the error is only logged
     "resend",    \* the broker appends a message and the ack is lost
     "crash"}     \* the process dies and is started again

ASSUME ProductAssumption ==
    /\ ProductFaults \subseteq ProductFaultKinds
    /\ MaxProducts \in Nat
    /\ MaxCategories \in Nat
    /\ MaxEvents \in Nat
    /\ MaxStocks \in Nat
    /\ IsFiniteSet(GWorkers)

VARIABLES
    products,         \* table products: id -> category and content
    nextProduct,      \* its next serial
    categories,       \* table categories: id -> name
    nextCategory,     \* its next serial
    stocks,           \* table stocks; nothing makes product_id unique
    list,             \* Redis key "products:all"
    logs,             \* the topics' logs
    gjob,             \* worker -> the handler's local variables
    subject           \* "catalog" or "stock": what is asked for; never changes

tableVars == <<products, nextProduct, categories, nextCategory, stocks>>

productVars == <<tableVars, list, logs, gjob, subject>>

Topics == {"product.created", "product.updated", "product.deleted"}

\* Redis has no such key: never set, deleted or expired.
NoList == [cached |-> FALSE]

Cached(rows) == [cached |-> TRUE, rows |-> rows]

GIdle == [phase |-> "idle"]

GEnter(w, job) == gjob' = [gjob EXCEPT ![w] = job]

AtPhase(w, phase) == gjob[w].phase = phase

Product(c, content) == [category |-> c, content |-> content]

InUse(c) == \E p \in DOMAIN products : products[p].category = c

\* The positions of the rows of stocks that belong to product p.
StockRows(p) == {i \in DOMAIN stocks : stocks[i].product = p}

ProductInit ==
    /\ products = <<>>
    /\ nextProduct = 1
    /\ categories = <<>>
    /\ nextCategory = 1
    /\ stocks = <<>>
    /\ list = NoList
    /\ logs = [t \in Topics |-> <<>>]
    /\ gjob = [w \in GWorkers |-> GIdle]
    /\ subject \in {"catalog", "stock"}

-----------------------------------------------------------------------------
(* Products.  A handler that changed the table has two things left to do,  *)
(* in this order: phase "clear", then phase "publish".                     *)

Changed(w, topic, event) ==
    GEnter(w, [phase |-> "clear", topic |-> topic, event |-> event])

\* A handler may yet add a message to the topic: none starts beyond the bound.
RoomIn(topic) == Len(logs[topic]) + Cardinality(GWorkers) <= MaxEvents

\* (variant) the id of a row is not taken from the serial
CreateProduct_SameSerial(w, c, content) ==
    /\ AtPhase(w, "idle") /\ nextProduct <= MaxProducts /\ RoomIn("product.created")
    /\ products' = [p \in DOMAIN products \cup {nextProduct} |->
                      IF p = nextProduct THEN Product(c, content) ELSE products[p]]
    /\ Changed(w, "product.created", [id |-> nextProduct, doc |-> Product(c, content)])
    /\ UNCHANGED <<nextProduct, categories, nextCategory, stocks, list, logs>>

\* The INSERT.  The category is not looked up.
CreateProduct(w, c, content) ==
    /\ AtPhase(w, "idle") /\ nextProduct <= MaxProducts /\ RoomIn("product.created")
    /\ products' = [p \in DOMAIN products \cup {nextProduct} |->
                      IF p = nextProduct THEN Product(c, content) ELSE products[p]]
    /\ nextProduct' = nextProduct + 1
    /\ Changed(w, "product.created", [id |-> nextProduct, doc |-> Product(c, content)])
    /\ UNCHANGED <<categories, nextCategory, stocks, list, logs>>

\* (variant) no Del after the UPDATE
UpdateProduct_KeepsList(w, p, c, content) ==
    /\ AtPhase(w, "idle") /\ RoomIn("product.updated")
    /\ p \in DOMAIN products
    /\ products' = [products EXCEPT ![p] = Product(c, content)]
    /\ GEnter(w, [phase |-> "publish", topic |-> "product.updated",
                  event |-> [id |-> p, doc |-> Product(c, content)]])
    /\ UNCHANGED <<nextProduct, categories, nextCategory, stocks, list, logs>>

\* The UPDATE, whose RETURNING is what the event will say.
UpdateProduct(w, p, c, content) ==
    /\ AtPhase(w, "idle") /\ RoomIn("product.updated")
    /\ p \in DOMAIN products
    /\ products' = [products EXCEPT ![p] = Product(c, content)]
    /\ Changed(w, "product.updated", [id |-> p, doc |-> Product(c, content)])
    /\ UNCHANGED <<nextProduct, categories, nextCategory, stocks, list, logs>>

\* The SELECT that finds the product.
DeleteProduct(w, p) ==
    /\ AtPhase(w, "idle") /\ RoomIn("product.deleted")
    /\ p \in DOMAIN products
    /\ GEnter(w, [phase |-> "delete", id |-> p])
    /\ UNCHANGED <<tableVars, list, logs>>

\* (variant) the event is sent although the DELETE was not executed
DeleteRow_NoDelete(w) ==
    /\ AtPhase(w, "delete")
    /\ Changed(w, "product.deleted", [id |-> gjob[w].id])
    /\ UNCHANGED <<tableVars, list, logs>>

\* The DELETE.  Nobody asks how many rows it found: another request may have
\* deleted the product, which is then announced twice.
DeleteRow(w) ==
    /\ AtPhase(w, "delete")
    /\ products' = Restrict(products, DOMAIN products \ {gjob[w].id})
    /\ Changed(w, "product.deleted", [id |-> gjob[w].id])
    /\ UNCHANGED <<nextProduct, categories, nextCategory, stocks, list, logs>>

\* (variant) the new row is written into the list, instead of a Del
ClearList_WriteThrough(w) ==
    /\ AtPhase(w, "clear")
    /\ list' = IF list.cached /\ gjob[w].topic = "product.updated"
               THEN Cached([list.rows EXCEPT ![gjob[w].event.id] = gjob[w].event.doc])
               ELSE NoList
    /\ GEnter(w, [gjob[w] EXCEPT !.phase = "publish"])
    /\ UNCHANGED <<tableVars, logs>>

\* Redis.Del, whose error is ignored.
ClearList(w) ==
    /\ AtPhase(w, "clear")
    /\ \/ list' = NoList
       \/ "redis" \in ProductFaults /\ UNCHANGED list
    /\ GEnter(w, [gjob[w] EXCEPT !.phase = "publish"])
    /\ UNCHANGED <<tableVars, logs>>

SendsFail == "drop" \in ProductFaults

\* publish: the message is appended, or the error is logged.
Publish(w) ==
    /\ AtPhase(w, "publish")
    /\ \/ logs' = [logs EXCEPT ![gjob[w].topic] = Append(@, gjob[w].event)]
       \/ SendsFail /\ UNCHANGED logs
    /\ GEnter(w, GIdle)
    /\ UNCHANGED <<tableVars, list>>

\* The broker has the message, the producer does not know and sends again.
Resend(w) ==
    /\ AtPhase(w, "publish") /\ "resend" \in ProductFaults
    /\ RoomIn(gjob[w].topic)
    /\ logs' = [logs EXCEPT ![gjob[w].topic] = Append(@, gjob[w].event)]
    /\ UNCHANGED <<tableVars, list, gjob>>

-----------------------------------------------------------------------------
(* The list of all products: Get, and after a miss SELECT and Set.  A hit  *)
(* answers what Redis has and changes nothing.                             *)

ListProducts(w) ==
    /\ AtPhase(w, "idle")
    /\ list = NoList \/ "redis" \in ProductFaults
    /\ GEnter(w, [phase |-> "query"])
    /\ UNCHANGED <<tableVars, list, logs>>

\* The loop over the rows; a broken connection ends it like the last row does.
SelectProducts(w) ==
    /\ AtPhase(w, "query")
    /\ \E read \in (IF "cut" \in ProductFaults THEN SUBSET DOMAIN products
                   ELSE {DOMAIN products}) :
          GEnter(w, [phase |-> "save", rows |-> Restrict(products, read)])
    /\ UNCHANGED <<tableVars, list, logs>>

SaveList(w) ==
    /\ AtPhase(w, "save")
    /\ \/ list' = Cached(gjob[w].rows)
       \/ "redis" \in ProductFaults /\ UNCHANGED list
    /\ GEnter(w, GIdle)
    /\ UNCHANGED <<tableVars, logs>>

\* (variant) Set without a time to live
ListExpires_Never == FALSE /\ UNCHANGED <<tableVars, list, logs, gjob>>

\* Five minutes after the Set.
ListExpires ==
    /\ list # NoList
    /\ list' = NoList
    /\ UNCHANGED <<tableVars, logs, gjob>>

-----------------------------------------------------------------------------
(* Categories. *)

CreateCategory(w, name) ==
    /\ AtPhase(w, "idle") /\ nextCategory <= MaxCategories
    /\ categories' = [c \in DOMAIN categories \cup {nextCategory} |->
                        IF c = nextCategory THEN name ELSE categories[c]]
    /\ nextCategory' = nextCategory + 1
    /\ UNCHANGED <<products, nextProduct, stocks, list, logs, gjob>>

UpdateCategory(w, c, name) ==
    /\ AtPhase(w, "idle")
    /\ c \in DOMAIN categories
    /\ categories' = [categories EXCEPT ![c] = name]
    /\ UNCHANGED <<products, nextProduct, nextCategory, stocks, list, logs, gjob>>

\* The three statements: is it there, is it in use, DELETE.
DeleteCategory(w, c) ==
    /\ AtPhase(w, "idle")
    /\ c \in DOMAIN categories
    /\ GEnter(w, [phase |-> "used", id |-> c])
    /\ UNCHANGED <<tableVars, list, logs>>

CheckUnused(w) ==
    /\ AtPhase(w, "used")
    /\ GEnter(w, IF InUse(gjob[w].id) THEN GIdle
                 ELSE [phase |-> "drop", id |-> gjob[w].id])
    /\ UNCHANGED <<tableVars, list, logs>>

DropCategory(w) ==
    /\ AtPhase(w, "drop")
    /\ categories' = Restrict(categories, DOMAIN categories \ {gjob[w].id})
    /\ GEnter(w, GIdle)
    /\ UNCHANGED <<products, nextProduct, nextCategory, stocks, list, logs>>

-----------------------------------------------------------------------------
(* Stock. *)

\* (variant) the request is taken for the first one of its product
UpdateStock_NoCheck(w, p, q) ==
    /\ AtPhase(w, "idle") /\ Len(stocks) + Cardinality(GWorkers) <= MaxStocks
    /\ GEnter(w, [phase |-> "stock", product |-> p, quantity |-> q, exists |-> FALSE])
    /\ UNCHANGED <<tableVars, list, logs>>

\* SELECT EXISTS.  The product is not looked up.
UpdateStock(w, p, q) ==
    /\ AtPhase(w, "idle") /\ Len(stocks) + Cardinality(GWorkers) <= MaxStocks
    /\ GEnter(w, [phase |-> "stock", product |-> p, quantity |-> q,
                  exists |-> StockRows(p) # {}])
    /\ UNCHANGED <<tableVars, list, logs>>

\* INSERT, or an UPDATE of every row of the product.
StoreStock(w) ==
    /\ AtPhase(w, "stock")
    /\ LET row == [product |-> gjob[w].product, quantity |-> gjob[w].quantity]
       IN  stocks' = IF gjob[w].exists
                     THEN [i \in DOMAIN stocks |->
                              IF i \in StockRows(row.product) THEN row ELSE stocks[i]]
                     ELSE Append(stocks, row)
    /\ GEnter(w, GIdle)
    /\ UNCHANGED <<products, nextProduct, categories, nextCategory, list, logs>>

-----------------------------------------------------------------------------
(* Failures. *)

\* A statement that a handler is about to execute fails: the error is returned.
StatementFails(w) ==
    /\ "error" \in ProductFaults
    /\ gjob[w].phase \in {"delete", "query", "used", "drop", "stock"}
    /\ GEnter(w, GIdle)
    /\ UNCHANGED <<tableVars, list, logs>>

ProductServiceCrashes ==
    /\ "crash" \in ProductFaults
    /\ gjob' = [w \in GWorkers |-> GIdle]
    /\ UNCHANGED <<tableVars, list, logs>>

-----------------------------------------------------------------------------

CatalogRequest(w) ==
    \/ \E c \in CategoryIds, content \in Contents :
          \/ CreateProduct(w, c, content)
          \/ \E p \in DOMAIN products : UpdateProduct(w, p, c, content)
    \/ \E p \in DOMAIN products : DeleteProduct(w, p)
    \/ ListProducts(w)
    \/ \E name \in CategoryNames :
          \/ CreateCategory(w, name)
          \/ \E c \in CategoryIds : UpdateCategory(w, c, name)
    \/ \E c \in CategoryIds : DeleteCategory(w, c)

StockRequest(w) == \E p \in 1..MaxProducts, q \in Quantities : UpdateStock(w, p, q)

ProductRequest(w) ==
    \/ subject = "catalog" /\ CatalogRequest(w)
    \/ subject = "stock" /\ StockRequest(w)

\* What a handler that has begun does next.
ProductHandlerRuns(w) ==
    \/ DeleteRow(w)
    \/ ClearList(w)
    \/ Publish(w)
    \/ SelectProducts(w)
    \/ SaveList(w)
    \/ CheckUnused(w)
    \/ DropCategory(w)
    \/ StoreStock(w)

ProductNext ==
    /\ \/ \E w \in GWorkers :
             ProductRequest(w) \/ ProductHandlerRuns(w) \/ Resend(w) \/ StatementFails(w)
       \/ ListExpires
       \/ ProductServiceCrashes
    /\ UNCHANGED subject
=============================================================================
