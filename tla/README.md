# goecommerce in TLA+: orders, products, users, and the copies of them

The repository is a shop built of small Go services, each with a Postgres
database of its own, that call each other over gRPC and tell each other what
happened over Kafka. No transaction spans two services and nothing reconciles
them: an order is carried from cart to payment by two events, each sent after
the commit that it announces. These modules say what that design guarantees
when requests interleave, messages are lost or repeated and services crash,
and where it guarantees less than its error messages say. A second family of
modules follows what is copied: products, addresses, carts, payments and users
from their tables to the lists cached in Redis, to the search index, and to the
table of another service.

## The system

| Part | State it keeps | Operations that change it | Talks to |
|---|---|---|---|
| cart-service | table `carts` (owner, JSON list of products, status) and a Redis list per owner | CreateCart, AddToCart, UpdateProductQty, RemoveProductFromCart, CheckoutCart (each: BEGIN, SELECT .. FOR UPDATE, edit in memory, UPDATE or INSERT, COMMIT), UpdateCart, DeleteCart; the consumer of `cart.paid` | answers GetCart; consumes `cart.paid` |
| transaction-service | table `transactions` (user, cart, snapshots, total, status, paid_at) | CreateTransaction, CancelTransaction, MarkAsPaid; the consumer of `payment.paid` | calls GetAddress, GetCart, GetProduct; publishes `cart.paid`; answers GetTransaction |
| payment-service | table `payments` (transaction, user, amount, status, paid_at), a Redis list per user | CreatePayment, PayPayment | calls GetTransaction; publishes `payment.paid` |
| product-service | tables `products`, `categories`, `stocks`, Redis lists | create, update and delete of products and categories, UpdateStock, ListProducts | answers GetProduct; publishes product events |
| address-service | table `addresses`, a Redis list per owner | CreateAddress, UpdateAddress, DeleteAddress, ListAddresses | answers GetAddress; publishes address events |
| auth-service | table `users` with credentials; the email is unique | Register (Login and ValidateToken only read) | its controller publishes `user.created` from a goroutine of its own |
| user-service | table `users`, a copy under the same ids; Redis list `users:all` | the consumer of `user.created`; GetUsers | consumes `user.created` |
| search-service | Elasticsearch indices of products, addresses and users | one consumer group over all the events | answers searches |
| HTTP controllers, routes, middleware | none | parse a request, call the service's own gRPC server | |

What makes it hard:

- **Check, then act.** CreateTransaction, CreatePayment and CancelTransaction
  check a reply or a SELECT and act later, by id alone.
- **Nothing to lock.** CreateCart and AddToCart look for the user's active cart
  with SELECT .. FOR UPDATE; when there is none they insert one, and two can.
- **Commit, then publish.** An event is sent after its commit. The send may
  fail (it is logged), or the process may die first.
- **At most once, or twice.** Consumers start at `sarama.OffsetNewest` and keep
  no offset: what is sent while one is down is never seen. A handler that fails
  has lost its message. A producer whose ack is lost sends again.
- **Stale caches.** Lists are read from Redis, and written there after a read of
  the table that another request may have outdated, or that was cut short: the
  loops over `rows.Next()` never ask `rows.Err()`.
- **Copies by event alone.** user-service and the search index know what the
  events told them. Nothing compares them with the tables again.

What makes each part correct is stated below as properties; the hazards they
are aimed at are listed, line by line, in `PROJECT.json`.

## The modules

```
 Platform ----+-----------------+------------------+       CartLines
 (topics,     |                 |                  |           |
  clock)  TransactionService  PaymentService   CartStore <-----+-- CartEdits
          (+ Amounts)           |                  |   ^           (+ Amounts)
              |                 |                  |   | implements
              +--------+--------+------------------+   |
                       |                            CartService
                   OrderSaga                           |
                       |      implements            MCCartService
                 OrderProperties -----> OrderPromise
                   |         |
             MCOrderSaga   OrderProofs -> OrderChainProofs -> OrderPromiseProofs

 ProductService, SearchService ---------------> ProductSearch --+
                                                               | implement
 UserRegistration, SearchService, OwnerLists --> Accounts ------+--> ListCache
                                                               |
 CartStore, PaymentService, AddressService ----> CachedLists ---+
                            (+ OwnerLists)
```

CartEdits, ProductSearch, Accounts and CachedLists have instances in
**MCCartLines**, **MCProductSearch**, **MCAccounts** and **MCCachedLists**. The
proofs about CartEdits, CartService, ProductSearch, CachedLists and Accounts are
in **CartEditsProofs**, **CartServiceProofs**, **ProductSearchProofs**,
**CachedListsProofs** and **AccountsProofs**.

**Platform** has what the services share: the topics `cart.paid` and
`payment.paid`, each as the queue of its only consumer, and the clock that
Postgres' `NOW()` reads. `Appended` drops a message while the consumer is not
subscribed (`ConsumePartition(topic, 0, OffsetNewest)`), `Consumed` removes the
oldest whatever became of it (the loop in `kafka/consumer.go` has no error to
look at). `Faults` names what may go wrong in an instance: `drop` (a call, a
statement or a send fails for good, or a context expires), `resend` (a message
is appended twice), `dberror` (the UPDATE of a consumer fails), `crash`.

**CartLines** is the list of products of a cart, as pure operators: the loop of
AddToCart, the `idxMap` merge of CreateCart, UpdateProductQty with its meaning
of 0, and the removal. Quantities are added as `uint` and stored through
`uint32(..)`, so sums are taken modulo `Uint32`. Note that the first line of a
product grows in AddToCart and the last one in CreateCart. A loop over the lines
is a recursive function, from the number of turns to what the loop has by then.

**CartEdits** is one such list with any sequence of requests that edit it, and
what it stands for: a number of pieces of each product (`Pieces`, a plain sum),
and an amount, which **Amounts** computes as CreateTransaction does.

**CartStore** is the cart service as callers see it: each request that changes
the table is one step, its commit. A request that is refused changes nothing and
is no step. It also has the consumer of `cart.paid`, its failure, crash and
subscription. It is the cart service of OrderSaga, and the abstract
specification of CartService.

**CartService** is the same service statement by statement. `cjob[w]` is the
database transaction of handler `w`: the rows its SELECT has still to come to
(`ahead`), the rows it has locked, and the copy of the products it edits. A
SELECT sees the rows committed before it began, waits for a locked row and looks
at it again (READ COMMITTED, the default; no code sets another level). A user
may have several active carts, the scan locks all of them and in no particular
order, so two handlers can deadlock; Postgres then aborts one. UPDATE and COMMIT
are one step, since nobody sees the row between them. DELETE and the UPDATEs of
PUT and of the consumer wait for the row.

**TransactionService**: `tjob[w]` holds the local variables of a handler between
its calls. CreateTransaction is `CreateTransaction` (the reply of GetCart, and
the check of its status), `GetProduct` once for each line, `InsertTransaction`,
`PublishCartCheckedOut`. CancelTransaction is the SELECT with its checks, then
the UPDATE by id (`CancelUpdate`). `MarkAsPaid` is one statement; no service
calls it and its HTTP route is commented out, so only one run allows it. The
total is an int64, `Added` up line by line in **Amounts**, where neither the
product of price and quantity nor the sum is checked for overflow. Left out: the
address snapshot, a value that no step reads, and the Redis keys, which this
service deletes and never sets.

**PaymentService**: `CreatePayment` (the reply of GetTransaction, and the check)
and `InsertPayment`; `PayPayment`, one UPDATE that does not ask whether the
payment was paid already, and `PublishPaymentPaid`. The event carries paid_at
as RFC 3339, in whole seconds (`RFC3339`).

**OrderSaga** composes the three. A call to another service is one step: the
reply is computed when the called statement runs, and the caller may use it much
later. That a request or its reply is late adds nothing, as the caller's next
step may be taken at any time; that it is lost is `drop`.

**OrderPromise** is the abstract specification of an order, for a customer who
knows no service, handler or event: an order keeps its user and amount; money
for it comes from that user and is that amount; it is paid when money was
received; it is cancelled only if somebody asked while it was not paid.

**OrderProperties** states what the services promise together, and how OrderSaga
implements OrderPromise (`Promise`): the orders are the rows of transactions,
the money received are the paid rows of payments, and an order is being
cancelled while a handler is between the two statements of CancelTransaction.
**MCOrderSaga**, **MCCartService** and **MCCartLines** are the instances.
**OrderProofs** (types), **OrderChainProofs** (rows and events agree) and
**OrderPromiseProofs** (who settles an order, the refinement, and what the
events bring about) hold the proofs; each extends the one before it.

**ProductService** is the product service, in which every statement commits by
itself: `gjob[w]` holds what a handler keeps between two of them. A handler that
changed `products` goes through phase `clear` (Redis.Del) and phase `publish`, and
the errors of both are ignored. ListProducts is Get, SELECT and Set; `ListExpires`
is the time to live of five minutes. DeleteCategory is three statements,
UpdateStock two. `logs` are the topics as Kafka keeps them, since this consumer,
unlike those of the order path, stores offsets. The handlers also delete a key
`products:category:<id>`; no code ever sets it, so it is no state. Stock and the
rest never meet in this code: `subject`, chosen at the start, says which of the
two the requests of a behaviour are about, and the state space is the sum of two
small ones instead of their product.

**SearchService** is the consumer group and an index. The topics of products, of
addresses and of users each fill an index that no other topic touches, so the
module is about one of them at a time (`SearchTopics`). `JoinGroup` claims each
topic at its committed offset, or at the oldest message; `ConsumeClaim` is one
turn of a claim's loop, which marks the message whatever Elasticsearch says;
`CommitOffset` is sarama's auto-commit, of one claim at a time; `EndSession` a
restart or a rebalance. Elasticsearch itself is external: it works or does not.

**ProductSearch** composes the two and states their properties. `ListOfProducts`
maps the key `products:all`, the copies of its readers and the table to ListCache.

**ListCache** is the abstract specification of a list in Redis beside its table,
for one key: someone writes the rows, a reader takes a copy of them, or of a
part, and sets it some time later, the key may vanish at any time. `Converges`
is what that is worth.

**OwnerLists** is the code that address-, cart-, payment- and user-service have
in common: Del after the commit of a write (`WillClear`, `ClearList`), and Get,
SELECT and Set in a listing (`ListRows`, `SelectRows`, `SaveList`), with Redis
errors, rows that are cut off, expiry and crashes.

**AddressService** is the address service statement by statement: the writes,
`DeleteAddress` with its SELECT and later DELETE, and what follows a commit, the
Del and the event. **CachedLists** puts these lists beside everything that writes
their tables: AddressService, the commits of CartStore and PaymentService. A key
belongs to one service, and `service` says which of them a behaviour follows.
`ListOf(u)` maps the list of owner u to ListCache.

**UserRegistration** is Register of auth-service, the goroutine that sends the
event, and the consumer of user-service, which keeps the row under the id of the
event unless it knows the email. `down` is the set of parts that are out of order
for the time being: a process, the broker, a database. **Accounts** adds the list
`users:all`, which `UsersList` maps to ListCache, and the index of users, of
which a behaviour follows one (`view`).

An operator whose comment begins with "(variant)" is used by no specification.
It is the operator below it with a plausible mistake (a condition missing from a
WHERE, a lock not taken, a Rollback forgotten), kept to show that a property
notices: with the variant in place of the operator TLC finds it violated.

## What is checked

| Run | Properties | Question, and the instance |
|---|---|---|
| `checkout` | TypeOK, CartClosedByCheckout, ClosedCartIsFrozen | Every cart request, PUT with both statuses included, against `cart.paid` events that are late, repeated or dropped. 2 carts, 2 handlers and 2 transactions: one more than needed for a late event of one cart to meet another cart of its owner. |
| `payment` | KeepsOrderPromise, PaidOnlyByPayment, SettledForever | 2 payments of 1 transaction, 2 cancellations, MarkAsPaid and every fault. 3 readings of the clock give every payment, and one payment twice, a paid_at of its own. |
| `live` | OrderChain, EventsAreBacked, NoPaymentForgotten, NoCheckoutForgotten, KeepsOrderPromise, PaymentSettles, CheckoutCloses | Nothing is lost. 2 users: who owns what, and who pays for it; 2 handlers that turn one cart into 2 transactions; a payment. Four invariants, the refinement, and two liveness properties, under `FairSpec`. The invariants and the refinement are proved for every fault. |
| `cart_lines` | LinesTypeOK, PiecesAdd, PiecesSet, DuplicatesOnlyFromPut, AmountIsExact | Every list of 2 products that requests of up to 2 lines build; quantities wrap at 3, and an int64 of -4..3 overflows at the prices 0..2. |
| `cart_service` | LockedCopyIsCurrent, ImplementsCartStore, RequestsFinish | 2 handlers, every request, every fault but a repeated event (any event may come at any time anyway); 2 active carts of 1 user are enough for a deadlock. |
| `catalog` | CatalogTypeOK, StockRowsAreBounded, ListIsCache, ProductsOutdatedByRace, ListConverges | 2 handlers, every request and fault of the product service; 1 product with 2 contents is enough for a list to be outdated in every way (a row missing, left over, or old), 4 stock rows are two more than the handlers may race to, and 2 quantities tell an UPDATE from none. The search service never joins. |
| `search` | CatalogTypeOK, DeletedIsFinal, ProductsBecomeSearchable | 2 handlers, lost events and crashes, 2 sessions of the group, Elasticsearch that fails and recovers; no categories and no stock. |
| `lists` | ListsTypeOK, AddressDeletedIsFinal, ListsAreCaches, ListsConverge, OutdatedByRace | 2 users, 2 handlers: one that writes while the other lists, or two writers of one row, one not its owner. 1 address with 2 contents, 1 cart, 2 payments; every fault. |
| `accounts` | AccountsTypeOK, UserCopiesAgree, RegisteredUsersBecomeKnown, RegisteredUsersBecomeSearchable, UsersListIsCache, UsersListConverges | 2 accounts, so that one event overtakes the other or one email is tried twice; 2 messages, which also stand for one sent twice; every part may be out of order, alone or together. |
| `cancel` | CannotCancelPaid - violated | See below. |
| `stalecart` | TransactionFromActiveCart - violated | |
| `twocarts` | OneActiveCart - violated | |

`Max..` constants bound what would grow for ever (rows, copies of a message,
readings of the clock). A bound is applied before a handler starts and never in
its middle, so that it cannot hide how a handler ends; the one exception, an
INSERT of a cart beyond `MaxCarts`, is named in `RequestsFinish`. In
CartService the events come from nowhere: any event of an existing cart may
arrive (`CartPaidArrives`), more than the transaction service sends.

**What holds.** The list of a cart keeps its pieces, with or without duplicate
lines. No cart request loses another's edit. Rows that were copied from service
to service agree, even if the original is gone. A `cart.paid` closes the cart it
names or nothing, however late it comes; a closed cart is opened by PUT only. A
paid transaction has a paid payment, and no repeated event, second payment or
later cancellation changes it again. If no message is lost, an order settles.
Two UpdateStock requests for a new product may insert two rows, yet never more
than there are handlers. A product.deleted or address.deleted event is final. An
unread document of a product that stays gets into the index, through restarts and
whatever was lost before it.

The amount of a transaction counts every piece of the cart once, duplicate lines
included, and is exact as long as the sum fits an int64; beyond that it wraps.

A cached list shows rows of its owner that were in the table together at one
moment: all of them, or a part if the connection broke (`ListsAreCaches`, and for
the lists of all products and all users `ListIsCache` and `UsersListIsCache`). It
may be outdated, after a race, a Redis error, a crash, or a turn of the cart
consumer, which deletes no list; `OutdatedByRace` and `ProductsOutdatedByRace` say
that nothing else makes it so, in particular no request that changes another
user's address. (Every new user makes `users:all` outdated: the consumer deletes
no list either.) It never stays outdated: the keys
expire, and a listing that was overtaken sets the list once (`ListConverges`,
`ListsConverge`, `UsersListConverges`, all of them `Converges` of ListCache).

An id means the same user in auth-service, in user-service and in the index,
whatever was lost, repeated or sent out of order. A user whose event is still to
be sent or read becomes known and searchable, if from then on the parts that the
event has to pass work. A user whose event came when one of them did not work
stays unknown; that is what the code does, and no document says otherwise.

**What does not hold.** Each of these is a schedule of ordinary requests.

- `cancel`: CancelTransaction reads `pending`, a payment is handled, and the
  UPDATE makes the paid transaction `cancelled`. `SettledForever` is therefore
  stated for a transaction that no earlier cancellation is still about to write.
- `stalecart`: two CreateTransaction requests for one cart both see it active;
  both insert a transaction.
- `twocarts`: two AddToCart requests of a user without an active cart insert two.
  From then on "the active cart" is any of them, which is why the requests of
  CartStore pick one with `\E`.

CreatePayment has the same gap (a payment may be inserted for a transaction that
was paid or cancelled after the check), which is why OrderPromise receives money
for an order in any status.

Three more are visible in ProductService and SearchService, but contradict no
message of the code that a run could quote, or (the first) have no run of their
own: a category can be deleted just after a product was put into it; the index
may keep an older version of a product (the topics `product.created` and
`product.updated` are read independently); and it may keep a deleted product,
when the delete is read before an update. The properties of the index
claim neither the version nor the absence.

Apart from these, UpdateCart stores any status it is sent (`PutStatuses` is a
parameter), although the proto names two.

**Fairness.** A handler that has begun takes its next step: each call has a
timeout of two seconds and each statement returns. The consumer goroutine takes
the next message when its handler returns. Weak fairness says both. Nobody is
obliged to send a request, and a crash is never forced. In CartService a handler
that waits for a row is enabled only now and then, and Postgres queues the
waiters of a row, so strong fairness is assumed for each handler's next step.
In ProductSearch, Redis expires a key, main joins the group again and each claim
takes its next message (weak fairness); no commit of offsets, no failure and no
recovery of Elasticsearch is assumed. The number of sessions is bounded, or the
group could be rebalanced for ever before it reads anything.
In CachedLists and Accounts the Redis commands and statements of a listing return
and keys expire; SendMessage returns, with or without success, and both consumers
take the next message. Nothing that is out of order has to recover: the
properties say themselves what must work (`[]({"auth", ..} \cap down = {})`).
`PaymentSettles` and `CheckoutCloses` are claimed only where nothing is lost: with
`drop`, `dberror` or `crash` the code promises neither.

## What is proved

Proved with TLAPS, for any users, products, handlers, faults and bounds. A
strengthening that is named below was also checked by TLC, on the instance of its
component.

About OrderSaga (the runs `checkout`, `payment` and `live`):

- `TypeCorrect`: `Spec => []TypeOK`. `TypeOK` is inductive as it stands. It says
  more than shapes: cart ids are below the serial, and a job in a given phase has
  exactly the fields that phase uses, which is what makes `tjob[w].event` of a
  publishing handler an event. The proof has a lemma per service step
  (`CartStepType`, `TransactionStepType`, `PaymentStepType`), these use one lemma
  per kind of table change (`AppendRow`, `UpdateRow`, `PutCartType`,
  `InsertCartType`) and per topic (`TopicType`).
- `OrderChainCorrect`: `Spec => []OrderChain`. That the rows agree (`RowsAgree`) is
  not inductive: an INSERT writes what its handler read several calls earlier.
  OrderChain therefore also says that each handler's copy of a cart or of a
  transaction still agrees with the rows (`HandlersAgree`), and with `TypeOK`
  that is inductive. Steps then need only what they keep: `CartsKeep` (no cart
  changes owner, no serial is reused, though carts are deleted and replaced),
  `TransactionsKeep` and `PaymentsKeep` (no row is deleted, the columns that name
  other rows never change, a paid payment stays paid). One lemma per service
  shows that its steps keep them.
- `EventsAreBackedCorrect`: `Spec => []EventsAreBacked`. The strengthening says
  that each topic holds only backed events and that a handler about to publish
  holds one. An event is built from what the statement just stored; afterwards
  it only travels, twice perhaps, while the `..Keep` facts keep it backed.
- `PaidOnlyByPaymentCorrect`: an action property. Of all steps only the INSERT and
  three UPDATEs write a status (`StepUpdates`); the consumer's one takes its
  transaction from an event, and that event is backed.
- `SettledForeverCorrect`: an action property, from `StepUpdates` again: the
  consumer asks for `status<>'paid'`, a cancellation reads the status before it
  writes, and none is under way.
- `OrderPromiseKept`: `Spec => KeepsOrderPromise`, the refinement of OrderPromise
  by OrderSaga. Every step is a step of the promise or changes nothing in it
  (`CartStepPromise`, `PaymentStepPromise`, `TransactionStepPromise`). It takes the
  three invariants together: by OrderChain a paid payment is money of the right
  user and amount, by EventsAreBacked the consumer settles only what was paid
  for, and by TypeOK a handler is in one phase at a time.
- `NoPaymentForgottenCorrect` and `NoCheckoutForgottenCorrect`: with nothing lost
  (`Faults \subseteq {"resend"}`) the event that an order or a cart waits for is
  in a handler's hands or in its topic. Inductive together with `ConsumersUp`
  (a topic without a subscriber takes no message). A handler gives its event to
  the topic (`TopicKeeps`), the consumer takes the oldest alone and leaves no
  pending transaction and no open cart of that event behind. The second is the
  harder one: a cart may be edited, closed, deleted or turned into a second
  transaction meanwhile, and `NobodyReopens` is needed, since PUT can open a cart
  whose event has been spent.
- `CartClosedByCheckoutCorrect`, `ClosedCartIsFrozenCorrect`: action properties.
  The consumer's UPDATE asks for the cart's id, its owner and `active`, and its
  event is backed; all other writers look for an active cart first, except PUT
  and DELETE.

About CartEdits (the run `cart_lines`), for lists and requests of any length:

- `PiecesAddCorrect`: AddToCart and CreateCart's loop add exactly the pieces of the
  request, for every product and modulo `Uint32`, whether or not the list, or the
  request, has several lines of one product.
- `PiecesSetCorrect`, `DuplicatesOnlyFromPutCorrect`, and the types
  (`LinesTypeCorrect`).
- `AmountCorrect`: `Spec => []AmountIsExact`, the amount against the plain sum of
  the costs.

The library's induction theorems take the statement to be proved as an operator,
which these provers cannot instantiate. A set of numbers they can: `LeastNumber`
(every set of naturals that is not empty has a least element, from
`NatLessThanWellFounded`) gives `Induction` over a set `T` that is closed under
"and one more" (`Inductive`). With it `LoopRuns` shows that a loop has a run, so
that the recursive functions for the loops (`SumOf`, `AmountOf`, `MergeLines`,
`RemoveLines`) satisfy their recursion: `SumRuns`, `AmountRuns`, `MergeRuns`,
`RemoveRuns`. Sums are then compared by what one turn changes (`SumChange`,
`SumAppend`, `SumSplit` for a concatenation), up to multiples of `Uint32` or of
`2 * Int64Half` (`CongruentTrans`, `WrapCongruent`), and only at the end brought
into the range of the type, where a number is known by its remainder
(`CongruentUnique`). For MergeLines the invariant of its loop is that after n
turns the list stands for its old pieces and those of the first n lines.

About CartService (the run `cart_service`):

- `LocksInvCorrect`: `CartServiceSpec => []LocksInv`. That a handler's copy is
  current (`LockedCopyIsCurrent`) is not inductive, since it speaks of handlers in
  phase `edit` only. `LocksInv` follows a handler from its first locked row on:
  its rows are active carts of its user, stored as it read them, and disjoint
  from those of every other handler (`LocksExclude`); an INSERT is pending only
  for CreateCart and AddToCart. The writers without a lookup, PUT, DELETE and the
  consumer, wait for the lock, and an abort or a crash only gives locks back.
- `LockedCopyIsCurrentCorrect` follows from it: no update is lost.
- `ImplementsCartStoreCorrect`: `CartServiceSpec => ImplementsCartStore`, with a
  lemma for each step that writes the table (`CommitEditRefines`, ..): a COMMIT
  stores the edit of a current copy, so it is the one-step request of CartStore;
  all other statements leave the table alone. This is what allows OrderSaga to be
  composed of CartStore instead of CartService.

About ProductSearch (the runs `catalog` and `search`):

- `CatalogTypeOKCorrect`: the types, with the positions and committed offsets
  inside the logs, which only grow.
- `DeletedIsFinalCorrect`. `DeletedInv` adds that whoever is about to announce a
  deletion speaks of a product that is gone, and that the id of a pending DELETE
  is below the serial, so that no INSERT brings it back.
- `StockRowsAreBoundedCorrect`: rows of a product and the handlers that looked
  before there was one, counted together, are no more than the handlers. An
  INSERT moves its handler from one count to the other; from the first row on
  no one joins the second. (Cardinalities; `IsFiniteSet(GWorkers)` is assumed.)

- `ListIsCacheCorrect`: `Spec => ListIsCache`, the refinement of ListCache by
  `products:all`. `ListSteps` sorts the steps: for the list a step is nothing, a
  Del or the expiry, a SELECT that copies the rows that arrived, a Set that may
  fail, or a crash. Stock, categories, deletions and publishing are nothing.
- `ProductsOutdatedByRaceCorrect`: an action property. The three statements that
  write `products` leave their handler before its Del (`ProductWrites`); in all
  other steps only a Set can make the list differ from the table.

About CachedLists (the run `lists`):

- `ListsTypeOKCorrect` and `AddressDeletedIsFinalCorrect`, the latter by the same
  argument as for products.
- `ListsAreCachesCorrect`: `Spec => ListsAreCaches`, the refinement of ListCache for
  every owner. `StepKinds` sorts the steps of the three services: for the lists a
  step is nothing (`ListsRest`), a step of OwnerLists on tables that stay
  (`ListsWork`), or a crash (`ListsDie`). What a listing holds and sets is then a
  copy that ListCache's reader took, all the rows or, cut off, a part of them.
- `OutdatedByRaceCorrect`: an action property, over the same three kinds, and for
  the first of them over what a commit does to the rows of which owner.

About Accounts (the run `accounts`):

- `UserCopiesAgreeAlways`: `Spec => []UserCopiesAgree`. That the copies agree with
  the accounts is not inductive: they are made from events. `CopiesInv` adds that
  every event of the log is true (`TrueEvents`), that ids of accounts are below the
  serial and that the consumers are at positions of the log. It holds because no
  step changes an account (`AccountsKept`), so an event that is true when it is
  built is true whenever it is read, late, twice or after a restart.
- `AccountsTypeOKCorrect`: the types; the length of the log is bounded only
  together with the goroutines that are about to send.
- `UsersListIsCacheCorrect`: `Spec => UsersListIsCache`, the refinement of ListCache
  by `users:all`, whose table the consumer writes. Here no reply is cut off (GORM
  reports the error), so every SELECT is a `Take` of all the rows.

The assumptions are the named ones of the modules (`PlatformAssumption`,
`CartLinesAssumption`, `AmountsAssumption`, `CartEditsAssumption`,
`ProductAssumption`, ..): bounds are natural numbers,
faults are known ones, and the handlers of the product service are finitely many.
TLC evaluates them in the runs.

Only model-checked are the liveness properties (PaymentSettles, CheckoutCloses,
RequestsFinish, ListConverges, ProductsBecomeSearchable, ListsConverge,
RegisteredUsersBecomeKnown, RegisteredUsersBecomeSearchable, UsersListConverges):
fairness and ENABLED are out of the prover's reach. What is proved of them is
their safety half: the messages they wait for are not lost (NoPaymentForgotten,
NoCheckoutForgotten), and a list does only what ListCache allows (ListsAreCaches,
ListIsCache, UsersListIsCache). Every invariant, action property and refinement
that a passing run checks is proved.

## What is not modelled, and the plan

- The index of addresses: it is filled by the same loop, from topics of the same
  kind, as that of products, and AddressService is not composed with it.
- `stock.updated` and `user.updated`, which search-service consumes and no code
  publishes.
- The rows that GetMe and GetUserInfo cache one by one: no code changes a row of
  user-service. Read-only requests (GetAllCarts, GetPayment, GetStock, Login, the
  searches, ..) read and keep nothing.
- HTTP controllers, routes and middleware: they parse a request and call the gRPC
  server of their own service. Authentication is taken as given: a request
  carries the id of its user.
- Generated code. Of the 27,800 lines of Go in the repository 21,800 are
  `*.pb.go`, marshalling that no property here is about; of the 6,000 lines
  written by hand the modules translate about 2,800, and most of the rest is
  controllers, clients and set-up.
- Topics have one partition, as the consumers read partition 0.

Order of work, most important first:

1. Done: Platform, CartLines, CartStore, TransactionService, PaymentService,
   OrderSaga with OrderProperties; CartService and its refinement; the
   first proofs.
2. Done: ProductService, SearchService, ProductSearch.
3. Done: ListCache, OwnerLists, AddressService, CachedLists.
4. Done: UserRegistration, Accounts.
5. Done: Amounts.
6. Done: OrderPromise, its refinement by OrderSaga, and the proof of it; the proof
   that the copies of users agree.
7. Done: the proofs of NoPaymentForgotten, NoCheckoutForgotten,
   CartClosedByCheckout and ClosedCartIsFrozen; of the row locks of CartService
   and its refinement of CartStore; of the safety properties of ProductSearch, of
   CachedLists with ListsAreCaches, and the types of Accounts.
8. Done: what the loops over a cart's lines compute, for lists of any length; the
   refinement of ListCache by the list of products and by `users:all`, and how
   the list of products gets outdated.
