-------------------------- MODULE OrderChainProofs ---------------------------
(***************************************************************************)
(* The rows of the three services agree, and no event runs ahead of the    *)
(* row it announces.  Both follow from what no step of the program does:   *)
(* rows of transactions and payments are never deleted, and the columns    *)
(* that name other rows are written by the INSERT alone; carts are deleted *)
(* and replaced, but a serial is never reused.                             *)
(***************************************************************************)
EXTENDS OrderProofs

-----------------------------------------------------------------------------
(* What every step keeps. *)

CartsKeep ==
    /\ nextCart' \in Nat
    /\ nextCart' >= nextCart
    /\ \A c \in DOMAIN carts' :
          \/ c >= nextCart
          \/ c \in DOMAIN carts /\ carts'[c].owner = carts[c].owner

SameOrder(new, old) ==
    new.user = old.user /\ new.cart = old.cart /\ new.total = old.total

TransactionsKeep ==
    \A t \in DOMAIN transactions :
        t \in DOMAIN transactions' /\ SameOrder(transactions'[t], transactions[t])

PaymentsKeep ==
    \A p \in DOMAIN payments :
        /\ p \in DOMAIN payments'
        /\ payments'[p].tx = payments[p].tx
        /\ payments'[p].user = payments[p].user
        /\ payments'[p].amount = payments[p].amount
        /\ payments[p].status = "paid" => payments'[p].status = "paid"

\* An UPDATE of a cart by PutCart or an INSERT with the next serial changes the
\* owner of no cart.
LEMMA CartWritesKeep ==
    ASSUME TypeOK
    PROVE  /\ UNCHANGED cartVars => CartsKeep
           /\ \A c \in DOMAIN carts : \A lines, st : PutCart(c, lines, st) => CartsKeep
           /\ \A u \in Users : \A lines : InsertCart(u, lines) => CartsKeep
<1> USE DEF TypeOK, CartTypeOK, CartsKeep
<1>1. UNCHANGED cartVars => CartsKeep
  BY DEF cartVars
<1>2. ASSUME NEW c \in DOMAIN carts, NEW lines, NEW st, PutCart(c, lines, st)
      PROVE  CartsKeep
  BY <1>2 DEF PutCart, CartRow
<1>3. ASSUME NEW u \in Users, NEW lines, InsertCart(u, lines)
      PROVE  CartsKeep
  BY <1>3 DEF InsertCart
<1> QED
  BY <1>1, <1>2, <1>3

\* No step of the cart service gives a cart to another owner or reuses its id.
LEMMA CartStepKeeps == TypeOK /\ CartStep => CartsKeep
<1> SUFFICES ASSUME TypeOK, CartStep PROVE CartsKeep
  OBVIOUS
<1>1. ASSUME NEW u, NEW c \in ActiveCarts(u), NEW lines,
             SetLines(c, lines) \/ SetStatus(c, "paid")
      PROVE  CartsKeep
  BY <1>1, CartWritesKeep DEF SetLines, SetStatus, ActiveCarts
<1>2. CASE CartRequest
  <2>1. ASSUME NEW u \in Users, NEW lines \in CartInputs, CreateCart(u, lines)
        PROVE  CartsKeep
    BY <2>1, <1>1, CartWritesKeep DEF CreateCart
  <2>2. ASSUME NEW u \in Users, NEW p, NEW q, AddToCart(u, p, q)
        PROVE  CartsKeep
    BY <2>2, <1>1, CartWritesKeep DEF AddToCart
  <2>3. ASSUME NEW u \in Users, NEW p, NEW q,
               UpdateProductQty(u, p, q) \/ RemoveProductFromCart(u, p)
                  \/ CheckoutCart(u)
        PROVE  CartsKeep
    BY <2>3, <1>1 DEF UpdateProductQty, RemoveProductFromCart, CheckoutCart
  <2>4. ASSUME NEW u \in Users, NEW c \in DOMAIN carts, DeleteCart(c, u)
        PROVE  CartsKeep
    BY <2>4 DEF DeleteCart, CartsKeep, TypeOK, CartTypeOK
  <2>5. ASSUME NEW c \in DOMAIN carts, NEW lines \in CartInputs,
               NEW st \in PutStatuses, UpdateCart(c, lines, st)
        PROVE  CartsKeep
    BY <2>5, CartWritesKeep DEF UpdateCart
  <2> QED
    BY <1>2, <2>1, <2>2, <2>3, <2>4, <2>5 DEF CartRequest
<1>3. CASE HandleCartCheckedOut
  BY <1>3, <1>1, CartWritesKeep DEF HandleCartCheckedOut, ActiveCarts
<1>4. CASE UNCHANGED cartVars
  BY <1>4, CartWritesKeep
<1> QED
  BY <1>2, <1>3, <1>4 DEF CartStep, CartNext, CartConsumer,
     HandleCartCheckedOutFails, CartServiceCrashes, CartServiceSubscribes

\* What the writes to the transactions table do to the orders in it: an INSERT
\* adds one, an UPDATE of status and paid_at changes none.
LEMMA InsertKeepsOrders ==
    ASSUME TypeOK, NEW row, transactions' = Append(transactions, row)
    PROVE  /\ TransactionsKeep
           /\ Len(transactions) + 1 \in DOMAIN transactions'
           /\ transactions'[Len(transactions) + 1] = row
           /\ \A t \in DOMAIN transactions' :
                 t \in DOMAIN transactions \/ t = Len(transactions) + 1
BY AppendRow DEF TypeOK, TransactionTypeOK, TransactionsKeep, SameOrder

\* An UPDATE that leaves user, cart and total alone.
LEMMA UpdateKeepsOrders ==
    ASSUME TypeOK, NEW t \in DOMAIN transactions, NEW row,
           SameOrder(row, transactions[t]),
           transactions' = [transactions EXCEPT ![t] = row]
    PROVE  TransactionsKeep /\ DOMAIN transactions' = DOMAIN transactions
BY UpdateRow DEF TypeOK, TransactionTypeOK, TransactionsKeep, SameOrder

\* Marking a transaction as paid leaves its order alone.
LEMMA SetPaidKeepsOrders ==
    ASSUME TypeOK, NEW t \in DOMAIN transactions, NEW time, SetPaid(t, time)
    PROVE  TransactionsKeep /\ DOMAIN transactions' = DOMAIN transactions
<1> DEFINE row == [transactions[t] EXCEPT !.status = "paid", !.paidAt = time]
<1>1. transactions' = [transactions EXCEPT ![t] = row]
  BY DEF SetPaid
<1>2. SameOrder(row, transactions[t])
  BY DEF TypeOK, TransactionTypeOK, TransactionRowOK, SameOrder
<1> HIDE DEF row
<1> QED
  BY <1>1, <1>2, UpdateKeepsOrders

\* So does the UPDATE of a cancellation.
LEMMA CancelKeepsOrders ==
    ASSUME TypeOK, NEW w, CancelUpdate(w)
    PROVE  TransactionsKeep /\ DOMAIN transactions' = DOMAIN transactions
<1> DEFINE t == tjob[w].tx
           row == [transactions[t] EXCEPT !.status = "cancelled"]
<1>1. transactions' = [transactions EXCEPT ![t] = row]
  BY DEF CancelUpdate
<1>2. CASE t \in DOMAIN transactions
  <2>1. SameOrder(row, transactions[t])
    BY <1>2 DEF TypeOK, TransactionTypeOK, TransactionRowOK, SameOrder
  <2> HIDE DEF row, t
  <2> QED
    BY <1>1, <1>2, <2>1, UpdateKeepsOrders
<1>3. CASE t \notin DOMAIN transactions
  <2>1. transactions' = transactions
    BY <1>1, <1>3 DEF TypeOK, TransactionTypeOK
  <2> QED
    BY <2>1 DEF TransactionsKeep, SameOrder
<1> QED
  BY <1>2, <1>3

-----------------------------------------------------------------------------
(* Facts about other tables that rows and handlers rely on survive. *)

\* "c is a cart of u" survives a step that keeps the carts.
LEMMA CartOfKept ==
    ASSUME TypeOK, CartsKeep, NEW c \in Nat, NEW u, CartOf(c, u)
    PROVE  CartOf(c, u)'
BY DEF TypeOK, CartTypeOK, CartsKeep, CartOf

\* "t is a transaction of u for this amount" survives a step that keeps orders.
LEMMA TransactionOfKept ==
    ASSUME TransactionsKeep, NEW t, NEW u, NEW amount, TransactionOf(t, u, amount)
    PROVE  TransactionOf(t, u, amount)'
BY DEF TransactionsKeep, SameOrder, TransactionOf

TransactionJobAgrees(job) ==
    /\ job.phase = "pricing" => CartOf(job.cart, job.user)
    /\ job.phase = "cancel" => job.tx \in DOMAIN transactions

PaymentJobAgrees(job) ==
    job.phase = "insert" => TransactionOf(job.tx, job.user, job.amount)

\* OrderChain is an agreement of each table and of each service's handlers.
OrdersAgree ==
    \A t \in DOMAIN transactions : CartOf(transactions[t].cart, transactions[t].user)

PaymentRowsAgree ==
    \A p \in DOMAIN payments :
        TransactionOf(payments[p].tx, payments[p].user, payments[p].amount)

TransactionJobsAgree == \A w \in TWorkers : TransactionJobAgrees(tjob[w])

PaymentJobsAgree == \A w \in PWorkers : PaymentJobAgrees(pjob[w])

ChainParts ==
    /\ OrdersAgree /\ PaymentRowsAgree
    /\ TransactionJobsAgree /\ PaymentJobsAgree

\* The four parts are OrderChain, before and after a step.
LEMMA ChainIsParts == (OrderChain <=> ChainParts) /\ (OrderChain' <=> ChainParts')
BY DEF ChainParts, OrderChain, RowsAgree, HandlersAgree, OrdersAgree, PaymentRowsAgree,
       TransactionJobsAgree, PaymentJobsAgree, TransactionJobAgrees, PaymentJobAgrees

\* What agrees with the carts agrees with them after any step that leaves the
\* transactions and their handlers alone and keeps the carts.
LEMMA OrdersKept ==
    ASSUME TypeOK, CartsKeep, OrdersAgree, TransactionJobsAgree,
           UNCHANGED transactionVars
    PROVE  OrdersAgree' /\ TransactionJobsAgree'
<1>1. OrdersAgree'
  BY CartOfKept DEF TypeOK, TransactionTypeOK, TransactionRowOK, OrdersAgree,
     transactionVars
<1>2. ASSUME NEW w \in TWorkers PROVE TransactionJobAgrees(tjob[w])'
  <2>1. TransactionJobOK(tjob[w]) /\ TransactionJobAgrees(tjob[w])
    BY DEF TypeOK, TransactionJobsOK, TransactionJobsAgree
  <2>2. tjob'[w].phase = "pricing" => tjob[w].cart \in Nat
    BY <2>1 DEF TransactionJobOK, transactionVars, Idle
  <2> QED
    BY <2>1, <2>2, CartOfKept DEF TransactionJobAgrees, transactionVars
<1> QED
  BY <1>1, <1>2 DEF TransactionJobsAgree

\* What agrees with the transactions agrees with them after any step that leaves
\* the payments and their handlers alone and keeps the orders.
LEMMA PaymentsKept ==
    ASSUME TransactionsKeep, PaymentRowsAgree, PaymentJobsAgree, UNCHANGED paymentVars
    PROVE  PaymentRowsAgree' /\ PaymentJobsAgree'
BY TransactionOfKept DEF PaymentRowsAgree, PaymentJobsAgree, PaymentJobAgrees,
   paymentVars

-----------------------------------------------------------------------------
(* OrderChain. *)

\* A step that changes the local variables of one handler of the transaction
\* service leaves all of them in agreement if the new ones agree.
LEMMA TransactionJobChain ==
    ASSUME TypeOK, TransactionJobsAgree, TransactionsKeep, UNCHANGED cartVars,
           NEW w \in TWorkers, NEW job, tjob' = [tjob EXCEPT ![w] = job],
           TransactionJobAgrees(job)
    PROVE  TransactionJobsAgree'
<1>1. ASSUME NEW v \in TWorkers PROVE TransactionJobAgrees(tjob[v])'
  <2>1. tjob'[v] = job \/ tjob'[v] = tjob[v]
    BY DEF TypeOK, TransactionJobsOK
  <2>2. TransactionJobAgrees(tjob'[v])
    BY <2>1 DEF TransactionJobsAgree
  <2> QED
    BY <2>2 DEF TransactionJobAgrees, TransactionsKeep, CartOf, cartVars
<1> QED
  BY <1>1 DEF TransactionJobsAgree

\* Transactions of the table agree with the carts after a step that keeps the
\* orders, adds none, and leaves the carts alone.
LEMMA OrdersAgreeKept ==
    ASSUME OrdersAgree, TransactionsKeep, UNCHANGED cartVars,
           DOMAIN transactions' = DOMAIN transactions
    PROVE  OrdersAgree'
BY DEF OrdersAgree, TransactionsKeep, SameOrder, CartOf, cartVars

\* Every step of a request handler of the transaction service keeps the orders,
\* and leaves transactions and handlers in agreement with the carts.
LEMMA TransactionWorkerChain ==
    ASSUME TypeOK, OrdersAgree, TransactionJobsAgree, UNCHANGED cartVars,
           NEW w \in TWorkers, TransactionWorker(w)
    PROVE  TransactionsKeep /\ OrdersAgree' /\ TransactionJobsAgree'
<1>0. /\ TransactionJobOK(tjob[w]) /\ TransactionJobAgrees(tjob[w])
      /\ TransactionJobAgrees(Idle)
  BY DEF TypeOK, TransactionJobsOK, TransactionJobsAgree, TransactionJobAgrees, Idle
<1>a. UNCHANGED transactions => TransactionsKeep /\ OrdersAgree'
  BY OrdersAgreeKept DEF TransactionsKeep, SameOrder
<1>1. CASE CallGetCart(w)
  <2> PICK u \in Users, c \in DOMAIN carts :
           \E cart \in GetCart(c, u) : CreateTransaction(w, u, c, cart)
    BY <1>1 DEF CallGetCart
  <2> PICK cart \in GetCart(c, u) : CreateTransaction(w, u, c, cart)
    OBVIOUS
  <2> DEFINE job == [phase |-> "pricing", user |-> u, cart |-> c,
                     todo |-> cart.lines, total |-> 0]
  <2>1. TransactionJobAgrees(job)
    BY DEF TransactionJobAgrees, GetCart, CartOf, TypeOK, CartTypeOK
  <2>2. tjob' = [tjob EXCEPT ![w] = job] /\ UNCHANGED transactions
    BY DEF CreateTransaction
  <2> HIDE DEF job
  <2> QED
    BY <2>1, <2>2, <1>a, TransactionJobChain
<1>2. CASE CallGetProduct(w)
  <2> PICK price \in Prices : GetProduct(w, price)
    BY <1>2 DEF CallGetProduct
  <2> DEFINE job == [tjob[w] EXCEPT
                        !.todo = Tail(tjob[w].todo),
                        !.total = Added(tjob[w].total, price, Head(tjob[w].todo).qty)]
  <2>1. TransactionJobAgrees(job)
    BY <1>0 DEF TransactionJobAgrees, TransactionJobOK, GetProduct, Idle
  <2>2. tjob' = [tjob EXCEPT ![w] = job] /\ UNCHANGED transactions
    BY DEF GetProduct
  <2> HIDE DEF job
  <2> QED
    BY <2>1, <2>2, <1>a, TransactionJobChain
<1>3. CASE StoreTransaction(w)
  <2> DEFINE row == [user |-> tjob[w].user, cart |-> tjob[w].cart,
                     total |-> tjob[w].total, status |-> "pending",
                     paidAt |-> Null]
             event == [cart |-> tjob[w].cart, user |-> tjob[w].user,
                       tx |-> Len(transactions) + 1]
             job == [phase |-> "publish", sends |-> 0, event |-> event]
  <2>1. /\ transactions' = Append(transactions, row)
        /\ tjob' = [tjob EXCEPT ![w] = job]
        /\ CartOf(row.cart, row.user)
    BY <1>0, <1>3 DEF StoreTransaction, InsertTransaction, TransactionJobAgrees
  <2>2. TransactionJobAgrees(job)
    BY DEF TransactionJobAgrees
  <2> HIDE DEF row, job
  <2>3. TransactionsKeep
    BY <2>1, InsertKeepsOrders
  <2>4. OrdersAgree'
    BY <2>1, InsertKeepsOrders DEF OrdersAgree, TransactionsKeep, SameOrder, CartOf,
       cartVars
  <2> QED
    BY <2>1, <2>2, <2>3, <2>4, TransactionJobChain
<1>4. CASE AnnounceTransaction(w)
  <2>1. PICK job : TransactionJobAgrees(job) /\ tjob' = [tjob EXCEPT ![w] = job]
    <3>1. TransactionJobAgrees([phase |-> "publish", event |-> tjob[w].event,
                                sends |-> tjob[w].sends + 1])
      BY DEF TransactionJobAgrees
    <3> QED
      BY <1>0, <1>4, <3>1 DEF AnnounceTransaction, PublishCartCheckedOut,
         ResendCartCheckedOut
  <2>2. UNCHANGED transactions
    BY <1>4 DEF AnnounceTransaction, PublishCartCheckedOut, ResendCartCheckedOut
  <2> QED
    BY <2>1, <2>2, <1>a, TransactionJobChain
<1>5. CASE StartCancel(w)
  <2> PICK u \in Users, t \in DOMAIN transactions : CancelTransaction(w, t, u)
    BY <1>5 DEF StartCancel
  <2>1. TransactionJobAgrees([phase |-> "cancel", tx |-> t])
    BY DEF TransactionJobAgrees
  <2> QED
    BY <2>1, <1>a, TransactionJobChain DEF CancelTransaction
<1>6. CASE FinishCancel(w)
  <2>1. TransactionsKeep /\ DOMAIN transactions' = DOMAIN transactions
    BY <1>6, CancelKeepsOrders DEF FinishCancel
  <2>2. tjob' = [tjob EXCEPT ![w] = Idle]
    BY <1>6 DEF FinishCancel, CancelUpdate
  <2> QED
    BY <2>1, <2>2, <1>0, OrdersAgreeKept, TransactionJobChain
<1>7. CASE LoseTransactionJob(w)
  BY <1>7, <1>0, <1>a, TransactionJobChain DEF LoseTransactionJob, DropTransactionJob
<1> QED
  BY <1>1, <1>2, <1>3, <1>4, <1>5, <1>6, <1>7 DEF TransactionWorker

\* The same for every step of the transaction service.
LEMMA TransactionStepChain ==
    ASSUME TypeOK, OrdersAgree, TransactionJobsAgree, TransactionStep
    PROVE  TransactionsKeep /\ OrdersAgree' /\ TransactionJobsAgree'
<1>0. UNCHANGED cartVars
  BY DEF TransactionStep
<1>1. ASSUME NEW w \in TWorkers, TransactionWorker(w)
      PROVE  TransactionsKeep /\ OrdersAgree' /\ TransactionJobsAgree'
  BY <1>0, <1>1, TransactionWorkerChain
<1>2. CASE CallMarkAsPaid \/ TransactionConsumer
  <2>1. TransactionsKeep /\ DOMAIN transactions' = DOMAIN transactions
    <3>1. CASE UNCHANGED transactions
      BY <3>1 DEF TransactionsKeep, SameOrder
    <3>2. CASE CallMarkAsPaid
      BY <3>2, SetPaidKeepsOrders DEF CallMarkAsPaid, MarkAsPaid
    <3>3. CASE PaymentPaidHandler
      BY <3>1, <3>3, SetPaidKeepsOrders DEF PaymentPaidHandler
    <3> QED
      BY <1>2, <3>1, <3>2, <3>3 DEF TransactionConsumer, PaymentPaidHandlerFails,
         TransactionServiceCrashes, TransactionServiceSubscribes, transactionVars
  <2>2. UNCHANGED tjob \/ tjob' = [w \in TWorkers |-> Idle]
    BY <1>2 DEF CallMarkAsPaid, MarkAsPaid, TransactionConsumer, PaymentPaidHandler,
       PaymentPaidHandlerFails, TransactionServiceCrashes,
       TransactionServiceSubscribes, transactionVars
  <2>3. TransactionJobsAgree'
    BY <1>0, <2>1, <2>2 DEF TransactionJobsAgree, TransactionJobAgrees, Idle, CartOf,
       cartVars, TransactionsKeep
  <2> QED
    BY <1>0, <2>1, <2>3, OrdersAgreeKept
<1> QED
  BY <1>1, <1>2 DEF TransactionStep

\* A step that changes the local variables of one handler of the payment service
\* leaves all of them in agreement if the new ones agree.
LEMMA PaymentJobChain ==
    ASSUME TypeOK, PaymentJobsAgree, UNCHANGED transactionVars,
           NEW w \in PWorkers, NEW job, pjob' = [pjob EXCEPT ![w] = job],
           PaymentJobAgrees(job)
    PROVE  PaymentJobsAgree'
<1>1. ASSUME NEW v \in PWorkers PROVE PaymentJobAgrees(pjob[v])'
  <2>1. pjob'[v] = job \/ pjob'[v] = pjob[v]
    BY DEF TypeOK, PaymentJobsOK
  <2>2. PaymentJobAgrees(pjob'[v])
    BY <2>1 DEF PaymentJobsAgree
  <2> QED
    BY <2>2 DEF PaymentJobAgrees, TransactionOf, transactionVars
<1> QED
  BY <1>1 DEF PaymentJobsAgree

\* A payment is inserted with the columns of its handler, and PayPayment changes
\* its status and paid_at alone.
LEMMA PaymentWritesKeep ==
    ASSUME TypeOK
    PROVE  /\ UNCHANGED payments => PaymentsKeep
           /\ \A row : payments' = Append(payments, row) => PaymentsKeep
           /\ \A w, p, u : PayPayment(w, p, u) =>
                 /\ PaymentsKeep
                 /\ DOMAIN payments' = DOMAIN payments
                 /\ payments'[p].status = "paid"
<1>1. UNCHANGED payments => PaymentsKeep
  BY DEF PaymentsKeep
<1>2. ASSUME NEW row, payments' = Append(payments, row)
      PROVE  PaymentsKeep
  BY <1>2, AppendRow DEF TypeOK, PaymentTypeOK, PaymentsKeep
<1>3. ASSUME NEW w, NEW p, NEW u, PayPayment(w, p, u)
      PROVE  /\ PaymentsKeep
             /\ DOMAIN payments' = DOMAIN payments
             /\ payments'[p].status = "paid"
  <2> DEFINE row == [payments[p] EXCEPT !.status = "paid", !.paidAt = NOW]
  <2>1. p \in DOMAIN payments /\ payments' = [payments EXCEPT ![p] = row]
    BY <1>3 DEF PayPayment
  <2>2. /\ row.tx = payments[p].tx /\ row.user = payments[p].user
        /\ row.amount = payments[p].amount /\ row.status = "paid"
    BY <2>1 DEF TypeOK, PaymentTypeOK, PaymentRowOK
  <2> HIDE DEF row
  <2> QED
    BY <2>1, <2>2, UpdateRow DEF TypeOK, PaymentTypeOK, PaymentsKeep
<1> QED
  BY <1>1, <1>2, <1>3

\* Every step of the payment service leaves payments and handlers in agreement
\* with the transactions.
LEMMA PaymentStepChain ==
    ASSUME TypeOK, PaymentRowsAgree, PaymentJobsAgree, PaymentStep
    PROVE  PaymentsKeep /\ PaymentRowsAgree' /\ PaymentJobsAgree'
<1>0. UNCHANGED transactionVars /\ PaymentJobAgrees(Idle)
  BY DEF PaymentStep, PaymentJobAgrees, Idle
<1>a. PaymentsKeep /\ DOMAIN payments' = DOMAIN payments => PaymentRowsAgree'
  BY <1>0 DEF PaymentRowsAgree, PaymentsKeep, TransactionOf, transactionVars
<1>b. UNCHANGED payments => PaymentsKeep /\ PaymentRowsAgree'
  BY <1>a, PaymentWritesKeep
<1>1. ASSUME NEW w \in PWorkers, CallGetTransaction(w)
      PROVE  PaymentsKeep /\ PaymentRowsAgree' /\ PaymentJobsAgree'
  <2> PICK u \in Users, t \in DOMAIN transactions :
           \E tx \in GetTransaction(t, u) : CreatePayment(w, t, u, tx)
    BY <1>1 DEF CallGetTransaction
  <2> PICK tx \in GetTransaction(t, u) : CreatePayment(w, t, u, tx)
    OBVIOUS
  <2>1. PaymentJobAgrees([phase |-> "insert", tx |-> t, user |-> u,
                          amount |-> tx.total])
    BY DEF PaymentJobAgrees, GetTransaction, TransactionOf
  <2> QED
    BY <2>1, <1>0, <1>b, PaymentJobChain DEF CreatePayment
<1>2. ASSUME NEW w \in PWorkers, StorePayment(w)
      PROVE  PaymentsKeep /\ PaymentRowsAgree' /\ PaymentJobsAgree'
  <2> DEFINE row == [tx |-> pjob[w].tx, user |-> pjob[w].user,
                     amount |-> pjob[w].amount, status |-> "pending",
                     paidAt |-> Null]
  <2>1. /\ payments' = Append(payments, row)
        /\ pjob' = [pjob EXCEPT ![w] = Idle]
        /\ TransactionOf(row.tx, row.user, row.amount)
    BY <1>2 DEF StorePayment, InsertPayment, PaymentJobsAgree, PaymentJobAgrees
  <2> HIDE DEF row
  <2>2. PaymentRowsAgree'
    BY <2>1, <1>0, AppendRow DEF TypeOK, PaymentTypeOK, PaymentRowsAgree,
       TransactionOf, transactionVars
  <2> QED
    BY <2>1, <2>2, <1>0, PaymentWritesKeep, PaymentJobChain
<1>3. ASSUME NEW w \in PWorkers, CallPayPayment(w)
      PROVE  PaymentsKeep /\ PaymentRowsAgree' /\ PaymentJobsAgree'
  <2> PICK u \in Users, p \in DOMAIN payments : PayPayment(w, p, u)
    BY <1>3 DEF CallPayPayment
  <2>1. PICK job : PaymentJobAgrees(job) /\ pjob' = [pjob EXCEPT ![w] = job]
    BY DEF PayPayment, PaymentJobAgrees
  <2> QED
    BY <2>1, <1>0, <1>a, PaymentWritesKeep, PaymentJobChain
<1>4. ASSUME NEW w \in PWorkers, AnnouncePayment(w) \/ LosePaymentJob(w)
      PROVE  PaymentsKeep /\ PaymentRowsAgree' /\ PaymentJobsAgree'
  <2>1. PaymentJobAgrees([phase |-> "publish", event |-> pjob[w].event,
                          sends |-> pjob[w].sends + 1])
    BY DEF PaymentJobAgrees
  <2>2. PICK job : PaymentJobAgrees(job) /\ pjob' = [pjob EXCEPT ![w] = job]
    BY <1>0, <1>4, <2>1 DEF AnnouncePayment, PublishPaymentPaid, ResendPaymentPaid,
       LosePaymentJob, DropPaymentJob
  <2>3. UNCHANGED payments
    BY <1>4 DEF AnnouncePayment, PublishPaymentPaid, ResendPaymentPaid,
       LosePaymentJob, DropPaymentJob
  <2> QED
    BY <2>2, <2>3, <1>0, <1>b, PaymentJobChain
<1>5. CASE PaymentServiceCrashes
  BY <1>5, <1>b DEF PaymentServiceCrashes, PaymentJobsAgree, PaymentJobAgrees, Idle
<1> QED
  BY <1>1, <1>2, <1>3, <1>4, <1>5 DEF PaymentStep, PaymentWorker

\* The cart, the transaction and the payment of an order agree, in the tables and
\* in what the handlers hold, for any number of users, handlers and orders and
\* under every fault.
THEOREM OrderChainCorrect == Spec => []OrderChain
<1>1. Init => OrderChain
  BY DEF Init, TransactionInit, PaymentInit, OrderChain, RowsAgree, HandlersAgree, Idle
<1>2. ASSUME TypeOK, OrderChain, [Next]_vars
      PROVE  OrderChain'
  <2> USE ChainIsParts DEF ChainParts
  <2>1. CASE CartStep
    <3>1. CartsKeep /\ UNCHANGED transactionVars /\ UNCHANGED paymentVars
      BY <1>2, <2>1, CartStepKeeps DEF CartStep
    <3>2. TransactionsKeep
      BY <3>1 DEF TransactionsKeep, SameOrder, transactionVars
    <3> QED
      BY <1>2, <3>1, <3>2, OrdersKept, PaymentsKept
  <2>2. CASE TransactionStep
    BY <1>2, <2>2, TransactionStepChain, PaymentsKept DEF TransactionStep
  <2>3. CASE PaymentStep
    <3>1. CartsKeep /\ UNCHANGED transactionVars
      BY <1>2, <2>3, CartWritesKeep DEF PaymentStep
    <3> QED
      BY <1>2, <2>3, <3>1, OrdersKept, PaymentStepChain
  <2>4. CASE UNCHANGED vars
    BY <1>2, <2>4 DEF vars, cartVars, transactionVars, paymentVars, OrderChain,
       RowsAgree, HandlersAgree, CartOf, TransactionOf
  <2> QED
    BY <1>2, <2>1, <2>2, <2>3, <2>4 DEF Next
<1> QED
  BY <1>1, <1>2, TypeCorrect, PTL DEF Spec

-----------------------------------------------------------------------------
(* No event runs ahead of the row it announces.  An event is built from     *)
(* what a statement stored, and from then on only travels: from a handler   *)
(* to the topic, once or more often, and from the topic to its consumer.    *)

\* The events that are backed by a row, in the present state.
BackedCartEvent ==
    {e \in CartEvent :
        /\ e.tx \in DOMAIN transactions
        /\ transactions[e.tx].cart = e.cart
        /\ transactions[e.tx].user = e.user}

BackedPaymentEvent ==
    {e \in PaymentEvent :
        /\ e.payment \in DOMAIN payments
        /\ payments[e.payment].tx = e.tx
        /\ payments[e.payment].status = "paid"}

CartEventsBacked ==
    /\ cartPaid \in TopicOf(BackedCartEvent)
    /\ \A w \in TWorkers :
          tjob[w].phase = "publish" => tjob[w].event \in BackedCartEvent

PaymentEventsBacked ==
    /\ paymentPaid \in TopicOf(BackedPaymentEvent)
    /\ \A w \in PWorkers :
          pjob[w].phase = "publish" => pjob[w].event \in BackedPaymentEvent

\* EventsAreBacked follows from the statement about topics and handlers.
LEMMA BackedEvents == CartEventsBacked /\ PaymentEventsBacked => EventsAreBacked
<1> SUFFICES ASSUME CartEventsBacked, PaymentEventsBacked
             PROVE  EventsAreBacked
  OBVIOUS
<1>1. CartEvents \subseteq BackedCartEvent
  BY DEF CartEvents, CartEventsBacked, TopicOf
<1>2. PaymentEvents \subseteq BackedPaymentEvent
  BY DEF PaymentEvents, PaymentEventsBacked, TopicOf
<1> QED
  BY <1>1, <1>2 DEF EventsAreBacked, BackedCartEvent, BackedPaymentEvent

\* An event stays backed while orders and payments are kept.
LEMMA BackedKept ==
    /\ TransactionsKeep => BackedCartEvent \subseteq BackedCartEvent'
    /\ PaymentsKeep => BackedPaymentEvent \subseteq BackedPaymentEvent'
BY DEF TransactionsKeep, SameOrder, PaymentsKeep, BackedCartEvent, BackedPaymentEvent

\* A topic of some events is a topic of more events.
LEMMA TopicOfMore ==
    ASSUME NEW A, NEW B, A \subseteq B, NEW topic \in TopicOf(A)
    PROVE  topic \in TopicOf(B)
BY DEF TopicOf

\* A step that leaves topic and handlers of "cart.paid" alone keeps its events
\* backed, if it keeps the orders.
LEMMA CartEventsKept ==
    ASSUME CartEventsBacked, TransactionsKeep, UNCHANGED <<cartPaid, tjob>>
    PROVE  CartEventsBacked'
BY BackedKept, TopicOfMore DEF CartEventsBacked

\* The same for "payment.paid".
LEMMA PaymentEventsKept ==
    ASSUME PaymentEventsBacked, PaymentsKeep, UNCHANGED <<paymentPaid, pjob>>
    PROVE  PaymentEventsBacked'
BY BackedKept, TopicOfMore DEF PaymentEventsBacked

-----------------------------------------------------------------------------
(* "cart.paid". *)

\* The consumer takes messages off the topic, or starts with an empty one.
LEMMA CartStepEvents ==
    ASSUME CartEventsBacked, CartStep
    PROVE  CartEventsBacked'
<1>1. BackedCartEvent' = BackedCartEvent /\ tjob' = tjob
  BY DEF CartStep, transactionVars, BackedCartEvent
<1>2. cartPaid' \in TopicOf(BackedCartEvent)
  BY TopicType DEF CartEventsBacked, CartStep, CartNext, CartConsumer,
     HandleCartCheckedOut, HandleCartCheckedOutFails, CartServiceCrashes,
     CartServiceSubscribes
<1> QED
  BY <1>1, <1>2 DEF CartEventsBacked

\* A handler of the transaction service builds its event from the id and the
\* columns of its INSERT, and publishes that event, once or more often.
LEMMA TransactionWorkerEvents ==
    ASSUME TypeOK, CartEventsBacked, TransactionsKeep,
           NEW w \in TWorkers, TransactionWorker(w)
    PROVE  CartEventsBacked'
<1>0. /\ BackedCartEvent \subseteq BackedCartEvent'
      /\ tjob = [v \in TWorkers |-> tjob[v]]
      /\ TransactionJobOK(tjob[w])
  BY BackedKept DEF TypeOK, TransactionJobsOK
<1>1. ASSUME NEW job, tjob' = [tjob EXCEPT ![w] = job],
             job.phase = "publish" => job.event \in BackedCartEvent',
             cartPaid' \in TopicOf(BackedCartEvent)
      PROVE  CartEventsBacked'
  <2>1. ASSUME NEW v \in TWorkers, tjob'[v].phase = "publish"
        PROVE  tjob'[v].event \in BackedCartEvent'
    BY <1>0, <1>1, <2>1 DEF CartEventsBacked
  <2> QED
    BY <1>0, <1>1, <2>1, TopicOfMore DEF CartEventsBacked
<1>2. CASE StoreTransaction(w)
  <2> DEFINE row == [user |-> tjob[w].user, cart |-> tjob[w].cart,
                     total |-> tjob[w].total, status |-> "pending",
                     paidAt |-> Null]
             event == [cart |-> tjob[w].cart, user |-> tjob[w].user,
                       tx |-> Len(transactions) + 1]
             job == [phase |-> "publish", sends |-> 0, event |-> event]
  <2>1. /\ transactions' = Append(transactions, row)
        /\ tjob' = [tjob EXCEPT ![w] = job]
        /\ cartPaid' = cartPaid
    BY <1>2 DEF StoreTransaction, InsertTransaction, platformVars
  <2>2. event \in CartEvent
    BY <1>0, <1>2, AppendRow DEF StoreTransaction, InsertTransaction,
       TransactionJobOK, Idle, CartEvent, TypeOK, TransactionTypeOK
  <2>3. event.tx = Len(transactions) + 1 /\ event.cart = row.cart
        /\ event.user = row.user
    OBVIOUS
  <2>4. job.event = event
    OBVIOUS
  <2> HIDE DEF row, event, job
  <2>5. event \in BackedCartEvent'
    BY <2>1, <2>2, <2>3, InsertKeepsOrders DEF BackedCartEvent
  <2> QED
    BY <1>1, <2>1, <2>4, <2>5 DEF CartEventsBacked
<1>3. CASE AnnounceTransaction(w)
  <2>1. tjob[w].phase = "publish" /\ cartPaid' = Appended(cartPaid, tjob[w].event)
    BY <1>3 DEF AnnounceTransaction, PublishCartCheckedOut, ResendCartCheckedOut
  <2>2. cartPaid' \in TopicOf(BackedCartEvent)
    BY <2>1, TopicType DEF CartEventsBacked
  <2>3. tjob[w].event \in BackedCartEvent'
    BY <1>0, <2>1 DEF CartEventsBacked
  <2>4. CASE PublishCartCheckedOut(w)
    BY <1>1, <2>2, <2>4 DEF PublishCartCheckedOut, Idle
  <2>5. CASE ResendCartCheckedOut(w)
    BY <1>1, <2>2, <2>3, <2>5 DEF ResendCartCheckedOut
  <2> QED
    BY <1>3, <2>4, <2>5 DEF AnnounceTransaction
<1>4. CASE CallGetCart(w) \/ CallGetProduct(w) \/ StartCancel(w) \/ FinishCancel(w)
           \/ LoseTransactionJob(w)
  <2>1. cartPaid' = cartPaid
    BY <1>4 DEF CallGetCart, CallGetProduct, StartCancel, FinishCancel,
       LoseTransactionJob, platformVars
  <2>2. PICK job : tjob' = [tjob EXCEPT ![w] = job] /\ job.phase # "publish"
    <3>1. CASE CallGetProduct(w)
      <4> PICK price \in Prices : GetProduct(w, price)
        BY <3>1 DEF CallGetProduct
      <4> DEFINE job == [tjob[w] EXCEPT
                            !.todo = Tail(tjob[w].todo),
                            !.total = Added(tjob[w].total, price, Head(tjob[w].todo).qty)]
      <4>1. job.phase # "publish"
        BY <1>0 DEF GetProduct, TransactionJobOK, Idle
      <4> QED
        BY <4>1 DEF GetProduct
    <3>2. CASE CallGetCart(w)
      <4> PICK u \in Users, c \in DOMAIN carts :
               \E cart \in GetCart(c, u) : CreateTransaction(w, u, c, cart)
        BY <3>2 DEF CallGetCart
      <4> PICK cart \in GetCart(c, u) : CreateTransaction(w, u, c, cart)
        OBVIOUS
      <4> DEFINE job == [phase |-> "pricing", user |-> u, cart |-> c,
                         todo |-> cart.lines, total |-> 0]
      <4>1. tjob' = [tjob EXCEPT ![w] = job] /\ job.phase # "publish"
        BY DEF CreateTransaction
      <4> HIDE DEF job
      <4> QED
        BY <4>1
    <3>3. CASE StartCancel(w)
      <4> PICK u \in Users, t \in DOMAIN transactions : CancelTransaction(w, t, u)
        BY <3>3 DEF StartCancel
      <4> DEFINE job == [phase |-> "cancel", tx |-> t]
      <4>1. tjob' = [tjob EXCEPT ![w] = job] /\ job.phase # "publish"
        BY DEF CancelTransaction
      <4> HIDE DEF job
      <4> QED
        BY <4>1
    <3>4. CASE FinishCancel(w) \/ LoseTransactionJob(w)
      <4>1. tjob' = [tjob EXCEPT ![w] = Idle] /\ Idle.phase # "publish"
        BY <3>4 DEF FinishCancel, CancelUpdate, LoseTransactionJob,
           DropTransactionJob, Idle
      <4> QED
        BY <4>1
    <3> QED
      BY <1>4, <3>1, <3>2, <3>3, <3>4
  <2> QED
    BY <1>1, <2>1, <2>2 DEF CartEventsBacked
<1> QED
  BY <1>2, <1>3, <1>4 DEF TransactionWorker

\* Every step of the transaction service keeps the events of "cart.paid" backed.
LEMMA TransactionStepEvents ==
    ASSUME TypeOK, CartEventsBacked, TransactionsKeep, TransactionStep
    PROVE  CartEventsBacked'
<1>1. ASSUME NEW w \in TWorkers, TransactionWorker(w) PROVE CartEventsBacked'
  BY <1>1, TransactionWorkerEvents
<1>2. CASE UNCHANGED <<cartPaid, tjob>>
  BY <1>2, CartEventsKept
<1>3. CASE TransactionServiceCrashes /\ cartPaid' = cartPaid
  BY <1>3, BackedKept, TopicOfMore
     DEF TransactionServiceCrashes, CartEventsBacked, Idle
<1> QED
  BY <1>1, <1>2, <1>3 DEF TransactionStep, CallMarkAsPaid, MarkAsPaid,
     TransactionConsumer, PaymentPaidHandler, PaymentPaidHandlerFails,
     TransactionServiceSubscribes, transactionVars

-----------------------------------------------------------------------------
(* "payment.paid". *)

\* The consumer takes messages off the topic, or starts with an empty one.
LEMMA PaymentTopicEvents ==
    ASSUME PaymentEventsBacked, TransactionStep
    PROVE  PaymentEventsBacked'
<1>1. BackedPaymentEvent' = BackedPaymentEvent /\ pjob' = pjob
  BY DEF TransactionStep, paymentVars, BackedPaymentEvent
<1>2. paymentPaid' \in TopicOf(BackedPaymentEvent)
  <2>1. CASE UNCHANGED paymentPaid
    BY <2>1 DEF PaymentEventsBacked
  <2>2. CASE TransactionConsumer
    BY <2>2, TopicType DEF PaymentEventsBacked, TransactionConsumer,
       PaymentPaidHandler, PaymentPaidHandlerFails, TransactionServiceCrashes,
       TransactionServiceSubscribes
  <2> QED
    BY <2>1, <2>2 DEF TransactionStep, TransactionWorker, CallMarkAsPaid,
       CallGetCart, CallGetProduct, StoreTransaction, AnnounceTransaction,
       StartCancel, FinishCancel, LoseTransactionJob, platformVars
<1> QED
  BY <1>1, <1>2 DEF PaymentEventsBacked

\* A handler of the payment service builds its event from the row that its UPDATE
\* returned, and publishes that event, once or more often.
LEMMA PaymentWorkerEvents ==
    ASSUME TypeOK, PaymentEventsBacked, PaymentsKeep,
           NEW w \in PWorkers, PaymentWorker(w)
    PROVE  PaymentEventsBacked'
<1>0. /\ BackedPaymentEvent \subseteq BackedPaymentEvent'
      /\ pjob = [v \in PWorkers |-> pjob[v]]
  BY BackedKept DEF TypeOK, PaymentJobsOK
<1>1. ASSUME NEW job, pjob' = [pjob EXCEPT ![w] = job],
             job.phase = "publish" => job.event \in BackedPaymentEvent',
             paymentPaid' \in TopicOf(BackedPaymentEvent)
      PROVE  PaymentEventsBacked'
  <2>1. ASSUME NEW v \in PWorkers, pjob'[v].phase = "publish"
        PROVE  pjob'[v].event \in BackedPaymentEvent'
    BY <1>0, <1>1, <2>1 DEF PaymentEventsBacked
  <2> QED
    BY <1>0, <1>1, <2>1, TopicOfMore DEF PaymentEventsBacked
<1>2. CASE CallPayPayment(w)
  <2> PICK u \in Users, p \in DOMAIN payments : PayPayment(w, p, u)
    BY <1>2 DEF CallPayPayment
  <2> DEFINE event == [payment |-> p, tx |-> payments[p].tx, paidAt |-> RFC3339(NOW)]
             job == [phase |-> "publish", sends |-> 0, event |-> event]
  <2>1. pjob' = [pjob EXCEPT ![w] = job] /\ paymentPaid' = paymentPaid
    BY <1>2 DEF CallPayPayment, PayPayment
  <2>2. event \in PaymentEvent
    <3>1. NOW \in Nat /\ RFC3339(NOW) \in Int
      BY PlatformAssumption DEF NOW, RFC3339, TypeOK, PlatformTypeOK
    <3>2. p \in Nat \ {0} /\ payments[p].tx \in Nat \ {0}
      BY AppendRow DEF TypeOK, PaymentTypeOK, PaymentRowOK
    <3> QED
      BY <3>1, <3>2 DEF PaymentEvent
  <2>3. event.payment = p /\ event.tx = payments[p].tx /\ job.event = event
    OBVIOUS
  <2> HIDE DEF event, job
  <2>4. event \in BackedPaymentEvent'
    BY <2>2, <2>3, PaymentWritesKeep DEF BackedPaymentEvent, PaymentsKeep
  <2> QED
    BY <1>1, <2>1, <2>3, <2>4 DEF PaymentEventsBacked
<1>3. CASE AnnouncePayment(w)
  <2>1. pjob[w].phase = "publish" /\ paymentPaid' = Appended(paymentPaid, pjob[w].event)
    BY <1>3 DEF AnnouncePayment, PublishPaymentPaid, ResendPaymentPaid
  <2>2. paymentPaid' \in TopicOf(BackedPaymentEvent)
    BY <2>1, TopicType DEF PaymentEventsBacked
  <2>3. pjob[w].event \in BackedPaymentEvent'
    BY <1>0, <2>1 DEF PaymentEventsBacked
  <2>4. CASE PublishPaymentPaid(w)
    BY <1>1, <2>2, <2>4 DEF PublishPaymentPaid, Idle
  <2>5. CASE ResendPaymentPaid(w)
    BY <1>1, <2>2, <2>3, <2>5 DEF ResendPaymentPaid
  <2> QED
    BY <1>3, <2>4, <2>5 DEF AnnouncePayment
<1>4. CASE CallGetTransaction(w)
  <2> PICK u \in Users, t \in DOMAIN transactions :
           \E tx \in GetTransaction(t, u) : CreatePayment(w, t, u, tx)
    BY <1>4 DEF CallGetTransaction
  <2> PICK tx \in GetTransaction(t, u) : CreatePayment(w, t, u, tx)
    OBVIOUS
  <2> DEFINE job == [phase |-> "insert", tx |-> t, user |-> u, amount |-> tx.total]
  <2>1. pjob' = [pjob EXCEPT ![w] = job] /\ job.phase # "publish"
    BY DEF CreatePayment
  <2> HIDE DEF job
  <2> QED
    BY <1>1, <1>4, <2>1 DEF CallGetTransaction, platformVars, PaymentEventsBacked
<1>5. CASE StorePayment(w) \/ LosePaymentJob(w)
  <2>1. /\ pjob' = [pjob EXCEPT ![w] = Idle] /\ Idle.phase # "publish"
        /\ paymentPaid' = paymentPaid
    BY <1>5 DEF StorePayment, InsertPayment, LosePaymentJob, DropPaymentJob,
       platformVars, Idle
  <2> QED
    BY <1>1, <2>1 DEF PaymentEventsBacked
<1> QED
  BY <1>2, <1>3, <1>4, <1>5 DEF PaymentWorker

\* Every step of the payment service keeps the events of "payment.paid" backed.
LEMMA PaymentStepEvents ==
    ASSUME TypeOK, PaymentEventsBacked, PaymentsKeep, PaymentStep
    PROVE  PaymentEventsBacked'
<1>1. ASSUME NEW w \in PWorkers, PaymentWorker(w) PROVE PaymentEventsBacked'
  BY <1>1, PaymentWorkerEvents
<1>2. CASE PaymentServiceCrashes /\ paymentPaid' = paymentPaid
  BY <1>2, BackedKept, TopicOfMore DEF PaymentServiceCrashes, PaymentEventsBacked, Idle
<1> QED
  BY <1>1, <1>2 DEF PaymentStep, platformVars

\* A "cart.paid" names a stored transaction of its cart and user, and a
\* "payment.paid" a stored payment that is paid: for any number of users, handlers
\* and messages, whatever is lost, resent or left behind by a crash.
THEOREM EventsAreBackedCorrect == Spec => []EventsAreBacked
<1>1. Init => CartEventsBacked /\ PaymentEventsBacked
  BY TopicType DEF Init, PlatformInit, TransactionInit, PaymentInit,
     CartEventsBacked, PaymentEventsBacked, Subscribed, TopicOf, Idle
<1>2. ASSUME TypeOK, OrderChain, CartEventsBacked, PaymentEventsBacked, [Next]_vars
      PROVE  CartEventsBacked' /\ PaymentEventsBacked'
  <2>0. ChainParts
    BY <1>2, ChainIsParts
  <2>1. CASE CartStep
    <3>1. PaymentsKeep
      BY <2>1 DEF CartStep, PaymentsKeep, paymentVars
    <3> QED
      BY <1>2, <2>1, <3>1, CartStepEvents, PaymentEventsKept
         DEF CartStep, paymentVars
  <2>2. CASE TransactionStep
    <3>1. TransactionsKeep
      BY <1>2, <2>0, <2>2, TransactionStepChain DEF ChainParts
    <3> QED
      BY <1>2, <2>2, <3>1, TransactionStepEvents, PaymentTopicEvents
  <2>3. CASE PaymentStep
    <3>1. PaymentsKeep
      BY <1>2, <2>0, <2>3, PaymentStepChain DEF ChainParts
    <3>2. UNCHANGED <<cartPaid, tjob>> /\ TransactionsKeep
      BY <2>3 DEF PaymentStep, PaymentWorker, CallGetTransaction, StorePayment,
         CallPayPayment, AnnouncePayment, LosePaymentJob, platformVars,
         transactionVars, TransactionsKeep, SameOrder
    <3> QED
      BY <1>2, <2>3, <3>1, <3>2, PaymentStepEvents, CartEventsKept
  <2>4. CASE UNCHANGED vars
    <3>1. TransactionsKeep /\ PaymentsKeep
      BY <2>4 DEF vars, transactionVars, paymentVars, TransactionsKeep, SameOrder,
         PaymentsKeep
    <3> QED
      BY <1>2, <2>4, <3>1, CartEventsKept, PaymentEventsKept
         DEF vars, transactionVars, paymentVars, platformVars
  <2> QED
    BY <1>2, <2>1, <2>2, <2>3, <2>4 DEF Next
<1> QED
  BY <1>1, <1>2, TypeCorrect, OrderChainCorrect, BackedEvents, PTL DEF Spec
=============================================================================
