------------------------- MODULE OrderPromiseProofs -------------------------
(***************************************************************************)
(* What is promised of an order.  First how a transaction becomes paid,    *)
(* and that it stays so: only four statements write the status, the        *)
(* INSERT, the UPDATE of a cancellation, the UPDATE of the consumer of     *)
(* "payment.paid", and MarkAsPaid.  Then that OrderSaga implements         *)
(* OrderPromise: every step of the services is a step of the promise, or   *)
(* changes nothing in it.  What a step does to the orders, the money and   *)
(* the cancellations is shown table by table.  Last what the two events    *)
(* bring about: a "payment.paid" settles its transaction and a "cart.paid" *)
(* closes its cart, no other; and where no fault loses messages, neither   *)
(* is forgotten.                                                           *)
(***************************************************************************)
EXTENDS OrderChainProofs

-----------------------------------------------------------------------------
(* The status of a transaction. *)

\* Every step leaves the transactions that exist as they are, or is one of the
\* three UPDATEs.
LEMMA StepUpdates ==
    ASSUME TypeOK, Next
    PROVE  \/ \A t \in DOMAIN transactions :
                 t \in DOMAIN transactions' /\ transactions'[t] = transactions[t]
           \/ \E w \in TWorkers : CancelUpdate(w)
           \/ PaymentPaidHandler
           \/ CallMarkAsPaid
<1> DEFINE Same == \A t \in DOMAIN transactions :
                       t \in DOMAIN transactions' /\ transactions'[t] = transactions[t]
<1>1. UNCHANGED transactions => Same
  OBVIOUS
<1>2. CASE CartStep \/ PaymentStep
  BY <1>1, <1>2 DEF CartStep, PaymentStep, transactionVars
<1>3. ASSUME NEW w \in TWorkers, TransactionWorker(w)
      PROVE  Same \/ CancelUpdate(w)
  <2>1. CASE StoreTransaction(w)
    <3> PICK row : transactions' = Append(transactions, row)
      BY <2>1 DEF StoreTransaction, InsertTransaction
    <3> QED
      BY AppendRow DEF TypeOK, TransactionTypeOK
  <2>2. CASE FinishCancel(w)
    BY <2>2 DEF FinishCancel
  <2>3. CASE CallGetCart(w) \/ CallGetProduct(w) \/ AnnounceTransaction(w)
             \/ StartCancel(w) \/ LoseTransactionJob(w)
    BY <1>1, <2>3 DEF CallGetCart, CreateTransaction, CallGetProduct, GetProduct,
       AnnounceTransaction, PublishCartCheckedOut, ResendCartCheckedOut,
       StartCancel, CancelTransaction, LoseTransactionJob, DropTransactionJob
  <2> QED
    BY <1>3, <2>1, <2>2, <2>3 DEF TransactionWorker
<1>4. CASE TransactionConsumer
  BY <1>1, <1>4 DEF TransactionConsumer, PaymentPaidHandlerFails,
     TransactionServiceCrashes, TransactionServiceSubscribes, transactionVars
<1> QED
  BY <1>2, <1>3, <1>4 DEF Next, TransactionStep

\* What the UPDATE that marks a transaction as paid leaves in each row.
LEMMA SetPaidRows ==
    ASSUME TypeOK, NEW t \in DOMAIN transactions, NEW time, SetPaid(t, time)
    PROVE  /\ transactions'[t].status = "paid"
           /\ \A s \in DOMAIN transactions : s # t => transactions'[s] = transactions[s]
<1> DEFINE row == [transactions[t] EXCEPT !.status = "paid", !.paidAt = time]
<1>1. transactions' = [transactions EXCEPT ![t] = row] /\ row.status = "paid"
  BY DEF SetPaid, TypeOK, TransactionTypeOK, TransactionRowOK
<1> HIDE DEF row
<1> QED
  BY <1>1, UpdateRow DEF TypeOK, TransactionTypeOK

\* What the UPDATE of a cancellation leaves in each row.
LEMMA CancelRows ==
    ASSUME TypeOK, NEW w, CancelUpdate(w)
    PROVE  \A s \in DOMAIN transactions :
              /\ s = tjob[w].tx => transactions'[s].status = "cancelled"
              /\ s # tjob[w].tx => transactions'[s] = transactions[s]
<1> DEFINE row == [transactions[tjob[w].tx] EXCEPT !.status = "cancelled"]
<1>1. transactions' = [transactions EXCEPT ![tjob[w].tx] = row]
  BY DEF CancelUpdate
<1>2. tjob[w].tx \in DOMAIN transactions => row.status = "cancelled"
  BY DEF TypeOK, TransactionTypeOK, TransactionRowOK
<1> HIDE DEF row
<1> QED
  BY <1>1, <1>2 DEF TypeOK, TransactionTypeOK

\* A transaction becomes paid only when a payment of that very transaction has
\* been made, or through MarkAsPaid; whatever happens to requests, events and
\* services.
THEOREM PaidOnlyByPaymentCorrect == Spec => PaidOnlyByPayment
<1>1. ASSUME TypeOK, EventsAreBacked, [Next]_vars
      PROVE  [\A t \in DOMAIN transactions :
                 ~Paid(t) /\ Paid(t)' => PaymentMade(t) \/ MarkAsPaid(t)]_vars
  <2> SUFFICES ASSUME Next, NEW t \in DOMAIN transactions, ~Paid(t), Paid(t)'
               PROVE  PaymentMade(t) \/ MarkAsPaid(t)
    BY <1>1
  <2>1. CASE transactions'[t] = transactions[t]
    BY <2>1 DEF Paid
  <2>2. CASE \E w \in TWorkers : CancelUpdate(w)
    BY <1>1, <2>2, CancelRows DEF Paid
  <2>3. CASE PaymentPaidHandler
    <3> DEFINE event == Head(paymentPaid.queue)
    <3>1. event \in PaymentEvents
      BY <1>1, <2>3, TakeHead DEF PaymentPaidHandler, HasMessage, PaymentEvents,
         TypeOK, PlatformTypeOK, TopicOf
    <3>2. PaymentMade(event.tx)
      BY <1>1, <3>1 DEF EventsAreBacked, PaymentMade
    <3>3. event.tx = t
      <4> SUFFICES ASSUME event.tx # t  PROVE FALSE
        OBVIOUS
      <4>1. transactions'[t] = transactions[t]
        BY <1>1, <2>3, SetPaidRows DEF PaymentPaidHandler
      <4> QED
        BY <4>1 DEF Paid
    <3> QED
      BY <3>2, <3>3
  <2>4. CASE CallMarkAsPaid
    <3> PICK s \in DOMAIN transactions : MarkAsPaid(s)
      BY <2>4 DEF CallMarkAsPaid
    <3>1. s = t
      <4> SUFFICES ASSUME s # t  PROVE FALSE
        OBVIOUS
      <4>1. transactions'[t] = transactions[t]
        BY <1>1, SetPaidRows DEF MarkAsPaid
      <4> QED
        BY <4>1 DEF Paid
    <3> QED
      BY <3>1
  <2> QED
    BY <1>1, <2>1, <2>2, <2>3, <2>4, StepUpdates
<1> QED
  BY <1>1, TypeCorrect, EventsAreBackedCorrect, PTL DEF Spec, PaidOnlyByPayment

\* A paid transaction that no earlier cancellation is about to write stays paid
\* with the paid_at it has, through redelivered events, further payments of it
\* and new cancellations.
THEOREM SettledForeverCorrect == Spec => SettledForever
<1>1. ASSUME TypeOK, [Next]_vars
      PROVE  [\A t \in DOMAIN transactions : Settled(t) =>
                 \/ Settled(t)' /\ transactions[t].paidAt' = transactions[t].paidAt
                 \/ MarkAsPaid(t)]_vars
  <2> SUFFICES ASSUME Next, NEW t \in DOMAIN transactions, Settled(t), ~MarkAsPaid(t)
               PROVE  Settled(t)' /\ transactions[t].paidAt' = transactions[t].paidAt
    BY <1>1
  <2>1. transactions'[t] = transactions[t]
    <3>1. CASE \E w \in TWorkers : CancelUpdate(w)
      BY <1>1, <3>1, CancelRows DEF Settled, Cancelling, CancelUpdate
    <3>2. CASE PaymentPaidHandler
      BY <1>1, <3>2, SetPaidRows DEF PaymentPaidHandler, Settled, Paid
    <3>3. CASE CallMarkAsPaid
      BY <1>1, <3>3, SetPaidRows DEF CallMarkAsPaid, MarkAsPaid
    <3> QED
      BY <1>1, <3>1, <3>2, <3>3, StepUpdates
  <2>2. ~Cancelling(t)'
    <3>1. ASSUME NEW w \in TWorkers, tjob'[w].phase = "cancel", tjob'[w].tx = t,
                 tjob'[w] # tjob[w]
          PROVE  FALSE
      <4>1. PICK v \in TWorkers : TransactionWorker(v) /\ tjob'[w] # tjob[w]
        BY <1>1, <3>1 DEF Next, CartStep, PaymentStep, TransactionStep, transactionVars,
           CallMarkAsPaid, MarkAsPaid, TransactionConsumer, PaymentPaidHandler,
           PaymentPaidHandlerFails, TransactionServiceCrashes,
           TransactionServiceSubscribes, Idle
      <4>2. tjob = [x \in TWorkers |-> tjob[x]] /\ TransactionJobOK(tjob[v])
        BY <1>1 DEF TypeOK, TransactionJobsOK
      <4>3. CASE StartCancel(v)
        BY <3>1, <4>2, <4>3 DEF StartCancel, CancelTransaction, Settled, Paid
      <4>4. CASE CallGetCart(v)
        BY <3>1, <4>2, <4>4 DEF CallGetCart, CreateTransaction
      <4>5. CASE CallGetProduct(v)
        BY <3>1, <4>2, <4>5 DEF CallGetProduct, GetProduct, TransactionJobOK, Idle
      <4>6. CASE StoreTransaction(v) \/ AnnounceTransaction(v) \/ FinishCancel(v)
                 \/ LoseTransactionJob(v)
        BY <3>1, <4>2, <4>6 DEF StoreTransaction, InsertTransaction,
           AnnounceTransaction, PublishCartCheckedOut, ResendCartCheckedOut,
           FinishCancel, CancelUpdate, LoseTransactionJob, DropTransactionJob, Idle
      <4> QED
        BY <4>1, <4>3, <4>4, <4>5, <4>6 DEF TransactionWorker
    <3> QED
      BY <3>1 DEF Settled, Cancelling
  <2> QED
    BY <2>1, <2>2 DEF Settled, Paid
<1> QED
  BY <1>1, TypeCorrect, PTL DEF Spec, SettledForever

-----------------------------------------------------------------------------
(* The cancellations under way. *)

\* A handler whose local variables change, and are not those of a cancellation
\* afterwards, ends its own cancellation at most.
LEMMA JobEndsItsCancellation ==
    ASSUME TypeOK, NEW w \in TWorkers, NEW job, job.phase # "cancel",
           tjob' = [tjob EXCEPT ![w] = job]
    PROVE  /\ BeingCancelled' \subseteq BeingCancelled
           /\ BeingCancelled \ {tjob[w].tx} \subseteq BeingCancelled'
           /\ tjob[w].phase # "cancel" => BeingCancelled' = BeingCancelled
<1>1. \A v \in TWorkers : tjob'[v] = IF v = w THEN job ELSE tjob[v]
  BY DEF TypeOK, TransactionJobsOK
<1> QED
  BY <1>1 DEF BeingCancelled

\* A handler without a request that begins a cancellation.
LEMMA JobStartsCancellation ==
    ASSUME TypeOK, NEW w \in TWorkers, NEW t, TIdle(w),
           tjob' = [tjob EXCEPT ![w] = [phase |-> "cancel", tx |-> t]]
    PROVE  BeingCancelled' = BeingCancelled \cup {t}
<1>1. \A v \in TWorkers : tjob'[v] = IF v = w THEN [phase |-> "cancel", tx |-> t] ELSE tjob[v]
  BY DEF TypeOK, TransactionJobsOK
<1> QED
  BY <1>1 DEF BeingCancelled, TIdle

-----------------------------------------------------------------------------
(* The orders. *)

\* An UPDATE of the status of one transaction, as the promise sees it.
LEMMA StatusOfOrder ==
    ASSUME TypeOK, NEW t \in DOMAIN transactions, NEW status,
           DOMAIN transactions' = DOMAIN transactions, TransactionsKeep,
           transactions'[t].status = status,
           \A s \in DOMAIN transactions : s # t => transactions'[s] = transactions[s]
    PROVE  Orders' = Promise!WithStatus(t, status)
<1>1. Order(t)' = [Order(t) EXCEPT !.status = status]
  BY DEF Order, TransactionsKeep, SameOrder
<1>2. \A s \in DOMAIN transactions : s # t => Order(s)' = Order(s)
  BY DEF Order
<1>3. Promise!WithStatus(t, status) = [Orders EXCEPT ![t].status = status]
  BY DEF Promise!WithStatus
<1>4. Orders[t] = Order(t)
  BY DEF Orders
<1> QED
  BY <1>1, <1>2, <1>3, <1>4 DEF Orders

\* The INSERT of a transaction is an order that is placed.
LEMMA InsertPlaces ==
    ASSUME TypeOK, NEW row, row.status = "pending",
           transactions' = Append(transactions, row),
           UNCHANGED <<Receipts, BeingCancelled>>
    PROVE  Promise!Place
<1> DEFINE n == Len(transactions) + 1
<1>1. /\ n \in DOMAIN transactions' /\ n \notin DOMAIN transactions
      /\ DOMAIN transactions' = DOMAIN transactions \cup {n}
      /\ transactions'[n] = row
      /\ \A t \in DOMAIN transactions : transactions'[t] = transactions[t]
  BY AppendRow DEF TypeOK, TransactionTypeOK
<1> HIDE DEF n
<1>2. /\ DOMAIN Orders = DOMAIN transactions /\ DOMAIN Orders' = DOMAIN transactions'
      /\ \A t \in DOMAIN transactions : Orders'[t] = Orders[t]
      /\ Orders'[n].status = "pending"
  BY <1>1 DEF Orders, Order
<1>3. Orders' = [t \in DOMAIN Orders \cup {n} |-> IF t = n THEN Orders'[n] ELSE Orders[t]]
  BY <1>1, <1>2 DEF Orders
<1> QED
  BY <1>1, <1>2, <1>3 DEF Promise!Place

-----------------------------------------------------------------------------
(* The money. *)

\* An INSERT of a pending payment is no money.
LEMMA InsertedPaymentIsNoMoney ==
    ASSUME TypeOK, NEW row, row.status = "pending", payments' = Append(payments, row)
    PROVE  Receipts' = Receipts
<1> DEFINE n == Len(payments) + 1
<1>1. /\ DOMAIN payments' = DOMAIN payments \cup {n}
      /\ payments'[n] = row
      /\ \A p \in DOMAIN payments : payments'[p] = payments[p]
  BY AppendRow DEF TypeOK, PaymentTypeOK
<1> HIDE DEF n
<1> QED
  BY <1>1 DEF Receipts, Receipt

\* The UPDATE of PayPayment is money for the transaction of the payment: the
\* user and the amount are those of that transaction.
LEMMA PayPaymentReceives ==
    ASSUME TypeOK, OrderChain, NEW w, NEW p \in DOMAIN payments, NEW u,
           PayPayment(w, p, u)
    PROVE  /\ payments[p].tx \in DOMAIN Orders
           /\ Receipts' = Receipts \cup {Promise!Payable(payments[p].tx)}
<1> DEFINE row == [payments[p] EXCEPT !.status = "paid", !.paidAt = NOW]
<1>1. payments' = [payments EXCEPT ![p] = row]
  BY DEF PayPayment
<1>2. /\ row.tx = payments[p].tx /\ row.user = payments[p].user
      /\ row.amount = payments[p].amount /\ row.status = "paid"
  BY DEF TypeOK, PaymentTypeOK, PaymentRowOK
<1> HIDE DEF row
<1>3. /\ DOMAIN payments' = DOMAIN payments /\ payments'[p] = row
      /\ \A q \in DOMAIN payments : q # p => payments'[q] = payments[q]
  BY <1>1, UpdateRow DEF TypeOK, PaymentTypeOK
<1>4. /\ Receipt(p)' = Receipt(p)
      /\ \A q \in DOMAIN payments : q # p => Receipt(q)' = Receipt(q)
  BY <1>2, <1>3 DEF Receipt
<1>5. Receipts' = Receipts \cup {Receipt(p)}
  BY <1>2, <1>3, <1>4 DEF Receipts
<1>6. /\ payments[p].tx \in DOMAIN Orders
      /\ Receipt(p) = Promise!Payable(payments[p].tx)
  BY DEF OrderChain, RowsAgree, TransactionOf, Receipt, Orders, Order, Promise!Payable
<1> QED
  BY <1>5, <1>6

-----------------------------------------------------------------------------
(* The steps.  Each is a step of the promise, or none. *)

PromiseStep == Promise!Next \/ UNCHANGED <<Orders, Receipts, BeingCancelled>>

\* The cart service changes nothing that the promise speaks of.
LEMMA CartStepPromise == CartStep => PromiseStep
BY DEF CartStep, transactionVars, paymentVars, PromiseStep, Orders, Order, Receipts,
   Receipt, BeingCancelled

\* Of the payment service it is PayPayment alone that receives money.
LEMMA PaymentStepPromise ==
    ASSUME TypeOK, OrderChain, PaymentStep
    PROVE  PromiseStep
<1>1. UNCHANGED <<Orders, BeingCancelled>>
  BY DEF PaymentStep, transactionVars, Orders, Order, BeingCancelled
<1>2. ASSUME NEW w \in PWorkers, StorePayment(w)
      PROVE  Receipts' = Receipts
  BY <1>2, InsertedPaymentIsNoMoney DEF StorePayment, InsertPayment
<1>3. ASSUME NEW w \in PWorkers, CallPayPayment(w)
      PROVE  \E t \in DOMAIN Orders : Promise!Receive(t)
  <2> PICK u \in Users, p \in DOMAIN payments : PayPayment(w, p, u)
    BY <1>3 DEF CallPayPayment
  <2> QED
    BY <1>1, PayPaymentReceives DEF Promise!Receive
<1>4. UNCHANGED payments => Receipts' = Receipts
  BY DEF Receipts, Receipt
<1>5. ASSUME NEW w \in PWorkers,
             CallGetTransaction(w) \/ AnnouncePayment(w) \/ LosePaymentJob(w)
      PROVE  UNCHANGED payments
  BY <1>5 DEF CallGetTransaction, CreatePayment, AnnouncePayment, PublishPaymentPaid,
     ResendPaymentPaid, LosePaymentJob, DropPaymentJob
<1>6. PaymentServiceCrashes => UNCHANGED payments
  BY DEF PaymentServiceCrashes
<1> QED
  BY <1>1, <1>2, <1>3, <1>4, <1>5, <1>6
     DEF PaymentStep, PaymentWorker, PromiseStep, Promise!Next

\* The requests of the transaction service.
LEMMA TransactionWorkerPromise ==
    ASSUME TypeOK, OrderChain, UNCHANGED paymentVars, NEW w \in TWorkers, TransactionWorker(w)
    PROVE  PromiseStep
<1>0. Receipts' = Receipts /\ Idle.phase # "cancel"
  BY DEF paymentVars, Receipts, Receipt, Idle
<1>a. UNCHANGED transactions => UNCHANGED Orders
  BY DEF Orders, Order
<1>1. CASE CallGetCart(w)
  <2>1. PICK job : job.phase # "cancel" /\ tjob' = [tjob EXCEPT ![w] = job]
    BY <1>1 DEF CallGetCart, CreateTransaction
  <2>2. tjob[w].phase # "cancel" /\ UNCHANGED transactions
    BY <1>1 DEF CallGetCart, CreateTransaction, TIdle
  <2> QED
    BY <1>0, <1>a, <2>1, <2>2, JobEndsItsCancellation DEF PromiseStep
<1>2. CASE CallGetProduct(w)
  <2>1. tjob[w].phase = "pricing" /\ UNCHANGED transactions
    BY <1>2 DEF CallGetProduct, GetProduct
  <2>2. PICK todo, total :
            tjob' = [tjob EXCEPT ![w] = [tjob[w] EXCEPT !.todo = todo, !.total = total]]
    BY <1>2 DEF CallGetProduct, GetProduct
  <2>3. [tjob[w] EXCEPT !.todo = todo, !.total = total].phase # "cancel"
    BY <2>1 DEF TypeOK, TransactionJobsOK, TransactionJobOK, Idle
  <2> QED
    BY <1>0, <1>a, <2>1, <2>2, <2>3, JobEndsItsCancellation DEF PromiseStep
<1>3. CASE StoreTransaction(w)
  <2>1. tjob[w].phase = "pricing"
    BY <1>3 DEF StoreTransaction, InsertTransaction
  <2>2. PICK row, job : /\ row.status = "pending" /\ transactions' = Append(transactions, row)
                        /\ job.phase # "cancel" /\ tjob' = [tjob EXCEPT ![w] = job]
    BY <1>3 DEF StoreTransaction, InsertTransaction
  <2>3. BeingCancelled' = BeingCancelled
    BY <2>1, <2>2, JobEndsItsCancellation
  <2> QED
    BY <1>0, <2>2, <2>3, InsertPlaces DEF PromiseStep, Promise!Next
<1>4. CASE AnnounceTransaction(w)
  <2>1. tjob[w].phase = "publish" /\ UNCHANGED transactions
    BY <1>4 DEF AnnounceTransaction, PublishCartCheckedOut, ResendCartCheckedOut
  <2>2. PICK job : job.phase # "cancel" /\ tjob' = [tjob EXCEPT ![w] = job]
    BY <1>0, <1>4 DEF AnnounceTransaction, PublishCartCheckedOut, ResendCartCheckedOut
  <2> QED
    BY <1>0, <1>a, <2>1, <2>2, JobEndsItsCancellation DEF PromiseStep
<1>5. CASE StartCancel(w)
  <2>1. PICK t \in DOMAIN transactions : \E u \in Users : CancelTransaction(w, t, u)
    BY <1>5 DEF StartCancel
  <2>2. /\ Orders[t].status # "paid" /\ t \in DOMAIN Orders
        /\ BeingCancelled' = BeingCancelled \cup {t} /\ UNCHANGED transactions
    BY <2>1, JobStartsCancellation DEF CancelTransaction, Orders, Order
  <2> QED
    BY <1>0, <1>a, <2>2 DEF PromiseStep, Promise!Next, Promise!AskToCancel
<1>6. CASE FinishCancel(w)
  <2> DEFINE t == tjob[w].tx
  <2>1. CancelUpdate(w) /\ tjob[w].phase = "cancel" /\ tjob' = [tjob EXCEPT ![w] = Idle]
    BY <1>6 DEF FinishCancel, CancelUpdate
  <2>2. t \in DOMAIN transactions /\ t \in BeingCancelled
    BY <2>1 DEF OrderChain, HandlersAgree, BeingCancelled
  <2>3. BeingCancelled' \in {BeingCancelled, BeingCancelled \ {t}}
    BY <1>0, <2>1, JobEndsItsCancellation
  <2>4. Orders' = Promise!WithStatus(t, "cancelled")
    BY <2>1, <2>2, CancelRows, CancelKeepsOrders, StatusOfOrder
  <2>5. t \in DOMAIN Orders
    BY <2>2 DEF Orders
  <2> QED
    BY <1>0, <2>2, <2>3, <2>4, <2>5 DEF PromiseStep, Promise!Next, Promise!Cancel
<1>7. CASE LoseTransactionJob(w)
  <2>1. tjob' = [tjob EXCEPT ![w] = Idle] /\ UNCHANGED transactions
    BY <1>7 DEF LoseTransactionJob, DropTransactionJob
  <2> QED
    BY <1>0, <1>a, <2>1, JobEndsItsCancellation DEF PromiseStep, Promise!Next, Promise!GiveUp
<1> QED
  BY <1>1, <1>2, <1>3, <1>4, <1>5, <1>6, <1>7 DEF TransactionWorker

\* An UPDATE that marks a transaction as paid settles the order, if the promise
\* allows that.
LEMMA SetPaidSettles ==
    ASSUME TypeOK, NEW t \in DOMAIN transactions, NEW time, SetPaid(t, time),
           Promise!Payable(t) \in Receipts \/ MarkAsPaidCalled,
           UNCHANGED <<Receipts, BeingCancelled>>
    PROVE  PromiseStep
<1>1. Orders' = Promise!WithStatus(t, "paid")
  BY SetPaidRows, SetPaidKeepsOrders, StatusOfOrder
<1>2. t \in DOMAIN Orders
  BY DEF Orders
<1> QED
  BY <1>1, <1>2 DEF PromiseStep, Promise!Next, Promise!Settle

\* A "payment.paid" that is handled stands for money received for its order.
LEMMA EventIsMoney ==
    ASSUME OrderChain, EventsAreBacked, NEW event \in PaymentEvents
    PROVE  Promise!Payable(event.tx) \in Receipts
<1>1. /\ event.payment \in DOMAIN payments /\ payments[event.payment].tx = event.tx
      /\ payments[event.payment].status = "paid"
  BY DEF EventsAreBacked
<1>2. Receipt(event.payment) = Promise!Payable(event.tx)
  BY <1>1 DEF OrderChain, RowsAgree, TransactionOf, Receipt, Orders, Order, Promise!Payable
<1> QED
  BY <1>1, <1>2 DEF Receipts

\* The consumer of "payment.paid", MarkAsPaid and the requests.
LEMMA TransactionStepPromise ==
    ASSUME TypeOK, OrderChain, EventsAreBacked, TransactionStep
    PROVE  PromiseStep
<1>0. Receipts' = Receipts
  BY DEF TransactionStep, paymentVars, Receipts, Receipt
<1>a. UNCHANGED transactions => UNCHANGED Orders
  BY DEF Orders, Order
<1>b. UNCHANGED tjob => UNCHANGED BeingCancelled
  BY DEF BeingCancelled
<1>1. ASSUME NEW w \in TWorkers, TransactionWorker(w)
      PROVE  PromiseStep
  BY <1>1, TransactionWorkerPromise DEF TransactionStep
<1>2. CASE CallMarkAsPaid
  BY <1>0, <1>b, <1>2, SetPaidSettles DEF CallMarkAsPaid, MarkAsPaid
<1>3. CASE PaymentPaidHandler
  <2> DEFINE event == Head(paymentPaid.queue)
  <2>1. event \in PaymentEvents
    BY <1>3, TakeHead DEF PaymentPaidHandler, HasMessage, PaymentEvents, TypeOK,
       PlatformTypeOK, TopicOf
  <2>2. Promise!Payable(event.tx) \in Receipts
    BY <2>1, EventIsMoney
  <2>3. CASE UNCHANGED transactions
    BY <1>0, <1>a, <1>b, <1>3, <2>3 DEF PaymentPaidHandler, PromiseStep
  <2>4. CASE event.tx \in DOMAIN transactions /\ SetPaid(event.tx, event.paidAt)
    BY <1>0, <1>b, <1>3, <2>2, <2>4, SetPaidSettles DEF PaymentPaidHandler
  <2> QED
    BY <1>3, <2>3, <2>4 DEF PaymentPaidHandler
<1>4. CASE PaymentPaidHandlerFails \/ TransactionServiceSubscribes
  BY <1>0, <1>a, <1>b, <1>4
     DEF PaymentPaidHandlerFails, TransactionServiceSubscribes, transactionVars, PromiseStep
<1>5. CASE TransactionServiceCrashes
  <2>1. BeingCancelled' \subseteq BeingCancelled
    BY <1>5 DEF TransactionServiceCrashes, BeingCancelled, Idle
  <2> QED
    BY <1>0, <1>a, <1>5, <2>1
       DEF TransactionServiceCrashes, PromiseStep, Promise!Next, Promise!GiveUp
<1> QED
  BY <1>1, <1>2, <1>3, <1>4, <1>5 DEF TransactionStep, TransactionConsumer

\* The services implement the promise, for any number of users, handlers and
\* orders, whatever is lost, repeated or left behind by a crash: an order keeps
\* its user and amount, is paid only with money of that user and amount, and is
\* cancelled only by who asked before it was paid.
THEOREM OrderPromiseKept == Spec => KeepsOrderPromise
<1>1. Init => Promise!Init
  <2> SUFFICES ASSUME Init PROVE Promise!Init
    OBVIOUS
  <2>1. Orders = <<>>
    BY DEF Init, TransactionInit, Orders
  <2> QED
    BY <2>1 DEF Init, TransactionInit, PaymentInit, Receipts, BeingCancelled, Idle,
       Promise!Init
<1>2. ASSUME TypeOK, OrderChain, EventsAreBacked, [Next]_vars
      PROVE  [Promise!Next]_(Promise!promiseVars)
  <2>1. UNCHANGED vars => UNCHANGED <<Orders, Receipts, BeingCancelled>>
    BY DEF vars, transactionVars, paymentVars, Orders, Order, Receipts, Receipt,
       BeingCancelled
  <2>2. PromiseStep \/ UNCHANGED vars
    BY <1>2, CartStepPromise, PaymentStepPromise, TransactionStepPromise DEF Next
  <2> QED
    BY <2>1, <2>2 DEF PromiseStep, Promise!promiseVars
<1> QED
  BY <1>1, <1>2, TypeCorrect, OrderChainCorrect, EventsAreBackedCorrect, PTL
     DEF Spec, KeepsOrderPromise, Promise!Spec
-----------------------------------------------------------------------------
(* Nothing is forgotten.  Where no fault loses messages both consumers stay *)
(* subscribed, and an event leaves a handler only for its topic and the     *)
(* topic only for its consumer.                                             *)

Messages(topic) == {topic.queue[i] : i \in DOMAIN topic.queue}

NothingLost == Faults \subseteq {"resend"}

ConsumersUp == NothingLost => cartPaid.up /\ paymentPaid.up

\* A subscribed topic takes every message, and gives up the oldest alone.
LEMMA TopicKeeps ==
    ASSUME NEW Event, NEW topic \in TopicOf(Event)
    PROVE  /\ \A m \in Event : topic.up =>
                 Messages(Appended(topic, m)) = Messages(topic) \cup {m}
           /\ HasMessage(topic) =>
                 Messages(topic) \subseteq Messages(Consumed(topic)) \cup {Head(topic.queue)}
<1> DEFINE q == topic.queue
<1>0. q \in Seq(Event) /\ DOMAIN q = 1..Len(q) /\ Len(q) \in Nat
  BY DEF TopicOf
<1>1. ASSUME NEW m \in Event, topic.up
      PROVE  Messages(Appended(topic, m)) = Messages(topic) \cup {m}
  <2>1. /\ DOMAIN Append(q, m) = DOMAIN q \cup {Len(q) + 1}
        /\ \A i \in DOMAIN q : Append(q, m)[i] = q[i]
        /\ Append(q, m)[Len(q) + 1] = m
    BY <1>0, AppendProperties
  <2> QED
    BY <1>1, <2>1 DEF Messages, Appended
<1>2. ASSUME HasMessage(topic), NEW i \in DOMAIN q, q[i] # Head(q)
      PROVE  q[i] \in Messages(Consumed(topic))
  <2>1. i # 1 /\ i - 1 \in DOMAIN Tail(q) /\ Tail(q)[i - 1] = q[i]
    BY <1>0, <1>2, HeadTailProperties DEF HasMessage
  <2> QED
    BY <2>1 DEF Messages, Consumed
<1> QED
  BY <1>1, <1>2 DEF Messages

\* The consumers stay subscribed if no service crashes.
LEMMA ConsumersStayUp ==
    ASSUME TypeOK, ConsumersUp, [Next]_vars
    PROVE  ConsumersUp'
<1> SUFFICES ASSUME NothingLost, "crash" \notin Faults
             PROVE  cartPaid'.up /\ paymentPaid'.up
  BY DEF ConsumersUp, NothingLost
<1>0. cartPaid.up /\ paymentPaid.up
  BY DEF ConsumersUp
<1>1. \A m : Appended(cartPaid, m).up /\ Appended(paymentPaid, m).up
  BY <1>0 DEF Appended
<1>2. Consumed(cartPaid).up /\ Consumed(paymentPaid).up /\ Subscribed.up
  BY <1>0 DEF Consumed, Subscribed
<1>3. CASE CartStep
  BY <1>0, <1>2, <1>3 DEF CartStep, CartNext, CartConsumer, HandleCartCheckedOut,
     HandleCartCheckedOutFails, CartServiceCrashes, CartServiceSubscribes
<1>4. CASE TransactionStep
  BY <1>0, <1>1, <1>2, <1>4 DEF TransactionStep, TransactionWorker, CallMarkAsPaid,
     CallGetCart, CallGetProduct, StoreTransaction, AnnounceTransaction,
     PublishCartCheckedOut, ResendCartCheckedOut, StartCancel, FinishCancel,
     LoseTransactionJob, platformVars, TransactionConsumer, PaymentPaidHandler,
     PaymentPaidHandlerFails, TransactionServiceCrashes, TransactionServiceSubscribes
<1>5. CASE PaymentStep
  BY <1>0, <1>1, <1>5 DEF PaymentStep, PaymentWorker, CallGetTransaction, StorePayment,
     CallPayPayment, AnnouncePayment, PublishPaymentPaid, ResendPaymentPaid,
     LosePaymentJob, platformVars
<1> QED
  BY <1>0, <1>3, <1>4, <1>5 DEF Next, vars, platformVars

\* A handler of the payment service that changes its local variables loses no
\* event: it held none, holds it still, or has put it into the topic.
LEMMA PaymentWorkerLosesNone ==
    ASSUME TypeOK, ConsumersUp, NothingLost, NEW w \in PWorkers, PaymentWorker(w)
    PROVE  PaymentEvents \subseteq PaymentEvents'
<1>0. /\ pjob = [v \in PWorkers |-> pjob[v]] /\ PaymentJobOK(pjob[w])
      /\ paymentPaid \in TopicOf(PaymentEvent) /\ paymentPaid.up
  BY DEF TypeOK, PaymentJobsOK, PlatformTypeOK, ConsumersUp
<1>1. ASSUME NEW job, pjob' = [pjob EXCEPT ![w] = job],
             Messages(paymentPaid) \subseteq Messages(paymentPaid'),
             pjob[w].phase = "publish" =>
                 \/ job.phase = "publish" /\ job.event = pjob[w].event
                 \/ pjob[w].event \in Messages(paymentPaid')
      PROVE  PaymentEvents \subseteq PaymentEvents'
  <2>1. ASSUME NEW v \in PWorkers, pjob[v].phase = "publish"
        PROVE  pjob[v].event \in PaymentEvents'
    BY <1>0, <1>1, <2>1 DEF PaymentEvents, Messages
  <2> QED
    BY <1>1, <2>1 DEF PaymentEvents, Messages
<1>2. CASE AnnouncePayment(w)
  <2>1. /\ pjob[w].phase = "publish" /\ paymentPaid' = Appended(paymentPaid, pjob[w].event)
        /\ \E job : pjob' = [pjob EXCEPT ![w] = job]
    BY <1>2 DEF AnnouncePayment, PublishPaymentPaid, ResendPaymentPaid
  <2>2. Messages(paymentPaid') = Messages(paymentPaid) \cup {pjob[w].event}
    BY <1>0, <2>1, TopicKeeps DEF PaymentJobOK, Idle
  <2> QED
    BY <1>1, <2>1, <2>2
<1>3. CASE CallGetTransaction(w) \/ StorePayment(w) \/ CallPayPayment(w)
  <2>1. pjob[w].phase # "publish" /\ paymentPaid' = paymentPaid
    BY <1>3 DEF CallGetTransaction, CreatePayment, StorePayment, InsertPayment,
       CallPayPayment, PayPayment, PIdle, platformVars
  <2>2. \E job : pjob' = [pjob EXCEPT ![w] = job]
    BY <1>3 DEF CallGetTransaction, CreatePayment, StorePayment, InsertPayment,
       CallPayPayment, PayPayment
  <2> QED
    BY <1>1, <2>1, <2>2
<1>4. ~LosePaymentJob(w)
  BY DEF LosePaymentJob, DropPaymentJob, NothingLost
<1> QED
  BY <1>2, <1>3, <1>4 DEF PaymentWorker

\* A payment that becomes paid leaves its event with the handler that paid it.
LEMMA PaidLeavesEvent ==
    ASSUME TypeOK, NEW w \in PWorkers, PaymentWorker(w),
           NEW t, PaymentMade(t)', ~PaymentMade(t)
    PROVE  \E e \in PaymentEvents' : e.tx = t
<1> PICK p \in DOMAIN payments' : payments'[p].tx = t /\ payments'[p].status = "paid"
  BY DEF PaymentMade
<1>1. CASE StorePayment(w)
  <2> PICK row : row.status = "pending" /\ payments' = Append(payments, row)
    BY <1>1 DEF StorePayment, InsertPayment
  <2>1. p \in DOMAIN payments /\ payments'[p] = payments[p]
    BY AppendRow DEF TypeOK, PaymentTypeOK
  <2> QED
    BY <2>1 DEF PaymentMade
<1>2. CASE CallPayPayment(w)
  <2> PICK u \in Users, r \in DOMAIN payments : PayPayment(w, r, u)
    BY <1>2 DEF CallPayPayment
  <2> DEFINE event == [payment |-> r, tx |-> payments[r].tx, paidAt |-> RFC3339(NOW)]
             row == [payments[r] EXCEPT !.status = "paid", !.paidAt = NOW]
  <2>1. payments' = [payments EXCEPT ![r] = row] /\ row.tx = payments[r].tx
    BY DEF PayPayment, TypeOK, PaymentTypeOK, PaymentRowOK
  <2> HIDE DEF row
  <2>2. p = r
    BY <2>1, UpdateRow DEF TypeOK, PaymentTypeOK, PaymentMade
  <2>3. event.tx = t
    BY <2>1, <2>2, UpdateRow DEF TypeOK, PaymentTypeOK
  <2>4. pjob'[w].phase = "publish" /\ pjob'[w].event = event
    BY DEF PayPayment, TypeOK, PaymentJobsOK
  <2> QED
    BY <2>3, <2>4 DEF PaymentEvents
<1>3. UNCHANGED payments => FALSE
  BY DEF PaymentMade
<1> QED
  BY <1>1, <1>2, <1>3 DEF PaymentWorker, CallGetTransaction, CreatePayment,
     AnnouncePayment, PublishPaymentPaid, ResendPaymentPaid, LosePaymentJob, DropPaymentJob

\* The consumer of "payment.paid" takes an event away only to mark its transaction
\* as paid, or because it is no longer pending.
LEMMA HandledPaymentIsSettled ==
    ASSUME TypeOK, NoPaymentForgotten, NothingLost, ConsumersUp, OrderChain, TransactionStep
    PROVE  NoPaymentForgotten'
<1> SUFFICES ASSUME NEW t \in DOMAIN transactions', PaymentMade(t)',
                    transactions'[t].status = "pending"
             PROVE  \E e \in PaymentEvents' : e.tx = t
  BY DEF NoPaymentForgotten
<1>0. pjob' = pjob /\ payments' = payments /\ PaymentMade(t)
  BY DEF TransactionStep, paymentVars, PaymentMade
<1>1. t \in DOMAIN transactions
  BY <1>0 DEF PaymentMade, OrderChain, RowsAgree, TransactionOf
<1>2. transactions'[t] = transactions[t]
  <2>1. CASE \E w \in TWorkers : CancelUpdate(w)
    BY <1>1, <2>1, CancelRows
  <2>2. CASE PaymentPaidHandler
    BY <1>1, <2>2, SetPaidRows DEF PaymentPaidHandler
  <2>3. CASE CallMarkAsPaid
    BY <1>1, <2>3, SetPaidRows DEF CallMarkAsPaid, MarkAsPaid
  <2> QED
    BY <1>1, <2>1, <2>2, <2>3, StepUpdates DEF Next
<1>3. PICK e \in PaymentEvents : e.tx = t
  BY <1>0, <1>1, <1>2 DEF NoPaymentForgotten, NothingLost
<1>4. paymentPaid \in TopicOf(PaymentEvent)
  BY DEF TypeOK, PlatformTypeOK
<1>5. CASE PaymentPaidHandler
  <2>1. Head(paymentPaid.queue).tx # t
    BY <1>1, <1>2, <1>5, SetPaidRows DEF PaymentPaidHandler
  <2> QED
    BY <1>0, <1>3, <1>4, <1>5, <2>1, TopicKeeps
       DEF PaymentPaidHandler, PaymentEvents, Messages
<1>6. CASE paymentPaid' = paymentPaid
  BY <1>0, <1>3, <1>6 DEF PaymentEvents
<1> QED
  BY <1>5, <1>6 DEF TransactionStep, TransactionWorker, CallMarkAsPaid, CallGetCart,
     CallGetProduct, StoreTransaction, AnnounceTransaction, StartCancel, FinishCancel,
     LoseTransactionJob, platformVars, TransactionConsumer, PaymentPaidHandlerFails,
     TransactionServiceCrashes, TransactionServiceSubscribes, ConsumersUp, NothingLost

\* When nothing is lost, a transaction that is still pending although a payment of
\* it was made has its "payment.paid" on the way: for any number of payments,
\* handlers and repeated sends, only the turn of the consumer is missing.
THEOREM NoPaymentForgottenCorrect == Spec => []NoPaymentForgotten
<1>1. Init => NoPaymentForgotten /\ ConsumersUp
  BY DEF Init, PlatformInit, TransactionInit, NoPaymentForgotten, ConsumersUp, Subscribed
<1>2. ASSUME TypeOK, OrderChain, NoPaymentForgotten, ConsumersUp, [Next]_vars
      PROVE  NoPaymentForgotten' /\ ConsumersUp'
  <2>0. ConsumersUp'
    BY <1>2, ConsumersStayUp
  <2> SUFFICES ASSUME NothingLost PROVE NoPaymentForgotten'
    BY <2>0 DEF NoPaymentForgotten, NothingLost
  <2>1. CASE TransactionStep
    BY <1>2, <2>1, HandledPaymentIsSettled
  <2>2. CASE PaymentStep
    <3>1. transactions' = transactions /\ ~PaymentServiceCrashes
      BY <2>2 DEF PaymentStep, transactionVars, PaymentServiceCrashes, NothingLost
    <3>2. PICK w \in PWorkers : PaymentWorker(w)
      BY <2>2, <3>1 DEF PaymentStep
    <3>3. PaymentEvents \subseteq PaymentEvents'
      BY <1>2, <3>2, PaymentWorkerLosesNone
    <3>4. ASSUME NEW t \in DOMAIN transactions, PaymentMade(t)',
                 transactions[t].status = "pending"
          PROVE  \E e \in PaymentEvents' : e.tx = t
      <4>1. CASE PaymentMade(t)
        BY <1>2, <3>3, <3>4, <4>1 DEF NoPaymentForgotten, NothingLost
      <4>2. CASE ~PaymentMade(t)
        BY <1>2, <3>2, <3>4, <4>2, PaidLeavesEvent
      <4> QED
        BY <4>1, <4>2
    <3> QED
      BY <3>1, <3>4 DEF NoPaymentForgotten
  <2>3. CASE CartStep \/ UNCHANGED vars
    <3>1. /\ UNCHANGED <<transactions, payments, pjob, paymentPaid>>
      BY <2>3 DEF CartStep, vars, transactionVars, paymentVars, platformVars
    <3> QED
      BY <1>2, <3>1 DEF NoPaymentForgotten, PaymentMade, PaymentEvents
  <2> QED
    BY <1>2, <2>1, <2>2, <2>3 DEF Next
<1> QED
  BY <1>1, <1>2, TypeCorrect, OrderChainCorrect, PTL DEF Spec

-----------------------------------------------------------------------------
(* The cart of an order. *)

\* What a step of the cart service does to the carts there are: one is edited or
\* given a status, or the table only grows or shrinks.
SameCart(c) == c \in DOMAIN carts' /\ carts'[c] = carts[c]

EditedCart(c) ==
    /\ carts[c].status = "active"
    /\ carts'[c].owner = carts[c].owner
    /\ carts'[c].status \in {"active", "paid"}

PutCartStep(c) ==
    \E lines \in CartInputs, st \in PutStatuses : UpdateCart(c, lines, st)

\* An UPDATE of one cart leaves the other carts alone.
LEMMA PutCartRows ==
    ASSUME NEW c \in DOMAIN carts, NEW lines, NEW st, PutCart(c, lines, st)
    PROVE  /\ DOMAIN carts' = DOMAIN carts
           /\ carts'[c] = CartRow(carts[c].owner, lines, st)
           /\ \A d \in DOMAIN carts : d # c => carts'[d] = carts[d]
BY DEF PutCart

\* The requests that look up the active cart write an active cart of their user.
LEMMA ActiveCartRows ==
    ASSUME NEW u, NEW d \in ActiveCarts(u), NEW c \in DOMAIN carts,
           NEW lines, SetLines(d, lines) \/ SetStatus(d, "paid")
    PROVE  SameCart(c) \/ (c = d /\ EditedCart(c))
<1>0. d \in DOMAIN carts /\ carts[d].status = "active"
  BY DEF ActiveCarts
<1>1. PICK new, st : st \in {"active", "paid"} /\ PutCart(d, new, st)
  <2>1. SetLines(d, lines) => PutCart(d, lines, "active")
    BY <1>0 DEF SetLines
  <2>2. SetStatus(d, "paid") => PutCart(d, carts[d].lines, "paid")
    BY DEF SetStatus
  <2> QED
    BY <2>1, <2>2
<1>2. /\ DOMAIN carts' = DOMAIN carts /\ carts'[d] = CartRow(carts[d].owner, new, st)
      /\ c # d => carts'[c] = carts[c]
  BY <1>0, <1>1, PutCartRows
<1>3. carts'[d].owner = carts[d].owner /\ carts'[d].status = st
  BY <1>2 DEF CartRow
<1> QED
  BY <1>0, <1>1, <1>2, <1>3 DEF SameCart, EditedCart

\* What a request does to each cart that it does not delete.
LEMMA CartRequestRows ==
    ASSUME TypeOK, CartRequest, NEW c \in DOMAIN carts, c \in DOMAIN carts'
    PROVE  SameCart(c) \/ EditedCart(c) \/ PutCartStep(c)
<1>1. ASSUME NEW u, NEW lines, InsertCart(u, lines)
      PROVE  SameCart(c)
  BY <1>1 DEF TypeOK, CartTypeOK, InsertCart, SameCart
<1>2. ASSUME NEW u \in Users, NEW lines \in CartInputs, CreateCart(u, lines)
      PROVE  SameCart(c) \/ EditedCart(c)
  BY <1>1, <1>2, ActiveCartRows DEF CreateCart
<1>3. ASSUME NEW u \in Users, NEW p, NEW q, AddToCart(u, p, q)
      PROVE  SameCart(c) \/ EditedCart(c)
  BY <1>1, <1>3, ActiveCartRows DEF AddToCart
<1>4. ASSUME NEW u \in Users, NEW p, NEW q,
             UpdateProductQty(u, p, q) \/ RemoveProductFromCart(u, p) \/ CheckoutCart(u)
      PROVE  SameCart(c) \/ EditedCart(c)
  BY <1>4, ActiveCartRows DEF UpdateProductQty, RemoveProductFromCart, CheckoutCart
<1>5. ASSUME NEW u \in Users, NEW d \in DOMAIN carts, DeleteCart(d, u)
      PROVE  SameCart(c)
  BY <1>5 DEF DeleteCart, SameCart
<1>6. ASSUME NEW d \in DOMAIN carts, NEW lines \in CartInputs, NEW st \in PutStatuses,
             UpdateCart(d, lines, st)
      PROVE  SameCart(c) \/ PutCartStep(c)
  BY <1>6, PutCartRows DEF UpdateCart, SameCart, PutCartStep
<1> QED
  BY <1>2, <1>3, <1>4, <1>5, <1>6 DEF CartRequest

\* What the consumer of "cart.paid" does to each cart: it closes the one that its
\* event names, if that is active.
LEMMA CartConsumerRows ==
    ASSUME CartConsumer, NEW c \in DOMAIN carts
    PROVE  \/ SameCart(c)
           \/ /\ HandleCartCheckedOut /\ EditedCart(c) /\ carts'[c].status = "paid"
              /\ Head(cartPaid.queue).cart = c /\ Head(cartPaid.queue).user = carts[c].owner
<1> DEFINE event == Head(cartPaid.queue)
<1>1. CASE HandleCartCheckedOut
  <2>1. CASE event.cart \in ActiveCarts(event.user)
    <3>1. SetStatus(event.cart, "paid")
      BY <1>1, <2>1 DEF HandleCartCheckedOut
    <3>2. c = event.cart => carts'[c].status = "paid" /\ carts[c].owner = event.user
      <4> SUFFICES ASSUME c = event.cart
                   PROVE  carts'[c].status = "paid" /\ carts[c].owner = event.user
        OBVIOUS
      <4>1. PutCart(c, carts[c].lines, "paid") /\ carts[c].owner = event.user
        BY <2>1, <3>1 DEF SetStatus, ActiveCarts
      <4>2. carts'[c] = CartRow(carts[c].owner, carts[c].lines, "paid")
        BY <4>1, PutCartRows
      <4> QED
        BY <4>1, <4>2 DEF CartRow
    <3> QED
      BY <1>1, <2>1, <3>1, <3>2, ActiveCartRows
  <2>2. CASE event.cart \notin ActiveCarts(event.user)
    BY <1>1, <2>2 DEF HandleCartCheckedOut, cartVars, SameCart
  <2> QED
    BY <2>1, <2>2
<1>2. CASE UNCHANGED cartVars
  BY <1>2 DEF cartVars, SameCart
<1> QED
  BY <1>1, <1>2 DEF CartConsumer, HandleCartCheckedOutFails, CartServiceCrashes,
     CartServiceSubscribes

\* A step that is not one of the cart service leaves every cart as it is.
LEMMA OtherStepsSameCart ==
    ASSUME [Next]_vars, ~CartStep, NEW c \in DOMAIN carts
    PROVE  SameCart(c)
BY DEF Next, TransactionStep, PaymentStep, vars, cartVars, SameCart

\* A cart goes from active to paid only for a stored transaction of that cart and
\* its owner, or by a request to the cart service: no event closes another cart,
\* however late or often it comes.
THEOREM CartClosedByCheckoutCorrect == Spec => CartClosedByCheckout
<1>1. ASSUME TypeOK, EventsAreBacked, [Next]_vars
      PROVE  [\A c \in DOMAIN carts \cap (DOMAIN carts)' :
                 carts[c].status = "active" /\ carts[c].status' = "paid" =>
                     \/ \E t \in DOMAIN transactions :
                           /\ transactions[t].cart = c
                           /\ transactions[t].user = carts[c].owner
                     \/ cartPaid' = cartPaid]_vars
  <2> SUFFICES ASSUME Next, NEW c \in DOMAIN carts, c \in DOMAIN carts', ~SameCart(c)
               PROVE  \/ \E t \in DOMAIN transactions :
                            /\ transactions[t].cart = c
                            /\ transactions[t].user = carts[c].owner
                      \/ cartPaid' = cartPaid
    BY <1>1 DEF SameCart
  <2>1. CASE CartRequest /\ UNCHANGED cartPaid
    BY <2>1
  <2>2. CASE CartConsumer
    <3> DEFINE event == Head(cartPaid.queue)
    <3>1. /\ HandleCartCheckedOut
          /\ event.cart = c /\ event.user = carts[c].owner
      BY <2>2, CartConsumerRows
    <3>2. event \in CartEvents
      BY <1>1, <3>1, TakeHead DEF HandleCartCheckedOut, HasMessage, CartEvents,
         TypeOK, PlatformTypeOK, TopicOf
    <3> QED
      BY <1>1, <3>1, <3>2 DEF EventsAreBacked
  <2> QED
    BY <1>1, <2>1, <2>2, OtherStepsSameCart DEF CartStep, CartNext
<1> QED
  BY <1>1, TypeCorrect, EventsAreBackedCorrect, PTL DEF Spec, CartClosedByCheckout

\* A cart that is not active is changed by UpdateCart alone: by no other request,
\* no repeated event and no event of another cart.
THEOREM ClosedCartIsFrozenCorrect == Spec => ClosedCartIsFrozen
<1>1. ASSUME TypeOK, [Next]_vars
      PROVE  [\A c \in DOMAIN carts \cap (DOMAIN carts)' :
                 carts[c].status # "active" =>
                     \/ carts'[c] = carts[c]
                     \/ \E lines \in CartInputs, st \in PutStatuses :
                           UpdateCart(c, lines, st)]_vars
  <2> SUFFICES ASSUME NEW c \in DOMAIN carts, c \in DOMAIN carts',
                      carts[c].status # "active"
               PROVE  SameCart(c) \/ PutCartStep(c)
    BY DEF SameCart, PutCartStep
  <2>1. ~EditedCart(c)
    BY DEF EditedCart
  <2>2. CartRequest => SameCart(c) \/ PutCartStep(c)
    BY <1>1, <2>1, CartRequestRows
  <2>3. CartConsumer => SameCart(c)
    BY <2>1, CartConsumerRows
  <2> QED
    BY <1>1, <2>2, <2>3, OtherStepsSameCart DEF CartStep, CartNext
<1> QED
  BY <1>1, TypeCorrect, PTL DEF Spec, ClosedCartIsFrozen

-----------------------------------------------------------------------------
(* No checkout is forgotten: the same for "cart.paid".  A cart that is open  *)
(* was open before, or has just been inserted, if nobody reopens carts.      *)

OpenCart(t) == transactions[t].cart \in ActiveCarts(transactions[t].user)

Announced(t) ==
    LET c == transactions[t].cart
    IN  \E e \in CartEvents : e.cart = c /\ e.user = carts[c].owner

CheckoutsAnnounced == \A t \in DOMAIN transactions : OpenCart(t) => Announced(t)

NobodyReopens == NothingLost /\ "active" \notin PutStatuses

\* A handler of the transaction service loses no event of "cart.paid".
LEMMA TransactionWorkerLosesNone ==
    ASSUME TypeOK, ConsumersUp, NothingLost, NEW w \in TWorkers, TransactionWorker(w)
    PROVE  CartEvents \subseteq CartEvents'
<1>0. /\ tjob = [v \in TWorkers |-> tjob[v]] /\ TransactionJobOK(tjob[w])
      /\ cartPaid \in TopicOf(CartEvent) /\ cartPaid.up
  BY DEF TypeOK, TransactionJobsOK, PlatformTypeOK, ConsumersUp
<1>1. ASSUME NEW job, tjob' = [tjob EXCEPT ![w] = job],
             Messages(cartPaid) \subseteq Messages(cartPaid'),
             tjob[w].phase = "publish" => tjob[w].event \in Messages(cartPaid')
      PROVE  CartEvents \subseteq CartEvents'
  <2>1. ASSUME NEW v \in TWorkers, tjob[v].phase = "publish"
        PROVE  tjob[v].event \in CartEvents'
    BY <1>0, <1>1, <2>1 DEF CartEvents, Messages
  <2> QED
    BY <1>1, <2>1 DEF CartEvents, Messages
<1>2. CASE AnnounceTransaction(w)
  <2>1. /\ tjob[w].phase = "publish" /\ cartPaid' = Appended(cartPaid, tjob[w].event)
        /\ \E job : tjob' = [tjob EXCEPT ![w] = job]
    BY <1>2 DEF AnnounceTransaction, PublishCartCheckedOut, ResendCartCheckedOut
  <2>2. Messages(cartPaid') = Messages(cartPaid) \cup {tjob[w].event}
    BY <1>0, <2>1, TopicKeeps DEF TransactionJobOK, Idle
  <2> QED
    BY <1>1, <2>1, <2>2
<1>3. CASE CallGetCart(w) \/ CallGetProduct(w) \/ StoreTransaction(w) \/ StartCancel(w)
           \/ FinishCancel(w)
  <2>1. tjob[w].phase # "publish" /\ cartPaid' = cartPaid
    BY <1>3 DEF CallGetCart, CreateTransaction, CallGetProduct, GetProduct,
       StoreTransaction, InsertTransaction, StartCancel, CancelTransaction,
       FinishCancel, CancelUpdate, TIdle, platformVars
  <2>2. \E job : tjob' = [tjob EXCEPT ![w] = job]
    BY <1>3 DEF CallGetCart, CreateTransaction, CallGetProduct, GetProduct,
       StoreTransaction, InsertTransaction, StartCancel, CancelTransaction,
       FinishCancel, CancelUpdate
  <2> QED
    BY <1>1, <2>1, <2>2
<1>4. ~LoseTransactionJob(w)
  BY DEF LoseTransactionJob, DropTransactionJob, NothingLost
<1> QED
  BY <1>2, <1>3, <1>4 DEF TransactionWorker

\* A transaction that is inserted leaves its event with the handler.
LEMMA InsertAnnounces ==
    ASSUME TypeOK, NEW w \in TWorkers, StoreTransaction(w),
           NEW t \in DOMAIN transactions', t \notin DOMAIN transactions, OpenCart(t)',
           UNCHANGED carts
    PROVE  Announced(t)'
<1> DEFINE row == [user |-> tjob[w].user, cart |-> tjob[w].cart, total |-> tjob[w].total,
                   status |-> "pending", paidAt |-> Null]
           event == [cart |-> tjob[w].cart, user |-> tjob[w].user,
                     tx |-> Len(transactions) + 1]
<1>1. transactions' = Append(transactions, row)
  BY DEF StoreTransaction, InsertTransaction
<1>2. row.cart = event.cart /\ row.user = event.user
  OBVIOUS
<1>3. tjob'[w].phase = "publish" /\ tjob'[w].event = event
  BY DEF StoreTransaction, InsertTransaction, TypeOK, TransactionJobsOK
<1> HIDE DEF row, event
<1>4. transactions'[t] = row
  BY <1>1, InsertKeepsOrders
<1>5. event \in CartEvents'
  BY <1>3 DEF CartEvents
<1>6. carts'[event.cart].owner = event.user
  BY <1>2, <1>4 DEF OpenCart, ActiveCarts
<1> QED
  BY <1>2, <1>4, <1>5, <1>6 DEF Announced

\* No step of the transaction service leaves an open cart without its event.
LEMMA TransactionStepAnnounces ==
    ASSUME TypeOK, OrderChain, ConsumersUp, NothingLost, CheckoutsAnnounced, TransactionStep
    PROVE  CheckoutsAnnounced'
<1> SUFFICES ASSUME NEW t \in DOMAIN transactions', OpenCart(t)'
             PROVE  Announced(t)'
  BY DEF CheckoutsAnnounced
<1>0. carts' = carts
  BY DEF TransactionStep, cartVars
<1>1. CASE t \notin DOMAIN transactions
  <2>1. PICK w \in TWorkers : StoreTransaction(w)
    <3>1. DOMAIN transactions' # DOMAIN transactions
      BY <1>1
    <3>2. CASE CallMarkAsPaid
      BY <3>1, <3>2, SetPaidKeepsOrders DEF CallMarkAsPaid, MarkAsPaid
    <3>3. CASE TransactionConsumer
      BY <3>1, <3>3, SetPaidKeepsOrders DEF TransactionConsumer, PaymentPaidHandler,
         PaymentPaidHandlerFails, TransactionServiceCrashes,
         TransactionServiceSubscribes, transactionVars
    <3>4. ASSUME NEW w \in TWorkers, TransactionWorker(w) PROVE StoreTransaction(w)
      BY <3>1, <3>4, CancelKeepsOrders DEF TransactionWorker, CallGetCart,
         CreateTransaction, CallGetProduct, GetProduct, AnnounceTransaction,
         PublishCartCheckedOut, ResendCartCheckedOut, StartCancel, CancelTransaction,
         FinishCancel, LoseTransactionJob, DropTransactionJob
    <3> QED
      BY <3>2, <3>3, <3>4 DEF TransactionStep
  <2> QED
    BY <1>0, <1>1, <2>1, InsertAnnounces
<1>2. CASE t \in DOMAIN transactions
  <2>1. CartEvents \subseteq CartEvents'
    <3>1. ASSUME NEW w \in TWorkers, TransactionWorker(w)
          PROVE  CartEvents \subseteq CartEvents'
      BY <3>1, TransactionWorkerLosesNone
    <3>2. UNCHANGED <<cartPaid, tjob>> => CartEvents' = CartEvents
      BY DEF CartEvents
    <3> QED
      BY <3>1, <3>2 DEF TransactionStep, CallMarkAsPaid, MarkAsPaid, TransactionConsumer,
         PaymentPaidHandler, PaymentPaidHandlerFails, TransactionServiceCrashes,
         TransactionServiceSubscribes, transactionVars, NothingLost
  <2>2. TransactionsKeep
    BY TransactionStepChain, ChainIsParts DEF ChainParts
  <2>3. transactions'[t].cart = transactions[t].cart
        /\ transactions'[t].user = transactions[t].user
    BY <1>2, <2>2 DEF TransactionsKeep, SameOrder
  <2>4. Announced(t)
    BY <1>0, <1>2, <2>3 DEF CheckoutsAnnounced, OpenCart, ActiveCarts
  <2> QED
    BY <1>0, <2>1, <2>3, <2>4 DEF Announced
<1> QED
  BY <1>1, <1>2

\* A step of the cart service opens no cart that a transaction was made from, and
\* takes an event away only with its cart closed.
LEMMA CartStepAnnounces ==
    ASSUME TypeOK, OrderChain, ConsumersUp, NobodyReopens, CheckoutsAnnounced, CartStep
    PROVE  CheckoutsAnnounced'
<1> SUFFICES ASSUME NEW t \in DOMAIN transactions, OpenCart(t)'
             PROVE  Announced(t)'
  BY DEF CheckoutsAnnounced, CartStep, transactionVars
<1> DEFINE c == transactions[t].cart
<1>0. /\ transactions' = transactions /\ tjob' = tjob
      /\ c \in DOMAIN carts' /\ carts'[c].status = "active"
      /\ carts'[c].owner = transactions[t].user
  BY DEF CartStep, transactionVars, OpenCart, ActiveCarts
<1>1. c \in DOMAIN carts
  <2>1. CartsKeep
    BY CartStepKeeps
  <2>2. c < nextCart /\ c \in Nat /\ nextCart \in Nat
    BY DEF OrderChain, RowsAgree, CartOf, TypeOK, TransactionTypeOK, TransactionRowOK,
           CartTypeOK
  <2> QED
    BY <1>0, <2>1, <2>2 DEF CartsKeep
<1>2. SameCart(c) \/ (EditedCart(c) /\ CartRequest)
  <2>1. CASE CartRequest
    <3>1. ~PutCartStep(c)
      <4> SUFFICES ASSUME NEW lines, NEW st \in PutStatuses, PutCart(c, lines, st)
                   PROVE  FALSE
        BY DEF PutCartStep, UpdateCart
      <4>1. carts'[c] = CartRow(carts[c].owner, lines, st)
        BY <1>1, PutCartRows
      <4> QED
        BY <1>0, <4>1 DEF CartRow, NobodyReopens
    <3> QED
      BY <1>0, <1>1, <2>1, <3>1, CartRequestRows
  <2>2. CASE CartConsumer
    BY <1>0, <1>1, <2>2, CartConsumerRows
  <2> QED
    BY <2>1, <2>2 DEF CartStep, CartNext
<1>3. carts[c].status = "active" /\ carts'[c].owner = carts[c].owner
  BY <1>0, <1>2 DEF SameCart, EditedCart
<1>4. PICK e \in CartEvents : e.cart = c /\ e.user = carts[c].owner
  BY <1>0, <1>1, <1>3 DEF CheckoutsAnnounced, OpenCart, ActiveCarts, Announced
<1>5. e \in CartEvents'
  <2>1. CASE cartPaid' = cartPaid
    BY <1>0, <1>4, <2>1 DEF CartEvents
  <2>2. CASE HandleCartCheckedOut
    <3>1. e # Head(cartPaid.queue)
      <4> SUFFICES ASSUME e = Head(cartPaid.queue) PROVE FALSE
        OBVIOUS
      <4>1. c \in ActiveCarts(e.user) /\ e.cart = c
        BY <1>1, <1>3, <1>4 DEF ActiveCarts
      <4>2. SetStatus(c, "paid")
        BY <2>2, <4>1 DEF HandleCartCheckedOut
      <4>3. PutCart(c, carts[c].lines, "paid")
        BY <4>2 DEF SetStatus
      <4>4. carts'[c] = CartRow(carts[c].owner, carts[c].lines, "paid")
        BY <1>1, <4>3, PutCartRows
      <4> QED
        BY <1>0, <4>4 DEF CartRow
    <3>2. cartPaid \in TopicOf(CartEvent)
      BY DEF TypeOK, PlatformTypeOK
    <3> QED
      BY <1>0, <1>4, <2>2, <3>1, <3>2, TopicKeeps
         DEF HandleCartCheckedOut, CartEvents, Messages
  <2> QED
    BY <2>1, <2>2 DEF CartStep, CartNext, CartConsumer, HandleCartCheckedOutFails,
       CartServiceCrashes, CartServiceSubscribes, NobodyReopens, NothingLost, ConsumersUp
<1> QED
  BY <1>0, <1>3, <1>4, <1>5 DEF Announced

\* When nothing is lost and nobody reopens carts, a cart that was turned into a
\* transaction and is still active has its "cart.paid" on the way: for any number
\* of carts, edits, transactions from one cart and repeated sends.
THEOREM NoCheckoutForgottenCorrect == Spec => []NoCheckoutForgotten
<1>0. NoCheckoutForgotten <=> (NobodyReopens => CheckoutsAnnounced)
  BY DEF NoCheckoutForgotten, NobodyReopens, NothingLost, CheckoutsAnnounced, OpenCart,
         Announced
<1> DEFINE Inv == NobodyReopens => CheckoutsAnnounced
<1>1. Init => Inv /\ ConsumersUp
  BY DEF Init, PlatformInit, TransactionInit, CheckoutsAnnounced, ConsumersUp, Subscribed
<1>2. ASSUME TypeOK, OrderChain, Inv, ConsumersUp, [Next]_vars
      PROVE  Inv' /\ ConsumersUp'
  <2>0. ConsumersUp'
    BY <1>2, ConsumersStayUp
  <2> SUFFICES ASSUME NobodyReopens PROVE CheckoutsAnnounced'
    BY <2>0 DEF NobodyReopens, NothingLost
  <2>1. CASE TransactionStep
    BY <1>2, <2>1, TransactionStepAnnounces DEF NobodyReopens
  <2>2. CASE CartStep
    BY <1>2, <2>2, CartStepAnnounces
  <2>3. CASE PaymentStep \/ UNCHANGED vars
    <3>1. UNCHANGED <<carts, transactions, tjob, cartPaid>>
      BY <2>3 DEF PaymentStep, PaymentWorker, CallGetTransaction, StorePayment,
         CallPayPayment, AnnouncePayment, LosePaymentJob, vars, cartVars,
         transactionVars, platformVars
    <3> QED
      BY <1>2, <3>1 DEF CheckoutsAnnounced, OpenCart, ActiveCarts, Announced, CartEvents
  <2> QED
    BY <1>2, <2>1, <2>2, <2>3 DEF Next
<1> QED
  BY <1>0, <1>1, <1>2, TypeCorrect, OrderChainCorrect, PTL DEF Spec
=============================================================================
