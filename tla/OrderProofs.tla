---------------------------- MODULE OrderProofs -----------------------------
EXTENDS OrderProperties, SequenceTheorems, TLAPS

\* Appending a row to a table: the old rows keep their ids, the new one takes
\* the next.
LEMMA AppendRow ==
    ASSUME NEW s, s \in Seq(Range(s)), NEW row
    PROVE  /\ Append(s, row) \in Seq(Range(Append(s, row)))
           /\ DOMAIN s = 1..Len(s)
           /\ Len(s) \in Nat
           /\ DOMAIN Append(s, row) = 1..(Len(s) + 1)
           /\ Len(Append(s, row)) = Len(s) + 1
           /\ \A i \in DOMAIN s : Append(s, row)[i] = s[i]
           /\ Append(s, row)[Len(s) + 1] = row
<1> DEFINE T == Range(s) \cup {row}
           a == Append(s, row)
<1>1. s \in Seq(T)
  OBVIOUS
<1>2. a \in Seq(T) /\ Len(a) = Len(s) + 1 /\ a[Len(s) + 1] = row
      /\ \A i \in 1..Len(s) : a[i] = s[i]
  BY <1>1, AppendProperties
<1>3. Len(s) \in Nat /\ DOMAIN s = 1..Len(s) /\ DOMAIN a = 1..Len(a)
  BY <1>1, <1>2
<1>4. a \in Seq(T) => a \in Seq(Range(a))
  <2> HIDE DEF a
  <2> QED
    BY SeqOfRange
<1> QED
  BY <1>2, <1>3, <1>4

\* Updating a row of a table changes that row alone.
LEMMA UpdateRow ==
    ASSUME NEW s, s \in Seq(Range(s)), NEW i \in DOMAIN s, NEW row
    PROVE  LET a == [s EXCEPT ![i] = row]
           IN  /\ a \in Seq(Range(a))
               /\ DOMAIN a = DOMAIN s
               /\ Len(a) = Len(s)
               /\ a[i] = row
               /\ \A j \in DOMAIN s : j # i => a[j] = s[j]
<1> DEFINE T == Range(s) \cup {row}
           a == [s EXCEPT ![i] = row]
<1>1. s \in Seq(T) /\ row \in T /\ i \in 1..Len(s)
  OBVIOUS
<1>2. a \in Seq(T) /\ Len(a) = Len(s) /\ DOMAIN a = 1..Len(a)
  BY <1>1, ExceptSeq
<1>3. DOMAIN a = DOMAIN s /\ a[i] = row /\ \A j \in DOMAIN s : j # i => a[j] = s[j]
  OBVIOUS
<1>4. a \in Seq(T) => a \in Seq(Range(a))
  <2> HIDE DEF a
  <2> QED
    BY SeqOfRange
<1> QED
  BY <1>2, <1>3, <1>4

\* Taking the oldest message off a queue.
LEMMA TakeHead ==
    ASSUME NEW S, NEW q \in Seq(S), q # <<>>
    PROVE  /\ Head(q) \in S
           /\ Head(q) = q[1] /\ 1 \in DOMAIN q
           /\ Tail(q) \in Seq(S)
           /\ \A i \in DOMAIN Tail(q) : i + 1 \in DOMAIN q /\ Tail(q)[i] = q[i + 1]
BY HeadTailProperties

-----------------------------------------------------------------------------
(* Type correctness. *)

\* The initial state is well typed.
LEMMA InitType == Init => TypeOK
<1> SUFFICES ASSUME Init PROVE TypeOK
  OBVIOUS
<1> USE DEF Init, PlatformInit, CartInit, TransactionInit, PaymentInit
<1>1. CartTypeOK
  BY DEF CartTypeOK
<1>2. TransactionTypeOK /\ PaymentTypeOK
  BY DEF TransactionTypeOK, PaymentTypeOK
<1>3. PlatformTypeOK
  BY PlatformAssumption DEF PlatformTypeOK, TopicOf, Subscribed
<1>4. TransactionJobsOK /\ PaymentJobsOK
  BY DEF TransactionJobsOK, PaymentJobsOK, TransactionJobOK, PaymentJobOK
<1> QED
  BY <1>1, <1>2, <1>3, <1>4 DEF TypeOK

\* A topic stays a topic when a message is appended or taken off.
LEMMA TopicType ==
    ASSUME NEW Event, NEW topic \in TopicOf(Event)
    PROVE  /\ \A m \in Event : Appended(topic, m) \in TopicOf(Event)
           /\ HasMessage(topic) =>
                 Head(topic.queue) \in Event /\ Consumed(topic) \in TopicOf(Event)
           /\ Subscribed \in TopicOf(Event) /\ Unsubscribed \in TopicOf(Event)
BY TakeHead, AppendProperties
   DEF TopicOf, Appended, HasMessage, Consumed, Subscribed, Unsubscribed

\* An UPDATE of a cart leaves a table of well-typed carts.
LEMMA PutCartType ==
    ASSUME TypeOK, NEW c \in DOMAIN carts, NEW lines, NEW st \in CartStatuses,
           PutCart(c, lines, st)
    PROVE  CartTypeOK'
BY DEF TypeOK, CartTypeOK, PutCart, CartRow, CartStatuses

\* An inserted cart is a well-typed row under a fresh serial.
LEMMA InsertCartType ==
    ASSUME TypeOK, NEW u \in Users, NEW lines, InsertCart(u, lines)
    PROVE  CartTypeOK'
BY DEF TypeOK, CartTypeOK, InsertCart, CartRow, CartStatuses

\* Every step of the cart service, request or event, keeps the types.
LEMMA CartStepType == TypeOK /\ CartStep => TypeOK'
<1> SUFFICES ASSUME TypeOK, CartStep PROVE TypeOK'
  OBVIOUS
<1>1. TransactionTypeOK' /\ PaymentTypeOK' /\ TransactionJobsOK' /\ PaymentJobsOK'
  BY DEF TypeOK, CartStep, transactionVars, paymentVars, TransactionTypeOK,
         PaymentTypeOK, TransactionJobsOK, PaymentJobsOK
<1>2. PlatformTypeOK'
  BY TopicType DEF TypeOK, PlatformTypeOK, CartStep, CartNext, CartConsumer,
         HandleCartCheckedOut, HandleCartCheckedOutFails, CartServiceCrashes,
         CartServiceSubscribes
<1>3. CartTypeOK'
  <2>1. CASE UNCHANGED cartVars
    BY <2>1 DEF TypeOK, CartTypeOK, cartVars
  <2>2. ASSUME NEW u \in Users, NEW c \in ActiveCarts(u), NEW lines, SetLines(c, lines)
        PROVE  CartTypeOK'
    BY <2>2, PutCartType DEF SetLines, ActiveCarts, CartStatuses
  <2>3. ASSUME NEW u \in Users, NEW c \in ActiveCarts(u), SetStatus(c, "paid")
        PROVE  CartTypeOK'
    BY <2>3, PutCartType DEF SetStatus, ActiveCarts, CartStatuses
  <2>4. CASE CartRequest
    <3>1. ASSUME NEW u \in Users, NEW lines \in CartInputs, CreateCart(u, lines)
          PROVE  CartTypeOK'
      BY <3>1, <2>2, InsertCartType DEF CreateCart
    <3>2. ASSUME NEW u \in Users, NEW p, NEW q, AddToCart(u, p, q)
          PROVE  CartTypeOK'
      BY <3>2, <2>2, InsertCartType DEF AddToCart
    <3>3. ASSUME NEW u \in Users, NEW p, NEW q,
                 UpdateProductQty(u, p, q) \/ RemoveProductFromCart(u, p)
          PROVE  CartTypeOK'
      BY <3>3, <2>2 DEF UpdateProductQty, RemoveProductFromCart
    <3>4. ASSUME NEW u \in Users, CheckoutCart(u)
          PROVE  CartTypeOK'
      BY <3>4, <2>3 DEF CheckoutCart
    <3>5. ASSUME NEW c \in DOMAIN carts, NEW u \in Users, DeleteCart(c, u)
          PROVE  CartTypeOK'
      BY <3>5 DEF TypeOK, CartTypeOK, DeleteCart, CartStatuses
    <3>6. ASSUME NEW c \in DOMAIN carts, NEW lines \in CartInputs,
                 NEW st \in PutStatuses, UpdateCart(c, lines, st)
          PROVE  CartTypeOK'
      BY <3>6, PutCartType DEF UpdateCart, CartStatuses
    <3> QED
      BY <2>4, <3>1, <3>2, <3>3, <3>4, <3>5, <3>6 DEF CartRequest
  <2>5. CASE HandleCartCheckedOut
    <3> DEFINE event == Head(cartPaid.queue)
    <3>1. event \in CartEvent
      BY <2>5, TopicType DEF HandleCartCheckedOut, TypeOK, PlatformTypeOK
    <3>2. CASE event.cart \in ActiveCarts(event.user)
      BY <2>5, <3>1, <3>2, <2>3 DEF HandleCartCheckedOut, CartEvent
    <3>3. CASE event.cart \notin ActiveCarts(event.user)
      BY <2>5, <3>3, <2>1 DEF HandleCartCheckedOut
    <3> QED
      BY <3>2, <3>3
  <2> QED
    BY <2>1, <2>4, <2>5 DEF CartStep, CartNext, CartConsumer,
       HandleCartCheckedOutFails, CartServiceCrashes, CartServiceSubscribes
<1> QED
  BY <1>1, <1>2, <1>3 DEF TypeOK

\* Setting the status and paid_at of a transaction leaves well-typed rows.
LEMMA SetPaidType ==
    ASSUME TypeOK, NEW t \in DOMAIN transactions, NEW time \in Int, SetPaid(t, time)
    PROVE  TransactionTypeOK'
<1> DEFINE row == [transactions[t] EXCEPT !.status = "paid", !.paidAt = time]
<1>1. transactions' = [transactions EXCEPT ![t] = row]
  BY DEF SetPaid
<1>2. TransactionRowOK(row)
  BY DEF TypeOK, TransactionTypeOK, TransactionRowOK, TransactionStatuses
<1> HIDE DEF row
<1> QED
  BY <1>1, <1>2, UpdateRow DEF TypeOK, TransactionTypeOK

\* A handler of the transaction service leaves well-typed local variables.
LEMMA TransactionJobType ==
    ASSUME TypeOK, NEW w \in TWorkers, NEW job, TransactionJobOK(job),
           tjob' = [tjob EXCEPT ![w] = job]
    PROVE  TransactionJobsOK'
BY DEF TypeOK, TransactionJobsOK

\* Every step of a request handler of the transaction service keeps the types.
LEMMA TransactionWorkerType ==
    ASSUME TypeOK, NEW w \in TWorkers, TransactionWorker(w)
    PROVE  TransactionTypeOK' /\ PlatformTypeOK' /\ TransactionJobsOK'
<1> USE DEF TypeOK
<1>0. TransactionJobOK(Idle) /\ TransactionJobOK(tjob[w])
  BY DEF TransactionJobOK, TransactionJobsOK
<1>1. CASE CallGetCart(w)
  <2> PICK u \in Users, c \in DOMAIN carts :
           \E cart \in GetCart(c, u) : CreateTransaction(w, u, c, cart)
    BY <1>1 DEF CallGetCart
  <2> PICK cart \in GetCart(c, u) : CreateTransaction(w, u, c, cart)
    OBVIOUS
  <2> DEFINE job == [phase |-> "pricing", user |-> u, cart |-> c,
                     todo |-> cart.lines, total |-> 0]
  <2>1. TransactionJobOK(job)
    BY DEF TransactionJobOK, CartTypeOK
  <2>2. TransactionJobsOK'
    BY <2>1, TransactionJobType DEF CreateTransaction
  <2> QED
    BY <1>1, <2>2 DEF CallGetCart, CreateTransaction, platformVars,
       TransactionTypeOK, PlatformTypeOK
<1>2. CASE CallGetProduct(w)
  <2> PICK price \in Prices : GetProduct(w, price)
    BY <1>2 DEF CallGetProduct
  <2> DEFINE job == [tjob[w] EXCEPT
                        !.todo = Tail(tjob[w].todo),
                        !.total = Added(tjob[w].total, price, Head(tjob[w].todo).qty)]
  <2>1. TransactionJobOK(job)
    BY <1>0 DEF TransactionJobOK, GetProduct, Idle
  <2>2. tjob' = [tjob EXCEPT ![w] = job]
    BY DEF GetProduct
  <2> HIDE DEF job
  <2>3. TransactionJobsOK'
    BY <2>1, <2>2, TransactionJobType
  <2> QED
    BY <1>2, <2>3 DEF CallGetProduct, GetProduct, platformVars,
       TransactionTypeOK, PlatformTypeOK
<1>3. CASE StoreTransaction(w)
  <2> DEFINE row == [user |-> tjob[w].user, cart |-> tjob[w].cart,
                     total |-> tjob[w].total, status |-> "pending",
                     paidAt |-> Null]
             event == [cart |-> tjob[w].cart, user |-> tjob[w].user,
                       tx |-> Len(transactions) + 1]
             job == [phase |-> "publish", sends |-> 0, event |-> event]
  <2>1. tjob[w].user \in Users /\ tjob[w].cart \in Nat \ {0}
    BY <1>0, <1>3 DEF StoreTransaction, InsertTransaction, TransactionJobOK, Idle
  <2>2. TransactionRowOK(row)
    BY <2>1 DEF TransactionRowOK, TransactionStatuses, Null
  <2>3. TransactionJobOK(job)
    BY <2>1, AppendRow DEF TransactionJobOK, CartEvent, TransactionTypeOK
  <2>4. /\ transactions' = Append(transactions, row)
        /\ tjob' = [tjob EXCEPT ![w] = job]
    BY <1>3 DEF StoreTransaction, InsertTransaction
  <2> HIDE DEF row, job
  <2>5. TransactionTypeOK'
    BY <2>2, <2>4, AppendRow DEF TransactionTypeOK
  <2>6. TransactionJobsOK'
    BY <2>3, <2>4, TransactionJobType
  <2> QED
    BY <1>3, <2>5, <2>6 DEF StoreTransaction, platformVars, PlatformTypeOK
<1>4. CASE AnnounceTransaction(w)
  <2>1. /\ tjob[w] \in [phase : {"publish"}, event : CartEvent, sends : Nat]
        /\ cartPaid' = Appended(cartPaid, tjob[w].event)
    BY <1>0, <1>4 DEF AnnounceTransaction, PublishCartCheckedOut,
       ResendCartCheckedOut, TransactionJobOK, Idle
  <2>2. PlatformTypeOK'
    BY <1>4, <2>1, TopicType DEF AnnounceTransaction, PlatformTypeOK
  <2>3. TransactionJobsOK'
    <3>1. CASE PublishCartCheckedOut(w)
      BY <3>1, <1>0, TransactionJobType DEF PublishCartCheckedOut
    <3>2. CASE ResendCartCheckedOut(w)
      <4> DEFINE job == [phase |-> "publish", event |-> tjob[w].event,
                         sends |-> tjob[w].sends + 1]
      <4>1. TransactionJobOK(job)
        BY <2>1 DEF TransactionJobOK
      <4> QED
        BY <3>2, <4>1, TransactionJobType DEF ResendCartCheckedOut
    <3> QED
      BY <1>4, <3>1, <3>2 DEF AnnounceTransaction
  <2> QED
    BY <1>4, <2>2, <2>3 DEF AnnounceTransaction, PublishCartCheckedOut,
       ResendCartCheckedOut, TransactionTypeOK
<1>5. CASE StartCancel(w)
  <2> PICK u \in Users, t \in DOMAIN transactions : CancelTransaction(w, t, u)
    BY <1>5 DEF StartCancel
  <2>1. TransactionJobOK([phase |-> "cancel", tx |-> t])
    BY AppendRow DEF TransactionJobOK, TransactionTypeOK
  <2>2. TransactionJobsOK'
    BY <2>1, TransactionJobType DEF CancelTransaction
  <2> QED
    BY <1>5, <2>2 DEF StartCancel, CancelTransaction, platformVars,
       TransactionTypeOK, PlatformTypeOK
<1>6. CASE FinishCancel(w)
  <2> DEFINE t == tjob[w].tx
             row == [transactions[t] EXCEPT !.status = "cancelled"]
  <2>1. TransactionTypeOK'
    <3>1. transactions' = [transactions EXCEPT ![t] = row]
      BY <1>6 DEF FinishCancel, CancelUpdate
    <3>2. CASE t \in DOMAIN transactions
      <4>1. TransactionRowOK(row)
        BY <3>2 DEF TransactionTypeOK, TransactionRowOK, TransactionStatuses
      <4> HIDE DEF row, t
      <4> QED
        BY <3>1, <3>2, <4>1, UpdateRow DEF TransactionTypeOK
    <3>3. CASE t \notin DOMAIN transactions
      <4>1. transactions' = transactions
        BY <3>1, <3>3 DEF TransactionTypeOK
      <4> QED
        BY <4>1 DEF TransactionTypeOK
    <3> QED
      BY <3>2, <3>3
  <2>2. TransactionJobsOK'
    BY <1>6, <1>0, TransactionJobType DEF FinishCancel, CancelUpdate
  <2> QED
    BY <1>6, <2>1, <2>2 DEF FinishCancel, platformVars, PlatformTypeOK
<1>7. CASE LoseTransactionJob(w)
  <2>1. TransactionJobsOK'
    BY <1>7, <1>0, TransactionJobType DEF LoseTransactionJob, DropTransactionJob
  <2> QED
    BY <1>7, <2>1 DEF LoseTransactionJob, DropTransactionJob, platformVars,
       TransactionTypeOK, PlatformTypeOK
<1> QED
  BY <1>1, <1>2, <1>3, <1>4, <1>5, <1>6, <1>7 DEF TransactionWorker

\* The consumer of "payment.paid" and MarkAsPaid keep the types too.
LEMMA TransactionStepType == TypeOK /\ TransactionStep => TypeOK'
<1> SUFFICES ASSUME TypeOK, TransactionStep PROVE TypeOK'
  OBVIOUS
<1> USE DEF TypeOK
<1>1. CartTypeOK' /\ PaymentTypeOK' /\ PaymentJobsOK'
  BY DEF TransactionStep, cartVars, paymentVars, CartTypeOK, PaymentTypeOK,
         PaymentJobsOK
<1>2. ASSUME NEW w \in TWorkers, TransactionWorker(w)
      PROVE  TransactionTypeOK' /\ PlatformTypeOK' /\ TransactionJobsOK'
  BY <1>2, TransactionWorkerType
<1>3. CASE CallMarkAsPaid
  <2> PICK t \in DOMAIN transactions : MarkAsPaid(t)
    BY <1>3 DEF CallMarkAsPaid
  <2>1. NOW \in Nat
    BY DEF NOW, PlatformTypeOK
  <2>2. TransactionTypeOK'
    BY <2>1, SetPaidType DEF MarkAsPaid
  <2>3. PlatformTypeOK' /\ TransactionJobsOK'
    BY <1>3, <2>1 DEF CallMarkAsPaid, MarkAsPaid, Tick, PlatformTypeOK,
       TransactionJobsOK
  <2> QED
    BY <1>1, <2>2, <2>3
<1>4. CASE TransactionConsumer /\ UNCHANGED <<cartPaid, clock>>
  <2>1. PlatformTypeOK'
    BY <1>4, TopicType DEF PlatformTypeOK, TransactionConsumer, PaymentPaidHandler,
       PaymentPaidHandlerFails, TransactionServiceCrashes,
       TransactionServiceSubscribes
  <2>2. TransactionJobsOK'
    BY <1>4 DEF TransactionConsumer, PaymentPaidHandler, PaymentPaidHandlerFails,
       TransactionServiceCrashes, TransactionServiceSubscribes, transactionVars,
       TransactionJobsOK, TransactionJobOK
  <2>3. CASE PaymentPaidHandler
    <3> DEFINE event == Head(paymentPaid.queue)
    <3>1. event \in PaymentEvent
      BY <2>3, TopicType DEF PaymentPaidHandler, PlatformTypeOK
    <3>2. \/ SetPaid(event.tx, event.paidAt) /\ event.tx \in DOMAIN transactions
          \/ UNCHANGED transactions
      BY <2>3 DEF PaymentPaidHandler
    <3>3. TransactionTypeOK'
      BY <3>1, <3>2, SetPaidType DEF PaymentEvent, TransactionTypeOK
    <3> QED
      BY <1>1, <2>1, <2>2, <3>3
  <2>4. CASE UNCHANGED transactions
    BY <1>1, <2>1, <2>2, <2>4 DEF TransactionTypeOK
  <2> QED
    BY <1>4, <2>3, <2>4 DEF TransactionConsumer, PaymentPaidHandlerFails,
       TransactionServiceCrashes, TransactionServiceSubscribes, transactionVars
<1> QED
  BY <1>1, <1>2, <1>3, <1>4 DEF TransactionStep

\* A handler of the payment service leaves well-typed local variables.
LEMMA PaymentJobType ==
    ASSUME TypeOK, NEW w \in PWorkers, NEW job, PaymentJobOK(job),
           pjob' = [pjob EXCEPT ![w] = job]
    PROVE  PaymentJobsOK'
BY DEF TypeOK, PaymentJobsOK

\* Every step of a request handler of the payment service keeps the types.
LEMMA PaymentWorkerType ==
    ASSUME TypeOK, NEW w \in PWorkers, PaymentWorker(w)
    PROVE  PaymentTypeOK' /\ PlatformTypeOK' /\ PaymentJobsOK'
<1> USE DEF TypeOK
<1>0. PaymentJobOK(Idle) /\ PaymentJobOK(pjob[w])
  BY DEF PaymentJobOK, PaymentJobsOK
<1>1. CASE CallGetTransaction(w)
  <2> PICK u \in Users, t \in DOMAIN transactions :
           \E tx \in GetTransaction(t, u) : CreatePayment(w, t, u, tx)
    BY <1>1 DEF CallGetTransaction
  <2> PICK tx \in GetTransaction(t, u) : CreatePayment(w, t, u, tx)
    OBVIOUS
  <2> DEFINE job == [phase |-> "insert", tx |-> t, user |-> u, amount |-> tx.total]
  <2>1. PaymentJobOK(job)
    BY AppendRow DEF PaymentJobOK, TransactionTypeOK
  <2>2. PaymentJobsOK'
    BY <2>1, PaymentJobType DEF CreatePayment
  <2> QED
    BY <1>1, <2>2 DEF CallGetTransaction, CreatePayment, platformVars,
       PaymentTypeOK, PlatformTypeOK
<1>2. CASE StorePayment(w)
  <2> DEFINE row == [tx |-> pjob[w].tx, user |-> pjob[w].user,
                     amount |-> pjob[w].amount, status |-> "pending",
                     paidAt |-> Null]
  <2>1. PaymentRowOK(row)
    BY <1>0, <1>2 DEF StorePayment, InsertPayment, PaymentJobOK, Idle,
       PaymentRowOK, PaymentStatuses, Null
  <2>2. payments' = Append(payments, row)
    BY <1>2 DEF StorePayment, InsertPayment
  <2> HIDE DEF row
  <2>3. PaymentTypeOK'
    BY <2>1, <2>2, AppendRow DEF PaymentTypeOK
  <2>4. PaymentJobsOK'
    BY <1>2, <1>0, PaymentJobType DEF StorePayment, InsertPayment
  <2> QED
    BY <1>2, <2>3, <2>4 DEF StorePayment, platformVars, PlatformTypeOK
<1>3. CASE CallPayPayment(w)
  <2> PICK u \in Users, p \in DOMAIN payments : PayPayment(w, p, u)
    BY <1>3 DEF CallPayPayment
  <2> DEFINE row == [payments[p] EXCEPT !.status = "paid", !.paidAt = NOW]
             event == [payment |-> p, tx |-> payments[p].tx, paidAt |-> RFC3339(NOW)]
             job == [phase |-> "publish", sends |-> 0, event |-> event]
  <2>1. NOW \in Nat /\ RFC3339(NOW) \in Int
    BY PlatformAssumption DEF NOW, RFC3339, PlatformTypeOK
  <2>2. PaymentRowOK(row)
    BY <2>1 DEF PaymentTypeOK, PaymentRowOK, PaymentStatuses
  <2>3. p \in Nat \ {0} /\ payments[p].tx \in Nat \ {0}
    BY AppendRow DEF PaymentTypeOK, PaymentRowOK
  <2>4. PaymentJobOK(job)
    BY <2>1, <2>3 DEF PaymentJobOK, PaymentEvent
  <2>5. payments' = [payments EXCEPT ![p] = row] /\ pjob' = [pjob EXCEPT ![w] = job]
    BY DEF PayPayment
  <2> HIDE DEF row, job
  <2>6. PaymentTypeOK'
    BY <2>2, <2>5, UpdateRow DEF PaymentTypeOK
  <2>7. PaymentJobsOK'
    BY <2>4, <2>5, PaymentJobType
  <2>8. PlatformTypeOK'
    BY <1>3, <2>1 DEF CallPayPayment, PayPayment, Tick, PlatformTypeOK
  <2> QED
    BY <2>6, <2>7, <2>8
<1>4. CASE AnnouncePayment(w)
  <2>1. /\ pjob[w] \in [phase : {"publish"}, event : PaymentEvent, sends : Nat]
        /\ paymentPaid' = Appended(paymentPaid, pjob[w].event)
    BY <1>0, <1>4 DEF AnnouncePayment, PublishPaymentPaid, ResendPaymentPaid,
       PaymentJobOK, Idle
  <2>2. PlatformTypeOK'
    BY <1>4, <2>1, TopicType DEF AnnouncePayment, PlatformTypeOK
  <2>3. PaymentJobsOK'
    <3>1. CASE PublishPaymentPaid(w)
      BY <3>1, <1>0, PaymentJobType DEF PublishPaymentPaid
    <3>2. CASE ResendPaymentPaid(w)
      <4> DEFINE job == [phase |-> "publish", event |-> pjob[w].event,
                         sends |-> pjob[w].sends + 1]
      <4>1. PaymentJobOK(job)
        BY <2>1 DEF PaymentJobOK
      <4> QED
        BY <3>2, <4>1, PaymentJobType DEF ResendPaymentPaid
    <3> QED
      BY <1>4, <3>1, <3>2 DEF AnnouncePayment
  <2> QED
    BY <1>4, <2>2, <2>3 DEF AnnouncePayment, PublishPaymentPaid,
       ResendPaymentPaid, PaymentTypeOK
<1>5. CASE LosePaymentJob(w)
  <2>1. PaymentJobsOK'
    BY <1>5, <1>0, PaymentJobType DEF LosePaymentJob, DropPaymentJob
  <2> QED
    BY <1>5, <2>1 DEF LosePaymentJob, DropPaymentJob, platformVars,
       PaymentTypeOK, PlatformTypeOK
<1> QED
  BY <1>1, <1>2, <1>3, <1>4, <1>5 DEF PaymentWorker

\* Every step of the payment service keeps the types.
LEMMA PaymentStepType == TypeOK /\ PaymentStep => TypeOK'
<1> SUFFICES ASSUME TypeOK, PaymentStep PROVE TypeOK'
  OBVIOUS
<1> USE DEF TypeOK
<1>1. CartTypeOK' /\ TransactionTypeOK' /\ TransactionJobsOK'
  BY DEF PaymentStep, cartVars, transactionVars, CartTypeOK, TransactionTypeOK,
         TransactionJobsOK
<1>2. ASSUME NEW w \in PWorkers, PaymentWorker(w)
      PROVE  PaymentTypeOK' /\ PlatformTypeOK' /\ PaymentJobsOK'
  BY <1>2, PaymentWorkerType
<1>3. CASE PaymentServiceCrashes /\ UNCHANGED platformVars
  BY <1>1, <1>3 DEF PaymentServiceCrashes, platformVars, PaymentTypeOK, PlatformTypeOK,
     PaymentJobsOK, PaymentJobOK
<1> QED
  BY <1>1, <1>2, <1>3 DEF PaymentStep

\* A stuttering step keeps the types.
LEMMA StutterType == TypeOK /\ UNCHANGED vars => TypeOK'
BY DEF TypeOK, vars, cartVars, transactionVars, paymentVars, platformVars,
       CartTypeOK, TransactionTypeOK, PaymentTypeOK, PlatformTypeOK,
       TransactionJobsOK, PaymentJobsOK

\* Whatever the users, faults, handlers and bounds are, every table, topic and
\* handler holds values of the shape the code stores in it.
THEOREM TypeCorrect == Spec => []TypeOK
<1>1. Init => TypeOK
  BY InitType
<1>2. TypeOK /\ [Next]_vars => TypeOK'
  BY CartStepType, TransactionStepType, PaymentStepType, StutterType DEF Next
<1> QED
  BY <1>1, <1>2, PTL DEF Spec
=============================================================================
