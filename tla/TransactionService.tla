------------------------- MODULE TransactionService -------------------------
(***************************************************************************)
(* The transaction service: an order is created from a cart, priced item   *)
(* by item, announced on "cart.paid", and later cancelled, or paid by an   *)
(* event of "payment.paid".  Each worker is a request handler in progress. *)
(* The Redis keys this service deletes are never set and are left out; the *)
(* address snapshot is a value no other step reads and is left out too.    *)
(***************************************************************************)
EXTENDS Platform, Amounts, FiniteSets

CONSTANTS
    TWorkers,         \* concurrent request handlers
    Prices,           \* the prices product-service may answer, now or later
    MaxTransactions,  \* bound: transactions ever inserted
    MarkAsPaidCalled  \* whether anyone calls MarkAsPaid; no code here does

ASSUME TransactionAssumption ==
    /\ MaxTransactions \in Nat
    /\ MarkAsPaidCalled \in BOOLEAN

VARIABLES
    transactions,     \* the table, by id: [user, cart, total, status, paidAt]
    tjob              \* worker -> what its handler has in its local variables

transactionVars == <<transactions, tjob>>

TransactionStatuses == {"pending", "paid", "cancelled"}

TIdle(w) == tjob[w].phase = "idle"

TransactionInit ==
    /\ transactions = <<>>
    /\ tjob = [w \in TWorkers |-> Idle]

-----------------------------------------------------------------------------
(* CreateTransaction. *)

Pricing == {w \in TWorkers : tjob[w].phase = "pricing"}

\* The bound, applied before a handler starts so that none gets stuck on it.
RoomForTransaction ==
    Len(transactions) + Cardinality(Pricing) < MaxTransactions

\* The reply of cart-service arrives.  From here on the handler works with it.
CreateTransaction(w, u, c, cart) ==
    /\ TIdle(w)
    /\ RoomForTransaction
    /\ cart.status = "active"
    /\ tjob' = [tjob EXCEPT ![w] = [phase |-> "pricing", user |-> u, cart |-> c,
                                    todo |-> cart.lines, total |-> 0]]
    /\ UNCHANGED transactions

\* One turn of the loop: product-service answers the price of the next line.
GetProduct(w, price) ==
    /\ tjob[w].phase = "pricing"
    /\ tjob[w].todo # <<>>
    /\ LET job == tjob[w]
       IN  tjob' = [tjob EXCEPT ![w] =
                 [job EXCEPT !.todo = Tail(job.todo),
                             !.total = Added(job.total, price, Head(job.todo).qty)]]
    /\ UNCHANGED transactions

\* (variant) the event is built before the INSERT returned the id
InsertTransaction_EarlyId(w) ==
    /\ tjob[w].phase = "pricing"
    /\ tjob[w].todo = <<>>
    /\ LET job == tjob[w]
       IN  /\ transactions' = Append(transactions,
                 [user |-> job.user, cart |-> job.cart, total |-> job.total,
                  status |-> "pending", paidAt |-> Null])
           /\ tjob' = [tjob EXCEPT ![w] =
                 [phase |-> "publish", sends |-> 0,
                  event |-> [cart |-> job.cart, user |-> job.user,
                             tx |-> Len(transactions)]]]

\* (variant) the handler returns without publishing
InsertTransaction_Silent(w) ==
    /\ tjob[w].phase = "pricing"
    /\ tjob[w].todo = <<>>
    /\ transactions' = Append(transactions,
          [user |-> tjob[w].user, cart |-> tjob[w].cart, total |-> tjob[w].total,
           status |-> "pending", paidAt |-> Null])
    /\ tjob' = [tjob EXCEPT ![w] = Idle]

InsertTransaction(w) ==
    /\ tjob[w].phase = "pricing"
    /\ tjob[w].todo = <<>>
    /\ LET job == tjob[w]
       IN  /\ transactions' = Append(transactions,
                 [user |-> job.user, cart |-> job.cart, total |-> job.total,
                  status |-> "pending", paidAt |-> Null])
           /\ tjob' = [tjob EXCEPT ![w] =
                 [phase |-> "publish", sends |-> 0,
                  event |-> [cart |-> job.cart, user |-> job.user,
                             tx |-> Len(transactions) + 1]]]

\* (variant) an asynchronous producer, whose errors nobody reads
PublishCartCheckedOut_Async(w) ==
    /\ tjob[w].phase = "publish"
    /\ cartPaid' \in {cartPaid, Appended(cartPaid, tjob[w].event)}
    /\ tjob' = [tjob EXCEPT ![w] = Idle]
    /\ UNCHANGED transactions

\* SendMessage returns nil, and so does the request.
PublishCartCheckedOut(w) ==
    /\ tjob[w].phase = "publish"
    /\ cartPaid' = Appended(cartPaid, tjob[w].event)
    /\ tjob' = [tjob EXCEPT ![w] = Idle]
    /\ UNCHANGED transactions

\* The broker appends the message, the ack is lost and sarama sends again.
ResendCartCheckedOut(w) ==
    /\ "resend" \in Faults
    /\ tjob[w].phase = "publish"
    /\ tjob[w].sends + 1 < MaxSends
    /\ cartPaid' = Appended(cartPaid, tjob[w].event)
    /\ tjob' = [tjob EXCEPT ![w] = [phase |-> "publish", event |-> tjob[w].event,
                                    sends |-> tjob[w].sends + 1]]
    /\ UNCHANGED transactions

-----------------------------------------------------------------------------
(* CancelTransaction: a SELECT, checks, and an UPDATE by id alone. *)

\* (variant) the status is not looked at
CancelTransaction_AnyStatus(w, t, u) ==
    /\ TIdle(w)
    /\ t \in DOMAIN transactions
    /\ transactions[t].user = u
    /\ tjob' = [tjob EXCEPT ![w] = [phase |-> "cancel", tx |-> t]]
    /\ UNCHANGED transactions

CancelTransaction(w, t, u) ==
    /\ TIdle(w)
    /\ t \in DOMAIN transactions
    /\ transactions[t].user = u
    /\ transactions[t].status # "paid"
    /\ tjob' = [tjob EXCEPT ![w] = [phase |-> "cancel", tx |-> t]]
    /\ UNCHANGED transactions

CancelUpdate(w) ==
    /\ tjob[w].phase = "cancel"
    /\ transactions' = [transactions EXCEPT ![tjob[w].tx].status = "cancelled"]
    /\ tjob' = [tjob EXCEPT ![w] = Idle]

\* A handler gives up: a call or statement failed, or its context expired.
DropTransactionJob(w) ==
    /\ "drop" \in Faults
    /\ ~TIdle(w)
    /\ tjob' = [tjob EXCEPT ![w] = Idle]
    /\ UNCHANGED transactions

-----------------------------------------------------------------------------
(* Requests of a single statement. *)

SetPaid(t, time) ==
    transactions' = [transactions EXCEPT ![t].status = "paid", ![t].paidAt = time]

\* Offered over gRPC; no other service calls it and its HTTP route is disabled.
MarkAsPaid(t) ==
    /\ MarkAsPaidCalled
    /\ t \in DOMAIN transactions
    /\ Tick
    /\ SetPaid(t, NOW)
    /\ UNCHANGED tjob

\* (variant) the row is found without its owner
GetTransaction_AnyUser(t, u) ==
    IF t \in DOMAIN transactions THEN {transactions[t]} ELSE {}

\* GetTransaction: the replies that are not errors.
GetTransaction(t, u) ==
    IF t \in DOMAIN transactions /\ transactions[t].user = u
    THEN {transactions[t]} ELSE {}

-----------------------------------------------------------------------------
(* The consumer of "payment.paid". *)

\* (variant) the UPDATE forgets AND status!='paid'
PaymentPaidHandler_Again ==
    /\ HasMessage(paymentPaid)
    /\ LET event == Head(paymentPaid.queue)
       IN  IF event.tx \in DOMAIN transactions
           THEN SetPaid(event.tx, event.paidAt)
           ELSE UNCHANGED transactions
    /\ paymentPaid' = Consumed(paymentPaid)
    /\ UNCHANGED tjob

\* (variant) the UPDATE takes the payment's id for the transaction's
PaymentPaidHandler_ByPayment ==
    /\ HasMessage(paymentPaid)
    /\ LET event == Head(paymentPaid.queue)
       IN  IF /\ event.payment \in DOMAIN transactions
              /\ transactions[event.payment].status # "paid"
           THEN SetPaid(event.payment, event.paidAt)
           ELSE UNCHANGED transactions
    /\ paymentPaid' = Consumed(paymentPaid)
    /\ UNCHANGED tjob

\* (variant) the UPDATE asks for status='pending'
PaymentPaidHandler_PendingOnly ==
    /\ HasMessage(paymentPaid)
    /\ LET event == Head(paymentPaid.queue)
       IN  IF /\ event.tx \in DOMAIN transactions
              /\ transactions[event.tx].status = "pending"
           THEN SetPaid(event.tx, event.paidAt)
           ELSE UNCHANGED transactions
    /\ paymentPaid' = Consumed(paymentPaid)
    /\ UNCHANGED tjob

PaymentPaidHandler ==
    /\ HasMessage(paymentPaid)
    /\ LET event == Head(paymentPaid.queue)
       IN  IF /\ event.tx \in DOMAIN transactions
              /\ transactions[event.tx].status # "paid"
           THEN SetPaid(event.tx, event.paidAt)
           ELSE UNCHANGED transactions
    /\ paymentPaid' = Consumed(paymentPaid)
    /\ UNCHANGED tjob

PaymentPaidHandlerFails ==
    /\ "dberror" \in Faults
    /\ HasMessage(paymentPaid)
    /\ paymentPaid' = Consumed(paymentPaid)
    /\ UNCHANGED transactionVars

TransactionServiceCrashes ==
    /\ "crash" \in Faults
    /\ paymentPaid' = Unsubscribed
    /\ tjob' = [w \in TWorkers |-> Idle]
    /\ UNCHANGED transactions

TransactionServiceSubscribes ==
    /\ ~paymentPaid.up
    /\ paymentPaid' = Subscribed
    /\ UNCHANGED transactionVars

TransactionConsumer ==
    \/ PaymentPaidHandler
    \/ PaymentPaidHandlerFails
    \/ TransactionServiceCrashes
    \/ TransactionServiceSubscribes
=============================================================================
