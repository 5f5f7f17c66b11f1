-------------------------- MODULE OrderProperties ---------------------------
(***************************************************************************)
(* What the three services promise about an order, together.               *)
(***************************************************************************)
EXTENDS OrderSaga

-----------------------------------------------------------------------------
(* Type invariant.  Amounts and product lines are values that the control  *)
(* of an order never inspects; their types are left to CartLines.          *)

CartTypeOK ==
    /\ nextCart \in Nat \ {0}
    /\ \A c \in DOMAIN carts :
          /\ c \in Nat \ {0} /\ c < nextCart
          /\ DOMAIN carts[c] = {"owner", "lines", "status"}
          /\ carts[c].owner \in Users
          /\ carts[c].status \in CartStatuses

TransactionRowOK(row) ==
    /\ DOMAIN row = {"user", "cart", "total", "status", "paidAt"}
    /\ row.user \in Users
    /\ row.cart \in Nat \ {0}
    /\ row.status \in TransactionStatuses
    /\ row.paidAt \in Int

TransactionTypeOK ==
    /\ transactions \in Seq(Range(transactions))
    /\ \A t \in DOMAIN transactions : TransactionRowOK(transactions[t])

PaymentRowOK(row) ==
    /\ DOMAIN row = {"tx", "user", "amount", "status", "paidAt"}
    /\ row.tx \in Nat \ {0}
    /\ row.user \in Users
    /\ row.status \in PaymentStatuses
    /\ row.paidAt \in Int

PaymentTypeOK ==
    /\ payments \in Seq(Range(payments))
    /\ \A p \in DOMAIN payments : PaymentRowOK(payments[p])

CartEvent == [cart : Nat \ {0}, user : Users, tx : Nat \ {0}]

PaymentEvent == [payment : Nat \ {0}, tx : Nat \ {0}, paidAt : Int]

TopicOf(Event) == [up : BOOLEAN, queue : Seq(Event)]

PlatformTypeOK ==
    /\ cartPaid \in TopicOf(CartEvent)
    /\ paymentPaid \in TopicOf(PaymentEvent)
    /\ clock \in Nat

TransactionJobOK(job) ==
    \/ job = Idle
    \/ /\ DOMAIN job = {"phase", "user", "cart", "todo", "total"}
       /\ job.phase = "pricing" /\ job.user \in Users /\ job.cart \in Nat \ {0}
    \/ job \in [phase : {"publish"}, event : CartEvent, sends : Nat]
    \/ job \in [phase : {"cancel"}, tx : Nat \ {0}]

PaymentJobOK(job) ==
    \/ job = Idle
    \/ /\ DOMAIN job = {"phase", "tx", "user", "amount"}
       /\ job.phase = "insert" /\ job.tx \in Nat \ {0} /\ job.user \in Users
    \/ job \in [phase : {"publish"}, event : PaymentEvent, sends : Nat]

TransactionJobsOK ==
    /\ tjob = [w \in TWorkers |-> tjob[w]]
    /\ \A w \in TWorkers : TransactionJobOK(tjob[w])

PaymentJobsOK ==
    /\ pjob = [w \in PWorkers |-> pjob[w]]
    /\ \A w \in PWorkers : PaymentJobOK(pjob[w])

\* Every table, topic and handler holds values of the shape the code stores
\* in it: carts have serial ids that were handed out before, statuses are
\* those the services write, and the consumers' queues carry the events of
\* kafka/producer.go.
TypeOK ==
    /\ CartTypeOK
    /\ TransactionTypeOK
    /\ PaymentTypeOK
    /\ PlatformTypeOK
    /\ TransactionJobsOK
    /\ PaymentJobsOK

-----------------------------------------------------------------------------
(* Events on their way: in the consumer's queue or in the hands of the      *)
(* handler that is about to publish them.                                   *)

CartEvents ==
    {cartPaid.queue[i] : i \in DOMAIN cartPaid.queue}
    \cup {tjob[w].event : w \in {x \in TWorkers : tjob[x].phase = "publish"}}

PaymentEvents ==
    {paymentPaid.queue[i] : i \in DOMAIN paymentPaid.queue}
    \cup {pjob[w].event : w \in {x \in PWorkers : pjob[x].phase = "publish"}}

Paid(t) == transactions[t].status = "paid"

Cancelling(t) == \E w \in TWorkers : tjob[w].phase = "cancel" /\ tjob[w].tx = t

PaymentMade(t) ==
    \E p \in DOMAIN payments : payments[p].tx = t /\ payments[p].status = "paid"

-----------------------------------------------------------------------------
(* Invariants. *)

\* c is, or was before it was deleted, a cart of u; its id is never reused.
CartOf(c, u) == c < nextCart /\ (c \in DOMAIN carts => carts[c].owner = u)

\* t is a transaction of u for this amount.
TransactionOf(t, u, amount) ==
    /\ t \in DOMAIN transactions
    /\ transactions[t].user = u
    /\ transactions[t].total = amount

RowsAgree ==
    /\ \A t \in DOMAIN transactions :
          CartOf(transactions[t].cart, transactions[t].user)
    /\ \A p \in DOMAIN payments :
          TransactionOf(payments[p].tx, payments[p].user, payments[p].amount)

HandlersAgree ==
    /\ \A w \in TWorkers :
          /\ tjob[w].phase = "pricing" => CartOf(tjob[w].cart, tjob[w].user)
          /\ tjob[w].phase = "cancel" => tjob[w].tx \in DOMAIN transactions
    /\ \A w \in PWorkers :
          pjob[w].phase = "insert" =>
              TransactionOf(pjob[w].tx, pjob[w].user, pjob[w].amount)

\* Cart, transaction and payment of an order agree: a transaction belongs to
\* the owner of the cart it was made from (no later cart reuses the id), and a
\* payment to the user and for the amount of its transaction.  Each was copied
\* from a reply that other requests may outdate before the INSERT (a deleted
\* cart, a paid transaction): what the handlers still hold agrees as well.
OrderChain == RowsAgree /\ HandlersAgree

\* No event runs ahead of what it announces, whatever is lost, resent or left
\* behind by a crash: a "cart.paid" names a stored transaction of that cart and
\* user, a "payment.paid" a payment of that transaction that is stored as paid.
EventsAreBacked ==
    /\ \A e \in CartEvents :
          /\ e.tx \in DOMAIN transactions
          /\ transactions[e.tx].cart = e.cart
          /\ transactions[e.tx].user = e.user
    /\ \A e \in PaymentEvents :
          /\ e.payment \in DOMAIN payments
          /\ payments[e.payment].tx = e.tx
          /\ payments[e.payment].status = "paid"

\* When nothing fails, money is never forgotten: a transaction that is still
\* pending although a payment of it was made has its "payment.paid" event on
\* the way, so that only the consumer's turn is missing.
NoPaymentForgotten ==
    Faults \subseteq {"resend"} =>
        \A t \in DOMAIN transactions :
            PaymentMade(t) /\ transactions[t].status = "pending"
                => \E e \in PaymentEvents : e.tx = t

\* When nothing fails and nobody reopens carts, a cart that was turned into a
\* transaction but is still active has its "cart.paid" event on the way.
NoCheckoutForgotten ==
    Faults \subseteq {"resend"} /\ "active" \notin PutStatuses =>
        \A t \in DOMAIN transactions :
            LET c == transactions[t].cart
            IN  c \in ActiveCarts(transactions[t].user)
                    => \E e \in CartEvents : e.cart = c /\ e.user = carts[c].owner

-----------------------------------------------------------------------------
(* Action properties. *)

\* A transaction becomes paid only when a payment of that very transaction has
\* been made (PaymentPaidHandler), or through MarkAsPaid.
PaidOnlyByPayment ==
    [][\A t \in DOMAIN transactions :
          ~Paid(t) /\ Paid(t)' => PaymentMade(t) \/ MarkAsPaid(t)]_vars

\* Once a transaction is paid and no cancellation that read it earlier is still
\* running, it stays paid with the paid_at it has: no redelivered event, no
\* second payment of it and no new CancelTransaction changes it.
Settled(t) == Paid(t) /\ ~Cancelling(t)

SettledForever ==
    [][\A t \in DOMAIN transactions : Settled(t) =>
          \/ Settled(t)' /\ transactions[t].paidAt' = transactions[t].paidAt
          \/ MarkAsPaid(t)]_vars

\* A cart goes from active to paid only for a stored transaction of that cart
\* and its owner (HandleCartCheckedOut), or by CheckoutCart or UpdateCart: an
\* event that is handled late or twice does not close another cart.
CartClosedByCheckout ==
    [][\A c \in DOMAIN carts \cap (DOMAIN carts)' :
          carts[c].status = "active" /\ carts[c].status' = "paid" =>
              \/ \E t \in DOMAIN transactions :
                    /\ transactions[t].cart = c
                    /\ transactions[t].user = carts[c].owner
              \/ cartPaid' = cartPaid]_vars

\* A cart that left "active" comes back only by UpdateCart, and its products
\* are then replaced or edited; no other request and no event changes them.
ClosedCartIsFrozen ==
    [][\A c \in DOMAIN carts \cap (DOMAIN carts)' :
          carts[c].status # "active" =>
              \/ carts'[c] = carts[c]
              \/ \E lines \in CartInputs, st \in PutStatuses :
                    UpdateCart(c, lines, st)]_vars

-----------------------------------------------------------------------------
(* The abstract specification. *)

Order(t) ==
    [user |-> transactions[t].user, amount |-> transactions[t].total,
     status |-> transactions[t].status]

Orders == [t \in DOMAIN transactions |-> Order(t)]

Receipt(p) ==
    [order |-> payments[p].tx, user |-> payments[p].user, amount |-> payments[p].amount]

Receipts == {Receipt(p) : p \in {q \in DOMAIN payments : payments[q].status = "paid"}}

BeingCancelled == {tjob[w].tx : w \in {v \in TWorkers : tjob[v].phase = "cancel"}}

\* The three services do what OrderPromise says, whatever they do besides: an
\* order is a transaction, money is received with a payment that is paid, and
\* whoever is between the two statements of CancelTransaction has asked for it.
Promise ==
    INSTANCE OrderPromise WITH
        orders <- Orders,
        received <- Receipts,
        cancelling <- BeingCancelled,
        ByHand <- MarkAsPaidCalled

KeepsOrderPromise == Promise!Spec

-----------------------------------------------------------------------------
(* Liveness, under Fairness and without faults that lose messages. *)

\* A payment whose event a handler is about to send eventually makes its
\* transaction paid.
PaymentSettles ==
    \A t \in 1..MaxTransactions, w \in PWorkers :
        (pjob[w].phase = "publish" /\ pjob[w].event.tx = t)
            ~> (t \in DOMAIN transactions /\ Paid(t))

\* A transaction whose event a handler is about to send eventually finds its
\* cart no longer active.
CheckoutCloses ==
    \A c \in 1..MaxCarts, u \in Users, w \in TWorkers :
        (tjob[w].phase = "publish" /\ tjob[w].event.cart = c)
            ~> (c \notin ActiveCarts(u))

-----------------------------------------------------------------------------
(* What messages of the code say, and the interleavings do not keep. *)

\* "cannot cancel paid transaction" (CancelTransaction).
CannotCancelPaid ==
    [][\A t \in DOMAIN transactions :
          Paid(t) => transactions[t].status' # "cancelled"]_vars

\* "cart not active" (CreateTransaction): the cart of a new transaction is
\* active.
TransactionFromActiveCart ==
    [][\A t \in (DOMAIN transactions)' \ DOMAIN transactions :
          LET new == transactions'[t]
          IN  new.cart \in ActiveCarts(new.user)]_vars
=============================================================================
