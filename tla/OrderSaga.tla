----------------------------- MODULE OrderSaga ------------------------------
(***************************************************************************)
(* The life of an order across three services.                             *)
(*                                                                         *)
(*   cart-service          transaction-service          payment-service    *)
(*        <---- GetCart ---- CreateTransaction                             *)
(*        <-- "cart.paid" -- (after the INSERT)                            *)
(*                                 <---- GetTransaction ---- CreatePayment *)
(*                                 <---- "payment.paid" ---- PayPayment    *)
(*                                                                         *)
(* There is no transaction across the services and no outbox: an order is  *)
(* carried on by two events, each sent after the commit it announces.      *)
(***************************************************************************)
EXTENDS CartStore, TransactionService, PaymentService

vars == <<cartVars, transactionVars, paymentVars, platformVars>>

Init ==
    /\ PlatformInit
    /\ CartInit
    /\ TransactionInit
    /\ PaymentInit

-----------------------------------------------------------------------------
(* The transaction service. *)

CallGetCart(w) ==
    /\ \E u \in Users, c \in DOMAIN carts : \E cart \in GetCart(c, u) :
          CreateTransaction(w, u, c, cart)
    /\ UNCHANGED platformVars

CallGetProduct(w) ==
    (\E price \in Prices : GetProduct(w, price)) /\ UNCHANGED platformVars

StoreTransaction(w) == InsertTransaction(w) /\ UNCHANGED platformVars

AnnounceTransaction(w) ==
    /\ PublishCartCheckedOut(w) \/ ResendCartCheckedOut(w)
    /\ UNCHANGED <<paymentPaid, clock>>

StartCancel(w) ==
    /\ \E u \in Users, t \in DOMAIN transactions : CancelTransaction(w, t, u)
    /\ UNCHANGED platformVars

FinishCancel(w) == CancelUpdate(w) /\ UNCHANGED platformVars

LoseTransactionJob(w) == DropTransactionJob(w) /\ UNCHANGED platformVars

TransactionWorker(w) ==
    \/ CallGetCart(w)
    \/ CallGetProduct(w)
    \/ StoreTransaction(w)
    \/ AnnounceTransaction(w)
    \/ StartCancel(w)
    \/ FinishCancel(w)
    \/ LoseTransactionJob(w)

CallMarkAsPaid ==
    /\ \E t \in DOMAIN transactions : MarkAsPaid(t)
    /\ UNCHANGED <<cartPaid, paymentPaid>>

TransactionStep ==
    /\ \/ \E w \in TWorkers : TransactionWorker(w)
       \/ CallMarkAsPaid
       \/ TransactionConsumer /\ UNCHANGED <<cartPaid, clock>>
    /\ UNCHANGED <<cartVars, paymentVars>>

-----------------------------------------------------------------------------
(* The payment service. *)

CallGetTransaction(w) ==
    /\ \E u \in Users, t \in DOMAIN transactions : \E tx \in GetTransaction(t, u) :
          CreatePayment(w, t, u, tx)
    /\ UNCHANGED platformVars

StorePayment(w) == InsertPayment(w) /\ UNCHANGED platformVars

CallPayPayment(w) ==
    /\ \E u \in Users, p \in DOMAIN payments : PayPayment(w, p, u)
    /\ UNCHANGED <<cartPaid, paymentPaid>>

AnnouncePayment(w) ==
    /\ PublishPaymentPaid(w) \/ ResendPaymentPaid(w)
    /\ UNCHANGED <<cartPaid, clock>>

LosePaymentJob(w) == DropPaymentJob(w) /\ UNCHANGED platformVars

PaymentWorker(w) ==
    \/ CallGetTransaction(w)
    \/ StorePayment(w)
    \/ CallPayPayment(w)
    \/ AnnouncePayment(w)
    \/ LosePaymentJob(w)

PaymentStep ==
    /\ \/ \E w \in PWorkers : PaymentWorker(w)
       \/ PaymentServiceCrashes /\ UNCHANGED platformVars
    /\ UNCHANGED <<cartVars, transactionVars>>

-----------------------------------------------------------------------------
(* The cart service. *)

CartStep ==
    /\ CartNext
    /\ UNCHANGED <<paymentPaid, clock, transactionVars, paymentVars>>

Next == CartStep \/ TransactionStep \/ PaymentStep

Spec == Init /\ [][Next]_vars

-----------------------------------------------------------------------------
(* Fairness: a handler that started runs to its end, because each of its    *)
(* calls and statements returns, by a reply or a timeout; the loop of a     *)
(* consumer goroutine takes the next message when a handler returns.        *)
(* Nobody is obliged to send a request.                                     *)

TransactionWorkerRuns(w) ==
    /\ CallGetProduct(w) \/ StoreTransaction(w) \/ FinishCancel(w)
       \/ (PublishCartCheckedOut(w) /\ UNCHANGED <<paymentPaid, clock>>)
    /\ UNCHANGED <<cartVars, paymentVars>>

PaymentWorkerRuns(w) ==
    /\ StorePayment(w)
       \/ (PublishPaymentPaid(w) /\ UNCHANGED <<cartPaid, clock>>)
    /\ UNCHANGED <<cartVars, transactionVars>>

CartConsumerRuns ==
    /\ HandleCartCheckedOut
    /\ UNCHANGED <<paymentPaid, clock, transactionVars, paymentVars>>

TransactionConsumerRuns ==
    /\ PaymentPaidHandler
    /\ UNCHANGED <<cartPaid, clock, cartVars, paymentVars>>

Fairness ==
    /\ \A w \in TWorkers : WF_vars(TransactionWorkerRuns(w))
    /\ \A w \in PWorkers : WF_vars(PaymentWorkerRuns(w))
    /\ WF_vars(CartConsumerRuns)
    /\ WF_vars(TransactionConsumerRuns)

FairSpec == Spec /\ Fairness
=============================================================================
