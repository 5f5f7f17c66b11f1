--------------------------- MODULE PaymentService ---------------------------
(***************************************************************************)
(* The payment service: a payment is created for a pending transaction,    *)
(* paid, and announced on "payment.paid".  Each worker is a request        *)
(* handler in progress.  The cached list of payments is read by no step of *)
(* an order and is left out.                                               *)
(***************************************************************************)
EXTENDS Platform, FiniteSets

CONSTANTS
    PWorkers,         \* concurrent request handlers
    MaxPayments       \* bound: payments ever inserted

ASSUME PaymentAssumption == MaxPayments \in Nat

VARIABLES
    payments,         \* the table, by id: [tx, user, amount, status, paidAt]
    pjob              \* worker -> what its handler has in its local variables

paymentVars == <<payments, pjob>>

PaymentStatuses == {"pending", "paid"}

PIdle(w) == pjob[w].phase = "idle"

PaymentInit ==
    /\ payments = <<>>
    /\ pjob = [w \in PWorkers |-> Idle]

-----------------------------------------------------------------------------
(* CreatePayment. *)

Inserting == {w \in PWorkers : pjob[w].phase = "insert"}

\* The bound, applied before a handler starts so that none gets stuck on it.
RoomForPayment == Len(payments) + Cardinality(Inserting) < MaxPayments

\* The reply of transaction-service arrives and is checked.
CreatePayment(w, t, u, tx) ==
    /\ PIdle(w)
    /\ RoomForPayment
    /\ tx.status = "pending"
    /\ pjob' = [pjob EXCEPT ![w] = [phase |-> "insert", tx |-> t, user |-> u,
                                    amount |-> tx.total]]
    /\ UNCHANGED payments

InsertPayment(w) ==
    /\ pjob[w].phase = "insert"
    /\ payments' = Append(payments,
          [tx |-> pjob[w].tx, user |-> pjob[w].user, amount |-> pjob[w].amount,
           status |-> "pending", paidAt |-> Null])
    /\ pjob' = [pjob EXCEPT ![w] = Idle]

-----------------------------------------------------------------------------
(* PayPayment. *)

\* (variant) the event goes out, the UPDATE does not happen
PayPayment_NoUpdate(w, p, u) ==
    /\ PIdle(w)
    /\ p \in DOMAIN payments
    /\ payments[p].user = u
    /\ Tick
    /\ pjob' = [pjob EXCEPT ![w] =
          [phase |-> "publish", sends |-> 0,
           event |-> [payment |-> p, tx |-> payments[p].tx, paidAt |-> RFC3339(NOW)]]]
    /\ UNCHANGED payments

\* One UPDATE by id and user; a payment that is already paid is paid again.
PayPayment(w, p, u) ==
    /\ PIdle(w)
    /\ p \in DOMAIN payments
    /\ payments[p].user = u
    /\ Tick
    /\ payments' = [payments EXCEPT ![p].status = "paid", ![p].paidAt = NOW]
    /\ pjob' = [pjob EXCEPT ![w] =
          [phase |-> "publish", sends |-> 0,
           event |-> [payment |-> p, tx |-> payments[p].tx, paidAt |-> RFC3339(NOW)]]]

\* SendMessage returns nil, and so does the request.
PublishPaymentPaid(w) ==
    /\ pjob[w].phase = "publish"
    /\ paymentPaid' = Appended(paymentPaid, pjob[w].event)
    /\ pjob' = [pjob EXCEPT ![w] = Idle]
    /\ UNCHANGED payments

\* The broker appends the message, the ack is lost and sarama sends again.
ResendPaymentPaid(w) ==
    /\ "resend" \in Faults
    /\ pjob[w].phase = "publish"
    /\ pjob[w].sends + 1 < MaxSends
    /\ paymentPaid' = Appended(paymentPaid, pjob[w].event)
    /\ pjob' = [pjob EXCEPT ![w] = [phase |-> "publish", event |-> pjob[w].event,
                                    sends |-> pjob[w].sends + 1]]
    /\ UNCHANGED payments

-----------------------------------------------------------------------------

\* A handler gives up: a call or statement failed, or its context expired.
DropPaymentJob(w) ==
    /\ "drop" \in Faults
    /\ ~PIdle(w)
    /\ pjob' = [pjob EXCEPT ![w] = Idle]
    /\ UNCHANGED payments

PaymentServiceCrashes ==
    /\ "crash" \in Faults
    /\ pjob' = [w \in PWorkers |-> Idle]
    /\ UNCHANGED payments
=============================================================================
