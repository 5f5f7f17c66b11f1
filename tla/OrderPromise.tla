---------------------------- MODULE OrderPromise ----------------------------
(***************************************************************************)
(* What a customer may rely on once an order is placed, without a word of  *)
(* services, handlers or events: an order keeps its user and its amount;   *)
(* money for it comes from that user and is that amount; it is paid when   *)
(* money for it was received; and it is cancelled only if somebody asked   *)
(* for that while it was not paid.  (By the time the cancellation is done  *)
(* it may be paid: the check and the UPDATE of CancelTransaction are two   *)
(* statements.)                                                            *)
(***************************************************************************)
CONSTANT ByHand       \* whether an order may be declared paid, see MarkAsPaid

VARIABLES
    orders,           \* order -> [user, amount, status]
    received,         \* the money received: a set of [order, user, amount]
    cancelling        \* the orders that somebody asked to cancel

promiseVars == <<orders, received, cancelling>>

Init == orders = <<>> /\ received = {} /\ cancelling = {}

WithStatus(t, status) == [orders EXCEPT ![t].status = status]

Payable(t) == [order |-> t, user |-> orders[t].user, amount |-> orders[t].amount]

Place ==
    /\ \E t \in (DOMAIN orders)' \ DOMAIN orders :
          /\ orders'[t].status = "pending"
          /\ orders' = [s \in DOMAIN orders \cup {t} |->
                           IF s = t THEN orders'[t] ELSE orders[s]]
    /\ UNCHANGED <<received, cancelling>>

Receive(t) ==
    /\ received' = received \cup {Payable(t)}
    /\ UNCHANGED <<orders, cancelling>>

Settle(t) ==
    /\ Payable(t) \in received \/ ByHand
    /\ orders' = WithStatus(t, "paid")
    /\ UNCHANGED <<received, cancelling>>

AskToCancel(t) ==
    /\ orders[t].status # "paid"
    /\ cancelling' = cancelling \cup {t}
    /\ UNCHANGED <<orders, received>>

\* Somebody else may be cancelling it, too.
Cancel(t) ==
    /\ t \in cancelling
    /\ orders' = WithStatus(t, "cancelled")
    /\ cancelling' \in {cancelling, cancelling \ {t}}
    /\ UNCHANGED received

\* A cancellation that was asked for need not happen.
GiveUp ==
    /\ cancelling' \subseteq cancelling
    /\ UNCHANGED <<orders, received>>

Next ==
    \/ Place
    \/ \E t \in DOMAIN orders : Receive(t) \/ Settle(t) \/ AskToCancel(t) \/ Cancel(t)
    \/ GiveUp

Spec == Init /\ [][Next]_promiseVars
=============================================================================
