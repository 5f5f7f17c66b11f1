------------------------------ MODULE Platform ------------------------------
(***************************************************************************)
(* What the services of the shop share: the users, the wall clock that     *)
(* Postgres' NOW() reads, and the two Kafka topics that drive an order,    *)
(* "cart.paid" and "payment.paid".                                         *)
(*                                                                         *)
(* A topic is seen from its one consumer.  Every consumer subscribes to    *)
(* partition 0 at sarama.OffsetNewest and stores no offset, so a message   *)
(* that is appended while the consumer is not subscribed never reaches it, *)
(* and the messages it had not handled when it crashed are lost.           *)
(***************************************************************************)
EXTENDS Integers, Sequences

CONSTANTS
    Users,            \* user ids
    Products,         \* product ids
    Faults,           \* which faults may happen, see FaultKinds
    MaxSends,         \* bound: copies of a message one publish may append
    TicksPerSecond,   \* resolution of the database clock
    MaxClock          \* bound: how often NOW() is read

FaultKinds ==
    {"drop",      \* a handler returns an error, or a send fails for good
     "resend",    \* the broker appends a message and the ack is lost
     "dberror",   \* a consumer's UPDATE fails, the message is logged and gone
     "crash"}     \* a service process dies and is started again

ASSUME PlatformAssumption ==
    /\ Faults \subseteq FaultKinds
    /\ MaxSends \in Nat
    /\ TicksPerSecond \in Nat \ {0}
    /\ MaxClock \in Nat

VARIABLES
    cartPaid,         \* topic "cart.paid", consumed by the cart service
    paymentPaid,      \* topic "payment.paid", consumed by the transaction service
    clock             \* the time at which the last NOW() was evaluated

platformVars == <<cartPaid, paymentPaid, clock>>

-----------------------------------------------------------------------------
\* The state of a request handler that is not running.
Idle == [phase |-> "idle"]

-----------------------------------------------------------------------------
(* Topics. *)

Unsubscribed == [up |-> FALSE, queue |-> <<>>]

Subscribed == [up |-> TRUE, queue |-> <<>>]

\* One copy of message m reaches the log of the topic.
Appended(topic, m) ==
    IF topic.up THEN [up |-> TRUE, queue |-> Append(topic.queue, m)] ELSE topic

HasMessage(topic) == topic.queue # <<>>

\* The consumer's handler returned for the oldest message.  No handler reports
\* an error to the loop that calls it: the message is gone in any case.
Consumed(topic) == [up |-> topic.up, queue |-> Tail(topic.queue)]

-----------------------------------------------------------------------------
(* Time. *)

Null == 0    \* a paid_at that was never set; the clock is always later

NOW == clock + 1

\* A statement that reads NOW() moves the clock.
Tick == /\ clock < MaxClock
        /\ clock' = NOW

\* time.Format(time.RFC3339) keeps whole seconds only.
RFC3339(t) == t - (t % TicksPerSecond)

PlatformInit ==
    /\ cartPaid = Subscribed
    /\ paymentPaid = Subscribed
    /\ clock = TicksPerSecond
=============================================================================
