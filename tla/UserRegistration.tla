-------------------------- MODULE UserRegistration --------------------------
(***************************************************************************)
(* A user registers with auth-service, which keeps the account and sends   *)
(* "user.created"; user-service keeps a copy of the account, under the     *)
(* same id, from that event alone.  Tokens name a user by the id of        *)
(* auth-service, and user-service looks it up in its copy.                 *)
(*                                                                         *)
(* A user is an id and an email here; nothing changes or deletes one.      *)
(***************************************************************************)
EXTENDS Integers, Sequences, FiniteSets, Functions

CONSTANTS
    Emails,           \* the emails people register with
    AccountFaults,    \* what may be out of order for some time, and whether
                      \* a message may be sent twice: see AccountFaultKinds
    MaxAccounts,      \* bound: INSERTs into the accounts
    MaxUserEvents     \* bound: messages of "user.created"

AccountFaultKinds ==
    {"auth",      \* the process of auth-service
     "kafka",     \* the broker, as the producer of auth-service sees it
     "users",     \* the process of user-service
     "userdb",    \* the database of user-service
     "resend"}    \* the broker appends a message and the ack is lost

ASSUME AccountAssumption ==
    /\ AccountFaults \subseteq AccountFaultKinds
    /\ MaxAccounts \in Nat
    /\ MaxUserEvents \in Nat

VARIABLES
    accounts,         \* table users of auth-service: id -> email
    nextAccount,      \* its next serial
    announcing,       \* the accounts whose event a goroutine is about to send
    userLog,          \* the log of "user.created"
    users,            \* table users of user-service: id -> email
    handled,          \* position of user-service's consumer in the log
    down              \* what is out of order

accountVars == <<accounts, nextAccount, announcing, userLog, users, handled, down>>

Outages == AccountFaultKinds \ {"resend"}

\* The data of an event.
UserCreated(a) == [id |-> a, doc |-> accounts[a]]

RegistrationInit ==
    /\ accounts = <<>>
    /\ nextAccount = 1
    /\ announcing = {}
    /\ userLog = <<>>
    /\ users = <<>>
    /\ handled = 0
    /\ down = {}

-----------------------------------------------------------------------------
(* auth-service. *)

Taken(email) == email \in Range(accounts)

RoomForEvents == Len(userLog) + Cardinality(announcing) < MaxUserEvents

\* (variant) email is not a unique index
Register_AnyEmail(email) ==
    /\ "auth" \notin down
    /\ nextAccount <= MaxAccounts /\ RoomForEvents
    /\ accounts' = [a \in DOMAIN accounts \cup {nextAccount} |->
                      IF a = nextAccount THEN email ELSE accounts[a]]
    /\ nextAccount' = nextAccount + 1
    /\ announcing' = announcing \cup {nextAccount}
    /\ UNCHANGED <<userLog, users, handled, down>>

\* The INSERT; the controller starts the goroutine that sends the event, and
\* does not wait for it.
Register(email) ==
    /\ "auth" \notin down
    /\ nextAccount <= MaxAccounts /\ RoomForEvents
    /\ ~Taken(email)
    /\ accounts' = [a \in DOMAIN accounts \cup {nextAccount} |->
                      IF a = nextAccount THEN email ELSE accounts[a]]
    /\ nextAccount' = nextAccount + 1
    /\ announcing' = announcing \cup {nextAccount}
    /\ UNCHANGED <<userLog, users, handled, down>>

\* The unique index refuses the row, whose id is used up all the same.
RegisterRefused(email) ==
    /\ "auth" \notin down
    /\ nextAccount <= MaxAccounts
    /\ Taken(email)
    /\ nextAccount' = nextAccount + 1
    /\ UNCHANGED <<accounts, announcing, userLog, users, handled, down>>

\* SendMessage; when the producer gives up, the error is logged.
PublishUserCreatedEvent(a) ==
    /\ a \in announcing
    /\ announcing' = announcing \ {a}
    /\ userLog' = IF "kafka" \in down THEN userLog ELSE Append(userLog, UserCreated(a))
    /\ UNCHANGED <<accounts, nextAccount, users, handled, down>>

\* The broker has the message, the producer does not know and sends again.
ResendUserCreatedEvent(a) ==
    /\ "resend" \in AccountFaults /\ "kafka" \notin down
    /\ a \in announcing
    /\ RoomForEvents
    /\ userLog' = Append(userLog, UserCreated(a))
    /\ UNCHANGED <<accounts, nextAccount, announcing, users, handled, down>>

-----------------------------------------------------------------------------
(* user-service. *)

\* (variant) the row gets an id of user-service's own serial
Stored_OwnSerial(message) ==
    IF message.doc \in Range(users) THEN users
    ELSE Append(users, message.doc)

\* The row with the id of the event, unless its email is known; an id that is
\* taken would make the INSERT fail.
Stored(message) ==
    IF message.doc \in Range(users) \/ message.id \in DOMAIN users THEN users
    ELSE [a \in DOMAIN users \cup {message.id} |->
             IF a = message.id THEN message.doc ELSE users[a]]

\* One turn of the loop of Consume.  Without the database the SELECT fails,
\* which is taken for a new email, and then the INSERT, which is only logged.
HandleUserCreated ==
    /\ "users" \notin down
    /\ handled < Len(userLog)
    /\ users' = IF "userdb" \in down THEN users ELSE Stored(userLog[handled + 1])
    /\ handled' = handled + 1
    /\ UNCHANGED <<accounts, nextAccount, announcing, userLog, down>>

-----------------------------------------------------------------------------
(* What comes and goes. *)

\* A process that dies takes its goroutines with it.
GoesDown(part) ==
    /\ part \in AccountFaults \cap Outages /\ part \notin down
    /\ down' = down \cup {part}
    /\ announcing' = IF part = "auth" THEN {} ELSE announcing
    /\ UNCHANGED <<accounts, nextAccount, userLog, users, handled>>

\* user-service starts to read at OffsetNewest.
ComesUp(part) ==
    /\ part \in down
    /\ down' = down \ {part}
    /\ handled' = IF part = "users" THEN Len(userLog) ELSE handled
    /\ UNCHANGED <<accounts, nextAccount, announcing, userLog, users>>

RegistrationNext ==
    \/ \E email \in Emails : Register(email) \/ RegisterRefused(email)
    \/ \E a \in announcing : PublishUserCreatedEvent(a) \/ ResendUserCreatedEvent(a)
    \/ HandleUserCreated
    \/ \E part \in Outages : GoesDown(part) \/ ComesUp(part)
=============================================================================
