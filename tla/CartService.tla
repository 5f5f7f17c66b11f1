---------------------------- MODULE CartService -----------------------------
(***************************************************************************)
(* The cart service statement by statement: BEGIN, SELECT .. FOR UPDATE,   *)
(* the edit of the products in memory, UPDATE or INSERT, COMMIT; and the   *)
(* statements that are a transaction of their own.  Postgres runs them at  *)
(* READ COMMITTED: a SELECT sees the rows committed before it began, waits *)
(* for those that are locked, and then looks at them again.                *)
(*                                                                         *)
(* The carts, the events and the constants are those of CartStore, which   *)
(* this module implements.                                                 *)
(***************************************************************************)
EXTENDS CartStore, FiniteSets

CONSTANT CWorkers     \* concurrent request handlers

VARIABLE cjob         \* worker -> its database transaction in progress

cartServiceVars == <<cartStoreVars, cjob>>

EditRequests ==
    [name : {"CreateCart"}, user : Users, lines : CartInputs]
    \cup [name : {"AddToCart", "UpdateProductQty"}, user : Users,
          id : Products, qty : Qtys]
    \cup [name : {"RemoveProductFromCart"}, user : Users, id : Products]
    \cup [name : {"CheckoutCart"}, user : Users]

CIdle(w) == cjob[w].phase = "idle"

Enter(w, job) == cjob' = [cjob EXCEPT ![w] = job]

\* The rows that SELECT .. FOR UPDATE locked for w, until COMMIT or ROLLBACK.
Locks(w) ==
    IF cjob[w].phase \in {"select", "edit"} THEN cjob[w].locked ELSE {}

LockedByOther(w, c) == \E v \in CWorkers \ {w} : c \in Locks(v)

Unlocked(c) == \A w \in CWorkers : c \notin Locks(w)

-----------------------------------------------------------------------------
(* The five requests that look up the active cart of their user. *)

\* BEGIN, and the snapshot of the SELECT: the rows it will come to.
Begin(w) ==
    /\ CIdle(w)
    /\ \E request \in EditRequests :
          Enter(w, [phase |-> "select", request |-> request, locked |-> {},
                    ahead |-> ActiveCarts(request.user)])
    /\ UNCHANGED cartVars

\* (variant) the SELECT has no FOR UPDATE: rows are found, none is locked
LockRow_NoLock(w) ==
    /\ cjob[w].phase = "select"
    /\ \E c \in cjob[w].ahead \cap ActiveCarts(cjob[w].request.user) :
          Enter(w, [phase |-> "edit", request |-> cjob[w].request, cart |-> c,
                    lines |-> carts[c].lines, locked |-> {}])
    /\ UNCHANGED cartVars

\* The scan comes to a row that no other transaction holds, locks it if it is
\* still active and skips it otherwise.  A user may have several active carts.
LockRow(w) ==
    /\ cjob[w].phase = "select"
    /\ \E c \in cjob[w].ahead :
          /\ ~LockedByOther(w, c)
          /\ Enter(w, [cjob[w] EXCEPT
                !.ahead = cjob[w].ahead \ {c},
                !.locked = IF c \in ActiveCarts(cjob[w].request.user)
                           THEN cjob[w].locked \cup {c} ELSE cjob[w].locked])
    /\ UNCHANGED cartVars

ScanDone(w) == cjob[w].phase = "select" /\ cjob[w].ahead = {}

\* QueryRow scans one of the rows.
SelectForUpdate(w) ==
    /\ ScanDone(w)
    /\ \E c \in cjob[w].locked :
          Enter(w, [phase |-> "edit", request |-> cjob[w].request, cart |-> c,
                    lines |-> carts[c].lines, locked |-> cjob[w].locked])
    /\ UNCHANGED cartVars

\* sql.ErrNoRows: on to an INSERT, or the reply "active cart not found".
SelectNothing(w) ==
    /\ ScanDone(w)
    /\ cjob[w].locked = {}
    /\ IF cjob[w].request.name \in {"CreateCart", "AddToCart"}
       THEN Enter(w, [phase |-> "insert", request |-> cjob[w].request])
       ELSE Enter(w, Idle)
    /\ UNCHANGED cartVars

\* Transactions that wait for each other's rows: Postgres notices, and one of
\* them gets an error and is rolled back.
Deadlocked(w) ==
    \E others \in SUBSET CWorkers :
        /\ w \in others
        /\ \A v \in others :
              /\ cjob[v].phase = "select" /\ cjob[v].ahead # {}
              /\ \A c \in cjob[v].ahead : \E u \in others \ {v} : c \in Locks(u)

DeadlockAbort(w) ==
    /\ Deadlocked(w)
    /\ Enter(w, Idle)
    /\ UNCHANGED cartVars

\* The products as edited in memory, from the lines that were read.
Edited(lines, request) ==
    CASE request.name = "CreateCart" -> MergeLines(lines, request.lines)
      [] request.name = "AddToCart" -> AddLine(lines, request.id, request.qty)
      [] request.name = "UpdateProductQty" -> SetQty(lines, request.id, request.qty)
      [] request.name = "RemoveProductFromCart" -> RemoveLines(lines, request.id)
      [] OTHER -> lines

\* UPDATE and COMMIT.
CommitEdit(w) ==
    /\ cjob[w].phase = "edit"
    /\ LET job == cjob[w]
       IN  /\ job.cart \in DOMAIN carts
           /\ IF job.request.name = "CheckoutCart"
              THEN SetStatus(job.cart, "paid")
              ELSE /\ job.request.name = "RemoveProductFromCart"
                          => InCart(job.lines, job.request.id)
                   /\ SetLines(job.cart, Edited(job.lines, job.request))
    /\ Enter(w, Idle)

\* (variant) the error is returned, the transaction stays open
RefuseRemove_NoRollback(w) ==
    /\ cjob[w].phase = "edit"
    /\ cjob[w].request.name = "RemoveProductFromCart"
    /\ ~InCart(cjob[w].lines, cjob[w].request.id)
    /\ UNCHANGED <<cjob, cartVars>>

\* "product not found in cart": the deferred Rollback.
RefuseRemove(w) ==
    /\ cjob[w].phase = "edit"
    /\ cjob[w].request.name = "RemoveProductFromCart"
    /\ ~InCart(cjob[w].lines, cjob[w].request.id)
    /\ Enter(w, Idle)
    /\ UNCHANGED cartVars

\* INSERT and COMMIT.
CommitInsert(w) ==
    /\ cjob[w].phase = "insert"
    /\ LET request == cjob[w].request
       IN  InsertCart(request.user, IF request.name = "CreateCart"
                                    THEN request.lines
                                    ELSE <<Line(request.id, request.qty)>>)
    /\ Enter(w, Idle)

-----------------------------------------------------------------------------
(* Requests of single statements. *)

\* The UPDATE of a PUT waits for the row.
PutRequest ==
    /\ \E c \in DOMAIN carts, lines \in CartInputs, st \in PutStatuses :
          Unlocked(c) /\ UpdateCart(c, lines, st)
    /\ UNCHANGED cjob

\* DeleteCart selects the owner, and then deletes by id.
SelectOwner(w) ==
    /\ CIdle(w)
    /\ \E u \in Users, c \in DOMAIN carts :
          carts[c].owner = u /\ Enter(w, [phase |-> "delete", cart |-> c])
    /\ UNCHANGED cartVars

DeleteRow(w) ==
    /\ cjob[w].phase = "delete"
    /\ Unlocked(cjob[w].cart)
    /\ IF cjob[w].cart \in DOMAIN carts
       THEN DeleteCart(cjob[w].cart, carts[cjob[w].cart].owner)
       ELSE UNCHANGED cartVars
    /\ Enter(w, Idle)

\* A statement fails or the context of the request expires: ROLLBACK.
RollbackJob(w) ==
    /\ "drop" \in Faults
    /\ ~CIdle(w)
    /\ Enter(w, Idle)
    /\ UNCHANGED cartVars

-----------------------------------------------------------------------------
(* The consumer: its UPDATE waits for a matching row that is locked. *)

ConsumeCartPaid ==
    /\ HasMessage(cartPaid)
    /\ LET event == Head(cartPaid.queue)
       IN  event.cart \in ActiveCarts(event.user) => Unlocked(event.cart)
    /\ HandleCartCheckedOut
    /\ UNCHANGED cjob

ConsumerFails == HandleCartCheckedOutFails /\ UNCHANGED cjob

\* A crash closes the connections: Postgres rolls the transactions back.
ProcessCrashes ==
    /\ CartServiceCrashes
    /\ cjob' = [w \in CWorkers |-> Idle]

ProcessSubscribes == CartServiceSubscribes /\ UNCHANGED cjob

EventArrives == CartPaidArrives /\ UNCHANGED cjob

-----------------------------------------------------------------------------

EditStep(w) ==
    \/ LockRow(w)
    \/ SelectForUpdate(w)
    \/ SelectNothing(w)
    \/ CommitEdit(w)
    \/ RefuseRemove(w)
    \/ CommitInsert(w)
    \/ DeleteRow(w)
    \/ DeadlockAbort(w)

HandlerStep(w) == Begin(w) \/ SelectOwner(w) \/ EditStep(w) \/ RollbackJob(w)

CartServiceInit ==
    /\ PlatformInit
    /\ CartInit
    /\ cjob = [w \in CWorkers |-> Idle]

CartServiceNext ==
    /\ \/ ((\E w \in CWorkers : HandlerStep(w)) \/ PutRequest) /\ UNCHANGED cartPaid
       \/ ConsumeCartPaid
       \/ ConsumerFails
       \/ ProcessCrashes
       \/ ProcessSubscribes
       \/ EventArrives
    /\ UNCHANGED <<paymentPaid, clock>>

CartServiceSpec == CartServiceInit /\ [][CartServiceNext]_cartServiceVars

\* Postgres grants a row lock in the order of the requests for it and breaks
\* deadlocks, and the statements of a handler all return.
CartServiceFairness ==
    \A w \in CWorkers :
        SF_cartServiceVars(EditStep(w) /\ UNCHANGED platformVars)

CartServiceFairSpec == CartServiceSpec /\ CartServiceFairness

-----------------------------------------------------------------------------

\* The lookups, locks and commits implement the one-step requests of CartStore:
\* no request overwrites what another committed between its SELECT and UPDATE.
ImplementsCartStore == CartStoreSpec

\* What a handler read under FOR UPDATE is what is stored until it commits:
\* the row is there, active, and has the lines the handler edits; and no other
\* handler is editing the cart.
LockedCopyIsCurrent ==
    \A w \in CWorkers : cjob[w].phase = "edit" =>
        LET c == cjob[w].cart
        IN  /\ c \in ActiveCarts(cjob[w].request.user)
            /\ carts[c].lines = cjob[w].lines
            /\ \A v \in CWorkers \ {w} :
                  ~(cjob[v].phase = "edit" /\ cjob[v].cart = c)

\* Every request finishes: a handler that waits for a row gets it, or is the
\* one a deadlock is broken by, because every handler that holds rows goes on
\* to COMMIT or ROLLBACK.  (An INSERT beyond MaxCarts is where the model ends.)
BeyondBound(w) == cjob[w].phase = "insert" /\ nextCart > MaxCarts

RequestsFinish ==
    \A w \in CWorkers :
        (cjob[w].phase # "idle") ~> (cjob[w].phase = "idle" \/ BeyondBound(w))

\* "Start tx to avoid concurrent writes": CreateCart and AddToCart look for the
\* active cart first, so that a user has one - unless two of them look at once.
OneActiveCart == \A u \in Users : Cardinality(ActiveCarts(u)) <= 1
=============================================================================
