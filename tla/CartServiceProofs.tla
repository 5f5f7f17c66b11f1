------------------------- MODULE CartServiceProofs --------------------------
(***************************************************************************)
(* What SELECT .. FOR UPDATE is good for.  The rows that a handler locked  *)
(* stay as they are until it commits: no other handler locks them, and     *)
(* whoever writes without a lookup waits.  It follows that the handlers'   *)
(* copies are current, and that each COMMIT is one step of CartStore.      *)
(***************************************************************************)
EXTENDS CartService, TLAPS

CartsOK ==
    /\ nextCart \in Nat
    /\ \A c \in DOMAIN carts : c \in Nat /\ c < nextCart /\ carts[c].owner \in Users

\* Only CreateCart and AddToCart go on to an INSERT.
InsertRequests == {r \in EditRequests : r.name \in {"CreateCart", "AddToCart"}}

CartJobOK(job) ==
    \/ job = Idle
    \/ job \in [phase : {"select"}, request : EditRequests,
                locked : SUBSET Nat, ahead : SUBSET Nat]
    \/ /\ DOMAIN job = {"phase", "request", "cart", "lines", "locked"}
       /\ job.phase = "edit" /\ job.request \in EditRequests
    \/ job \in [phase : {"insert"}, request : InsertRequests]
    \/ job \in [phase : {"delete"}, cart : Nat]

JobLocks(job) == IF job.phase \in {"select", "edit"} THEN job.locked ELSE {}

\* What a handler relies on: the rows it locked are active carts of its user, and
\* what it read is what is stored.
JobHolds(job) ==
    /\ CartJobOK(job)
    /\ JobLocks(job) \subseteq ActiveCarts(job.request.user)
    /\ job.phase = "edit" => job.cart \in job.locked /\ carts[job.cart].lines = job.lines

LocksExclude ==
    \A v, w \in CWorkers : v # w => JobLocks(cjob[v]) \cap JobLocks(cjob[w]) = {}

LocksInv ==
    /\ CartsOK
    /\ cjob = [w \in CWorkers |-> cjob[w]]
    /\ \A w \in CWorkers : JobHolds(cjob[w])
    /\ LocksExclude

\* The row of c is not touched by the step.
RowStays(c) == c \in DOMAIN carts' /\ carts'[c] = carts[c]

\* The rows that other handlers than w locked.
OthersRows(w) == UNION {JobLocks(cjob[v]) : v \in CWorkers \ {w}}

-----------------------------------------------------------------------------

\* What a request names is what its kind of request has.
LEMMA RequestFields ==
    ASSUME NEW r \in EditRequests
    PROVE  /\ r.user \in Users
           /\ r.name \in {"CreateCart", "AddToCart", "UpdateProductQty",
                          "RemoveProductFromCart", "CheckoutCart"}
           /\ r.name = "CreateCart" => r.lines \in CartInputs
           /\ r.name \in {"AddToCart", "UpdateProductQty"} => r.id \in Products /\ r.qty \in Qtys
           /\ r.name = "RemoveProductFromCart" => r.id \in Products
BY DEF EditRequests

\* A handler whose rows stay keeps what it relies on.
LEMMA HoldsKept ==
    ASSUME NEW job, JobHolds(job), \A c \in JobLocks(job) : RowStays(c)
    PROVE  JobHolds(job)'
BY DEF JobHolds, RowStays, ActiveCarts, JobLocks

\* A step of one handler keeps the invariant if its new local variables hold, its
\* rows are nobody else's, and it touches no row that another handler locked.
LEMMA JobStep ==
    ASSUME LocksInv, CartsOK', NEW w \in CWorkers, NEW job, Enter(w, job),
           JobHolds(job)', JobLocks(job) \cap OthersRows(w) = {},
           \A c \in OthersRows(w) : RowStays(c)
    PROVE  LocksInv'
<1>1. cjob' = [v \in CWorkers |-> IF v = w THEN job ELSE cjob[v]]
  BY DEF LocksInv, Enter
<1>2. ASSUME NEW v \in CWorkers PROVE JobHolds(cjob[v])'
  <2>1. CASE v = w
    BY <1>1, <2>1 DEF JobHolds, JobLocks, ActiveCarts, CartJobOK
  <2>2. CASE v # w
    <3>1. JobHolds(cjob[v]) /\ \A c \in JobLocks(cjob[v]) : RowStays(c)
      BY <2>2 DEF LocksInv, OthersRows
    <3>2. cjob'[v] = cjob[v]
      BY <1>1, <2>2
    <3> QED
      BY <3>1, <3>2 DEF JobHolds, RowStays, ActiveCarts, JobLocks
  <2> QED
    BY <2>1, <2>2
<1>3. LocksExclude'
  BY <1>1 DEF LocksInv, LocksExclude, OthersRows, JobLocks
<1> QED
  BY <1>1, <1>2, <1>3 DEF LocksInv

\* A handler that ends holds nothing.
LEMMA IdleHolds == JobHolds(Idle)' /\ JobLocks(Idle) = {}
BY DEF JobHolds, CartJobOK, JobLocks, Idle

\* The statements that write keep the types of the table, and touch one row.
LEMMA StatementsKeep ==
    ASSUME CartsOK
    PROVE  /\ UNCHANGED cartVars => CartsOK' /\ \A c \in DOMAIN carts : RowStays(c)
           /\ \A c \in DOMAIN carts : \A lines, st : PutCart(c, lines, st) =>
                 CartsOK' /\ \A d \in DOMAIN carts \ {c} : RowStays(d)
           /\ \A u \in Users : \A lines : InsertCart(u, lines) =>
                 CartsOK' /\ \A d \in DOMAIN carts : RowStays(d)
           /\ \A c, u : DeleteCart(c, u) =>
                 CartsOK' /\ \A d \in DOMAIN carts \ {c} : RowStays(d)
<1> USE DEF CartsOK, RowStays
<1>1. UNCHANGED cartVars => CartsOK' /\ \A c \in DOMAIN carts : RowStays(c)
  BY DEF cartVars
<1>2. ASSUME NEW c \in DOMAIN carts, NEW lines, NEW st, PutCart(c, lines, st)
      PROVE  CartsOK' /\ \A d \in DOMAIN carts \ {c} : RowStays(d)
  BY <1>2 DEF PutCart, CartRow
<1>3. ASSUME NEW u \in Users, NEW lines, InsertCart(u, lines)
      PROVE  CartsOK' /\ \A d \in DOMAIN carts : RowStays(d)
  BY <1>3 DEF InsertCart, CartRow
<1>4. ASSUME NEW c, NEW u, DeleteCart(c, u)
      PROVE  CartsOK' /\ \A d \in DOMAIN carts \ {c} : RowStays(d)
  BY <1>4 DEF DeleteCart
<1> QED
  BY <1>1, <1>2, <1>3, <1>4

\* Locked rows are rows of the table, and those that w locked are no other's.
LEMMA LockedRows ==
    ASSUME LocksInv, NEW w \in CWorkers
    PROVE  /\ OthersRows(w) \subseteq DOMAIN carts
           /\ JobLocks(cjob[w]) \subseteq DOMAIN carts
           /\ JobLocks(cjob[w]) \cap OthersRows(w) = {}
           /\ JobHolds(cjob[w])
<1>1. \A v \in CWorkers : JobLocks(cjob[v]) \subseteq DOMAIN carts
  BY DEF LocksInv, JobHolds, ActiveCarts
<1> QED
  BY <1>1 DEF LocksInv, LocksExclude, OthersRows

\* A row that no handler holds belongs to none of them.
LEMMA UnlockedRows ==
    ASSUME NEW c, Unlocked(c), NEW v \in CWorkers
    PROVE  c \notin JobLocks(cjob[v])
BY DEF Unlocked, Locks, JobLocks

-----------------------------------------------------------------------------
(* The handlers. *)

\* A handler that changes only its local variables, and locks nothing new.
LEMMA QuietStep ==
    ASSUME LocksInv, UNCHANGED cartVars, NEW w \in CWorkers, NEW job, Enter(w, job),
           JobHolds(job), JobLocks(job) \subseteq JobLocks(cjob[w])
    PROVE  LocksInv'
<1>1. CartsOK' /\ \A c \in DOMAIN carts : RowStays(c)
  BY StatementsKeep DEF LocksInv
<1>2. JobHolds(job)'
  BY <1>1, LockedRows, HoldsKept
<1> QED
  BY <1>1, <1>2, LockedRows, JobStep

\* Begin, the scan and its end.
LEMMA LookupKeeps ==
    ASSUME LocksInv, NEW w \in CWorkers,
           Begin(w) \/ LockRow(w) \/ SelectForUpdate(w) \/ SelectNothing(w)
    PROVE  LocksInv'
<1>0. JobHolds(cjob[w]) /\ JobHolds(Idle) /\ JobLocks(Idle) = {}
      /\ \A u : ActiveCarts(u) \subseteq Nat
  BY LockedRows DEF JobHolds, CartJobOK, JobLocks, Idle, ActiveCarts, LocksInv, CartsOK
<1>1. CASE Begin(w)
  <2> PICK r \in EditRequests :
           Enter(w, [phase |-> "select", request |-> r, locked |-> {},
                     ahead |-> ActiveCarts(r.user)])
    BY <1>1 DEF Begin
  <2> DEFINE job == [phase |-> "select", request |-> r, locked |-> {},
                     ahead |-> ActiveCarts(r.user)]
  <2>1. JobHolds(job) /\ JobLocks(job) = {}
    BY <1>0 DEF JobHolds, CartJobOK, JobLocks
  <2> QED
    BY <1>1, <2>1, QuietStep DEF Begin
<1>2. CASE LockRow(w)
  <2>0. /\ cjob[w] \in [phase : {"select"}, request : EditRequests,
                        locked : SUBSET Nat, ahead : SUBSET Nat]
        /\ cjob[w].locked \subseteq ActiveCarts(cjob[w].request.user)
    BY <1>0, <1>2 DEF LockRow, JobHolds, CartJobOK, JobLocks, Idle
  <2> PICK c \in cjob[w].ahead :
           /\ ~LockedByOther(w, c)
           /\ Enter(w, [cjob[w] EXCEPT
                 !.ahead = cjob[w].ahead \ {c},
                 !.locked = IF c \in ActiveCarts(cjob[w].request.user)
                            THEN cjob[w].locked \cup {c} ELSE cjob[w].locked])
    BY <1>2 DEF LockRow
  <2> DEFINE now == IF c \in ActiveCarts(cjob[w].request.user)
                    THEN cjob[w].locked \cup {c} ELSE cjob[w].locked
  <2> PICK job : job = [cjob[w] EXCEPT !.ahead = cjob[w].ahead \ {c}, !.locked = now]
    OBVIOUS
  <2>1. /\ job.phase = "select" /\ job.request = cjob[w].request /\ job.locked = now
        /\ CartJobOK(job)
    BY <2>0, <1>0 DEF CartJobOK
  <2>2. JobHolds(job) /\ JobLocks(job) = now
    BY <2>0, <2>1 DEF JobHolds, JobLocks
  <2>3. c \notin OthersRows(w) /\ JobLocks(cjob[w]) = cjob[w].locked
    BY <2>0 DEF LockedByOther, Locks, OthersRows, JobLocks
  <2>4. CartsOK' /\ \A d \in DOMAIN carts : RowStays(d)
    BY <1>2, StatementsKeep DEF LocksInv, LockRow
  <2>5. Enter(w, job)
    OBVIOUS
  <2>6. JobLocks(job) \cap OthersRows(w) = {}
    BY <2>2, <2>3, LockedRows
  <2>7. JobLocks(job) \subseteq DOMAIN carts
    BY <2>2 DEF JobHolds, ActiveCarts
  <2>8. JobHolds(job)'
    BY <2>2, <2>4, <2>7, HoldsKept
  <2>9. \A d \in OthersRows(w) : RowStays(d)
    BY <2>4, LockedRows
  <2> QED
    BY <2>4, <2>5, <2>6, <2>8, <2>9, JobStep
<1>3. CASE SelectForUpdate(w)
  <2>0. /\ cjob[w] \in [phase : {"select"}, request : EditRequests,
                        locked : SUBSET Nat, ahead : SUBSET Nat]
        /\ cjob[w].locked \subseteq ActiveCarts(cjob[w].request.user)
    BY <1>0, <1>3 DEF SelectForUpdate, ScanDone, JobHolds, CartJobOK, JobLocks, Idle
  <2> PICK c \in cjob[w].locked :
           Enter(w, [phase |-> "edit", request |-> cjob[w].request, cart |-> c,
                     lines |-> carts[c].lines, locked |-> cjob[w].locked])
    BY <1>3 DEF SelectForUpdate
  <2> DEFINE job == [phase |-> "edit", request |-> cjob[w].request, cart |-> c,
                     lines |-> carts[c].lines, locked |-> cjob[w].locked]
  <2>1. JobHolds(job) /\ JobLocks(job) = JobLocks(cjob[w])
    BY <2>0 DEF JobHolds, CartJobOK, JobLocks
  <2> QED
    BY <1>3, <2>1, QuietStep DEF SelectForUpdate
<1>4. CASE SelectNothing(w)
  <2>0. cjob[w].request \in EditRequests
    BY <1>0, <1>4 DEF SelectNothing, ScanDone, JobHolds, CartJobOK, Idle
  <2> DEFINE job == [phase |-> "insert", request |-> cjob[w].request]
  <2>1. Enter(w, Idle) \/ (Enter(w, job) /\ cjob[w].request \in InsertRequests)
    BY <1>4, <2>0 DEF SelectNothing, InsertRequests
  <2>2. cjob[w].request \in InsertRequests => JobHolds(job) /\ JobLocks(job) = {}
    BY DEF JobHolds, CartJobOK, JobLocks
  <2> QED
    BY <1>0, <1>4, <2>1, <2>2, QuietStep DEF SelectNothing
<1> QED
  BY <1>1, <1>2, <1>3, <1>4

\* A handler that ends, whatever it did to rows that are no other handler's.
LEMMA LastStep ==
    ASSUME LocksInv, CartsOK', NEW w \in CWorkers, Enter(w, Idle),
           \A c \in OthersRows(w) : RowStays(c)
    PROVE  LocksInv'
<1> JobHolds(Idle)' /\ JobLocks(Idle) = {}
  BY IdleHolds
<1> PICK job : job = Idle
  OBVIOUS
<1>1. JobHolds(job)' /\ JobLocks(job) = {} /\ Enter(w, job)
  BY DEF Idle
<1> QED
  BY <1>1, JobStep

\* COMMIT of an edit: the row is one that the handler locked.
LEMMA CommitEditKeeps ==
    ASSUME LocksInv, NEW w \in CWorkers, CommitEdit(w)
    PROVE  LocksInv'
<1>1. cjob[w].cart \in JobLocks(cjob[w])
  BY LockedRows DEF CommitEdit, JobHolds, JobLocks
<1>2. PICK lines, st : PutCart(cjob[w].cart, lines, st)
  BY DEF CommitEdit, SetStatus, SetLines
<1>3. CartsOK' /\ \A d \in DOMAIN carts \ {cjob[w].cart} : RowStays(d)
  BY <1>1, <1>2, LockedRows, StatementsKeep DEF LocksInv
<1>4. \A d \in OthersRows(w) : RowStays(d)
  BY <1>1, <1>3, LockedRows
<1> QED
  BY <1>3, <1>4, LastStep DEF CommitEdit

\* COMMIT of an insert: the row is new.
LEMMA CommitInsertKeeps ==
    ASSUME LocksInv, NEW w \in CWorkers, CommitInsert(w)
    PROVE  LocksInv'
<1>1. cjob[w].request.user \in Users
  BY LockedRows, RequestFields
  DEF CommitInsert, JobHolds, CartJobOK, Idle, InsertRequests
<1>2. PICK lines : InsertCart(cjob[w].request.user, lines)
  BY DEF CommitInsert
<1>3. CartsOK' /\ \A d \in DOMAIN carts : RowStays(d)
  BY <1>1, <1>2, StatementsKeep DEF LocksInv
<1> QED
  BY <1>3, LockedRows, LastStep DEF CommitInsert

\* DELETE by id: the statement waited until nobody held the row.
LEMMA DeleteRowKeeps ==
    ASSUME LocksInv, NEW w \in CWorkers, DeleteRow(w)
    PROVE  LocksInv'
<1>1. cjob[w].cart \notin OthersRows(w)
  BY UnlockedRows DEF DeleteRow, OthersRows
<1>2. CartsOK' /\ \A d \in DOMAIN carts \ {cjob[w].cart} : RowStays(d)
  BY StatementsKeep DEF DeleteRow, LocksInv
<1> QED
  BY <1>1, <1>2, LockedRows, LastStep DEF DeleteRow

\* SelectOwner, and the ways in which a handler ends without a COMMIT.
LEMMA QuietKeeps ==
    ASSUME LocksInv, NEW w \in CWorkers,
           SelectOwner(w) \/ RefuseRemove(w) \/ DeadlockAbort(w) \/ RollbackJob(w)
    PROVE  LocksInv'
<1>1. CASE SelectOwner(w)
  <2> PICK c \in DOMAIN carts : Enter(w, [phase |-> "delete", cart |-> c])
    BY <1>1 DEF SelectOwner
  <2> DEFINE job == [phase |-> "delete", cart |-> c]
  <2>1. JobHolds(job) /\ JobLocks(job) = {}
    BY DEF JobHolds, CartJobOK, JobLocks, LocksInv, CartsOK
  <2> QED
    BY <1>1, <2>1, QuietStep DEF SelectOwner
<1>2. ASSUME Enter(w, Idle), UNCHANGED cartVars
      PROVE  LocksInv'
  BY <1>2, StatementsKeep, LockedRows, LastStep DEF LocksInv
<1> QED
  BY <1>1, <1>2 DEF RefuseRemove, DeadlockAbort, RollbackJob

LEMMA HandlersKeep ==
    ASSUME LocksInv, NEW w \in CWorkers, HandlerStep(w)
    PROVE  LocksInv'
BY LookupKeeps, CommitEditKeeps, CommitInsertKeeps, DeleteRowKeeps, QuietKeeps
DEF HandlerStep, EditStep

-----------------------------------------------------------------------------
(* Whoever writes without a lookup. *)

\* A step of nobody's handler keeps the invariant if it touches no locked row.
LEMMA TableStep ==
    ASSUME LocksInv, CartsOK', UNCHANGED cjob,
           \A v \in CWorkers : \A c \in JobLocks(cjob[v]) : RowStays(c)
    PROVE  LocksInv'
<1>1. ASSUME NEW v \in CWorkers PROVE JobHolds(cjob[v])'
  <2> PICK job : job = cjob[v]
    OBVIOUS
  <2>1. JobHolds(job) /\ \A c \in JobLocks(job) : RowStays(c)
    BY DEF LocksInv
  <2>2. JobHolds(job)'
    BY <2>1, HoldsKept
  <2> QED
    BY <2>2 DEF JobHolds, CartJobOK, JobLocks, ActiveCarts
<1> QED
  BY <1>1 DEF LocksInv, LocksExclude, JobLocks

\* A statement on one row that nobody holds.
LEMMA UnlockedStep ==
    ASSUME LocksInv, UNCHANGED cjob, NEW c \in DOMAIN carts, Unlocked(c),
           NEW lines, NEW st, PutCart(c, lines, st)
    PROVE  LocksInv'
<1>1. CartsOK' /\ \A d \in DOMAIN carts \ {c} : RowStays(d)
  BY StatementsKeep DEF LocksInv
<1>2. \A v \in CWorkers : JobLocks(cjob[v]) \subseteq DOMAIN carts \ {c}
  BY LockedRows, UnlockedRows
<1> QED
  BY <1>1, <1>2, TableStep

LEMMA UntouchedStep ==
    ASSUME LocksInv, UNCHANGED cjob, UNCHANGED cartVars
    PROVE  LocksInv'
BY StatementsKeep, LockedRows, TableStep DEF LocksInv

LEMMA OthersKeep ==
    ASSUME LocksInv,
           PutRequest \/ ConsumeCartPaid \/ ConsumerFails \/ ProcessSubscribes \/ EventArrives
    PROVE  LocksInv'
<1>1. CASE PutRequest
  BY <1>1, UnlockedStep DEF PutRequest, UpdateCart
<1>2. CASE ConsumeCartPaid
  <2> DEFINE event == Head(cartPaid.queue)
  <2>1. CASE event.cart \in ActiveCarts(event.user)
    <3>1. Unlocked(event.cart) /\ SetStatus(event.cart, "paid") /\ event.cart \in DOMAIN carts
      BY <1>2, <2>1 DEF ConsumeCartPaid, HandleCartCheckedOut, ActiveCarts
    <3> QED
      BY <1>2, <3>1, UnlockedStep DEF SetStatus, ConsumeCartPaid
  <2>2. CASE event.cart \notin ActiveCarts(event.user)
    BY <1>2, <2>2, UntouchedStep DEF ConsumeCartPaid, HandleCartCheckedOut
  <2> QED
    BY <2>1, <2>2
<1>3. CASE ConsumerFails \/ ProcessSubscribes \/ EventArrives
  BY <1>3, UntouchedStep
  DEF ConsumerFails, HandleCartCheckedOutFails, ProcessSubscribes, CartServiceSubscribes,
      EventArrives, CartPaidArrives
<1> QED
  BY <1>1, <1>2, <1>3

LEMMA CrashKeeps ==
    ASSUME LocksInv, ProcessCrashes
    PROVE  LocksInv'
<1>1. CartsOK'
  BY StatementsKeep DEF LocksInv, ProcessCrashes, CartServiceCrashes
<1>2. cjob' = [w \in CWorkers |-> Idle]
  BY DEF ProcessCrashes
<1>3. ASSUME NEW v \in CWorkers PROVE JobHolds(cjob[v])' /\ JobLocks(cjob[v])' = {}
  BY <1>2 DEF JobHolds, CartJobOK, JobLocks, Idle
<1> QED
  BY <1>1, <1>2, <1>3 DEF LocksInv, LocksExclude

\* The rows that SELECT .. FOR UPDATE locked are stable.
THEOREM LocksInvCorrect == CartServiceSpec => []LocksInv
<1>1. CartServiceInit => LocksInv
  BY DEF CartServiceInit, CartInit, CartRow, LocksInv, CartsOK, JobHolds, CartJobOK, JobLocks,
         LocksExclude, Idle
<1>2. LocksInv /\ [CartServiceNext]_cartServiceVars => LocksInv'
  <2> SUFFICES ASSUME LocksInv, [CartServiceNext]_cartServiceVars
               PROVE  LocksInv'
    OBVIOUS
  <2>1. CASE CartServiceNext
    BY <2>1, HandlersKeep, OthersKeep, CrashKeeps DEF CartServiceNext
  <2>2. CASE UNCHANGED cartServiceVars
    BY <2>2, UntouchedStep DEF cartServiceVars, cartStoreVars
  <2> QED
    BY <2>1, <2>2
<1> QED
  BY <1>1, <1>2, PTL DEF CartServiceSpec

\* What a handler read is what is stored until it commits, and nobody else edits
\* the same cart.
THEOREM LockedCopyIsCurrentCorrect == CartServiceSpec => []LockedCopyIsCurrent
<1>1. LocksInv => LockedCopyIsCurrent
  <2> SUFFICES ASSUME LocksInv, NEW w \in CWorkers, cjob[w].phase = "edit"
               PROVE  /\ cjob[w].cart \in ActiveCarts(cjob[w].request.user)
                      /\ carts[cjob[w].cart].lines = cjob[w].lines
                      /\ \A v \in CWorkers \ {w} :
                            ~(cjob[v].phase = "edit" /\ cjob[v].cart = cjob[w].cart)
    BY DEF LockedCopyIsCurrent
  <2>1. \A v \in CWorkers : cjob[v].phase = "edit" =>
            /\ cjob[v].cart \in JobLocks(cjob[v])
            /\ JobLocks(cjob[v]) \subseteq ActiveCarts(cjob[v].request.user)
            /\ carts[cjob[v].cart].lines = cjob[v].lines
    BY DEF LocksInv, JobHolds, JobLocks
  <2> QED
    BY <2>1 DEF LocksInv, LocksExclude
<1> QED
  BY <1>1, LocksInvCorrect, PTL

-----------------------------------------------------------------------------
(* The refinement: each COMMIT is one request of CartStore. *)

LEMMA CommitEditRefines ==
    ASSUME LocksInv, NEW w \in CWorkers, CommitEdit(w)
    PROVE  CartRequest
<1> PICK job, r, c : job = cjob[w] /\ r = job.request /\ c = job.cart
  OBVIOUS
<1>1. /\ r \in EditRequests /\ c \in ActiveCarts(r.user)
      /\ carts[c].lines = job.lines
  BY LockedRows DEF CommitEdit, JobHolds, JobLocks, CartJobOK, Idle
<1>2. /\ r.name = "CheckoutCart" => SetStatus(c, "paid")
      /\ r.name # "CheckoutCart" =>
            /\ r.name = "RemoveProductFromCart" => InCart(carts[c].lines, r.id)
            /\ SetLines(c, Edited(carts[c].lines, r))
  BY <1>1 DEF CommitEdit
<1>3. r.user \in Users
  BY <1>1, RequestFields
<1>4. CASE r.name = "CheckoutCart"
  BY <1>1, <1>2, <1>3, <1>4 DEF CartRequest, CheckoutCart
<1>5. CASE r.name = "CreateCart"
  <2>1. Edited(carts[c].lines, r) = MergeLines(carts[c].lines, r.lines) /\ r.lines \in CartInputs
    BY <1>1, <1>5, RequestFields DEF Edited
  <2> QED
    BY <1>1, <1>2, <1>3, <1>5, <2>1 DEF CartRequest, CreateCart
<1>6. CASE r.name = "AddToCart"
  <2>1. /\ Edited(carts[c].lines, r) = AddLine(carts[c].lines, r.id, r.qty)
        /\ r.id \in Products /\ r.qty \in Qtys
    BY <1>1, <1>6, RequestFields DEF Edited
  <2> QED
    BY <1>1, <1>2, <1>3, <1>6, <2>1 DEF CartRequest, AddToCart
<1>7. CASE r.name = "UpdateProductQty"
  <2>1. /\ Edited(carts[c].lines, r) = SetQty(carts[c].lines, r.id, r.qty)
        /\ r.id \in Products /\ r.qty \in Qtys
    BY <1>1, <1>7, RequestFields DEF Edited
  <2> QED
    BY <1>1, <1>2, <1>3, <1>7, <2>1 DEF CartRequest, UpdateProductQty
<1>8. CASE r.name = "RemoveProductFromCart"
  <2>1. Edited(carts[c].lines, r) = RemoveLines(carts[c].lines, r.id) /\ r.id \in Products
    BY <1>1, <1>8, RequestFields DEF Edited
  <2> QED
    BY <1>1, <1>2, <1>3, <1>8, <2>1 DEF CartRequest, RemoveProductFromCart
<1> QED
  BY <1>1, <1>4, <1>5, <1>6, <1>7, <1>8, RequestFields

LEMMA CommitInsertRefines ==
    ASSUME LocksInv, NEW w \in CWorkers, CommitInsert(w)
    PROVE  CartRequest
<1> PICK r : r = cjob[w].request
  OBVIOUS
<1>1. r \in InsertRequests
  BY LockedRows DEF CommitInsert, JobHolds, CartJobOK, Idle
<1>2. r \in EditRequests /\ r.name \in {"CreateCart", "AddToCart"} /\ r.user \in Users
  BY <1>1, RequestFields DEF InsertRequests
<1>3. CASE r.name = "CreateCart"
  <2>1. InsertCart(r.user, r.lines) /\ r.lines \in CartInputs
    BY <1>2, <1>3, RequestFields DEF CommitInsert
  <2> QED
    BY <1>2, <2>1 DEF CartRequest, CreateCart
<1>4. CASE r.name = "AddToCart"
  <2>1. InsertCart(r.user, <<Line(r.id, r.qty)>>) /\ r.id \in Products /\ r.qty \in Qtys
    BY <1>2, <1>4, RequestFields DEF CommitInsert
  <2> QED
    BY <1>2, <2>1 DEF CartRequest, AddToCart
<1> QED
  BY <1>2, <1>3, <1>4

LEMMA DeleteRowRefines ==
    ASSUME LocksInv, NEW w \in CWorkers, DeleteRow(w)
    PROVE  CartRequest \/ UNCHANGED cartVars
BY DEF DeleteRow, LocksInv, CartsOK, CartRequest

\* A step of a handler is a request of CartStore or changes nothing there.
LEMMA HandlerRefines ==
    ASSUME LocksInv, NEW w \in CWorkers, HandlerStep(w)
    PROVE  CartRequest \/ UNCHANGED cartVars
BY CommitEditRefines, CommitInsertRefines, DeleteRowRefines
DEF HandlerStep, EditStep, Begin, SelectOwner, LockRow, SelectForUpdate, SelectNothing,
    RefuseRemove, DeadlockAbort, RollbackJob

\* The service statement by statement implements its one-step requests: no COMMIT
\* overwrites what another one stored since this handler looked.
THEOREM ImplementsCartStoreCorrect == CartServiceSpec => ImplementsCartStore
<1> DEFINE Step == (CartNext \/ CartPaidArrives) /\ UNCHANGED <<paymentPaid, clock>>
<1>1. CartServiceInit => PlatformInit /\ CartInit
  BY DEF CartServiceInit
<1>2. LocksInv /\ [CartServiceNext]_cartServiceVars => [Step]_cartStoreVars
  <2> SUFFICES ASSUME LocksInv, [CartServiceNext]_cartServiceVars
               PROVE  [Step]_cartStoreVars
    OBVIOUS
  <2>1. CASE UNCHANGED cartServiceVars
    BY <2>1 DEF cartServiceVars
  <2>2. CASE CartServiceNext
    <3>1. ASSUME NEW w \in CWorkers, HandlerStep(w), UNCHANGED cartPaid
          PROVE  CartNext \/ UNCHANGED <<cartVars, cartPaid>>
      BY <3>1, HandlerRefines DEF CartNext
    <3>2. ASSUME PutRequest, UNCHANGED cartPaid
          PROVE  CartNext
      BY <3>2 DEF PutRequest, CartNext, CartRequest
    <3>3. ConsumeCartPaid \/ ConsumerFails \/ ProcessCrashes \/ ProcessSubscribes => CartNext
      BY DEF ConsumeCartPaid, ConsumerFails, ProcessCrashes, ProcessSubscribes, CartNext,
             CartConsumer
    <3>4. CartNext \/ CartPaidArrives \/ UNCHANGED <<cartVars, cartPaid>>
      BY <2>2, <3>1, <3>2, <3>3 DEF CartServiceNext, EventArrives
    <3>5. UNCHANGED <<paymentPaid, clock>>
      BY <2>2 DEF CartServiceNext
    <3> QED
      BY <3>4, <3>5 DEF cartStoreVars, platformVars
  <2> QED
    BY <2>1, <2>2
<1> QED
  BY <1>1, <1>2, LocksInvCorrect, PTL DEF CartServiceSpec, ImplementsCartStore, CartStoreSpec
=============================================================================
