---------------------------- MODULE CachedLists -----------------------------
(***************************************************************************)
(* The lists that address-service, cart-service and payment-service keep   *)
(* in Redis, each with the table it is read from and everything that       *)
(* writes that table: requests, and for the carts the consumer of          *)
(* "cart.paid".  Each list is shown to do what ListCache promises.         *)
(*                                                                         *)
(* The three do not meet: a key belongs to one service.  A behaviour       *)
(* follows one of them, named by service, and the others rest.  Carts are  *)
(* written as in CartStore, by commits.                                    *)
(***************************************************************************)
EXTENDS CartStore, PaymentService, AddressService

VARIABLE service      \* which service this behaviour is about; never changes

otherTopics == <<paymentPaid, clock>>

allVars == <<cartVars, platformVars, paymentVars, addressVars, listVars, service>>

ASSUME SameHandlersAndOwners == PWorkers = LWorkers /\ Owners = Users

\* The consumer of "payment.paid" is not part of this module.
Init ==
    /\ service \in {"addresses", "carts", "payments"}
    /\ cartPaid = Subscribed /\ paymentPaid = Unsubscribed /\ clock = TicksPerSecond
    /\ CartInit /\ PaymentInit /\ AddressInit /\ ListInit

-----------------------------------------------------------------------------
(* Carts. *)

\* SELECT .. FROM carts WHERE owner_id = $1, for each owner.
CartsOf ==
    [u \in Owners |-> {<<c, carts[c]>> : c \in {d \in DOMAIN carts : carts[d].owner = u}}]

\* The commit of a request for a cart of u; the Del of carts:<u> comes next.
WriteCart(w, u) ==
    /\ \/ \E lines \in CartInputs : CreateCart(u, lines)
       \/ \E p \in Products, q \in Qtys : AddToCart(u, p, q) \/ UpdateProductQty(u, p, q)
       \/ \E p \in Products : RemoveProductFromCart(u, p)
       \/ CheckoutCart(u)
       \/ \E c \in DOMAIN carts : DeleteCart(c, u)
       \/ \E c \in DOMAIN carts, lines \in CartInputs, st \in PutStatuses :
             carts[c].owner = u /\ UpdateCart(c, lines, st)
    /\ WillClear(w, u)
    /\ UNCHANGED <<cartPaid, lists>>

\* The consumer writes carts and touches no list.
ConsumeCartPaid ==
    /\ HandleCartCheckedOut \/ HandleCartCheckedOutFails \/ CartServiceSubscribes
    /\ UNCHANGED listVars

CartServiceDies == CartServiceCrashes /\ ListersDie

CartListsStep ==
    /\ service = "carts"
    /\ \/ \E w \in LWorkers, u \in Owners :
             \/ WriteCart(w, u)
             \/ ListRows(w, u) /\ UNCHANGED <<cartVars, cartPaid>>
       \/ ListStep(CartsOf) /\ UNCHANGED <<cartVars, cartPaid>>
       \/ ConsumeCartPaid
       \/ CartServiceDies
       \/ CartPaidArrives /\ UNCHANGED listVars
    /\ UNCHANGED <<otherTopics, paymentVars, addressVars, service>>

-----------------------------------------------------------------------------
(* Payments. *)

\* SELECT .. FROM payments WHERE user_id = $1, for each user.
PaymentsOf ==
    [u \in Owners |-> {<<p, payments[p]>> : p \in {q \in DOMAIN payments : payments[q].user = u}}]

\* A transaction as GetTransaction may answer it.
PendingTransaction == [status |-> "pending", total |-> 1]

\* Each write of a payment is followed by the Del of payments:<u>.
WritePayment(w, u) ==
    /\ \/ InsertPayment(w) /\ pjob[w].user = u /\ UNCHANGED clock
       \/ \E p \in DOMAIN payments : PayPayment(w, p, u)
    /\ WillClear(w, u)
    /\ UNCHANGED <<lists, paymentPaid>>

\* The event goes out after the Del.
AnnouncePaid(w) ==
    /\ NotListing(w)
    /\ PublishPaymentPaid(w)
    /\ UNCHANGED <<listVars, clock>>

PaymentHandler(w) ==
    \/ \E u \in Owners : WritePayment(w, u)
    \/ AnnouncePaid(w)
    \/ /\ NotListing(w)
       /\ \/ \E u \in Owners : CreatePayment(w, 1, u, PendingTransaction)
          \/ DropPaymentJob(w)
          \/ ResendPaymentPaid(w)
       /\ UNCHANGED <<listVars, otherTopics>>
    \/ PIdle(w) /\ (\E u \in Owners : ListRows(w, u)) /\ UNCHANGED <<paymentVars, otherTopics>>

PaymentServiceDies == PaymentServiceCrashes /\ ListersDie /\ UNCHANGED otherTopics

PaymentListsStep ==
    /\ service = "payments"
    /\ \/ \E w \in PWorkers : PaymentHandler(w)
       \/ ListStep(PaymentsOf) /\ UNCHANGED <<paymentVars, otherTopics>>
       \/ PaymentServiceDies
    /\ UNCHANGED <<cartVars, cartPaid, addressVars, service>>

-----------------------------------------------------------------------------
(* Addresses. *)

AddressListsStep ==
    /\ service = "addresses"
    /\ AddressNext
    /\ UNCHANGED <<cartVars, platformVars, paymentVars, service>>

Next == CartListsStep \/ PaymentListsStep \/ AddressListsStep

Spec == Init /\ [][Next]_allVars

-----------------------------------------------------------------------------
(* Fairness: the commands of a handler return, and Redis expires its keys.  *)

\* The table that the lists of this behaviour are read from.
Table ==
    CASE service = "addresses" -> AddressesOf
      [] service = "carts" -> CartsOf
      [] OTHER -> PaymentsOf

otherVars == <<cartVars, platformVars, paymentVars, addressVars, service>>

ListFairness ==
    /\ \A w \in LWorkers : WF_allVars(ListWork(w, Table) /\ UNCHANGED otherVars)
    /\ \A u \in Owners : WF_allVars(ListExpires(u) /\ UNCHANGED otherVars)

FairSpec == Spec /\ ListFairness

-----------------------------------------------------------------------------

ListShape(list) == list = NoList \/ (list.cached /\ \A row \in list.rows : row[1] \in Nat \ {0})

ListJobOK(job) ==
    \/ job = LIdle
    \/ job.owner \in Owners /\ job.phase \in {"clear", "query"}
    \/ job.owner \in Owners /\ job.phase = "save" /\ ListShape(Cached(job.rows))

AddressJobOK(job) ==
    \/ job = AIdle
    \/ job \in [phase : {"delete"}, id : 1..MaxAddresses, owner : Owners]
    \/ job \in [phase : {"publish"}, topic : AddressTopics, id : 1..MaxAddresses]

\* Types of the address table, its topics and handlers, and of what Redis and
\* the listings hold.
ListsTypeOK ==
    /\ nextAddress \in 1..MaxAddresses + 1
    /\ \A a \in DOMAIN addresses :
          a < nextAddress /\ addresses[a] \in [owner : Owners, content : AddressContents]
    /\ \A t \in AddressTopics : addressLogs[t] \in Seq(1..MaxAddresses)
    /\ \A w \in LWorkers : AddressJobOK(ajob[w]) /\ ListJobOK(ljob[w])
    /\ \A u \in Owners : ListShape(lists[u])

\* Who reads "address.deleted" may forget the address for good: it is published
\* after the DELETE, its id is never used again, and an UPDATE that raced with
\* the DELETE does not bring the row back.
AddressDeletedIsFinal ==
    \A i \in DOMAIN addressLogs["address.deleted"] :
        addressLogs["address.deleted"][i] \in 1..(nextAddress - 1) \ DOMAIN addresses

\* The list of u is used as ListCache allows: it shows rows of u alone, which
\* the table held together at one moment; a listing that was overtaken by a
\* write may set it, once, and no other step of any handler or consumer does.
ListOf(u) ==
    INSTANCE ListCache WITH
        Readers <- LWorkers,
        rows <- Table[u],
        list <- lists[u],
        taken <- TakenFor(u)

ListsAreCaches ==
    /\ \A u \in Owners : ListOf(u)!Init
    /\ [][\A u \in Owners : [ListOf(u)!Next]_(ListOf(u)!listCacheVars)]_allVars

\* A list may be outdated: a Set after the Del of a concurrent write, a Del that
\* failed, a crash before the Del, the cart consumer that deletes no list, rows
\* that were cut off.  It does not stay so: once the rows of its owner change no
\* more and the database answers in full, Redis has these rows or nothing.
ListsConverge == \A u \in Owners : ListOf(u)!Converges

\* A list is outdated only by a handler that will delete it, by a listing that
\* was itself overtaken or cut off, or by the consumer of "cart.paid": no request
\* changes the table and leaves the list of the owner of the row as it is.
OutdatedByRace ==
    [][\A u \in Owners : ~ListOf(u)!Outdated /\ ListOf(u)!Outdated' =>
          \/ \E w \in LWorkers : ljob'[w] = [phase |-> "clear", owner |-> u]
          \/ \E w \in LWorkers : /\ ljob[w].phase = "save" /\ ljob[w].owner = u
                                 /\ ljob[w].rows # Table[u]
          \/ HasMessage(cartPaid) /\ cartPaid' = Consumed(cartPaid)]_allVars
=============================================================================
