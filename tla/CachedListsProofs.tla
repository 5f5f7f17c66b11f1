-------------------------- MODULE CachedListsProofs -------------------------
(***************************************************************************)
(* The cached lists of addresses, carts and payments.  Every step of the   *)
(* three services is one of three kinds for the lists: it leaves them and  *)
(* the copies of the listings alone, it is a step of OwnerLists on tables  *)
(* that stay, or it is a crash.  From that: each list is a ListCache, and  *)
(* who may leave one outdated.                                             *)
(***************************************************************************)
EXTENDS CachedLists, SequenceTheorems, TLAPS

AddressTableOK ==
    /\ nextAddress \in 1..MaxAddresses + 1
    /\ \A a \in DOMAIN addresses :
          a \in Nat \ {0} /\ a < nextAddress /\ addresses[a] \in [owner : Owners, content : AddressContents]

AddressLogsOK ==
    /\ DOMAIN addressLogs = AddressTopics
    /\ \A t \in AddressTopics : addressLogs[t] \in Seq(1..MaxAddresses)

\* An address is gone for good, or is no longer some owner's.
AddressGone(a) == a \in 1..(nextAddress - 1) \ DOMAIN addresses

\* What a handler knows of the address that it deletes or has deleted.
Deleting(job) ==
    /\ job.phase = "delete" =>
          /\ job.id \in 1..(nextAddress - 1)
          /\ job.id \in DOMAIN addresses => addresses[job.id].owner = job.owner
    /\ job.phase = "publish" /\ job.topic = "address.deleted" => AddressGone(job.id)

AddressInv ==
    /\ AddressTableOK
    /\ AddressLogsOK
    /\ ajob = [w \in LWorkers |-> ajob[w]]
    /\ \A w \in LWorkers : AddressJobOK(ajob[w]) /\ Deleting(ajob[w])
    /\ AddressDeletedIsFinal

-----------------------------------------------------------------------------
(* Addresses. *)

LEMMA BelowSerial ==
    ASSUME NEW n \in Nat, NEW m \in {n, n + 1}, NEW a \in 1..(n - 1)
    PROVE  a \in 1..(m - 1)
OBVIOUS

\* What happens to the table: a row is inserted under the serial, edited, deleted.
LEMMA AddressGoneForever ==
    ASSUME AddressTableOK, nextAddress' \in {nextAddress, nextAddress + 1},
           \A a \in DOMAIN addresses' :
              \/ a = nextAddress
              \/ a \in DOMAIN addresses /\ addresses'[a].owner = addresses[a].owner
    PROVE  /\ \A a : AddressGone(a) => AddressGone(a)'
           /\ \A job : Deleting(job) => Deleting(job)'
<1>1. nextAddress \in Nat
  BY DEF AddressTableOK
<1>2. ASSUME NEW a, AddressGone(a)
      PROVE  AddressGone(a)'
  <2>1. a \in 1..(nextAddress - 1) /\ a \notin DOMAIN addresses /\ a # nextAddress
    BY <1>1, <1>2 DEF AddressGone
  <2>2. nextAddress' \in {nextAddress, nextAddress + 1} /\ a \notin DOMAIN addresses'
    BY <2>1
  <2>3. a \in 1..(nextAddress' - 1)
    BY <1>1, <2>1, <2>2, BelowSerial
  <2> QED
    BY <2>2, <2>3 DEF AddressGone
<1>3. ASSUME NEW job, Deleting(job)
      PROVE  Deleting(job)'
  BY <1>1, <1>2, <1>3 DEF Deleting
<1> QED
  BY <1>2, <1>3

\* A step of one handler that sends nothing.
LEMMA AddressHandlerStep ==
    ASSUME AddressInv, AddressTableOK', UNCHANGED addressLogs, NEW w \in LWorkers, NEW job,
           ajob' = [ajob EXCEPT ![w] = job], AddressJobOK(job), Deleting(job)',
           nextAddress' \in {nextAddress, nextAddress + 1},
           \A a \in DOMAIN addresses' :
              \/ a = nextAddress
              \/ a \in DOMAIN addresses /\ addresses'[a].owner = addresses[a].owner
    PROVE  AddressInv'
<1>1. ajob' = [v \in LWorkers |-> IF v = w THEN job ELSE ajob[v]]
  BY DEF AddressInv
<1>2. ASSUME NEW v \in LWorkers
      PROVE  AddressJobOK(ajob'[v]) /\ Deleting(ajob[v])'
  <2>1. CASE v = w
    BY <1>1, <2>1 DEF Deleting, AddressGone
  <2>2. CASE v # w
    <3> PICK other : other = ajob[v]
      OBVIOUS
    <3>1. AddressJobOK(other) /\ Deleting(other)'
      BY AddressGoneForever DEF AddressInv
    <3>2. ajob'[v] = other
      BY <1>1, <2>2
    <3> QED
      BY <3>1, <3>2 DEF Deleting, AddressGone
  <2> QED
    BY <2>1, <2>2
<1>3. AddressDeletedIsFinal'
  <2> USE DEF AddressDeletedIsFinal, AddressGone
  <2> QED
    BY AddressGoneForever DEF AddressInv
<1>4. AddressLogsOK'
  BY DEF AddressInv, AddressLogsOK
<1> QED
  BY <1>1, <1>2, <1>3, <1>4 DEF AddressInv, AddressJobOK

LEMMA CreateAddressKeeps ==
    ASSUME AddressInv, NEW w \in LWorkers, NEW u \in Owners, NEW content \in AddressContents,
           CreateAddress(w, u, content)
    PROVE  AddressInv'
<1> PICK job, row : /\ job = [phase |-> "publish", topic |-> "address.created", id |-> nextAddress]
                    /\ row = AddressRow(u, content)
  OBVIOUS
<1>1. row \in [owner : Owners, content : AddressContents]
  BY DEF AddressRow
<1>2. /\ nextAddress \in 1..MaxAddresses /\ nextAddress' = nextAddress + 1
      /\ DOMAIN addresses' = DOMAIN addresses \cup {nextAddress}
      /\ \A a \in DOMAIN addresses' :
            addresses'[a] = IF a = nextAddress THEN row ELSE addresses[a]
  BY AddressAssumption DEF CreateAddress, AddressInv, AddressTableOK
<1>3. AddressTableOK'
  BY <1>1, <1>2, AddressAssumption DEF AddressInv, AddressTableOK
<1>4. AddressJobOK(job) /\ Deleting(job)'
  BY <1>2 DEF AddressJobOK, AddressTopics, Deleting
<1>5. ajob' = [ajob EXCEPT ![w] = job] /\ UNCHANGED addressLogs
  BY DEF CreateAddress, Announce
<1>6. \A a \in DOMAIN addresses' : a = nextAddress \/
          (a \in DOMAIN addresses /\ addresses'[a].owner = addresses[a].owner)
  BY <1>2
<1> QED
  BY <1>2, <1>3, <1>4, <1>5, <1>6, AddressHandlerStep

LEMMA UpdateAddressKeeps ==
    ASSUME AddressInv, NEW w \in LWorkers, NEW a \in DOMAIN addresses, NEW content \in AddressContents,
           UpdateAddress(w, a, content)
    PROVE  AddressInv'
<1> PICK job : job = [phase |-> "publish", topic |-> "address.updated", id |-> a]
  OBVIOUS
<1>1. /\ nextAddress' = nextAddress /\ DOMAIN addresses' = DOMAIN addresses
      /\ \A b \in DOMAIN addresses : addresses'[b] =
            IF b = a THEN [addresses[b] EXCEPT !.content = content] ELSE addresses[b]
  BY DEF UpdateAddress
<1>2. \A b \in DOMAIN addresses :
          /\ addresses'[b] \in [owner : Owners, content : AddressContents]
          /\ addresses'[b].owner = addresses[b].owner
  BY <1>1 DEF AddressInv, AddressTableOK
<1>3. AddressTableOK'
  BY <1>1, <1>2 DEF AddressInv, AddressTableOK
<1>4. AddressJobOK(job) /\ Deleting(job)'
  BY AddressAssumption DEF AddressJobOK, AddressTopics, Deleting, AddressInv, AddressTableOK
<1>5. ajob' = [ajob EXCEPT ![w] = job] /\ UNCHANGED addressLogs
  BY DEF UpdateAddress, Announce
<1> QED
  BY <1>1, <1>2, <1>3, <1>4, <1>5, AddressHandlerStep

LEMMA DeleteAddressKeeps ==
    ASSUME AddressInv, NEW w \in LWorkers, NEW a \in DOMAIN addresses, NEW u \in Owners,
           DeleteAddress(w, a, u)
    PROVE  AddressInv'
<1> PICK job : job = [phase |-> "delete", id |-> a, owner |-> u]
  OBVIOUS
<1>1. UNCHANGED addressTable /\ UNCHANGED addressLogs /\ ajob' = [ajob EXCEPT ![w] = job]
  BY DEF DeleteAddress
<1>2. AddressTableOK' /\ UNCHANGED <<addresses, nextAddress>>
  BY <1>1 DEF AddressInv, AddressTableOK, addressTable
<1>3. a \in Nat \ {0} /\ a < nextAddress /\ nextAddress \in 1..MaxAddresses + 1
  BY DEF AddressInv, AddressTableOK
<1>4. AddressJobOK(job) /\ Deleting(job)'
  BY <1>2, <1>3, AddressAssumption DEF AddressJobOK, Deleting, DeleteAddress
<1> QED
  BY <1>1, <1>2, <1>4, AddressHandlerStep

LEMMA DeleteAddressRowKeeps ==
    ASSUME AddressInv, NEW w \in LWorkers, DeleteAddressRow(w)
    PROVE  AddressInv'
<1> PICK old, job : old = ajob[w]
                    /\ job = [phase |-> "publish", topic |-> "address.deleted", id |-> old.id]
  OBVIOUS
<1>1. old \in [phase : {"delete"}, id : 1..MaxAddresses, owner : Owners] /\ Deleting(old)
  BY DEF DeleteAddressRow, AddressInv, AddressJobOK, AIdle
<1>2. /\ nextAddress' = nextAddress /\ DOMAIN addresses' = DOMAIN addresses \ {old.id}
      /\ \A b \in DOMAIN addresses' : addresses'[b] = addresses[b]
  BY DEF DeleteAddressRow, Restrict
<1>3. AddressTableOK'
  BY <1>2 DEF AddressInv, AddressTableOK
<1>4. AddressJobOK(job) /\ Deleting(job)'
  BY <1>1, <1>2 DEF AddressJobOK, AddressTopics, Deleting, AddressGone
<1>5. ajob' = [ajob EXCEPT ![w] = job] /\ UNCHANGED addressLogs
  BY DEF DeleteAddressRow, Announce
<1> QED
  BY <1>2, <1>3, <1>4, <1>5, AddressHandlerStep

\* What is appended to "address.deleted" was said by a handler that knows it.
LEMMA PublishAddressKeeps ==
    ASSUME AddressInv, NEW w \in LWorkers, PublishAddress(w) \/ ResendAddress(w)
    PROVE  AddressInv'
<1> PICK job : job = ajob[w]
  OBVIOUS
<1>1. job \in [phase : {"publish"}, topic : AddressTopics, id : 1..MaxAddresses] /\ Deleting(job)
  BY DEF PublishAddress, ResendAddress, AddressInv, AddressJobOK, AIdle
<1>2. UNCHANGED <<addresses, nextAddress>>
  BY DEF PublishAddress, ResendAddress, addressTable
<1>3. UNCHANGED addressLogs \/ addressLogs' = [addressLogs EXCEPT ![job.topic] = Append(@, job.id)]
  BY DEF PublishAddress, ResendAddress
<1>4. /\ DOMAIN addressLogs' = AddressTopics
      /\ \A t \in AddressTopics :
            \/ addressLogs'[t] = addressLogs[t]
            \/ t = job.topic /\ addressLogs'[t] = Append(addressLogs[t], job.id)
  BY <1>1, <1>3 DEF AddressInv, AddressLogsOK
<1>5. AddressLogsOK'
  <2>1. job.id \in 1..MaxAddresses /\ \A t \in AddressTopics : addressLogs[t] \in Seq(1..MaxAddresses)
    BY <1>1 DEF AddressInv, AddressLogsOK
  <2>2. ASSUME NEW t \in AddressTopics
        PROVE  addressLogs'[t] \in Seq(1..MaxAddresses)
    <3> PICK log, id : log = addressLogs[t] /\ id = job.id
      OBVIOUS
    <3>1. log \in Seq(1..MaxAddresses) /\ id \in 1..MaxAddresses
      BY <2>1
    <3>2. Append(log, id) \in Seq(1..MaxAddresses)
      BY <3>1
    <3> QED
      BY <1>4, <3>1, <3>2
  <2> QED
    BY <1>4, <2>2 DEF AddressLogsOK
<1>6. AddressDeletedIsFinal'
  <2> PICK log : log = addressLogs["address.deleted"]
    OBVIOUS
  <2>1. log \in Seq(1..MaxAddresses) /\ \A i \in DOMAIN log : AddressGone(log[i])
    BY DEF AddressInv, AddressLogsOK, AddressTopics, AddressDeletedIsFinal, AddressGone
  <2>2. CASE addressLogs'["address.deleted"] = log
    BY <1>2, <2>1, <2>2 DEF AddressDeletedIsFinal, AddressGone
  <2>3. CASE job.topic = "address.deleted" /\ addressLogs'["address.deleted"] = Append(log, job.id)
    <3>1. AddressGone(job.id)
      BY <1>1, <2>3 DEF Deleting
    <3>2. \A i \in DOMAIN Append(log, job.id) : AddressGone(Append(log, job.id)[i])
      BY <1>1, <2>1, <3>1
    <3> QED
      BY <1>2, <2>3, <3>2 DEF AddressDeletedIsFinal, AddressGone
  <2> QED
    BY <1>4, <2>2, <2>3 DEF AddressTopics
<1>7. ajob' = [v \in LWorkers |-> IF v = w /\ PublishAddress(w) THEN AIdle ELSE ajob[v]]
  BY DEF PublishAddress, ResendAddress, AddressInv
<1>8. ASSUME NEW v \in LWorkers
      PROVE  AddressJobOK(ajob'[v]) /\ Deleting(ajob[v])'
  BY <1>2, <1>7 DEF AddressInv, AddressJobOK, Deleting, AddressGone, AIdle
<1>9. AddressTableOK'
  BY <1>2 DEF AddressInv, AddressTableOK
<1> QED
  BY <1>5, <1>6, <1>7, <1>8, <1>9 DEF AddressInv, AddressJobOK

\* Handlers of addresses that end without a word.
LEMMA AddressHandlersEnd ==
    ASSUME AddressInv, UNCHANGED <<addressTable, addressLogs>>,
           \A v \in LWorkers : ajob'[v] \in {ajob[v], AIdle}, DOMAIN ajob' = LWorkers,
           ajob' = [v \in LWorkers |-> ajob'[v]]
    PROVE  AddressInv'
<1>1. UNCHANGED <<addresses, nextAddress>>
  BY DEF addressTable
<1>2. \A v \in LWorkers : AddressJobOK(ajob'[v]) /\ Deleting(ajob[v])'
  BY <1>1 DEF AddressInv, AddressJobOK, Deleting, AddressGone, AIdle
<1>3. AddressTableOK' /\ AddressLogsOK'
  BY <1>1 DEF AddressInv, AddressTableOK, AddressLogsOK
<1>4. AddressDeletedIsFinal'
  BY <1>1 DEF AddressInv, AddressDeletedIsFinal
<1> QED
  BY <1>2, <1>3, <1>4 DEF AddressInv, AddressJobOK

LEMMA AddressStep == AddressInv /\ [Next]_allVars => AddressInv'
<1> SUFFICES ASSUME AddressInv, [Next]_allVars
             PROVE  AddressInv'
  OBVIOUS
<1>1. ASSUME UNCHANGED addressVars
      PROVE  AddressInv'
  <2>1. UNCHANGED <<addressTable, addressLogs, ajob>>
    BY <1>1 DEF addressVars
  <2> QED
    BY <2>1, AddressHandlersEnd DEF AddressInv
<1>2. CASE AddressNext
  <2>1. ASSUME NEW w \in LWorkers, AddressRequest(w)
        PROVE  AddressInv'
    BY <1>1, <2>1, CreateAddressKeeps, UpdateAddressKeeps, DeleteAddressKeeps DEF AddressRequest
  <2>2. ASSUME NEW w \in LWorkers, AddressWork(w) \/ ResendAddress(w)
        PROVE  AddressInv'
    BY <2>2, DeleteAddressRowKeeps, PublishAddressKeeps DEF AddressWork
  <2>3. ASSUME NEW w \in LWorkers, DeleteAddressFails(w)
        PROVE  AddressInv'
    <3>1. ajob' = [v \in LWorkers |-> IF v = w THEN AIdle ELSE ajob[v]]
      BY <2>3 DEF DeleteAddressFails, AddressInv
    <3> QED
      BY <2>3, <3>1, AddressHandlersEnd DEF DeleteAddressFails
  <2>4. CASE AddressServiceCrashes
    BY <2>4, AddressHandlersEnd DEF AddressServiceCrashes
  <2> QED
    BY <1>1, <1>2, <2>1, <2>2, <2>3, <2>4 DEF AddressNext
<1>3. CASE UNCHANGED allVars
  BY <1>1, <1>3 DEF allVars
<1> QED
  BY <1>1, <1>2, <1>3 DEF Next, CartListsStep, PaymentListsStep, AddressListsStep

LEMMA AddressInitially == Init => AddressInv
BY AddressAssumption
DEF Init, AddressInit, AddressInv, AddressTableOK, AddressLogsOK, AddressJobOK, Deleting,
    AddressDeletedIsFinal, AIdle, AddressTopics

\* Whoever reads "address.deleted" may forget the address for good: DeleteAddress
\* sends it after its DELETE, and no id is used twice.
THEOREM AddressDeletedIsFinalCorrect == Spec => []AddressDeletedIsFinal
<1>1. AddressInv => AddressDeletedIsFinal
  BY DEF AddressInv
<1> QED
  BY <1>1, AddressInitially, AddressStep, PTL DEF Spec

-----------------------------------------------------------------------------
(* The lists.  First the domains of their variables. *)

ListDomains ==
    /\ lists = [u \in Owners |-> lists[u]]
    /\ ljob = [w \in LWorkers |-> ljob[w]]
    /\ \A w \in LWorkers :
          \/ ljob[w] = LIdle
          \/ ljob[w].phase \in {"clear", "query", "save"} /\ ljob[w].owner \in Owners
    /\ service \in {"addresses", "carts", "payments"}

\* The first kind of step: a handler of an owner begins something, or nobody does.
Begins(w, u, phase) ==
    /\ ljob[w] = LIdle
    /\ ljob' = [ljob EXCEPT ![w] = [phase |-> phase, owner |-> u]]

ListsRest ==
    /\ UNCHANGED <<lists, service>>
    /\ \/ UNCHANGED ljob
       \/ \E w \in LWorkers, u \in Owners : Begins(w, u, "clear") \/ Begins(w, u, "query")

\* The second kind: the lists are at work on tables that stay.
ListsWork ==
    /\ ListStep(Table)
    /\ UNCHANGED <<addresses, carts, payments, service>>

\* The third kind: a crash.
ListsDie == ListersDie /\ UNCHANGED <<addresses, carts, payments, service>>

LEMMA BeginsKinds ==
    ASSUME NEW w \in LWorkers, NEW u \in Owners
    PROVE  /\ WillClear(w, u) => Begins(w, u, "clear")
           /\ ListRows(w, u) => Begins(w, u, "query") /\ UNCHANGED lists
BY DEF WillClear, ListRows, Begins, NotListing

LEMMA StepKinds ==
    ASSUME AddressInv, ListDomains, [Next]_allVars
    PROVE  ListsRest \/ ListsWork \/ ListsDie
<1>1. CASE UNCHANGED allVars
  BY <1>1 DEF allVars, listVars, ListsRest
<1>2. CASE CartListsStep
  <2>1. Table = CartsOf /\ UNCHANGED <<addresses, payments, service>>
    BY <1>2 DEF CartListsStep, Table, addressVars, addressTable, paymentVars
  <2>2. CASE ListStep(CartsOf) /\ UNCHANGED <<cartVars, cartPaid>>
    BY <2>1, <2>2 DEF ListsWork, cartVars
  <2>3. CASE CartServiceDies
    BY <2>1, <2>3 DEF CartServiceDies, CartServiceCrashes, ListsDie, cartVars
  <2>4. CASE ConsumeCartPaid \/ (CartPaidArrives /\ UNCHANGED listVars)
    BY <2>1, <2>4 DEF ConsumeCartPaid, ListsRest, listVars
  <2>5. ASSUME NEW w \in LWorkers, NEW u \in Owners,
               WriteCart(w, u) \/ (ListRows(w, u) /\ UNCHANGED <<cartVars, cartPaid>>)
        PROVE  ListsRest
    BY <2>1, <2>5, BeginsKinds DEF WriteCart, ListsRest
  <2> QED
    BY <1>2, <2>2, <2>3, <2>4, <2>5 DEF CartListsStep
<1>3. CASE PaymentListsStep
  <2>1. Table = PaymentsOf /\ UNCHANGED <<addresses, carts, service>>
    BY <1>3 DEF PaymentListsStep, Table, addressVars, addressTable, cartVars
  <2>2. CASE ListStep(PaymentsOf) /\ UNCHANGED <<paymentVars, otherTopics>>
    BY <2>1, <2>2 DEF ListsWork, paymentVars
  <2>3. CASE PaymentServiceDies
    BY <2>1, <2>3 DEF PaymentServiceDies, PaymentServiceCrashes, ListsDie
  <2>4. ASSUME NEW w \in PWorkers, PaymentHandler(w)
        PROVE  ListsRest
    <3>1. w \in LWorkers
      BY SameHandlersAndOwners
    <3>2. CASE \E u \in Owners : WritePayment(w, u)
      BY <2>1, <3>1, <3>2, BeginsKinds DEF WritePayment, ListsRest
    <3>3. CASE PIdle(w) /\ (\E u \in Owners : ListRows(w, u)) /\ UNCHANGED <<paymentVars, otherTopics>>
      BY <2>1, <3>1, <3>3, BeginsKinds DEF ListsRest
    <3>4. CASE UNCHANGED listVars
      BY <2>1, <3>4 DEF ListsRest, listVars
    <3> QED
      BY <2>4, <3>2, <3>3, <3>4 DEF PaymentHandler, AnnouncePaid
  <2> QED
    BY <1>3, <2>2, <2>3, <2>4 DEF PaymentListsStep
<1>4. CASE AddressListsStep
  <2>1. Table = AddressesOf /\ UNCHANGED <<carts, payments, service>> /\ AddressNext
    BY <1>4 DEF AddressListsStep, Table, paymentVars, cartVars
  <2>2. CASE ListStep(AddressesOf) /\ UNCHANGED addressVars
    BY <2>1, <2>2 DEF ListsWork, addressVars, addressTable
  <2>3. CASE AddressServiceCrashes
    BY <2>1, <2>3 DEF AddressServiceCrashes, ListsDie, addressTable
  <2>4. ASSUME NEW w \in LWorkers, NEW u \in Owners, NEW t, NEW a, Announce(w, u, t, a)
        PROVE  ListsRest
    BY <2>1, <2>4, BeginsKinds DEF Announce, ListsRest
  <2>5. ASSUME UNCHANGED listVars
        PROVE  ListsRest
    BY <2>1, <2>5 DEF ListsRest, listVars
  <2>6. ASSUME NEW w \in LWorkers, AddressRequest(w)
        PROVE  ListsRest
    <3>1. \A a \in DOMAIN addresses : addresses[a].owner \in Owners
      BY DEF AddressInv, AddressTableOK
    <3>2. ASSUME NEW u \in Owners, ListRows(w, u)
          PROVE  ListsRest
      BY <2>1, <3>2, BeginsKinds DEF ListsRest
    <3> QED
      BY <2>4, <2>5, <2>6, <3>1, <3>2
      DEF AddressRequest, CreateAddress, UpdateAddress, DeleteAddress
  <2>7. ASSUME NEW w \in LWorkers, DeleteAddressRow(w)
        PROVE  ListsRest
    <3>1. ajob[w].owner \in Owners
      BY <2>7 DEF DeleteAddressRow, AddressInv, AddressJobOK, AIdle
    <3> QED
      BY <2>4, <2>7, <3>1 DEF DeleteAddressRow
  <2>8. ASSUME NEW w \in LWorkers, PublishAddress(w) \/ ResendAddress(w) \/ DeleteAddressFails(w)
        PROVE  ListsRest
    BY <2>5, <2>8 DEF PublishAddress, ResendAddress, DeleteAddressFails
  <2> QED
    BY <2>1, <2>2, <2>3, <2>6, <2>7, <2>8 DEF AddressNext, AddressWork
<1> QED
  BY <1>1, <1>2, <1>3, <1>4 DEF Next

\* A step of one handler: what it enters is of the right shape.
LEMMA ListHandlerStep ==
    ASSUME ListDomains, UNCHANGED service, NEW w \in LWorkers, NEW job, ljob' = [ljob EXCEPT ![w] = job],
           job = LIdle \/ (job.phase \in {"clear", "query", "save"} /\ job.owner \in Owners),
           lists' = [u \in Owners |-> lists'[u]]
    PROVE  ListDomains'
<1>1. ljob' = [v \in LWorkers |-> IF v = w THEN job ELSE ljob[v]]
  BY DEF ListDomains
<1> QED
  BY <1>1 DEF ListDomains, LIdle

\* The list of one owner is set or deleted.
LEMMA ListSet ==
    ASSUME ListDomains, NEW u \in Owners, NEW l, lists' = [lists EXCEPT ![u] = l]
    PROVE  lists' = [v \in Owners |-> IF v = u THEN l ELSE lists[v]]
BY DEF ListDomains

LEMMA ListDomainsStep == AddressInv /\ ListDomains /\ [Next]_allVars => ListDomains'
<1> SUFFICES ASSUME AddressInv, ListDomains, [Next]_allVars
             PROVE  ListDomains'
  OBVIOUS
<1>0. lists = [u \in Owners |-> lists[u]]
  BY DEF ListDomains
<1>1. CASE ListsRest
  <2>1. CASE UNCHANGED ljob
    BY <1>1, <2>1 DEF ListsRest, ListDomains
  <2>2. ASSUME NEW w \in LWorkers, NEW u \in Owners, Begins(w, u, "clear") \/ Begins(w, u, "query")
        PROVE  ListDomains'
    <3>1. PICK phase \in {"clear", "query"} : Begins(w, u, phase)
      BY <2>2
    <3>2. UNCHANGED service /\ lists' = [v \in Owners |-> lists'[v]]
      BY <1>0, <1>1 DEF ListsRest
    <3> PICK job : job = [phase |-> phase, owner |-> u]
      OBVIOUS
    <3>3. ljob' = [ljob EXCEPT ![w] = job] /\ job.phase \in {"clear", "query", "save"} /\ job.owner \in Owners
      BY <3>1 DEF Begins
    <3> QED
      BY <3>2, <3>3, ListHandlerStep
  <2> QED
    BY <1>1, <2>1, <2>2 DEF ListsRest
<1>2. CASE ListsDie
  BY <1>0, <1>2 DEF ListsDie, ListersDie, ListDomains
<1>3. CASE ListsWork
  <2>0. UNCHANGED service
    BY <1>3 DEF ListsWork
  <2>1. ASSUME NEW w \in LWorkers, ClearList(w) \/ SaveList(w)
        PROVE  ListDomains'
    <3>1. ljob[w].owner \in Owners /\ ljob' = [ljob EXCEPT ![w] = LIdle]
      BY <2>1 DEF ClearList, SaveList, ListDomains, LIdle
    <3>2. lists' = [v \in Owners |-> lists'[v]]
      BY <1>0, <2>1, <3>1, ListSet DEF ClearList, SaveList
    <3> PICK job : job = LIdle
      OBVIOUS
    <3> QED
      BY <2>0, <3>1, <3>2, ListHandlerStep
  <2>2. ASSUME NEW w \in LWorkers, SelectRows(w, Table)
        PROVE  ListDomains'
    <3>1. PICK copy : ljob' = [ljob EXCEPT ![w] = [phase |-> "save", owner |-> ljob[w].owner, rows |-> copy]]
      BY <2>2 DEF SelectRows
    <3>2. ljob[w].owner \in Owners /\ lists' = [v \in Owners |-> lists'[v]]
      BY <1>0, <2>2 DEF SelectRows, ListDomains, LIdle
    <3> PICK job : job = [phase |-> "save", owner |-> ljob[w].owner, rows |-> copy]
      OBVIOUS
    <3>3. ljob' = [ljob EXCEPT ![w] = job] /\ job.phase \in {"clear", "query", "save"} /\ job.owner \in Owners
      BY <3>1, <3>2
    <3> QED
      BY <2>0, <3>2, <3>3, ListHandlerStep
  <2>3. ASSUME NEW w \in LWorkers, ListFails(w)
        PROVE  ListDomains'
    <3> PICK job : job = LIdle
      OBVIOUS
    <3>1. ljob' = [ljob EXCEPT ![w] = job] /\ lists' = [v \in Owners |-> lists'[v]]
      BY <1>0, <2>3 DEF ListFails
    <3> QED
      BY <2>0, <3>1, ListHandlerStep
  <2>4. ASSUME NEW u \in Owners, ListExpires(u)
        PROVE  ListDomains'
    <3>1. lists' = [v \in Owners |-> lists'[v]] /\ UNCHANGED ljob
      BY <2>4, ListSet DEF ListExpires
    <3> QED
      BY <2>0, <3>1 DEF ListDomains
  <2> QED
    BY <1>3, <2>1, <2>2, <2>3, <2>4 DEF ListsWork, ListStep, ListWork
<1> QED
  BY <1>1, <1>2, <1>3, StepKinds

LEMMA ListsInitially == Init => ListDomains
BY DEF Init, ListInit, ListDomains

LEMMA ListsInvCorrect == Spec => [](AddressInv /\ ListDomains)
BY AddressInitially, AddressStep, ListsInitially, ListDomainsStep, PTL DEF Spec

-----------------------------------------------------------------------------
(* The refinement: each owner's list is a ListCache. *)

\* What is set aside for u changes only with a job that is saving, or was.
LEMMA TakenKept ==
    ASSUME NEW u \in Owners,
           \A v \in LWorkers : \/ ljob'[v] = ljob[v]
                               \/ /\ ljob[v].phase = "save" /\ ljob[v].owner = u => FALSE
                                  /\ ljob'[v].phase = "save" /\ ljob'[v].owner = u => FALSE
    PROVE  UNCHANGED TakenFor(u)
BY DEF TakenFor

LEMMA CacheSteps ==
    ASSUME AddressInv, ListDomains, ListsRest \/ ListsWork \/ ListsDie, NEW u \in Owners
    PROVE  ListOf(u)!Next
<1>1. CASE ListsRest
  <2>1. UNCHANGED lists[u]
    BY <1>1 DEF ListsRest
  <2>2. UNCHANGED TakenFor(u)
    <3>1. CASE UNCHANGED ljob
      BY <3>1 DEF TakenFor
    <3>2. ASSUME NEW w \in LWorkers, NEW v \in Owners, NEW phase \in {"clear", "query"}, Begins(w, v, phase)
          PROVE  UNCHANGED TakenFor(u)
      BY <3>2, TakenKept DEF Begins, ListDomains, LIdle
    <3> QED
      BY <1>1, <3>1, <3>2 DEF ListsRest
  <2> QED
    BY <2>1, <2>2 DEF ListOf!Next, ListOf!Write
<1>2. CASE ListsDie
  <2>1. UNCHANGED <<lists[u], Table[u]>>
    BY <1>2 DEF ListsDie, ListersDie, Table, AddressesOf, CartsOf, PaymentsOf
  <2>2. TakenFor(u)' = [r \in LWorkers |-> ListOf(u)!NoList]
    BY <1>2 DEF ListsDie, ListersDie, TakenFor, LIdle, NoList, ListOf!NoList
  <2>3. TakenFor(u)' = [r \in LWorkers |-> IF r \in LWorkers THEN ListOf(u)!NoList ELSE TakenFor(u)[r]]
    BY <2>2
  <2>4. ListOf(u)!Abandon
    BY <2>1, <2>3 DEF ListOf!Abandon
  <2> QED
    BY <2>4 DEF ListOf!Next
<1>3. CASE ListsWork
  <2>0. UNCHANGED Table[u]
    BY <1>3 DEF ListsWork, Table, AddressesOf, CartsOf, PaymentsOf
  <2>1. ASSUME NEW w \in LWorkers, ClearList(w)
        PROVE  ListOf(u)!Next
    <3>1. UNCHANGED TakenFor(u)
      BY <2>1, TakenKept DEF ClearList, ListDomains, LIdle
    <3>2. lists'[u] = NoList \/ UNCHANGED lists[u]
      BY <2>1, ListSet DEF ClearList, ListDomains, LIdle
    <3> QED
      BY <2>0, <3>1, <3>2
      DEF ListOf!Next, ListOf!Vanish, ListOf!Write, NoList, ListOf!NoList
  <2>2. ASSUME NEW w \in LWorkers, SelectRows(w, Table)
        PROVE  ListOf(u)!Next
    <3>1. PICK copy \in SUBSET Table[ljob[w].owner] :
              ljob' = [ljob EXCEPT ![w] = [phase |-> "save", owner |-> ljob[w].owner, rows |-> copy]]
      BY <2>2 DEF SelectRows
    <3>2. UNCHANGED lists[u] /\ ljob[w].phase = "query"
      BY <2>2 DEF SelectRows
    <3>3. CASE ljob[w].owner = u
      <4>1. TakenFor(u)' = [TakenFor(u) EXCEPT ![w] = ListOf(u)!Cached(copy)]
        BY <3>1, <3>2, <3>3 DEF TakenFor, ListDomains, Cached, ListOf!Cached
      <4>2. copy \subseteq Table[u]
        BY <3>1, <3>3
      <4>3. ListOf(u)!TakeRows(w, copy)
        BY <2>0, <3>2, <4>1, <4>2 DEF ListOf!TakeRows
      <4>4. ListOf(u)!Take(w) \/ ListOf(u)!TakePart(w)
        <5>1. CASE copy = Table[u]
          BY <4>3, <5>1 DEF ListOf!Take
        <5>2. CASE copy # Table[u]
          <6>1. copy \in (SUBSET Table[u]) \ {Table[u]}
            BY <4>2, <5>2
          <6> QED
            BY <4>3, <6>1 DEF ListOf!TakePart
        <5> QED
          BY <5>1, <5>2
      <4> QED
        BY <4>4 DEF ListOf!Next
    <3>4. CASE ljob[w].owner # u
      <4>1. UNCHANGED TakenFor(u)
        BY <3>1, <3>2, <3>4, TakenKept DEF ListDomains
      <4> QED
        BY <3>2, <4>1 DEF ListOf!Next, ListOf!Write
    <3> QED
      BY <3>3, <3>4
  <2>3. ASSUME NEW w \in LWorkers, SaveList(w)
        PROVE  ListOf(u)!Next
    <3>1. /\ ljob' = [v \in LWorkers |-> IF v = w THEN LIdle ELSE ljob[v]]
          /\ ljob[w].phase = "save" /\ ljob[w].owner \in Owners
      BY <2>3 DEF SaveList, ListDomains, LIdle
    <3>2. \/ lists' = [v \in Owners |-> IF v = ljob[w].owner THEN Cached(ljob[w].rows) ELSE lists[v]]
          \/ UNCHANGED lists
      BY <2>3, <3>1, ListSet DEF SaveList
    <3>3. CASE ljob[w].owner = u
      <4>1. TakenFor(u)[w] = Cached(ljob[w].rows)
        BY <3>1, <3>3 DEF TakenFor
      <4>2. TakenFor(u)' = [r \in LWorkers |-> IF r \in {w} THEN ListOf(u)!NoList ELSE TakenFor(u)[r]]
        BY <3>1 DEF TakenFor, LIdle, NoList, ListOf!NoList
      <4>3. CASE UNCHANGED lists
        <5>1. ListOf(u)!Abandon
          BY <2>0, <4>2, <4>3 DEF ListOf!Abandon
        <5> QED
          BY <5>1 DEF ListOf!Next
      <4>4. CASE lists'[u] = Cached(ljob[w].rows)
        <5>1. TakenFor(u)' = [TakenFor(u) EXCEPT ![w] = ListOf(u)!NoList]
          BY <4>2 DEF TakenFor
        <5>2. TakenFor(u)[w].cached
          BY <4>1 DEF Cached
        <5>3. ListOf(u)!Fill(w)
          BY <2>0, <4>1, <4>4, <5>1, <5>2 DEF ListOf!Fill
        <5> QED
          BY <5>3 DEF ListOf!Next
      <4> QED
        BY <3>2, <3>3, <4>3, <4>4
    <3>4. CASE ljob[w].owner # u
      <4>1. UNCHANGED lists[u]
        BY <3>2, <3>4
      <4>2. UNCHANGED TakenFor(u)
        BY <3>1, <3>4, TakenKept DEF LIdle
      <4> QED
        BY <4>1, <4>2 DEF ListOf!Next, ListOf!Write
    <3> QED
      BY <3>3, <3>4
  <2>4. ASSUME NEW w \in LWorkers, ListFails(w)
        PROVE  ListOf(u)!Next
    <3>1. UNCHANGED TakenFor(u) /\ UNCHANGED lists[u]
      BY <2>4, TakenKept DEF ListFails, ListDomains, LIdle
    <3> QED
      BY <3>1 DEF ListOf!Next, ListOf!Write
  <2>5. ASSUME NEW v \in Owners, ListExpires(v)
        PROVE  ListOf(u)!Next
    <3>1. UNCHANGED TakenFor(u)
      BY <2>5 DEF ListExpires, TakenFor
    <3>2. lists'[u] = NoList \/ UNCHANGED lists[u]
      BY <2>5, ListSet DEF ListExpires
    <3> QED
      BY <2>0, <3>1, <3>2
      DEF ListOf!Next, ListOf!Vanish, ListOf!Write, NoList, ListOf!NoList
  <2> QED
    BY <1>3, <2>1, <2>2, <2>3, <2>4, <2>5 DEF ListsWork, ListStep, ListWork
<1> QED
  BY <1>1, <1>2, <1>3

\* What Redis has under an owner's key, beside the owner's rows, is a ListCache in
\* each of the services: a listing sets what it read, or part of it, and nothing
\* else; a write of another owner's rows or of other tables is no step of it.
THEOREM ListsAreCachesCorrect == Spec => ListsAreCaches
<1>1. ASSUME Init
      PROVE  \A u \in Owners : ListOf(u)!Init
  BY <1>1 DEF Init, ListInit, TakenFor, NoList, LIdle, ListOf!Init, ListOf!NoList
<1>2. AddressInv /\ ListDomains /\ [Next]_allVars
          => \A u \in Owners : [ListOf(u)!Next]_(ListOf(u)!listCacheVars)
  BY StepKinds, CacheSteps
<1> QED
  BY <1>1, <1>2, ListsInvCorrect, PTL DEF Spec, ListsAreCaches

-----------------------------------------------------------------------------
(* The tables of carts and payments, as far as the lists need them: new    *)
(* rows have ids of their own.                                             *)

CartIdsOK ==
    /\ nextCart \in Nat \ {0}
    /\ \A c \in DOMAIN carts : c \in Nat \ {0} /\ c < nextCart

PaymentRow == [tx : {1}, user : Owners, amount : {1}, status : PaymentStatuses, paidAt : Nat]

PaymentsOK ==
    /\ payments \in Seq(PaymentRow)
    /\ clock \in Nat
    /\ pjob = [w \in LWorkers |-> pjob[w]]
    /\ \A w \in LWorkers : pjob[w].phase = "insert" =>
          pjob[w] \in [phase : {"insert"}, tx : {1}, user : Owners, amount : {1}]

\* What a request of the owner u, or the consumer, does to the carts: a row is
\* inserted for u under the serial, edited or deleted.
CartChange(u) ==
    /\ nextCart' \in {nextCart, nextCart + 1}
    /\ \A c \in DOMAIN carts' :
          \/ c = nextCart /\ nextCart' = nextCart + 1 /\ carts'[c].owner = u
          \/ c \in DOMAIN carts /\ carts'[c] = carts[c]
          \/ c \in DOMAIN carts /\ carts[c].owner = u /\ carts'[c].owner = u
    /\ \A c \in DOMAIN carts : c \in DOMAIN carts' \/ carts[c].owner = u

LEMMA CartStatements ==
    ASSUME CartIdsOK
    PROVE  /\ \A c \in DOMAIN carts : \A lines, st : PutCart(c, lines, st) => CartChange(carts[c].owner)
           /\ \A u, lines : InsertCart(u, lines) => CartChange(u)
           /\ \A c, u : DeleteCart(c, u) => CartChange(u)
           /\ \A u : UNCHANGED cartVars => CartChange(u)
<1>0. nextCart \notin DOMAIN carts /\ nextCart \in Nat
  BY DEF CartIdsOK
<1>1. ASSUME NEW c \in DOMAIN carts, NEW lines, NEW st, PutCart(c, lines, st)
      PROVE  CartChange(carts[c].owner)
  BY <1>1 DEF PutCart, CartRow, CartChange
<1>2. ASSUME NEW u, NEW lines, InsertCart(u, lines)
      PROVE  CartChange(u)
  BY <1>0, <1>2 DEF InsertCart, CartRow, CartChange
<1>3. ASSUME NEW c, NEW u, DeleteCart(c, u)
      PROVE  CartChange(u)
  BY <1>3 DEF DeleteCart, CartChange
<1>4. ASSUME NEW u, UNCHANGED cartVars
      PROVE  CartChange(u)
  BY <1>4 DEF cartVars, CartChange
<1> QED
  BY <1>1, <1>2, <1>3, <1>4

\* A request for a cart of u changes carts of u alone.
LEMMA WritesAreOfOwner ==
    ASSUME CartIdsOK, NEW w, NEW u, WriteCart(w, u)
    PROVE  CartChange(u)
<1>1. \A c \in ActiveCarts(u) : c \in DOMAIN carts /\ carts[c].owner = u
  BY DEF ActiveCarts
<1>2. \A c \in ActiveCarts(u) : \A lines, st : PutCart(c, lines, st) => CartChange(u)
  BY <1>1, CartStatements
<1> QED
  BY <1>2, CartStatements
  DEF WriteCart, CreateCart, AddToCart, UpdateProductQty, RemoveProductFromCart, CheckoutCart,
      UpdateCart, SetLines, SetStatus

\* The steps of the carts: a request, the consumer, or nothing is written.
LEMMA CartSteps ==
    ASSUME CartIdsOK, [Next]_allVars
    PROVE  \/ UNCHANGED cartVars
           \/ service = "carts" /\ \E w \in LWorkers, u \in Owners : WriteCart(w, u) /\ CartChange(u)
           \/ HandleCartCheckedOut /\ \E u : CartChange(u)
<1>1. CASE UNCHANGED allVars \/ PaymentListsStep \/ AddressListsStep
  BY <1>1 DEF allVars, PaymentListsStep, AddressListsStep
<1>2. CASE CartListsStep
  <2>1. ASSUME HandleCartCheckedOut
        PROVE  \E u : CartChange(u)
    BY <2>1, CartStatements DEF HandleCartCheckedOut, SetStatus, ActiveCarts
  <2> QED
    BY <1>2, <2>1, WritesAreOfOwner
    DEF CartListsStep, ConsumeCartPaid, HandleCartCheckedOutFails, CartServiceSubscribes,
        CartServiceDies, CartServiceCrashes, CartPaidArrives
<1> QED
  BY <1>1, <1>2 DEF Next

LEMMA CartIdsStep == CartIdsOK /\ [Next]_allVars => CartIdsOK'
<1> SUFFICES ASSUME CartIdsOK, [Next]_allVars
             PROVE  CartIdsOK'
  OBVIOUS
<1>1. ASSUME NEW u, CartChange(u)
      PROVE  CartIdsOK'
  BY <1>1 DEF CartChange, CartIdsOK
<1> QED
  BY <1>1, CartSteps, CartStatements

\* The steps of the payments, with what they do to the table.
LEMMA PaymentSteps ==
    ASSUME PaymentsOK, [Next]_allVars
    PROVE  /\ PaymentsOK'
           /\ \/ UNCHANGED payments
              \/ /\ service = "payments"
                 /\ \E w \in LWorkers, u \in Owners : WritePayment(w, u)
<1>1. CASE UNCHANGED allVars \/ CartListsStep \/ AddressListsStep
  <2>1. UNCHANGED <<payments, pjob, clock>>
    BY <1>1 DEF allVars, CartListsStep, AddressListsStep, paymentVars, platformVars, otherTopics
  <2> QED
    BY <2>1 DEF PaymentsOK
<1>2. CASE PaymentListsStep
  <2>1. ASSUME NEW w \in LWorkers, NEW u \in Owners, WritePayment(w, u)
        PROVE  PaymentsOK'
    <3>1. CASE InsertPayment(w) /\ pjob[w].user = u /\ UNCHANGED clock
      <4> PICK row : row = [tx |-> pjob[w].tx, user |-> pjob[w].user, amount |-> pjob[w].amount,
                            status |-> "pending", paidAt |-> Null]
        OBVIOUS
      <4>1. row \in PaymentRow
        BY <3>1 DEF InsertPayment, PaymentsOK, PaymentRow, PaymentStatuses, Null
      <4>2. payments' = Append(payments, row)
        BY <3>1 DEF InsertPayment
      <4>3. payments' \in Seq(PaymentRow)
        BY <4>1, <4>2 DEF PaymentsOK
      <4> QED
        BY <3>1, <4>3 DEF InsertPayment, PaymentsOK, Idle
    <3>2. CASE \E p \in DOMAIN payments : PayPayment(w, p, u)
      <4> PICK p \in DOMAIN payments : PayPayment(w, p, u)
        BY <3>2
      <4> PICK row : row = [payments[p] EXCEPT !.status = "paid", !.paidAt = NOW]
        OBVIOUS
      <4>1. clock' = clock + 1 /\ clock' \in Nat
        BY DEF PayPayment, Tick, NOW, PaymentsOK
      <4>2. p \in 1..Len(payments) /\ payments[p] \in PaymentRow
        BY LenProperties, ElementOfSeq DEF PaymentsOK
      <4>3. row \in PaymentRow
        <5> PICK old, now : old = payments[p] /\ now = NOW
          OBVIOUS
        <5>1. old \in PaymentRow /\ now \in Nat /\ row = [old EXCEPT !.status = "paid", !.paidAt = now]
          BY <4>2 DEF NOW, PaymentsOK
        <5> QED
          BY <5>1 DEF PaymentRow, PaymentStatuses
      <4>4. payments' = [payments EXCEPT ![p] = row]
        BY DEF PayPayment
      <4>5. payments' \in Seq(PaymentRow)
        BY <4>2, <4>3, <4>4, ExceptSeq DEF PaymentsOK
      <4> QED
        BY <4>1, <4>5 DEF PayPayment, PaymentsOK
    <3> QED
      BY <2>1, <3>1, <3>2 DEF WritePayment
  <2>2. ASSUME NEW w \in LWorkers, NEW u \in Owners, CreatePayment(w, 1, u, PendingTransaction),
               UNCHANGED clock
        PROVE  PaymentsOK'
    BY <2>2 DEF CreatePayment, PendingTransaction, PaymentsOK
  <2>3. ASSUME NEW w \in LWorkers, UNCHANGED clock,
               PublishPaymentPaid(w) \/ DropPaymentJob(w) \/ ResendPaymentPaid(w)
        PROVE  PaymentsOK'
    BY <2>3 DEF PublishPaymentPaid, DropPaymentJob, ResendPaymentPaid, PaymentsOK, Idle
  <2>4. CASE PaymentServiceDies
    BY <2>4, SameHandlersAndOwners
    DEF PaymentServiceDies, PaymentServiceCrashes, otherTopics, PaymentsOK, Idle
  <2>5. ASSUME UNCHANGED <<paymentVars, otherTopics>>
        PROVE  PaymentsOK'
    BY <2>5 DEF paymentVars, otherTopics, PaymentsOK
  <2>6. PaymentsOK'
    BY <1>2, <2>1, <2>2, <2>3, <2>4, <2>5, SameHandlersAndOwners
    DEF PaymentListsStep, PaymentHandler, AnnouncePaid, otherTopics
  <2>7. UNCHANGED payments \/ \E w \in LWorkers, u \in Owners : WritePayment(w, u)
    BY <1>2, SameHandlersAndOwners
    DEF PaymentListsStep, PaymentHandler, AnnouncePaid, PublishPaymentPaid, CreatePayment,
        DropPaymentJob, ResendPaymentPaid, PaymentServiceDies, PaymentServiceCrashes, paymentVars
  <2> QED
    BY <1>2, <2>6, <2>7 DEF PaymentListsStep
<1> QED
  BY <1>1, <1>2 DEF Next

LEMMA TablesInitially == Init => CartIdsOK /\ PaymentsOK
BY PlatformAssumption, SameHandlersAndOwners
DEF Init, CartInit, CartRow, CartIdsOK, PaymentInit, PaymentsOK, Idle

TablesInv == AddressInv /\ CartIdsOK /\ PaymentsOK

LEMMA TablesInvCorrect == Spec => []TablesInv
BY AddressInitially, AddressStep, TablesInitially, CartIdsStep, PaymentSteps, PTL DEF Spec, TablesInv

-----------------------------------------------------------------------------
(* Who leaves a list outdated. *)

\* The rows of u in a table stay if no row comes to u, leaves u or is changed.
LEMMA CartsOfOther ==
    ASSUME CartIdsOK, NEW u \in Owners, NEW v, v # u, CartChange(v)
    PROVE  UNCHANGED CartsOf[u]
<1>1. \A c : (c \in DOMAIN carts /\ carts[c].owner = u)
                <=> (c \in DOMAIN carts' /\ carts'[c].owner = u)
  BY DEF CartChange, CartIdsOK
<1>2. \A c \in DOMAIN carts : carts[c].owner = u => carts'[c] = carts[c]
  BY <1>1 DEF CartChange, CartIdsOK
<1> QED
  BY <1>1, <1>2 DEF CartsOf

LEMMA AddressesOfOther ==
    ASSUME NEW u \in Owners,
           \A a : (a \in DOMAIN addresses /\ addresses[a].owner = u)
                   <=> (a \in DOMAIN addresses' /\ addresses'[a].owner = u),
           \A a \in DOMAIN addresses : addresses[a].owner = u => addresses'[a] = addresses[a]
    PROVE  UNCHANGED AddressesOf[u]
BY DEF AddressesOf

LEMMA PaymentsOfOther ==
    ASSUME PaymentsOK, NEW w \in LWorkers, NEW u \in Owners, NEW v, v # u, WritePayment(w, v)
    PROVE  UNCHANGED PaymentsOf[u]
<1>0. payments \in Seq(PaymentRow) /\ Len(payments) \in Nat /\ DOMAIN payments = 1..Len(payments)
  BY LenProperties DEF PaymentsOK
<1>1. /\ \A p : (p \in DOMAIN payments /\ payments[p].user = u)
                <=> (p \in DOMAIN payments' /\ payments'[p].user = u)
      /\ \A p \in DOMAIN payments : payments[p].user = u => payments'[p] = payments[p]
  <2>1. CASE InsertPayment(w) /\ pjob[w].user = v
    <3> PICK row : row = [tx |-> pjob[w].tx, user |-> pjob[w].user, amount |-> pjob[w].amount,
                          status |-> "pending", paidAt |-> Null]
      OBVIOUS
    <3>1. payments' = Append(payments, row) /\ row.user # u
      BY <2>1 DEF InsertPayment
    <3>2. pjob[w].user = row.user /\ row \in PaymentRow
      BY <2>1 DEF InsertPayment, PaymentsOK, PaymentRow, PaymentStatuses, Null
    <3>3. /\ DOMAIN payments' = DOMAIN payments \cup {Len(payments) + 1}
          /\ \A p \in DOMAIN payments : payments'[p] = payments[p]
          /\ payments'[Len(payments) + 1] = row
      BY <1>0, <3>1, <3>2
    <3>4. Len(payments) + 1 \notin DOMAIN payments
      BY <1>0
    <3> QED
      BY <3>1, <3>3, <3>4
  <2>2. CASE \E p \in DOMAIN payments : PayPayment(w, p, v)
    <3> PICK p \in DOMAIN payments : PayPayment(w, p, v)
      BY <2>2
    <3> PICK row : row = [payments[p] EXCEPT !.status = "paid", !.paidAt = NOW]
      OBVIOUS
    <3>1. payments[p] \in PaymentRow /\ payments[p].user = v
      BY <1>0, ElementOfSeq DEF PayPayment
    <3>2. row.user = v
      BY <3>1 DEF PaymentRow
    <3>3. payments' = [payments EXCEPT ![p] = row]
      BY DEF PayPayment
    <3> QED
      BY <3>1, <3>2, <3>3
  <2> QED
    BY <2>1, <2>2 DEF WritePayment
<1> QED
  BY <1>1 DEF PaymentsOf

\* The steps of the addresses that change the rows of an owner.
LEMMA AddressWrites ==
    ASSUME AddressInv, ListDomains, NEW u \in Owners, AddressListsStep,
           ~UNCHANGED AddressesOf[u]
    PROVE  \E w \in LWorkers : ljob'[w] = [phase |-> "clear", owner |-> u]
<1>0. ASSUME NEW w \in LWorkers, NEW v \in Owners, NEW t, NEW a, Announce(w, v, t, a)
      PROVE  ljob'[w] = [phase |-> "clear", owner |-> v]
  BY <1>0 DEF Announce, WillClear, ListDomains
<1>1. ASSUME UNCHANGED addresses
      PROVE  FALSE
  BY <1>1 DEF AddressesOf
<1>2. ASSUME NEW w \in LWorkers, NEW v \in Owners, NEW content, CreateAddress(w, v, content)
      PROVE  ljob'[w] = [phase |-> "clear", owner |-> v] /\ v = u
  <2>1. nextAddress \notin DOMAIN addresses
    BY DEF AddressInv, AddressTableOK
  <2>2. /\ DOMAIN addresses' = DOMAIN addresses \cup {nextAddress}
        /\ \A a \in DOMAIN addresses : addresses'[a] = addresses[a]
        /\ addresses'[nextAddress].owner = v
    BY <1>2, <2>1 DEF CreateAddress, AddressRow
  <2>3. v = u
    BY <2>1, <2>2, AddressesOfOther
  <2> QED
    BY <1>0, <1>2, <2>3 DEF CreateAddress
<1>3. ASSUME NEW w \in LWorkers, NEW a \in DOMAIN addresses, NEW content, UpdateAddress(w, a, content)
      PROVE  ljob'[w] = [phase |-> "clear", owner |-> u]
  <2>1. addresses[a] \in [owner : Owners, content : AddressContents]
    BY DEF AddressInv, AddressTableOK
  <2>2. /\ DOMAIN addresses' = DOMAIN addresses
        /\ \A b \in DOMAIN addresses : b # a => addresses'[b] = addresses[b]
        /\ addresses'[a].owner = addresses[a].owner
    BY <1>3, <2>1 DEF UpdateAddress
  <2>3. addresses[a].owner = u
    BY <2>2, AddressesOfOther
  <2> QED
    BY <1>0, <1>3, <2>3 DEF UpdateAddress
<1>4. ASSUME NEW w \in LWorkers, DeleteAddressRow(w)
      PROVE  ljob'[w] = [phase |-> "clear", owner |-> u]
  <2> PICK a : a = ajob[w].id
    OBVIOUS
  <2>1. /\ ajob[w].owner \in Owners
        /\ a \in DOMAIN addresses => addresses[a].owner = ajob[w].owner
    BY <1>4 DEF DeleteAddressRow, AddressInv, AddressJobOK, AIdle, Deleting
  <2>2. /\ DOMAIN addresses' = DOMAIN addresses \ {a}
        /\ \A b \in DOMAIN addresses' : addresses'[b] = addresses[b]
    BY <1>4 DEF DeleteAddressRow, Restrict
  <2>3. ajob[w].owner = u
    BY <2>1, <2>2, AddressesOfOther
  <2> QED
    BY <1>0, <1>4, <2>3 DEF DeleteAddressRow
<1> QED
  BY <1>1, <1>2, <1>3, <1>4
  DEF AddressListsStep, AddressNext, AddressRequest, AddressWork, DeleteAddress, PublishAddress,
      ResendAddress, DeleteAddressFails, AddressServiceCrashes, addressVars, addressTable

\* A step that changes the rows of u is about to delete the list of u, or it is the
\* consumer of "cart.paid".
LEMMA TableWrites ==
    ASSUME TablesInv, ListDomains, NEW u \in Owners, [Next]_allVars, ~UNCHANGED Table[u]
    PROVE  \/ \E w \in LWorkers : ljob'[w] = [phase |-> "clear", owner |-> u]
           \/ HasMessage(cartPaid) /\ cartPaid' = Consumed(cartPaid)
<1> USE DEF TablesInv
<1>1. CASE UNCHANGED allVars
  BY <1>1 DEF allVars, Table, AddressesOf, CartsOf, PaymentsOf, cartVars, paymentVars, addressVars,
              addressTable
<1>2. CASE AddressListsStep
  <2>1. ~UNCHANGED AddressesOf[u]
    BY <1>2 DEF AddressListsStep, Table
  <2> QED
    BY <1>2, <2>1, AddressWrites
<1>3. CASE CartListsStep
  <2>1. ~UNCHANGED CartsOf[u]
    BY <1>3 DEF CartListsStep, Table
  <2>2. CASE UNCHANGED cartVars
    BY <2>1, <2>2 DEF cartVars, CartsOf
  <2>3. CASE HandleCartCheckedOut
    BY <2>3 DEF HandleCartCheckedOut
  <2>4. ASSUME NEW w \in LWorkers, NEW v \in Owners, WriteCart(w, v), CartChange(v)
        PROVE  ljob'[w] = [phase |-> "clear", owner |-> u]
    <3>1. v = u
      BY <2>1, <2>4, CartsOfOther
    <3> QED
      BY <2>4, <3>1 DEF WriteCart, WillClear, ListDomains
  <2> QED
    BY <2>2, <2>3, <2>4, CartSteps
<1>4. CASE PaymentListsStep
  <2>1. ~UNCHANGED PaymentsOf[u]
    BY <1>4 DEF PaymentListsStep, Table
  <2>2. CASE UNCHANGED payments
    BY <2>1, <2>2 DEF PaymentsOf
  <2>3. ASSUME NEW w \in LWorkers, NEW v \in Owners, WritePayment(w, v)
        PROVE  ljob'[w] = [phase |-> "clear", owner |-> u]
    <3>1. v = u
      BY <2>1, <2>3, PaymentsOfOther
    <3> QED
      BY <2>3, <3>1 DEF WritePayment, WillClear, ListDomains
  <2> QED
    BY <2>2, <2>3, PaymentSteps
<1> QED
  BY <1>1, <1>2, <1>3, <1>4 DEF Next

\* A step that sets the list of u sets what a listing had read for u.
LEMMA ListSets ==
    ASSUME ListDomains, ListsRest \/ ListsWork \/ ListsDie, NEW u \in Owners
    PROVE  \/ UNCHANGED lists[u]
           \/ lists'[u] = NoList
           \/ \E w \in LWorkers : /\ ljob[w].phase = "save" /\ ljob[w].owner = u
                                  /\ lists'[u] = Cached(ljob[w].rows)
                                  /\ UNCHANGED Table[u]
<1>1. CASE ListsRest \/ ListsDie
  BY <1>1 DEF ListsRest, ListsDie, ListersDie
<1>2. CASE ListsWork
  <2>0. UNCHANGED Table[u]
    BY <1>2 DEF ListsWork, Table, AddressesOf, CartsOf, PaymentsOf
  <2>1. ASSUME NEW w \in LWorkers, SaveList(w)
        PROVE  \/ UNCHANGED lists[u]
               \/ ljob[w].phase = "save" /\ ljob[w].owner = u /\ lists'[u] = Cached(ljob[w].rows)
    BY <2>1, ListSet DEF SaveList, ListDomains, LIdle
  <2>2. ASSUME NEW w \in LWorkers, ClearList(w) \/ SelectRows(w, Table) \/ ListFails(w)
        PROVE  UNCHANGED lists[u] \/ lists'[u] = NoList
    BY <2>2, ListSet DEF ClearList, SelectRows, ListFails, ListDomains, LIdle
  <2>3. ASSUME NEW v \in Owners, ListExpires(v)
        PROVE  UNCHANGED lists[u] \/ lists'[u] = NoList
    BY <2>3, ListSet DEF ListExpires
  <2> QED
    BY <1>2, <2>0, <2>1, <2>2, <2>3 DEF ListsWork, ListStep, ListWork
<1> QED
  BY <1>1, <1>2

\* A cached list becomes outdated in three ways only: by a write whose handler goes
\* on to delete the list of that very owner, by the Set of a listing whose copy was
\* outdated already, or by a turn of the consumer of cart.paid, for any number of
\* owners, handlers and rows.
THEOREM OutdatedByRaceCorrect == Spec => OutdatedByRace
<1>1. ASSUME TablesInv, ListDomains, [Next]_allVars, NEW u \in Owners,
             ~ListOf(u)!Outdated, ListOf(u)!Outdated'
      PROVE  \/ \E w \in LWorkers : ljob'[w] = [phase |-> "clear", owner |-> u]
             \/ \E w \in LWorkers : /\ ljob[w].phase = "save" /\ ljob[w].owner = u
                                    /\ ljob[w].rows # Table[u]
             \/ HasMessage(cartPaid) /\ cartPaid' = Consumed(cartPaid)
  <2>1. lists'[u].cached /\ lists'[u].rows # Table'[u]
    BY <1>1 DEF ListOf!Outdated
  <2>2. lists[u].cached => lists[u].rows = Table[u]
    BY <1>1 DEF ListOf!Outdated
  <2>3. CASE UNCHANGED lists[u]
    BY <1>1, <2>1, <2>2, <2>3, TableWrites
  <2>4. CASE lists'[u] = NoList
    BY <2>1, <2>4 DEF NoList
  <2>5. ASSUME NEW w \in LWorkers, ljob[w].phase = "save", ljob[w].owner = u,
               lists'[u] = Cached(ljob[w].rows), UNCHANGED Table[u]
        PROVE  ljob[w].rows # Table[u]
    BY <2>1, <2>5 DEF Cached
  <2> QED
    BY <1>1, <2>3, <2>4, <2>5, ListSets, StepKinds DEF TablesInv
<1>2. TablesInv /\ ListDomains /\ [Next]_allVars =>
        [\A u \in Owners : ~ListOf(u)!Outdated /\ ListOf(u)!Outdated' =>
            \/ \E w \in LWorkers : ljob'[w] = [phase |-> "clear", owner |-> u]
            \/ \E w \in LWorkers : /\ ljob[w].phase = "save" /\ ljob[w].owner = u
                                   /\ ljob[w].rows # Table[u]
            \/ HasMessage(cartPaid) /\ cartPaid' = Consumed(cartPaid)]_allVars
  BY <1>1
<1> QED
  BY <1>2, TablesInvCorrect, ListsInvCorrect, PTL DEF Spec, OutdatedByRace

-----------------------------------------------------------------------------
(* Types: what the lists and the listings hold are rows of a table. *)

RowsOK(rows) == \A row \in rows : row[1] \in Nat \ {0}

ListRowsOK ==
    /\ \A w \in LWorkers : ljob[w].phase = "save" => RowsOK(ljob[w].rows)
    /\ \A u \in Owners : ListShape(lists[u])

LEMMA TableRows ==
    ASSUME TablesInv, NEW u \in Owners
    PROVE  RowsOK(Table[u])
<1>1. RowsOK(AddressesOf[u])
  BY DEF RowsOK, AddressesOf, TablesInv, AddressInv, AddressTableOK
<1>2. RowsOK(CartsOf[u])
  BY DEF RowsOK, CartsOf, TablesInv, CartIdsOK
<1>3. \A p \in DOMAIN payments : p \in Nat \ {0}
  BY LenProperties DEF TablesInv, PaymentsOK
<1>4. RowsOK(PaymentsOf[u])
  BY <1>3 DEF RowsOK, PaymentsOf
<1> QED
  BY <1>1, <1>2, <1>4 DEF Table

LEMMA ListRowsStep ==
    ASSUME TablesInv, ListDomains, ListRowsOK, [Next]_allVars
    PROVE  ListRowsOK'
<1>0. ListsRest \/ ListsWork \/ ListsDie
  BY StepKinds DEF TablesInv
<1>1. ASSUME NEW u \in Owners
      PROVE  ListShape(lists'[u])
  <2>1. \/ lists'[u] = lists[u]
        \/ lists'[u] = NoList
        \/ \E w \in LWorkers : ljob[w].phase = "save" /\ lists'[u] = Cached(ljob[w].rows)
    BY <1>0, ListSets
  <2>2. ASSUME NEW w \in LWorkers, ljob[w].phase = "save"
        PROVE  ListShape(Cached(ljob[w].rows))
    BY <2>2 DEF ListRowsOK, ListShape, RowsOK, Cached
  <2>3. ListShape(lists[u]) /\ ListShape(NoList)
    BY DEF ListRowsOK, ListShape
  <2> QED
    BY <2>1, <2>2, <2>3
<1>2. ASSUME NEW w \in LWorkers, ljob'[w].phase = "save"
      PROVE  RowsOK(ljob'[w].rows)
  <2>1. CASE ljob'[w] = ljob[w]
    BY <1>2, <2>1 DEF ListRowsOK
  <2>2. CASE ljob'[w] # ljob[w]
    <3>1. ListsWork
      <4>1. ASSUME ListsRest PROVE FALSE
        BY <1>2, <2>2, <4>1 DEF ListsRest, Begins, ListDomains
      <4>2. ASSUME ListsDie PROVE FALSE
        BY <1>2, <4>2 DEF ListsDie, ListersDie, LIdle
      <4> QED
        BY <1>0, <4>1, <4>2
    <3>2. SelectRows(w, Table)
      <4>1. ASSUME NEW v \in LWorkers, ClearList(v) \/ SaveList(v) \/ ListFails(v)
            PROVE  FALSE
        BY <1>2, <2>2, <4>1 DEF ClearList, SaveList, ListFails, ListDomains, LIdle
      <4>2. ASSUME NEW v \in LWorkers, SelectRows(v, Table)
            PROVE  v = w
        BY <2>2, <4>2 DEF SelectRows, ListDomains
      <4>3. ASSUME NEW u \in Owners, ListExpires(u)
            PROVE  FALSE
        BY <2>2, <4>3 DEF ListExpires
      <4> QED
        BY <3>1, <4>1, <4>2, <4>3 DEF ListsWork, ListStep, ListWork
    <3>3. ljob[w].owner \in Owners
      BY <3>2 DEF SelectRows, ListDomains, LIdle
    <3>4. \E copy \in SUBSET Table[ljob[w].owner] : ljob'[w].rows = copy
      BY <3>2 DEF SelectRows, ListDomains
    <3> QED
      BY <3>3, <3>4, TableRows DEF RowsOK
  <2> QED
    BY <2>1, <2>2
<1> QED
  BY <1>1, <1>2 DEF ListRowsOK, ListShape, RowsOK

\* The address table, its topics and handlers, and the lists have their types: what
\* a key or a listing holds are rows with ids, of whichever service is followed.
THEOREM ListsTypeOKCorrect == Spec => []ListsTypeOK
<1>1. Init => ListRowsOK
  BY DEF Init, ListInit, ListRowsOK, ListShape, LIdle
<1>2. Spec => []ListRowsOK
  BY <1>1, TablesInvCorrect, ListsInvCorrect, ListRowsStep, PTL DEF Spec
<1>3. ASSUME TablesInv, ListDomains, ListRowsOK
      PROVE  ListsTypeOK
  <2>1. \A w \in LWorkers : ListJobOK(ljob[w])
    BY <1>3 DEF ListDomains, ListRowsOK, ListJobOK, ListShape, RowsOK, Cached
  <2> QED
    BY <1>3, <2>1
    DEF TablesInv, AddressInv, AddressTableOK, AddressLogsOK, ListRowsOK, ListsTypeOK
<1> QED
  BY <1>2, <1>3, TablesInvCorrect, ListsInvCorrect, PTL
=============================================================================
