--------------------------- MODULE AddressService ---------------------------
(***************************************************************************)
(* The address service: its table, the cached list of each owner, and its  *)
(* events.  Each statement commits by itself; the Del and the event that   *)
(* follow a write are tried once and have no error path.  Of an event only *)
(* the topic and the id of the address are kept.                           *)
(***************************************************************************)
EXTENDS OwnerLists, Sequences, Functions

CONSTANTS
    AddressContents,  \* what name and desc of an address may be
    AddressFaults,    \* which faults may happen, see AddressFaultKinds
    MaxAddresses,     \* bound: addresses ever inserted
    MaxAddressEvents  \* bound: messages of a topic

AddressFaultKinds ==
    {"error",     \* the DELETE fails and the handler returns the error
     "drop",      \* a message is not sent; the error is only logged
     "resend",    \* the broker appends a message and the ack is lost
     "crash"}     \* the process dies and is started again

ASSUME AddressAssumption ==
    /\ AddressFaults \subseteq AddressFaultKinds
    /\ MaxAddresses \in Nat
    /\ MaxAddressEvents \in Nat

VARIABLES
    addresses,        \* the table: id -> [owner, content]
    nextAddress,      \* its next serial
    addressLogs,      \* the topics' logs
    ajob              \* worker -> what its handler has in its local variables

addressTable == <<addresses, nextAddress>>

addressVars == <<addressTable, addressLogs, ajob>>

AddressTopics == {"address.created", "address.updated", "address.deleted"}

AIdle == [phase |-> "idle"]

\* A worker without a request.
AFree(w) == ajob[w] = AIdle /\ NotListing(w)

AddressRow(u, content) == [owner |-> u, content |-> content]

AddressInit ==
    /\ addresses = <<>>
    /\ nextAddress = 1
    /\ addressLogs = [t \in AddressTopics |-> <<>>]
    /\ ajob = [w \in LWorkers |-> AIdle]

-----------------------------------------------------------------------------

\* What is left after a write: the Del of the owner's list, then the event.
Announce(w, u, topic, a) ==
    /\ WillClear(w, u)
    /\ ajob' = [ajob EXCEPT ![w] = [phase |-> "publish", topic |-> topic, id |-> a]]
    /\ UNCHANGED <<lists, addressLogs>>

\* A handler may yet add a message to the topic: none starts beyond the bound.
RoomFor(topic) == Len(addressLogs[topic]) + Cardinality(LWorkers) <= MaxAddressEvents

\* (variant) the id of a row is not taken from the serial
CreateAddress_SameSerial(w, u, content) ==
    /\ AFree(w) /\ nextAddress <= MaxAddresses /\ RoomFor("address.created")
    /\ addresses' = [a \in DOMAIN addresses \cup {nextAddress} |->
                        IF a = nextAddress THEN AddressRow(u, content) ELSE addresses[a]]
    /\ UNCHANGED nextAddress
    /\ Announce(w, u, "address.created", nextAddress)

CreateAddress(w, u, content) ==
    /\ AFree(w) /\ nextAddress <= MaxAddresses /\ RoomFor("address.created")
    /\ addresses' = [a \in DOMAIN addresses \cup {nextAddress} |->
                        IF a = nextAddress THEN AddressRow(u, content) ELSE addresses[a]]
    /\ nextAddress' = nextAddress + 1
    /\ Announce(w, u, "address.created", nextAddress)

\* (variant) the list deleted is the one of the user who asks
UpdateAddress_AskersList(w, a, content) ==
    /\ AFree(w) /\ RoomFor("address.updated")
    /\ a \in DOMAIN addresses
    /\ addresses' = [addresses EXCEPT ![a].content = content]
    /\ UNCHANGED nextAddress
    /\ \E u \in Owners : Announce(w, u, "address.updated", a)

\* An UPDATE by id alone; RETURNING says whose list is outdated now.
UpdateAddress(w, a, content) ==
    /\ AFree(w) /\ RoomFor("address.updated")
    /\ a \in DOMAIN addresses
    /\ addresses' = [addresses EXCEPT ![a].content = content]
    /\ UNCHANGED nextAddress
    /\ Announce(w, addresses[a].owner, "address.updated", a)

\* The SELECT of the owner, who must be the one who asks.
DeleteAddress(w, a, u) ==
    /\ AFree(w) /\ RoomFor("address.deleted")
    /\ a \in DOMAIN addresses
    /\ addresses[a].owner = u
    /\ ajob' = [ajob EXCEPT ![w] = [phase |-> "delete", id |-> a, owner |-> u]]
    /\ UNCHANGED <<addressTable, addressLogs, listVars>>

\* (variant) the event is sent although the DELETE was not executed
DeleteAddressRow_NoDelete(w) ==
    /\ ajob[w].phase = "delete"
    /\ Announce(w, ajob[w].owner, "address.deleted", ajob[w].id)
    /\ UNCHANGED addressTable

\* The DELETE, which may find no row any more.
DeleteAddressRow(w) ==
    /\ ajob[w].phase = "delete"
    /\ addresses' = Restrict(addresses, DOMAIN addresses \ {ajob[w].id})
    /\ UNCHANGED nextAddress
    /\ Announce(w, ajob[w].owner, "address.deleted", ajob[w].id)

\* The message is appended, or the error is logged.
PublishAddress(w) ==
    /\ ajob[w].phase = "publish" /\ NotListing(w)
    /\ \/ addressLogs' = [addressLogs EXCEPT ![ajob[w].topic] = Append(@, ajob[w].id)]
       \/ "drop" \in AddressFaults /\ UNCHANGED addressLogs
    /\ ajob' = [ajob EXCEPT ![w] = AIdle]
    /\ UNCHANGED <<addressTable, listVars>>

\* The broker has the message, the producer does not know and sends again.
ResendAddress(w) ==
    /\ "resend" \in AddressFaults
    /\ ajob[w].phase = "publish" /\ NotListing(w)
    /\ RoomFor(ajob[w].topic)
    /\ addressLogs' = [addressLogs EXCEPT ![ajob[w].topic] = Append(@, ajob[w].id)]
    /\ UNCHANGED <<addressTable, ajob, listVars>>

DeleteAddressFails(w) ==
    /\ "error" \in AddressFaults
    /\ ajob[w].phase = "delete"
    /\ ajob' = [ajob EXCEPT ![w] = AIdle]
    /\ UNCHANGED <<addressTable, addressLogs, listVars>>

AddressServiceCrashes ==
    /\ "crash" \in AddressFaults
    /\ ajob' = [w \in LWorkers |-> AIdle]
    /\ ListersDie
    /\ UNCHANGED <<addressTable, addressLogs>>

-----------------------------------------------------------------------------

\* SELECT .. FROM addresses WHERE owner_id = $1, for each owner.
AddressesOf ==
    [u \in Owners |-> {<<a, addresses[a]>> : a \in {b \in DOMAIN addresses : addresses[b].owner = u}}]

AddressRequest(w) ==
    \/ \E u \in Owners, content \in AddressContents : CreateAddress(w, u, content)
    \/ \E a \in DOMAIN addresses, content \in AddressContents : UpdateAddress(w, a, content)
    \/ \E a \in DOMAIN addresses, u \in Owners : DeleteAddress(w, a, u)
    \/ \E u \in Owners : AFree(w) /\ ListRows(w, u) /\ UNCHANGED addressVars

\* What a handler that has begun does next, apart from its list.
AddressWork(w) == DeleteAddressRow(w) \/ PublishAddress(w)

AddressNext ==
    \/ \E w \in LWorkers :
          AddressRequest(w) \/ AddressWork(w) \/ ResendAddress(w) \/ DeleteAddressFails(w)
    \/ ListStep(AddressesOf) /\ UNCHANGED addressVars
    \/ AddressServiceCrashes
=============================================================================
