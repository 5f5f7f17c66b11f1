----------------------------- MODULE OwnerLists -----------------------------
(***************************************************************************)
(* The cached lists of address-service, cart-service, payment-service and  *)
(* user-service, one Redis key for each owner, and the part of a handler   *)
(* that deals with them: Get, SELECT and Set in a listing, Del after the   *)
(* commit of a write.  The four services have the same code; the table is  *)
(* the parameter of SelectRows.                                            *)
(***************************************************************************)
EXTENDS Integers, FiniteSets

CONSTANTS
    Owners,           \* whose lists there are
    LWorkers,         \* concurrent request handlers of the service
    ListFaults        \* which faults may happen, see ListFaultKinds

ListFaultKinds ==
    {"error",     \* the SELECT fails and the listing returns the error
     "redis",     \* a Redis command fails, which is at most logged
     "cut"}       \* the connection breaks while the rows are read

ASSUME ListAssumption == ListFaults \subseteq ListFaultKinds

VARIABLES
    lists,            \* owner -> what Redis has under the key of the owner
    ljob              \* worker -> what its handler is about to do with lists

listVars == <<lists, ljob>>

NoList == [cached |-> FALSE]

Cached(copy) == [cached |-> TRUE, rows |-> copy]

LIdle == [phase |-> "idle"]

NotListing(w) == ljob[w] = LIdle

RedisFails == "redis" \in ListFaults

ListInit ==
    /\ lists = [u \in Owners |-> NoList]
    /\ ljob = [w \in LWorkers |-> LIdle]

-----------------------------------------------------------------------------
(* A write: its handler has committed, and the Del is still to come. *)

WillClear(w, u) ==
    /\ NotListing(w)
    /\ ljob' = [ljob EXCEPT ![w] = [phase |-> "clear", owner |-> u]]

\* Redis.Del, whose error nobody looks at.
ClearList(w) ==
    /\ ljob[w].phase = "clear"
    /\ \/ lists' = [lists EXCEPT ![ljob[w].owner] = NoList]
       \/ RedisFails /\ UNCHANGED lists
    /\ ljob' = [ljob EXCEPT ![w] = LIdle]

-----------------------------------------------------------------------------
(* A listing.  A hit answers what Redis has, and is no step. *)

ListRows(w, u) ==
    /\ NotListing(w)
    /\ lists[u] = NoList \/ RedisFails
    /\ ljob' = [ljob EXCEPT ![w] = [phase |-> "query", owner |-> u]]
    /\ UNCHANGED lists

\* (variant) the SELECT has no WHERE owner_id = $1
SelectRows_OfAll(w, table) ==
    /\ ljob[w].phase = "query"
    /\ ljob' = [ljob EXCEPT ![w] =
                  [phase |-> "save", owner |-> ljob[w].owner,
                   rows |-> UNION {table[u] : u \in Owners}]]
    /\ UNCHANGED lists

\* The SELECT and the loop over its rows, of which some may not arrive.
SelectRows(w, table) ==
    /\ ljob[w].phase = "query"
    /\ LET found == table[ljob[w].owner]
       IN  \E copy \in (IF "cut" \in ListFaults THEN SUBSET found ELSE {found}) :
              ljob' = [ljob EXCEPT ![w] =
                          [phase |-> "save", owner |-> ljob[w].owner, rows |-> copy]]
    /\ UNCHANGED lists

SaveList(w) ==
    /\ ljob[w].phase = "save"
    /\ \/ lists' = [lists EXCEPT ![ljob[w].owner] = Cached(ljob[w].rows)]
       \/ RedisFails /\ UNCHANGED lists
    /\ ljob' = [ljob EXCEPT ![w] = LIdle]

\* (variant) Set without a time to live
ListExpires_Never(u) == FALSE /\ u \in Owners /\ UNCHANGED listVars

\* Some time after the Set: 30 seconds for users:all, else five minutes.
ListExpires(u) ==
    /\ lists[u].cached
    /\ lists' = [lists EXCEPT ![u] = NoList]
    /\ UNCHANGED ljob

\* The SELECT returns an error, and so does the listing.
ListFails(w) ==
    /\ "error" \in ListFaults
    /\ ljob[w].phase = "query"
    /\ ljob' = [ljob EXCEPT ![w] = LIdle]
    /\ UNCHANGED lists

\* The process dies: what its handlers were about to do is not done.
ListersDie ==
    /\ ljob' = [w \in LWorkers |-> LIdle]
    /\ UNCHANGED lists

-----------------------------------------------------------------------------

\* What a handler that has begun does next with the lists.
ListWork(w, table) == ClearList(w) \/ SelectRows(w, table) \/ SaveList(w)

ListStep(table) ==
    \/ \E w \in LWorkers : ListWork(w, table) \/ ListFails(w)
    \/ \E u \in Owners : ListExpires(u)

\* What worker w has read for the key of owner u and not yet set.
TakenFor(u) ==
    [w \in LWorkers |->
        IF ljob[w].phase = "save" /\ ljob[w].owner = u THEN Cached(ljob[w].rows)
        ELSE NoList]
=============================================================================
