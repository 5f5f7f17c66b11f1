----------------------------- MODULE ListCache ------------------------------
(***************************************************************************)
(* What a service promises of a list that it keeps in Redis beside the     *)
(* table it was read from, for one key: addresses:<owner>, carts:<owner>,  *)
(* payments:<user>, products:all and users:all are all used in this way.   *)
(*                                                                         *)
(* The table is written by whoever writes it.  A reader takes a copy of    *)
(* the rows and puts it into Redis some time later, whatever was written   *)
(* meanwhile; the key may vanish at any time, by a Del or by its expiry.   *)
(* The list is therefore never made up: it is what the table held at one   *)
(* moment, or the part of it that arrived before the connection broke      *)
(* (rows.Next() ends the loop then, and nobody asks rows.Err()).           *)
(***************************************************************************)
CONSTANT Readers      \* those that may be filling the key at the same time

VARIABLES
    rows,             \* the rows of the table that the list is to show, a set
    list,             \* the Redis key
    taken             \* reader -> the copy it has not yet put into Redis

listCacheVars == <<rows, list, taken>>

\* Redis has no such key, or a reader holds no copy.
NoList == [cached |-> FALSE]

Cached(copy) == [cached |-> TRUE, rows |-> copy]

Init ==
    /\ list = NoList
    /\ taken = [r \in Readers |-> NoList]

Write == UNCHANGED <<list, taken>>

TakeRows(r, copy) ==
    /\ copy \subseteq rows
    /\ taken' = [taken EXCEPT ![r] = Cached(copy)]
    /\ UNCHANGED <<rows, list>>

Take(r) == TakeRows(r, rows)

TakePart(r) == \E copy \in (SUBSET rows) \ {rows} : TakeRows(r, copy)

Fill(r) ==
    /\ taken[r].cached
    /\ list' = taken[r]
    /\ taken' = [taken EXCEPT ![r] = NoList]
    /\ UNCHANGED rows

Vanish ==
    /\ list' = NoList
    /\ UNCHANGED <<rows, taken>>

\* Readers that end without a Set: an error, a crash.
Abandon ==
    /\ \E gone \in SUBSET Readers :
          taken' = [r \in Readers |-> IF r \in gone THEN NoList ELSE taken[r]]
    /\ UNCHANGED <<rows, list>>

Next ==
    \/ Write
    \/ \E r \in Readers : Take(r) \/ TakePart(r) \/ Fill(r)
    \/ Vanish
    \/ Abandon

Spec == Init /\ [][Next]_listCacheVars

Outdated == list.cached /\ list.rows # rows

\* An outdated list does not stay: once the table is written no more, and no
\* reply of the database is cut short any more, Redis has the rows of the table
\* or nothing, for ever.
Converges ==
    /\ <>[][FALSE]_rows
    /\ <>[][\A r \in Readers : ~TakePart(r)]_listCacheVars
    => <>[]~Outdated
=============================================================================
