---------------------------- MODULE SearchService ---------------------------
(***************************************************************************)
(* The search service: one consumer group, which keeps Elasticsearch       *)
(* indices of what other services announce.  Each claimed partition has a  *)
(* goroutine of its own, so the topics are read independently of each      *)
(* other.  The topics of products, of addresses and of users each have an  *)
(* index, which no other topic touches: the module is about one of them,   *)
(* and SearchTopics are the topics of that one.                            *)
(*                                                                         *)
(* sarama commits the marked offsets now and then; a new session starts    *)
(* each claim at the committed offset or, without one, at OffsetOldest.    *)
(***************************************************************************)
EXTENDS Integers, Sequences, Functions

CONSTANTS
    SearchTopics,     \* the topics the index is made from
    SearchFaults,     \* which faults may happen, see SearchFaultKinds
    MaxSessions       \* bound: sessions of the group

SearchFaultKinds ==
    {"elastic",   \* Elasticsearch is out of order for some time
     "rebalance"} \* the session ends: the process died, or the group changed

ASSUME SearchAssumption ==
    /\ SearchFaults \subseteq SearchFaultKinds
    /\ MaxSessions \in Nat

VARIABLES
    index,            \* the Elasticsearch index: id -> document
    elasticUp,        \* whether Elasticsearch does what it is asked
    session,          \* how many sessions there were, and whether one is on
    position,         \* topic -> how many of its messages the claim has handled
    committed         \* topic -> the group's committed offset, or NoOffset

searchVars == <<index, elasticUp, session, position, committed>>

NoOffset == -1

SearchInit ==
    /\ index = <<>>
    /\ elasticUp = TRUE
    /\ session = [number |-> 0, on |-> FALSE]
    /\ position = [t \in SearchTopics |-> 0]
    /\ committed = [t \in SearchTopics |-> NoOffset]

\* (variant) the group starts at OffsetNewest
ClaimedAt_Newest(t, log) == IF committed[t] = NoOffset THEN Len(log[t]) ELSE committed[t]

\* Consumer.Offsets.Initial is OffsetOldest.
ClaimedAt(t, log) == IF committed[t] = NoOffset THEN 0 ELSE committed[t]

\* Consume: the group is joined and every topic claimed.
JoinGroup(log) ==
    /\ ~session.on /\ session.number < MaxSessions
    /\ session' = [number |-> session.number + 1, on |-> TRUE]
    /\ position' = [t \in SearchTopics |-> ClaimedAt(t, log)]
    /\ UNCHANGED <<index, elasticUp, committed>>

DeletingTopics == {"product.deleted", "address.deleted"}

\* A PUT replaces the document as a whole; the DELETE of an id that is not
\* indexed is a 404, an error like any other.
Indexed(t, message) ==
    IF t \in DeletingTopics THEN Restrict(index, DOMAIN index \ {message.id})
    ELSE [p \in DOMAIN index \cup {message.id} |->
             IF p = message.id THEN message.doc ELSE index[p]]

\* One turn of the loop of ConsumeClaim.  An error of Elasticsearch is logged,
\* and the message is marked all the same.
ConsumeClaim(t, log) ==
    /\ session.on /\ position[t] < Len(log[t])
    /\ index' = IF elasticUp THEN Indexed(t, log[t][position[t] + 1]) ELSE index
    /\ position' = [position EXCEPT ![t] = @ + 1]
    /\ UNCHANGED <<elasticUp, session, committed>>

ElasticsearchFails ==
    /\ "elastic" \in SearchFaults /\ elasticUp
    /\ elasticUp' = FALSE
    /\ UNCHANGED <<index, session, position, committed>>

ElasticsearchRecovers ==
    /\ ~elasticUp
    /\ elasticUp' = TRUE
    /\ UNCHANGED <<index, session, position, committed>>

\* (variant) the committed offset is one beyond the message after the marked one
CommitOffset_Beyond(t) ==
    /\ session.on /\ position[t] # committed[t] /\ position[t] > 0
    /\ committed' = [committed EXCEPT ![t] = position[t] + 1]
    /\ UNCHANGED <<index, elasticUp, session, position>>

\* sarama's auto-commit, of one claim.
CommitOffset(t) ==
    /\ session.on /\ position[t] # committed[t] /\ position[t] > 0
    /\ committed' = [committed EXCEPT ![t] = position[t]]
    /\ UNCHANGED <<index, elasticUp, session, position>>

\* The session ends with what is committed; main calls Consume again.  The last
\* session of the bound goes on.
EndSession ==
    /\ "rebalance" \in SearchFaults
    /\ session.on /\ session.number < MaxSessions
    /\ session' = [session EXCEPT !.on = FALSE]
    /\ UNCHANGED <<index, elasticUp, position, committed>>
=============================================================================
