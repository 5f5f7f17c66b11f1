------------------------------ MODULE Accounts ------------------------------
(***************************************************************************)
(* A registered user as the other services know it: the copy of            *)
(* user-service with the list "users:all" that GetUsers caches, and the    *)
(* document of search-service.  The list and the index do not meet: a      *)
(* behaviour follows one of them, named by view.                           *)
(*                                                                         *)
(* GetMe and GetUserInfo cache one user each.  Rows of users never change, *)
(* so what they answer is the row, and they are left out.                  *)
(***************************************************************************)
EXTENDS UserRegistration, SearchService, OwnerLists

VARIABLE view         \* "list" or "index"; never changes

\* GORM reports rows.Err(): a list is never cut off.
ASSUME AccountsAssumption ==
    /\ SearchTopics = {"user.created"}
    /\ Owners = {"users:all"}
    /\ "cut" \notin ListFaults

allVars == <<accountVars, searchVars, listVars, view>>

\* The logs that search-service reads.
Logs == [t \in SearchTopics |-> userLog]

\* SELECT id, email, name, role FROM users.
UsersTable == [u \in Owners |-> {<<a, users[a]>> : a \in DOMAIN users}]

Init ==
    /\ RegistrationInit /\ SearchInit /\ ListInit
    /\ view \in {"list", "index"}

\* (variant) the consumer writes the user into the list, stored or not
RegistrationStep_WriteThrough ==
    /\ RegistrationNext
    /\ IF "users" \in down' \ down THEN ListersDie
       ELSE /\ lists' = [u \in Owners |->
                           IF lists[u].cached /\ "users" \notin down /\ handled' > handled
                           THEN LET message == userLog[handled + 1]
                                IN  Cached(lists[u].rows \cup {<<message.id, message.doc>>})
                           ELSE lists[u]]
            /\ UNCHANGED ljob
    /\ UNCHANGED searchVars

RegistrationStep ==
    /\ RegistrationNext
    /\ IF "users" \in down' \ down THEN ListersDie ELSE UNCHANGED listVars
    /\ UNCHANGED searchVars

GetUsers(w) == \E u \in Owners : ListRows(w, u)

\* Handlers need the process, Redis does not.
ListUsersStep ==
    /\ view = "list"
    /\ \/ "users" \notin down /\ (\E w \in LWorkers : GetUsers(w))
       \/ ListStep(UsersTable)
    /\ UNCHANGED <<accountVars, searchVars>>

SearchUsersStep ==
    /\ view = "index"
    /\ \/ JoinGroup(Logs)
       \/ \E t \in SearchTopics : ConsumeClaim(t, Logs) \/ CommitOffset(t)
       \/ EndSession
       \/ ElasticsearchFails
       \/ ElasticsearchRecovers
    /\ UNCHANGED <<accountVars, listVars>>

Next ==
    /\ RegistrationStep \/ ListUsersStep \/ SearchUsersStep
    /\ UNCHANGED view

Spec == Init /\ [][Next]_allVars

-----------------------------------------------------------------------------
(* Fairness: SendMessage returns, the consumers take the next message, the  *)
(* commands of a handler return and Redis expires its keys.  Nobody has to  *)
(* register, and what is out of order may stay so.                          *)

OthersRest == UNCHANGED <<searchVars, listVars, view>>

SearchUsersReads(step) ==
    view = "index" /\ step /\ UNCHANGED <<accountVars, listVars, view>>

Fairness ==
    /\ \A a \in 1..MaxAccounts : WF_allVars(PublishUserCreatedEvent(a) /\ OthersRest)
    /\ WF_allVars(HandleUserCreated /\ OthersRest)
    /\ WF_allVars(SearchUsersReads(JoinGroup(Logs)))
    /\ \A t \in SearchTopics : WF_allVars(SearchUsersReads(ConsumeClaim(t, Logs)))
    /\ \A w \in LWorkers :
          WF_allVars(ListWork(w, UsersTable) /\ UNCHANGED <<accountVars, searchVars, view>>)
    /\ \A u \in Owners :
          WF_allVars(ListExpires(u) /\ UNCHANGED <<accountVars, searchVars, view>>)

FairSpec == Spec /\ Fairness

-----------------------------------------------------------------------------

AccountIds == 1..nextAccount - 1

\* Types of the tables, the log, the index and the consumers' positions.
AccountsTypeOK ==
    /\ nextAccount \in 1..MaxAccounts + 1
    /\ DOMAIN accounts \subseteq AccountIds /\ Range(accounts) \subseteq Emails
    /\ announcing \subseteq DOMAIN accounts
    /\ userLog \in Seq([id : AccountIds, doc : Emails]) /\ Len(userLog) <= MaxUserEvents
    /\ Range(users) \subseteq Emails /\ Range(index) \subseteq Emails
    /\ handled \in 0..Len(userLog)
    /\ down \subseteq AccountFaults \cap Outages
    /\ elasticUp \in BOOLEAN /\ session \in [number : 0..MaxSessions, on : BOOLEAN]
    /\ \A t \in SearchTopics :
          /\ position[t] \in 0..Len(userLog)
          /\ committed[t] \in {NoOffset} \cup 1..Len(userLog)

\* An id means the same user everywhere, and an email one user: the id in a token
\* of auth-service finds, in user-service and in the index, that user or nobody,
\* whatever was lost, repeated, refused or sent by goroutines out of order.
Copies(table) == \A a \in DOMAIN table : a \in DOMAIN accounts /\ table[a] = accounts[a]

UserCopiesAgree ==
    /\ \A a, b \in DOMAIN accounts : accounts[a] = accounts[b] => a = b
    /\ Copies(users)
    /\ Copies(index)

\* A user whose event is still to be sent, or not yet handled, becomes known to
\* user-service, if from now on auth-service, the broker, user-service and its
\* database work.  (An event that came while one of them did not is never made
\* up for: nothing sends it again.)
ToBeHandled(a) ==
    \/ a \in announcing
    \/ \E i \in handled + 1 .. Len(userLog) : userLog[i].id = a

RegisteredUsersBecomeKnown ==
    \A a \in 1..MaxAccounts :
        [](ToBeHandled(a) /\ []({"auth", "kafka", "users", "userdb"} \cap down = {})
              => <>[](a \in DOMAIN users))

\* The same for the index, which the restart of search-service does not harm: it
\* reads on from its committed offset, or from the oldest message.
ToBeIndexed(a) ==
    \/ a \in announcing
    \/ \E t \in SearchTopics : \E i \in position[t] + 1 .. Len(userLog) : userLog[i].id = a

RegisteredUsersBecomeSearchable ==
    view = "index" =>
    \A a \in 1..MaxAccounts :
        [](ToBeIndexed(a) /\ [](elasticUp /\ {"auth", "kafka"} \cap down = {})
              => <>[](a \in DOMAIN index))

\* "users:all" is deleted by no one.  It is outdated after every new user, and is
\* not for ever: its key expires, and a listing that was overtaken sets it once.
UsersList ==
    INSTANCE ListCache WITH
        Readers <- LWorkers,
        rows <- UsersTable["users:all"],
        list <- lists["users:all"],
        taken <- TakenFor("users:all")

\* What GetUsers answers are users that user-service had together at one moment;
\* the consumer that stores a user does not touch the list.
UsersListIsCache == UsersList!Spec

\* An outdated list of users does not stay.
UsersListConverges == UsersList!Converges
=============================================================================
