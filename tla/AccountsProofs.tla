--------------------------- MODULE AccountsProofs ----------------------------
(***************************************************************************)
(* An id means the same user everywhere (UserCopiesAgree), for any number  *)
(* of users, events and restarts.  The copies are made from events, and    *)
(* the events from accounts, so the invariant that is inductive speaks of  *)
(* all three: no account changes and no id is used twice, hence an event   *)
(* that is true when it is built is true whenever it is read.              *)
(*                                                                         *)
(* The types (AccountsTypeOK), with the positions inside the log.          *)
(*                                                                         *)
(* And the list "users:all" as a ListCache (UsersListIsCache).             *)
(***************************************************************************)
EXTENDS Accounts, FiniteSetTheorems, TLAPS

\* The accounts have ids below the serial, and emails of their own.
AccountsOK ==
    /\ nextAccount \in Nat
    /\ \A a \in DOMAIN accounts : a \in Nat /\ a < nextAccount
    /\ \A a, b \in DOMAIN accounts : accounts[a] = accounts[b] => a = b
    /\ announcing \subseteq DOMAIN accounts

\* An event that says what the account says.
TrueEvents == {[id |-> a, doc |-> accounts[a]] : a \in DOMAIN accounts}

\* The log has true events only, and the consumers are at positions of it.
LogOK ==
    /\ userLog \in Seq(TrueEvents)
    /\ handled \in Nat
    /\ position = [t \in SearchTopics |-> position[t]]
    /\ committed = [t \in SearchTopics |-> committed[t]]
    /\ \A t \in SearchTopics : position[t] \in Nat /\ committed[t] \in Nat \cup {NoOffset}

CopiesInv == AccountsOK /\ LogOK /\ Copies(users) /\ Copies(index)

\* Only Register touches accounts, and it adds one: what was true stays true.
AccountsKept ==
    \A a \in DOMAIN accounts : a \in DOMAIN accounts' /\ accounts'[a] = accounts[a]

\* True events and copies survive a step that keeps the accounts.
LEMMA TrueKept ==
    ASSUME CopiesInv, AccountsKept
    PROVE  /\ TrueEvents \subseteq TrueEvents'
           /\ userLog \in Seq(TrueEvents')
           /\ UNCHANGED users => Copies(users)'
           /\ UNCHANGED index => Copies(index)'
<1>1. TrueEvents \subseteq TrueEvents'
  BY DEF TrueEvents, AccountsKept
<1>2. userLog \in Seq(TrueEvents')
  BY <1>1 DEF CopiesInv, LogOK
<1>3. (UNCHANGED users => Copies(users)') /\ (UNCHANGED index => Copies(index)')
  BY DEF CopiesInv, Copies, AccountsKept
<1> QED
  BY <1>1, <1>2, <1>3

\* A table to which a true event was added is still a copy.
LEMMA CopyGrows ==
    ASSUME NEW table, Copies(table), NEW message \in TrueEvents
    PROVE  Copies([a \in DOMAIN table \cup {message.id} |->
                      IF a = message.id THEN message.doc ELSE table[a]])
BY DEF Copies, TrueEvents

-----------------------------------------------------------------------------
(* The steps. *)

\* Register and RegisterRefused.
LEMMA RegisterKeeps ==
    ASSUME CopiesInv, NEW email, Register(email) \/ RegisterRefused(email),
           UNCHANGED searchVars
    PROVE  CopiesInv'
<1>1. AccountsKept /\ AccountsOK'
  <2>1. CASE Register(email)
    <3>1. \A a \in DOMAIN accounts : accounts[a] # email
      BY <2>1 DEF Register, Taken, Range
    <3>2. nextAccount \notin DOMAIN accounts
      BY DEF CopiesInv, AccountsOK
    <3> QED
      BY <2>1, <3>1, <3>2 DEF Register, CopiesInv, AccountsOK, AccountsKept
  <2>2. CASE RegisterRefused(email)
    BY <2>2 DEF RegisterRefused, CopiesInv, AccountsOK, AccountsKept
  <2> QED
    BY <2>1, <2>2
<1>2. UNCHANGED <<userLog, users, handled, position, committed, index>>
  BY DEF Register, RegisterRefused, searchVars
<1>3. LogOK'
  BY <1>1, <1>2, TrueKept DEF CopiesInv, LogOK
<1> QED
  BY <1>1, <1>2, <1>3, TrueKept DEF CopiesInv

\* Steps that leave the accounts alone: what they have to show of the rest.
LEMMA SameAccounts ==
    ASSUME CopiesInv, UNCHANGED <<accounts, nextAccount>>, announcing' \subseteq announcing
    PROVE  AccountsOK' /\ AccountsKept /\ TrueEvents' = TrueEvents
BY DEF CopiesInv, AccountsOK, AccountsKept, TrueEvents

\* The goroutines of auth-service append what the account says.
LEMMA PublishKeeps ==
    ASSUME CopiesInv, NEW a \in announcing,
           PublishUserCreatedEvent(a) \/ ResendUserCreatedEvent(a), UNCHANGED searchVars
    PROVE  CopiesInv'
<1>1. AccountsOK' /\ AccountsKept /\ TrueEvents' = TrueEvents
  BY SameAccounts DEF PublishUserCreatedEvent, ResendUserCreatedEvent
<1>2. UserCreated(a) \in TrueEvents
  BY DEF CopiesInv, AccountsOK, UserCreated, TrueEvents
<1>3. userLog' \in Seq(TrueEvents)
  <2>1. userLog \in Seq(TrueEvents)
    BY DEF CopiesInv, LogOK
  <2>2. Append(userLog, UserCreated(a)) \in Seq(TrueEvents)
    BY <1>2, <2>1
  <2>3. userLog' \in {userLog, Append(userLog, UserCreated(a))}
    BY DEF PublishUserCreatedEvent, ResendUserCreatedEvent
  <2> QED
    BY <2>1, <2>2, <2>3
<1>4. UNCHANGED <<users, handled, position, committed, index>>
  BY DEF PublishUserCreatedEvent, ResendUserCreatedEvent, searchVars
<1>5. LogOK'
  BY <1>1, <1>3, <1>4 DEF CopiesInv, LogOK
<1> QED
  BY <1>1, <1>4, <1>5, TrueKept DEF CopiesInv

\* user-service stores a true event, or nothing.
LEMMA HandleKeeps ==
    ASSUME CopiesInv, HandleUserCreated, UNCHANGED searchVars
    PROVE  CopiesInv'
<1> DEFINE message == userLog[handled + 1]
<1>1. AccountsOK' /\ AccountsKept /\ TrueEvents' = TrueEvents
  BY SameAccounts DEF HandleUserCreated
<1>2. message \in TrueEvents
  BY DEF CopiesInv, LogOK, HandleUserCreated
<1>3. Copies(users')
  <2> HIDE DEF message
  <2>1. Copies(Stored(message))
    BY <1>2, CopyGrows DEF CopiesInv, Stored
  <2>2. users' \in {users, Stored(message)}
    BY DEF HandleUserCreated, message
  <2> QED
    BY <2>1, <2>2 DEF CopiesInv
<1>4. Copies(users)'
  BY <1>3 DEF Copies, HandleUserCreated
<1>5. LogOK' /\ UNCHANGED index
  BY <1>1 DEF CopiesInv, LogOK, HandleUserCreated, searchVars
<1> QED
  BY <1>1, <1>4, <1>5, TrueKept DEF CopiesInv

\* Parts that go out of order, or work again.
LEMMA OutageKeeps ==
    ASSUME CopiesInv, NEW part, GoesDown(part) \/ ComesUp(part), UNCHANGED searchVars
    PROVE  CopiesInv'
<1>1. AccountsOK' /\ AccountsKept /\ TrueEvents' = TrueEvents
  BY SameAccounts DEF GoesDown, ComesUp
<1>2. UNCHANGED <<userLog, users, position, committed, index>>
  BY DEF GoesDown, ComesUp, searchVars
<1>3. handled' \in Nat
  BY DEF CopiesInv, LogOK, GoesDown, ComesUp
<1>4. LogOK'
  BY <1>1, <1>2, <1>3 DEF CopiesInv, LogOK
<1> QED
  BY <1>1, <1>2, <1>4, TrueKept DEF CopiesInv

\* The search service.
LEMMA SearchKeeps ==
    ASSUME CopiesInv, SearchUsersStep
    PROVE  CopiesInv'
<1>1. AccountsOK' /\ AccountsKept /\ TrueEvents' = TrueEvents
  BY SameAccounts DEF SearchUsersStep, accountVars
<1>2. UNCHANGED <<userLog, users, handled>>
  BY DEF SearchUsersStep, accountVars
<1>3. CASE JoinGroup(Logs)
  <2>1. LogOK'
    BY <1>1, <1>2, <1>3 DEF JoinGroup, ClaimedAt, NoOffset, CopiesInv, LogOK
  <2> QED
    BY <1>1, <1>2, <1>3, <2>1, TrueKept DEF JoinGroup, CopiesInv
<1>4. ASSUME NEW t \in SearchTopics, ConsumeClaim(t, Logs)
      PROVE  CopiesInv'
  <2> DEFINE message == userLog[position[t] + 1]
  <2>1. Logs[t] = userLog /\ t \notin DeletingTopics
    BY AccountsAssumption DEF Logs, DeletingTopics
  <2>2. message \in TrueEvents
    BY <1>4, <2>1 DEF ConsumeClaim, CopiesInv, LogOK
  <2>3. Copies(index')
    <3>1. index' \in {index, Indexed(t, message)}
      BY <1>4, <2>1 DEF ConsumeClaim
    <3> HIDE DEF message
    <3>2. Copies(Indexed(t, message))
      BY <2>1, <2>2, CopyGrows DEF CopiesInv, Indexed
    <3> QED
      BY <3>1, <3>2 DEF CopiesInv
  <2>4. Copies(index)'
    BY <2>3, <1>2 DEF Copies, SearchUsersStep, accountVars
  <2>5. LogOK'
    BY <1>1, <1>2, <1>4 DEF ConsumeClaim, CopiesInv, LogOK
  <2> QED
    BY <1>1, <1>2, <2>4, <2>5, TrueKept DEF CopiesInv
<1>5. ASSUME NEW t \in SearchTopics, CommitOffset(t)
      PROVE  CopiesInv'
  <2>1. LogOK' /\ UNCHANGED index
    BY <1>1, <1>2, <1>5 DEF CommitOffset, CopiesInv, LogOK
  <2> QED
    BY <1>1, <1>2, <2>1, TrueKept DEF CopiesInv
<1>6. CASE EndSession \/ ElasticsearchFails \/ ElasticsearchRecovers
  <2>1. UNCHANGED <<index, position, committed>>
    BY <1>6 DEF EndSession, ElasticsearchFails, ElasticsearchRecovers
  <2>2. LogOK'
    BY <1>1, <1>2, <2>1 DEF CopiesInv, LogOK
  <2> QED
    BY <1>1, <1>2, <2>1, <2>2, TrueKept DEF CopiesInv
<1> QED
  BY <1>3, <1>4, <1>5, <1>6 DEF SearchUsersStep

\* A step of none of these variables.
LEMMA NothingKeeps ==
    ASSUME CopiesInv, UNCHANGED <<accountVars, searchVars>>
    PROVE  CopiesInv'
BY DEF CopiesInv, AccountsOK, LogOK, Copies, TrueEvents, accountVars, searchVars

\* An id means the same user in auth-service, user-service and the index, and an
\* email one user, whatever was lost, repeated, refused or sent out of order.
THEOREM UserCopiesAgreeAlways == Spec => []UserCopiesAgree
<1>1. Init => CopiesInv
  BY DEF Init, RegistrationInit, SearchInit, CopiesInv, AccountsOK, LogOK, Copies, NoOffset
<1>2. ASSUME CopiesInv, [Next]_allVars
      PROVE  CopiesInv'
  <2>1. CASE RegistrationStep
    BY <1>2, <2>1, RegisterKeeps, PublishKeeps, HandleKeeps, OutageKeeps
       DEF RegistrationStep, RegistrationNext
  <2>2. CASE SearchUsersStep
    BY <1>2, <2>2, SearchKeeps
  <2>3. CASE ListUsersStep \/ UNCHANGED allVars
    BY <1>2, <2>3, NothingKeeps DEF ListUsersStep, allVars
  <2> QED
    BY <1>2, <2>1, <2>2, <2>3 DEF Next
<1>3. CopiesInv => UserCopiesAgree
  BY DEF CopiesInv, AccountsOK, UserCopiesAgree
<1> QED
  BY <1>1, <1>2, <1>3, PTL DEF Spec

-----------------------------------------------------------------------------
(* Types.  A message of the log takes the place that its goroutine kept, so *)
(* the log is bounded only together with the goroutines.                    *)

EmailTable(table) == \A a \in DOMAIN table : table[a] \in Emails

UserEvent == [id : AccountIds, doc : Emails]

TablesOK ==
    /\ nextAccount \in 1..MaxAccounts + 1
    /\ DOMAIN accounts \subseteq AccountIds /\ announcing \subseteq DOMAIN accounts
    /\ EmailTable(accounts) /\ EmailTable(users) /\ EmailTable(index)

EventsOK ==
    /\ userLog \in Seq(UserEvent)
    /\ Len(userLog) + Cardinality(announcing) <= MaxUserEvents
    /\ handled \in 0..Len(userLog)

PartsOK ==
    /\ down \subseteq AccountFaults \cap Outages
    /\ elasticUp \in BOOLEAN /\ session \in [number : 0..MaxSessions, on : BOOLEAN]

OffsetsOK ==
    /\ DOMAIN position = SearchTopics /\ DOMAIN committed = SearchTopics
    /\ \A t \in SearchTopics :
          /\ position[t] \in 0..Len(userLog)
          /\ committed[t] \in {NoOffset} \cup 1..Len(userLog)

AccountsInv == TablesOK /\ EventsOK /\ PartsOK /\ OffsetsOK

LEMMA AnnouncingFinite ==
    ASSUME TablesOK
    PROVE  /\ IsFiniteSet(announcing) /\ Cardinality(announcing) \in Nat
           /\ nextAccount \in Nat /\ nextAccount \notin announcing
<1>1. nextAccount \in Nat /\ announcing \subseteq 1..nextAccount - 1
  BY AccountAssumption DEF TablesOK, AccountIds
<1>2. IsFiniteSet(1..nextAccount - 1)
  BY <1>1, FS_Interval
<1>3. IsFiniteSet(announcing) /\ Cardinality(announcing) \in Nat
  BY <1>1, <1>2, FS_Subset, FS_CardinalityType
<1>4. nextAccount \notin announcing
  BY <1>1
<1> QED
  BY <1>1, <1>3, <1>4

\* A log that is longer keeps positions and offsets in it.
LEMMA OffsetsKept ==
    ASSUME OffsetsOK, Len(userLog) \in Nat, Len(userLog') \in Nat,
           Len(userLog) <= Len(userLog'), UNCHANGED <<position, committed>>
    PROVE  OffsetsOK'
BY DEF OffsetsOK

\* A row or document with the email of an event.
LEMMA TableGrows ==
    ASSUME NEW table, EmailTable(table), NEW id, NEW email \in Emails
    PROVE  EmailTable([a \in DOMAIN table \cup {id} |-> IF a = id THEN email ELSE table[a]])
BY DEF EmailTable

LEMMA RegisterKeepsTypes ==
    ASSUME AccountsInv, NEW email \in Emails, Register(email) \/ RegisterRefused(email),
           UNCHANGED searchVars
    PROVE  AccountsInv'
<1> USE DEF AccountsInv
<1>1. nextAccount \in 1..MaxAccounts /\ nextAccount' = nextAccount + 1
  BY AccountAssumption DEF Register, RegisterRefused, TablesOK
<1>2. UNCHANGED <<userLog, users, handled, down>>
  BY DEF Register, RegisterRefused
<1>3. AccountIds \subseteq AccountIds' /\ UserEvent \subseteq UserEvent'
  <2>1. AccountIds \subseteq AccountIds'
    BY <1>1, AccountAssumption DEF AccountIds
  <2> QED
    BY <2>1 DEF UserEvent
<1>4. userLog' \in Seq(UserEvent')
  BY <1>2, <1>3 DEF EventsOK
<1>5. PartsOK' /\ OffsetsOK'
  BY <1>2 DEF PartsOK, OffsetsOK, searchVars
<1>6. CASE Register(email)
  <2>1. /\ EmailTable(accounts')
        /\ DOMAIN accounts' = DOMAIN accounts \cup {nextAccount}
    BY <1>6, TableGrows DEF Register, TablesOK
  <2>2. TablesOK'
    BY <1>1, <1>2, <1>3, <1>6, <2>1, AccountAssumption
    DEF Register, TablesOK, EmailTable, AccountIds, searchVars
  <2>3. Cardinality(announcing') = Cardinality(announcing) + 1
    BY <1>6, AnnouncingFinite, FS_AddElement DEF Register
  <2>4. Len(userLog) + Cardinality(announcing') <= MaxUserEvents
    <3>1. Len(userLog) \in Nat /\ Len(userLog) + Cardinality(announcing) < MaxUserEvents
      BY <1>6 DEF Register, RoomForEvents, EventsOK
    <3> QED
      BY <2>3, <3>1, AnnouncingFinite, AccountAssumption
  <2> QED
    BY <1>2, <1>4, <1>5, <2>2, <2>4 DEF EventsOK
<1>7. CASE RegisterRefused(email)
  <2>1. TablesOK'
    BY <1>1, <1>2, <1>3, <1>7, AccountAssumption
    DEF RegisterRefused, TablesOK, EmailTable, searchVars
  <2> QED
    BY <1>2, <1>4, <1>5, <1>7, <2>1 DEF EventsOK, RegisterRefused
<1> QED
  BY <1>6, <1>7

LEMMA PublishKeepsTypes ==
    ASSUME AccountsInv, NEW a \in announcing,
           PublishUserCreatedEvent(a) \/ ResendUserCreatedEvent(a), UNCHANGED searchVars
    PROVE  AccountsInv'
<1> USE DEF AccountsInv
<1>1. UNCHANGED <<accounts, nextAccount, users, handled, down>>
  BY DEF PublishUserCreatedEvent, ResendUserCreatedEvent
<1>2. AccountIds' = AccountIds /\ UserEvent' = UserEvent /\ PartsOK'
  BY <1>1 DEF AccountIds, UserEvent, PartsOK, searchVars
<1>3. UserCreated(a) \in UserEvent
  BY DEF TablesOK, UserCreated, EmailTable, UserEvent
<1>4. userLog \in Seq(UserEvent) /\ Len(userLog) \in Nat
  BY DEF EventsOK
<1>5. /\ Append(userLog, UserCreated(a)) \in Seq(UserEvent)
      /\ Len(Append(userLog, UserCreated(a))) = Len(userLog) + 1
  BY <1>3, <1>4
<1>6. TablesOK'
  BY <1>1, <1>2 DEF PublishUserCreatedEvent, ResendUserCreatedEvent, TablesOK, EmailTable,
                    searchVars
<1>7. userLog' \in {userLog, Append(userLog, UserCreated(a))}
  BY DEF PublishUserCreatedEvent, ResendUserCreatedEvent
<1>8. OffsetsOK'
  BY <1>4, <1>5, <1>7, OffsetsKept DEF searchVars
<1>9. Len(userLog') + Cardinality(announcing') <= MaxUserEvents
  <2>1. CASE PublishUserCreatedEvent(a)
    <3>1. Cardinality(announcing') = Cardinality(announcing) - 1
      BY <2>1, AnnouncingFinite, FS_RemoveElement DEF PublishUserCreatedEvent
    <3> QED
      BY <1>4, <1>5, <1>7, <3>1, AnnouncingFinite, AccountAssumption DEF EventsOK
  <2>2. CASE ResendUserCreatedEvent(a)
    <3>1. Len(userLog) + Cardinality(announcing) < MaxUserEvents /\ announcing' = announcing
      BY <2>2 DEF ResendUserCreatedEvent, RoomForEvents
    <3> QED
      BY <1>4, <1>5, <1>7, <3>1, AnnouncingFinite, AccountAssumption
  <2> QED
    BY <2>1, <2>2
<1>10. EventsOK'
  BY <1>1, <1>2, <1>4, <1>5, <1>7, <1>9 DEF EventsOK
<1> QED
  BY <1>2, <1>6, <1>8, <1>10

LEMMA HandleKeepsTypes ==
    ASSUME AccountsInv, HandleUserCreated, UNCHANGED searchVars
    PROVE  AccountsInv'
<1> USE DEF AccountsInv
<1> DEFINE message == userLog[handled + 1]
<1>1. handled + 1 \in 1..Len(userLog) /\ message \in UserEvent /\ message.doc \in Emails
  <2>1. userLog \in Seq(UserEvent) /\ handled + 1 \in 1..Len(userLog)
    BY DEF HandleUserCreated, EventsOK
  <2>2. message \in UserEvent
    BY <2>1
  <2> QED
    BY <2>1, <2>2 DEF UserEvent
<1>2. EmailTable(users')
  <2> HIDE DEF message
  <2>1. EmailTable(users) /\ message.doc \in Emails
    BY <1>1 DEF TablesOK
  <2>2. EmailTable(Stored(message))
    BY <2>1, TableGrows DEF Stored
  <2>3. users' \in {users, Stored(message)}
    BY DEF HandleUserCreated, message
  <2> QED
    BY <2>1, <2>2, <2>3
<1>3. TablesOK'
  BY <1>2 DEF HandleUserCreated, TablesOK, EmailTable, AccountIds, searchVars
<1> QED
  BY <1>1, <1>3 DEF HandleUserCreated, EventsOK, PartsOK, OffsetsOK, AccountIds, UserEvent, searchVars

LEMMA OutageKeepsTypes ==
    ASSUME AccountsInv, NEW part, GoesDown(part) \/ ComesUp(part), UNCHANGED searchVars
    PROVE  AccountsInv'
<1> USE DEF AccountsInv
<1>1. UNCHANGED <<accounts, nextAccount, userLog, users, AccountIds, UserEvent>>
  BY DEF GoesDown, ComesUp, AccountIds, UserEvent
<1>2. announcing' \in {announcing, {}}
  BY DEF GoesDown, ComesUp
<1>3. TablesOK'
  BY <1>1, <1>2 DEF TablesOK, EmailTable, searchVars
<1>4. PartsOK' /\ OffsetsOK'
  BY <1>1 DEF GoesDown, ComesUp, PartsOK, OffsetsOK, searchVars
<1>5. EventsOK'
  <2>1. Len(userLog) \in Nat /\ handled' \in 0..Len(userLog)
    BY DEF EventsOK, GoesDown, ComesUp
  <2>2. Cardinality(announcing') <= Cardinality(announcing) /\ Cardinality(announcing') \in Nat
    BY <1>2, AnnouncingFinite, FS_EmptySet
  <2> QED
    BY <1>1, <2>1, <2>2, AnnouncingFinite, AccountAssumption DEF EventsOK
<1> QED
  BY <1>3, <1>4, <1>5

LEMMA SearchKeepsTypes ==
    ASSUME AccountsInv, SearchUsersStep
    PROVE  AccountsInv'
<1> USE DEF AccountsInv
<1>1. UNCHANGED accountVars
  BY DEF SearchUsersStep
<1>2. EventsOK' /\ Len(userLog) \in Nat
  BY <1>1 DEF EventsOK, accountVars, AccountIds, UserEvent
<1>3. EmailTable(index') => TablesOK'
  BY <1>1 DEF TablesOK, EmailTable, accountVars, AccountIds
<1>4. EmailTable(index)
  BY DEF TablesOK
<1>5. CASE JoinGroup(Logs)
  <2>1. \A t \in SearchTopics : ClaimedAt(t, Logs) \in 0..Len(userLog)
    BY <1>2 DEF ClaimedAt, OffsetsOK, NoOffset
  <2>2. PartsOK'
    BY <1>1, <1>5, SearchAssumption DEF JoinGroup, PartsOK, accountVars
  <2>3. OffsetsOK'
    BY <1>1, <1>5, <2>1 DEF JoinGroup, OffsetsOK, accountVars
  <2> QED
    BY <1>2, <1>3, <1>4, <1>5, <2>2, <2>3 DEF JoinGroup
<1>6. ASSUME NEW t \in SearchTopics, ConsumeClaim(t, Logs)
      PROVE  AccountsInv'
  <2> DEFINE message == userLog[position[t] + 1]
  <2>1. Logs[t] = userLog /\ t \notin DeletingTopics
    BY AccountsAssumption DEF Logs, DeletingTopics
  <2>2. position[t] + 1 \in 1..Len(userLog) /\ message.doc \in Emails
    <3>1. userLog \in Seq(UserEvent) /\ position[t] + 1 \in 1..Len(userLog)
      BY <1>2, <1>6, <2>1 DEF ConsumeClaim, EventsOK, OffsetsOK
    <3>2. message \in UserEvent
      BY <3>1
    <3> QED
      BY <3>1, <3>2 DEF UserEvent
  <2>3. EmailTable(index')
    <3>1. index' \in {index, Indexed(t, message)}
      BY <1>6, <2>1 DEF ConsumeClaim
    <3> HIDE DEF message
    <3>2. Indexed(t, message) = [a \in DOMAIN index \cup {message.id} |->
                                    IF a = message.id THEN message.doc ELSE index[a]]
      BY <2>1 DEF Indexed
    <3>3. EmailTable(Indexed(t, message))
      BY <1>4, <2>2, <3>2 DEF EmailTable
    <3> QED
      BY <1>4, <3>1, <3>3
  <2>4. OffsetsOK'
    BY <1>1, <1>6, <2>2 DEF ConsumeClaim, OffsetsOK, accountVars
  <2>5. PartsOK'
    BY <1>1, <1>6 DEF ConsumeClaim, PartsOK, accountVars
  <2> QED
    BY <1>2, <1>3, <2>3, <2>4, <2>5
<1>7. ASSUME NEW t \in SearchTopics, CommitOffset(t)
      PROVE  AccountsInv'
  <2>1. position[t] \in 1..Len(userLog)
    BY <1>2, <1>7 DEF CommitOffset, OffsetsOK
  <2> QED
    BY <1>1, <1>2, <1>3, <1>4, <1>7, <2>1 DEF CommitOffset, OffsetsOK, PartsOK, accountVars
<1>8. CASE EndSession \/ ElasticsearchFails \/ ElasticsearchRecovers
  <2>1. UNCHANGED <<index, position, committed>>
    BY <1>8 DEF EndSession, ElasticsearchFails, ElasticsearchRecovers
  <2>2. OffsetsOK'
    BY <1>1, <2>1 DEF OffsetsOK, accountVars
  <2>3. PartsOK'
    BY <1>1, <1>8 DEF EndSession, ElasticsearchFails, ElasticsearchRecovers, PartsOK, accountVars
  <2> QED
    BY <1>2, <1>3, <1>4, <2>1, <2>2, <2>3
<1> QED
  BY <1>5, <1>6, <1>7, <1>8 DEF SearchUsersStep

LEMMA NothingKeepsTypes ==
    ASSUME AccountsInv, UNCHANGED <<accountVars, searchVars>>
    PROVE  AccountsInv'
BY DEF AccountsInv, TablesOK, EventsOK, PartsOK, OffsetsOK, EmailTable, AccountIds,
       UserEvent, accountVars, searchVars

\* The accounts, the copies, the log and the consumers' positions have their types
\* in every reachable state, and no more is sent than there was room for.
THEOREM AccountsTypeOKCorrect == Spec => []AccountsTypeOK
<1>1. Init => AccountsInv
  <2> SUFFICES ASSUME Init PROVE AccountsInv
    OBVIOUS
  <2>1. TablesOK
    BY AccountAssumption DEF Init, RegistrationInit, SearchInit, TablesOK, EmailTable, AccountIds
  <2>2. EventsOK
    BY AccountAssumption, FS_EmptySet DEF Init, RegistrationInit, EventsOK
  <2>3. PartsOK /\ OffsetsOK
    BY SearchAssumption DEF Init, RegistrationInit, SearchInit, PartsOK, OffsetsOK, NoOffset
  <2> QED
    BY <2>1, <2>2, <2>3 DEF AccountsInv
<1>2. ASSUME AccountsInv, [Next]_allVars
      PROVE  AccountsInv'
  <2>1. CASE RegistrationStep
    BY <1>2, <2>1, RegisterKeepsTypes, PublishKeepsTypes, HandleKeepsTypes, OutageKeepsTypes
       DEF RegistrationStep, RegistrationNext
  <2>2. CASE SearchUsersStep
    BY <1>2, <2>2, SearchKeepsTypes
  <2>3. CASE ListUsersStep \/ UNCHANGED allVars
    BY <1>2, <2>3, NothingKeepsTypes DEF ListUsersStep, allVars
  <2> QED
    BY <1>2, <2>1, <2>2, <2>3 DEF Next
<1>3. AccountsInv => AccountsTypeOK
  <2> SUFFICES ASSUME AccountsInv PROVE AccountsTypeOK
    OBVIOUS
  <2>1. Len(userLog) <= MaxUserEvents
    <3>1. Len(userLog) \in Nat /\ Len(userLog) + Cardinality(announcing) <= MaxUserEvents
      BY DEF AccountsInv, EventsOK
    <3> QED
      BY <3>1, AnnouncingFinite, AccountAssumption DEF AccountsInv
  <2>2. Range(accounts) \subseteq Emails /\ Range(users) \subseteq Emails /\ Range(index) \subseteq Emails
    BY DEF AccountsInv, TablesOK, EmailTable, Range
  <2> QED
    BY <2>1, <2>2 DEF AccountsInv, TablesOK, EventsOK, PartsOK, OffsetsOK, UserEvent,
                       AccountsTypeOK
<1> QED
  BY <1>1, <1>2, <1>3, PTL DEF Spec

-----------------------------------------------------------------------------
(* The list "users:all": a ListCache, as the lists in CachedListsProofs, of *)
(* which it is the only one.  Its table is written by the consumer.         *)

All == "users:all"

ListDomains ==
    /\ DOMAIN lists = Owners
    /\ ljob = [w \in LWorkers |-> ljob[w]]
    /\ \A w \in LWorkers :
          ljob[w] = LIdle \/ (ljob[w].phase \in {"clear", "query", "save"} /\ ljob[w].owner = All)

\* The local variables of a handler of this list.
ListJob(job) == job = LIdle \/ (job.phase \in {"clear", "query", "save"} /\ job.owner = All)

LEMMA ListerSteps ==
    ASSUME ListDomains, NEW w \in LWorkers, NEW job, ListJob(job),
           ljob' = [ljob EXCEPT ![w] = job], DOMAIN lists' = Owners
    PROVE  /\ ListDomains'
           /\ job.phase # "save" =>
                 TakenFor(All)' = [r \in LWorkers |-> IF r \in {w} THEN NoList ELSE TakenFor(All)[r]]
           /\ job.phase # "save" /\ ljob[w].phase # "save" => UNCHANGED TakenFor(All)
<1>1. ljob' = [v \in LWorkers |-> IF v = w THEN job ELSE ljob[v]]
  BY DEF ListDomains
<1>2. ListDomains'
  BY <1>1 DEF ListDomains, ListJob
<1> QED
  BY <1>1, <1>2 DEF TakenFor

LEMMA UsersListSteps ==
    ASSUME ListDomains, [Next]_allVars
    PROVE  ListDomains' /\ [UsersList!Next]_(UsersList!listCacheVars)
<1> USE AccountsAssumption
<1> DEFINE CacheStep == [UsersList!Next]_(UsersList!listCacheVars)
<1>0. UsersList!NoList = NoList /\ \A copy : UsersList!Cached(copy) = Cached(copy)
  BY DEF NoList, Cached, UsersList!NoList, UsersList!Cached
<1>1. UNCHANGED <<lists[All], TakenFor(All)>> => CacheStep
  BY DEF UsersList!Next, UsersList!Write, All
<1>2. CASE UNCHANGED listVars
  <2>1. UNCHANGED <<lists[All], TakenFor(All)>>
    BY <1>2 DEF listVars, TakenFor
  <2> QED
    BY <1>1, <1>2, <2>1 DEF ListDomains, listVars
<1>3. CASE ListersDie /\ UNCHANGED users
  <2>1. TakenFor(All)' = [r \in LWorkers |-> IF r \in LWorkers THEN NoList ELSE TakenFor(All)[r]]
    BY <1>3 DEF ListersDie, TakenFor, LIdle
  <2>2. UNCHANGED <<UsersTable[All], lists[All]>>
    BY <1>3 DEF ListersDie, UsersTable
  <2>3. UsersList!Abandon
    BY <1>0, <2>1, <2>2 DEF UsersList!Abandon, All
  <2> QED
    BY <1>3, <2>3 DEF UsersList!Next, ListersDie, ListDomains
<1>4. ASSUME NEW w \in LWorkers, NEW u \in Owners, ListRows(w, u)
      PROVE  ListDomains' /\ CacheStep
  <2> PICK job : job = [phase |-> "query", owner |-> All]
    OBVIOUS
  <2>1. ListJob(job) /\ job.phase # "save" /\ ljob' = [ljob EXCEPT ![w] = job]
    BY <1>4 DEF ListRows, ListJob, All
  <2>2. ljob[w].phase # "save" /\ UNCHANGED lists
    BY <1>4 DEF ListRows, NotListing, LIdle
  <2> QED
    BY <1>1, <2>1, <2>2, ListerSteps DEF ListDomains
<1>5. ASSUME NEW w \in LWorkers, UNCHANGED users,
             ClearList(w) \/ SaveList(w) \/ ListFails(w)
      PROVE  ListDomains' /\ CacheStep
  <2> PICK job : job = LIdle
    OBVIOUS
  <2>1. ListJob(job) /\ job.phase # "save" /\ ljob' = [ljob EXCEPT ![w] = job]
    BY <1>5 DEF ClearList, SaveList, ListFails, ListJob, LIdle
  <2>2. DOMAIN lists' = Owners /\ ljob[w].owner = All /\ UNCHANGED UsersTable[All]
    BY <1>5 DEF ClearList, SaveList, ListFails, ListDomains, LIdle, UsersTable
  <2>3. ListDomains'
    BY <2>1, <2>2, ListerSteps
  <2>4. CASE ClearList(w) \/ ListFails(w)
    <3>1. UNCHANGED TakenFor(All)
      BY <2>1, <2>2, <2>4, ListerSteps DEF ClearList, ListFails
    <3>2. lists'[All] = NoList \/ UNCHANGED lists[All]
      BY <2>2, <2>4 DEF ClearList, ListFails, ListDomains, All
    <3>3. UsersList!Vanish \/ UNCHANGED lists[All]
      BY <1>0, <2>2, <3>1, <3>2 DEF UsersList!Vanish, All
    <3> QED
      BY <1>1, <2>3, <3>1, <3>3 DEF UsersList!Next
  <2>5. CASE SaveList(w)
    <3>1. TakenFor(All)' = [r \in LWorkers |-> IF r \in {w} THEN NoList ELSE TakenFor(All)[r]]
      BY <2>1, <2>2, ListerSteps
    <3>2. TakenFor(All)[w] = Cached(ljob[w].rows)
      BY <2>2, <2>5 DEF SaveList, TakenFor
    <3>3. CASE UNCHANGED lists
      <4>1. UsersList!Abandon
        BY <1>0, <2>2, <3>1, <3>3 DEF UsersList!Abandon, All
      <4> QED
        BY <2>3, <4>1 DEF UsersList!Next
    <3>4. CASE lists'[All] = Cached(ljob[w].rows)
      <4>1. TakenFor(All)' = [TakenFor(All) EXCEPT ![w] = NoList]
        BY <3>1 DEF TakenFor
      <4>2. TakenFor(All)[w].cached
        BY <3>2 DEF Cached
      <4>3. UsersList!Fill(w)
        BY <1>0, <2>2, <3>2, <3>4, <4>1, <4>2 DEF UsersList!Fill, All
      <4> QED
        BY <2>3, <4>3 DEF UsersList!Next
    <3>5. UNCHANGED lists \/ lists'[All] = Cached(ljob[w].rows)
      BY <2>2, <2>5 DEF SaveList, ListDomains, All
    <3> QED
      BY <3>3, <3>4, <3>5
  <2> QED
    BY <1>5, <2>4, <2>5
<1>6. ASSUME NEW w \in LWorkers, UNCHANGED users, SelectRows(w, UsersTable)
      PROVE  ListDomains' /\ CacheStep
  <2>1. ljob[w].owner = All /\ UNCHANGED <<lists, UsersTable[All]>>
    BY <1>6 DEF SelectRows, ListDomains, LIdle, UsersTable
  <2> DEFINE copy == UsersTable[All]
  <2> PICK job : job = [phase |-> "save", owner |-> All, rows |-> copy]
    OBVIOUS
  <2>2. ListJob(job) /\ ljob' = [ljob EXCEPT ![w] = job]
    BY <1>6, <2>1 DEF SelectRows, ListJob
  <2>3. ljob' = [v \in LWorkers |-> IF v = w THEN job ELSE ljob[v]]
    BY <2>2 DEF ListDomains
  <2>4. TakenFor(All)' = [TakenFor(All) EXCEPT ![w] = Cached(copy)]
    BY <2>3 DEF TakenFor
  <2>5. UsersList!Take(w)
    BY <1>0, <2>1, <2>4 DEF UsersList!Take, UsersList!TakeRows, All
  <2>6. ListDomains'
    BY <2>1, <2>2, ListerSteps DEF ListDomains
  <2> QED
    BY <2>5, <2>6 DEF UsersList!Next
<1>7. ASSUME NEW u \in Owners, UNCHANGED users, ListExpires(u)
      PROVE  ListDomains' /\ CacheStep
  <2>1. UNCHANGED <<UsersTable[All], TakenFor(All)>> /\ lists'[All] = NoList
    BY <1>7 DEF ListExpires, UsersTable, TakenFor, ListDomains, All
  <2>2. UsersList!Vanish
    BY <1>0, <2>1 DEF UsersList!Vanish, All
  <2> QED
    BY <1>7, <2>2 DEF UsersList!Next, ListExpires, ListDomains
<1>8. CASE RegistrationStep
  <2>1. CASE "users" \in down' \ down
    <3>1. UNCHANGED users
      BY <1>8, <2>1
      DEF RegistrationStep, RegistrationNext, Register, RegisterRefused, PublishUserCreatedEvent,
          ResendUserCreatedEvent, HandleUserCreated, GoesDown, ComesUp
    <3> QED
      BY <1>3, <1>8, <2>1, <3>1 DEF RegistrationStep
  <2> QED
    BY <1>2, <1>8, <2>1 DEF RegistrationStep
<1>9. CASE ListUsersStep
  <2>1. UNCHANGED users
    BY <1>9 DEF ListUsersStep, accountVars
  <2> QED
    BY <1>4, <1>5, <1>6, <1>7, <1>9, <2>1 DEF ListUsersStep, GetUsers, ListStep, ListWork
<1>10. CASE SearchUsersStep \/ UNCHANGED allVars
  BY <1>2, <1>10 DEF SearchUsersStep, allVars, listVars
<1> QED
  BY <1>8, <1>9, <1>10 DEF Next

\* What GetUsers answers is what user-service stored, as it was at one moment: the
\* list is set from a SELECT alone, by no handler that died in between.
THEOREM UsersListIsCacheCorrect == Spec => UsersListIsCache
<1>1. Init => ListDomains /\ UsersList!Init
  BY AccountsAssumption
  DEF Init, ListInit, ListDomains, TakenFor, NoList, LIdle, UsersList!Init, UsersList!NoList
<1>2. ListDomains /\ [Next]_allVars => ListDomains' /\ [UsersList!Next]_(UsersList!listCacheVars)
  BY UsersListSteps
<1> QED
  BY <1>1, <1>2, PTL DEF Spec, UsersListIsCache, UsersList!Spec
=============================================================================
