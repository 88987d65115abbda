--------------------------- MODULE DatabaseProofs ---------------------------
(***************************************************************************)
(* Proofs about what Server does to the tables: friends and requests, for  *)
(* any number of users, first whatever query fails, then while none does.  *)
(***************************************************************************)
EXTENDS ServerProofs

\* Requests are one-way and listed once; rows name registered users: the
\* properties RequestsOneWay and RowsOfUsers, of the tables d.
TablesSound(d) ==
    /\ \A u, v \in Uids :
          /\ d.friend_requests[<<u, v>>] <= 1
          /\ u # v /\ d.friend_requests[<<u, v>>] > 0 =>
                ~ d.friend_requests[<<v, u>>] > 0
    /\ \A u, v \in Uids :
          d.friends[<<u, v>>] > 0 \/ d.friend_requests[<<u, v>>] > 0 =>
              {u, v} \subseteq d.users

\* Everybody who is online, or whom a client belongs to, has a row.
OnlineRegistered ==
    /\ DOMAIN users \subseteq db.users
    /\ \A fd \in DOMAIN clients : clients[fd] > 0 => clients[fd] \in db.users

DbInv == TablesSound(db) /\ OnlineRegistered

------------------------------------------------------------------------------
(* The queries *)

LEMMA TablesRead ==
    ASSUME NEW d \in Database
    PROVE  /\ d.friends \in [Pairs -> Nat]
           /\ d.friend_requests \in [Pairs -> Nat]
           /\ d.users \subseteq Uids
           /\ \A u, v \in Uids : /\ d.friends[<<u, v>>] \in Nat
                                 /\ d.friend_requests[<<u, v>>] \in Nat
BY DEF Database, Pairs

\* A request is filed only between registered users who have none pending, and
\* "the other user already asked" changes nothing.
LEMMA RequestKeepsTables ==
    ASSUME NEW d \in Database, TablesSound(d), NEW from \in d.users, NEW to \in d.users,
           NEW out \in sql_ch_create_friend_request(d, from, to)
    PROVE  /\ out.db \in Database
           /\ TablesSound(out.db)
           /\ out.db.users = d.users
           /\ out.db.friends = d.friends
           /\ out.res = "SQLV_OTHER_EXISTS" =>
                 out.db = d /\ d.friend_requests[<<to, from>>] > 0
<1>1. from \in Uids /\ to \in Uids
  BY TablesRead
<1>2. out.db \in Database
  BY <1>1, FriendQueriesTyped
<1> DEFINE table == Inserted(d.friend_requests, <<from, to>>)
           filed == [d EXCEPT !.friend_requests = table]
<1>3. CASE /\ out = [db |-> filed, res |-> "SQLV_SUCCESS"]
           /\ ~ d.friend_requests[<<from, to>>] > 0
           /\ ~ d.friend_requests[<<to, from>>] > 0
  <2>1. /\ filed.users = d.users /\ filed.friends = d.friends
        /\ filed.friend_requests = table
    BY DEF Database
  <2>2. \A x, y \in Uids :
           table[<<x, y>>] = IF x = from /\ y = to THEN d.friend_requests[<<x, y>>] + 1
                             ELSE d.friend_requests[<<x, y>>]
    <3>1. d.friend_requests \in [Pairs -> Nat]
      BY TablesRead
    <3> QED
      BY <1>1, <3>1 DEF Inserted, Pairs
  <2> HIDE DEF filed, table
  <2>3. TablesSound(filed)
    <3>1. ASSUME NEW x \in Uids, NEW y \in Uids
          PROVE  /\ table[<<x, y>>] <= 1
                 /\ x # y /\ table[<<x, y>>] > 0 => ~ table[<<y, x>>] > 0
      BY <1>1, <1>3, <2>2, TablesRead DEF TablesSound
    <3>2. ASSUME NEW x \in Uids, NEW y \in Uids,
                 d.friends[<<x, y>>] > 0 \/ table[<<x, y>>] > 0
          PROVE  {x, y} \subseteq d.users
      BY <2>2, <3>2, TablesRead DEF TablesSound
    <3> QED
      BY <2>1, <3>1, <3>2 DEF TablesSound
  <2> QED
    BY <1>2, <1>3, <2>1, <2>3
<1>4. CASE out.db = d /\ (out.res = "SQLV_OTHER_EXISTS" =>
                             d.friend_requests[<<to, from>>] > 0)
  BY <1>2, <1>4
<1> QED
  BY <1>3, <1>4 DEF sql_ch_create_friend_request, OnFailure

\* Whatever part of sql_ch_create_friends succeeds, it adds rows of the two
\* users only.
LEMMA FriendsKeepTables ==
    ASSUME NEW d \in Database, TablesSound(d), NEW u \in d.users, NEW v \in d.users,
           NEW new \in sql_ch_create_friends(d, u, v)
    PROVE  /\ new \in Database
           /\ TablesSound(new)
           /\ new.users = d.users
           /\ \A x, y \in Uids :
                 new.friends[<<x, y>>] > 0 =>
                    \/ d.friends[<<x, y>>] > 0
                    \/ x = u /\ y = v
                    \/ x = v /\ y = u
<1>1. u \in Uids /\ v \in Uids
  BY TablesRead
<1> DEFINE one  == [d EXCEPT !.friends = Inserted(d.friends, <<u, v>>)]
           both == [one EXCEPT !.friends = Inserted(one.friends, <<v, u>>)]
           done == [both EXCEPT !.friend_requests =
                                   Deleted(both.friend_requests, u, v)]
           Fine(e) == /\ e \in Database
                      /\ TablesSound(e)
                      /\ e.users = d.users
                      /\ \A x, y \in Uids :
                            e.friends[<<x, y>>] > 0 =>
                               \/ d.friends[<<x, y>>] > 0
                               \/ x = u /\ y = v
                               \/ x = v /\ y = u
<1>2. new \in {d, one, both, done}
  BY Zenon DEF sql_ch_create_friends, OnFailure
\* One more row for the pair, in either direction, does no harm.
<1>3. ASSUME NEW e, Fine(e), NEW a \in {u, v}, NEW b \in {u, v}, {a, b} = {u, v}
      PROVE  Fine([e EXCEPT !.friends = Inserted(e.friends, <<a, b>>)])
  <2> DEFINE table == Inserted(e.friends, <<a, b>>)
             f     == [e EXCEPT !.friends = table]
  <2>1. a \in Uids /\ b \in Uids /\ a \in e.users /\ b \in e.users
    BY <1>1, <1>3
  <2>2. /\ f.users = e.users /\ f.friends = table
        /\ f.friend_requests = e.friend_requests
    BY <1>3 DEF Database
  <2>3. f \in Database
    BY <1>3, <2>1, TablesRead, TablesTyped, FieldsTyped
  <2>4. \A x, y \in Uids :
           table[<<x, y>>] = IF x = a /\ y = b THEN e.friends[<<x, y>>] + 1
                             ELSE e.friends[<<x, y>>]
    <3>1. e.friends \in [Pairs -> Nat]
      BY <1>3, TablesRead
    <3> QED
      BY <2>1, <3>1 DEF Inserted, Pairs
  <2> HIDE DEF f, table
  <2>5. TablesSound(f)
    BY <1>3, <2>1, <2>2, <2>4, TablesRead DEF TablesSound
  <2>6. \A x, y \in Uids :
           f.friends[<<x, y>>] > 0 => e.friends[<<x, y>>] > 0 \/ (x = a /\ y = b)
    BY <1>3, <2>2, <2>4, TablesRead
  <2>7. Fine(f)
    BY <1>3, <2>2, <2>3, <2>5, <2>6
  <2> QED
    BY <2>7 DEF f, table
<1>4. Fine(d)
  OBVIOUS
<1> HIDE DEF Fine
<1>5. Fine(one)
  BY <1>3, <1>4
<1> HIDE DEF one
<1>6. Fine(both)
  <2>1. v \in {u, v} /\ u \in {u, v} /\ {v, u} = {u, v}
    OBVIOUS
  <2> QED
    BY <1>3, <1>5, <2>1
<1> HIDE DEF both
<1>7. Fine(done)
  <2> DEFINE table == Deleted(both.friend_requests, u, v)
  <2>1. both \in Database /\ TablesSound(both)
    BY <1>6 DEF Fine
  <2>2. /\ done.users = both.users /\ done.friends = both.friends
        /\ done.friend_requests = table
    BY <2>1 DEF Database
  <2>3. done \in Database
    BY <1>1, <2>1, TablesRead, TablesTyped, FieldsTyped
  <2>4. \A x, y \in Uids :
           table[<<x, y>>] = IF (x = u /\ y = v) \/ (x = v /\ y = u) THEN 0
                             ELSE both.friend_requests[<<x, y>>]
    <3>1. both.friend_requests \in [Pairs -> Nat]
      BY <2>1, TablesRead
    <3> QED
      BY <1>1, <3>1 DEF Deleted, Pairs
  <2> HIDE DEF done, table
  <2>5. TablesSound(done)
    BY <2>1, <2>2, <2>4, TablesRead DEF TablesSound
  <2> QED
    BY <1>6, <2>2, <2>3, <2>5 DEF Fine
<1> HIDE DEF done
<1> QED
  BY <1>2, <1>4, <1>5, <1>6, <1>7 DEF Fine

\* The first INSERT alone makes a friendship one-sided, and only u's side.
LEMMA FriendsOneSided ==
    ASSUME NEW d \in Database, NEW u \in Uids, NEW v \in Uids,
           NEW new \in sql_ch_create_friends(d, u, v),
           NEW x \in Uids, NEW y \in Uids,
           OneSided(new, x, y), ~ OneSided(d, x, y)
    PROVE  x = u /\ y = v /\ new.friend_requests = d.friend_requests
<1> DEFINE row   == Inserted(d.friends, <<u, v>>)
           rows  == Inserted(row, <<v, u>>)
           one   == [d EXCEPT !.friends = row]
           both  == [one EXCEPT !.friends = Inserted(one.friends, <<v, u>>)]
           done  == [both EXCEPT !.friend_requests =
                                    Deleted(both.friend_requests, u, v)]
<1>1. new \in {d, one, both, done}
  BY Zenon DEF sql_ch_create_friends, OnFailure
<1>2. one.friends = row /\ one.friend_requests = d.friend_requests
  BY DEF Database
<1>3. both.friends = rows /\ done.friends = rows
  BY DEF Database
<1>4. d.friends \in [Pairs -> Nat]
  BY TablesRead
<1>5. /\ row \in [Pairs -> Nat]
      /\ \A a, b \in Uids :
            row[<<a, b>>] = IF a = u /\ b = v THEN d.friends[<<a, b>>] + 1
                            ELSE d.friends[<<a, b>>]
  BY <1>4 DEF Inserted, Pairs
<1> HIDE DEF row
<1>6. \A a, b \in Uids : rows[<<a, b>>] = IF a = v /\ b = u THEN row[<<a, b>>] + 1
                                          ELSE row[<<a, b>>]
  BY <1>5 DEF Inserted, Pairs
<1> HIDE DEF rows, one, both, done
<1>7. d.friends[<<x, y>>] \in Nat /\ d.friends[<<y, x>>] \in Nat
  BY TablesRead
<1>8. CASE new.friends = rows
  BY <1>5, <1>6, <1>7, <1>8 DEF OneSided
<1>9. CASE new = one
  BY <1>2, <1>5, <1>7, <1>9 DEF OneSided
<1> QED
  BY <1>1, <1>3, <1>8, <1>9

\* Rows are only removed by sql_ch_delete_friends.
LEMMA DeleteKeepsTables ==
    ASSUME NEW d \in Database, TablesSound(d), NEW u \in Uids, NEW v \in Uids,
           NEW out \in sql_ch_delete_friends(d, u, v)
    PROVE  /\ TablesSound(out.db)
           /\ out.db.users = d.users
           /\ \A x, y \in Uids :
                 out.db.friends[<<x, y>>] > 0 => d.friends[<<x, y>>] > 0
           /\ \A x, y \in Uids : OneSided(out.db, x, y) => OneSided(d, x, y)
<1> DEFINE friends  == Deleted(d.friends, u, v)
           requests == Deleted(d.friend_requests, u, v)
           parted   == [d EXCEPT !.friends = friends]
           denied   == [d EXCEPT !.friend_requests = requests]
<1>1. out.db \in {d, parted, denied}
  BY DEF sql_ch_delete_friends, OnFailure
<1>2. /\ parted.users = d.users /\ parted.friends = friends
      /\ parted.friend_requests = d.friend_requests
      /\ denied.users = d.users /\ denied.friends = d.friends
      /\ denied.friend_requests = requests
  BY DEF Database
<1>3. \A x, y \in Uids :
         /\ friends[<<x, y>>] = IF (x = u /\ y = v) \/ (x = v /\ y = u) THEN 0
                                ELSE d.friends[<<x, y>>]
         /\ requests[<<x, y>>] = IF (x = u /\ y = v) \/ (x = v /\ y = u) THEN 0
                                 ELSE d.friend_requests[<<x, y>>]
  <2>1. /\ d.friends \in [Pairs -> Nat]
        /\ d.friend_requests \in [Pairs -> Nat]
    BY TablesRead
  <2> QED
    BY <2>1 DEF Deleted, Pairs
<1> HIDE DEF friends, requests, parted, denied
<1>4. TablesSound(parted) /\ TablesSound(denied)
  BY <1>2, <1>3, TablesRead DEF TablesSound
<1>5. \A x, y \in Uids :
         parted.friends[<<x, y>>] > 0 \/ denied.friends[<<x, y>>] > 0 =>
             d.friends[<<x, y>>] > 0
  BY <1>2, <1>3, TablesRead
<1>6. \A x, y \in Uids :
         OneSided(parted, x, y) \/ OneSided(denied, x, y) => OneSided(d, x, y)
  BY <1>2, <1>3, TablesRead DEF OneSided
<1> QED
  BY <1>1, <1>2, <1>4, <1>5, <1>6
------------------------------------------------------------------------------
(* The handlers *)

\* Nobody comes online and the tables stay: DbInv does.
LEMMA QuietTables ==
    ASSUME DbInv, db' = db, DOMAIN users' \subseteq DOMAIN users,
           \A c \in DOMAIN clients' :
              clients'[c] > 0 => c \in DOMAIN clients /\ clients'[c] = clients[c]
    PROVE  DbInv'
<1>1. TablesSound(db')
  BY DEF DbInv
<1>2. OnlineRegistered'
  BY DEF DbInv, OnlineRegistered
<1> QED
  BY <1>1, <1>2 DEF DbInv

\* A handler that leaves the trees alone and keeps the tables sound.
LEMMA SoundTables ==
    ASSUME DbInv, UNCHANGED memory, TablesSound(db'), db.users \subseteq db'.users
    PROVE  DbInv'
BY DEF DbInv, OnlineRegistered, memory

LEMMA ClosingTables ==
    ASSUME IInv, DbInv, NEW fd \in DOMAIN clients, CloseClient(fd)
    PROVE  DbInv'
<1>1. Loses({fd})
  BY CallbackLoses DEF CloseClient
<1>2. \A c \in DOMAIN clients' : c \in DOMAIN clients /\ clients'[c] = clients[c]
  BY DEF CloseClient, gdsl_rbtree_remove, Restrict
<1> QED
  BY <1>1, <1>2, QuietTables DEF CloseClient, Loses

LEMMA DyingTables ==
    ASSUME DbInv, Dies, UNCHANGED db
    PROVE  DbInv'
BY QuietTables DEF Dies, EmptyTree

LEMMA ProcessTables ==
    ASSUME IInv, DbInv, Process
    PROVE  DbInv'
<1>1. CASE Boot \/ AcceptFails \/ HandshakeFails
  BY <1>1, QuietTables DEF Boot, AcceptFails, HandshakeFails, memory
<1>2. CASE Halt \/ SelectFails
  BY <1>2, DyingTables DEF Halt, SelectFails
<1>3. ASSUME NEW ready \in SUBSET (Fds \union {Listener}), Select(ready)
      PROVE  DbInv'
  BY <1>3, QuietTables DEF Select, memory
<1>4. ASSUME NEW fd \in Fds, Accept(fd) PROVE DbInv'
  <2>1. \A c \in DOMAIN clients' :
           clients'[c] > 0 => c \in DOMAIN clients /\ clients'[c] = clients[c]
    BY <1>4 DEF Accept, gdsl_rbtree_insert, USER_ID_INVALID
  <2> QED
    BY <1>4, <2>1, QuietTables DEF Accept
<1>5. ASSUME NEW fd \in Fds, ReadGoneClient(fd) PROVE DbInv'
  BY <1>5, DyingTables DEF ReadGoneClient
<1>6. ASSUME NEW fd \in Fds, HangUp(fd) PROVE DbInv'
  BY <1>6, ClosingTables DEF HangUp
<1> QED
  BY <1>1, <1>2, <1>3, <1>4, <1>5, <1>6 DEF Process

\* Only a registered user logs in.
LEMMA LoginTables ==
    ASSUME IInv, DbInv, NEW fd \in Fds, NEW name \in Names,
           NEW password_ok \in BOOLEAN, Login(fd, name, password_ok)
    PROVE  DbInv'
<1>1. /\ fd \in DOMAIN clients /\ ~ clients[fd] > 0 /\ db' = db
  BY DEF Login, UnauthPacket, Packet
<1>2. ASSUME "SQLV_SUCCESS" \in sql_ch_check_user_auth(db, name, password_ok),
             NEW auth \in authorize_client(fd, name),
             users' = auth.tree, clients' = [clients EXCEPT ![fd] = auth.id]
      PROVE  DbInv'
  <2>1. UidOf[name] \in db.users
    BY <1>2 DEF sql_ch_check_user_auth, OnFailure
  <2>2. auth.id \in db.users
    BY <1>2, <2>1 DEF authorize_client, DbInv, OnlineRegistered
  <2>3. DOMAIN users' = DOMAIN users \union {auth.id}
    BY <1>1, <1>2, AuthorizeGains DEF Gains
  <2>4. OnlineRegistered'
    BY <1>1, <1>2, <2>2, <2>3 DEF DbInv, OnlineRegistered
  <2> QED
    BY <1>1, <2>4 DEF DbInv
<1>3. ASSUME UNCHANGED <<clients, users>> PROVE DbInv'
  BY <1>1, <1>3, QuietTables
<1> QED
  BY <1>2, <1>3 DEF Login

\* A registration adds a row of users and touches no other table.
LEMMA RegisterAddsNoFriends ==
    ASSUME IInv, NEW fd \in Fds, NEW name \in Names, Register(fd, name)
    PROVE  /\ db'.friends = db.friends
           /\ db'.friend_requests = db.friend_requests
           /\ db.users \subseteq db'.users
<1>1. PICK out \in sql_ch_add_user(db, name) : db' = out.db
  BY DEF Register
<1>2. UidOf[name] \in Uids /\ db \in Database
  BY UidOfAssumption DEF IInv, TypeOK
<1> DEFINE uid   == UidOf[name]
           added == [db EXCEPT !.users = db.users \union {uid},
                               !.privilege = [db.privilege EXCEPT ![uid] = 0]]
<1>3. out.db \in {db, added}
  BY DEF sql_ch_add_user, OnFailure
<1>4. /\ added.friends = db.friends
      /\ added.friend_requests = db.friend_requests
      /\ db.users \subseteq added.users
  BY <1>2 DEF Database
<1> HIDE DEF added
<1> QED
  BY <1>1, <1>3, <1>4

LEMMA RegisterTables ==
    ASSUME IInv, DbInv, NEW fd \in Fds, NEW name \in Names, Register(fd, name)
    PROVE  DbInv'
<1>1. TablesSound(db')
  BY RegisterAddsNoFriends DEF DbInv, TablesSound
<1> QED
  BY <1>1, RegisterAddsNoFriends, SoundTables DEF Register

\* What AddFriend does to the tables, whatever fails.
LEMMA AddFriendTables ==
    ASSUME IInv, DbInv, NEW fd \in Fds, NEW to \in Uids, AddFriend(fd, to)
    PROVE  /\ TablesSound(db')
           /\ db'.users = db.users
           /\ \A x, y \in Uids :
                 db'.friends[<<x, y>>] > 0 /\ ~ db.friends[<<x, y>>] > 0 =>
                    /\ Pending(to, clients[fd])
                    /\ (x = clients[fd] /\ y = to) \/ (x = to /\ y = clients[fd])
           /\ \A x, y \in Uids :
                 OneSided(db', x, y) /\ ~ OneSided(db, x, y) =>
                    /\ Pending(to, clients[fd])
                    /\ x = clients[fd] /\ y = to
                    /\ db'.friend_requests = db.friend_requests
<1> DEFINE from == clients[fd]
           Kept(d, asked) ==
              /\ TablesSound(d)
              /\ d.users = db.users
              /\ \A x, y \in Uids :
                    d.friends[<<x, y>>] > 0 /\ ~ db.friends[<<x, y>>] > 0 =>
                       /\ asked
                       /\ (x = from /\ y = to) \/ (x = to /\ y = from)
              /\ \A x, y \in Uids :
                    OneSided(d, x, y) /\ ~ OneSided(db, x, y) =>
                       /\ asked
                       /\ x = from /\ y = to
                       /\ d.friend_requests = db.friend_requests
<1>1. /\ from \in db.users /\ db \in Database
      /\ \/ db' = db
         \/ \E out \in send_friend_request(from, to) : db' = out.db
  BY DEF AddFriend, AuthPacket, Packet, DbInv, OnlineRegistered, IInv, TypeOK
<1>2. Kept(db, FALSE)
  BY DEF DbInv
<1>3. ASSUME to \in db.users, NEW req \in sql_ch_create_friend_request(db, from, to)
      PROVE  \A d \in IF req.res = "SQLV_OTHER_EXISTS"
                      THEN sql_ch_create_friends(req.db, from, to)
                      ELSE {req.db} : Kept(d, Pending(to, from))
  <2>1. /\ req.db \in Database
        /\ TablesSound(req.db)
        /\ req.db.users = db.users
        /\ req.db.friends = db.friends
        /\ req.res = "SQLV_OTHER_EXISTS" =>
              req.db = db /\ db.friend_requests[<<to, from>>] > 0
    BY <1>1, <1>3, RequestKeepsTables DEF DbInv
  <2>2. CASE req.res = "SQLV_OTHER_EXISTS"
    <3>1. ASSUME NEW d \in sql_ch_create_friends(req.db, from, to)
          PROVE  Kept(d, Pending(to, from))
      <4>1. d \in sql_ch_create_friends(db, from, to) /\ Pending(to, from)
        BY <2>1, <2>2, <3>1 DEF Pending
      <4>2. /\ TablesSound(d)
            /\ d.users = db.users
            /\ \A x, y \in Uids :
                  d.friends[<<x, y>>] > 0 =>
                     \/ db.friends[<<x, y>>] > 0
                     \/ x = from /\ y = to
                     \/ x = to /\ y = from
        BY <1>1, <1>3, <4>1, FriendsKeepTables DEF DbInv
      <4>3. \A x, y \in Uids :
               OneSided(d, x, y) /\ ~ OneSided(db, x, y) =>
                  x = from /\ y = to /\ d.friend_requests = db.friend_requests
        BY <1>1, <1>3, <4>1, TablesRead, FriendsOneSided
      <4> QED
        BY <4>1, <4>2, <4>3
    <3> HIDE DEF Kept
    <3> QED
      BY <2>2, <3>1
  <2>3. CASE req.res # "SQLV_OTHER_EXISTS"
    BY <2>1, <2>3 DEF OneSided
  <2> QED
    BY <2>2, <2>3
<1>4. ASSUME NEW out \in send_friend_request(from, to)
      PROVE  Kept(out.db, Pending(to, from))
  <2>1. CASE out.db = db
    BY <1>2, <2>1
  <2>2. CASE /\ TRUE \in sql_ch_user_exists(db, to)
             /\ \E req \in sql_ch_create_friend_request(db, from, to) :
                   out.db \in IF req.res = "SQLV_OTHER_EXISTS"
                              THEN sql_ch_create_friends(req.db, from, to)
                              ELSE {req.db}
    <3>1. to \in db.users
      BY <2>2 DEF sql_ch_user_exists, OnFailure
    <3> HIDE DEF Kept
    <3> QED
      BY <1>3, <2>2, <3>1
  <2>3. PICK exists \in sql_ch_user_exists(db, to) :
           out \in IF exists
                   THEN {[db |-> d, sent |-> send_to_user(users, to, "MSG_SYSTEM_MSG", 0)] :
                            d \in UNION {IF req.res = "SQLV_OTHER_EXISTS"
                                         THEN sql_ch_create_friends(req.db, from, to)
                                         ELSE {req.db} :
                                    req \in sql_ch_create_friend_request(db, from, to)}}
                   ELSE {[db |-> db,
                          sent |-> send_to_user(users, from, "MSG_SYSTEM_MSG", 0)]}
    BY Zenon DEF send_friend_request
  <2>4. exists \in BOOLEAN
    BY DEF sql_ch_user_exists, OnFailure
  <2> HIDE DEF Kept
  <2>5. CASE exists = TRUE
    <3>1. PICK d \in UNION {IF req.res = "SQLV_OTHER_EXISTS"
                            THEN sql_ch_create_friends(req.db, from, to)
                            ELSE {req.db} :
                       req \in sql_ch_create_friend_request(db, from, to)} :
             out = [db |-> d, sent |-> send_to_user(users, to, "MSG_SYSTEM_MSG", 0)]
      BY <2>3, <2>5
    <3>2. PICK req \in sql_ch_create_friend_request(db, from, to) :
             d \in IF req.res = "SQLV_OTHER_EXISTS"
                  THEN sql_ch_create_friends(req.db, from, to)
                  ELSE {req.db}
      BY <3>1
    <3>3. out.db = d
      BY <3>1
    <3> QED
      BY <2>2, <2>3, <2>5, <3>2, <3>3
  <2>6. CASE exists = FALSE
    BY <2>1, <2>3, <2>6
  <2> QED
    BY <2>4, <2>5, <2>6
<1>5. Kept(db', Pending(to, from))
  BY <1>1, <1>2, <1>4
<1> QED
  BY <1>5

\* What RemoveFriend does to them.
LEMMA RemoveFriendTables ==
    ASSUME IInv, DbInv, NEW fd \in Fds, NEW to \in Uids, RemoveFriend(fd, to)
    PROVE  /\ TablesSound(db')
           /\ db'.users = db.users
           /\ \A x, y \in Uids : db'.friends[<<x, y>>] > 0 => db.friends[<<x, y>>] > 0
           /\ \A x, y \in Uids : OneSided(db', x, y) => OneSided(db, x, y)
<1>1. PICK out \in sql_ch_delete_friends(db, clients[fd], to) : db' = out.db
  BY DEF RemoveFriend
<1>2. clients[fd] \in Uids /\ db \in Database
  BY DEF RemoveFriend, AuthPacket, Packet, IInv, TypeOK
<1> QED
  BY <1>1, <1>2, DeleteKeepsTables DEF DbInv

LEMMA AuthHandlerTables ==
    ASSUME IInv, DbInv, NEW fd \in Fds, AuthHandler(fd)
    PROVE  DbInv'
<1>1. ASSUME UNCHANGED <<clients, users, db>> PROVE DbInv'
  BY <1>1, QuietTables
<1>2. CASE Broadcast(fd) \/ Who(fd) \/ ListFriends(fd)
  BY <1>1, <1>2 DEF Broadcast, Who, ListFriends, memory
<1>3. CASE Logout(fd)
  <2>1. /\ fd \in DOMAIN clients /\ clients[fd] \in DOMAIN users
        /\ LeaveUser(clients[fd], fd) /\ db' = db
        /\ clients' = [clients EXCEPT ![fd] = USER_ID_INVALID]
    BY <1>3 DEF Logout, AuthPacket, Packet
  <2>2. Loses({fd})
    BY <2>1, LeaveUserLoses
  <2>3. \A c \in DOMAIN clients' :
           clients'[c] > 0 => c \in DOMAIN clients /\ clients'[c] = clients[c]
    BY <2>1 DEF USER_ID_INVALID
  <2> QED
    BY <2>1, <2>2, <2>3, QuietTables DEF Loses
<1>4. CASE Disconnect(fd)
  BY <1>4, ClosingTables DEF Disconnect, AuthPacket, Packet
<1>5. ASSUME NEW tid \in Uids, Kick(fd, tid) PROVE DbInv'
  <2>1. PICK C \in SUBSET Connections(users, tid) :
           /\ Loses(C)
           /\ clients' = gdsl_rbtree_remove(clients, C)
    BY <1>5, KickLoses
  <2>2. \A c \in DOMAIN clients' : c \in DOMAIN clients /\ clients'[c] = clients[c]
    BY <2>1 DEF gdsl_rbtree_remove, Restrict
  <2>3. db' = db
    BY <1>5 DEF Kick
  <2> QED
    BY <2>1, <2>2, <2>3, QuietTables DEF Loses
<1>6. ASSUME NEW tid \in Uids, Whisper(fd, tid) \/ KickRefused(fd, tid) PROVE DbInv'
  BY <1>1, <1>6 DEF Whisper, KickRefused, memory
<1>7. ASSUME NEW tid \in Uids, KickReadsFreedNode(fd, tid) PROVE DbInv'
  BY <1>7, DyingTables DEF KickReadsFreedNode
<1>8. ASSUME NEW tid \in Uids, AddFriend(fd, tid) PROVE DbInv'
  <2>1. UNCHANGED memory
    BY <1>8 DEF AddFriend
  <2> QED
    BY <1>8, <2>1, AddFriendTables, SoundTables
<1>9. ASSUME NEW tid \in Uids, RemoveFriend(fd, tid) PROVE DbInv'
  <2>1. UNCHANGED memory
    BY <1>9 DEF RemoveFriend
  <2> QED
    BY <1>9, <2>1, RemoveFriendTables, SoundTables
<1>10. ASSUME NEW uid \in Uids, NEW priv \in Grants, GrantPrivileges(fd, uid, priv)
       PROVE  DbInv'
  <2>1. /\ db'.users = db.users /\ db'.friends = db.friends
        /\ db'.friend_requests = db.friend_requests
    BY <1>10 DEF GrantPrivileges, sql_ch_update_privileges, OnFailure, IInv,
                 TypeOK, Database
  <2>2. TablesSound(db')
    BY <2>1 DEF DbInv, TablesSound
  <2> QED
    BY <1>10, <2>1, <2>2, SoundTables DEF GrantPrivileges
<1>11. ASSUME NEW name \in GroupNames, CreateGroup(fd, name) PROVE DbInv'
  <2>1. /\ db'.users = db.users /\ db'.friends = db.friends
        /\ db'.friend_requests = db.friend_requests
    BY <1>11 DEF CreateGroup, sql_ch_create_group, OnFailure, IInv, TypeOK, Database
  <2>2. TablesSound(db')
    BY <2>1 DEF DbInv, TablesSound
  <2> QED
    BY <1>11, <2>1, <2>2, SoundTables DEF CreateGroup
<1> QED
  BY <1>2, <1>3, <1>4, <1>5, <1>6, <1>7, <1>8, <1>9, <1>10, <1>11 DEF AuthHandler

LEMMA NextTables ==
    ASSUME IInv, DbInv, [Next]_vars
    PROVE  DbInv'
<1>1. CASE Process
  BY <1>1, ProcessTables
<1>2. ASSUME NEW fd \in Fds, UnauthHandler(fd) PROVE DbInv'
  BY <1>2, LoginTables, RegisterTables, ClosingTables
     DEF UnauthHandler, UnauthDisconnect, UnauthPacket, Packet
<1>3. ASSUME NEW fd \in Fds, AuthHandler(fd) PROVE DbInv'
  BY <1>3, AuthHandlerTables
<1>4. ASSUME NEW fd \in Fds, DropPacket(fd) PROVE DbInv'
  BY <1>4, QuietTables DEF DropPacket, memory
<1>5. CASE UNCHANGED vars
  BY <1>5, QuietTables DEF vars
<1> QED
  BY <1>1, <1>2, <1>3, <1>4, <1>5 DEF Next

------------------------------------------------------------------------------
(* Theorems *)

\* What the first server process finds.
InitialTablesSound == \A d \in InitialDbs : TablesSound(d)

LEMMA InitTables == InitialTablesSound /\ Init => DbInv
BY DEF InitialTablesSound, Init, DbInv, OnlineRegistered, EmptyTree

LEMMA DatabaseInvariance ==
    ASSUME InitialTablesSound
    PROVE  Spec => [](IInv /\ DbInv)
<1>1. Init => IInv /\ DbInv
  BY InitEstablishes, InitTables
<1>2. IInv /\ DbInv /\ [Next]_vars => (IInv /\ DbInv)'
  BY NextPreserves, NextTables
<1> QED
  BY <1>1, <1>2, PTL DEF Spec

\* Of two users at most one has a request pending, and has it once, whatever is
\* asked in whatever order and whichever queries fail or are cut off by a crash.
THEOREM RequestsStayOneWay ==
    ASSUME InitialTablesSound
    PROVE  Spec => []RequestsOneWay
<1>1. IInv /\ DbInv => RequestsOneWay
  BY DEF DbInv, TablesSound, RequestsOneWay, Pending
<1> QED
  BY <1>1, DatabaseInvariance, PTL

\* Rows name registered users, in the same generality, although only the target
\* of a request is looked up.
THEOREM RowsBelongToUsers ==
    ASSUME InitialTablesSound
    PROVE  Spec => []RowsOfUsers
<1>1. IInv /\ DbInv => RowsOfUsers
  BY DEF DbInv, TablesSound, RowsOfUsers, Pending, Friends
<1> QED
  BY <1>1, DatabaseInvariance, PTL

\* Only the two handlers of friendships touch the two tables.
LEMMA FriendHandlersOnly ==
    ASSUME IInv, [Next]_vars,
           \A fd \in Fds, to \in Uids : ~ AddFriend(fd, to) /\ ~ RemoveFriend(fd, to)
    PROVE  db'.friends = db.friends /\ db'.friend_requests = db.friend_requests
<1>1. db \in Database
  BY DEF IInv, TypeOK
<1>2. ASSUME NEW fd \in Fds, UnauthHandler(fd)
      PROVE  db'.friends = db.friends /\ db'.friend_requests = db.friend_requests
  BY <1>2, RegisterAddsNoFriends DEF UnauthHandler, Login, UnauthDisconnect, CloseClient
<1>3. CASE Process
  <2>1. \A fd \in Fds : HangUp(fd) => db' = db
    BY DEF HangUp, CloseClient
  <2> QED
    BY <1>3, <2>1
       DEF Process, Boot, Halt, SelectFails, AcceptFails, HandshakeFails,
           Select, Accept, ReadGoneClient, Dies
<1>4. ASSUME NEW fd \in Fds, AuthHandler(fd)
      PROVE  db'.friends = db.friends /\ db'.friend_requests = db.friend_requests
  <2>1. CASE \/ Broadcast(fd) \/ Who(fd) \/ ListFriends(fd)
            \/ Logout(fd) \/ Disconnect(fd)
    BY <2>1 DEF Broadcast, Who, ListFriends, Logout, Disconnect, CloseClient
  <2>2. ASSUME NEW tid \in Uids,
               \/ Whisper(fd, tid) \/ Kick(fd, tid) \/ KickRefused(fd, tid)
               \/ KickReadsFreedNode(fd, tid)
        PROVE  db' = db
    BY <2>2 DEF Whisper, Kick, KickRefused, KickReadsFreedNode
  <2>3. ASSUME NEW uid \in Uids, NEW priv \in Grants, GrantPrivileges(fd, uid, priv)
        PROVE  db'.friends = db.friends /\ db'.friend_requests = db.friend_requests
    BY <1>1, <2>3 DEF GrantPrivileges, sql_ch_update_privileges, OnFailure, Database
  <2>4. ASSUME NEW name \in GroupNames, CreateGroup(fd, name)
        PROVE  db'.friends = db.friends /\ db'.friend_requests = db.friend_requests
    BY <1>1, <2>4 DEF CreateGroup, sql_ch_create_group, OnFailure, Database
  <2> QED
    BY <1>4, <2>1, <2>2, <2>3, <2>4 DEF AuthHandler
<1>5. ASSUME NEW fd \in Fds, DropPacket(fd) PROVE db' = db
  BY <1>5 DEF DropPacket
<1>6. CASE UNCHANGED vars
  BY <1>6 DEF vars
<1> QED
  BY <1>2, <1>3, <1>4, <1>5, <1>6 DEF Next

\* A step that adds a friend.
LEMMA NextConsents ==
    ASSUME IInv, DbInv, [Next]_vars, NEW u \in Uids, NEW v \in Uids,
           v \notin Friends(db, u), v \in Friends(db', u)
    PROVE  Accepts(u, v) \/ Accepts(v, u)
<1>1. ~ db.friends[<<u, v>>] > 0 /\ db'.friends[<<u, v>>] > 0
  BY DEF Friends
<1>2. ASSUME NEW fd \in Fds, NEW to \in Uids, AddFriend(fd, to)
      PROVE  Accepts(u, v) \/ Accepts(v, u)
  <2>1. /\ Pending(to, clients[fd])
        /\ (u = clients[fd] /\ v = to) \/ (u = to /\ v = clients[fd])
    BY <1>1, <1>2, AddFriendTables
  <2> QED
    BY <1>2, <2>1 DEF Accepts
<1>3. ASSUME NEW fd \in Fds, NEW to \in Uids, RemoveFriend(fd, to) PROVE FALSE
  BY <1>1, <1>3, RemoveFriendTables
<1>4. \E fd \in Fds, to \in Uids : AddFriend(fd, to) \/ RemoveFriend(fd, to)
  BY <1>1, FriendHandlersOnly
<1> QED
  BY <1>2, <1>3, <1>4

\* A step that leaves one side of a friendship.
LEMMA NextOneSided ==
    ASSUME IInv, DbInv, [Next]_vars, NEW u \in Uids, NEW v \in Uids,
           OneSided(db', u, v), ~ OneSided(db, u, v)
    PROVE  Accepts(u, v) /\ db'.friend_requests[<<v, u>>] > 0
<1>1. ASSUME NEW fd \in Fds, NEW to \in Uids, AddFriend(fd, to)
      PROVE  Accepts(u, v) /\ db'.friend_requests[<<v, u>>] > 0
  <2>1. /\ Pending(to, clients[fd])
        /\ u = clients[fd] /\ v = to
        /\ db'.friend_requests = db.friend_requests
    BY <1>1, AddFriendTables
  <2> QED
    BY <1>1, <2>1 DEF Accepts, Pending
<1>2. ASSUME NEW fd \in Fds, NEW to \in Uids, RemoveFriend(fd, to) PROVE FALSE
  BY <1>2, RemoveFriendTables
<1>3. \E fd \in Fds, to \in Uids : AddFriend(fd, to) \/ RemoveFriend(fd, to)
  BY FriendHandlersOnly DEF OneSided
<1> QED
  BY <1>1, <1>2, <1>3

\* Nobody becomes a friend without both having asked, one before and one in
\* the step that makes the friendship: whichever queries fail.
THEOREM Consent ==
    ASSUME InitialTablesSound
    PROVE  Spec => FriendshipIsConsented
<1>1. IInv /\ DbInv /\ [Next]_vars =>
         [\A u, v \in Uids :
             v \notin Friends(db, u) /\ v \in Friends(db', u) =>
                 Accepts(u, v) \/ Accepts(v, u)]_vars
  BY NextConsents
<1> QED
  BY <1>1, DatabaseInvariance, PTL DEF Spec, FriendshipIsConsented

\* One row of a friendship without the other is what an answer leaves that was
\* cut short, with the request it answers: whichever queries fail.
THEOREM OneSideIsAnAnswer ==
    ASSUME InitialTablesSound
    PROVE  Spec => OneSidedOnlyByAnswer
<1>1. IInv /\ DbInv /\ [Next]_vars =>
         [\A u, v \in Uids :
             OneSided(db', u, v) /\ ~OneSided(db, u, v) =>
                 Accepts(u, v) /\ db'.friend_requests[<<v, u>>] > 0]_vars
  BY NextOneSided
<1> QED
  BY <1>1, DatabaseInvariance, PTL DEF Spec, OneSidedOnlyByAnswer

------------------------------------------------------------------------------
(* Friendships while every query succeeds (DbFails = FALSE): mutual, single *)
(* rows, without requests, and ended completely.                           *)

\* The rows of two users, of the tables d.
FriendTables(d) ==
    \A x, y \in Uids :
       /\ d.friends[<<x, y>>] <= 1
       /\ d.friends[<<x, y>>] > 0 =>
             d.friends[<<y, x>>] > 0 /\ ~ d.friend_requests[<<x, y>>] > 0

------------------------------------------------------------------------------
(* The queries *)

\* Two users who are not friends become friends: both rows, and no request.
LEMMA CreateFriends ==
    ASSUME DbFails = FALSE, NEW d \in Database, FriendTables(d),
           NEW u \in Uids, NEW v \in Uids, u # v, ~ d.friends[<<u, v>>] > 0,
           NEW new \in sql_ch_create_friends(d, u, v)
    PROVE  FriendTables(new)
<1> DEFINE one == Inserted(d.friends, <<u, v>>)
           two == Inserted(one, <<v, u>>)
           requests == Deleted(d.friend_requests, u, v)
<1>1. new = [d EXCEPT !.friends = two, !.friend_requests = requests]
  BY DEF sql_ch_create_friends, OnFailure, Database
<1>2. new.friends = two /\ new.friend_requests = requests
  <2> HIDE DEF two, requests
  <2> QED
    BY <1>1 DEF Database
<1>3. d.friends \in [Pairs -> Nat] /\ d.friend_requests \in [Pairs -> Nat]
  BY TablesRead
<1>4. /\ one \in [Pairs -> Nat]
      /\ \A x, y \in Uids : one[<<x, y>>] = IF x = u /\ y = v THEN d.friends[<<x, y>>] + 1
                                           ELSE d.friends[<<x, y>>]
  BY <1>3 DEF Inserted, Pairs
<1> HIDE DEF one
<1>5. \A x, y \in Uids : two[<<x, y>>] = IF x = v /\ y = u THEN one[<<x, y>>] + 1
                                        ELSE one[<<x, y>>]
  BY <1>4 DEF Inserted, Pairs
<1>6. \A x, y \in Uids :
         requests[<<x, y>>] = IF (x = u /\ y = v) \/ (x = v /\ y = u) THEN 0
                              ELSE d.friend_requests[<<x, y>>]
  BY <1>3 DEF Deleted, Pairs
<1>7. d.friends[<<u, v>>] = 0 /\ d.friends[<<v, u>>] = 0
  BY TablesRead DEF FriendTables
<1> HIDE DEF two, requests
<1>8. \A x, y \in Uids :
         two[<<x, y>>] = IF (x = u /\ y = v) \/ (x = v /\ y = u) THEN 1
                         ELSE d.friends[<<x, y>>]
  <2> TAKE x, y \in Uids
  <2>1. one[<<x, y>>] = IF x = u /\ y = v THEN d.friends[<<x, y>>] + 1
                        ELSE d.friends[<<x, y>>]
    BY <1>4
  <2>2. two[<<x, y>>] = IF x = v /\ y = u THEN one[<<x, y>>] + 1 ELSE one[<<x, y>>]
    BY <1>5
  <2>3. CASE x = u /\ y = v
    BY <1>7, <2>1, <2>2, <2>3
  <2>4. CASE x = v /\ y = u
    BY <1>7, <2>1, <2>2, <2>4
  <2> QED
    BY <2>1, <2>2, <2>3, <2>4
<1>9. SUFFICES ASSUME NEW x \in Uids, NEW y \in Uids
      PROVE  /\ two[<<x, y>>] <= 1
             /\ two[<<x, y>>] > 0 =>
                   two[<<y, x>>] > 0 /\ ~ requests[<<x, y>>] > 0
  BY <1>2, Zenon DEF FriendTables
<1>10. /\ d.friends[<<x, y>>] \in Nat /\ d.friends[<<x, y>>] <= 1
       /\ d.friends[<<x, y>>] > 0 =>
             d.friends[<<y, x>>] > 0 /\ ~ d.friend_requests[<<x, y>>] > 0
  BY TablesRead DEF FriendTables
<1>11. /\ two[<<x, y>>] = IF (x = u /\ y = v) \/ (x = v /\ y = u) THEN 1
                          ELSE d.friends[<<x, y>>]
       /\ two[<<y, x>>] = IF (y = u /\ x = v) \/ (y = v /\ x = u) THEN 1
                          ELSE d.friends[<<y, x>>]
  BY <1>8
<1>12. requests[<<x, y>>] = IF (x = u /\ y = v) \/ (x = v /\ y = u) THEN 0
                            ELSE d.friend_requests[<<x, y>>]
  BY <1>6
<1> QED
  BY <1>10, <1>11, <1>12

\* A request is filed between users who are not friends; who asks itself is
\* never answered with "the other user already asked".
LEMMA RequestFriends ==
    ASSUME DbFails = FALSE, NEW d \in Database, FriendTables(d),
           NEW u \in Uids, NEW v \in Uids, ~ d.friends[<<u, v>>] > 0,
           NEW out \in sql_ch_create_friend_request(d, u, v)
    PROVE  /\ FriendTables(out.db)
           /\ out.res = "SQLV_OTHER_EXISTS" => out.db = d /\ u # v
<1> DEFINE table == Inserted(d.friend_requests, <<u, v>>)
           filed == [d EXCEPT !.friend_requests = table]
<1>1. filed.friends = d.friends /\ filed.friend_requests = table
  BY DEF Database
<1>2. \A x, y \in Uids :
         table[<<x, y>>] = IF x = u /\ y = v THEN d.friend_requests[<<x, y>>] + 1
                           ELSE d.friend_requests[<<x, y>>]
  <2>1. d.friend_requests \in [Pairs -> Nat]
    BY TablesRead
  <2> QED
    BY <2>1 DEF Inserted, Pairs
<1> HIDE DEF table, filed
<1>3. FriendTables(filed)
  <2>1. ASSUME NEW x \in Uids, NEW y \in Uids, d.friends[<<x, y>>] > 0
        PROVE  ~ table[<<x, y>>] > 0
    BY <1>2, <2>1 DEF FriendTables
  <2> QED
    BY <1>1, <2>1 DEF FriendTables
<1>4. \/ out = [db |-> filed, res |-> "SQLV_SUCCESS"]
      \/ out = [db |-> d, res |-> "SQLV_ENTRY_EXISTS"]
      \/ out = [db |-> d, res |-> "SQLV_OTHER_EXISTS"] /\ u # v
  BY DEF sql_ch_create_friend_request, OnFailure, table, filed
<1> QED
  BY <1>3, <1>4

\* A deletion that changes something leaves nothing between the two.
LEMMA DeleteFriends ==
    ASSUME DbFails = FALSE, NEW d \in Database, FriendTables(d),
           NEW u \in Uids, NEW v \in Uids,
           NEW out \in sql_ch_delete_friends(d, u, v)
    PROVE  /\ FriendTables(out.db)
           /\ \A p \in {<<u, v>>, <<v, u>>} :
                 out.db.friends[p] = 0 /\ out.db.friend_requests[p] = 0
<1> DEFINE friends  == Deleted(d.friends, u, v)
           requests == Deleted(d.friend_requests, u, v)
           parted   == [d EXCEPT !.friends = friends]
           denied   == [d EXCEPT !.friend_requests = requests]
<1>1. IF d.friends[<<u, v>>] > 0 THEN out.db = parted ELSE out.db = denied
  BY DEF sql_ch_delete_friends, OnFailure
<1>2. /\ parted.friends = friends /\ parted.friend_requests = d.friend_requests
      /\ denied.friends = d.friends /\ denied.friend_requests = requests
  BY DEF Database
<1>3. \A x, y \in Uids :
         /\ friends[<<x, y>>] = IF (x = u /\ y = v) \/ (x = v /\ y = u) THEN 0
                                ELSE d.friends[<<x, y>>]
         /\ requests[<<x, y>>] = IF (x = u /\ y = v) \/ (x = v /\ y = u) THEN 0
                                 ELSE d.friend_requests[<<x, y>>]
  <2>1. d.friends \in [Pairs -> Nat] /\ d.friend_requests \in [Pairs -> Nat]
    BY TablesRead
  <2> QED
    BY <2>1 DEF Deleted, Pairs
<1> HIDE DEF friends, requests, parted, denied
<1>4. CASE d.friends[<<u, v>>] > 0
  <2>1. FriendTables(parted)
    <3> SUFFICES ASSUME NEW x \in Uids, NEW y \in Uids
        PROVE  /\ parted.friends[<<x, y>>] <= 1
               /\ parted.friends[<<x, y>>] > 0 =>
                     /\ parted.friends[<<y, x>>] > 0
                     /\ ~ parted.friend_requests[<<x, y>>] > 0
      BY Zenon DEF FriendTables
    <3>1. /\ d.friends[<<x, y>>] \in Nat /\ d.friends[<<x, y>>] <= 1
          /\ d.friends[<<x, y>>] > 0 =>
                d.friends[<<y, x>>] > 0 /\ ~ d.friend_requests[<<x, y>>] > 0
      BY TablesRead DEF FriendTables
    <3> QED
      BY <1>2, <1>3, <3>1
  <2>2. d.friend_requests[<<u, v>>] = 0 /\ d.friend_requests[<<v, u>>] = 0
    BY <1>4, TablesRead DEF FriendTables
  <2> QED
    BY <1>1, <1>2, <1>3, <1>4, <2>1, <2>2
<1>5. CASE ~ d.friends[<<u, v>>] > 0
  <2>1. FriendTables(denied)
    <3> SUFFICES ASSUME NEW x \in Uids, NEW y \in Uids
        PROVE  /\ denied.friends[<<x, y>>] <= 1
               /\ denied.friends[<<x, y>>] > 0 =>
                     /\ denied.friends[<<y, x>>] > 0
                     /\ ~ denied.friend_requests[<<x, y>>] > 0
      BY Zenon DEF FriendTables
    <3>1. /\ d.friends[<<x, y>>] \in Nat /\ d.friends[<<x, y>>] <= 1
          /\ d.friends[<<x, y>>] > 0 =>
                d.friends[<<y, x>>] > 0 /\ ~ d.friend_requests[<<x, y>>] > 0
      BY TablesRead DEF FriendTables
    <3> QED
      BY <1>2, <1>3, <3>1
  <2>2. d.friends[<<u, v>>] = 0 /\ d.friends[<<v, u>>] = 0
    BY <1>5, TablesRead DEF FriendTables
  <2> QED
    BY <1>1, <1>2, <1>3, <1>5, <2>1, <2>2
<1> QED
  BY <1>4, <1>5

------------------------------------------------------------------------------
(* The handlers *)

LEMMA AddFriendKeepsFriends ==
    ASSUME DbFails = FALSE, IInv, FriendTables(db),
           NEW fd \in Fds, NEW to \in Uids, AddFriend(fd, to)
    PROVE  FriendTables(db')
<1> DEFINE from == clients[fd]
<1>1. from \in Uids /\ db \in Database
  BY DEF AddFriend, AuthPacket, Packet, IInv, TypeOK
<1>2. \/ db' = db
      \/ /\ ~ db.friends[<<from, to>>] > 0
         /\ \E out \in send_friend_request(from, to) : db' = out.db
  BY DEF AddFriend, sql_ch_are_friends, OnFailure
<1> HIDE DEF from
<1>3. ASSUME ~ db.friends[<<from, to>>] > 0,
             NEW req \in sql_ch_create_friend_request(db, from, to),
             NEW d \in IF req.res = "SQLV_OTHER_EXISTS"
                       THEN sql_ch_create_friends(req.db, from, to)
                       ELSE {req.db}
      PROVE  FriendTables(d)
  <2>1. /\ FriendTables(req.db)
        /\ req.res = "SQLV_OTHER_EXISTS" => req.db = db /\ from # to
    BY <1>1, <1>3, RequestFriends
  <2>2. CASE req.res = "SQLV_OTHER_EXISTS"
    <3>1. req.db = db /\ from # to /\ d \in sql_ch_create_friends(db, from, to)
      BY <1>3, <2>1, <2>2
    <3> QED
      BY <1>1, <1>3, <3>1, CreateFriends
  <2>3. CASE req.res # "SQLV_OTHER_EXISTS"
    BY <1>3, <2>1, <2>3
  <2> QED
    BY <2>2, <2>3
<1>4. ASSUME ~ db.friends[<<from, to>>] > 0,
             NEW out \in send_friend_request(from, to)
      PROVE  FriendTables(out.db)
  <2> DEFINE outcomes ==
               UNION {IF req.res = "SQLV_OTHER_EXISTS"
                      THEN sql_ch_create_friends(req.db, from, to)
                      ELSE {req.db} :
                         req \in sql_ch_create_friend_request(db, from, to)}
  <2>1. PICK exists \in sql_ch_user_exists(db, to) :
           out \in IF exists
                   THEN {[db |-> d, sent |-> send_to_user(users, to, "MSG_SYSTEM_MSG", 0)] :
                            d \in outcomes}
                   ELSE {[db |-> db,
                          sent |-> send_to_user(users, from, "MSG_SYSTEM_MSG", 0)]}
    BY Zenon DEF send_friend_request
  <2>2. exists \in BOOLEAN
    BY DEF sql_ch_user_exists, OnFailure
  <2>3. \A d \in outcomes : FriendTables(d)
    <3> SUFFICES ASSUME NEW d \in outcomes PROVE FriendTables(d)
      OBVIOUS
    <3>1. PICK req \in sql_ch_create_friend_request(db, from, to) :
             d \in IF req.res = "SQLV_OTHER_EXISTS"
                  THEN sql_ch_create_friends(req.db, from, to)
                  ELSE {req.db}
      OBVIOUS
    <3> QED
      BY <1>3, <1>4, <3>1
  <2> HIDE DEF outcomes
  <2>4. CASE exists = TRUE
    <3>1. PICK d \in outcomes :
             out = [db |-> d, sent |-> send_to_user(users, to, "MSG_SYSTEM_MSG", 0)]
      BY <2>1, <2>4
    <3> QED
      BY <2>3, <3>1
  <2>5. CASE exists = FALSE
    BY <2>1, <2>5
  <2> QED
    BY <2>2, <2>4, <2>5
<1> QED
  BY <1>2, <1>4

LEMMA RemoveFriendParts ==
    ASSUME DbFails = FALSE, IInv, FriendTables(db),
           NEW fd \in Fds, NEW to \in Uids, RemoveFriend(fd, to)
    PROVE  /\ FriendTables(db')
           /\ \A p \in {<<clients[fd], to>>, <<to, clients[fd]>>} :
                 db'.friends[p] = 0 /\ db'.friend_requests[p] = 0
<1>1. clients[fd] \in Uids /\ db \in Database
  BY DEF RemoveFriend, AuthPacket, Packet, IInv, TypeOK
<1>2. PICK out \in sql_ch_delete_friends(db, clients[fd], to) : db' = out.db
  BY DEF RemoveFriend
<1> QED
  BY <1>1, <1>2, DeleteFriends

LEMMA NextKeepsFriends ==
    ASSUME DbFails = FALSE, IInv, FriendTables(db), [Next]_vars
    PROVE  FriendTables(db')
<1>1. ASSUME NEW fd \in Fds, NEW to \in Uids, AddFriend(fd, to) \/ RemoveFriend(fd, to)
      PROVE  FriendTables(db')
  BY <1>1, AddFriendKeepsFriends, RemoveFriendParts
<1>2. ASSUME \A fd \in Fds, to \in Uids : ~ AddFriend(fd, to) /\ ~ RemoveFriend(fd, to)
      PROVE  FriendTables(db')
  <2>1. db'.friends = db.friends /\ db'.friend_requests = db.friend_requests
    BY <1>2, FriendHandlersOnly
  <2> QED
    BY <2>1 DEF FriendTables
<1> QED
  BY <1>1, <1>2

------------------------------------------------------------------------------
(* Theorems *)

\* What the theorems assume: no query fails, and the first server process finds
\* tables in which friendships are mutual single rows.
QueriesSucceed == DbFails = FALSE /\ \A d \in InitialDbs : FriendTables(d)

LEMMA FriendsInvariance ==
    ASSUME QueriesSucceed
    PROVE  Spec => [](IInv /\ FriendTables(db))
<1>1. Init => IInv /\ FriendTables(db)
  BY InitEstablishes DEF Init, QueriesSucceed
<1>2. IInv /\ FriendTables(db) /\ [Next]_vars => (IInv /\ FriendTables(db))'
  BY NextPreserves, NextKeepsFriends DEF QueriesSucceed
<1> QED
  BY <1>1, <1>2, PTL DEF Spec

\* Nobody has a friend who does not have it as a friend.
THEOREM FriendshipIsMutual ==
    ASSUME QueriesSucceed
    PROVE  Spec => []FriendsSymmetric
<1>1. IInv /\ FriendTables(db) => FriendsSymmetric
  BY DEF FriendTables, FriendsSymmetric, Friends
<1> QED
  BY <1>1, FriendsInvariance, PTL

\* No friend is listed twice.
THEOREM FriendshipIsOneRow ==
    ASSUME QueriesSucceed
    PROVE  Spec => []FriendsOnce
<1>1. IInv /\ FriendTables(db) => FriendsOnce
  <2> SUFFICES ASSUME FriendTables(db), NEW p \in Pairs
      PROVE  db.friends[p] <= 1
    BY DEF FriendsOnce
  <2>1. PICK x \in Uids, y \in Uids : p = <<x, y>>
    BY DEF Pairs
  <2> QED
    BY <2>1 DEF FriendTables
<1> QED
  BY <1>1, FriendsInvariance, PTL

\* No request outlives the friendship it led to.
THEOREM FriendsHaveNoRequests ==
    ASSUME QueriesSucceed
    PROVE  Spec => []NoRequestBetweenFriends
<1>1. IInv /\ FriendTables(db) => NoRequestBetweenFriends
  BY DEF FriendTables, NoRequestBetweenFriends, Friends, Pending
<1> QED
  BY <1>1, FriendsInvariance, PTL

\* /fremove leaves neither a friendship nor a request in either direction.
THEOREM NothingIsLeft ==
    ASSUME QueriesSucceed
    PROVE  Spec => RemovalIsComplete
<1>1. IInv /\ FriendTables(db) /\ [Next]_vars =>
         [\A fd \in Fds, to \in Uids :
             RemoveFriend(fd, to) /\ db' # db =>
                 \A p \in {<<clients[fd], to>>, <<to, clients[fd]>>} :
                    db'.friends[p] = 0 /\ db'.friend_requests[p] = 0]_vars
  BY RemoveFriendParts DEF QueriesSucceed
<1> QED
  BY <1>1, FriendsInvariance, PTL DEF Spec, RemovalIsComplete
==============================================================================
