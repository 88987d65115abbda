---------------------------- MODULE ServerProofs ----------------------------
(***************************************************************************)
(* Proofs about Server: the type invariant and the agreement of the tree   *)
(* of clients with the tree of users, for any number of descriptors, users *)
(* and names and any database, with queries that may fail.                 *)
(***************************************************************************)
EXTENDS Server, ServerUserProofs

\* A tree of users as the server keeps it.
UsersProper(tree) ==
    /\ DOMAIN tree \subseteq Uids
    /\ tree \in [DOMAIN tree -> ServerUserType]
    /\ \A u \in DOMAIN tree :
          ProperList(tree[u], Fds) /\ tree[u].connections # <<>>

\* A process that is down has no tables: what Boot starts from.
DownIsEmpty ==
    server = "down" => clients = EmptyTree /\ users = EmptyTree

\* The inductive invariant.  It asks nothing of UidOf: several names may
\* select the same row.
IInv ==
    /\ TypeOK
    /\ ConnectionOpen
    /\ ConnectionsCounted
    /\ SelectsClients
    /\ DownIsEmpty

------------------------------------------------------------------------------
(* Types of the database operations and of what is sent *)

LEMMA TablesTyped ==
    ASSUME NEW table \in [Pairs -> Nat], NEW u \in Uids, NEW v \in Uids
    PROVE  /\ Inserted(table, <<u, v>>) \in [Pairs -> Nat]
           /\ Deleted(table, u, v) \in [Pairs -> Nat]
BY DEF Inserted, Deleted, Pairs

\* Replacing a column or a table by one of its type keeps the database typed.
LEMMA FieldsTyped ==
    ASSUME NEW d \in Database, NEW table \in [Pairs -> Nat]
    PROVE  /\ [d EXCEPT !.friends = table] \in Database
           /\ [d EXCEPT !.friend_requests = table] \in Database
BY DEF Database

LEMMA FriendQueriesTyped ==
    ASSUME NEW d \in Database, NEW u \in Uids, NEW v \in Uids
    PROVE  /\ \A out \in sql_ch_create_friend_request(d, u, v) : out.db \in Database
           /\ sql_ch_create_friends(d, u, v) \subseteq Database
           /\ \A out \in sql_ch_delete_friends(d, u, v) : out.db \in Database
<1>1. /\ d.friends \in [Pairs -> Nat]
      /\ d.friend_requests \in [Pairs -> Nat]
  BY DEF Database
<1>2. \A out \in sql_ch_create_friend_request(d, u, v) : out.db \in Database
  <2>1. [d EXCEPT !.friend_requests = Inserted(d.friend_requests, <<u, v>>)]
           \in Database
    BY <1>1, TablesTyped, FieldsTyped
  <2> QED
    BY <2>1 DEF sql_ch_create_friend_request, OnFailure
<1>3. sql_ch_create_friends(d, u, v) \subseteq Database
  <2> DEFINE one  == [d EXCEPT !.friends = Inserted(d.friends, <<u, v>>)]
             both == [one EXCEPT !.friends = Inserted(one.friends, <<v, u>>)]
             done == [both EXCEPT !.friend_requests =
                                     Deleted(both.friend_requests, u, v)]
  <2>1. sql_ch_create_friends(d, u, v) \subseteq {d, one, both, done}
    BY Zenon DEF sql_ch_create_friends, OnFailure
  <2>2. one \in Database
    BY <1>1, TablesTyped, FieldsTyped
  <2> HIDE DEF one
  <2>3. both \in Database
    <3>1. one.friends \in [Pairs -> Nat]
      BY <2>2 DEF Database
    <3> QED
      BY <2>2, <3>1, TablesTyped, FieldsTyped
  <2> HIDE DEF both
  <2>4. done \in Database
    <3>1. both.friend_requests \in [Pairs -> Nat]
      BY <2>3 DEF Database
    <3> QED
      BY <2>3, <3>1, TablesTyped, FieldsTyped
  <2> QED
    BY <2>1, <2>2, <2>3, <2>4
<1>4. \A out \in sql_ch_delete_friends(d, u, v) : out.db \in Database
  <2>1. /\ [d EXCEPT !.friends = Deleted(d.friends, u, v)] \in Database
        /\ [d EXCEPT !.friend_requests = Deleted(d.friend_requests, u, v)]
              \in Database
    BY <1>1, TablesTyped, FieldsTyped
  <2> QED
    BY <2>1 DEF sql_ch_delete_friends, OnFailure
<1> QED
  BY <1>2, <1>3, <1>4

LEMMA OtherQueriesTyped ==
    ASSUME NEW d \in Database, NEW name \in Names, NEW uid \in Uids
    PROVE  /\ \A out \in sql_ch_add_user(d, name) : out.db \in Database
           /\ sql_ch_load_privileges(d, uid) \subseteq PrivLevels
           /\ \A priv \in Nat : sql_ch_update_privileges(d, uid, priv) \subseteq Database
           /\ \A g \in GroupNames : sql_ch_create_group(d, g, uid) \subseteq Database
           /\ \A friends \in sql_ch_get_friends(d, uid) : friends \subseteq Uids
<1>1. \A out \in sql_ch_add_user(d, name) : out.db \in Database
  <2>1. UidOf[name] \in Uids
    BY UidOfAssumption
  <2>2. [d.privilege EXCEPT ![UidOf[name]] = 0] \in [Uids -> PrivLevels]
    BY <2>1 DEF Database, PrivLevels
  <2>3. [d EXCEPT !.users = d.users \union {UidOf[name]},
                  !.privilege = [d.privilege EXCEPT ![UidOf[name]] = 0]]
           \in Database
    BY <2>1, <2>2 DEF Database
  <2> QED
    BY <2>3 DEF sql_ch_add_user, OnFailure
<1>2. sql_ch_load_privileges(d, uid) \subseteq PrivLevels
  BY DEF sql_ch_load_privileges, OnFailure, Database, PrivLevels
<1>3. ASSUME NEW priv \in Nat
      PROVE  sql_ch_update_privileges(d, uid, priv) \subseteq Database
  <2>1. ToUnsignedChar(priv) \in PrivLevels
    BY DEF ToUnsignedChar, PrivLevels
  <2> QED
    BY <2>1 DEF sql_ch_update_privileges, OnFailure, Database
<1>4. ASSUME NEW g \in GroupNames
      PROVE  sql_ch_create_group(d, g, uid) \subseteq Database
  BY DEF sql_ch_create_group, OnFailure, Database
<1>5. \A friends \in sql_ch_get_friends(d, uid) : friends \subseteq Uids
  BY DEF sql_ch_get_friends, OnFailure, Friends
<1> QED
  BY <1>1, <1>2, <1>3, <1>4, <1>5

\* What is sent goes to connections of users of the tree.
LEMMA SendingTyped ==
    ASSUME NEW tree, UsersProper(tree), NEW type \in MessageTypes,
           NEW about \in Uids \union {0}
    PROVE  /\ \A u \in Uids : send_to_user(tree, u, type, about) \subseteq Messages
           /\ \A friends \in SUBSET Uids :
                 send_to_friends(tree, friends, type, about) \subseteq Messages
           /\ \A fd \in Fds : send_to_all(tree, fd, type, about) \subseteq Messages
<1>1. \A u \in DOMAIN tree : Connections(tree, u) \subseteq Fds
  BY DEF UsersProper, ProperList, Connections, ToSet
<1>2. \A c \in Fds : Message(c, type, about) \in Messages
  BY DEF Message, Messages
<1>3. \A u \in Uids : send_to_user(tree, u, type, about) \subseteq Messages
  BY <1>1, <1>2 DEF send_to_user
<1>4. \A friends \in SUBSET Uids :
         send_to_friends(tree, friends, type, about) \subseteq Messages
  BY <1>3 DEF send_to_friends
<1>5. \A fd \in Fds : send_to_all(tree, fd, type, about) \subseteq Messages
  BY <1>1, <1>2 DEF send_to_all
<1> QED
  BY <1>3, <1>4, <1>5

------------------------------------------------------------------------------
(* Steps that leave the sessions alone, and steps that end some of them *)

LEMMA UsersAreProper ==
    TypeOK /\ ConnectionsCounted <=>
        TypeOK /\ UsersProper(users)
BY DEF TypeOK, ConnectionsCounted, UsersProper, ProperList, ServerUserType

\* A handler that changes neither tree: only the database and what is sent.
LEMMA QuietStep ==
    ASSUME IInv, UNCHANGED memory, db' \in Database, sent' \subseteq Messages,
           read_fds' \subseteq Fds \union {Listener}
    PROVE  IInv'
BY DEF IInv, memory, TypeOK, ConnectionOpen, ConnectionsCounted, SelectsClients,
       DownIsEmpty, Connections

\* The users lose the connections in C and nothing else; those that have no
\* connection left are gone.
Loses(C) ==
    /\ UsersProper(users')
    /\ DOMAIN users' \subseteq DOMAIN users
    /\ \A u \in DOMAIN users' :
          /\ Connections(users', u) = Connections(users, u) \ C
          /\ users'[u].username = users[u].username
    /\ \A u \in DOMAIN users \ DOMAIN users' : Connections(users, u) \subseteq C

LEMMA LeaveUserLoses ==
    ASSUME IInv, NEW fd \in DOMAIN clients, clients[fd] \in DOMAIN users,
           LeaveUser(clients[fd], fd)
    PROVE  Loses({fd}) /\ sent' \subseteq Messages
<1> DEFINE u    == clients[fd]
           user == server_user_remove_connection(users[u], fd)
<1>1. UsersProper(users) /\ db \in Database /\ fd \in Fds /\ u \in Uids
  BY UsersAreProper DEF IInv, TypeOK, UsersProper
<1>2. /\ user \in ServerUserType /\ user.username = users[u].username
      /\ ProperList(user, Fds)
      /\ ToSet(user.connections) = Connections(users, u) \ {fd}
  <2> DEFINE su == users[u]
  <2>1. su \in Users(Fds, Names, PrivLevels)
    BY <1>1 DEF UsersProper, ServerUserType, Users
  <2>2. ProperList(su, Fds)
    BY <1>1 DEF UsersProper
  <2> HIDE DEF su
  <2>3. user = server_user_remove_connection(su, fd) /\ fd \in Fds
    BY <1>1 DEF su
  <2> HIDE DEF user
  <2>4. /\ user \in Users(Fds, Names, PrivLevels)
        /\ user.username = su.username
        /\ ProperList(user, Fds)
        /\ ToSet(user.connections) = ToSet(su.connections) \ {fd}
    BY <2>1, <2>2, <2>3, RemoveConnection
  <2> QED
    BY <2>4 DEF Connections, su, Users, ServerUserType
<1> HIDE DEF user
<1>3. \A v \in DOMAIN users \ {u} : fd \notin Connections(users, v)
  BY DEF IInv, ConnectionOpen
<1>4. CASE user.connections = <<>>
  <2>1. /\ users' = gdsl_rbtree_remove(users, {u})
        /\ \E friends \in sql_ch_get_friends(db, u) :
              sent' = send_to_friends([users EXCEPT ![u] = user], friends,
                                      "MSG_FRIEND_OFFLINE", u)
    BY <1>4 DEF LeaveUser, user
  <2>2. /\ DOMAIN users' = DOMAIN users \ {u}
        /\ \A v \in DOMAIN users' : users'[v] = users[v]
    BY <2>1 DEF gdsl_rbtree_remove, Restrict
  <2>3. UsersProper(users')
    BY <1>1, <2>1, <2>2 DEF UsersProper, gdsl_rbtree_remove, Restrict
  <2>4. Connections(users, u) \subseteq {fd}
    BY <1>2, <1>4 DEF ToSet
  <2>5. Loses({fd})
    BY <1>3, <2>2, <2>3, <2>4 DEF Loses, Connections
  <2>6. sent' \subseteq Messages
    <3>1. PICK friends \in sql_ch_get_friends(db, u) :
             sent' = send_to_friends([users EXCEPT ![u] = user], friends,
                                     "MSG_FRIEND_OFFLINE", u)
      BY <2>1
    <3>2. friends \subseteq Uids
      BY <1>1 DEF sql_ch_get_friends, OnFailure, Friends
    <3> DEFINE tree == [users EXCEPT ![u] = user]
    <3>3. \A v \in DOMAIN tree : Connections(tree, v) \subseteq Fds
      BY <1>1, <1>2 DEF UsersProper, ProperList, Connections, ToSet
    <3> HIDE DEF tree
    <3>4. \A v \in Uids :
             send_to_user(tree, v, "MSG_FRIEND_OFFLINE", u) \subseteq Messages
      BY <1>1, <3>3 DEF send_to_user, Message, Messages, MessageTypes
    <3>5. sent' = send_to_friends(tree, friends, "MSG_FRIEND_OFFLINE", u)
      BY <3>1 DEF tree
    <3> QED
      BY <3>2, <3>4, <3>5 DEF send_to_friends
  <2> QED
    BY <2>5, <2>6
<1>5. CASE user.connections # <<>>
  <2>1. users' = [users EXCEPT ![u] = user] /\ sent' = {}
    BY <1>5 DEF LeaveUser, user
  <2>2. UsersProper(users')
    BY <1>1, <1>2, <1>5, <2>1 DEF UsersProper
  <2>3. Loses({fd})
    BY <1>2, <1>3, <2>1, <2>2 DEF Loses, Connections
  <2> QED
    BY <2>1, <2>3
<1> QED
  BY <1>4, <1>5

\* cb_cl_dc: a client that is nobody's is in no list.
LEMMA CallbackLoses ==
    ASSUME IInv, NEW fd \in DOMAIN clients, cb_cl_dc(fd)
    PROVE  Loses({fd}) /\ sent' \subseteq Messages
<1>1. CASE clients[fd] > 0 /\ clients[fd] \in DOMAIN users
  BY <1>1, LeaveUserLoses DEF cb_cl_dc
<1>2. CASE ~(clients[fd] > 0 /\ clients[fd] \in DOMAIN users)
  <2>1. users' = users /\ sent' = {}
    BY <1>2 DEF cb_cl_dc
  <2>2. \A u \in DOMAIN users : fd \notin Connections(users, u)
    BY <1>2, UidsAssumption DEF IInv, TypeOK, ConnectionOpen
  <2> QED
    BY <2>1, <2>2, UsersAreProper DEF Loses, IInv
<1> QED
  BY <1>1, <1>2

\* Closing the connections in C, which the users have lost.
LEMMA CloseStep ==
    ASSUME IInv, server = "up", NEW C \in SUBSET Fds, Loses(C),
           clients' = gdsl_rbtree_remove(clients, C),
           master' = master \ C, read_fds' \subseteq read_fds,
           UNCHANGED <<server, listening, db>>, sent' \subseteq Messages
    PROVE  IInv'
<1>1. /\ DOMAIN clients' = DOMAIN clients \ C
      /\ \A fd \in DOMAIN clients' : clients'[fd] = clients[fd]
  BY DEF gdsl_rbtree_remove, Restrict
<1>2. TypeOK'
  BY <1>1 DEF IInv, TypeOK, Loses, UsersProper, gdsl_rbtree_remove, Restrict
<1>3. ConnectionsCounted'
  BY DEF Loses, UsersProper, ProperList, ConnectionsCounted
<1>4. ConnectionOpen'
  BY <1>1 DEF IInv, ConnectionOpen, Loses, Connections
<1>5. SelectsClients'
  BY <1>1, FdsAssumption DEF IInv, SelectsClients
<1>6. DownIsEmpty'
  BY DEF DownIsEmpty
<1> QED
  BY <1>2, <1>3, <1>4, <1>5, <1>6 DEF IInv

\* The process ends, and with it everything but the database.
LEMMA DiesStep ==
    ASSUME IInv, Dies, UNCHANGED db
    PROVE  IInv'
BY DEF Dies, EmptyTree, IInv, TypeOK, ConnectionOpen, ConnectionsCounted,
       SelectsClients, DownIsEmpty

------------------------------------------------------------------------------
(* The inductive invariant: initially, and every action *)

LEMMA InitEstablishes == Init => IInv
BY InitialDbsAssumption
   DEF Init, EmptyTree, IInv, TypeOK, ConnectionOpen, ConnectionsCounted,
       SelectsClients, DownIsEmpty

\* What a client that visits is: one of the tree, on a descriptor of Fds; and
\* the user it belongs to, if it does.
LEMMA VisitTyped ==
    ASSUME IInv, NEW fd \in Fds, NEW type, Packet(fd, type)
    PROVE  /\ server = "up"
           /\ fd \in DOMAIN clients
           /\ read_fds' \subseteq read_fds
           /\ read_fds' \subseteq Fds \union {Listener}
           /\ clients[fd] > 0 => clients[fd] \in Uids
           /\ db \in Database
           /\ UsersProper(users)
           /\ read_fds' = read_fds \ {fd}
BY UsersAreProper, UidsAssumption
   DEF IInv, TypeOK, Packet, Visited, Visit, USER_ID_INVALID

LEMMA ProcessStep ==
    ASSUME IInv, Process
    PROVE  IInv'
<1>1. CASE Boot
  BY <1>1 DEF Boot, EmptyTree, IInv, TypeOK, ConnectionOpen,
              ConnectionsCounted, SelectsClients, DownIsEmpty, Connections
<1>2. CASE Halt
  BY <1>2, DiesStep DEF Halt
<1>3. CASE SelectFails
  BY <1>3, DiesStep DEF SelectFails
<1>4. CASE AcceptFails
  <2>1. /\ UNCHANGED memory /\ UNCHANGED db /\ sent' = {}
        /\ read_fds' = read_fds \ {Listener}
    BY <1>4 DEF AcceptFails, Visited
  <2> QED
    BY <2>1, QuietStep DEF IInv, TypeOK
<1>5. CASE HandshakeFails
  BY <1>5 DEF HandshakeFails, Visited, Visit, IInv, TypeOK, ConnectionOpen,
              ConnectionsCounted, SelectsClients, DownIsEmpty, Connections
<1>6. ASSUME NEW ready \in SUBSET (Fds \union {Listener}), Select(ready)
      PROVE  IInv'
  BY <1>6, QuietStep DEF Select, IInv, TypeOK
<1>7. ASSUME NEW fd \in Fds, Accept(fd)
      PROVE  IInv'
  <2>1. /\ server = "up" /\ server' = "up"
        /\ fd \notin DOMAIN clients
        /\ clients' = gdsl_rbtree_insert(clients, fd, USER_ID_INVALID)
        /\ master' = master \union {fd}
        /\ read_fds' = read_fds \ {Listener}
        /\ sent' = {}
        /\ UNCHANGED <<listening, users, db>>
    BY <1>7 DEF Accept, Visited, Visit
  <2>2. /\ DOMAIN clients' = DOMAIN clients \union {fd}
        /\ \A c \in DOMAIN clients' :
              clients'[c] = IF c = fd THEN USER_ID_INVALID ELSE clients[c]
    BY <2>1 DEF gdsl_rbtree_insert
  <2>3. clients' \in [DOMAIN clients' -> Uids \union {USER_ID_INVALID}]
    BY <2>1, <2>2 DEF gdsl_rbtree_insert, IInv, TypeOK
  <2>4. TypeOK'
    BY <2>1, <2>2, <2>3 DEF IInv, TypeOK
  <2>5. ConnectionOpen'
    BY <2>1, <2>2 DEF IInv, ConnectionOpen, Connections
  <2>6. ConnectionsCounted' /\ SelectsClients' /\ DownIsEmpty'
    BY <2>1, <2>2
       DEF IInv, ConnectionsCounted, SelectsClients, DownIsEmpty
  <2> QED
    BY <2>4, <2>5, <2>6 DEF IInv
<1>8. ASSUME NEW fd \in Fds, ReadGoneClient(fd)
      PROVE  IInv'
  BY <1>8, DiesStep DEF ReadGoneClient
<1>9. ASSUME NEW fd \in Fds, HangUp(fd)
      PROVE  IInv'
  <2>1. /\ server = "up" /\ fd \in DOMAIN clients
        /\ read_fds' = read_fds \ {fd}
        /\ CloseClient(fd)
    BY <1>9 DEF HangUp, Visited, Visit
  <2>2. Loses({fd}) /\ sent' \subseteq Messages
    BY <2>1, CallbackLoses DEF CloseClient
  <2> QED
    BY <2>1, <2>2, CloseStep DEF CloseClient
<1> QED
  BY <1>1, <1>2, <1>3, <1>4, <1>5, <1>6, <1>7, <1>8, <1>9 DEF Process

\* What a successful login does to the trees.
Gains(fd, u) ==
    /\ UsersProper(users')
    /\ DOMAIN users' = DOMAIN users \union {u}
    /\ clients' = [clients EXCEPT ![fd] = u]
    /\ \A v \in DOMAIN users \ {u} :
          /\ Connections(users', v) = Connections(users, v)
          /\ users'[v].username = users[v].username
    /\ Connections(users', u) \subseteq
          {fd} \union (IF u \in DOMAIN users THEN Connections(users, u) ELSE {})

LEMMA AuthorizeGains ==
    ASSUME IInv, NEW fd \in Fds, fd \in DOMAIN clients, ~ clients[fd] > 0,
           NEW name \in Names, NEW auth \in authorize_client(fd, name),
           users' = auth.tree, clients' = [clients EXCEPT ![fd] = auth.id]
    PROVE  auth.id \in Uids /\ Gains(fd, auth.id)
<1>1. UsersProper(users) /\ db \in Database
  BY UsersAreProper DEF IInv, TypeOK
<1>2. \A u \in DOMAIN users : fd \notin Connections(users, u)
  BY <1>1, UidsAssumption DEF IInv, ConnectionOpen, UsersProper
<1> DEFINE online == {u \in DOMAIN users : users[u].username = name}
<1>3. CASE online # {}
  <2>1. PICK u \in online :
           /\ auth.id = u
           /\ auth.tree = [users EXCEPT
                              ![u] = server_user_add_connection(users[u], fd)]
    BY <1>3 DEF authorize_client
  <2> DEFINE su  == users[u]
             new == server_user_add_connection(su, fd)
  <2>2. su \in Users(Fds, Names, PrivLevels) /\ ProperList(su, Fds)
    BY <1>1 DEF UsersProper, ServerUserType, Users
  <2>3. fd \notin ToSet(su.connections)
    BY <1>2 DEF Connections
  <2>4. users' = [users EXCEPT ![u] = new]
    BY <2>1
  <2> HIDE DEF su, new
  <2>5. new = server_user_add_connection(su, fd)
    BY DEF new
  <2>6. /\ new \in Users(Fds, Names, PrivLevels)
        /\ ProperList(new, Fds)
        /\ ToSet(new.connections) = ToSet(su.connections) \union {fd}
        /\ new.connections # <<>>
    BY <2>2, <2>3, <2>5, AddConnection
  <2>7. UsersProper(users')
    BY <1>1, <2>4, <2>6 DEF UsersProper, Users, ServerUserType
  <2>8. Connections(users', u) = {fd} \union Connections(users, u)
    BY <2>4, <2>6 DEF Connections, su
  <2> QED
    BY <1>1, <2>1, <2>4, <2>7, <2>8 DEF Gains, Connections, UsersProper
<1>4. CASE online = {}
  <2>1. PICK priv \in sql_ch_load_privileges(db, UidOf[name]) :
           /\ auth.id = UidOf[name]
           /\ auth.tree = gdsl_rbtree_insert(users, UidOf[name],
                                         server_user_create(fd, name, priv))
    BY <1>4 DEF authorize_client
  <2> DEFINE u   == UidOf[name]
             new == server_user_create(fd, name, priv)
  <2>2. u \in Uids
    BY UidOfAssumption
  <2>3. priv \in PrivLevels
    BY <1>1, <2>2, OtherQueriesTyped
  <2>4. new = [con_len |-> 1, connections |-> <<fd>>, username |-> name,
               p_level |-> priv]
    BY DEF server_user_create
  <2>5. new \in ServerUserType /\ new.connections # <<>> /\ ToSet(new.connections) = {fd}
    BY <2>3, <2>4 DEF ServerUserType, ToSet
  <2>6. ProperList(new, Fds)
    BY <2>4 DEF ProperList, IsInjective
  <2> HIDE DEF new, u
  <2>7. /\ auth.id = u
        /\ users' = gdsl_rbtree_insert(users, u, new)
    BY <2>1 DEF u, new
  <2>8. /\ DOMAIN users' = DOMAIN users \union {u}
        /\ \A v \in DOMAIN users' :
              users'[v] = IF v \in DOMAIN users THEN users[v] ELSE new
    BY <2>7 DEF gdsl_rbtree_insert
  <2>9. users' \in [DOMAIN users' -> ServerUserType]
    BY <1>1, <2>5, <2>7, <2>8 DEF gdsl_rbtree_insert, UsersProper
  <2>10. UsersProper(users')
    BY <1>1, <2>2, <2>5, <2>6, <2>8, <2>9 DEF UsersProper
  <2> QED
    BY <2>2, <2>5, <2>7, <2>8, <2>10 DEF Gains, Connections
<1> QED
  BY <1>3, <1>4

LEMMA LoginStep ==
    ASSUME IInv, NEW fd \in Fds, NEW name \in Names, NEW password_ok \in BOOLEAN,
           Login(fd, name, password_ok)
    PROVE  IInv'
<1>1. /\ Packet(fd, "MSG_REQ_LOGIN") /\ ~ clients[fd] > 0
      /\ UNCHANGED <<server, listening, master, db>>
  BY DEF Login, UnauthPacket
<1>2. /\ server = "up" /\ fd \in DOMAIN clients
      /\ read_fds' \subseteq Fds \union {Listener}
      /\ db \in Database
  BY <1>1, VisitTyped
<1>3. ASSUME NEW auth \in authorize_client(fd, name),
             users' = auth.tree, clients' = [clients EXCEPT ![fd] = auth.id],
             NEW friends \in sql_ch_get_friends(db, auth.id),
             sent' = {Message(fd, "MSG_WELCOME", 0)} \union
                     IF auth.user.con_len = 1
                     THEN send_to_friends(auth.tree, friends,
                              "MSG_FRIEND_ONLINE", auth.id)
                     ELSE {}
      PROVE  IInv'
  <2>1. auth.id \in Uids /\ Gains(fd, auth.id)
    BY <1>1, <1>2, <1>3, AuthorizeGains
  <2>2. sent' \subseteq Messages
    <3>1. friends \in SUBSET Uids
      BY <1>2, <1>3, <2>1 DEF sql_ch_get_friends, OnFailure, Friends
    <3>2. UsersProper(auth.tree)
      BY <1>3, <2>1 DEF Gains
    <3>3. send_to_friends(auth.tree, friends, "MSG_FRIEND_ONLINE", auth.id)
             \subseteq Messages
      BY <2>1, <3>1, <3>2, SendingTyped DEF MessageTypes
    <3> QED
      BY <1>3, <3>3 DEF Message, Messages, MessageTypes
  <2>3. TypeOK' /\ ConnectionsCounted'
    BY <1>1, <1>2, <2>1, <2>2
       DEF IInv, TypeOK, ConnectionsCounted, Gains, UsersProper, ProperList
  <2>4. ConnectionOpen'
    <3>1. ASSUME NEW v \in DOMAIN users', NEW c \in Connections(users', v)
          PROVE  c \in DOMAIN clients' /\ clients'[c] = v
      <4>0. \A w \in DOMAIN users : w > 0
        BY UidsAssumption DEF IInv, TypeOK
      <4>1. CASE c = fd
        <5>1. v = auth.id
          BY <1>1, <2>1, <4>0, <4>1, <3>1 DEF IInv, ConnectionOpen, Gains
        <5> QED
          BY <1>2, <1>3, <4>1, <5>1
      <4>2. CASE c # fd
        <5>1. v \in DOMAIN users /\ c \in Connections(users, v)
          BY <2>1, <3>1, <4>2 DEF Gains
        <5> QED
          BY <1>3, <4>2, <5>1 DEF IInv, ConnectionOpen
      <4> QED
        BY <4>1, <4>2
    <3> QED
      BY <3>1 DEF ConnectionOpen
  <2>5. SelectsClients' /\ DownIsEmpty'
    BY <1>1, <1>2, <1>3 DEF IInv, SelectsClients, DownIsEmpty
  <2> QED
    BY <2>3, <2>4, <2>5 DEF IInv
<1>4. ASSUME sent' = {Message(fd, "MSG_AUTH_FAILED", 0)},
             UNCHANGED <<clients, users>>
      PROVE  IInv'
  <2>1. sent' \subseteq Messages
    BY <1>4 DEF Message, Messages, MessageTypes
  <2> QED
    BY <1>1, <1>2, <1>4, <2>1, QuietStep DEF memory
<1> QED
  BY <1>3, <1>4 DEF Login

LEMMA UnauthHandlerStep ==
    ASSUME IInv, NEW fd \in Fds, UnauthHandler(fd)
    PROVE  IInv'
<1>1. ASSUME NEW name \in Names, NEW password_ok \in BOOLEAN,
             Login(fd, name, password_ok)
      PROVE  IInv'
  BY <1>1, LoginStep
<1>2. ASSUME NEW name \in Names, Register(fd, name)
      PROVE  IInv'
  <2>1. Packet(fd, "MSG_REQ_REGISTER") /\ UNCHANGED memory
    BY <1>2 DEF Register, UnauthPacket
  <2>2. read_fds' \subseteq Fds \union {Listener} /\ db \in Database
    BY <2>1, VisitTyped
  <2>3. db' \in Database
    <3>1. PICK out \in sql_ch_add_user(db, name) : db' = out.db
      BY <1>2 DEF Register
    <3>2. UidOf[name] \in Uids
      BY UidOfAssumption
    <3> QED
      BY <2>2, <3>1, <3>2, OtherQueriesTyped
  <2>4. sent' \subseteq Messages
    BY <1>2 DEF Register, Message, Messages, MessageTypes
  <2> QED
    BY <2>1, <2>2, <2>3, <2>4, QuietStep
<1>3. CASE UnauthDisconnect(fd)
  <2>1. Packet(fd, "MSG_DISCONNECT") /\ CloseClient(fd)
    BY <1>3 DEF UnauthDisconnect, UnauthPacket
  <2>2. /\ server = "up" /\ fd \in DOMAIN clients
        /\ read_fds' \subseteq read_fds
    BY <2>1, VisitTyped
  <2>3. Loses({fd}) /\ sent' \subseteq Messages
    BY <2>1, <2>2, CallbackLoses DEF CloseClient
  <2> QED
    BY <2>1, <2>2, <2>3, CloseStep DEF CloseClient
<1> QED
  BY <1>1, <1>2, <1>3 DEF UnauthHandler

\* Kicking n connections of a user makes it lose those.
LEMMA KickLoses ==
    ASSUME IInv, NEW fd \in Fds, NEW tid \in Uids, Kick(fd, tid)
    PROVE  \E C \in SUBSET Connections(users, tid) :
              /\ Loses(C)
              /\ clients' = gdsl_rbtree_remove(clients, C)
              /\ master' = master \ C
              /\ sent' \subseteq Messages
<1>1. Packet(fd, "MSG_CMD_KICK_ID") /\ tid \in DOMAIN users
  BY DEF Kick, Kicks, AuthPacket
<1>2. UsersProper(users) /\ db \in Database
  BY <1>1, VisitTyped
<1> DEFINE all    == users[tid].connections
           notice == send_to_user(users, tid, "MSG_BROADCAST", 0)
<1>3. PICK n \in 1 .. Len(all) :
         /\ clients' = gdsl_rbtree_remove(clients, ToSet(SubSeq(all, 1, n)))
         /\ master' = master \ ToSet(SubSeq(all, 1, n))
         /\ \/ /\ n = Len(all)
               /\ users' = gdsl_rbtree_remove(users, {tid})
               /\ \E friends \in sql_ch_get_friends(db, tid) :
                     sent' = notice \union
                             send_to_friends(users', friends,
                                             "MSG_FRIEND_OFFLINE", tid)
            \/ /\ n < Len(all)
               /\ users' = [users EXCEPT
                               ![tid].connections = SubSeq(all, n + 1, Len(all)),
                               ![tid].con_len = @ - n]
               /\ sent' = notice
  BY DEF Kick
<1> DEFINE C    == ToSet(SubSeq(all, 1, n))
           left == SubSeq(all, n + 1, Len(all))
<1>4. ProperList(users[tid], Fds)
  BY <1>1, <1>2 DEF UsersProper
<1>5. all \in Seq(Fds) /\ IsInjective(all) /\ users[tid].con_len = Len(all)
  BY <1>4 DEF ProperList
<1> HIDE DEF all
<1>6. /\ left \in Seq(Fds)
      /\ Len(left) = Len(all) - n
      /\ IsInjective(left)
      /\ C \subseteq ToSet(all)
      /\ ToSet(left) = ToSet(all) \ C
  BY <1>5, SuffixOfList
<1> HIDE DEF C, left
<1>7. C \subseteq Connections(users, tid)
  BY <1>6 DEF Connections, all
<1>8. \A v \in DOMAIN users \ {tid} : Connections(users, v) \cap C = {}
  BY <1>1, <1>7 DEF IInv, ConnectionOpen
<1>9. notice \subseteq Messages
  BY <1>2, SendingTyped DEF MessageTypes
<1> HIDE DEF notice
<1>10. CASE /\ n = Len(all)
            /\ users' = gdsl_rbtree_remove(users, {tid})
            /\ \E friends \in sql_ch_get_friends(db, tid) :
                  sent' = notice \union
                          send_to_friends(users', friends,
                                          "MSG_FRIEND_OFFLINE", tid)
  <2>1. /\ DOMAIN users' = DOMAIN users \ {tid}
        /\ \A v \in DOMAIN users' : users'[v] = users[v]
    BY <1>10 DEF gdsl_rbtree_remove, Restrict
  <2>2. UsersProper(users')
    BY <1>2, <1>10, <2>1 DEF UsersProper, gdsl_rbtree_remove, Restrict
  <2>3. ToSet(left) = {}
    BY <1>5, <1>6, <1>10 DEF ToSet
  <2>4. Connections(users, tid) \subseteq C
    BY <1>6, <2>3 DEF Connections, all
  <2>5. Loses(C)
    BY <1>8, <2>1, <2>2, <2>4 DEF Loses, Connections
  <2>6. sent' \subseteq Messages
    <3>1. PICK friends \in sql_ch_get_friends(db, tid) :
             sent' = notice \union
                     send_to_friends(users', friends, "MSG_FRIEND_OFFLINE", tid)
      BY <1>10
    <3>2. friends \in SUBSET Uids
      BY <1>2 DEF sql_ch_get_friends, OnFailure, Friends
    <3>3. send_to_friends(users', friends, "MSG_FRIEND_OFFLINE", tid)
             \subseteq Messages
      BY <2>2, <3>2, SendingTyped DEF MessageTypes
    <3> QED
      BY <1>9, <3>1, <3>3
  <2> QED
    BY <1>3, <1>7, <2>5, <2>6 DEF C
<1>11. CASE /\ n < Len(all)
            /\ users' = [users EXCEPT
                            ![tid].connections = SubSeq(all, n + 1, Len(all)),
                            ![tid].con_len = @ - n]
            /\ sent' = notice
  <2> DEFINE new == users'[tid]
  <2>1. /\ DOMAIN users' = DOMAIN users
        /\ \A v \in DOMAIN users \ {tid} : users'[v] = users[v]
    BY <1>11
  <2>2. /\ new.connections = left
        /\ new.con_len = users[tid].con_len - n
        /\ new.username = users[tid].username
        /\ new \in ServerUserType
    <3>1. users[tid] \in ServerUserType
      BY <1>1, <1>2 DEF UsersProper
    <3>2. new = [users[tid] EXCEPT !.connections = left,
                                   !.con_len = users[tid].con_len - n]
      BY <1>1, <1>11 DEF left
    <3>3. users[tid].con_len - n \in Nat
      BY <1>5, <1>11
    <3> HIDE DEF new
    <3> QED
      BY <1>6, <3>1, <3>2, <3>3 DEF ServerUserType
  <2>3. ProperList(new, Fds) /\ new.connections # <<>>
    <3> HIDE DEF new
    <3>1. new.con_len = Len(new.connections)
      BY <1>5, <1>6, <2>2
    <3>2. new.connections # <<>>
      <4>1. Len(left) # 0
        BY <1>5, <1>6, <1>11
      <4> QED
        BY <1>6, <2>2, <4>1
    <3> QED
      BY <1>6, <2>2, <3>1, <3>2 DEF ProperList
  <2>4. users' \in [DOMAIN users' -> ServerUserType]
    BY <1>2, <1>11, <2>1, <2>2 DEF UsersProper
  <2>5. UsersProper(users')
    BY <1>2, <2>1, <2>3, <2>4 DEF UsersProper
  <2>6. Connections(users', tid) = Connections(users, tid) \ C
    BY <1>6, <2>2 DEF Connections, all
  <2>7. Loses(C)
    BY <1>8, <2>1, <2>2, <2>5, <2>6 DEF Loses, Connections
  <2> QED
    BY <1>3, <1>7, <1>9, <1>11, <2>7 DEF C
<1> QED
  BY <1>3, <1>10, <1>11 DEF left

LEMMA KickStep ==
    ASSUME IInv, NEW fd \in Fds, NEW tid \in Uids, Kick(fd, tid)
    PROVE  IInv'
<1>1. Packet(fd, "MSG_CMD_KICK_ID") /\ tid \in DOMAIN users
  BY DEF Kick, Kicks, AuthPacket
<1>2. /\ server = "up" /\ read_fds' \subseteq read_fds
      /\ UsersProper(users)
  BY <1>1, VisitTyped
<1>3. PICK C \in SUBSET Connections(users, tid) :
         /\ Loses(C)
         /\ clients' = gdsl_rbtree_remove(clients, C)
         /\ master' = master \ C
         /\ sent' \subseteq Messages
  BY KickLoses
<1>4. C \in SUBSET Fds
  BY <1>1, <1>2, <1>3 DEF UsersProper, ProperList, Connections, ToSet
<1>5. UNCHANGED <<server, listening, db>>
  BY DEF Kick
<1> QED
  BY <1>2, <1>3, <1>4, <1>5, CloseStep

LEMMA FriendRequestTyped ==
    ASSUME db \in Database, UsersProper(users), NEW from \in Uids, NEW to \in Uids,
           NEW out \in send_friend_request(from, to)
    PROVE  out.db \in Database /\ out.sent \subseteq Messages
<1>1. /\ send_to_user(users, to, "MSG_SYSTEM_MSG", 0) \subseteq Messages
      /\ send_to_user(users, from, "MSG_SYSTEM_MSG", 0) \subseteq Messages
  BY SendingTyped DEF MessageTypes
<1>2. ASSUME NEW req \in sql_ch_create_friend_request(db, from, to)
      PROVE  (IF req.res = "SQLV_OTHER_EXISTS"
              THEN sql_ch_create_friends(req.db, from, to)
              ELSE {req.db}) \subseteq Database
  BY <1>2, FriendQueriesTyped
<1> QED
  BY <1>1, <1>2 DEF send_friend_request

LEMMA AuthHandlerStep ==
    ASSUME IInv, NEW fd \in Fds, AuthHandler(fd)
    PROVE  IInv'
<1> DEFINE u == clients[fd]
<1>1. ASSUME NEW type, AuthPacket(fd, type)
      PROVE  /\ server = "up" /\ fd \in DOMAIN clients
             /\ u \in Uids /\ u \in DOMAIN users
             /\ read_fds' \subseteq read_fds
             /\ read_fds' \subseteq Fds \union {Listener}
             /\ db \in Database /\ UsersProper(users)
  BY <1>1, VisitTyped DEF AuthPacket
<1>2. CASE Broadcast(fd)
  <2>1. AuthPacket(fd, "MSG_BROADCAST")
    BY <1>2 DEF Broadcast
  <2>2. sent' \subseteq Messages
    BY <1>1, <1>2, <2>1, SendingTyped DEF Broadcast, MessageTypes
  <2> QED
    BY <1>1, <1>2, <2>1, <2>2, QuietStep DEF Broadcast
<1>3. CASE Who(fd)
  <2>1. AuthPacket(fd, "MSG_WHO")
    BY <1>3 DEF Who
  <2>2. sent' \subseteq Messages
    BY <1>1, <1>3, <2>1, SendingTyped DEF Who, MessageTypes
  <2> QED
    BY <1>1, <1>3, <2>1, <2>2, QuietStep DEF Who
<1>4. CASE ListFriends(fd)
  <2>1. AuthPacket(fd, "MSG_FRIENDS")
    BY <1>4 DEF ListFriends
  <2>2. sent' \subseteq Messages
    BY <1>1, <1>4, <2>1, SendingTyped DEF ListFriends, MessageTypes
  <2> QED
    BY <1>1, <1>4, <2>1, <2>2, QuietStep DEF ListFriends
<1>5. CASE Logout(fd)
  <2>1. /\ AuthPacket(fd, "MSG_LOGOUT")
        /\ LeaveUser(u, fd)
        /\ clients' = [clients EXCEPT ![fd] = USER_ID_INVALID]
        /\ UNCHANGED <<server, listening, master, db>>
    BY <1>5 DEF Logout
  <2>2. Loses({fd}) /\ sent' \subseteq Messages
    BY <1>1, <2>1, LeaveUserLoses
  <2>3. TypeOK' /\ ConnectionsCounted'
    BY <1>1, <2>1, <2>2
       DEF IInv, TypeOK, Loses, UsersProper, ProperList, ConnectionsCounted
  <2>4. ConnectionOpen'
    BY <1>1, <2>1, <2>2 DEF IInv, ConnectionOpen, Loses, Connections
  <2>5. SelectsClients' /\ DownIsEmpty'
    BY <1>1, <2>1 DEF IInv, SelectsClients, DownIsEmpty
  <2> QED
    BY <2>3, <2>4, <2>5 DEF IInv
<1>6. CASE Disconnect(fd)
  <2>1. AuthPacket(fd, "MSG_DISCONNECT") /\ CloseClient(fd)
    BY <1>6 DEF Disconnect
  <2>2. Loses({fd}) /\ sent' \subseteq Messages
    BY <1>1, <2>1, CallbackLoses DEF CloseClient
  <2> QED
    BY <1>1, <2>1, <2>2, CloseStep DEF CloseClient
<1>7. ASSUME NEW tid \in Uids, Whisper(fd, tid)
      PROVE  IInv'
  <2>1. AuthPacket(fd, "MSG_WHISPER")
    BY <1>7 DEF Whisper
  <2>2. sent' \subseteq Messages
    BY <1>1, <1>7, <2>1, SendingTyped DEF Whisper, MessageTypes
  <2> QED
    BY <1>1, <1>7, <2>1, <2>2, QuietStep DEF Whisper
<1>8. ASSUME NEW tid \in Uids, Kick(fd, tid)
      PROVE  IInv'
  BY <1>8, KickStep
<1>9. ASSUME NEW tid \in Uids, KickReadsFreedNode(fd, tid)
      PROVE  IInv'
  BY <1>9, DiesStep DEF KickReadsFreedNode
<1>10. ASSUME NEW tid \in Uids, KickRefused(fd, tid)
       PROVE  IInv'
  <2>1. AuthPacket(fd, "MSG_CMD_KICK_ID")
    BY <1>10 DEF KickRefused
  <2> QED
    BY <1>1, <1>10, <2>1, QuietStep DEF KickRefused
<1>11. ASSUME NEW tid \in Uids, AddFriend(fd, tid)
       PROVE  IInv'
  <2>1. AuthPacket(fd, "MSG_ADD_FRIEND") /\ UNCHANGED memory
    BY <1>11 DEF AddFriend
  <2>2. \/ sent' = {} /\ db' = db
        \/ \E out \in send_friend_request(u, tid) :
              db' = out.db /\ sent' = out.sent
    BY <1>11 DEF AddFriend
  <2>3. db' \in Database /\ sent' \subseteq Messages
    BY <1>1, <2>1, <2>2, FriendRequestTyped
  <2> QED
    BY <1>1, <2>1, <2>3, QuietStep
<1>12. ASSUME NEW tid \in Uids, RemoveFriend(fd, tid)
       PROVE  IInv'
  <2>1. AuthPacket(fd, "MSG_REMOVE_FRIEND") /\ UNCHANGED memory
    BY <1>12 DEF RemoveFriend
  <2>2. db' \in Database
    <3>1. PICK out \in sql_ch_delete_friends(db, u, tid) : db' = out.db
      BY <1>12 DEF RemoveFriend
    <3>2. u \in Uids /\ db \in Database
      BY <1>1, <2>1
    <3> QED
      BY <3>1, <3>2, FriendQueriesTyped
  <2>3. sent' \subseteq Messages
    <3>1. /\ send_to_user(users, u, "MSG_REMOVE_FRIEND", tid) \subseteq Messages
          /\ send_to_user(users, tid, "MSG_REMOVE_FRIEND", u) \subseteq Messages
      BY <1>1, <2>1, SendingTyped DEF MessageTypes
    <3> QED
      BY <1>12, <3>1 DEF RemoveFriend
  <2> QED
    BY <1>1, <2>1, <2>2, <2>3, QuietStep
<1>13. ASSUME NEW uid \in Uids, NEW priv \in Grants,
              GrantPrivileges(fd, uid, priv)
       PROVE  IInv'
  <2>1. AuthPacket(fd, "MSG_GRANT_PRIVILEGES")
    BY <1>13 DEF GrantPrivileges
  <2>2. db' \in Database
    <3>1. sql_ch_update_privileges(db, uid, priv) \subseteq Database
      <4>1. priv \in Int /\ ToUnsignedChar(priv) \in PrivLevels
        BY GrantsAssumption DEF ToUnsignedChar, PrivLevels
      <4> QED
        BY <1>1, <2>1, <4>1
           DEF sql_ch_update_privileges, OnFailure, Database
    <3> QED
      BY <1>13, <3>1 DEF GrantPrivileges
  <2> QED
    BY <1>1, <1>13, <2>1, <2>2, QuietStep DEF GrantPrivileges
<1>14. ASSUME NEW name \in GroupNames, CreateGroup(fd, name)
       PROVE  IInv'
  <2>1. AuthPacket(fd, "MSG_GROUP_CREATE")
    BY <1>14 DEF CreateGroup
  <2>2. db' \in Database
    BY <1>1, <1>14, <2>1
       DEF CreateGroup, sql_ch_create_group, OnFailure, Database
  <2> QED
    BY <1>1, <1>14, <2>1, <2>2, QuietStep DEF CreateGroup
<1> QED
  BY <1>2, <1>3, <1>4, <1>5, <1>6, <1>7, <1>8, <1>9, <1>10, <1>11, <1>12,
     <1>13, <1>14 DEF AuthHandler

LEMMA NextPreserves == IInv /\ [Next]_vars => IInv'
<1> SUFFICES ASSUME IInv, [Next]_vars PROVE IInv'
  OBVIOUS
<1>1. CASE Process
  BY <1>1, ProcessStep
<1>2. ASSUME NEW fd \in Fds, UnauthHandler(fd) PROVE IInv'
  BY <1>2, UnauthHandlerStep
<1>3. ASSUME NEW fd \in Fds, AuthHandler(fd) PROVE IInv'
  BY <1>3, AuthHandlerStep
<1>4. ASSUME NEW fd \in Fds, DropPacket(fd) PROVE IInv'
  <2>1. PICK type \in Kinds : Packet(fd, type)
    BY <1>4 DEF DropPacket
  <2> QED
    BY <1>4, <2>1, VisitTyped, QuietStep DEF DropPacket
<1>5. CASE UNCHANGED vars
  BY <1>5, QuietStep DEF vars, memory, IInv, TypeOK
<1> QED
  BY <1>1, <1>2, <1>3, <1>4, <1>5 DEF Next

------------------------------------------------------------------------------
(* Theorems that hold whatever rows the names select *)

\* The inductive invariant holds of every behaviour of the server.
THEOREM Invariance == Spec => []IInv
<1>1. Init => IInv
  BY InitEstablishes
<1>2. IInv /\ [Next]_vars => IInv'
  BY NextPreserves
<1> QED
  BY <1>1, <1>2, PTL DEF Spec

\* Type correctness of every variable.
THEOREM TypeCorrect == Spec => []TypeOK
<1>1. IInv => TypeOK
  BY DEF IInv
<1> QED
  BY <1>1, Invariance, PTL

\* No user's list holds a connection that is closed or another user's: however
\* logins, logouts, hang-ups and kicks follow one another, and even if several
\* names select one row.
THEOREM ListsHoldOpenConnections == Spec => []ConnectionOpen
<1>1. IInv => ConnectionOpen
  BY DEF IInv
<1> QED
  BY <1>1, Invariance, PTL

\* con_len counts the list of its user, which holds no connection twice, in the
\* same generality: a login sees con_len = 0 exactly if nobody else is online.
THEOREM ListsAreCounted == Spec => []ConnectionsCounted
<1>1. IInv => ConnectionsCounted
  BY DEF IInv
<1> QED
  BY <1>1, Invariance, PTL

\* select() is only ever handed the listener and the open connections.
THEOREM MasterIsClients == Spec => []SelectsClients
<1>1. IInv => SelectsClients
  BY DEF IInv
<1> QED
  BY <1>1, Invariance, PTL

------------------------------------------------------------------------------
(* The two trees agree, if every name has a row of its own *)

\* Two names never select the same row of users: a binary collation.
NamesAreExact == \A n1, n2 \in Names : UidOf[n1] = UidOf[n2] => n1 = n2

\* A user is in the tree under the name that selects its row.
NamesSelectTheirRow == \A u \in DOMAIN users : UidOf[users[u].username] = u

Listed == SessionListed /\ NamesSelectTheirRow

\* A login puts the connection into the list of the user it belongs to.
LEMMA AuthorizeLists ==
    ASSUME NamesAreExact, IInv, Listed,
           NEW fd \in Fds, fd \in DOMAIN clients, ~ clients[fd] > 0,
           NEW name \in Names, NEW auth \in authorize_client(fd, name),
           users' = auth.tree, clients' = [clients EXCEPT ![fd] = auth.id]
    PROVE  /\ auth.id \in DOMAIN users'
           /\ fd \in Connections(users', auth.id)
           /\ UidOf[users'[auth.id].username] = auth.id
           /\ \A v \in DOMAIN users :
                 /\ v \in DOMAIN users'
                 /\ Connections(users, v) \subseteq Connections(users', v)
                 /\ users'[v].username = users[v].username
<1>1. UsersProper(users) /\ db \in Database
  BY UsersAreProper DEF IInv, TypeOK
<1> DEFINE online == {u \in DOMAIN users : users[u].username = name}
<1>2. CASE online # {}
  <2>1. PICK u \in online :
           /\ auth.id = u
           /\ auth.tree = [users EXCEPT
                              ![u] = server_user_add_connection(users[u], fd)]
    BY <1>2 DEF authorize_client
  <2> DEFINE su  == users[u]
             new == server_user_add_connection(su, fd)
  <2>2. su \in Users(Fds, Names, PrivLevels) /\ ProperList(su, Fds)
    BY <1>1 DEF UsersProper, ServerUserType, Users
  <2>3. fd \notin ToSet(su.connections)
    BY <1>1, UidsAssumption DEF IInv, ConnectionOpen, UsersProper, Connections
  <2>4. users' = [users EXCEPT ![u] = new]
    BY <2>1
  <2> HIDE DEF su, new
  <2>5. new = server_user_add_connection(su, fd)
    BY DEF new
  <2>6. /\ new.username = su.username
        /\ ToSet(new.connections) = ToSet(su.connections) \union {fd}
    BY <2>2, <2>3, <2>5, AddConnection
  <2> QED
    BY <2>1, <2>4, <2>6 DEF Connections, su, Listed, NamesSelectTheirRow
<1>3. CASE online = {}
  <2>1. PICK priv \in sql_ch_load_privileges(db, UidOf[name]) :
           /\ auth.id = UidOf[name]
           /\ auth.tree = gdsl_rbtree_insert(users, UidOf[name],
                                             server_user_create(fd, name, priv))
    BY <1>3 DEF authorize_client
  <2> DEFINE u   == UidOf[name]
             new == server_user_create(fd, name, priv)
  <2>2. u \notin DOMAIN users
    <3>1. SUFFICES ASSUME u \in DOMAIN users PROVE FALSE
      OBVIOUS
    <3>2. users[u].username \in Names
      BY <1>1, <3>1 DEF UsersProper, ServerUserType
    <3>3. UidOf[users[u].username] = UidOf[name]
      BY <3>1 DEF Listed, NamesSelectTheirRow
    <3>4. users[u].username = name
      BY <3>2, <3>3 DEF NamesAreExact
    <3> QED
      BY <1>3, <3>1, <3>4
  <2>3. new.username = name /\ ToSet(new.connections) = {fd}
    BY DEF server_user_create, ToSet
  <2> HIDE DEF new
  <2>4. users' = gdsl_rbtree_insert(users, u, new)
    BY <2>1 DEF new
  <2>5. /\ DOMAIN users' = DOMAIN users \union {u}
        /\ users'[u] = new
        /\ \A v \in DOMAIN users : users'[v] = users[v]
    BY <2>2, <2>4 DEF gdsl_rbtree_insert
  <2> QED
    BY <2>1, <2>3, <2>5 DEF Connections
<1> QED
  BY <1>2, <1>3

\* Sessions that end leave the others listed.
LEMMA LosesLists ==
    ASSUME IInv, Listed, NEW C, Loses(C),
           DOMAIN clients' \subseteq DOMAIN clients,
           \A c \in DOMAIN clients' :
              clients'[c] > 0 => c \notin C /\ clients'[c] = clients[c]
    PROVE  Listed'
<1>1. ASSUME NEW c \in DOMAIN clients', clients'[c] > 0
      PROVE  /\ clients'[c] \in DOMAIN users'
             /\ c \in Connections(users', clients'[c])
  <2>1. /\ clients[c] \in DOMAIN users
        /\ c \in Connections(users, clients[c]) \ C
    BY <1>1 DEF Listed, SessionListed
  <2> QED
    BY <1>1, <2>1 DEF Loses
<1>2. NamesSelectTheirRow'
  BY DEF Listed, NamesSelectTheirRow, Loses
<1> QED
  BY <1>1, <1>2 DEF Listed, SessionListed

LEMMA NextLists ==
    ASSUME NamesAreExact, IInv, Listed, [Next]_vars
    PROVE  Listed'
<1>1. ASSUME UNCHANGED <<clients, users>> PROVE Listed'
  BY <1>1 DEF Listed, SessionListed, NamesSelectTheirRow, Connections
<1>2. ASSUME Dies PROVE Listed'
  BY <1>2 DEF Dies, EmptyTree, Listed, SessionListed, NamesSelectTheirRow
<1>3. ASSUME NEW fd \in DOMAIN clients, CloseClient(fd) PROVE Listed'
  <2>1. Loses({fd})
    BY <1>3, CallbackLoses DEF CloseClient
  <2>2. /\ DOMAIN clients' = DOMAIN clients \ {fd}
        /\ \A c \in DOMAIN clients' : clients'[c] = clients[c]
    BY <1>3 DEF CloseClient, gdsl_rbtree_remove, Restrict
  <2> QED
    BY <2>1, <2>2, LosesLists
<1>4. CASE Process
  <2>1. ASSUME NEW fd \in Fds, Accept(fd) PROVE Listed'
    <3>1. /\ DOMAIN clients' = DOMAIN clients \union {fd}
          /\ fd \notin DOMAIN clients
          /\ clients'[fd] = USER_ID_INVALID
          /\ \A c \in DOMAIN clients : clients'[c] = clients[c]
          /\ users' = users
      BY <2>1 DEF Accept, gdsl_rbtree_insert
    <3>2. \A c \in DOMAIN clients' : clients'[c] > 0 => c \in DOMAIN clients
      BY <3>1 DEF USER_ID_INVALID
    <3> QED
      BY <3>1, <3>2
         DEF Listed, SessionListed, NamesSelectTheirRow, Connections
  <2>2. ASSUME NEW fd \in Fds, HangUp(fd) PROVE Listed'
    BY <1>3, <2>2 DEF HangUp
  <2> QED
    BY <1>1, <1>2, <1>4, <2>1, <2>2
       DEF Process, Boot, Halt, SelectFails, AcceptFails, HandshakeFails,
           Select, ReadGoneClient, memory
<1>5. ASSUME NEW fd \in Fds, UnauthHandler(fd) PROVE Listed'
  <2>1. ASSUME NEW name \in Names, NEW password_ok \in BOOLEAN,
               Login(fd, name, password_ok)
        PROVE  Listed'
    <3>1. /\ fd \in DOMAIN clients /\ ~ clients[fd] > 0
      BY <2>1 DEF Login, UnauthPacket, Packet
    <3>2. ASSUME NEW auth \in authorize_client(fd, name),
                 users' = auth.tree, clients' = [clients EXCEPT ![fd] = auth.id]
          PROVE  Listed'
      <4>1. /\ auth.id \in DOMAIN users'
            /\ fd \in Connections(users', auth.id)
            /\ UidOf[users'[auth.id].username] = auth.id
            /\ \A v \in DOMAIN users :
                  /\ v \in DOMAIN users'
                  /\ Connections(users, v) \subseteq Connections(users', v)
                  /\ users'[v].username = users[v].username
        BY <3>1, <3>2, AuthorizeLists
      <4>2. DOMAIN users' = DOMAIN users \union {auth.id}
        BY <3>1, <3>2, AuthorizeGains DEF Gains
      <4>3. SessionListed'
        BY <3>1, <3>2, <4>1 DEF Listed, SessionListed
      <4>4. NamesSelectTheirRow'
        BY <4>1, <4>2 DEF Listed, NamesSelectTheirRow
      <4> QED
        BY <4>3, <4>4 DEF Listed
    <3> QED
      BY <1>1, <2>1, <3>2 DEF Login
  <2>2. ASSUME NEW name \in Names, Register(fd, name) PROVE Listed'
    BY <1>1, <2>2 DEF Register, memory
  <2>3. CASE UnauthDisconnect(fd)
    BY <1>3, <2>3 DEF UnauthDisconnect, UnauthPacket, Packet
  <2> QED
    BY <1>5, <2>1, <2>2, <2>3 DEF UnauthHandler
<1>6. ASSUME NEW fd \in Fds, AuthHandler(fd) PROVE Listed'
  <2>1. CASE Logout(fd)
    <3>1. /\ fd \in DOMAIN clients /\ clients[fd] \in DOMAIN users
          /\ LeaveUser(clients[fd], fd)
          /\ clients' = [clients EXCEPT ![fd] = USER_ID_INVALID]
      BY <2>1 DEF Logout, AuthPacket, Packet
    <3>2. Loses({fd})
      BY <3>1, LeaveUserLoses
    <3>3. \A c \in DOMAIN clients' :
             clients'[c] > 0 => c \notin {fd} /\ clients'[c] = clients[c]
      BY <3>1 DEF USER_ID_INVALID
    <3> QED
      BY <3>1, <3>2, <3>3, LosesLists
  <2>2. CASE Disconnect(fd)
    BY <1>3, <2>2 DEF Disconnect, AuthPacket, Packet
  <2>3. ASSUME NEW tid \in Uids, Kick(fd, tid) PROVE Listed'
    <3>1. PICK C \in SUBSET Connections(users, tid) :
             /\ Loses(C)
             /\ clients' = gdsl_rbtree_remove(clients, C)
      BY <2>3, KickLoses
    <3>2. /\ DOMAIN clients' = DOMAIN clients \ C
          /\ \A c \in DOMAIN clients' : clients'[c] = clients[c]
      BY <3>1 DEF gdsl_rbtree_remove, Restrict
    <3> QED
      BY <3>1, <3>2, LosesLists
  <2>4. CASE Broadcast(fd) \/ Who(fd) \/ ListFriends(fd)
    BY <1>1, <2>4 DEF Broadcast, Who, ListFriends, memory
  <2>5. ASSUME NEW tid \in Uids,
               \/ Whisper(fd, tid) \/ KickRefused(fd, tid)
               \/ AddFriend(fd, tid) \/ RemoveFriend(fd, tid)
        PROVE  Listed'
    BY <1>1, <2>5 DEF Whisper, KickRefused, AddFriend, RemoveFriend, memory
  <2>6. ASSUME NEW tid \in Uids, KickReadsFreedNode(fd, tid) PROVE Listed'
    BY <1>2, <2>6 DEF KickReadsFreedNode
  <2>7. ASSUME NEW uid \in Uids, NEW priv \in Grants,
               GrantPrivileges(fd, uid, priv)
        PROVE  Listed'
    BY <1>1, <2>7 DEF GrantPrivileges, memory
  <2>8. ASSUME NEW name \in GroupNames, CreateGroup(fd, name) PROVE Listed'
    BY <1>1, <2>8 DEF CreateGroup, memory
  <2> QED
    BY <1>6, <2>1, <2>2, <2>3, <2>4, <2>5, <2>6, <2>7, <2>8 DEF AuthHandler
<1>7. ASSUME NEW fd \in Fds, DropPacket(fd) PROVE Listed'
  BY <1>1, <1>7 DEF DropPacket, memory
<1>8. CASE UNCHANGED vars
  BY <1>1, <1>8 DEF vars
<1> QED
  BY <1>4, <1>5, <1>6, <1>7, <1>8 DEF Next

\* The tree of clients and the tree of users describe the same sessions: every
\* logged-in connection is in its user's list and every list holds logged-in
\* connections of its user, if no two names select one row.
THEOREM TreesAgree ==
    ASSUME NamesAreExact
    PROVE  Spec => []SessionsAgree
<1>1. Init => IInv /\ Listed
  BY InitEstablishes
     DEF Init, EmptyTree, Listed, SessionListed, NamesSelectTheirRow
<1>2. IInv /\ Listed /\ [Next]_vars => (IInv /\ Listed)'
  BY NextPreserves, NextLists
<1>3. IInv /\ Listed => SessionsAgree
  BY DEF IInv, Listed, SessionsAgree
<1> QED
  BY <1>1, <1>2, <1>3, PTL DEF Spec
==============================================================================
