------------------------------- MODULE Server -------------------------------
(***************************************************************************)
(* The chat server: the select loop and the table of clients (server_ch.c, *)
(* server_client.c), the tree of logged-in users and the packet handlers   *)
(* (server.c, server_user.c) over the database (sql_ch.c).                 *)
(*                                                                         *)
(* The process has one thread.  select() takes a snapshot of the ready     *)
(* descriptors and the loop visits them in ascending order; a visit reads  *)
(* one packet and runs its handler to the end.  One visit is one action.   *)
(* Which descriptors are ready and which packet a peer has sent are the    *)
(* environment's choice, so every client behaviour is covered.             *)
(***************************************************************************)
EXTENDS SqlCh, ServerUser, Integers

CONSTANTS
    Fds,         \* descriptors accept() may return
    Listener,    \* the listening socket, opened before any of them
    Kinds,       \* types of the packets clients send in this instance
    Grants,      \* privilege levels a client may ask to grant
    InitialDbs,  \* the database the first server process finds
    MaxRows      \* bound: rows the table friends may hold for one pair

ASSUME FdsAssumption ==
    /\ Fds \subseteq Nat
    /\ Listener \in Nat
    /\ \A fd \in Fds : Listener < fd
ASSUME GrantsAssumption == Grants \subseteq Int
ASSUME InitialDbsAssumption == InitialDbs \subseteq Database

VARIABLES
    server,     \* "up" while the process runs
    listening,  \* the listening socket is open
    master,     \* the descriptors handed to select()
    read_fds,   \* those of the current round still to be visited
    clients,    \* the tree of clients: descriptor -> id of its user, or -1
    users,      \* the tree of users: id -> struct server_user
    db,         \* the database
    sent        \* what the last handler wrote: the messages and to whom

memory == <<server, listening, master, clients, users>>
vars == <<server, listening, master, read_fds, clients, users, db, sent>>

USER_ID_INVALID == -1
KickLevel == 8

\* The balanced trees of the library GDSL are partial functions from the key
\* its comparison uses.  Inserting a key that is there keeps the old element.
EmptyTree == [x \in {} |-> x]
gdsl_rbtree_insert(tree, key, element) ==
    [k \in DOMAIN tree \union {key} |->
        IF k \in DOMAIN tree THEN tree[k] ELSE element]
gdsl_rbtree_remove(tree, keys) == Restrict(tree, DOMAIN tree \ keys)

Connections(tree, u) == ToSet(tree[u].connections)

\* A message to one connection; "about" is the user it names, 0 if none.
Message(to, type, about) == [to |-> to, type |-> type, about |-> about]

------------------------------------------------------------------------------
(* Sending: each operator is the set of messages written. *)

send_to_user(tree, u, type, about) ==
    IF u \in DOMAIN tree
    THEN {Message(c, type, about) : c \in Connections(tree, u)}
    ELSE {}

\* To every online user among the friends the database returned for u.
send_to_friends(tree, friends, type, u) ==
    UNION {send_to_user(tree, v, type, u) : v \in friends}

send_to_all_but_sender(tree, from, type, about) ==   \* mutant
    UNION {{Message(c, type, about) : c \in Connections(tree, v)} :
               v \in DOMAIN tree \ {about}}

\* To every connection of every user except the one the message came from.
send_to_all(tree, from, type, about) ==
    UNION {{Message(c, type, about) : c \in Connections(tree, v) \ {from}} :
               v \in DOMAIN tree}

------------------------------------------------------------------------------
(* The process: main(), and every way it ends.  The tables of the process  *)
(* are lost with it, the database is not.                                  *)

Dies ==
    /\ server' = "down"
    /\ listening' = FALSE
    /\ master' = {}
    /\ read_fds' = {}
    /\ clients' = EmptyTree
    /\ users' = EmptyTree
    /\ sent' = {}

\* main(): server_init allocates the tree of users, server_ch_start the tree
\* of clients and the listening socket.
Boot ==
    /\ server = "down"
    /\ server' = "up"
    /\ listening' = TRUE
    /\ master' = {Listener}
    /\ UNCHANGED <<read_fds, clients, users, db, sent>>

\* The process is killed: by its operator, or by the SIGPIPE that a write to a
\* connection the peer has reset raises (no handler is installed for it).
Halt ==
    /\ server = "up"
    /\ Dies
    /\ UNCHANGED db

------------------------------------------------------------------------------
(* server_ch_listen: select() and the visits of a round. *)

Select(ready) ==
    /\ server = "up"
    /\ read_fds = {}
    /\ listening
    /\ ready # {}
    /\ ready \subseteq master
    /\ read_fds' = ready
    /\ sent' = {}
    /\ UNCHANGED <<memory, db>>

\* select() on a closed descriptor returns -1 and the server calls exit(4).
SelectFails ==
    /\ server = "up"
    /\ read_fds = {}
    /\ ~listening
    /\ Dies
    /\ UNCHANGED db

\* The loop reaches the lowest descriptor of the snapshot not yet visited.
Visit(fd) ==
    /\ server = "up"
    /\ fd \in read_fds
    /\ \A other \in read_fds : fd <= other

Visited(fd) == Visit(fd) /\ read_fds' = read_fds \ {fd}

\* get_client_by_fd returned NULL and ->ssl is read from it.
ReadGoneClient(fd) ==
    /\ Visit(fd)
    /\ fd # Listener
    /\ fd \notin DOMAIN clients
    /\ Dies
    /\ UNCHANGED db

\* accept() and SSL_accept() succeed; server_ch_client_connected.
Accept(newfd) ==
    /\ Visited(Listener)
    /\ newfd \notin DOMAIN clients
    /\ clients' = gdsl_rbtree_insert(clients, newfd, USER_ID_INVALID)
    /\ master' = master \union {newfd}
    /\ sent' = {}
    /\ UNCHANGED <<server, listening, users, db>>

\* accept() returns -1: perror only.
AcceptFails ==
    /\ Visited(Listener)
    /\ sent' = {}
    /\ UNCHANGED <<memory, db>>

\* SSL_accept() returns -1: newfd leaves master again, and close(i) closes the
\* descriptor being visited, which is the listener; newfd stays open.
HandshakeFails ==
    /\ Visited(Listener)
    /\ \E newfd \in Fds : newfd \notin DOMAIN clients
    /\ listening' = FALSE
    /\ sent' = {}
    /\ UNCHANGED <<server, master, clients, users, db>>

------------------------------------------------------------------------------
(* A connection leaves its user: MSG_LOGOUT and cb_cl_dc share this tail. *)

LeaveUser(u, fd) ==
    LET user == server_user_remove_connection(users[u], fd)
    IN  \/ /\ user.connections = <<>>
           /\ users' = gdsl_rbtree_remove(users, {u})
           /\ \E friends \in sql_ch_get_friends(db, u) :
                 sent' = send_to_friends([users EXCEPT ![u] = user], friends,
                                         "MSG_FRIEND_OFFLINE", u)
        \/ /\ user.connections # <<>>
           /\ users' = [users EXCEPT ![u] = user]
           /\ sent' = {}

cb_cl_dc(fd) ==
    IF clients[fd] > 0 /\ clients[fd] \in DOMAIN users
    THEN LeaveUser(clients[fd], fd)
    ELSE users' = users /\ sent' = {}

CloseClient_no_FD_CLR(fd) ==   \* mutant
    /\ cb_cl_dc(fd)
    /\ clients' = gdsl_rbtree_remove(clients, {fd})
    /\ UNCHANGED <<server, listening, master, db>>

CloseClient_no_callback(fd) ==   \* mutant
    /\ clients' = gdsl_rbtree_remove(clients, {fd})
    /\ master' = master \ {fd}
    /\ sent' = {}
    /\ UNCHANGED <<server, listening, users, db>>

\* server_ch_client_disconnected, then FD_CLR, SSL_free and close.
CloseClient(fd) ==
    /\ cb_cl_dc(fd)
    /\ clients' = gdsl_rbtree_remove(clients, {fd})
    /\ master' = master \ {fd}
    /\ UNCHANGED <<server, listening, db>>

\* SSL_read returns <= 0: the peer closed or the connection failed.
HangUp(fd) ==
    /\ Visited(fd)
    /\ fd \in DOMAIN clients
    /\ CloseClient(fd)

------------------------------------------------------------------------------
(* process_packet *)

Packet(fd, type) ==
    /\ type \in Kinds
    /\ Visited(fd)
    /\ fd \in DOMAIN clients

AuthPacket(fd, type) ==
    /\ Packet(fd, type)
    /\ clients[fd] > 0
    /\ clients[fd] \in DOMAIN users

UnauthPacket(fd, type) == Packet(fd, type) /\ ~ clients[fd] > 0

\* A type the handler has no case for, or a client whose id is not in users.
DropPacket(fd) ==
    /\ \E type \in Kinds :
          /\ Packet(fd, type)
          /\ type = "unknown" \/ (clients[fd] > 0 /\ clients[fd] \notin DOMAIN users)
    /\ sent' = {}
    /\ UNCHANGED <<memory, db>>

------------------------------------------------------------------------------
(* handle_packet_unauth *)

\* authorize_client.  The user is looked up by the name that was typed.  When
\* none is online under it a server_user is created, and add_server_user puts
\* it into the tree, unless the tree already has its id.
authorize_client(fd, name) ==
    LET online == {u \in DOMAIN users : users[u].username = name}
    IN  {[id |-> u, user |-> server_user_add_connection(users[u], fd),
          tree |-> [users EXCEPT ![u] = server_user_add_connection(@, fd)]] :
             u \in online}
        \union
        (IF online # {} THEN {}
         ELSE LET uid == UidOf[name]
                  created(priv) == server_user_create(fd, name, priv)
              IN  {[id |-> uid, user |-> created(priv),
                    tree |-> gdsl_rbtree_insert(users, uid, created(priv))] :
                       priv \in sql_ch_load_privileges(db, uid)})

Login(fd, name, password_ok) ==
    /\ UnauthPacket(fd, "MSG_REQ_LOGIN")
    /\ \E res \in sql_ch_check_user_auth(db, name, password_ok) :
          \/ /\ res = "SQLV_SUCCESS"
             /\ \E auth \in authorize_client(fd, name) :
                   /\ users' = auth.tree
                   /\ clients' = [clients EXCEPT ![fd] = auth.id]
                   /\ \E friends \in sql_ch_get_friends(db, auth.id) :
                         sent' = {Message(fd, "MSG_WELCOME", 0)} \union
                                 IF auth.user.con_len = 1
                                 THEN send_to_friends(auth.tree, friends,
                                          "MSG_FRIEND_ONLINE", auth.id)
                                 ELSE {}
          \/ /\ res # "SQLV_SUCCESS"
             /\ sent' = {Message(fd, "MSG_AUTH_FAILED", 0)}
             /\ UNCHANGED <<clients, users>>
    /\ UNCHANGED <<server, listening, master, db>>

Register(fd, name) ==
    /\ UnauthPacket(fd, "MSG_REQ_REGISTER")
    /\ \E out \in sql_ch_add_user(db, name) :
          /\ db' = out.db
          /\ sent' = {Message(fd, IF out.res = "SQLV_SUCCESS"
                                  THEN "MSG_REGISTR_SUCCESSFUL"
                                  ELSE "MSG_REGISTR_FAILED", 0)}
    /\ UNCHANGED memory

UnauthDisconnect(fd) ==
    /\ UnauthPacket(fd, "MSG_DISCONNECT")
    /\ CloseClient(fd)

------------------------------------------------------------------------------
(* handle_packet_auth: sessions and messages *)

Broadcast(fd) ==
    /\ AuthPacket(fd, "MSG_BROADCAST")
    /\ sent' = send_to_all(users, fd, "MSG_BROADCAST", clients[fd])
    /\ UNCHANGED <<memory, db>>

Whisper(fd, tid) ==
    /\ AuthPacket(fd, "MSG_WHISPER")
    /\ sent' = send_to_user(users, tid, "MSG_BROADCAST", clients[fd])
    /\ UNCHANGED <<memory, db>>

Who(fd) ==
    /\ AuthPacket(fd, "MSG_WHO")
    /\ sent' = send_to_user(users, clients[fd], "MSG_WHO", 0)
    /\ UNCHANGED <<memory, db>>

ListFriends(fd) ==
    /\ AuthPacket(fd, "MSG_FRIENDS")
    /\ sent' = send_to_user(users, clients[fd], "MSG_FRIENDS", 0)
    /\ UNCHANGED <<memory, db>>

Logout(fd) ==
    /\ AuthPacket(fd, "MSG_LOGOUT")
    /\ clients' = [clients EXCEPT ![fd] = USER_ID_INVALID]
    /\ LeaveUser(clients[fd], fd)
    /\ UNCHANGED <<server, listening, master, db>>

Disconnect(fd) ==
    /\ AuthPacket(fd, "MSG_DISCONNECT")
    /\ CloseClient(fd)

is_allowed(u) == users[u].p_level >= KickLevel

Kicks(fd, tid) ==
    /\ AuthPacket(fd, "MSG_CMD_KICK_ID")
    /\ is_allowed(clients[fd])
    /\ tid \in DOMAIN users

\* The loop over tuser->connections disconnects each of them; the last one
\* removes the user and tells its friends.  But each disconnection frees the
\* node the loop stands on before the loop reads node->next.  The freed node
\* may still hold the pointer, and the loop goes on; it may read as NULL, and
\* the loop ends after n connections; or it holds something else.
Kick(fd, tid) ==
    /\ Kicks(fd, tid)
    /\ \E n \in 1 .. Len(users[tid].connections) :
          LET all    == users[tid].connections
              kicked == ToSet(SubSeq(all, 1, n))
              notice == send_to_user(users, tid, "MSG_BROADCAST", 0)
          IN  /\ clients' = gdsl_rbtree_remove(clients, kicked)
              /\ master' = master \ kicked
              /\ \/ /\ n = Len(all)
                    /\ users' = gdsl_rbtree_remove(users, {tid})
                    /\ \E friends \in sql_ch_get_friends(db, tid) :
                          sent' = notice \union
                                  send_to_friends(users', friends,
                                                  "MSG_FRIEND_OFFLINE", tid)
                 \/ /\ n < Len(all)
                    /\ users' = [users EXCEPT
                                    ![tid].connections = SubSeq(all, n + 1, Len(all)),
                                    ![tid].con_len = @ - n]
                    /\ sent' = notice
    /\ UNCHANGED <<server, listening, db>>

\* What the freed node holds is not a pointer: the next iteration faults.
KickReadsFreedNode(fd, tid) ==
    /\ Kicks(fd, tid)
    /\ Dies
    /\ UNCHANGED db

KickRefused(fd, tid) ==
    /\ AuthPacket(fd, "MSG_CMD_KICK_ID")
    /\ ~ (is_allowed(clients[fd]) /\ tid \in DOMAIN users)
    /\ sent' = {}
    /\ UNCHANGED <<memory, db>>

------------------------------------------------------------------------------
(* handle_packet_auth: friends, privileges and groups *)

\* send_friend_request: the outcomes of one request, each with the tables it
\* leaves and what it writes.  The target is told before the tables change.
send_friend_request(from, to) ==
    LET asked == send_to_user(users, to, "MSG_SYSTEM_MSG", 0)
        unknown == send_to_user(users, from, "MSG_SYSTEM_MSG", 0)
        befriended(out) == IF out.res = "SQLV_OTHER_EXISTS"
                           THEN sql_ch_create_friends(out.db, from, to)
                           ELSE {out.db}
    IN  UNION { IF exists
                THEN {[db |-> d, sent |-> asked] :
                         d \in UNION {befriended(out) : out \in
                                  sql_ch_create_friend_request(db, from, to)}}
                ELSE {[db |-> db, sent |-> unknown]} :
                    exists \in sql_ch_user_exists(db, to) }

AddFriend_unchecked(fd, to) ==   \* mutant
    /\ AuthPacket(fd, "MSG_ADD_FRIEND")
    /\ \E out \in send_friend_request(clients[fd], to) :
          /\ out.db.friends[<<clients[fd], to>>] <= MaxRows
          /\ db' = out.db
          /\ sent' = out.sent
    /\ UNCHANGED memory

AddFriend(fd, to) ==
    /\ AuthPacket(fd, "MSG_ADD_FRIEND")
    /\ LET from == clients[fd]
       IN  \E are_friends \in sql_ch_are_friends(db, from, to) :
              \/ /\ are_friends
                 /\ sent' = {}
                 /\ UNCHANGED db
              \/ /\ ~are_friends
                 /\ \E out \in send_friend_request(from, to) :
                       /\ out.db.friends[<<from, to>>] <= MaxRows
                       /\ db' = out.db
                       /\ sent' = out.sent
    /\ UNCHANGED memory

\* The handler compares the result with SQLV_USER_EXISTS, a value that
\* sql_ch_delete_friends does not return.
RemoveFriend(fd, to) ==
    /\ AuthPacket(fd, "MSG_REMOVE_FRIEND")
    /\ LET from == clients[fd]
       IN  \E out \in sql_ch_delete_friends(db, from, to) :
              /\ db' = out.db
              /\ sent' = IF out.res = "SQLV_USER_EXISTS"
                         THEN send_to_user(users, from, "MSG_REMOVE_FRIEND", to)
                              \union
                              send_to_user(users, to, "MSG_REMOVE_FRIEND", from)
                         ELSE {}
    /\ UNCHANGED memory

GrantPrivileges(fd, uid, priv) ==
    /\ AuthPacket(fd, "MSG_GRANT_PRIVILEGES")
    /\ db' \in sql_ch_update_privileges(db, uid, priv)
    /\ sent' = {}
    /\ UNCHANGED memory

CreateGroup(fd, name) ==
    /\ AuthPacket(fd, "MSG_GROUP_CREATE")
    /\ db' \in sql_ch_create_group(db, name, clients[fd])
    /\ sent' = {}
    /\ UNCHANGED memory

------------------------------------------------------------------------------
Init ==
    /\ server = "down"
    /\ listening = FALSE
    /\ master = {}
    /\ read_fds = {}
    /\ clients = EmptyTree
    /\ users = EmptyTree
    /\ db \in InitialDbs
    /\ sent = {}

Process ==
    \/ Boot
    \/ Halt
    \/ SelectFails
    \/ AcceptFails
    \/ HandshakeFails
    \/ \E ready \in SUBSET (Fds \union {Listener}) : Select(ready)
    \/ \E fd \in Fds : Accept(fd) \/ ReadGoneClient(fd) \/ HangUp(fd)

UnauthHandler(fd) ==
    \/ \E name \in Names, password_ok \in BOOLEAN : Login(fd, name, password_ok)
    \/ \E name \in Names : Register(fd, name)
    \/ UnauthDisconnect(fd)

AuthHandler(fd) ==
    \/ Broadcast(fd)
    \/ Who(fd)
    \/ ListFriends(fd)
    \/ Logout(fd)
    \/ Disconnect(fd)
    \/ \E tid \in Uids : \/ Whisper(fd, tid)
                         \/ Kick(fd, tid)
                         \/ KickReadsFreedNode(fd, tid)
                         \/ KickRefused(fd, tid)
                         \/ AddFriend(fd, tid)
                         \/ RemoveFriend(fd, tid)
    \/ \E uid \in Uids, priv \in Grants : GrantPrivileges(fd, uid, priv)
    \/ \E name \in GroupNames : CreateGroup(fd, name)

Next ==
    \/ Process
    \/ \E fd \in Fds : UnauthHandler(fd) \/ AuthHandler(fd) \/ DropPacket(fd)

Spec == Init /\ [][Next]_vars

------------------------------------------------------------------------------
(* Properties *)

ServerUserType ==
    [con_len : Nat, connections : Seq(Fds), username : Names, p_level : PrivLevels]

MessageTypes ==
    {"MSG_WELCOME", "MSG_AUTH_FAILED", "MSG_REGISTR_SUCCESSFUL",
     "MSG_REGISTR_FAILED", "MSG_BROADCAST", "MSG_WHO", "MSG_FRIENDS",
     "MSG_SYSTEM_MSG", "MSG_REMOVE_FRIEND", "MSG_FRIEND_ONLINE",
     "MSG_FRIEND_OFFLINE"}

Messages == [to : Fds, type : MessageTypes, about : Uids \union {0}]

\* The type of every variable; a client's id is a user's or USER_ID_INVALID.
TypeOK ==
    /\ server \in {"up", "down"}
    /\ listening \in BOOLEAN
    /\ master \subseteq Fds \union {Listener}
    /\ read_fds \subseteq Fds \union {Listener}
    /\ DOMAIN clients \subseteq Fds
    /\ clients \in [DOMAIN clients -> Uids \union {USER_ID_INVALID}]
    /\ DOMAIN users \subseteq Uids
    /\ users \in [DOMAIN users -> ServerUserType]
    /\ db \in Database
    /\ sent \subseteq Messages

\* A client that server_ch takes for a user's is a connection in that user's
\* list: process_packet and cb_cl_dc find the user ("auth'ed client not in
\* users list" is never reported) and it receives what is sent to the user.
SessionListed ==
    \A fd \in DOMAIN clients :
        clients[fd] > 0 =>
            /\ clients[fd] \in DOMAIN users
            /\ fd \in Connections(users, clients[fd])

\* A connection in a user's list is an open client that belongs to that user:
\* no list holds an SSL object that has been freed, or one of another user.
ConnectionOpen ==
    \A u \in DOMAIN users : \A fd \in Connections(users, u) :
        /\ fd \in DOMAIN clients
        /\ clients[fd] = u

\* con_len, which decides whether a login makes its user come online, counts
\* the list; no connection is in it twice; a user without one is not kept.
ConnectionsCounted ==
    \A u \in DOMAIN users :
        /\ users[u].con_len = Len(users[u].connections)
        /\ IsInjective(users[u].connections)
        /\ users[u].connections # <<>>

\* The user tree and the client tree describe the same sessions.
SessionsAgree == SessionListed /\ ConnectionOpen /\ ConnectionsCounted

\* select() is handed the listener and exactly the connected clients, whatever
\* way the others went: master holds no closed descriptor.
SelectsClients == server = "up" => master = DOMAIN clients \union {Listener}

\* Every descriptor the loop has still to visit is the listener or an existing
\* connection (server_ch.c:159 "run through existing connections").
ReadsExistingClients == read_fds \subseteq DOMAIN clients \union {Listener}

\* A handler closes the connection it serves, never one the loop has still to
\* visit in this round: only a kick can take that one away.
OnlyKicksCloseUnvisited ==
    [][ReadsExistingClients /\ ~ReadsExistingClients' =>
           \E fd \in Fds, tid \in Uids : Kick(fd, tid)]_vars

\* server_ch_send is only ever given the SSL object of an open connection.
WritesToOpenConnections == [][\A m \in sent' : m.to \in DOMAIN clients]_vars

\* A broadcast reaches every logged-in connection but the one it came from,
\* the sender's other connections included (server.c:668), and nobody else.
BroadcastReachesOthers ==
    [][\A fd \in Fds : Broadcast(fd) =>
           {m.to : m \in sent'} =
               {other \in DOMAIN clients : clients[other] > 0} \ {fd}]_vars

\* The connections that are told, in this step, that v came online or went.
Told(type, v) == {m.to : m \in {n \in sent' : n.type = type /\ n.about = v}}

\* Friends are told that a user came online in exactly the steps in which it
\* did, on all their connections, and that it went offline likewise: by
\* whichever of its connections, and in whichever of the ways, it happens.  This
\* is what Presence says of the clients the server takes for somebody's.
Announcing == INSTANCE Presence WITH
    Users <- Uids,
    Sockets <- Fds,
    user_of <- Restrict(clients, {fd \in DOMAIN clients : clients[fd] > 0}),
    friends <- [u \in Uids |-> Friends(db, u)],
    told <- {m \in sent : m.type \in {"MSG_FRIEND_ONLINE", "MSG_FRIEND_OFFLINE"}}

ImplementsPresence == Announcing!Spec

\* A failed handshake cleans up the connection it belongs to (server_ch.c:181),
\* not the listener: the server accepts clients for as long as it runs.
ListenerStaysOpen == server = "up" => listening

------------------------------------------------------------------------------
(* Properties of the database *)

\* sql_ch_create_friends "creates two entries for friendship (in both
\* directions)" (sql_ch.c:397) and sql_ch_delete_friends deletes both: nobody
\* has a friend who does not have it as a friend.
FriendsSymmetric ==
    \A u, v \in Uids : v \in Friends(db, u) => u \in Friends(db, v)

\* A pair is a row once: the same friend is not listed, or told, twice.
FriendsOnce == \A p \in Pairs : db.friends[p] <= 1

\* Pending(u, v): u has asked v and v has not answered.
Pending(u, v) == db.friend_requests[<<u, v>>] > 0

\* Users who are friends have no request pending between them, so that a
\* friendship that is removed does not come back with a single request.
NoRequestBetweenFriends ==
    \A u, v \in Uids : v \in Friends(db, u) => ~Pending(u, v) /\ ~Pending(v, u)

\* Of two users at most one has a request pending, and has it once: the second
\* one to ask is answered (server.c:499), not filed.  Queries that fail do not
\* break this.
RequestsOneWay ==
    \A u, v \in Uids :
        /\ db.friend_requests[<<u, v>>] <= 1
        /\ u # v /\ Pending(u, v) => ~Pending(v, u)

\* Friends and requests are rows of registered users, whatever id a packet held.
RowsOfUsers ==
    \A u, v \in Uids :
        v \in Friends(db, u) \/ Pending(u, v) => {u, v} \subseteq db.users

\* This step is u's answer to a pending request of v.
Accepts(u, v) ==
    /\ Pending(v, u)
    /\ \E fd \in Fds : AddFriend(fd, v) /\ clients[fd] = u

\* Both have to ask: two users become friends in a step one of them takes, and
\* only if the other one's request to it is pending.  There is no other way,
\* whichever queries fail.
FriendshipIsConsented ==
    [][\A u, v \in Uids :
          v \notin Friends(db, u) /\ v \in Friends(db', u) =>
              Accepts(u, v) \/ Accepts(v, u)]_vars

\* Of the two rows of a friendship, u's is there and v's is not.
OneSided(d, u, v) == d.friends[<<u, v>>] > 0 /\ ~ d.friends[<<v, u>>] > 0

\* "two entries for friendship (in both directions)" (sql_ch.c:397) are two
\* INSERTs: a query that fails, or an end of the process, between them leaves
\* one.  That is the only way to a one-sided friendship: u was answering v's
\* request, which is still pending and can be answered again.  Removing a
\* friendship never leaves one side of it, whatever fails.
OneSidedOnlyByAnswer ==
    [][\A u, v \in Uids :
          OneSided(db', u, v) /\ ~OneSided(db, u, v) =>
              Accepts(u, v) /\ db'.friend_requests[<<v, u>>] > 0]_vars

\* sql_ch_delete_friends "Removes the friendship between two users and any
\* pending requests" (sql_ch.h:143): once it has removed something, nothing is
\* left between the two.
RemovalIsComplete ==
    [][\A fd \in Fds, to \in Uids :
          RemoveFriend(fd, to) /\ db' # db =>
              \A p \in {<<clients[fd], to>>, <<to, clients[fd]>>} :
                 db'.friends[p] = 0 /\ db'.friend_requests[p] = 0]_vars

\* Both users are told of a friendship that is removed, if they are online
\* (server.c:236 "notify users about their loss (if online)").
LossIsNotified ==
    [][\A fd \in Fds, to \in Uids :
          LET from == clients[fd]
          IN  RemoveFriend(fd, to) /\ to \in Friends(db, from)
                  /\ to \notin Friends(db', from) =>
              /\ Connections(users, from) \subseteq Told("MSG_REMOVE_FRIEND", to)
              /\ to \in DOMAIN users =>
                    Connections(users, to) \subseteq Told("MSG_REMOVE_FRIEND", from)]_vars
==============================================================================
