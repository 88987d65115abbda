----------------------------- MODULE StepProofs -----------------------------
(***************************************************************************)
(* Proofs about single steps of Server: to whom a handler writes, which    *)
(* connections it may close, that a step of it is a step of Presence, and  *)
(* who may kick.                                                           *)
(***************************************************************************)
EXTENDS ServerProofs

\* A process that is down has nothing left to send when it is started again.
DownIsSilent == server = "down" => sent = {}

\* The receivers of what this step writes are connections open before it.
WritesOpen == \A m \in sent' : m.to \in DOMAIN clients

\* Every list of the tree names open connections only.
ListsOpen(tree) == \A u \in DOMAIN tree : Connections(tree, u) \subseteq DOMAIN clients

------------------------------------------------------------------------------
(* Receivers *)

LEMMA SendingOpen ==
    ASSUME NEW tree, ListsOpen(tree), NEW type, NEW about
    PROVE  /\ \A u : \A m \in send_to_user(tree, u, type, about) :
                 m.to \in DOMAIN clients
           /\ \A u, friends : \A m \in send_to_friends(tree, friends, type, u) :
                 m.to \in DOMAIN clients
           /\ \A fd : \A m \in send_to_all(tree, fd, type, about) :
                 m.to \in DOMAIN clients
<1>1. \A u, a : \A m \in send_to_user(tree, u, type, a) : m.to \in DOMAIN clients
  BY DEF send_to_user, Message, ListsOpen
<1>2. \A u, friends : \A m \in send_to_friends(tree, friends, type, u) :
         m.to \in DOMAIN clients
  BY <1>1 DEF send_to_friends
<1>3. \A fd : \A m \in send_to_all(tree, fd, type, about) : m.to \in DOMAIN clients
  BY DEF send_to_all, Message, ListsOpen
<1> QED
  BY <1>1, <1>2, <1>3

LEMMA ListsAreOpen == IInv => ListsOpen(users)
BY DEF IInv, ConnectionOpen, ListsOpen

\* LeaveUser writes to the lists as they are once the connection has left.
LEMMA LeaveUserWrites ==
    ASSUME IInv, NEW fd \in DOMAIN clients, clients[fd] \in DOMAIN users,
           LeaveUser(clients[fd], fd)
    PROVE  WritesOpen
<1> DEFINE u    == clients[fd]
           user == server_user_remove_connection(users[u], fd)
           tree == [users EXCEPT ![u] = user]
<1>1. user.connections # <<>> => sent' = {}
  BY DEF LeaveUser
<1>2. user.connections = <<>> =>
         \E friends : sent' = send_to_friends(tree, friends, "MSG_FRIEND_OFFLINE", u)
  BY DEF LeaveUser
<1>3. user.connections = <<>> => ListsOpen(tree)
  <2>1. \A v \in DOMAIN users : Connections(users, v) \subseteq DOMAIN clients
    BY ListsAreOpen DEF ListsOpen
  <2>2. user.connections = <<>> => ToSet(user.connections) = {}
    BY DEF ToSet
  <2> HIDE DEF user
  <2> QED
    BY <2>1, <2>2 DEF ListsOpen, Connections
<1> HIDE DEF user, tree
<1> QED
  BY <1>1, <1>2, <1>3, SendingOpen DEF WritesOpen

LEMMA CloseWrites ==
    ASSUME IInv, NEW fd \in DOMAIN clients, CloseClient(fd)
    PROVE  WritesOpen
<1>1. cb_cl_dc(fd)
  BY DEF CloseClient
<1>2. CASE clients[fd] > 0 /\ clients[fd] \in DOMAIN users
  BY <1>1, <1>2, LeaveUserWrites DEF cb_cl_dc
<1>3. CASE ~(clients[fd] > 0 /\ clients[fd] \in DOMAIN users)
  BY <1>1, <1>3 DEF cb_cl_dc, WritesOpen
<1> QED
  BY <1>2, <1>3

LEMMA LoginWrites ==
    ASSUME IInv, NEW fd \in Fds, NEW name \in Names, NEW password_ok \in BOOLEAN,
           Login(fd, name, password_ok)
    PROVE  WritesOpen
<1>1. fd \in DOMAIN clients /\ ~ clients[fd] > 0
  BY DEF Login, UnauthPacket, Packet
<1>2. ASSUME NEW auth \in authorize_client(fd, name), NEW friends,
             users' = auth.tree, clients' = [clients EXCEPT ![fd] = auth.id],
             sent' = {Message(fd, "MSG_WELCOME", 0)} \union
                     IF auth.user.con_len = 1
                     THEN send_to_friends(auth.tree, friends,
                              "MSG_FRIEND_ONLINE", auth.id)
                     ELSE {}
      PROVE  WritesOpen
  <2>1. Gains(fd, auth.id)
    BY <1>1, <1>2, AuthorizeGains
  <2>2. ListsOpen(users)
    BY ListsAreOpen
  <2>3. ListsOpen(auth.tree)
    BY <1>1, <1>2, <2>1, <2>2 DEF Gains, ListsOpen
  <2>4. \A m \in send_to_friends(auth.tree, friends, "MSG_FRIEND_ONLINE", auth.id) :
           m.to \in DOMAIN clients
    BY <2>3, SendingOpen
  <2>5. Message(fd, "MSG_WELCOME", 0).to \in DOMAIN clients
    BY <1>1 DEF Message
  <2> QED
    BY <1>2, <2>4, <2>5 DEF WritesOpen
<1>3. ASSUME sent' = {Message(fd, "MSG_AUTH_FAILED", 0)} PROVE WritesOpen
  BY <1>1, <1>3 DEF WritesOpen, Message
<1> QED
  BY <1>2, <1>3 DEF Login

LEMMA KickWrites ==
    ASSUME IInv, NEW fd \in Fds, NEW tid \in Uids, Kick(fd, tid)
    PROVE  WritesOpen
<1> DEFINE notice == send_to_user(users, tid, "MSG_BROADCAST", 0)
           tree   == gdsl_rbtree_remove(users, {tid})
<1>1. ListsOpen(users)
  BY ListsAreOpen
<1>2. ListsOpen(tree)
  BY <1>1 DEF ListsOpen, gdsl_rbtree_remove, Restrict, Connections
<1>3. \/ sent' = notice
      \/ \E friends :
            sent' = notice \union
                    send_to_friends(tree, friends, "MSG_FRIEND_OFFLINE", tid)
  BY DEF Kick
<1> HIDE DEF tree
<1> QED
  BY <1>1, <1>2, <1>3, SendingOpen DEF WritesOpen

LEMMA AddFriendWrites ==
    ASSUME IInv, NEW fd \in Fds, NEW to \in Uids, AddFriend(fd, to)
    PROVE  WritesOpen
<1> DEFINE from == clients[fd]
<1>1. \A u : \A m \in send_to_user(users, u, "MSG_SYSTEM_MSG", 0) :
         m.to \in DOMAIN clients
  BY ListsAreOpen, SendingOpen
<1>2. sent' = {} \/ \E out \in send_friend_request(from, to) : sent' = out.sent
  BY DEF AddFriend
<1>3. \A out \in send_friend_request(from, to) :
         \E u : out.sent = send_to_user(users, u, "MSG_SYSTEM_MSG", 0)
  BY DEF send_friend_request
<1> QED
  BY <1>1, <1>2, <1>3 DEF WritesOpen

LEMMA AuthHandlerWrites ==
    ASSUME IInv, NEW fd \in Fds, AuthHandler(fd)
    PROVE  WritesOpen
<1>1. ListsOpen(users)
  BY ListsAreOpen
<1>2. CASE Broadcast(fd)
  BY <1>1, <1>2, SendingOpen DEF Broadcast, WritesOpen
<1>3. CASE Who(fd) \/ ListFriends(fd)
  BY <1>1, <1>3, SendingOpen DEF Who, ListFriends, WritesOpen
<1>4. CASE Logout(fd)
  BY <1>4, LeaveUserWrites DEF Logout, AuthPacket, Packet
<1>5. CASE Disconnect(fd)
  BY <1>5, CloseWrites DEF Disconnect, AuthPacket, Packet
<1>6. ASSUME NEW tid \in Uids, Whisper(fd, tid) PROVE WritesOpen
  BY <1>1, <1>6, SendingOpen DEF Whisper, WritesOpen
<1>7. ASSUME NEW tid \in Uids, Kick(fd, tid) PROVE WritesOpen
  BY <1>7, KickWrites
<1>8. ASSUME NEW tid \in Uids, KickReadsFreedNode(fd, tid) \/ KickRefused(fd, tid)
      PROVE  WritesOpen
  BY <1>8 DEF KickReadsFreedNode, KickRefused, Dies, WritesOpen
<1>9. ASSUME NEW tid \in Uids, AddFriend(fd, tid) PROVE WritesOpen
  BY <1>9, AddFriendWrites
<1>10. ASSUME NEW tid \in Uids, RemoveFriend(fd, tid) PROVE WritesOpen
  <2>1. \A u, about : \A m \in send_to_user(users, u, "MSG_REMOVE_FRIEND", about) :
           m.to \in DOMAIN clients
    BY <1>1, SendingOpen
  <2>2. \/ sent' = {}
        \/ sent' = send_to_user(users, clients[fd], "MSG_REMOVE_FRIEND", tid)
                     \union
                   send_to_user(users, tid, "MSG_REMOVE_FRIEND", clients[fd])
    BY <1>10 DEF RemoveFriend
  <2> QED
    BY <2>1, <2>2 DEF WritesOpen
<1>11. ASSUME NEW uid \in Uids, NEW priv \in Grants, GrantPrivileges(fd, uid, priv)
       PROVE  WritesOpen
  BY <1>11 DEF GrantPrivileges, WritesOpen
<1>12. ASSUME NEW name \in GroupNames, CreateGroup(fd, name) PROVE WritesOpen
  BY <1>12 DEF CreateGroup, WritesOpen
<1> QED
  BY <1>2, <1>3, <1>4, <1>5, <1>6, <1>7, <1>8, <1>9, <1>10, <1>11, <1>12
     DEF AuthHandler

LEMMA NextWrites ==
    ASSUME IInv, DownIsSilent, Next
    PROVE  WritesOpen
<1>1. CASE Process
  <2>1. ASSUME NEW fd \in Fds, HangUp(fd) PROVE WritesOpen
    BY <2>1, CloseWrites DEF HangUp
  <2> QED
    BY <1>1, <2>1
       DEF Process, Boot, Halt, SelectFails, AcceptFails, HandshakeFails, Select,
           Accept, ReadGoneClient, Dies, DownIsSilent, WritesOpen
<1>2. ASSUME NEW fd \in Fds, UnauthHandler(fd) PROVE WritesOpen
  <2>1. ASSUME NEW name \in Names, Register(fd, name) PROVE WritesOpen
    <3>1. fd \in DOMAIN clients
      BY <2>1 DEF Register, UnauthPacket, Packet
    <3>2. \E type : sent' = {Message(fd, type, 0)}
      BY <2>1 DEF Register
    <3> QED
      BY <3>1, <3>2 DEF Message, WritesOpen
  <2> QED
    BY <1>2, <2>1, LoginWrites, CloseWrites
       DEF UnauthHandler, UnauthDisconnect, UnauthPacket, Packet
<1>3. ASSUME NEW fd \in Fds, AuthHandler(fd) PROVE WritesOpen
  BY <1>3, AuthHandlerWrites
<1>4. ASSUME NEW fd \in Fds, DropPacket(fd) PROVE WritesOpen
  BY <1>4 DEF DropPacket, WritesOpen
<1> QED
  BY <1>1, <1>2, <1>3, <1>4 DEF Next

------------------------------------------------------------------------------
(* The process is up in every step that sends *)

LEMMA VisitStaysUp ==
    ASSUME NEW fd, Visited(fd), server' = server
    PROVE  DownIsSilent'
BY DEF Visited, Visit, DownIsSilent

LEMMA NextSilent ==
    ASSUME DownIsSilent, [Next]_vars
    PROVE  DownIsSilent'
<1>1. CASE Process
  BY <1>1, VisitStaysUp
     DEF Process, Boot, Halt, SelectFails, AcceptFails, HandshakeFails, Select,
         Accept, ReadGoneClient, HangUp, CloseClient, Dies, memory, DownIsSilent
<1>2. ASSUME NEW fd \in Fds, UnauthHandler(fd) PROVE DownIsSilent'
  <2>1. Visited(fd) /\ server' = server
    BY <1>2 DEF UnauthHandler, Login, Register, UnauthDisconnect, UnauthPacket,
                Packet, CloseClient, memory
  <2> QED
    BY <2>1, VisitStaysUp
<1>3. ASSUME NEW fd \in Fds, AuthHandler(fd) PROVE DownIsSilent'
  <2>1. ASSUME NEW tid, KickReadsFreedNode(fd, tid) PROVE DownIsSilent'
    BY <2>1 DEF KickReadsFreedNode, Dies, DownIsSilent
  <2>2. CASE Visited(fd) /\ server' = server
    BY <2>2, VisitStaysUp
  <2> QED
    BY <1>3, <2>1, <2>2
       DEF AuthHandler, Broadcast, Who, ListFriends, Logout, Disconnect, Whisper,
           Kick, Kicks, KickRefused, AddFriend, RemoveFriend, GrantPrivileges,
           CreateGroup, AuthPacket, Packet, CloseClient, memory
<1>4. ASSUME NEW fd \in Fds, DropPacket(fd) PROVE DownIsSilent'
  BY <1>4, VisitStaysUp DEF DropPacket, Packet, memory
<1>5. CASE UNCHANGED vars
  BY <1>5 DEF vars, DownIsSilent
<1> QED
  BY <1>1, <1>2, <1>3, <1>4, <1>5 DEF Next

\* server_ch_send is only given connections that are open: by any handler, in
\* any state, even after a second login under another spelling of a name.
THEOREM WritesOnlyToOpen == Spec => WritesToOpenConnections
<1>1. Init => IInv /\ DownIsSilent
  BY InitEstablishes DEF Init, DownIsSilent
<1>2. IInv /\ DownIsSilent /\ [Next]_vars => (IInv /\ DownIsSilent)'
  BY NextPreserves, NextSilent
<1>3. IInv /\ DownIsSilent /\ [Next]_vars =>
         [\A m \in sent' : m.to \in DOMAIN clients]_vars
  BY NextWrites DEF WritesOpen
<1> QED
  BY <1>1, <1>2, <1>3, PTL DEF Spec, WritesToOpenConnections

------------------------------------------------------------------------------
(* What a step may close *)

\* Closing the descriptor that is being visited leaves the rest to visit open.
LEMMA CloseVisited ==
    ASSUME ReadsExistingClients, NEW fd, Visited(fd), CloseClient(fd)
    PROVE  ReadsExistingClients'
<1>1. DOMAIN clients' = DOMAIN clients \ {fd}
  BY DEF CloseClient, gdsl_rbtree_remove, Restrict
<1> QED
  BY <1>1 DEF Visited, ReadsExistingClients

\* A step that closes nothing and adds nothing to visit.
LEMMA KeepsClients ==
    ASSUME ReadsExistingClients, read_fds' \subseteq read_fds,
           DOMAIN clients \subseteq DOMAIN clients'
    PROVE  ReadsExistingClients'
BY DEF ReadsExistingClients

LEMMA DyingReadsNothing == Dies => ReadsExistingClients'
BY DEF Dies, ReadsExistingClients

LEMMA NextCloses ==
    ASSUME IInv, ReadsExistingClients, [Next]_vars, ~ReadsExistingClients'
    PROVE  \E fd \in Fds, tid \in Uids : Kick(fd, tid)
<1>1. CASE Process
  <2>1. ~(Halt \/ SelectFails \/ \E fd \in Fds : ReadGoneClient(fd) \/ HangUp(fd))
    BY DyingReadsNothing, CloseVisited DEF Halt, SelectFails, ReadGoneClient, HangUp
  <2>2. ASSUME NEW ready, Select(ready) PROVE FALSE
    BY <2>2 DEF Select, IInv, SelectsClients, ReadsExistingClients, memory
  <2>3. ASSUME NEW fd \in Fds, Accept(fd) PROVE FALSE
    BY <2>3, KeepsClients DEF Accept, Visited, gdsl_rbtree_insert
  <2>4. ~(Boot \/ AcceptFails \/ HandshakeFails)
    BY KeepsClients DEF Boot, AcceptFails, HandshakeFails, Visited, memory
  <2> QED
    BY <1>1, <2>1, <2>2, <2>3, <2>4 DEF Process
<1>2. ASSUME NEW fd \in Fds, UnauthHandler(fd) PROVE FALSE
  <2>1. CASE UnauthDisconnect(fd)
    BY <2>1, CloseVisited DEF UnauthDisconnect, UnauthPacket, Packet
  <2>2. ASSUME NEW name \in Names, NEW password_ok \in BOOLEAN,
               Login(fd, name, password_ok)
        PROVE  FALSE
    <3>1. read_fds' \subseteq read_fds /\ DOMAIN clients' = DOMAIN clients
      BY <2>2 DEF Login, UnauthPacket, Packet, Visited
    <3> QED
      BY <3>1, KeepsClients
  <2>3. ASSUME NEW name \in Names, Register(fd, name) PROVE FALSE
    BY <2>3, KeepsClients DEF Register, UnauthPacket, Packet, Visited, memory
  <2> QED
    BY <1>2, <2>1, <2>2, <2>3 DEF UnauthHandler
<1>3. ASSUME NEW fd \in Fds, AuthHandler(fd)
      PROVE  \E tid \in Uids : Kick(fd, tid)
  <2>1. ~Disconnect(fd)
    BY CloseVisited DEF Disconnect, AuthPacket, Packet
  <2>2. \A tid : ~KickReadsFreedNode(fd, tid)
    BY DyingReadsNothing DEF KickReadsFreedNode
  <2>3. ~(read_fds' \subseteq read_fds /\ DOMAIN clients' = DOMAIN clients)
    BY KeepsClients
  <2> QED
    BY <1>3, <2>1, <2>2, <2>3
       DEF AuthHandler, Broadcast, Who, ListFriends, Logout, Whisper, KickRefused,
           AddFriend, RemoveFriend, GrantPrivileges, CreateGroup, AuthPacket,
           Packet, Visited, memory
<1>4. ASSUME NEW fd \in Fds, DropPacket(fd) PROVE FALSE
  BY <1>4, KeepsClients DEF DropPacket, Packet, Visited, memory
<1>5. CASE UNCHANGED vars
  BY <1>5, KeepsClients DEF vars
<1> QED
  BY <1>1, <1>2, <1>3, <1>4, <1>5 DEF Next

\* Only a kick can take a connection away that the loop has still to visit: the
\* crash that follows is its doing and no other handler's.
THEOREM OnlyKicksClose == Spec => OnlyKicksCloseUnvisited
<1>1. IInv /\ [Next]_vars =>
         [ReadsExistingClients /\ ~ReadsExistingClients' =>
             \E fd \in Fds, tid \in Uids : Kick(fd, tid)]_vars
  BY NextCloses
<1> QED
  BY <1>1, Invariance, PTL DEF Spec, OnlyKicksCloseUnvisited
\* As long as nobody is kicked, every descriptor that the loop of server_ch_listen
\* visits is the listener or a connection that exists: only a kick closes other
\* connections than the one that is being read, so only after a kick may
\* get_client_by_fd return NULL and be read through (run kick_same_round).
THEOREM RoundsWithoutKicks ==
    Spec /\ [][\A fd \in Fds, tid \in Uids : ~Kick(fd, tid)]_vars
        => []ReadsExistingClients
<1>1. Init => ReadsExistingClients
  BY DEF Init, ReadsExistingClients
<1>2. IInv /\ [Next]_vars /\ [\A fd \in Fds, tid \in Uids : ~Kick(fd, tid)]_vars
          /\ ReadsExistingClients => ReadsExistingClients'
  <2>1. CASE UNCHANGED vars
    BY <2>1 DEF vars, ReadsExistingClients
  <2>2. CASE \A fd \in Fds, tid \in Uids : ~Kick(fd, tid)
    BY <2>2, NextCloses
  <2> QED
    BY <2>1, <2>2
<1> QED
  BY <1>1, <1>2, Invariance, PTL DEF Spec

------------------------------------------------------------------------------
(* Whom a broadcast reaches *)

LEMMA BroadcastCovers ==
    ASSUME IInv, SessionListed, NEW fd \in Fds, Broadcast(fd)
    PROVE  {m.to : m \in sent'} =
               {other \in DOMAIN clients : clients[other] > 0} \ {fd}
<1> DEFINE type  == "MSG_BROADCAST"
           about == clients[fd]
<1>1. \A u \in DOMAIN users : u > 0
  BY UidsAssumption DEF IInv, TypeOK
<1>2. sent' = UNION {{Message(c, type, about) : c \in Connections(users, v) \ {fd}} :
                        v \in DOMAIN users}
  BY DEF Broadcast, send_to_all
<1>3. \A m \in sent' : \E v \in DOMAIN users :
         m.to \in Connections(users, v) \ {fd}
  BY <1>2 DEF Message
<1>4. \A v \in DOMAIN users : \A c \in Connections(users, v) \ {fd} :
         \E m \in sent' : m.to = c
  <2>1. ASSUME NEW v \in DOMAIN users, NEW c \in Connections(users, v) \ {fd}
        PROVE  Message(c, type, about) \in sent'
    BY <1>2, <2>1
  <2>2. \A c : Message(c, type, about).to = c
    BY DEF Message
  <2> QED
    BY <2>1, <2>2
<1>5. \A c : (\E v \in DOMAIN users : c \in Connections(users, v))
               <=> c \in DOMAIN clients /\ clients[c] > 0
  BY <1>1 DEF SessionListed, IInv, ConnectionOpen
<1> QED
  BY <1>3, <1>4, <1>5

\* A broadcast reaches every connection that is logged in, on whichever user's
\* list, but the one it came from, and nobody else.
THEOREM BroadcastReaches ==
    ASSUME NamesAreExact
    PROVE  Spec => BroadcastReachesOthers
<1>1. IInv /\ SessionsAgree /\ [Next]_vars =>
         [\A fd \in Fds : Broadcast(fd) =>
             {m.to : m \in sent'} =
                 {other \in DOMAIN clients : clients[other] > 0} \ {fd}]_vars
  BY BroadcastCovers DEF SessionsAgree
<1>2. Spec => []SessionsAgree
  BY TreesAgree
<1> QED
  BY <1>1, <1>2, Invariance, PTL DEF Spec, BroadcastReachesOthers

------------------------------------------------------------------------------
(* Presence: if every name has a row of its own and the queries succeed,   *)
(* the initial states map to initial states and every step to a step of    *)
(* Presence or to a stutter.                                               *)

\* The state of Presence, as ImplementsPresence maps it.
Sessions(tree) == Restrict(tree, {fd \in DOMAIN tree : tree[fd] > 0})
FriendsOf(d) == [u \in Uids |-> Friends(d, u)]
NewsTypes == {"MSG_FRIEND_ONLINE", "MSG_FRIEND_OFFLINE"}
News(messages) == {m \in messages : m.type \in NewsTypes}

\* The trees before and after a step, as Invariance and TreesAgree have them.
TreesSound == IInv /\ Listed

------------------------------------------------------------------------------
(* The two trees, seen from the connections *)

LEMMA SameSessions ==
    ASSUME NEW cl, NEW us, UsersProper(us),
           \A u \in DOMAIN us : \A fd \in Connections(us, u) :
              fd \in DOMAIN cl /\ cl[fd] = u,
           \A fd \in DOMAIN cl : cl[fd] > 0 =>
              cl[fd] \in DOMAIN us /\ fd \in Connections(us, cl[fd])
    PROVE  /\ Range(Sessions(cl)) = DOMAIN us
           /\ \A u, c : (c \in DOMAIN Sessions(cl) /\ Sessions(cl)[c] = u)
                            <=> (u \in DOMAIN us /\ c \in Connections(us, u))
<1>1. /\ DOMAIN Sessions(cl) = {fd \in DOMAIN cl : cl[fd] > 0}
      /\ \A fd \in DOMAIN Sessions(cl) : Sessions(cl)[fd] = cl[fd]
  BY DEF Sessions, Restrict
<1>2. ASSUME NEW u, NEW c
      PROVE  (c \in DOMAIN Sessions(cl) /\ Sessions(cl)[c] = u)
                 <=> (u \in DOMAIN us /\ c \in Connections(us, u))
  <2>1. u \in DOMAIN us => u > 0
    BY UidsAssumption DEF UsersProper
  <2> QED
    BY <1>1, <2>1
<1>3. \A u \in DOMAIN us : \E c : c \in Connections(us, u)
  <2>1. SUFFICES ASSUME NEW u \in DOMAIN us PROVE \E c : c \in Connections(us, u)
    OBVIOUS
  <2>2. us[u].connections \in Seq(Fds) /\ us[u].connections # <<>>
    BY DEF UsersProper, ProperList
  <2>3. us[u].connections[1] \in ToSet(us[u].connections)
    BY <2>2 DEF ToSet
  <2> QED
    BY <2>3 DEF Connections
<1>4. Range(Sessions(cl)) = {Sessions(cl)[c] : c \in DOMAIN Sessions(cl)}
  BY DEF Range
<1>5. Range(Sessions(cl)) = DOMAIN us
  BY <1>2, <1>3, <1>4
<1> QED
  BY <1>2, <1>5

\* Who is online before and after a step, and on which connections.
LEMMA SessionsMapped ==
    ASSUME TreesSound
    PROVE  /\ Range(Sessions(clients)) = DOMAIN users
           /\ \A u, c :
                 (c \in DOMAIN Sessions(clients) /\ Sessions(clients)[c] = u)
                     <=> (u \in DOMAIN users /\ c \in Connections(users, u))
<1>1. UsersProper(users)
  BY UsersAreProper DEF TreesSound, IInv
<1>2. /\ \A u \in DOMAIN users : \A fd \in Connections(users, u) :
            fd \in DOMAIN clients /\ clients[fd] = u
      /\ \A fd \in DOMAIN clients : clients[fd] > 0 =>
            clients[fd] \in DOMAIN users /\ fd \in Connections(users, clients[fd])
  BY DEF TreesSound, IInv, ConnectionOpen, Listed, SessionListed
<1> QED
  BY <1>1, <1>2, SameSessions

LEMMA SessionsMappedAfter ==
    ASSUME TreesSound'
    PROVE  /\ Range(Sessions(clients')) = DOMAIN users'
           /\ \A u, c :
                 (c \in DOMAIN Sessions(clients') /\ Sessions(clients')[c] = u)
                     <=> (u \in DOMAIN users' /\ c \in Connections(users', u))
<1>1. UsersProper(users')
  BY DEF TreesSound, IInv, TypeOK, ConnectionsCounted, UsersProper, ProperList,
         ServerUserType
<1>2. /\ \A u \in DOMAIN users' : \A fd \in Connections(users', u) :
            fd \in DOMAIN clients' /\ clients'[fd] = u
      /\ \A fd \in DOMAIN clients' : clients'[fd] > 0 =>
            clients'[fd] \in DOMAIN users' /\ fd \in Connections(users', clients'[fd])
  BY DEF TreesSound, IInv, ConnectionOpen, Listed, SessionListed, Connections
<1> QED
  BY <1>1, <1>2, SameSessions

LEMMA OnlineMapped ==
    /\ Announcing!Online = Range(Sessions(clients))
    /\ Announcing!Online' = Range(Sessions(clients'))
<1>1. Announcing!Online = Range(Sessions(clients))
  BY DEF Announcing!Online, Announcing!Range, Range, Sessions
<1>2. Announcing!Online' = Range(Sessions(clients'))
  BY DEF Announcing!Online, Announcing!Range, Range, Sessions
<1> QED
  BY <1>1, <1>2

\* The notices of Presence are what send_to_friends writes.
LEMMA NoticesSent ==
    ASSUME TreesSound', db' = db, NEW v \in Uids, NEW type
    PROVE  Announcing!Notices(type, v) =
               send_to_friends(users', Friends(db, v), type, v)
<1> DEFINE s == Sessions(clients')
<1>1. /\ \A u, c : (c \in DOMAIN s /\ s[c] = u)
                       <=> (u \in DOMAIN users' /\ c \in Connections(users', u))
  BY SessionsMappedAfter
<1>2. Announcing!Notices(type, v) =
         {Message(c, type, v) : c \in {d \in DOMAIN s : s[d] \in Friends(db, v)}}
  BY DEF Announcing!Notices, Sessions, Message
<1> HIDE DEF s
<1>3. send_to_friends(users', Friends(db, v), type, v) =
         UNION {{Message(c, type, v) : c \in Connections(users', u)} :
                    u \in Friends(db, v) \cap DOMAIN users'}
  BY DEF send_to_friends, send_to_user
<1>4. {d \in DOMAIN s : s[d] \in Friends(db, v)} =
         UNION {Connections(users', u) : u \in Friends(db, v) \cap DOMAIN users'}
  BY <1>1
<1> QED
  BY <1>2, <1>3, <1>4

------------------------------------------------------------------------------
(* The kinds of steps *)

\* Nobody comes or goes and no notice is written: a step of Befriend.
LEMMA QuietPresence ==
    ASSUME Sessions(clients') = Sessions(clients), News(sent') = {}
    PROVE  Announcing!Next
<1>1. FriendsOf(db') \in [Uids -> SUBSET Uids]
  BY DEF FriendsOf, Friends
<1>2. Announcing!Befriend
  BY <1>1 DEF Announcing!Befriend, FriendsOf, News, NewsTypes, Sessions
<1> QED
  BY <1>2 DEF Announcing!Next

LEMMA DyingPresence ==
    ASSUME Dies, UNCHANGED db
    PROVE  Announcing!Next
<1>1. Sessions(clients') = [c \in {} |-> c]
  BY DEF Dies, EmptyTree, Sessions, Restrict
<1>2. Announcing!Shutdown
  BY <1>1 DEF Announcing!Shutdown, Announcing!Nobody, Dies, Sessions
<1> QED
  BY <1>2 DEF Announcing!Next

\* No message of these types is a notice of Presence.
LEMMA NoNews ==
    ASSUME NEW type, type \notin NewsTypes, NEW tree
    PROVE  /\ \A u, about : News(send_to_user(tree, u, type, about)) = {}
           /\ \A fd, about : News(send_to_all(tree, fd, type, about)) = {}
           /\ \A fd, about : News({Message(fd, type, about)}) = {}
<1>1. \A u, about : \A m \in send_to_user(tree, u, type, about) : m.type = type
  BY DEF send_to_user, Message
<1>2. \A fd, about : \A m \in send_to_all(tree, fd, type, about) : m.type = type
  BY DEF send_to_all, Message
<1>3. \A fd, about : \A m \in {Message(fd, type, about)} : m.type = type
  BY DEF Message
<1> QED
  BY <1>1, <1>2, <1>3 DEF News

\* Everything send_to_friends writes about a user's presence is news.
LEMMA AllNews ==
    ASSUME NEW type \in NewsTypes, NEW tree, NEW friends, NEW v
    PROVE  News(send_to_friends(tree, friends, type, v)) =
               send_to_friends(tree, friends, type, v)
<1>1. \A u : \A m \in send_to_user(tree, u, type, v) : m.type = type
  BY DEF send_to_user, Message
<1>2. \A m \in send_to_friends(tree, friends, type, v) : m.type = type
  BY <1>1 DEF send_to_friends
<1> QED
  BY <1>2 DEF News

\* The connections in C leave u, and what is written follows the tree of users.
LEMMA LeavePresence ==
    ASSUME TreesSound, TreesSound', db' = db, NEW u \in Uids, NEW C \in SUBSET Fds,
           \A c \in C : c \in DOMAIN Sessions(clients) /\ Sessions(clients)[c] = u,
           Sessions(clients') = Restrict(Sessions(clients), DOMAIN Sessions(clients) \ C),
           \/ /\ DOMAIN users' = DOMAIN users
              /\ News(sent') = {}
           \/ /\ DOMAIN users' = DOMAIN users \ {u}
              /\ u \in DOMAIN users
              /\ News(sent') = send_to_friends(users', Friends(db, u),
                                               "MSG_FRIEND_OFFLINE", u)
    PROVE  Announcing!Next
<1>1. /\ Announcing!Online = DOMAIN users
      /\ Announcing!Online' = DOMAIN users'
  BY OnlineMapped, SessionsMapped, SessionsMappedAfter
<1>2. Announcing!Notices("MSG_FRIEND_OFFLINE", u) =
         send_to_friends(users', Friends(db, u), "MSG_FRIEND_OFFLINE", u)
  BY NoticesSent
<1>3. News(sent') =
         (UNION {Announcing!Notices("MSG_FRIEND_ONLINE", v) :
                     v \in DOMAIN users' \ DOMAIN users})
         \union
         (UNION {Announcing!Notices("MSG_FRIEND_OFFLINE", v) :
                     v \in DOMAIN users \ DOMAIN users'})
  BY <1>2
<1>4. Announcing!Announced
  BY <1>1, <1>3 DEF Announcing!Announced, News, NewsTypes
<1>5. Announcing!Leave(C, u)
  <2>1. UNCHANGED [v \in Uids |-> Friends(db, v)]
    OBVIOUS
  <2> QED
    BY <1>4, <2>1 DEF Announcing!Leave, Announcing!Restrict, Restrict, Sessions
<1> QED
  BY <1>5 DEF Announcing!Next

\* A connection comes, to a user that is or is not online yet.
LEMMA ComePresence ==
    ASSUME TreesSound, TreesSound', db' = db, NEW u \in Uids, NEW fd \in Fds,
           fd \notin DOMAIN Sessions(clients),
           Sessions(clients') =
               [d \in DOMAIN Sessions(clients) \union {fd} |->
                   IF d = fd THEN u ELSE Sessions(clients)[d]],
           DOMAIN users' = DOMAIN users \union {u},
           News(sent') = IF u \in DOMAIN users THEN {}
                         ELSE send_to_friends(users', Friends(db, u),
                                              "MSG_FRIEND_ONLINE", u)
    PROVE  Announcing!Next
<1>1. /\ Announcing!Online = DOMAIN users
      /\ Announcing!Online' = DOMAIN users'
  BY OnlineMapped, SessionsMapped, SessionsMappedAfter
<1>2. Announcing!Notices("MSG_FRIEND_ONLINE", u) =
         send_to_friends(users', Friends(db, u), "MSG_FRIEND_ONLINE", u)
  BY NoticesSent
<1>3. News(sent') =
         (UNION {Announcing!Notices("MSG_FRIEND_ONLINE", v) :
                     v \in DOMAIN users' \ DOMAIN users})
         \union
         (UNION {Announcing!Notices("MSG_FRIEND_OFFLINE", v) :
                     v \in DOMAIN users \ DOMAIN users'})
  BY <1>2
<1>4. Announcing!Announced
  BY <1>1, <1>3 DEF Announcing!Announced, News, NewsTypes
<1>5. Announcing!Come(fd, u)
  BY <1>4 DEF Announcing!Come, Sessions
<1> QED
  BY <1>5 DEF Announcing!Next

------------------------------------------------------------------------------
(* The handlers *)

QueriesWork == DbFails = FALSE

LEMMA AllFriends ==
    ASSUME QueriesWork, NEW u
    PROVE  sql_ch_get_friends(db, u) = {Friends(db, u)}
BY DEF QueriesWork, sql_ch_get_friends, OnFailure

LEMMA ClosedSessions ==
    ASSUME NEW C, clients' = gdsl_rbtree_remove(clients, C)
    PROVE  Sessions(clients') =
               Restrict(Sessions(clients), DOMAIN Sessions(clients) \ C)
BY DEF Sessions, Restrict, gdsl_rbtree_remove

\* What becomes of the user a connection leaves, and what is written of it.
LEMMA LeaveUserNews ==
    ASSUME QueriesWork, TreesSound, NEW fd \in DOMAIN clients,
           clients[fd] \in DOMAIN users, LeaveUser(clients[fd], fd)
    PROVE  LET u == clients[fd]
           IN  \/ DOMAIN users' = DOMAIN users /\ News(sent') = {}
               \/ /\ DOMAIN users' = DOMAIN users \ {u}
                  /\ News(sent') = send_to_friends(users', Friends(db, u),
                                                   "MSG_FRIEND_OFFLINE", u)
<1> DEFINE u    == clients[fd]
           user == server_user_remove_connection(users[u], fd)
           tree == [users EXCEPT ![u] = user]
<1>1. CASE user.connections # <<>>
  <2>1. users' = tree /\ sent' = {}
    BY <1>1 DEF LeaveUser
  <2> QED
    BY <2>1 DEF News
<1>2. CASE user.connections = <<>>
  <2>1. /\ users' = gdsl_rbtree_remove(users, {u})
        /\ sent' = send_to_friends(tree, Friends(db, u), "MSG_FRIEND_OFFLINE", u)
    BY <1>2, AllFriends DEF LeaveUser
  <2>2. DOMAIN users' = DOMAIN users \ {u}
    BY <2>1 DEF gdsl_rbtree_remove, Restrict
  <2>3. ASSUME NEW v
        PROVE  send_to_user(tree, v, "MSG_FRIEND_OFFLINE", u) =
                   send_to_user(users', v, "MSG_FRIEND_OFFLINE", u)
    <3>1. CASE v = u
      <4>1. Connections(tree, u) = {}
        BY <1>2 DEF Connections, ToSet
      <4> HIDE DEF tree
      <4> QED
        BY <2>2, <3>1, <4>1 DEF send_to_user
    <3>2. CASE v # u
      <4>1. v \in DOMAIN users' <=> v \in DOMAIN tree
        BY <2>2, <3>2
      <4>2. v \in DOMAIN users' => Connections(tree, v) = Connections(users', v)
        BY <2>1, <2>2, <3>2 DEF Connections, gdsl_rbtree_remove, Restrict
      <4> HIDE DEF tree
      <4> QED
        BY <4>1, <4>2 DEF send_to_user
    <3> QED
      BY <3>1, <3>2
  <2> HIDE DEF tree
  <2>4. sent' = send_to_friends(users', Friends(db, u), "MSG_FRIEND_OFFLINE", u)
    BY <2>1, <2>3 DEF send_to_friends
  <2>5. News(sent') = sent'
    BY <2>4, AllNews DEF NewsTypes
  <2> QED
    BY <2>2, <2>4, <2>5
<1> QED
  BY <1>1, <1>2

\* A client of a user is in the trees as Presence has it.
LEMMA ClientOfUser ==
    ASSUME TreesSound, NEW fd \in DOMAIN clients
    PROVE  /\ fd \in Fds
           /\ fd \in DOMAIN Sessions(clients) <=> clients[fd] > 0
           /\ clients[fd] > 0 =>
                 /\ clients[fd] \in Uids
                 /\ clients[fd] \in DOMAIN users
                 /\ Sessions(clients)[fd] = clients[fd]
<1>1. fd \in Fds /\ DOMAIN users \subseteq Uids
  BY DEF TreesSound, IInv, TypeOK
<1>2. clients[fd] > 0 => clients[fd] \in DOMAIN users
  BY DEF TreesSound, Listed, SessionListed
<1>3. /\ fd \in DOMAIN Sessions(clients) <=> clients[fd] > 0
      /\ clients[fd] > 0 => Sessions(clients)[fd] = clients[fd]
  BY DEF Sessions, Restrict
<1> QED
  BY <1>1, <1>2, <1>3

LEMMA ClosePresence ==
    ASSUME QueriesWork, TreesSound, TreesSound', NEW fd \in DOMAIN clients,
           CloseClient(fd)
    PROVE  Announcing!Next
<1>1. Sessions(clients') = Restrict(Sessions(clients), DOMAIN Sessions(clients) \ {fd})
  BY ClosedSessions DEF CloseClient
<1>2. cb_cl_dc(fd) /\ db' = db
  BY DEF CloseClient
<1>3. CASE clients[fd] > 0
  <2>1. /\ clients[fd] \in DOMAIN users /\ clients[fd] \in Uids /\ fd \in Fds
        /\ fd \in DOMAIN Sessions(clients) /\ Sessions(clients)[fd] = clients[fd]
    BY <1>3, ClientOfUser
  <2>2. LeaveUser(clients[fd], fd)
    BY <1>2, <1>3, <2>1 DEF cb_cl_dc
  <2>3. \/ DOMAIN users' = DOMAIN users /\ News(sent') = {}
        \/ /\ DOMAIN users' = DOMAIN users \ {clients[fd]}
           /\ News(sent') = send_to_friends(users', Friends(db, clients[fd]),
                                            "MSG_FRIEND_OFFLINE", clients[fd])
    BY <2>1, <2>2, LeaveUserNews
  <2>4. {fd} \in SUBSET Fds
    BY <2>1
  <2> QED
    BY <1>1, <1>2, <2>1, <2>3, <2>4, LeavePresence
<1>4. CASE ~ clients[fd] > 0
  <2>1. fd \notin DOMAIN Sessions(clients)
    BY <1>4, ClientOfUser
  <2>2. Sessions(clients') = Sessions(clients)
    BY <1>1, <2>1 DEF Sessions, Restrict
  <2>3. News(sent') = {}
    BY <1>2, <1>4 DEF cb_cl_dc, News
  <2> QED
    BY <2>2, <2>3, QuietPresence
<1> QED
  BY <1>3, <1>4

LEMMA LogoutPresence ==
    ASSUME QueriesWork, TreesSound, TreesSound', NEW fd \in Fds, Logout(fd)
    PROVE  Announcing!Next
<1>1. /\ fd \in DOMAIN clients /\ clients[fd] > 0 /\ clients[fd] \in DOMAIN users
      /\ clients' = [clients EXCEPT ![fd] = USER_ID_INVALID]
      /\ LeaveUser(clients[fd], fd) /\ db' = db
  BY DEF Logout, AuthPacket, Packet
<1>2. Sessions(clients') = Restrict(Sessions(clients), DOMAIN Sessions(clients) \ {fd})
  <2>1. {c \in DOMAIN clients' : clients'[c] > 0} =
           {c \in DOMAIN clients : clients[c] > 0} \ {fd}
    BY <1>1 DEF USER_ID_INVALID
  <2> QED
    BY <1>1, <2>1 DEF Sessions, Restrict
<1>3. /\ clients[fd] \in Uids
      /\ fd \in DOMAIN Sessions(clients) /\ Sessions(clients)[fd] = clients[fd]
  BY <1>1, ClientOfUser
<1>4. \/ DOMAIN users' = DOMAIN users /\ News(sent') = {}
      \/ /\ DOMAIN users' = DOMAIN users \ {clients[fd]}
         /\ News(sent') = send_to_friends(users', Friends(db, clients[fd]),
                                          "MSG_FRIEND_OFFLINE", clients[fd])
  BY <1>1, LeaveUserNews
<1>5. {fd} \in SUBSET Fds
  OBVIOUS
<1> QED
  BY <1>1, <1>2, <1>3, <1>4, <1>5, LeavePresence

LEMMA KickPresence ==
    ASSUME QueriesWork, TreesSound, TreesSound', NEW fd \in Fds, NEW tid \in Uids,
           Kick(fd, tid)
    PROVE  Announcing!Next
<1>1. PICK C \in SUBSET Connections(users, tid) :
         /\ Loses(C)
         /\ clients' = gdsl_rbtree_remove(clients, C)
  BY KickLoses DEF TreesSound
<1>2. tid \in DOMAIN users /\ db' = db
  BY DEF Kick, Kicks
<1>3. /\ Sessions(clients') = Restrict(Sessions(clients), DOMAIN Sessions(clients) \ C)
      /\ \A c \in C : c \in DOMAIN Sessions(clients) /\ Sessions(clients)[c] = tid
      /\ C \in SUBSET Fds
  <2>1. \A c \in C : c \in DOMAIN Sessions(clients) /\ Sessions(clients)[c] = tid
    BY <1>1, <1>2, SessionsMapped
  <2>2. DOMAIN Sessions(clients) \subseteq Fds
    BY DEF Sessions, Restrict, TreesSound, IInv, TypeOK
  <2> QED
    BY <1>1, <2>1, <2>2, ClosedSessions
<1> DEFINE notice == send_to_user(users, tid, "MSG_BROADCAST", 0)
           gone   == send_to_friends(users', Friends(db, tid), "MSG_FRIEND_OFFLINE", tid)
<1>4. /\ News(notice) = {}
      /\ News(notice \union gone) = gone
  <2>1. News(notice) = {}
    BY NoNews DEF NewsTypes
  <2>2. News(gone) = gone
    BY AllNews DEF NewsTypes
  <2> HIDE DEF notice, gone
  <2> QED
    BY <2>1, <2>2 DEF News
<1>5. \/ users' = gdsl_rbtree_remove(users, {tid}) /\ sent' = notice \union gone
      \/ DOMAIN users' = DOMAIN users /\ sent' = notice
  BY AllFriends DEF Kick
<1>6. \/ DOMAIN users' = DOMAIN users \ {tid} /\ sent' = notice \union gone
      \/ DOMAIN users' = DOMAIN users /\ sent' = notice
  BY <1>5 DEF gdsl_rbtree_remove, Restrict
<1> HIDE DEF notice
<1>7. \/ DOMAIN users' = DOMAIN users /\ News(sent') = {}
      \/ DOMAIN users' = DOMAIN users \ {tid} /\ News(sent') = gone
  BY <1>4, <1>6
<1> QED
  BY <1>2, <1>3, <1>7, LeavePresence

\* A login finds con_len = 1 exactly if its user was not online.
LEMMA FirstConnection ==
    ASSUME NamesAreExact, TreesSound, NEW fd \in Fds, NEW name \in Names,
           NEW auth \in authorize_client(fd, name)
    PROVE  auth.user.con_len = 1 <=> auth.id \notin DOMAIN users
<1>1. UsersProper(users)
  BY UsersAreProper DEF TreesSound, IInv
<1> DEFINE online == {u \in DOMAIN users : users[u].username = name}
<1>2. CASE online # {}
  <2>1. PICK u \in online :
           auth.id = u /\ auth.user = server_user_add_connection(users[u], fd)
    BY <1>2 DEF authorize_client
  <2>2. auth.user.con_len = users[u].con_len + 1
    <3>1. users[u] \in ServerUserType
      BY <1>1 DEF UsersProper
    <3> QED
      BY <2>1, <3>1 DEF server_user_add_connection, ServerUserType
  <2>3. /\ users[u].connections \in Seq(Fds)
        /\ users[u].connections # <<>>
        /\ users[u].con_len = Len(users[u].connections)
    BY <1>1 DEF UsersProper, ProperList
  <2>4. users[u].con_len \in Nat \ {0}
    BY <2>3
  <2> QED
    BY <2>1, <2>2, <2>4
<1>3. CASE online = {}
  <2>1. PICK priv \in sql_ch_load_privileges(db, UidOf[name]) :
           auth.id = UidOf[name] /\ auth.user = server_user_create(fd, name, priv)
    BY <1>3 DEF authorize_client
  <2>2. auth.user.con_len = 1
    BY <2>1 DEF server_user_create
  <2>3. ASSUME UidOf[name] \in DOMAIN users PROVE FALSE
    <3>1. users[UidOf[name]].username \in Names
      BY <1>1, <2>3 DEF UsersProper, ServerUserType
    <3>2. UidOf[users[UidOf[name]].username] = UidOf[name]
      BY <2>3 DEF TreesSound, Listed, NamesSelectTheirRow
    <3> QED
      BY <1>3, <2>3, <3>1, <3>2 DEF NamesAreExact
  <2> QED
    BY <2>1, <2>2, <2>3
<1> QED
  BY <1>2, <1>3

LEMMA LoginPresence ==
    ASSUME NamesAreExact, QueriesWork, TreesSound, TreesSound', NEW fd \in Fds,
           NEW name \in Names, NEW password_ok \in BOOLEAN,
           Login(fd, name, password_ok)
    PROVE  Announcing!Next
<1>1. fd \in DOMAIN clients /\ ~ clients[fd] > 0 /\ db' = db
  BY DEF Login, UnauthPacket, Packet
<1>2. ASSUME NEW auth \in authorize_client(fd, name),
             users' = auth.tree, clients' = [clients EXCEPT ![fd] = auth.id],
             sent' = {Message(fd, "MSG_WELCOME", 0)} \union
                     IF auth.user.con_len = 1
                     THEN send_to_friends(auth.tree, Friends(db, auth.id),
                              "MSG_FRIEND_ONLINE", auth.id)
                     ELSE {}
      PROVE  Announcing!Next
  <2>1. auth.id \in Uids /\ Gains(fd, auth.id)
    BY <1>1, <1>2, AuthorizeGains DEF TreesSound
  <2>2. DOMAIN users' = DOMAIN users \union {auth.id} /\ auth.id > 0
    <3>1. \A u \in Uids : u > 0
      BY UidsAssumption
    <3> QED
      BY <2>1, <3>1 DEF Gains
  <2>3. fd \notin DOMAIN Sessions(clients)
    BY <1>1, ClientOfUser
  <2>4. Sessions(clients') =
           [d \in DOMAIN Sessions(clients) \union {fd} |->
               IF d = fd THEN auth.id ELSE Sessions(clients)[d]]
    <3>1. {c \in DOMAIN clients' : clients'[c] > 0} =
             {c \in DOMAIN clients : clients[c] > 0} \union {fd}
      BY <1>1, <1>2, <2>2
    <3> QED
      BY <1>1, <1>2, <3>1 DEF Sessions, Restrict
  <2> DEFINE come == send_to_friends(users', Friends(db, auth.id),
                                     "MSG_FRIEND_ONLINE", auth.id)
             hello == {Message(fd, "MSG_WELCOME", 0)}
  <2>5. News(hello) = {} /\ News(come) = come
    BY NoNews, AllNews DEF NewsTypes
  <2>6. sent' = hello \union IF auth.id \in DOMAIN users THEN {} ELSE come
    BY <1>2, FirstConnection
  <2> HIDE DEF come, hello
  <2>7. News(sent') = IF auth.id \in DOMAIN users THEN {} ELSE come
    BY <2>5, <2>6 DEF News
  <2> QED
    BY <1>1, <2>1, <2>2, <2>3, <2>4, <2>7, ComePresence DEF come
<1>3. ASSUME sent' = {Message(fd, "MSG_AUTH_FAILED", 0)}, clients' = clients
      PROVE  Announcing!Next
  <2>1. News(sent') = {}
    BY <1>3, NoNews DEF NewsTypes
  <2> QED
    BY <1>3, <2>1, QuietPresence
<1> QED
  <2>1. CASE \E auth \in authorize_client(fd, name) :
                /\ users' = auth.tree
                /\ clients' = [clients EXCEPT ![fd] = auth.id]
                /\ sent' = {Message(fd, "MSG_WELCOME", 0)} \union
                           IF auth.user.con_len = 1
                           THEN send_to_friends(auth.tree, Friends(db, auth.id),
                                    "MSG_FRIEND_ONLINE", auth.id)
                           ELSE {}
    BY <1>2, <2>1
  <2>2. CASE sent' = {Message(fd, "MSG_AUTH_FAILED", 0)} /\ clients' = clients
    BY <1>3, <2>2
  <2> QED
    BY <2>1, <2>2, AllFriends DEF Login

\* A friend request writes MSG_SYSTEM_MSG only.
LEMMA AddFriendPresence ==
    ASSUME NEW fd \in Fds, NEW to \in Uids, AddFriend(fd, to)
    PROVE  News(sent') = {}
<1>1. \A u, m : m \in send_to_user(users, u, "MSG_SYSTEM_MSG", 0) => m.type = "MSG_SYSTEM_MSG"
  BY DEF send_to_user, Message
<1>2. \A out \in send_friend_request(clients[fd], to) :
         \E u : out.sent = send_to_user(users, u, "MSG_SYSTEM_MSG", 0)
  BY DEF send_friend_request
<1>3. \/ sent' = {}
      \/ \E out \in send_friend_request(clients[fd], to) : sent' = out.sent
  BY DEF AddFriend
<1> QED
  BY <1>1, <1>2, <1>3 DEF News, NewsTypes

LEMMA AuthHandlerPresence ==
    ASSUME QueriesWork, TreesSound, TreesSound', NEW fd \in Fds, AuthHandler(fd)
    PROVE  Announcing!Next
<1>1. ASSUME clients' = clients, News(sent') = {} PROVE Announcing!Next
  BY <1>1, QuietPresence
<1>2. ASSUME NEW type, type \notin NewsTypes
      PROVE  /\ \A u, about : News(send_to_user(users, u, type, about)) = {}
             /\ \A about : News(send_to_all(users, fd, type, about)) = {}
  BY <1>2, NoNews
<1>3. News({}) = {}
  BY DEF News
<1>4. CASE Broadcast(fd)
  BY <1>1, <1>2, <1>4 DEF Broadcast, memory, NewsTypes
<1>5. CASE Who(fd) \/ ListFriends(fd)
  BY <1>1, <1>2, <1>5 DEF Who, ListFriends, memory, NewsTypes
<1>6. CASE Logout(fd)
  BY <1>6, LogoutPresence
<1>7. CASE Disconnect(fd)
  BY <1>7, ClosePresence DEF Disconnect, AuthPacket, Packet
<1>8. ASSUME NEW tid \in Uids, Whisper(fd, tid) PROVE Announcing!Next
  BY <1>1, <1>2, <1>8 DEF Whisper, memory, NewsTypes
<1>9. ASSUME NEW tid \in Uids, Kick(fd, tid) PROVE Announcing!Next
  BY <1>9, KickPresence
<1>10. ASSUME NEW tid \in Uids, KickReadsFreedNode(fd, tid) PROVE Announcing!Next
  BY <1>10, DyingPresence DEF KickReadsFreedNode
<1>11. ASSUME NEW tid \in Uids, KickRefused(fd, tid) PROVE Announcing!Next
  BY <1>1, <1>3, <1>11 DEF KickRefused, memory
<1>12. ASSUME NEW tid \in Uids, AddFriend(fd, tid) PROVE Announcing!Next
  BY <1>1, <1>12, AddFriendPresence DEF AddFriend, memory
<1>13. ASSUME NEW tid \in Uids, RemoveFriend(fd, tid) PROVE Announcing!Next
  <2>1. \A u, about : News(send_to_user(users, u, "MSG_REMOVE_FRIEND", about)) = {}
    BY <1>2 DEF NewsTypes
  <2>2. \/ sent' = {}
        \/ sent' = send_to_user(users, clients[fd], "MSG_REMOVE_FRIEND", tid)
                     \union
                   send_to_user(users, tid, "MSG_REMOVE_FRIEND", clients[fd])
    BY <1>13 DEF RemoveFriend
  <2>3. News(sent') = {}
    BY <2>1, <2>2 DEF News
  <2> QED
    BY <1>1, <1>13, <2>3 DEF RemoveFriend, memory
<1>14. ASSUME NEW uid \in Uids, NEW priv \in Grants, GrantPrivileges(fd, uid, priv)
       PROVE  Announcing!Next
  BY <1>1, <1>3, <1>14 DEF GrantPrivileges, memory
<1>15. ASSUME NEW name \in GroupNames, CreateGroup(fd, name) PROVE Announcing!Next
  BY <1>1, <1>3, <1>15 DEF CreateGroup, memory
<1> QED
  BY <1>4, <1>5, <1>6, <1>7, <1>8, <1>9, <1>10, <1>11, <1>12, <1>13, <1>14, <1>15
     DEF AuthHandler

LEMMA UnauthHandlerPresence ==
    ASSUME NamesAreExact, QueriesWork, TreesSound, TreesSound', NEW fd \in Fds,
           UnauthHandler(fd)
    PROVE  Announcing!Next
<1>1. ASSUME NEW name \in Names, NEW password_ok \in BOOLEAN,
             Login(fd, name, password_ok)
      PROVE  Announcing!Next
  BY <1>1, LoginPresence
<1>2. ASSUME NEW name \in Names, Register(fd, name) PROVE Announcing!Next
  <2>1. \E type \in {"MSG_REGISTR_SUCCESSFUL", "MSG_REGISTR_FAILED"} :
           sent' = {Message(fd, type, 0)}
    BY <1>2 DEF Register
  <2>2. News(sent') = {}
    BY <2>1, NoNews DEF NewsTypes
  <2> QED
    BY <1>2, <2>2, QuietPresence DEF Register, memory
<1>3. CASE UnauthDisconnect(fd)
  BY <1>3, ClosePresence DEF UnauthDisconnect, UnauthPacket, Packet
<1> QED
  BY <1>1, <1>2, <1>3 DEF UnauthHandler

\* Boot is a stutter: the tables are those of a process that was down.
LEMMA ProcessPresence ==
    ASSUME QueriesWork, TreesSound, TreesSound', Process
    PROVE  Announcing!Next \/ UNCHANGED <<clients, db, sent>>
<1>1. ASSUME clients' = clients, sent' = {} PROVE Announcing!Next
  BY <1>1, QuietPresence DEF News
<1>2. CASE Halt \/ SelectFails
  BY <1>2, DyingPresence DEF Halt, SelectFails
<1>3. CASE Boot
  BY <1>3 DEF Boot
<1>4. CASE AcceptFails \/ HandshakeFails
  BY <1>1, <1>4 DEF AcceptFails, HandshakeFails, memory
<1>5. ASSUME NEW ready, Select(ready) PROVE Announcing!Next
  BY <1>1, <1>5 DEF Select, memory
<1>6. ASSUME NEW fd \in Fds, Accept(fd) PROVE Announcing!Next
  <2>1. /\ DOMAIN clients' = DOMAIN clients \union {fd}
        /\ fd \notin DOMAIN clients
        /\ clients'[fd] = USER_ID_INVALID
        /\ \A c \in DOMAIN clients : clients'[c] = clients[c]
        /\ sent' = {}
    BY <1>6 DEF Accept, gdsl_rbtree_insert
  <2>2. {c \in DOMAIN clients' : clients'[c] > 0} = {c \in DOMAIN clients : clients[c] > 0}
    BY <2>1 DEF USER_ID_INVALID
  <2>3. Sessions(clients') = Sessions(clients)
    BY <2>1, <2>2 DEF Sessions, Restrict
  <2> QED
    BY <2>1, <2>3, QuietPresence DEF News
<1>7. ASSUME NEW fd \in Fds, ReadGoneClient(fd) PROVE Announcing!Next
  BY <1>7, DyingPresence DEF ReadGoneClient
<1>8. ASSUME NEW fd \in Fds, HangUp(fd) PROVE Announcing!Next
  BY <1>8, ClosePresence DEF HangUp
<1> QED
  BY <1>2, <1>3, <1>4, <1>5, <1>6, <1>7, <1>8 DEF Process

LEMMA NextPresence ==
    ASSUME NamesAreExact, QueriesWork, TreesSound, TreesSound', [Next]_vars
    PROVE  [Announcing!Next]_(Announcing!vars)
<1>1. ASSUME UNCHANGED <<clients, db, sent>> PROVE UNCHANGED Announcing!vars
  BY <1>1 DEF Announcing!vars
<1>2. CASE Process
  BY <1>1, <1>2, ProcessPresence
<1>3. ASSUME NEW fd \in Fds, UnauthHandler(fd) PROVE Announcing!Next
  BY <1>3, UnauthHandlerPresence
<1>4. ASSUME NEW fd \in Fds, AuthHandler(fd) PROVE Announcing!Next
  BY <1>4, AuthHandlerPresence
<1>5. ASSUME NEW fd \in Fds, DropPacket(fd) PROVE Announcing!Next
  BY <1>5, QuietPresence DEF DropPacket, memory, News
<1>6. CASE UNCHANGED vars
  BY <1>1, <1>6 DEF vars
<1> QED
  BY <1>2, <1>3, <1>4, <1>5, <1>6 DEF Next

LEMMA InitPresence == Init => Announcing!Init
<1>1. SUFFICES ASSUME Init PROVE Announcing!Init
  OBVIOUS
<1>2. Sessions(clients) = [c \in {} |-> c]
  BY <1>1 DEF Init, EmptyTree, Sessions, Restrict
<1>3. FriendsOf(db) \in [Uids -> SUBSET Uids]
  BY DEF FriendsOf, Friends
<1> QED
  BY <1>1, <1>2, <1>3 DEF Init, Announcing!Init, Announcing!Nobody, Sessions, FriendsOf

\* The server implements Presence: whichever way connections come and go, kicks,
\* restarts and undefined outcomes included, the friends of a user are told when
\* it comes online and when it goes, on all their connections, and nobody else
\* and at no other time.  Each name has a row of its own, and queries succeed.
THEOREM PresenceImplemented ==
    ASSUME NamesAreExact, QueriesWork
    PROVE  Spec => ImplementsPresence
<1>1. Init => TreesSound
  BY InitEstablishes
     DEF Init, EmptyTree, TreesSound, Listed, SessionListed, NamesSelectTheirRow
<1>2. TreesSound /\ [Next]_vars => TreesSound'
  BY NextPreserves, NextLists DEF TreesSound
<1>3. TreesSound /\ TreesSound' /\ [Next]_vars => [Announcing!Next]_(Announcing!vars)
  BY NextPresence
<1> QED
  BY <1>1, <1>2, <1>3, InitPresence, PTL DEF Spec, ImplementsPresence, Announcing!Spec

------------------------------------------------------------------------------
(* Who may kick *)

\* Nobody has the privilege at first, and /grant gives it to nobody.
NobodyPrivileged ==
    /\ \A d \in InitialDbs : \A u \in Uids : d.privilege[u] < KickLevel
    /\ \A priv \in Grants : ToUnsignedChar(priv) < KickLevel

NobodyMayKick ==
    /\ \A u \in Uids : db.privilege[u] < KickLevel
    /\ \A u \in DOMAIN users : users[u].p_level < KickLevel

\* The users who stay have the level they had.
LevelsStay ==
    \A u \in DOMAIN users' : u \in DOMAIN users /\ users'[u].p_level = users[u].p_level

LEMMA QueriesKeepPrivileges ==
    ASSUME NEW d \in Database, NEW u \in Uids, NEW v \in Uids
    PROVE  /\ \A out \in sql_ch_create_friend_request(d, u, v) : out.db.privilege = d.privilege
           /\ \A new \in sql_ch_create_friends(d, u, v) : new.privilege = d.privilege
           /\ \A out \in sql_ch_delete_friends(d, u, v) : out.db.privilege = d.privilege
           /\ \A name : \A new \in sql_ch_create_group(d, name, u) :
                 new.privilege = d.privilege
<1>1. \A e, x : e \in Database =>
         /\ [e EXCEPT !.friends = x].privilege = e.privilege
         /\ [e EXCEPT !.friend_requests = x].privilege = e.privilege
         /\ [e EXCEPT !.groups = x].privilege = e.privilege
  BY DEF Database
<1>2. ASSUME NEW out \in sql_ch_create_friend_request(d, u, v)
      PROVE  out.db.privilege = d.privilege
  <2> DEFINE new == [d EXCEPT !.friend_requests = Inserted(d.friend_requests, <<u, v>>)]
  <2>1. new.privilege = d.privilege
    BY <1>1
  <2>2. \/ \E r : out = [db |-> d, res |-> r]
        \/ \E r : out = [db |-> new, res |-> r]
    BY Zenon DEF sql_ch_create_friend_request, OnFailure
  <2> HIDE DEF new
  <2> QED
    BY <2>1, <2>2
<1>3. ASSUME NEW out \in sql_ch_delete_friends(d, u, v)
      PROVE  out.db.privilege = d.privilege
  <2> DEFINE one   == [d EXCEPT !.friends = Deleted(d.friends, u, v)]
             other == [d EXCEPT !.friend_requests = Deleted(d.friend_requests, u, v)]
  <2>1. one.privilege = d.privilege /\ other.privilege = d.privilege
    BY <1>1
  <2>2. \E r : \/ out = [db |-> d, res |-> r]
               \/ out = [db |-> one, res |-> r]
               \/ out = [db |-> other, res |-> r]
    BY Zenon DEF sql_ch_delete_friends, OnFailure
  <2> HIDE DEF one, other
  <2> QED
    BY <2>1, <2>2
<1>4. ASSUME NEW name, NEW new \in sql_ch_create_group(d, name, u)
      PROVE  new.privilege = d.privilege
  <2> DEFINE added == [d EXCEPT !.groups = d.groups \union {<<name, u>>}]
  <2>1. new \in {d, added}
    BY Zenon DEF sql_ch_create_group, OnFailure
  <2>2. added.privilege = d.privilege
    BY <1>1
  <2> HIDE DEF added
  <2> QED
    BY <2>1, <2>2
<1>5. ASSUME NEW new \in sql_ch_create_friends(d, u, v) PROVE new.privilege = d.privilege
  <2> DEFINE one  == [d EXCEPT !.friends = Inserted(d.friends, <<u, v>>)]
             both == [one EXCEPT !.friends = Inserted(one.friends, <<v, u>>)]
             done == [both EXCEPT !.friend_requests = Deleted(both.friend_requests, u, v)]
  <2>1. new \in {d, one, both, done}
    BY Zenon DEF sql_ch_create_friends, OnFailure
  <2>2. one \in Database /\ both \in Database
    <3>1. d.friends \in [Pairs -> Nat]
      BY DEF Database
    <3>2. one \in Database
      BY <3>1, TablesTyped, FieldsTyped
    <3> HIDE DEF one
    <3>3. one.friends \in [Pairs -> Nat]
      BY <3>2 DEF Database
    <3> QED
      BY <3>2, <3>3, TablesTyped, FieldsTyped
  <2>3. one.privilege = d.privilege
    BY <1>1
  <2> HIDE DEF one
  <2>4. both.privilege = one.privilege
    BY <1>1, <2>2
  <2> HIDE DEF both
  <2>5. done.privilege = both.privilege
    BY <1>1, <2>2
  <2> HIDE DEF done
  <2> QED
    BY <2>1, <2>3, <2>4, <2>5
<1> QED
  BY <1>2, <1>3, <1>4, <1>5

LEMMA LeavingKeepsLevels ==
    ASSUME IInv, NEW u \in DOMAIN users, NEW fd, LeaveUser(u, fd)
    PROVE  LevelsStay
<1> DEFINE new == server_user_remove_connection(users[u], fd)
<1>1. users \in [DOMAIN users -> ServerUserType]
  BY DEF IInv, TypeOK
<1>2. new.p_level = users[u].p_level
  BY <1>1 DEF server_user_remove_connection, ServerUserType
<1> HIDE DEF new
<1>3. \/ users' = gdsl_rbtree_remove(users, {u})
      \/ users' = [users EXCEPT ![u] = new]
  BY DEF LeaveUser, new
<1>4. CASE users' = gdsl_rbtree_remove(users, {u})
  BY <1>4 DEF gdsl_rbtree_remove, Restrict, LevelsStay
<1>5. CASE users' = [users EXCEPT ![u] = new]
  BY <1>1, <1>2, <1>5 DEF LevelsStay
<1> QED
  BY <1>3, <1>4, <1>5

LEMMA ClosingKeepsLevels ==
    ASSUME IInv, NEW fd, CloseClient(fd)
    PROVE  LevelsStay /\ db' = db
<1>1. db' = db /\ cb_cl_dc(fd)
  BY DEF CloseClient
<1>2. CASE clients[fd] > 0 /\ clients[fd] \in DOMAIN users
  BY <1>1, <1>2, LeavingKeepsLevels DEF cb_cl_dc
<1>3. CASE ~(clients[fd] > 0 /\ clients[fd] \in DOMAIN users)
  BY <1>1, <1>3 DEF cb_cl_dc, LevelsStay
<1> QED
  BY <1>1, <1>2, <1>3

\* A user gets the level that its row has, or 0 if the query fails.
LEMMA LoginLevels ==
    ASSUME IInv, NobodyMayKick, NEW fd, NEW name \in Names, NEW password_ok,
           Login(fd, name, password_ok)
    PROVE  NobodyMayKick'
<1>1. users \in [DOMAIN users -> ServerUserType] /\ db' = db
  BY DEF IInv, TypeOK, Login
<1>2. CASE users' = users
  BY <1>1, <1>2 DEF NobodyMayKick
<1>3. ASSUME NEW auth \in authorize_client(fd, name), users' = auth.tree
      PROVE  NobodyMayKick'
  <2>1. CASE \E u \in DOMAIN users :
               auth.tree = [users EXCEPT ![u] = server_user_add_connection(@, fd)]
    <3>1. PICK u \in DOMAIN users :
             users' = [users EXCEPT ![u] = server_user_add_connection(users[u], fd)]
      BY <1>3, <2>1
    <3> DEFINE new == server_user_add_connection(users[u], fd)
    <3>2. new.p_level = users[u].p_level
      BY <1>1 DEF server_user_add_connection, ServerUserType
    <3> HIDE DEF new
    <3>3. users' = [users EXCEPT ![u] = new]
      BY <3>1 DEF new
    <3> QED
      BY <1>1, <3>2, <3>3 DEF NobodyMayKick
  <2>2. CASE \E priv \in sql_ch_load_privileges(db, UidOf[name]) :
               auth.tree = gdsl_rbtree_insert(users, UidOf[name],
                                              server_user_create(fd, name, priv))
    <3>1. PICK priv \in sql_ch_load_privileges(db, UidOf[name]) :
             users' = gdsl_rbtree_insert(users, UidOf[name],
                                         server_user_create(fd, name, priv))
      BY <1>3, <2>2
    <3>2. priv < KickLevel
      BY UidOfAssumption DEF sql_ch_load_privileges, OnFailure, NobodyMayKick, KickLevel
    <3>3. server_user_create(fd, name, priv).p_level = priv
      BY DEF server_user_create
    <3>4. \A u \in DOMAIN users' :
             users'[u] = IF u \in DOMAIN users THEN users[u]
                         ELSE server_user_create(fd, name, priv)
      BY <3>1 DEF gdsl_rbtree_insert
    <3> QED
      BY <1>1, <3>2, <3>3, <3>4 DEF NobodyMayKick
  <2> QED
    BY <2>1, <2>2 DEF authorize_client
<1> QED
  BY <1>2, <1>3 DEF Login

LEMMA MemoryStays ==
    ASSUME NobodyMayKick, UNCHANGED users, \A u \in Uids : db'.privilege[u] < KickLevel
    PROVE  NobodyMayKick'
BY DEF NobodyMayKick

LEMMA DatabaseStays ==
    ASSUME NobodyMayKick, LevelsStay, db'.privilege = db.privilege
    PROVE  NobodyMayKick'
BY DEF NobodyMayKick, LevelsStay

LEMMA DyingLevels ==
    ASSUME NobodyMayKick, Dies, UNCHANGED db
    PROVE  NobodyMayKick'
BY DEF Dies, EmptyTree, NobodyMayKick

LEMMA RegisterLevels ==
    ASSUME IInv, NobodyMayKick, NEW fd, NEW name \in Names, Register(fd, name)
    PROVE  NobodyMayKick'
<1>1. db \in Database /\ UidOf[name] \in Uids
  BY UidOfAssumption DEF IInv, TypeOK
<1>2. PICK out \in sql_ch_add_user(db, name) : db' = out.db
  BY DEF Register
<1>3. \A u \in Uids : db'.privilege[u] = db.privilege[u] \/ db'.privilege[u] = 0
  <2> DEFINE id    == UidOf[name]
             added == [db EXCEPT !.users = db.users \union {id}, !.privilege[id] = 0]
  <2>1. added.privilege = [db.privilege EXCEPT ![id] = 0]
    BY <1>1 DEF Database
  <2>2. db.privilege \in [Uids -> PrivLevels]
    BY <1>1 DEF Database
  <2>3. \A u \in Uids : added.privilege[u] = db.privilege[u] \/ added.privilege[u] = 0
    BY <1>1, <2>1, <2>2
  <2>4. \E r : out = [db |-> db, res |-> r] \/ out = [db |-> added, res |-> r]
    BY Zenon DEF sql_ch_add_user, OnFailure
  <2> HIDE DEF added
  <2> QED
    BY <1>2, <2>3, <2>4
<1> QED
  BY <1>3, MemoryStays DEF Register, memory, NobodyMayKick, KickLevel

LEMMA GrantLevels ==
    ASSUME NobodyPrivileged, IInv, NobodyMayKick, NEW fd, NEW uid \in Uids,
           NEW priv \in Grants, GrantPrivileges(fd, uid, priv)
    PROVE  NobodyMayKick'
<1>1. db \in Database
  BY DEF IInv, TypeOK
<1>2. db' \in sql_ch_update_privileges(db, uid, priv)
  BY DEF GrantPrivileges
<1>3. \A u \in Uids :
         db'.privilege[u] = db.privilege[u] \/ db'.privilege[u] = ToUnsignedChar(priv)
  BY <1>1, <1>2 DEF sql_ch_update_privileges, OnFailure, Database
<1>4. \A u \in Uids : db'.privilege[u] < KickLevel
  BY <1>3 DEF NobodyMayKick, NobodyPrivileged
<1> QED
  BY <1>4, MemoryStays DEF GrantPrivileges, memory

LEMMA AddFriendLevels ==
    ASSUME IInv, NobodyMayKick, NEW fd \in Fds, NEW to \in Uids, AddFriend(fd, to)
    PROVE  NobodyMayKick'
<1>1. db \in Database /\ clients[fd] \in Uids
  BY VisitTyped DEF AddFriend, AuthPacket, IInv, TypeOK
<1>2. db' = db \/ \E out \in send_friend_request(clients[fd], to) : db' = out.db
  BY DEF AddFriend
<1>3. ASSUME NEW out \in send_friend_request(clients[fd], to), db' = out.db
      PROVE  db'.privilege = db.privilege
  <2>1. CASE out.db = db
    BY <1>3, <2>1
  <2>2. CASE \E req \in sql_ch_create_friend_request(db, clients[fd], to) :
               out.db \in IF req.res = "SQLV_OTHER_EXISTS"
                          THEN sql_ch_create_friends(req.db, clients[fd], to)
                          ELSE {req.db}
    <3>1. PICK req \in sql_ch_create_friend_request(db, clients[fd], to) :
             \/ out.db \in sql_ch_create_friends(req.db, clients[fd], to)
             \/ out.db = req.db
      BY <2>2
    <3>2. req.db \in Database /\ req.db.privilege = db.privilege
      BY <1>1, FriendQueriesTyped, QueriesKeepPrivileges
    <3> QED
      BY <1>1, <1>3, <3>1, <3>2, QueriesKeepPrivileges
  <2> QED
    BY <2>1, <2>2 DEF send_friend_request
<1>4. db'.privilege = db.privilege
  BY <1>2, <1>3
<1>5. LevelsStay
  BY DEF AddFriend, memory, LevelsStay
<1> QED
  BY <1>4, <1>5, DatabaseStays

LEMMA NextLevels ==
    ASSUME NobodyPrivileged, IInv, NobodyMayKick, [Next]_vars
    PROVE  NobodyMayKick'
<1>1. CASE UNCHANGED <<users, db>>
  BY <1>1 DEF NobodyMayKick
<1>2. CASE Process
  <2>1. CASE Halt \/ SelectFails \/ \E fd \in Fds : ReadGoneClient(fd)
    BY <2>1, DyingLevels DEF Halt, SelectFails, ReadGoneClient
  <2>2. ASSUME NEW fd \in Fds, HangUp(fd) PROVE NobodyMayKick'
    BY <2>2, ClosingKeepsLevels, DatabaseStays DEF HangUp
  <2>3. CASE Boot \/ AcceptFails \/ HandshakeFails \/ (\E ready : Select(ready))
             \/ \E fd \in Fds : Accept(fd)
    BY <1>1, <2>3 DEF Boot, AcceptFails, HandshakeFails, Select, Accept, memory
  <2> QED
    BY <1>2, <2>1, <2>2, <2>3 DEF Process
<1>3. ASSUME NEW fd \in Fds, UnauthHandler(fd) PROVE NobodyMayKick'
  <2>1. CASE UnauthDisconnect(fd)
    BY <2>1, ClosingKeepsLevels, DatabaseStays DEF UnauthDisconnect
  <2> QED
    BY <1>3, <2>1, LoginLevels, RegisterLevels DEF UnauthHandler
<1>4. ASSUME NEW fd \in Fds, AuthHandler(fd) PROVE NobodyMayKick'
  <2>1. ASSUME AuthPacket(fd, "MSG_CMD_KICK_ID"), is_allowed(clients[fd]) PROVE FALSE
    <3>1. clients[fd] \in DOMAIN users
      BY <2>1 DEF AuthPacket
    <3>2. users[clients[fd]].p_level \in PrivLevels
      BY <3>1 DEF IInv, TypeOK, ServerUserType
    <3> QED
      BY <2>1, <3>1, <3>2 DEF is_allowed, NobodyMayKick, KickLevel, PrivLevels
  <2>2. \A tid : ~Kick(fd, tid) /\ ~KickReadsFreedNode(fd, tid)
    BY <2>1 DEF Kick, KickReadsFreedNode, Kicks
  <2>3. CASE Disconnect(fd)
    BY <2>3, ClosingKeepsLevels, DatabaseStays DEF Disconnect
  <2>4. CASE Logout(fd)
    <3>1. clients[fd] \in DOMAIN users /\ LeaveUser(clients[fd], fd) /\ db' = db
      BY <2>4 DEF Logout, AuthPacket
    <3> QED
      BY <3>1, LeavingKeepsLevels, DatabaseStays
  <2>5. ASSUME NEW to \in Uids, RemoveFriend(fd, to) PROVE NobodyMayKick'
    <3>1. db \in Database /\ clients[fd] \in Uids
      BY <2>5, VisitTyped DEF RemoveFriend, AuthPacket, IInv, TypeOK
    <3>2. db'.privilege = db.privilege
      BY <2>5, <3>1, QueriesKeepPrivileges DEF RemoveFriend
    <3>3. LevelsStay
      BY <2>5 DEF RemoveFriend, memory, LevelsStay
    <3> QED
      BY <3>2, <3>3, DatabaseStays
  <2>6. ASSUME NEW name \in GroupNames, CreateGroup(fd, name) PROVE NobodyMayKick'
    <3>1. db \in Database /\ clients[fd] \in Uids
      BY <2>6, VisitTyped DEF CreateGroup, AuthPacket, IInv, TypeOK
    <3>2. db'.privilege = db.privilege
      BY <2>6, <3>1, QueriesKeepPrivileges DEF CreateGroup
    <3>3. LevelsStay
      BY <2>6 DEF CreateGroup, memory, LevelsStay
    <3> QED
      BY <3>2, <3>3, DatabaseStays
  <2>7. CASE Broadcast(fd) \/ Who(fd) \/ ListFriends(fd)
             \/ \E tid \in Uids : Whisper(fd, tid) \/ KickRefused(fd, tid)
    BY <1>1, <2>7 DEF Broadcast, Who, ListFriends, Whisper, KickRefused, memory
  <2> QED
    BY <1>4, <2>2, <2>3, <2>4, <2>5, <2>6, <2>7, AddFriendLevels, GrantLevels
       DEF AuthHandler
<1>5. ASSUME NEW fd \in Fds, DropPacket(fd) PROVE NobodyMayKick'
  BY <1>1, <1>5 DEF DropPacket, memory
<1>6. CASE UNCHANGED vars
  BY <1>1, <1>6 DEF vars
<1> QED
  BY <1>2, <1>3, <1>4, <1>5, <1>6 DEF Next

\* If nobody has the privilege to kick in the first database, and nobody is granted
\* it, nobody ever may, whichever queries fail: levels come from the rows only
\* (is_allowed, authorize_client, sql_ch_load_privileges).  Then every descriptor
\* the loop visits is a client or the listener, and the NULL of get_client_by_fd
\* (run kick_same_round) is out of reach.
THEOREM NoKickWithoutPrivilege ==
    ASSUME NobodyPrivileged
    PROVE  Spec => [](NobodyMayKick /\ ReadsExistingClients)
<1>1. Init => NobodyMayKick /\ ReadsExistingClients
  BY DEF Init, EmptyTree, NobodyMayKick, NobodyPrivileged, ReadsExistingClients
<1>2. IInv /\ [Next]_vars /\ NobodyMayKick => NobodyMayKick'
  BY NextLevels
<1>3. IInv /\ [Next]_vars /\ NobodyMayKick /\ ReadsExistingClients
         => ReadsExistingClients'
  <2>1. ASSUME IInv, NobodyMayKick, NEW fd \in Fds, NEW tid \in Uids, Kick(fd, tid)
        PROVE  FALSE
    <3>1. clients[fd] \in DOMAIN users /\ is_allowed(clients[fd])
      BY <2>1 DEF Kick, Kicks, AuthPacket
    <3>2. users[clients[fd]].p_level \in PrivLevels
      BY <2>1, <3>1 DEF IInv, TypeOK, ServerUserType
    <3> QED
      BY <2>1, <3>1, <3>2 DEF is_allowed, NobodyMayKick, KickLevel, PrivLevels
  <2> QED
    BY <2>1, NextCloses
<1> QED
  BY <1>1, <1>2, <1>3, Invariance, PTL DEF Spec

==============================================================================
