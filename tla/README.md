# vhIM in TLA+

vhIM is an instant messenger in C: a single-threaded server (`src/server`,
`src/sql`), a client with a console or GTK interface (`src/client`), and the
code they share (`src/network`, `src/utility`). This directory holds TLA+
modules translated from that code, TLC configurations that check them on small
instances, and proofs for TLAPS. Paths below are relative to the repository.

    tlc -config server_sessions.cfg MCServer.tla        # a run
    tlapm ServerProofs.tla                              # the proofs of a module

`PROJECT.json` lists the components, runs, the source lines of every definition,
the disagreements found between comments and code, and the hazards of the code
with the properties that cover them.

## 1. The system

| part | state it keeps | operations | called by |
|---|---|---|---|
| `server_ch.c`, `server_client.c` | `master`, `read_fds`, `fdmax`, `listener`, the tree `clients` (descriptor → `server_client` with the id of its user or -1) | start, select loop, accept and handshake, read, hang-up, disconnect, `server_ch_client_authed` | `server.c`; calls back on connect, packet, disconnect |
| `server.c` | the tree `users` (id → `server_user`) | one case per packet type, for clients that are logged in and clients that are not; senders to a connection, user, friends, everybody | `byteprocessor` through `cb_msg_rcv`, `server_ch` through `cb_cl_dc` |
| `server_user.c` | linked list of SSL objects and its length `con_len` | create, add, remove, destroy | `server.c` |
| `sql_ch.c` | MySQL tables `users`, `friends`, `friend_requests`, `groups` | one function per question; each opens a connection, runs 1–3 queries without a transaction, closes | `server.c` |
| `byteprocessor.c` | `rest_buffer`, owned by the reader | cut what `SSL_read` returns into packets | the read loops of both programs |
| `datapacket.c`, `byteconverter.c` | a packet: bytes, read and write position | set/get of int, string, raw; finish writes the length in front | both programs |
| `client_ch.c` | `sockfd`, `ssl`, `ctx` (globals) | start, send, listen, destroy | `client.c` |
| `client.c` | `is_connected`, `input_thread`, `arg_host`, callbacks | connect, disconnect, one function per command; `process_packet` on the listener thread | user interfaces |
| `client_ui_*.c`, `command_parser.c` | the input line | parse a command, call `client.c` | the user |
| `vstack.c`, `vistack.c`, `strings_helper.c` | stacks in arrays that double | push, pop, size; string helpers | `server.c`, `sql_ch.c`, `client.c`, `command_parser.c` |

What is hard about it, and what makes each part correct:

* **Server sessions.** A connection can leave its user by logout, by a
  disconnect packet, by hanging up or by being kicked, and a user can have
  several connections. Five structures must follow: `master`, the snapshot
  `read_fds`, `clients`, `users` and the connection lists. Correct means: they
  describe the same sessions; nothing is written through a freed SSL object;
  friends hear of each coming and going exactly once; the loop only reads from
  connections that exist; the server keeps accepting.
* **Friendship.** A friendship is two rows, a request one; they are written by
  separate queries, each of which may fail or be the last before a crash, and a
  failing query is often read as the answer "no". Correct means: symmetric,
  listed once, only by consent, no request left between friends, only between
  registered users, ended completely, and both told when it ends.
* **Framing.** TCP and TLS hand over pieces; several peers are read by one loop.
  Correct means: every packet reaches the callback whole, once, in order and
  under the right sender.
* **Client.** The thread that reads the user's lines and a listener thread per
  connection share the socket, the SSL object, its context and the host name;
  only a flag has a mutex. Either thread may end the session, and both may do it
  at once. Correct means: never two listeners; nothing is closed or freed that
  belongs to somebody else; descriptors come back; a session is one with the host
  named last; `/disconnect` returns and a listener whose server is gone ends.
* **Packets.** Writer and reader of a packet are in different programs and agree
  only by convention on its fields. Correct means: the buffer has grown before
  anything is written behind its end, the reader takes out what was put in, and
  lists survive the stacks on their way.

## 2. Modules

| module | models | built on |
|---|---|---|
| `SqlCh` | the tables and queries of `sql_ch.c` | |
| `ServerUser` | `server_user.c` | `SequencesExt` |
| `Presence` | what users may rely on about each other (abstract) | `Functions` |
| `Server` | `server_ch.c`, `server_client.c`, `server.c`; refines `Presence` | `SqlCh`, `ServerUser`, `INSTANCE Presence` |
| `Framing` | what `byteprocessor.h` promises (abstract) | |
| `ByteProcessor` | `bp_process_data` and the two read loops; refines `Framing` | `INSTANCE Framing` |
| `CommandParser` | `command_parser.c`, `execute_command` | |
| `Client` | `client.c`, `client_ch.c`, `process_input` | `CommandParser` |
| `Datapacket` | `datapacket.c`, `byteconverter.c`, `vstack.c` | `SequencesExt` |
| `Messages` | every packet of both programs, written and read | `CommandParser`, `Datapacket` |
| `MCServer`, `MCByteProcessor`, `MCClient`, `MCMessages` | values of the constants | |
| `ServerUserProofs` | proofs: the lists of connections | `ServerUser`, `TLAPS` |
| `ServerProofs` | proofs: types and sessions, the inductive invariant | `Server`, `ServerUserProofs` |
| `DatabaseProofs` | proofs: the tables, whatever fails and while queries succeed | `ServerProofs` |
| `StepProofs` | proofs: receivers, what a step may close, `Server` implements `Presence`, who may kick | `ServerProofs` |
| `ClientProofs` | proofs: the client's invariants | `Client`, `TLAPS` |
| `DatapacketProofs` | proofs: the buffer, ints and strings read back, stacks | `Datapacket`, `TLAPS` |
| `MessageProofs` | proofs: packets are read as they were written, lists arrive | `Messages`, `DatapacketProofs` |
| `FramingProofs` | proofs: packets that fit are delivered exactly | `ByteProcessor`, `TLAPS` |

### SqlCh

A table is a function from pairs to the number of rows that hold the pair (both
friend tables have an id column, so a row can occur twice). An operator with the
name of a C function takes the database and returns the *set of its outcomes*.
With `DbFails = FALSE` there is one; with `DbFails = TRUE` one more for each
query whose failure the function treats differently: nothing done, the first
INSERT done, both done, and so on, with the result code the `goto` leaves. Since
each query is committed on its own, a process that dies between two queries
leaves the tables in one of the same states.

`UidOf` is the row that `WHERE user = '<name>'` selects. MySQL's default
collation ignores case, while `map_username` compares with `strcmp`; `UidOf` is
therefore any function, injective or not. `ToUnsignedChar` is the conversion at
the parameter of `sql_ch_update_privileges`.

### Server

`server`, `listening`, `master`, `read_fds`, `clients`, `users` and `db` are the
state of the process and the database; `sent` is what the last handler wrote
(receiver, type and the user it names; texts are left out). An SSL object is
named by its descriptor.

The server has one thread. `Select` takes the snapshot, then each descriptor in
it is visited in ascending order, and one visit with its whole handler is one
action: `Accept`, `AcceptFails`, `HandshakeFails` for the listener, `HangUp` or
one packet for a client. Which descriptors are ready, which packets arrive and
with which arguments is left open, so clients may do anything. `Logout` and
`cb_cl_dc` share `LeaveUser`; `CloseClient` is `server_ch_client_disconnected`
with the clean-up that follows it at both of its call sites.

Undefined behaviour is a choice of outcomes. `ReadGoneClient` is the dereference
of the `NULL` that `get_client_by_fd` returns: the process ends. In the kick
loop `c->next` is read after `c` has been freed: the loop may go on (the old
pointer is still there), end after any of the connections (it reads as `NULL`)
or fault (`Kick`, `KickReadsFreedNode`).

`Halt` ends the process between visits at any time, and `Boot` starts it again
with empty trees and the same database. Bounds: `Fds` (open connections),
`MaxRows` (rows of `friends` for a pair; a guard of `AddFriend`; the code cannot
exceed 1 unless queries fail, which `FriendsOnce` checks with `MaxRows = 2`).

`Presence` is the abstract specification of the part users notice. Its state is
who is logged in on which connection, who is whose friend, and the notices of
the last step; a connection comes, some connections of one user leave,
friendships change, or the server ends. It says in one line (`Announced`) what
the code spreads over `con_len`, two call sites and two senders: a user who is
online after the step and was not before is announced to all connections of its
friends, and the other way round. The refinement mapping takes the logged-in
part of the tree `clients` for the connections, and the rows of `friends` for
the friends; the tree `users`, its lists and its counters are not part of it,
so the refinement fails as soon as they drift from `clients`.

### Framing and ByteProcessor

`Framing` is the promise: per socket, what is sent is received, whole, once and
in order, and eventually. `ByteProcessor` has the kernel's records, the bytes
`SSL_read` has kept back, and the two readers (`SelectsFirst` tells the server's,
which calls `select()` before each read and therefore does not see kept-back
bytes, from the client's). One action is one turn of the loop of
`bp_process_data`. A byte is named by the packet and the position it comes from.
`total_data` is an array of *pointers* to bytes, so the offsets that are added to
it count `Stride` = 8 bytes each: `TotalData(i)` says which byte is really found
at place `i`, and a gap that was never written is `Garbage`. A length that is
read from bytes other than a header may be anything in `GarbageSizes`.
`rest_buffer` that takes more than it holds makes the reader "corrupt", after
which nothing is claimed. The refinement mapping turns the bytes a callback got
into the packet they are, if they are one.

`BufSize` is 12 instead of 1024, so that packets of 8 and 12 bytes fit and 16 and
28 do not (28 needs three reads); the header is 4 bytes and the stride 8 as in
the code. Bounds: `MaxPackets` per socket, `MaxCallbacks` (garbage lengths of 0
let the loop call back for ever). The runs of this module set
`CHECK_DEADLOCK FALSE`: once the peers have sent `MaxPackets` everything rests,
and a corrupt or stopped reader does nothing.

### CommandParser and Client

A line is the sequence of its words, cut by `next_word`. `process_command` gives
the call a line leads to, `execute_command` what that call comes to: a packet
with its fields, connect, disconnect, or nothing. `FreesGarbage` are the lines
whose words run out while `/grant` still has a pointer it has not set.

In `Client` one action is what a thread does between two points at which the
other thread can see it; `ui` and `pc` are the program counters. The n-th
listener thread, its socket, its context and its SSL object all have the number
n. `open` is the descriptor table (which session's socket a number is), so that
a `close(sockfd)` that comes late hits whatever has the number by then;
`refs` counts the references to each context (`SSL_CTX_new` makes one, `SSL_new`
adds one). `client_ch_send` writes to the SSL object created last, wherever its
thread is:

| situation | outcomes |
|---|---|
| there is none yet | the process ends (`SSL_write` dereferences `NULL`) |
| its descriptor is closed | an error, not seen |
| its listener is in `SSL_connect` | lost, delivered, the handshake breaks, or the process ends |
| the session is established | delivered |
| the server has closed | lost, or SIGPIPE |
| the descriptor is another session's socket | that session's handshake breaks, or SIGPIPE |

A context that is freed for good may still look alive or end the process
(`SSL_CTX_free`, `NewSsl`). Assumed of OpenSSL and the system: one thread may
write while another reads on an *established* SSL object; an established SSL
object does not look at its context; `close()` does not wake a thread that is
blocked in a read of the descriptor; a new descriptor is the lowest free number.

The host passed to `/connect` stays in `arg_host`, so a later `/connect` without
one goes there and not to the host of the command line. The port is left out:
`execute_command` always passes one. Bounds: `MaxSessions` (threads created),
`Fds` (descriptors).

**Fairness** (`client_threads`, `disconnect_hangs`). `WF` of the interface
thread's steps and of each listener's: threads are scheduled and `connect()`
comes to an end. `WF` of the server closing a connection it has read a
`MSG_DISCONNECT` from (`server.c:204`, `:346`). The user need not type; the
server need not answer a handshake, send, or ever close otherwise. That it closes
leaves out two situations on the server's side: a user who is online only under
another spelling, whose packets `server.c:369` drops (`DropPacket`), and a server
that is blocked in `SSL_accept` or `SSL_read` of another peer. In both a
`/disconnect` waits for as long as they last.

### Datapacket and Messages

A datapacket is the memory written so far (offset → byte), the position and the
size allocated. A byte of an int has its value; a byte of a string is named by
the string and the place, so that strings need no alphabet and still every byte
has to come from where it should. `datapacket_verify_size` computes the growth
the loop arrives at. `vstack` is a sequence and a capacity.

`Messages` takes one packet at a time from the side that means it to the
handler on the other side: a command, any other line (`Saying`, a broadcast),
the `MSG_DISCONNECT` of `client_disconnect`, an answer or notice of the server,
or the lists of `MSG_WHO` and `MSG_FRIENDS`. One action writes or reads one field. `ServerReads`
and `ClientReads` are what each `case` reads, with the early returns: a handler
may read less when the sender is not logged in or not allowed. A read for which
the bytes are not there is `GetGarbage`, after which nothing is claimed about
this packet. The server's three stacks (`set_friends_online`) and the client's
(`process_packet`, popped by `cb_who` and `cb_friends`) are gone through with
`Pushed` and `Popped`; `Sorted` is the loop that moves the friends from one stack
to two others, `InOrder` the infix walk over the tree of users.

## 3. Runs

| run | instance | shows |
|---|---|---|
| `server_sessions` | 3 users, everybody Alice's friend, 4 descriptors, Alice may kick | `SessionsAgree`, `SelectsClients`, `OnlyKicksCloseUnvisited`, `WritesToOpenConnections`, `BroadcastReachesOthers`, `ImplementsPresence` |
| `server_friends` | 2 users who register, befriend each other and part, grants of 8, 264 and -1, groups | `TypeOK`, `FriendsSymmetric`, `FriendsOnce`, `NoRequestBetweenFriends`, `RemovalIsComplete`, while queries succeed |
| `server_db_failures` | 2 rows, 3 spellings, 3 descriptors, any packet, failing queries | `RequestsOneWay`, `RowsOfUsers`, `FriendshipIsConsented`, `OneSidedOnlyByAnswer` hold whatever fails; `ConnectionOpen`, `ConnectionsCounted`, `WritesToOpenConnections` even when one row is online under two spellings |
| `framing` | 2 peers, packets that fit, fairness | `ImplementsFraming` |
| `framing_split` | 2 peers, packets of 8, 16 and 28 bytes | `ExactUntilSplit`: the faults are confined to packets that do not fit |
| `client_threads` | 2 sessions, 2 free descriptors, every failure, fairness | `ClientTypeOK`, `OneListener`, `TerminalStaysOpen`, `OnlyUnreachedLeak`, `ContextHeld`, `ConnectedWhereAsked`; `HangUpEndsListener`, `EstablishedIsJoined` |
| `messages` | every command, notice and list over 4 users | `FitsBuffer`, `ReadsWhatWasWritten`, `ListsArrive` |
| `kick_same_round` | | **violated** `ReadsExistingClients` |
| `failed_handshake` | | **violated** `ListenerStaysOpen` |
| `loss_not_notified` | | **violated** `LossIsNotified` |
| `split_packet` | client's reader, 8 and 16 bytes | **violated** `CallbacksGetWholePackets` |
| `disconnect_hangs` | 2 sessions, fairness | **violated** `DisconnectReturns` |

The five violations are disagreements between a comment and the code; each is
quoted under "findings" in `PROJECT.json`. More statements of comments hold only
in part, and the models show where:

* While queries fail, `FriendsSymmetric` is lost when the second INSERT of
  `sql_ch_create_friends` fails (comment at `src/sql/sql_ch.c:397`), and
  `RemovalIsComplete` when a request whose clean-up failed outlives the
  friendship (`src/sql/sql_ch.h:143`). This is why `server_friends` has
  `DbFails = FALSE`: its four properties say nothing of partial failures. What
  is true of those is `OneSidedOnlyByAnswer` (`server_db_failures`): the one way
  to a one-sided friendship is an answer cut short between the two INSERTs, with
  the request still there to be answered again; a removal takes both sides or
  none. A second row of the same friend is possible after a failure.
* "kick all connections of this user" (`server.c:128`): the loop reads the
  `next` of a node that has been freed, and `Kick` may end early. The
  properties above hold however it ends; that the freed node is read is in the
  actions, and none of the properties is meant to forbid it.
* "per-socket buffers" (`byteprocessor.h:13`): the server has one `rest_buffer`
  for all, and an unfinished packet of one client is followed by the data of
  another. `ExactUntilSplit` says that this takes a packet that does not fit;
  of what happens after that (foreign bytes, an overflow of `rest_buffer`) the
  models have the steps, and no property but `CallbacksGetWholePackets`, which
  is violated, says anything.
* "check if connected to a server" (`client_ui_cons.c:235`): the flag is set
  before the connection is there, and `SendText` may find no SSL object.
* A successful registration also reads the string of a failed one, behind the end
  of the packet (`client.c:92`, no `break`); `ReadsWhatWasWritten` leaves this one
  type out of its first conjunct, and shows that it is the only one.

Why the instances are large enough. Sessions: a user needs two connections for
counting to go wrong, another user for announcements and kicks, a third to tell
friends from others, and four descriptors let two users have two each, or one
have three. Friendship: a pair is all that the tables relate; the bound of two
rows lets a duplicate happen. Framing: two peers and two packets each let
every split packet be followed by one of the same and of the other peer. Client:
what can go wrong takes an old session and a new one, and two descriptors besides
the terminal let the new one get the old one's number or another; the
invariants are proved for any number. Messages: `PACKET_SIZE` is the real 32, and
the strings are as long as leaves exactly no byte, exactly one byte, or needs
two steps of growth (18, 19, 70); ids use all four bytes of an int; the stacks
start with 2 places instead of 8 so that lists of up to four users make them
grow.

Only `SessionListed` and `ImplementsPresence` need names to select rows one to
one. With folding, a second login under another spelling creates a second
`server_user` with the same id, which the tree refuses to insert: that
connection counts as logged in but is in no list, receives nothing, and its
packets are handled only while the first spelling stays online (`DropPacket`).

**Fairness** of `framing`. `SF` of a read: `select()` reports every
socket that is readable and the loop visits all that were reported, so a socket
that is readable again and again is read, however busy the others are. `WF` of
`ProcessData`: the loop of `bp_process_data` runs without waiting for anybody.
Peers are not obliged to send. `SSL_read` is taken to return at once when the
socket is readable, i.e. whole records arrive; a peer that stops inside a record
blocks the server (a hazard listed without a property). The client's is in
section 2.

## 4. Proofs

For every number of users, descriptors, names, sessions and packets, with or
without failing queries, kicks included:

| theorem | states |
|---|---|
| `Invariance` | `Spec => []IInv` |
| `TypeCorrect` | `Spec => []TypeOK` |
| `ListsHoldOpenConnections`, `ListsAreCounted` | `Spec => []ConnectionOpen`, `Spec => []ConnectionsCounted` |
| `MasterIsClients` | `Spec => []SelectsClients` |
| `TreesAgree` | `Spec => []SessionsAgree`, if names select rows one to one |
| `RequestsStayOneWay`, `RowsBelongToUsers` | `Spec => []RequestsOneWay`, `Spec => []RowsOfUsers`, if they hold of the first database |
| `Consent`, `OneSideIsAnAnswer` | `Spec => FriendshipIsConsented`, `Spec => OneSidedOnlyByAnswer`, under the same assumption |
| `FriendshipIsMutual`, `FriendshipIsOneRow`, `FriendsHaveNoRequests`, `NothingIsLeft` | `FriendsSymmetric`, `FriendsOnce`, `NoRequestBetweenFriends`, `RemovalIsComplete`, if queries succeed and the first database is sound |
| `WritesOnlyToOpen` | `Spec => WritesToOpenConnections` |
| `OnlyKicksClose` | `Spec => OnlyKicksCloseUnvisited` |
| `RoundsWithoutKicks` | `[]ReadsExistingClients` of every behaviour in which nobody is kicked |
| `NoKickWithoutPrivilege` | `Spec => []ReadsExistingClients`, if nobody has the privilege to kick at first and none is granted |
| `BroadcastReaches` | `Spec => BroadcastReachesOthers`, if names select rows one to one |
| `PresenceImplemented` | `Spec => ImplementsPresence`, if names select rows one to one and queries succeed |
| `ClientInvariance` | `Spec => []ClientInv` |
| `ClientTypeCorrect`, `OnlyOneListener`, `TerminalIsNeverClosed`, `DescriptorsComeBack`, `ContextIsHeld`, `ConnectedToTheHostNamed` | `ClientTypeOK`, `OneListener`, `TerminalStaysOpen`, `OnlyUnreachedLeak`, `ContextHeld`, `ConnectedWhereAsked` |
| `MessagesMeant` | `Spec => []MessageInv` |
| `PacketsFit`, `FieldsArrive`, `UsersArrive` | `Spec => []FitsBuffer`, `Spec => []ReadsWhatWasWritten`, `Spec => []ListsArrive` |
| `IntsReadBack`, `StringsReadBack` | the getter returns what the setter wrote at that place, and nothing written before is touched |
| `StacksGiveBack`, `SortedAll`, `InOrderLists` | the stacks, `set_friends_online` and the walk over the users lose no element and repeat none |
| `DeliveryIsExact` | `Spec => []ExactUntilSplit` |
| `WholePacketsIfTheyFit` | `Spec => []CallbacksGetWholePackets`, if every packet fits into `data_buffer` |
| `ReaderTakesFramingSteps` | the steps of `ByteProcessor` are steps of `Framing`, if every packet fits |

**Server.** `IInv` is `TypeOK`, `ConnectionOpen`, `ConnectionsCounted`,
`SelectsClients` and `DownIsEmpty` (a process that is down has no tables).
`ConnectionOpen` alone is not inductive: closing a connection removes the *first*
node with it from *its own* user's list, so it must be known that no other user
lists it (`ConnectionOpen` for the others) and that it is not listed twice
(`ConnectionsCounted`). `TreesAgree` adds `SessionListed` and the fact that a user
is online under the name that selects it; `NamesAreExact` is needed there and in
the two theorems that rest on it, `BroadcastReaches` and `PresenceImplemented`.

The proof has one lemma per group of actions. The list operations are proved
about once, in `ServerUserProofs` (`AddConnection`, `RemoveConnection`,
`SuffixOfList` for the kick loop): they keep the length counted and the list
without repetition and add or remove exactly one connection.

**Database.** `DatabaseProofs` adds `DbInv`: `RequestsOneWay` and `RowsOfUsers` of
the tables, and that everybody online, or whom a client belongs to, has a row in
`users`. The last part is why `RowsOfUsers` holds although `server.c` checks only
the *target* of a request: the sender logged in, so it has a row, and no query
deletes rows of `users`. `Consent` looks at the outcomes of
`sql_ch_create_friends`: whatever fails in it, the new rows join the two users,
and it is only called when the request of the other was found.
`OneSideIsAnAnswer` looks at them once more (`FriendsOneSided`): only the outcome
in which the second INSERT failed is one-sided, it has the answering user's row,
and the DELETE of the request comes later. The second half
of the module, where queries succeed, adds `FriendTables`: a pair has at most one
row, and with it the opposite row and no request. It holds because accepting
deletes the requests of both directions, and because `AddFriend` asks
`sql_ch_are_friends` before anything is inserted.

**Steps.** `StepProofs` needs one more invariant, that a process that is down has
written nothing, since `Boot` leaves `sent` alone. `WritesOnlyToOpen` follows from
`ConnectionOpen` for the lists each sender goes through, which are those before,
during or after the change of the tree; `OnlyKicksClose` from `SelectsClients`,
which says that a round starts with existing clients, and from every handler but
the kick closing only the descriptor being visited.

The run `kick_same_round` violates `ReadsExistingClients`. Two theorems say that
kicks are the only reason. `RoundsWithoutKicks` has the absence of kicks as its
hypothesis. `NoKickWithoutPrivilege` derives it from the data: `NobodyMayKick`
(every row and every user online is below `KickLevel`) is kept by every handler,
since a `server_user` takes its level from the row it logs in with or gets 0 when
the query fails, and rows only change by `/grant` (after the cut to 8 bits) or a
registration. Its hypothesis holds, for
instance, of a server that starts with the empty database (`NobodyRegistered`;
a registration sets the level to 0) while nobody types `/grant` with a level of
`KickLevel` or more.

**Refinement.** `StepProofs` also shows that initial states map to initial states
and that every step of `Server` maps to one of `Presence` or to a stutter. The
key is `SessionsMapped`: by `IInv` and `SessionListed` the tree `users` and the
mapped function from connections to users have the same content, so "`con_len`
was 1 after the login" and "the list is empty after the removal" are "was not
online before" and "is not online after", and the receivers `send_to_friends`
collects are the mapped connections of the mapped friends.

**Client.** `ClientInv` says first that the flag is set exactly while there is a
listener, except around `StartFlag` and while the main thread waits in `Join`
(`Threads`, `Flag`): since `StartFlag` comes after a join or with no listener
left, two never run. All other parts follow from the globals then being those of
that one thread. `Sockets`: an open descriptor of a session that has its socket
is `sockfd`. `Contexts`: `ctx` is the running thread's and nobody has freed it
before the main thread is at `stop_flag`. `Terminal`: while `sockfd` is 0 there
has been no SSL object either, so `StopSend` ends the process before `StopClose`
could close descriptor 0, which is how the code comes by `TerminalStaysOpen`.

**Framing.** A property of the form "until the first split packet" is not
inductive, since it says nothing about what the reader holds. `ReaderInv` is
`Streams` (the kernel holds, of each socket, the packets written last, whatever
the reader makes of the others) and `NoSplit => Exact`: as long as no packet was
split nothing is kept anywhere (`pending`, `rest_buffer`), what is at hand is
the last packet that was read, and the callbacks got all the packets before it.
`NoSplit` can become false but never true again, so a step that ends in it also
began in it and only `Exact` has to be carried over. The two other theorems
follow, as `EveryPacketFits` implies `NoSplit`. The proofs leave the header,
the buffers, the stride and the kind of read loop open.

**Packets.** `DatapacketProofs` is about the operators. `datapacket_verify_size`
leaves more free bytes than asked for whatever `PACKET_SIZE` is, so every write
stays within the buffer (`Packed`) and leaves the bytes before it alone (`Keeps`).
`IntsReadBack` is arithmetic of four bytes and a sign; `StringsReadBack` finds the
string by its length, its bytes and its final 0.

`MessageProofs` proves `MessageInv`, which ties the two ends of a packet together.
While it is written (`Writing`), the fields written so far lie one behind the
other in the buffer (`Laid`) and `todo` is the rest of the message. While it is
read (`Reading`), `got` is a prefix of the message, the position is where the next
field lies, and `Awaits` says that the kinds still wanted are those of the fields
to come: field for field, or, in a list, the rest of the pairs the count
announced and then the other lists. `ReadsWhatWasWritten` alone is not inductive:
it knows nothing of the bytes. That a message has the fields its `case` reads
(`Meant`) is a lemma for each sender: commands (`TypedMeant`), other lines
(`SaidMeant`), `client_disconnect` (`LeavingMeant`), the answers and notices of
the server (`NoticeMeant`), and the two messages with lists (`WhoMeant`,
`FriendsMeant`). `MSG_REGISTR_SUCCESSFUL` is the one message whose reader waits
for a field too many (`Over`); the invariant shows that an undefined read happens
with no other type.

The stacks and lists are folds of the community modules. The library's induction
theorems cannot be used here (they take an operator as a parameter), so the
folds are unfolded once (`SetInduction`, `PrefixInduction`) by a set of
counterexamples that has a least element, which the theorems on well-founded
relations give for sets rather than operators.

Assumptions: those named in `SqlCh`, `Server`, `ByteProcessor`, `Client`,
`Datapacket` and `Messages` (ids are positive and fit into an int, descriptors are
naturals above the listener's, privilege levels in packets are any integers,
`UidOf` is a function, the initial database has
its type, sizes, lengths and bounds are naturals, a packet is at least its
header, an int fits into `PACKET_SIZE`, a stack starts with at least one place,
the length of a string and what `atoi` returns fit into an int, names, texts and
the words of a line are strings). TLC evaluates them in every run.

Only model-checked: liveness (`HangUpEndsListener`, `EstablishedIsJoined`, and
delivery in `ImplementsFraming`), which is out of the proof system's reach, as is
`ENABLED`. Every invariant and every action property of the passing runs is a
theorem.

## 5. Not modelled, and why

* The GTK interface: its start prints a line and exits, and the callbacks it
  would install are `NULL`. Of the console, the callbacks that only print, and
  `read_line`, which at the end of the input returns empty lines for ever.
* TLS set-up and certificates, `src/test.c`, and what only `test.c` calls
  (`vistack.c`, the accessors of bool and long, `datapacket_dump`).
* Text: passwords, hashes, SQL strings, fixed-size buffers (`query`, `name[64]`,
  `arg_host`), message wording.
* Time: a handler is one step; blocking in `SSL_accept`, `SSL_read` or MySQL
  is not visible.
* One read holds one packet in `Server`: what happens when `bp_process_data`
  calls back several times for one read is in `ByteProcessor`, not composed with
  the handlers.
* Handles of MySQL that error paths of `sql_ch_check_user_auth` leave open, and
  descriptors beyond `FD_SETSIZE`.
* Threads that end by themselves are never joined; their stacks are not counted.

## 6. Plan

1. Compose the reader of `ByteProcessor` with the handlers of `Server`: several
   packets in one read, of which the first disconnects their sender.
2. Count the handles of `sql_ch.c`, with its error paths.
3. Compose `Messages` with `Server`, so that the fields of a packet are those its
   handler uses.
