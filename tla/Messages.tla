------------------------------- MODULE Messages -------------------------------
(***************************************************************************)
(* A packet from the side that means it to the function of the other side  *)
(* it ends in: cl_exec_* (client.c) and handle_packet_* (server.c) one     *)
(* way, the senders of server.c and process_packet (client.c) the other.   *)
(*                                                                         *)
(* An action writes or reads one field.  How packets are cut out of the    *)
(* stream is ByteProcessor's subject; here the receiver gets the bytes     *)
(* that were written.                                                      *)
(***************************************************************************)
EXTENDS CommandParser, Datapacket

CONSTANTS
    Lines,      \* commands the user types
    Uids,       \* ids of users
    username,   \* the name of each user
    Texts       \* what users write, and the server's own phrases

ASSUME LinesAssumption == Lines \subseteq Seq(Strings)
ASSUME UidsAssumption == Uids \subseteq 1 .. INT_MAX
ASSUME AtoiAssumption == \A word \in DOMAIN atoi : atoi[word] \in Ints
ASSUME NamesAssumption == username \in [Uids -> Strings] /\ Texts \subseteq Strings

VARIABLES
    stage,     \* "idle", "write", "read", "handled" or "undefined"
    message,   \* what is sent: [to, type, fields]
    lists,     \* the sets of users a message lists
    dp,        \* the datapacket, of the writer and then of the reader
    todo,      \* fields still to be written
    wants,     \* kinds of the fields still to be read
    got        \* fields read

vars == <<stage, message, lists, dp, todo, wants, got>>

------------------------------------------------------------------------------
(* messagetypes.h *)

Code ==
    [MSG_REQ_REGISTER |-> 2,  MSG_REQ_LOGIN |-> 3,     MSG_WELCOME |-> 4,
     MSG_AUTH_FAILED |-> 5,   MSG_BROADCAST |-> 6,     MSG_WHISPER |-> 7,
     MSG_REGISTR_SUCCESSFUL |-> 8, MSG_REGISTR_FAILED |-> 9, MSG_LOGOUT |-> 10,
     MSG_WHO |-> 11,          MSG_DISCONNECT |-> 12,   MSG_GRANT_PRIVILEGES |-> 13,
     MSG_ADD_FRIEND |-> 14,   MSG_SYSTEM_MSG |-> 15,   MSG_FRIENDS |-> 16,
     MSG_REMOVE_FRIEND |-> 17, MSG_FRIEND_ONLINE |-> 18, MSG_FRIEND_OFFLINE |-> 19,
     MSG_CMD_KICK_ID |-> 20,  MSG_GROUP_CREATE |-> 21]

------------------------------------------------------------------------------
(* What is sent *)

NoMessage == [to |-> "none", type |-> "none", fields |-> <<>>]
NoPacket == [data |-> [k \in {} |-> Byte(0)], index |-> 0, buf_size |-> 0]

ToServer(type, fields) == [to |-> "server", type |-> type, fields |-> fields]
ToClient(type, fields) == [to |-> "client", type |-> type, fields |-> fields]

\* The packet of a command, the one of any other line, and the one
\* client_disconnect sends.
Typed(line) == ToServer(Executes(line).type, Executes(line).fields)
Said(text) == ToServer("MSG_BROADCAST", <<String(text)>>)
Leaving == ToServer("MSG_DISCONNECT", <<>>)

\* Every answer and notice of server.c that has a fixed number of fields.
\* MSG_REMOVE_FRIEND is none of them: its condition is never met.  A failed
\* login is answered with a SQLV_ code.
Results == {2, 3, 4}
Notices ==
    (UNION {{ToClient("MSG_WELCOME", <<String(text)>>),
             ToClient("MSG_SYSTEM_MSG", <<String(text)>>),
             ToClient("MSG_REGISTR_SUCCESSFUL", <<String(text)>>),
             ToClient("MSG_REGISTR_FAILED", <<String(text)>>)} : text \in Texts})
    \union {ToClient("MSG_AUTH_FAILED", <<String(text), Int32(res)>>) :
                text \in Texts, res \in Results}
    \union {ToClient("MSG_BROADCAST", <<String(username[u]), String(text)>>) :
                u \in Uids, text \in Texts}
    \union {ToClient("MSG_FRIEND_ONLINE", <<Int32(u), String(username[u])>>) : u \in Uids}
    \union {ToClient("MSG_FRIEND_OFFLINE", <<Int32(u)>>) : u \in Uids}

\* A list of users: how many, and the id and the name of each.
ListFields(uids) ==
    <<Int32(Len(uids))>>
        \o FlattenSeq([i \in DOMAIN uids |-> <<Int32(uids[i]), String(username[uids[i]])>>])

\* write_usernames_to_dp goes through the tree in the order of the ids.
InOrder(uids) ==
    CHOOSE s \in [1 .. Cardinality(uids) -> uids] :
        \A i, j \in DOMAIN s : i < j => s[i] < s[j]
Who(online) == ToClient("MSG_WHO", ListFields(InOrder(online)))

\* set_friends_online: from the stack of the database's answer to two others,
\* and from each stack into the packet.
Sorted(friends, online) ==
    LET push(stacks, u) ==
            IF u \in online THEN [stacks EXCEPT !.on = vstack_push(@, u)]
            ELSE [stacks EXCEPT !.off = vstack_push(@, u)]
    IN  FoldLeft(push, [on |-> vstack_create, off |-> vstack_create],
                 Popped(Pushed(friends)))

set_friends_online(friends, online, requests) ==
    LET stacks == Sorted(friends, online)
    IN  ToClient("MSG_FRIENDS", ListFields(Popped(stacks.on))
                                \o ListFields(Popped(stacks.off))
                                \o ListFields(Popped(Pushed(requests))))

------------------------------------------------------------------------------
(* Writing *)

Begin(m, sets) ==
    /\ stage = "idle"
    /\ stage' = "write"
    /\ message' = m
    /\ lists' = sets
    /\ dp' = datapacket_create(Code[m.type])
    /\ todo' = m.fields
    /\ wants' = <<>>
    /\ got' = <<>>

Command(line) == Executes(line).does = "send" /\ Begin(Typed(line), <<>>)
Saying(text) == Begin(Said(text), <<>>)
Disconnecting(line) ==
    Executes(line).does \in {"connect", "disconnect"} /\ Begin(Leaving, <<>>)
Notice(m) == Begin(m, <<>>)
AnswerWho(online) == Begin(Who(online), <<online>>)
AnswerFriends(friends, online, requests) ==
    Begin(set_friends_online(SetToSeq(friends), online, SetToSeq(requests)),
          <<friends \intersect online, friends \ online, requests>>)

SetInt ==
    /\ stage = "write"
    /\ todo # <<>>
    /\ Head(todo).is = "int"
    /\ dp' = datapacket_set_int(dp, Head(todo).value)
    /\ todo' = Tail(todo)
    /\ UNCHANGED <<stage, message, lists, wants, got>>

SetString(s) ==
    /\ stage = "write"
    /\ todo # <<>>
    /\ Head(todo) = String(s)
    /\ dp' = datapacket_set_string(dp, s)
    /\ todo' = Tail(todo)
    /\ UNCHANGED <<stage, message, lists, wants, got>>

------------------------------------------------------------------------------
(* Reading *)

\* What a handler of the server reads.  It may read less: the packet comes from
\* a client that has (not) logged in, the user may not kick, the target of a
\* whisper is gone.
ServerReads ==
    [MSG_REQ_REGISTER |-> {<<"string", "string">>, <<>>},
     MSG_REQ_LOGIN |-> {<<"string", "string">>, <<>>},
     MSG_BROADCAST |-> {<<"string">>, <<>>},
     MSG_WHISPER |-> {<<"int", "string">>, <<"int">>, <<>>},
     MSG_CMD_KICK_ID |-> {<<"int">>, <<>>},
     MSG_GRANT_PRIVILEGES |-> {<<"int", "int">>, <<>>},
     MSG_ADD_FRIEND |-> {<<"int">>, <<>>},
     MSG_REMOVE_FRIEND |-> {<<"int">>, <<>>},
     MSG_GROUP_CREATE |-> {<<"string">>, <<>>},
     MSG_LOGOUT |-> {<<>>}, MSG_WHO |-> {<<>>}, MSG_FRIENDS |-> {<<>>},
     MSG_DISCONNECT |-> {<<>>}]

\* What process_packet of the client reads.  There is no break behind
\* MSG_REGISTR_SUCCESSFUL: the string of MSG_REGISTR_FAILED is read, too.
ClientReads ==
    [MSG_WELCOME |-> {<<"string">>},
     MSG_AUTH_FAILED |-> {<<"string", "int">>},
     MSG_BROADCAST |-> {<<"string", "string">>},
     MSG_SYSTEM_MSG |-> {<<"string">>},
     MSG_REGISTR_SUCCESSFUL |-> {<<"string", "string">>},
     MSG_REGISTR_FAILED |-> {<<"string">>},
     MSG_WHO |-> {<<"list">>},
     MSG_FRIENDS |-> {<<"list", "list", "list">>},
     MSG_REMOVE_FRIEND |-> {<<"int">>},
     MSG_FRIEND_ONLINE |-> {<<"int", "string">>},
     MSG_FRIEND_OFFLINE |-> {<<"int">>}]

\* The packet arrives, and the switch looks at its type.
Receive ==
    /\ stage = "write"
    /\ todo = <<>>
    /\ LET size == dp.index
           in   == datapacket_create_from_data(datapacket_finish(dp).data, size)
           type == CHOOSE t \in DOMAIN Code : Code[t] = datapacket_get_int(in)
           reads == IF message.to = "server" THEN ServerReads[type] ELSE ClientReads[type]
       IN  /\ dp' = Skip(in, SizeofInt)
           /\ wants' \in reads
    /\ stage' = "read"
    /\ UNCHANGED <<message, lists, todo, got>>

GetInt ==
    /\ stage = "read" /\ wants # <<>> /\ Head(wants) = "int"
    /\ HasInt(dp)
    /\ got' = Append(got, Int32(datapacket_get_int(dp)))
    /\ wants' = Tail(wants)
    /\ dp' = Skip(dp, SizeofInt)
    /\ UNCHANGED <<stage, message, lists, todo>>

GetString_keeps_NUL ==   \* mutant
    /\ stage = "read" /\ wants # <<>> /\ Head(wants) = "string"
    /\ HasString(dp)
    /\ got' = Append(got, String(datapacket_get_string(dp)))
    /\ wants' = Tail(wants)
    /\ dp' = Skip(dp, SizeofInt + datapacket_get_int(dp))
    /\ UNCHANGED <<stage, message, lists, todo>>

GetString ==
    /\ stage = "read" /\ wants # <<>> /\ Head(wants) = "string"
    /\ HasString(dp)
    /\ got' = Append(got, String(datapacket_get_string(dp)))
    /\ wants' = Tail(wants)
    /\ dp' = Skip(dp, SizeofInt + datapacket_get_int(dp) + 1)
    /\ UNCHANGED <<stage, message, lists, todo>>

\* The loop of a list: as many pairs as its first int says.
GetCount ==
    /\ stage = "read" /\ wants # <<>> /\ Head(wants) = "list"
    /\ HasInt(dp)
    /\ LET count == datapacket_get_int(dp)
       IN  /\ got' = Append(got, Int32(count))
           /\ wants' = FlattenSeq([i \in 1 .. count |-> <<"int", "string">>]) \o Tail(wants)
    /\ dp' = Skip(dp, SizeofInt)
    /\ UNCHANGED <<stage, message, lists, todo>>

\* Bytes that are behind the packet, or no such field: anything may happen.
GetGarbage ==
    /\ stage = "read" /\ wants # <<>>
    /\ IF Head(wants) = "string" THEN ~HasString(dp) ELSE ~HasInt(dp)
    /\ stage' = "undefined"
    /\ UNCHANGED <<message, lists, dp, todo, wants, got>>

Handled ==
    /\ stage = "read" /\ wants = <<>>
    /\ stage' = "handled"
    /\ UNCHANGED <<message, lists, dp, todo, wants, got>>

\* datapacket_destroy; after an undefined read, if the program still runs.
Destroy ==
    /\ stage \in {"handled", "undefined"}
    /\ stage' = "idle"
    /\ message' = NoMessage
    /\ dp' = NoPacket
    /\ lists' = <<>> /\ todo' = <<>> /\ wants' = <<>> /\ got' = <<>>

Init ==
    /\ stage = "idle"
    /\ message = NoMessage
    /\ dp = NoPacket
    /\ lists = <<>> /\ todo = <<>> /\ wants = <<>> /\ got = <<>>

Next ==
    \/ \E line \in Lines : Command(line) \/ Disconnecting(line)
    \/ \E text \in Texts : Saying(text)
    \/ \E m \in Notices : Notice(m)
    \/ \E online \in SUBSET Uids : AnswerWho(online)
    \/ \E friends, online, requests \in SUBSET Uids : AnswerFriends(friends, online, requests)
    \/ SetInt \/ \E s \in Strings : SetString(s)
    \/ Receive \/ GetInt \/ GetString \/ GetCount \/ GetGarbage \/ Handled
    \/ Destroy

Spec == Init /\ [][Next]_vars

------------------------------------------------------------------------------
(* What the callbacks show: process_packet pushes the users of a list, and *)
(* cb_who and cb_friends pop them.                                         *)

ListAt(start) ==
    Popped(Pushed([i \in 1 .. got[start].value |->
                      <<got[start + 2 * i - 1].value, got[start + 2 * i].value>>]))

After(start) == start + 1 + 2 * got[start].value

ListsShown ==
    IF message.to = "client" /\ message.type = "MSG_WHO" THEN <<ListAt(1)>>
    ELSE IF message.to = "client" /\ message.type = "MSG_FRIENDS"
    THEN <<ListAt(1), ListAt(After(1)), ListAt(After(After(1)))>>
    ELSE <<>>

------------------------------------------------------------------------------
(* Properties *)

\* Whatever is written, and however often the buffer grew, every byte went into
\* memory that was allocated (datapacket.c:28-40, with its assertion).
FitsBuffer ==
    stage = "write" =>
        /\ dp.index <= dp.buf_size
        /\ DOMAIN dp.data \subseteq 0 .. dp.buf_size - 1

\* Each side reads the fields the other side wrote, in their order and as what
\* they are, and the client reads a packet to its end; but for the string that
\* is read behind the end of MSG_REGISTR_SUCCESSFUL (client.c:92).
ReadsWhatWasWritten ==
    /\ stage = "undefined" => message.type = "MSG_REGISTR_SUCCESSFUL"
    /\ stage \in {"read", "handled"} => IsPrefix(got, message.fields)
    /\ stage = "handled" /\ message.to = "client" =>
          got = message.fields /\ dp.index \notin DOMAIN dp.data

\* The lists the client shows hold every user they should, once and with the
\* right name, after four stacks and a packet that grew.
ListsArrive ==
    stage = "handled" =>
        /\ Len(ListsShown) = Len(lists)
        /\ \A k \in DOMAIN lists :
              /\ Len(ListsShown[k]) = Cardinality(lists[k])
              /\ Range(ListsShown[k]) = {<<u, username[u]>> : u \in lists[k]}
==============================================================================
