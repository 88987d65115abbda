---------------------------- MODULE CommandParser ----------------------------
(***************************************************************************)
(* command_parser.c and execute_command of client_ui_cons.c: from a line   *)
(* that starts with '/' to the function of client.c it ends in.            *)
(*                                                                         *)
(* A line is the sequence of its words, as next_word cuts them: each call  *)
(* takes the head, and fails on the empty sequence.                        *)
(***************************************************************************)
EXTENDS Integers, Sequences

CONSTANTS
    atoi   \* the value of each word is_decimal_number accepts

is_decimal_number(word) == word \in DOMAIN atoi

Int32(n) == [is |-> "int", value |-> n]
String(s) == [is |-> "string", value |-> s]

CommandTypes ==
    [kick |-> "MSG_CMD_KICK_ID",   w |-> "MSG_WHISPER",
     register |-> "MSG_REQ_REGISTER", login |-> "MSG_REQ_LOGIN",
     logout |-> "MSG_LOGOUT",      who |-> "MSG_WHO",
     friends |-> "MSG_FRIENDS",    help |-> "CMD_HELP",
     connect |-> "CMD_CONNECT",    disconnect |-> "CMD_DISCONNECT",
     dc |-> "CMD_DISCONNECT",      grant |-> "MSG_GRANT_PRIVILEGES",
     fadd |-> "MSG_ADD_FRIEND",    fremove |-> "MSG_REMOVE_FRIEND",
     gcreate |-> "MSG_GROUP_CREATE", gdelete |-> "MSG_GROUP_DELETE"]

\* How many words a command needs, and how many it takes.
Needed(type) ==
    CASE type \in {"MSG_WHISPER", "MSG_REQ_REGISTER", "MSG_REQ_LOGIN",
                   "MSG_GRANT_PRIVILEGES"} -> 2
      [] type \in {"MSG_CMD_KICK_ID", "MSG_ADD_FRIEND", "MSG_REMOVE_FRIEND",
                   "MSG_GROUP_CREATE", "MSG_GROUP_DELETE"} -> 1
      [] OTHER -> 0
Taken(type) == IF type = "CMD_CONNECT" THEN 2 ELSE Needed(type)

Call(type, argv) == [type |-> type, argv |-> argv]

\* The call of exec_cmd a line leads to; further words are ignored.  A line
\* without a word is left at the first return: no call is made, not even the
\* one that reports an invalid command.
process_command(line) ==
    LET type == CommandTypes[Head(line)]
        args == Tail(line)
        n    == IF Len(args) < Taken(type) THEN Len(args) ELSE Taken(type)
    IN  IF line = <<>> THEN Call("none", <<>>)
        ELSE IF Head(line) \notin DOMAIN CommandTypes \/ Len(args) < Needed(type)
        THEN Call("CMD_INVALID", <<>>)
        ELSE Call(type, SubSeq(args, 1, n))

\* "/grant" with less than two words passes a pointer that was never set to
\* free(): uid if there is no word, lvl if there is one.
FreesGarbage(line) ==
    line # <<>> /\ Head(line) = "grant" /\ Len(Tail(line)) < 2

------------------------------------------------------------------------------
(* execute_command and the cl_exec_ functions *)

\* What a call comes to: a packet that is sent, an action of the client on its
\* connection, or nothing.
Send(type, fields) == [does |-> "send", type |-> type, fields |-> fields]
Connect(argv) ==
    [does |-> "connect", host |-> IF argv = <<>> THEN "" ELSE argv[1]]
Disconnect == [does |-> "disconnect"]
Nothing == [does |-> "nothing"]

\* Words a command reads as numbers; it does nothing if one of them is none.
Numeric(type) ==
    CASE type \in {"MSG_CMD_KICK_ID", "MSG_WHISPER", "MSG_ADD_FRIEND",
                   "MSG_REMOVE_FRIEND", "MSG_GROUP_DELETE"} -> {1}
      [] type = "MSG_GRANT_PRIVILEGES" -> {1, 2}
      [] type = "CMD_CONNECT" -> {2}
      [] OTHER -> {}

execute_command(call) ==
    LET checked == Numeric(call.type) \cap DOMAIN call.argv
        fields  == [i \in DOMAIN call.argv |->
                       IF i \in checked THEN Int32(atoi[call.argv[i]])
                       ELSE String(call.argv[i])]
    IN  IF \E i \in checked : ~is_decimal_number(call.argv[i]) THEN Nothing
        ELSE CASE call.type = "CMD_CONNECT" -> Connect(call.argv)
               [] call.type = "CMD_DISCONNECT" -> Disconnect
               [] call.type \in {"none", "CMD_INVALID", "CMD_HELP",
                                 "MSG_GROUP_DELETE"} -> Nothing
               [] OTHER -> Send(call.type, fields)

Executes(line) == execute_command(process_command(line))
==============================================================================
