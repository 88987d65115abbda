------------------------------- MODULE Client --------------------------------
(***************************************************************************)
(* The console client: the thread that reads the user's lines              *)
(* (client_ui_cons.c, client.c) and the listener threads it creates, one   *)
(* for each connection (threaded_connect, client_ch.c).                    *)
(*                                                                         *)
(* The threads share sockfd, ssl, ctx and arg_host without a lock; only    *)
(* is_connected has a mutex.  One action is what a thread does between two *)
(* points at which the other may see it; ui and pc say where they are.     *)
(* The n-th thread, its socket, its SSL context and its SSL object all     *)
(* have the number n.  SSL_CTX_free drops one reference; SSL_new adds one. *)
(***************************************************************************)
EXTENDS CommandParser

CONSTANTS
    MaxSessions,   \* bound: threads created
    Fds,           \* descriptors of this process; 1 and 2 are always in use
    HOST,          \* the host to connect to if none was ever given
    StartupHosts,  \* what the command line may have put into arg_host
    Lines          \* commands the user types

Stdin == 0
Sessions == 1 .. MaxSessions

ASSUME MaxSessionsAssumption == MaxSessions \in Nat \ {0}
ASSUME ClientFdsAssumption == Fds \subseteq Nat /\ Stdin \in Fds

VARIABLES
    process,       \* "running", "crashed" or "exited"
    ui,            \* where the main thread is
    returns_to,    \* where it goes when client_disconnect returns
    is_connected,  \* the flag
    input_thread,  \* the thread created last
    pc,            \* where each listener thread is
    arg_host,      \* the host to connect to
    host,          \* the host each session's socket was connected to
    open,          \* the open descriptors: Stdin or the session of the socket
    sockfd,        \* the descriptor of the socket
    ssl,           \* the SSL object: its session and its descriptor
    ctx,           \* the session whose context ctx points to, 0 for none
    refs,          \* references to each session's context
    peer           \* the server's side of each session

globals == <<arg_host, host, open, sockfd, ssl, ctx, refs>>
vars == <<process, ui, returns_to, is_connected, input_thread, pc, globals, peer>>

NullSsl == [of |-> 0, fd |-> 0]

------------------------------------------------------------------------------
(* Operating system and OpenSSL *)

Running == process = "running"
Crash == process' = "crashed"
Continue == UNCHANGED process

\* close(sockfd).  A descriptor that is not open is an error nobody looks at.
Close == open' = [fd \in DOMAIN open \ {sockfd} |-> open[fd]]

\* The lowest number that is free.
socket(fd, t) ==
    /\ fd \in Fds \ DOMAIN open
    /\ \A free \in Fds \ DOMAIN open : fd <= free
    /\ open' = [k \in DOMAIN open \union {fd} |-> IF k = fd THEN t ELSE open[k]]

SSL_CTX_free_always ==   \* mutant
    /\ Continue
    /\ refs' = IF ctx = 0 THEN refs ELSE [refs EXCEPT ![ctx] = @ - 1]

\* SSL_CTX_free(ctx).  To free a context that is gone may end the process.
SSL_CTX_free ==
    IF ctx = 0 THEN Continue /\ UNCHANGED refs
    ELSE IF refs[ctx] > 0 THEN Continue /\ refs' = [refs EXCEPT ![ctx] = @ - 1]
    ELSE (Continue \/ Crash) /\ UNCHANGED refs

\* The server gets a packet of session s: MSG_DISCONNECT makes it close.
Delivered(s, type) ==
    peer' = [peer EXCEPT ![s] =
                IF @ = "gone" THEN "gone"
                ELSE IF type = "MSG_DISCONNECT" \/ @ = "leaving" THEN "leaving" ELSE "secured"]

client_ch_send_checked(type) ==   \* mutant
    IF ssl # NullSsl /\ ssl.fd \in DOMAIN open /\ peer[ssl.of] = "secured"
    THEN Continue /\ Delivered(ssl.of, type)
    ELSE Continue /\ UNCHANGED peer

\* SSL_write on the SSL object created last, which is never freed.
\* - There is none yet: SSL_write dereferences NULL.
\* - Its descriptor is closed: an error, which the test for 0 does not see.
\* - The listener is in SSL_connect on the same object: the write may be lost,
\*   may break the handshake, may complete it, or ends the process.
\* - The server has closed: the write is lost or raises SIGPIPE.
\* - The descriptor number is another session's socket by now: the bytes break
\*   that session's handshake, or the write raises SIGPIPE on a socket that is
\*   not connected.
client_ch_send(type) ==
    LET s     == ssl.of
        owner == open[ssl.fd]
    IN  \/ /\ ssl = NullSsl
           /\ Crash /\ UNCHANGED peer
        \/ /\ ssl # NullSsl /\ ssl.fd \notin DOMAIN open
           /\ Continue /\ UNCHANGED peer
        \/ /\ ssl # NullSsl /\ ssl.fd \in DOMAIN open /\ owner = s
           /\ \/ /\ pc[s] = "handshake"
                 /\ \/ (Continue \/ Crash) /\ UNCHANGED peer
                    \/ Continue /\ Delivered(s, type)
                    \/ Continue /\ peer' = [peer EXCEPT ![s] = "gone"]
              \/ /\ pc[s] # "handshake" /\ peer[s] \in {"secured", "leaving"}
                 /\ Continue /\ Delivered(s, type)
              \/ /\ pc[s] # "handshake" /\ peer[s] \notin {"secured", "leaving"}
                 /\ (Continue \/ Crash) /\ UNCHANGED peer
        \/ /\ ssl # NullSsl /\ ssl.fd \in DOMAIN open /\ owner # s
           /\ \/ /\ peer[owner] = "none"
                 /\ (Continue \/ Crash) /\ UNCHANGED peer
              \/ /\ peer[owner] # "none"
                 /\ Continue /\ peer' = [peer EXCEPT ![owner] = "gone"]

------------------------------------------------------------------------------
(* The main thread: process_input *)

Ui(at, to) == Running /\ ui = at /\ ui' = to

\* A line that is no command, and the flag is set.
ReadText ==
    /\ Ui("input", "broadcast")
    /\ is_connected
    /\ UNCHANGED <<process, returns_to, is_connected, input_thread, pc, globals, peer>>

SendText ==
    /\ Ui("broadcast", "input")
    /\ client_ch_send("MSG_BROADCAST")
    /\ UNCHANGED <<returns_to, is_connected, input_thread, pc, globals>>

\* Every other command sends its packet without a look at the flag.
SendCommand(line) ==
    /\ Ui("input", "input")
    /\ Executes(line).does = "send"
    /\ client_ch_send(Executes(line).type)
    /\ UNCHANGED <<returns_to, is_connected, input_thread, pc, globals>>

IncompleteGrant(line) ==
    /\ Ui("input", "input")
    /\ FreesGarbage(line)
    /\ Continue \/ Crash
    /\ UNCHANGED <<returns_to, is_connected, input_thread, pc, globals, peer>>

\* client_connect writes arg_host before the old connection is ended.
ConnectCommand(line) ==
    LET command == Executes(line)
    IN  /\ Ui("input", "stop")
        /\ command.does = "connect"
        /\ input_thread < MaxSessions
        /\ returns_to' = "start"
        /\ arg_host' = IF command.host # "" THEN command.host
                       ELSE IF arg_host # "" THEN arg_host ELSE HOST
        /\ UNCHANGED <<process, is_connected, input_thread, pc, host, open, sockfd,
                       ssl, ctx, refs, peer>>

DisconnectCommand(line) ==
    /\ Ui("input", "stop")
    /\ Executes(line).does = "disconnect"
    /\ returns_to' = "input"
    /\ UNCHANGED <<process, is_connected, input_thread, pc, globals, peer>>

------------------------------------------------------------------------------
(* client_disconnect *)

StopUnconnected ==
    /\ Ui("stop", returns_to)
    /\ ~is_connected
    /\ UNCHANGED <<process, returns_to, is_connected, input_thread, pc, globals, peer>>

Stop ==
    /\ Ui("stop", "stop_send")
    /\ is_connected
    /\ UNCHANGED <<process, returns_to, is_connected, input_thread, pc, globals, peer>>

StopSend_nothing ==   \* mutant
    /\ Ui("stop_send", "stop_close")
    /\ UNCHANGED <<process, returns_to, is_connected, input_thread, pc, globals, peer>>

StopSend ==
    /\ Ui("stop_send", "stop_close")
    /\ client_ch_send("MSG_DISCONNECT")
    /\ UNCHANGED <<returns_to, is_connected, input_thread, pc, globals>>

\* client_ch_destroy: a close() does not wake a thread that is blocked in a
\* read on the socket, and the connection lives on until that read returns.
StopClose ==
    /\ Ui("stop_close", "stop_free")
    /\ Close
    /\ UNCHANGED <<process, returns_to, is_connected, input_thread, pc, arg_host,
                   host, sockfd, ssl, ctx, refs, peer>>

StopFree ==
    /\ Ui("stop_free", "stop_flag")
    /\ SSL_CTX_free
    /\ UNCHANGED <<returns_to, is_connected, input_thread, pc, arg_host, host, open,
                   sockfd, ssl, ctx, peer>>

StopFlag ==
    /\ Ui("stop_flag", "join")
    /\ is_connected' = FALSE
    /\ UNCHANGED <<process, returns_to, input_thread, pc, globals, peer>>

Join_not_waiting ==   \* mutant
    /\ Ui("join", returns_to)
    /\ UNCHANGED <<process, returns_to, is_connected, input_thread, pc, globals, peer>>

Join ==
    /\ Ui("join", returns_to)
    /\ pc[input_thread] = "ended"
    /\ UNCHANGED <<process, returns_to, is_connected, input_thread, pc, globals, peer>>

------------------------------------------------------------------------------
(* client_connect, after client_disconnect *)

StartFlag ==
    /\ Ui("start", "create")
    /\ is_connected' = TRUE
    /\ UNCHANGED <<process, returns_to, input_thread, pc, globals, peer>>

Create ==
    /\ Ui("create", "input")
    /\ input_thread' = input_thread + 1
    /\ pc' = [pc EXCEPT ![input_thread + 1] = "init_ctx"]
    /\ UNCHANGED <<process, returns_to, is_connected, globals, peer>>

\* execute_command calls exit(1).
CreateFails ==
    /\ Ui("create", "create")
    /\ process' = "exited"
    /\ UNCHANGED <<returns_to, is_connected, input_thread, pc, globals, peer>>

------------------------------------------------------------------------------
(* threaded_connect: client_ch_start *)

Listener(t, at, to) == Running /\ pc[t] = at /\ pc' = [pc EXCEPT ![t] = to]

InitCtx(t) ==
    /\ Listener(t, "init_ctx", "socket")
    /\ ctx' = t
    /\ refs' = [refs EXCEPT ![t] = 1]
    /\ UNCHANGED <<process, ui, returns_to, is_connected, input_thread, arg_host,
                   host, open, sockfd, ssl, peer>>

Socket(t) ==
    /\ Listener(t, "socket", "connect")
    /\ \E fd \in Fds : socket(fd, t) /\ sockfd' = fd
    /\ UNCHANGED <<process, ui, returns_to, is_connected, input_thread, arg_host,
                   host, ssl, ctx, refs, peer>>

SocketFails(t) ==
    /\ Listener(t, "socket", "flag_off")
    /\ sockfd' = -1
    /\ UNCHANGED <<process, ui, returns_to, is_connected, input_thread, arg_host,
                   host, open, ssl, ctx, refs, peer>>

\* gethostbyname and connect.
Connected(t) ==
    /\ Listener(t, "connect", "ssl_new")
    /\ sockfd \in DOMAIN open
    /\ host' = [host EXCEPT ![t] = arg_host]
    /\ peer' = [peer EXCEPT ![t] = "accepted"]
    /\ UNCHANGED <<process, ui, returns_to, is_connected, input_thread, arg_host,
                   open, sockfd, ssl, ctx, refs>>

\* Either fails: a return that leaves the socket and the context behind.
ConnectFails(t) ==
    /\ Listener(t, "connect", "flag_off")
    /\ UNCHANGED <<process, ui, returns_to, is_connected, input_thread, globals, peer>>

\* SSL_new(ctx), SSL_set_fd.  A context that was freed may still look alive.
NewSsl(t) ==
    /\ Listener(t, "ssl_new", "handshake")
    /\ ssl' = [of |-> t, fd |-> sockfd]
    /\ IF refs[ctx] > 0 THEN Continue /\ refs' = [refs EXCEPT ![ctx] = @ + 1]
       ELSE (Continue \/ Crash) /\ UNCHANGED refs
    /\ UNCHANGED <<ui, returns_to, is_connected, input_thread, arg_host, host, open,
                   sockfd, ctx, peer>>

Handshake(t) ==
    /\ Listener(t, "handshake", "flag_on")
    /\ ssl.fd \in DOMAIN open
    /\ peer[t] # "gone"
    /\ peer' = [peer EXCEPT ![t] = IF @ = "accepted" THEN "secured" ELSE @]
    /\ UNCHANGED <<process, ui, returns_to, is_connected, input_thread, globals>>

\* SSL_connect returns 0, not -1, when the server shuts the handshake down.
HandshakeShutDown(t) ==
    /\ Listener(t, "handshake", "flag_on")
    /\ peer[t] = "gone"
    /\ UNCHANGED <<process, ui, returns_to, is_connected, input_thread, globals, peer>>

HandshakeFails(t) ==
    /\ Listener(t, "handshake", "failed_close")
    /\ UNCHANGED <<process, ui, returns_to, is_connected, input_thread, globals, peer>>

FailedClose_omitted(t) ==   \* mutant
    /\ Listener(t, "failed_close", "free")
    /\ UNCHANGED <<process, ui, returns_to, is_connected, input_thread, globals, peer>>

FailedClose(t) ==
    /\ Listener(t, "failed_close", "free")
    /\ Close
    /\ UNCHANGED <<process, ui, returns_to, is_connected, input_thread, arg_host,
                   host, sockfd, ssl, ctx, refs, peer>>

------------------------------------------------------------------------------
(* threaded_connect: client_ch_listen and client_ch_destroy *)

FlagOn(t) ==
    /\ Listener(t, "flag_on", "listen")
    /\ is_connected' = TRUE
    /\ UNCHANGED <<process, ui, returns_to, input_thread, globals, peer>>

\* SSL_read is entered and waits for the server.
Read(t) ==
    /\ Listener(t, "listen", "reading")
    /\ ssl.fd \in DOMAIN open
    /\ UNCHANGED <<process, ui, returns_to, is_connected, input_thread, globals, peer>>

ReadClosed(t) ==
    /\ Listener(t, "listen", "close")
    /\ ssl.fd \notin DOMAIN open
    /\ UNCHANGED <<process, ui, returns_to, is_connected, input_thread, globals, peer>>

\* A packet: process_packet only prints, and the loop goes on, or bp_process_data
\* returns 0 and the loop ends.
Receive(t) ==
    /\ Listener(t, "reading", "listen") \/ Listener(t, "reading", "close")
    /\ peer[t] \in {"secured", "leaving"}
    /\ UNCHANGED <<process, ui, returns_to, is_connected, input_thread, globals, peer>>

ReadEnds_not_for_zero(t) ==   \* mutant
    /\ Listener(t, "reading", "listen")
    /\ peer[t] = "gone"
    /\ UNCHANGED <<process, ui, returns_to, is_connected, input_thread, globals, peer>>

\* SSL_read returns 0 or -1.
ReadEnds(t) ==
    /\ Listener(t, "reading", "close")
    /\ peer[t] = "gone"
    /\ UNCHANGED <<process, ui, returns_to, is_connected, input_thread, globals, peer>>

CloseSocket(t) ==
    /\ Listener(t, "close", "free")
    /\ Close
    /\ UNCHANGED <<process, ui, returns_to, is_connected, input_thread, arg_host,
                   host, sockfd, ssl, ctx, refs, peer>>

FreeCtx_skipped(t) ==   \* mutant
    /\ Listener(t, "free", "ended")
    /\ SSL_CTX_free
    /\ UNCHANGED <<ui, returns_to, is_connected, input_thread, arg_host, host, open,
                   sockfd, ssl, ctx, peer>>

FreeCtx(t) ==
    /\ Listener(t, "free", "flag_off")
    /\ SSL_CTX_free
    /\ UNCHANGED <<ui, returns_to, is_connected, input_thread, arg_host, host, open,
                   sockfd, ssl, ctx, peer>>

FlagOff(t) ==
    /\ Listener(t, "flag_off", "ended")
    /\ is_connected' = FALSE
    /\ UNCHANGED <<process, ui, returns_to, input_thread, globals, peer>>

------------------------------------------------------------------------------
\* The server hangs up, or crashes: at any time, and certainly after a
\* MSG_DISCONNECT.
PeerCloses(s) ==
    /\ Running
    /\ peer[s] \in {"accepted", "secured", "leaving"}
    /\ peer' = [peer EXCEPT ![s] = "gone"]
    /\ UNCHANGED <<process, ui, returns_to, is_connected, input_thread, pc, globals>>

Ended == ~Running /\ UNCHANGED vars

Init ==
    /\ process = "running"
    /\ ui = "input"
    /\ returns_to = "input"
    /\ is_connected = FALSE
    /\ input_thread = 0
    /\ pc = [t \in Sessions |-> "none"]
    /\ arg_host \in StartupHosts
    /\ host = [t \in Sessions |-> ""]
    /\ open = [fd \in {Stdin} |-> Stdin]
    /\ sockfd = 0
    /\ ssl = NullSsl
    /\ ctx = 0
    /\ refs = [t \in Sessions |-> 0]
    /\ peer = [t \in Sessions |-> "none"]

Input ==
    \/ ReadText
    \/ \E line \in Lines : \/ SendCommand(line)
                           \/ IncompleteGrant(line)
                           \/ ConnectCommand(line)
                           \/ DisconnectCommand(line)

\* What the main thread does without waiting for the user.
UiStep ==
    \/ SendText
    \/ StopUnconnected \/ Stop \/ StopSend \/ StopClose \/ StopFree \/ StopFlag
    \/ Join
    \/ StartFlag \/ Create \/ CreateFails

\* What a listener does without an answer of the server.
ListenerStep(t) ==
    \/ InitCtx(t) \/ Socket(t) \/ SocketFails(t) \/ Connected(t) \/ ConnectFails(t)
    \/ NewSsl(t) \/ HandshakeShutDown(t) \/ FailedClose(t)
    \/ FlagOn(t) \/ Read(t) \/ ReadClosed(t) \/ ReadEnds(t)
    \/ CloseSocket(t) \/ FreeCtx(t) \/ FlagOff(t)

Next ==
    \/ Input
    \/ UiStep
    \/ \E t \in Sessions : \/ ListenerStep(t)
                            \/ Handshake(t) \/ HandshakeFails(t) \/ Receive(t)
                            \/ PeerCloses(t)
    \/ Ended

Spec == Init /\ [][Next]_vars

\* Both threads are scheduled; a thread that is not blocked goes on, and connect()
\* comes to an end.  The user need not type, the server need not answer a
\* handshake or send.  The server closes a connection it has read a
\* MSG_DISCONNECT from (server.c:204, :346).
Fairness ==
    /\ WF_vars(UiStep)
    /\ \A t \in Sessions :
          /\ WF_vars(ListenerStep(t))
          /\ WF_vars(peer[t] = "leaving" /\ PeerCloses(t))

FairSpec == Spec /\ Fairness

------------------------------------------------------------------------------
(* Properties *)

Alive(t) == pc[t] \notin {"none", "ended"}

UiStates == {"input", "broadcast", "stop", "stop_send", "stop_close", "stop_free",
             "stop_flag", "join", "start", "create"}

ListenerStates ==
    {"none", "init_ctx", "socket", "connect", "ssl_new", "handshake", "failed_close",
     "flag_on", "listen", "reading", "close", "free", "flag_off", "ended"}

ClientTypeOK ==
    /\ process \in {"running", "crashed", "exited"}
    /\ ui \in UiStates
    /\ returns_to \in {"input", "start"}
    /\ is_connected \in BOOLEAN
    /\ input_thread \in 0 .. MaxSessions
    /\ pc \in [Sessions -> ListenerStates]
    /\ DOMAIN host = Sessions
    /\ DOMAIN open \subseteq Fds
    /\ open \in [DOMAIN open -> Sessions \union {Stdin}]
    /\ sockfd \in Fds \union {-1}
    /\ ssl \in [of : Sessions, fd : Fds \union {-1}] \union {NullSsl}
    /\ ctx \in Sessions \union {0}
    /\ refs \in [Sessions -> Nat]
    /\ peer \in [Sessions -> {"none", "accepted", "secured", "leaving", "gone"}]

\* Two listener threads never run at once, although they are created without a
\* look at the threads and share every global: the flag alone keeps the second
\* one waiting.  At the prompt the flag tells whether there is a thread to be
\* stopped and joined.
OneListener ==
    /\ \A t \in Sessions : Alive(t) => t = input_thread
    /\ ui = "input" /\ input_thread > 0 => (is_connected <=> Alive(input_thread))

\* close() never hits the terminal, although sockfd starts as 0 and a connection
\* may be ended before its thread has a socket.
TerminalStaysOpen == Stdin \in DOMAIN open /\ open[Stdin] = Stdin

\* A session that is over has given its descriptor back, however it ended and
\* whoever closed it first, unless the server was never reached
\* (client_ch.c:78, :91).
OnlyUnreachedLeak ==
    \A fd \in DOMAIN open \ {Stdin} :
        pc[open[fd]] = "ended" => peer[open[fd]] = "none"

\* While a listener uses its SSL object, and the user is not about to end the
\* session, both references to the context are there.
ContextHeld ==
    \A t \in Sessions :
        /\ pc[t] \in {"handshake", "flag_on", "listen", "reading", "close"}
        /\ ui \in {"input", "broadcast", "stop", "stop_send", "stop_close"}
        => refs[t] = 2

\* At the prompt an established session is one with the host the user named
\* last: none of a connection that was given up before is left.
ConnectedWhereAsked ==
    \A t \in Sessions :
        ui = "input" /\ pc[t] \in {"listen", "reading"} => host[t] = arg_host

\* The listener of a connection the server has closed ends, and clears the flag.
HangUpEndsListener ==
    \A t \in Sessions : peer[t] = "gone" ~> pc[t] = "ended" \/ ~Running

\* A session that is established when the user ends it is joined, because the
\* server is told.
EstablishedIsJoined ==
    \A t \in Sessions :
        (ui = "stop_send" /\ pc[t] \in {"listen", "reading"} /\ peer[t] = "secured")
            ~> (ui \in {"input", "start"} \/ ~Running)

\* client_disconnect returns (client.c:446 "wait for listener thread to quit").
DisconnectReturns == ui = "join" ~> ui # "join" \/ ~Running
==============================================================================
