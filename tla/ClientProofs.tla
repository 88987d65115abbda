---------------------------- MODULE ClientProofs -----------------------------
(***************************************************************************)
(* Proofs about Client, for any number of sessions, descriptors, hosts and *)
(* lines.  The argument: the flag and the join keep all but one listener   *)
(* from running, so the globals always belong to that one, and everything  *)
(* else follows from where it stands.                                      *)
(***************************************************************************)
EXTENDS Client, TLAPS

\* A thread that has a socket of its own, from socket() to close().
HasSocket == {"connect", "ssl_new", "handshake", "failed_close", "flag_on",
              "listen", "reading", "close"}
Reached == HasSocket \ {"connect"}
Unreached == {"none", "init_ctx", "socket", "connect"}
Finishing == {"free", "flag_off", "ended"}

\* The main thread has not called client_ch_destroy on the current session.
BeforeDestroy == ui \notin {"stop_flag", "join"}

Threads ==
    /\ \A t \in Sessions : pc[t] = "none" <=> t > input_thread
    /\ \A t \in Sessions : Alive(t) => t = input_thread
    /\ ui \in {"start", "create"} => \A t \in Sessions : ~Alive(t)

\* The flag is set exactly while there is a listener, but for the time between
\* StartFlag and Create and for what happens while the main thread waits.
Flag ==
    /\ ui # "create" /\ is_connected => \E t \in Sessions : Alive(t)
    /\ ui # "join" /\ (\E t \in Sessions : Alive(t)) => is_connected
    /\ ui = "create" => is_connected

Bound ==
    /\ ui \notin {"input", "broadcast"} /\ returns_to = "start" => input_thread < MaxSessions
    /\ ui \in {"start", "create"} => returns_to = "start"

\* SSL_write(NULL) ends the process before close(0) could close the terminal.
Terminal ==
    /\ TerminalStaysOpen
    /\ sockfd = 0 => ssl = NullSsl
    /\ \A t \in Sessions : pc[t] \in HasSocket => sockfd # 0
    /\ Running /\ ui = "stop_close" => sockfd # 0

Sockets ==
    /\ \A fd \in DOMAIN open \ {Stdin} :
          /\ open[fd] \in Sessions
          /\ pc[open[fd]] \in HasSocket \union Finishing
          /\ pc[open[fd]] \in HasSocket => fd = sockfd
          /\ pc[open[fd]] \in Finishing => peer[open[fd]] = "none"
    /\ \A t \in Sessions : pc[t] \in Unreached => peer[t] = "none"

Contexts ==
    \A t \in Sessions :
        /\ Alive(t) /\ pc[t] # "init_ctx" => ctx = t
        /\ BeforeDestroy /\ pc[t] \in {"socket", "connect", "ssl_new"} => refs[t] = 1
        /\ BeforeDestroy /\ pc[t] \in Reached \ {"ssl_new"} => refs[t] = 2

Destination ==
    \A t \in Sessions :
        ui \in {"input", "broadcast"} /\ pc[t] \in Reached => host[t] = arg_host

ClientInv ==
    /\ ClientTypeOK
    /\ Threads
    /\ Flag
    /\ Bound
    /\ Terminal
    /\ Sockets
    /\ Contexts
    /\ Destination

------------------------------------------------------------------------------
LEMMA InitHolds == Init => ClientInv
<1> SUFFICES ASSUME Init PROVE ClientInv
  OBVIOUS
<1> USE DEF Sessions, Stdin
<1>1. /\ pc \in [Sessions -> {"none"}] /\ peer \in [Sessions -> {"none"}]
      /\ refs \in [Sessions -> {0}]
      /\ process = "running" /\ ui = "input" /\ returns_to = "input"
      /\ is_connected = FALSE /\ input_thread = 0
      /\ DOMAIN open = {0} /\ open \in [{0} -> {0}]
      /\ sockfd = 0 /\ ssl = NullSsl /\ ctx = 0
  BY DEF Init
<1>2. ClientTypeOK
  <2>1. /\ pc \in [Sessions -> ListenerStates] /\ refs \in [Sessions -> Nat]
        /\ peer \in [Sessions -> {"none", "accepted", "secured", "leaving", "gone"}]
    BY <1>1 DEF ListenerStates
  <2>2. /\ DOMAIN host = Sessions
        /\ DOMAIN open \subseteq Fds /\ sockfd \in Fds
        /\ open \in [DOMAIN open -> Sessions \union {Stdin}]
    BY <1>1, ClientFdsAssumption DEF Init
  <2>3. input_thread \in 0 .. MaxSessions /\ ui \in UiStates
    BY <1>1, MaxSessionsAssumption DEF UiStates
  <2> QED
    BY <1>1, <2>1, <2>2, <2>3 DEF ClientTypeOK
<1>3. Threads /\ Flag /\ Bound
  <2>1. \A t \in Sessions : pc[t] = "none" /\ t > 0
    BY <1>1, MaxSessionsAssumption
  <2> QED
    BY <1>1, <2>1 DEF Threads, Flag, Bound, Alive
<1>4. Terminal
  BY <1>1 DEF Terminal, TerminalStaysOpen, HasSocket, Running
<1>5. Sockets /\ Contexts /\ Destination
  BY <1>1 DEF Sockets, Contexts, Destination, Alive, HasSocket, Reached, Finishing, Unreached
<1> QED
  BY <1>2, <1>3, <1>4, <1>5 DEF ClientInv

PeerStates == {"none", "accepted", "secured", "leaving", "gone"}

\* What a packet changes: its session's side of the server, or the process.
LEMMA SendTyped ==
    ASSUME ClientTypeOK, NEW type, client_ch_send(type)
    PROVE  /\ process' \in {"running", "crashed", "exited"}
           /\ peer' \in [Sessions -> PeerStates]
           /\ ssl = NullSsl => process' = "crashed"
<1> USE DEF ClientTypeOK, PeerStates, Crash, Continue
<1>1. process' \in {"running", "crashed", "exited"}
  BY DEF client_ch_send
<1>2. ssl = NullSsl => process' = "crashed"
  BY DEF client_ch_send
<1>3. \/ peer' = peer
      \/ Delivered(ssl.of, type)
      \/ \E s : peer' = [peer EXCEPT ![s] = "gone"]
  BY DEF client_ch_send
<1>4. CASE Delivered(ssl.of, type)
  <2>1. PICK state : /\ state \in {"gone", "leaving", "secured"}
                     /\ peer' = [peer EXCEPT ![ssl.of] = state]
    <3>1. CASE peer[ssl.of] = "gone"
      <4>1. peer' = [peer EXCEPT ![ssl.of] = "gone"]
        BY <1>4, <3>1 DEF Delivered
      <4> QED
        BY <4>1
    <3>2. CASE peer[ssl.of] # "gone" /\ (type = "MSG_DISCONNECT" \/ peer[ssl.of] = "leaving")
      BY <1>4, <3>2 DEF Delivered
    <3>3. CASE peer[ssl.of] # "gone" /\ type # "MSG_DISCONNECT" /\ peer[ssl.of] # "leaving"
      BY <1>4, <3>3 DEF Delivered
    <3> QED
      BY <3>1, <3>2, <3>3
  <2> QED
    BY <1>1, <1>2, <2>1
<1> QED
  BY <1>1, <1>2, <1>3, <1>4

LEMMA FreeTyped ==
    ASSUME ClientTypeOK, SSL_CTX_free
    PROVE  /\ process' \in {"running", "crashed", "exited"}
           /\ refs' \in [Sessions -> Nat]
<1>1. process' \in {"running", "crashed", "exited"}
  BY DEF SSL_CTX_free, Crash, Continue, ClientTypeOK
<1>2. CASE refs' = refs
  BY <1>1, <1>2 DEF ClientTypeOK
<1>3. CASE ctx # 0 /\ refs[ctx] > 0 /\ refs' = [refs EXCEPT ![ctx] = @ - 1]
  <2>1. ctx \in Sessions /\ refs[ctx] - 1 \in Nat
    BY <1>3 DEF ClientTypeOK
  <2> QED
    BY <1>1, <1>3, <2>1 DEF ClientTypeOK
<1> QED
  BY <1>2, <1>3 DEF SSL_CTX_free

LEMMA TypeStep ==
    ASSUME ClientInv, Next
    PROVE  ClientTypeOK'
<1> DEFINE Rest == UNCHANGED <<host, input_thread, pc, open, sockfd, ssl, ctx, refs>>
<1>0. ClientTypeOK
  BY DEF ClientInv
<1>1. CASE Input
  <2>1. Rest /\ ui' \in UiStates /\ returns_to' \in {"input", "start"} /\ is_connected' = is_connected
    BY <1>0, <1>1 DEF Input, ReadText, SendCommand, IncompleteGrant, ConnectCommand,
         DisconnectCommand, Ui, globals, ClientTypeOK, UiStates
  <2>2. process' \in {"running", "crashed", "exited"} /\ peer' \in [Sessions -> PeerStates]
    <3>1. CASE ReadText \/ \E line \in Lines : \/ IncompleteGrant(line) \/ ConnectCommand(line)
                                               \/ DisconnectCommand(line)
      BY <1>0, <3>1 DEF ReadText, IncompleteGrant, ConnectCommand, DisconnectCommand,
           Crash, Continue, ClientTypeOK, PeerStates
    <3>2. CASE \E line \in Lines : SendCommand(line)
      BY <1>0, <3>2, SendTyped DEF SendCommand
    <3> QED
      BY <1>1, <3>1, <3>2 DEF Input
  <2> QED
    BY <1>0, <2>1, <2>2 DEF ClientTypeOK, PeerStates
<1>2. CASE UiStep
  <2> USE <1>0 DEF Ui, globals, UiStates
  <2>1. CASE SendText \/ StopSend
    <3>1. \E type : client_ch_send(type)
      BY <2>1 DEF SendText, StopSend
    <3>2. process' \in {"running", "crashed", "exited"} /\ peer' \in [Sessions -> PeerStates]
      BY <3>1, SendTyped
    <3>3. Rest /\ ui' \in UiStates /\ UNCHANGED <<returns_to, is_connected>>
      BY <2>1 DEF SendText, StopSend
    <3> QED
      BY <3>2, <3>3 DEF ClientTypeOK, PeerStates
  <2>2. CASE StopClose
    BY <2>2 DEF StopClose, Close, ClientTypeOK
  <2>3. CASE StopFree
    <3>1. process' \in {"running", "crashed", "exited"} /\ refs' \in [Sessions -> Nat]
      BY <2>3, FreeTyped DEF StopFree
    <3> QED
      BY <2>3, <3>1 DEF StopFree, ClientTypeOK
  <2>4. CASE StopUnconnected \/ Stop \/ StopFlag \/ Join \/ StartFlag
    BY <2>4 DEF StopUnconnected, Stop, StopFlag, Join, StartFlag, ClientTypeOK
  <2>5. CASE Create
    <3>1. input_thread + 1 \in 1 .. MaxSessions
      BY <2>5, MaxSessionsAssumption DEF Create, ClientInv, Bound, ClientTypeOK
    <3>2. pc' \in [Sessions -> ListenerStates]
      BY <2>5 DEF Create, ClientTypeOK, ListenerStates
    <3> QED
      BY <2>5, <3>1, <3>2 DEF Create, ClientTypeOK
  <2>6. CASE CreateFails
    BY <2>6 DEF CreateFails, ClientTypeOK
  <2> QED
    BY <1>2, <2>1, <2>2, <2>3, <2>4, <2>5, <2>6 DEF UiStep
<1>3. ASSUME NEW t \in Sessions, ListenerStep(t)
      PROVE  ClientTypeOK'
  <2> USE <1>0 DEF Listener, globals, ClientTypeOK, ListenerStates
  <2>1. CASE InitCtx(t)
    BY <2>1 DEF InitCtx
  <2>2. CASE Socket(t)
    BY <2>2, ClientFdsAssumption DEF Socket, socket
  <2>3. CASE SocketFails(t) \/ ConnectFails(t)
    BY <2>3 DEF SocketFails, ConnectFails
  <2>4. CASE Connected(t)
    BY <2>4 DEF Connected
  <2>5. CASE NewSsl(t)
    <3>1. ssl' \in [of : Sessions, fd : Fds \union {-1}]
      BY <2>5 DEF NewSsl
    <3>2. process' \in {"running", "crashed", "exited"}
      BY <2>5 DEF NewSsl, Crash, Continue
    <3>3. refs' \in [Sessions -> Nat]
      BY <2>5 DEF NewSsl
    <3>4. pc' \in [Sessions -> ListenerStates]
      BY <2>5 DEF NewSsl
    <3>5. UNCHANGED <<ui, returns_to, is_connected, input_thread, host, open, sockfd, ctx, peer>>
      BY <2>5 DEF NewSsl
    <3> QED
      BY <3>1, <3>2, <3>3, <3>4, <3>5
  <2>6. CASE FailedClose(t) \/ CloseSocket(t)
    BY <2>6 DEF FailedClose, CloseSocket, Close
  <2>7. CASE HandshakeShutDown(t) \/ FlagOn(t) \/ Read(t) \/ ReadClosed(t) \/ ReadEnds(t)
    BY <2>7 DEF HandshakeShutDown, FlagOn, Read, ReadClosed, ReadEnds
  <2>8. CASE FreeCtx(t)
    <3>1. process' \in {"running", "crashed", "exited"} /\ refs' \in [Sessions -> Nat]
      BY <2>8, FreeTyped DEF FreeCtx
    <3> QED
      BY <2>8, <3>1 DEF FreeCtx
  <2>9. CASE FlagOff(t)
    BY <2>9 DEF FlagOff
  <2> QED
    BY <1>3, <2>1, <2>2, <2>3, <2>4, <2>5, <2>6, <2>7, <2>8, <2>9 DEF ListenerStep
<1>4. ASSUME NEW t \in Sessions, Handshake(t) \/ HandshakeFails(t) \/ Receive(t)
      PROVE  ClientTypeOK'
  BY <1>0, <1>4 DEF Handshake, HandshakeFails, Receive, Listener, globals, ClientTypeOK, ListenerStates
<1>5. ASSUME NEW t \in Sessions, PeerCloses(t)
      PROVE  ClientTypeOK'
  BY <1>0, <1>5 DEF PeerCloses, globals, ClientTypeOK
<1>6. CASE Ended
  BY <1>0, <1>6 DEF Ended, vars, globals, ClientTypeOK
<1> QED
  BY <1>1, <1>2, <1>3, <1>4, <1>5, <1>6 DEF Next

LEMMA ThreadsStep ==
    ASSUME ClientInv, Next
    PROVE  Threads'
<1> USE MaxSessionsAssumption DEF ClientInv, ClientTypeOK, Threads, Flag, Bound, Alive,
        Sessions
<1>1. CASE Input
  BY <1>1 DEF Input, ReadText, SendCommand, IncompleteGrant, ConnectCommand,
              DisconnectCommand, Ui
<1>2. CASE UiStep
  BY <1>2 DEF UiStep, SendText, StopUnconnected, Stop, StopSend, StopClose, StopFree,
              StopFlag, Join, StartFlag, Create, CreateFails, Ui
<1>3. ASSUME NEW t \in Sessions, ListenerStep(t)
      PROVE  Threads'
  <2>1. CASE InitCtx(t) \/ Socket(t) \/ SocketFails(t) \/ Connected(t) \/ ConnectFails(t)
    BY <2>1 DEF InitCtx, Socket, SocketFails, Connected, ConnectFails, Listener
  <2>2. CASE NewSsl(t) \/ HandshakeShutDown(t) \/ FailedClose(t)
    BY <2>2 DEF NewSsl, HandshakeShutDown, FailedClose, Listener
  <2>3. CASE FlagOn(t) \/ Read(t) \/ ReadClosed(t) \/ ReadEnds(t)
    <3>1. PICK at \in {"listen", "reading", "close"} :
             /\ pc' = [pc EXCEPT ![t] = at]
             /\ pc[t] \in {"flag_on", "listen", "reading"}
             /\ UNCHANGED <<ui, input_thread>>
      BY <2>3, Zenon DEF FlagOn, Read, ReadClosed, ReadEnds, Listener
    <3> QED
      BY <3>1
  <2>4. CASE CloseSocket(t) \/ FreeCtx(t) \/ FlagOff(t)
    BY <2>4 DEF CloseSocket, FreeCtx, FlagOff, Listener
  <2> QED
    BY <1>3, <2>1, <2>2, <2>3, <2>4, Zenon DEF ListenerStep
<1>4. ASSUME NEW t \in Sessions, Handshake(t) \/ HandshakeFails(t) \/ Receive(t)
      PROVE  Threads'
  <2>1. PICK at \in {"flag_on", "failed_close", "listen", "close"} :
           /\ pc' = [pc EXCEPT ![t] = at] /\ pc[t] \in {"handshake", "reading"}
           /\ UNCHANGED <<ui, input_thread>>
    BY <1>4, Zenon DEF Handshake, HandshakeFails, Receive, Listener
  <2> QED
    BY <2>1
<1>5. ASSUME NEW t \in Sessions, PeerCloses(t)
      PROVE  Threads'
  BY <1>5 DEF PeerCloses
<1>6. CASE Ended
  BY <1>6 DEF Ended, vars, globals
<1> QED
  BY <1>1, <1>2, <1>3, <1>4, <1>5, <1>6 DEF Next

LEMMA FlagStep ==
    ASSUME ClientInv, Next
    PROVE  Flag'
<1> USE MaxSessionsAssumption DEF ClientInv, ClientTypeOK, Threads, Flag, Bound, Alive,
        Sessions
<1>1. CASE Input
  <2>1. UNCHANGED <<pc, is_connected>> /\ ui = "input" /\ ui' \in {"input", "broadcast", "stop"}
    BY <1>1 DEF Input, ReadText, SendCommand, IncompleteGrant, ConnectCommand,
                DisconnectCommand, Ui
  <2> QED
    BY <2>1
<1>2. CASE UiStep
  <2>1. CASE SendText \/ Stop \/ StopSend \/ StopClose \/ StopFree \/ CreateFails
    <3>1. UNCHANGED <<pc, is_connected>> /\ ui # "join" /\ (ui = "create" <=> ui' = "create")
      BY <2>1 DEF SendText, Stop, StopSend, StopClose, StopFree, CreateFails, Ui
    <3> QED
      BY <3>1
  <2>2. CASE StopUnconnected \/ StopFlag \/ Join
    BY <2>2 DEF StopUnconnected, StopFlag, Join, Ui
  <2>3. CASE StartFlag
    BY <2>3 DEF StartFlag, Ui
  <2>4. CASE Create
    BY <2>4 DEF Create, Ui
  <2> QED
    BY <1>2, <2>1, <2>2, <2>3, <2>4 DEF UiStep
<1>3. ASSUME NEW t \in Sessions, ListenerStep(t)
      PROVE  Flag'
  BY <1>3 DEF ListenerStep, InitCtx, Socket, SocketFails, Connected, ConnectFails,
              NewSsl, HandshakeShutDown, FailedClose, FlagOn, Read, ReadClosed,
              ReadEnds, CloseSocket, FreeCtx, FlagOff, Listener
<1>4. ASSUME NEW t \in Sessions, Handshake(t) \/ HandshakeFails(t) \/ Receive(t)
      PROVE  Flag'
  BY <1>4 DEF Handshake, HandshakeFails, Receive, Listener
<1>5. ASSUME NEW t \in Sessions, PeerCloses(t)
      PROVE  Flag'
  BY <1>5 DEF PeerCloses
<1>6. CASE Ended
  BY <1>6 DEF Ended, vars, globals
<1> QED
  BY <1>1, <1>2, <1>3, <1>4, <1>5, <1>6 DEF Next

LEMMA BoundStep ==
    ASSUME ClientInv, Next
    PROVE  Bound'
<1> USE MaxSessionsAssumption DEF ClientInv, ClientTypeOK, Threads, Flag, Bound, Sessions
<1>1. CASE Input
  BY <1>1 DEF Input, ReadText, SendCommand, IncompleteGrant, ConnectCommand,
              DisconnectCommand, Ui
<1>2. CASE UiStep
  BY <1>2 DEF UiStep, SendText, StopUnconnected, Stop, StopSend, StopClose, StopFree,
              StopFlag, Join, StartFlag, Create, CreateFails, Ui
<1>3. ASSUME NEW t \in Sessions, ListenerStep(t)
      PROVE  Bound'
  BY <1>3 DEF ListenerStep, InitCtx, Socket, SocketFails, Connected, ConnectFails,
              NewSsl, HandshakeShutDown, FailedClose, FlagOn, Read, ReadClosed,
              ReadEnds, CloseSocket, FreeCtx, FlagOff, Listener
<1>4. ASSUME NEW t \in Sessions, Handshake(t) \/ HandshakeFails(t) \/ Receive(t)
      PROVE  Bound'
  BY <1>4 DEF Handshake, HandshakeFails, Receive, Listener
<1>5. ASSUME NEW t \in Sessions, PeerCloses(t)
      PROVE  Bound'
  BY <1>5 DEF PeerCloses
<1>6. CASE Ended
  BY <1>6 DEF Ended, vars, globals
<1> QED
  BY <1>1, <1>2, <1>3, <1>4, <1>5, <1>6 DEF Next

LEMMA TerminalStep ==
    ASSUME ClientInv, Next
    PROVE  Terminal'
<1> USE ClientFdsAssumption DEF ClientInv, ClientTypeOK, Threads, Terminal, TerminalStaysOpen,
        HasSocket, Running, Sessions, Stdin, NullSsl
<1>1. CASE Input
  BY <1>1 DEF Input, ReadText, SendCommand, IncompleteGrant, ConnectCommand,
              DisconnectCommand, Ui, globals
<1>2. CASE UiStep
  BY <1>2 DEF UiStep, SendText, StopUnconnected, Stop, StopSend, StopClose, StopFree,
              StopFlag, Join, StartFlag, Create, CreateFails, Ui, client_ch_send, Crash, Close, globals
<1>3. ASSUME NEW t \in Sessions, ListenerStep(t)
      PROVE  Terminal'
  <2>1. CASE InitCtx(t)
    BY <2>1 DEF InitCtx, Listener, Alive, globals
  <2>2. CASE Socket(t)
    BY <2>2 DEF Socket, socket, Listener, Alive, globals
  <2>3. CASE SocketFails(t) \/ ConnectFails(t)
    BY <2>3 DEF SocketFails, ConnectFails, Listener, Alive, globals
  <2>4. CASE Connected(t)
    BY <2>4 DEF Connected, Listener, Alive, globals
  <2>5. CASE NewSsl(t)
    BY <2>5 DEF NewSsl, Listener, Alive, globals
  <2>6. CASE FailedClose(t) \/ CloseSocket(t)
    BY <2>6 DEF FailedClose, CloseSocket, Close, Listener, Alive, globals
  <2>7. CASE HandshakeShutDown(t) \/ FlagOn(t) \/ Read(t) \/ ReadClosed(t) \/ ReadEnds(t)
    BY <2>7 DEF HandshakeShutDown, FlagOn, Read, ReadClosed, ReadEnds, Listener, Alive, globals
  <2>8. CASE FreeCtx(t)
    BY <2>8 DEF FreeCtx, SSL_CTX_free, Listener, Alive, globals
  <2>9. CASE FlagOff(t)
    BY <2>9 DEF FlagOff, Listener, Alive, globals
  <2> QED
    BY <1>3, <2>1, <2>2, <2>3, <2>4, <2>5, <2>6, <2>7, <2>8, <2>9 DEF ListenerStep
<1>4. ASSUME NEW t \in Sessions, Handshake(t) \/ HandshakeFails(t) \/ Receive(t)
      PROVE  Terminal'
  BY <1>4 DEF Handshake, HandshakeFails, Receive, Listener, globals
<1>5. ASSUME NEW t \in Sessions, PeerCloses(t)
      PROVE  Terminal'
  BY <1>5 DEF PeerCloses, globals
<1>6. CASE Ended
  BY <1>6 DEF Ended, vars, globals
<1> QED
  BY <1>1, <1>2, <1>3, <1>4, <1>5, <1>6 DEF Next

\* Only one thread moves: the others have ended or do not exist yet.
LEMMA OthersRest ==
    ASSUME ClientInv, NEW t \in Sessions, Alive(t)
    PROVE  \A u \in Sessions \ {t} : ~Alive(u)
BY DEF ClientInv, Threads

\* The server's side of a session changes when a packet reaches it.
LEMMA SendMoves ==
    ASSUME ClientInv, NEW type, client_ch_send(type)
    PROVE  \A s \in Sessions :
              peer'[s] # peer[s] => pc[s] = "handshake" \/ peer[s] # "none"
<1> USE DEF ClientInv, ClientTypeOK
<1>1. CASE peer' = peer
  BY <1>1
<1>2. CASE Delivered(ssl.of, type) /\ (pc[ssl.of] = "handshake" \/ peer[ssl.of] \in {"secured", "leaving"})
  BY <1>2 DEF Delivered
<1>3. CASE \E s : peer' = [peer EXCEPT ![s] = "gone"] /\ (pc[s] = "handshake" \/ peer[s] # "none")
  BY <1>3
<1> QED
  BY <1>1, <1>2, <1>3 DEF client_ch_send

\* Sockets only depends on who owns a descriptor and how far it is.
LEMMA SocketsKept ==
    ASSUME ClientInv, UNCHANGED <<open, sockfd>>,
           NEW t \in Sessions, NEW to, pc' = [pc EXCEPT ![t] = to],
           to = pc[t] \/ (pc[t] \in HasSocket /\ to \in Reached)
                     \/ (pc[t] \in Finishing /\ to \in Finishing)
                     \/ (pc[t] = "init_ctx" /\ to = "socket")
                     \/ (pc[t] = "none" /\ to = "init_ctx"),
           \A s \in Sessions :
              peer'[s] # peer[s] => pc[s] \in Reached \/ peer[s] # "none"
                                   \/ (s = t /\ to \in Reached)
    PROVE  Sockets'
<1> USE DEF ClientInv, ClientTypeOK
<1>1. \A s \in Sessions : pc'[s] = IF s = t THEN to ELSE pc[s]
  OBVIOUS
<1>2. ASSUME NEW fd \in DOMAIN open \ {Stdin}
      PROVE  /\ open[fd] \in Sessions
             /\ pc'[open[fd]] \in HasSocket \union Finishing
             /\ pc'[open[fd]] \in HasSocket => fd = sockfd
             /\ pc'[open[fd]] \in Finishing => peer'[open[fd]] = "none"
  BY <1>1 DEF Sockets, HasSocket, Reached, Finishing
<1>3. ASSUME NEW s \in Sessions, pc'[s] \in Unreached
      PROVE  peer'[s] = "none"
  BY <1>1, <1>3 DEF Sockets, HasSocket, Reached, Finishing, Unreached
<1> QED
  BY <1>2, <1>3 DEF Sockets

LEMMA SocketsStay ==
    ASSUME ClientInv, UNCHANGED <<open, sockfd, pc>>,
           \A s \in Sessions :
              peer'[s] # peer[s] => pc[s] = "handshake" \/ peer[s] # "none"
    PROVE  Sockets'
BY DEF ClientInv, Sockets, HasSocket, Finishing, Unreached

LEMMA SocketsStep ==
    ASSUME ClientInv, Next
    PROVE  Sockets'
<1> USE DEF Ui, Listener, globals
<1>1. CASE Input
  <2>1. ASSUME NEW line \in Lines, SendCommand(line)
        PROVE  Sockets'
    <3>1. client_ch_send(Executes(line).type) /\ UNCHANGED <<open, sockfd, pc>>
      BY <2>1 DEF SendCommand
    <3> QED
      BY <3>1, SendMoves, SocketsStay
  <2>2. CASE ReadText \/ \E line \in Lines : \/ IncompleteGrant(line)
                                            \/ ConnectCommand(line)
                                            \/ DisconnectCommand(line)
    BY <2>2, SocketsStay DEF ReadText, IncompleteGrant, ConnectCommand, DisconnectCommand
  <2> QED
    BY <1>1, <2>1, <2>2 DEF Input
<1>2. CASE UiStep
  <2>1. CASE SendText \/ StopSend
    <3>1. \E type : client_ch_send(type)
      BY <2>1 DEF SendText, StopSend
    <3>2. UNCHANGED <<open, sockfd, pc>>
      BY <2>1 DEF SendText, StopSend
    <3> QED
      BY <3>1, <3>2, SendMoves, SocketsStay
  <2>2. CASE StopClose
    BY <2>2 DEF StopClose, Close, ClientInv, Sockets
  <2>3. CASE StopUnconnected \/ Stop \/ StopFree \/ StopFlag \/ Join \/ StartFlag \/ CreateFails
    BY <2>3, SocketsStay
       DEF StopUnconnected, Stop, StopFree, StopFlag, Join, StartFlag, CreateFails
  <2>4. CASE Create
    <3>1. /\ input_thread + 1 \in Sessions
          /\ pc[input_thread + 1] = "none"
      BY <2>4, MaxSessionsAssumption
         DEF Create, ClientInv, ClientTypeOK, Bound, Threads, Sessions
    <3> QED
      BY <2>4, <3>1, SocketsKept DEF Create
  <2> QED
    BY <1>2, <2>1, <2>2, <2>3, <2>4 DEF UiStep
<1>3. ASSUME NEW t \in Sessions, ListenerStep(t)
      PROVE  Sockets'
  <2>1. CASE InitCtx(t)
    BY <2>1, SocketsKept DEF InitCtx
  <2>2. CASE Socket(t)
    <3>1. \A u \in Sessions \ {t} : pc[u] \notin HasSocket
      BY <2>2, OthersRest DEF Socket, Alive, HasSocket
    <3>2. PICK fd \in Fds : socket(fd, t) /\ sockfd' = fd
      BY <2>2 DEF Socket
    <3>3. /\ DOMAIN open' = DOMAIN open \union {fd}
          /\ \A k \in DOMAIN open' : open'[k] = IF k = fd THEN t ELSE open[k]
      BY <3>2 DEF socket
    <3>4. /\ pc[t] = "socket" /\ pc' = [pc EXCEPT ![t] = "connect"] /\ peer' = peer
          /\ pc \in [Sessions -> ListenerStates]
      BY <2>2 DEF Socket, ClientInv, ClientTypeOK
    <3> QED
      BY <3>1, <3>2, <3>3, <3>4
         DEF ClientInv, Sockets, HasSocket, Finishing, Unreached
  <2>3. CASE SocketFails(t)
    <3>1. \A u \in Sessions : pc[u] \notin HasSocket
      BY <2>3, OthersRest DEF SocketFails, Alive, HasSocket
    <3>2. /\ pc[t] = "socket" /\ pc' = [pc EXCEPT ![t] = "flag_off"]
          /\ open' = open /\ peer' = peer
          /\ pc \in [Sessions -> ListenerStates]
      BY <2>3 DEF SocketFails, ClientInv, ClientTypeOK
    <3> QED
      BY <3>1, <3>2 DEF ClientInv, Sockets, HasSocket, Finishing, Unreached
  <2>4. CASE Connected(t)
    <3>1. \A s \in Sessions : peer'[s] # peer[s] => s = t
      BY <2>4 DEF Connected, ClientInv, ClientTypeOK
    <3> QED
      <4>1. /\ UNCHANGED <<open, sockfd>> /\ pc' = [pc EXCEPT ![t] = "ssl_new"]
            /\ pc[t] \in HasSocket /\ "ssl_new" \in Reached
        BY <2>4 DEF Connected, HasSocket, Reached
      <4> QED
        BY <3>1, <4>1, SocketsKept
  <2>5. CASE ConnectFails(t)
    <3>1. /\ pc[t] = "connect" /\ pc' = [pc EXCEPT ![t] = "flag_off"]
          /\ open' = open /\ peer' = peer /\ sockfd' = sockfd
          /\ pc \in [Sessions -> ListenerStates]
      BY <2>5 DEF ConnectFails, ClientInv, ClientTypeOK
    <3> QED
      BY <3>1 DEF ClientInv, Sockets, HasSocket, Finishing, Unreached
  <2>6. CASE NewSsl(t) \/ HandshakeShutDown(t) \/ FlagOn(t) \/ Read(t) \/ ReadClosed(t)
             \/ ReadEnds(t)
    BY <2>6, SocketsKept
       DEF NewSsl, HandshakeShutDown, FlagOn, Read, ReadClosed, ReadEnds, HasSocket, Reached
  <2>7. CASE FailedClose(t) \/ CloseSocket(t)
    <3>1. /\ pc[t] \in HasSocket /\ pc' = [pc EXCEPT ![t] = "free"]
          /\ peer' = peer /\ sockfd' = sockfd
          /\ DOMAIN open' = DOMAIN open \ {sockfd}
          /\ \A fd \in DOMAIN open' : open'[fd] = open[fd]
          /\ pc \in [Sessions -> ListenerStates]
      BY <2>7 DEF FailedClose, CloseSocket, Close, ClientInv, ClientTypeOK, HasSocket
    <3>2. \A fd \in DOMAIN open' \ {Stdin} : open'[fd] # t
      BY <3>1 DEF ClientInv, Sockets
    <3> QED
      BY <3>1, <3>2 DEF ClientInv, Sockets, HasSocket, Finishing, Unreached
  <2>8. CASE FreeCtx(t) \/ FlagOff(t)
    BY <2>8, SocketsKept DEF FreeCtx, FlagOff, Finishing
  <2> QED
    BY <1>3, <2>1, <2>2, <2>3, <2>4, <2>5, <2>6, <2>7, <2>8 DEF ListenerStep
<1>4. ASSUME NEW t \in Sessions, Handshake(t) \/ HandshakeFails(t) \/ Receive(t)
      PROVE  Sockets'
  <2>1. \A s \in Sessions : peer'[s] # peer[s] => s = t /\ pc[t] = "handshake"
    BY <1>4 DEF Handshake, HandshakeFails, Receive, ClientInv, ClientTypeOK
  <2> QED
    BY <1>4, <2>1, SocketsKept DEF Handshake, HandshakeFails, Receive, HasSocket, Reached
<1>5. ASSUME NEW t \in Sessions, PeerCloses(t)
      PROVE  Sockets'
  <2>1. \A s \in Sessions : peer'[s] # peer[s] => peer[s] # "none"
    BY <1>5 DEF PeerCloses, ClientInv, ClientTypeOK
  <2> QED
    BY <1>5, <2>1, SocketsStay DEF PeerCloses
<1>6. CASE Ended
  BY <1>6, SocketsStay DEF Ended, vars
<1> QED
  BY <1>1, <1>2, <1>3, <1>4, <1>5, <1>6 DEF Next

LEMMA ContextsStep ==
    ASSUME ClientInv, Next
    PROVE  Contexts'
<1> USE DEF ClientInv, ClientTypeOK, Threads, Flag, Contexts, Alive, BeforeDestroy,
        HasSocket, Reached, Sessions
<1>1. CASE Input
  <2>1. ui = "input" /\ UNCHANGED <<pc, ctx, refs>>
    BY <1>1, Zenon DEF Input, ReadText, SendCommand, IncompleteGrant, ConnectCommand,
                       DisconnectCommand, Ui, globals
  <2> QED
    BY <2>1
<1>2. CASE UiStep
  <2>1. CASE StopFree
    BY <2>1 DEF StopFree, Ui, SSL_CTX_free
  <2>2. CASE Join
    BY <2>2 DEF Join, Ui, globals
  <2>3. CASE Create
    BY <2>3 DEF Create, Ui, globals
  <2>4. CASE SendText \/ StopUnconnected \/ Stop \/ StopSend
    <3>1. ui \in {"broadcast", "stop", "stop_send"} /\ UNCHANGED <<pc, ctx, refs>>
      BY <2>4, Zenon DEF SendText, StopUnconnected, Stop, StopSend, Ui, globals
    <3> QED
      BY <3>1
  <2>5. CASE StopClose \/ StopFlag \/ StartFlag \/ CreateFails
    <3>1. UNCHANGED <<pc, ctx, refs>> /\ (BeforeDestroy' => BeforeDestroy)
      BY <2>5 DEF StopClose, StopFlag, StartFlag, CreateFails, Ui, globals
    <3> QED
      BY <3>1
  <2> QED
    BY <1>2, <2>1, <2>2, <2>3, <2>4, <2>5, Zenon DEF UiStep
<1>3. ASSUME NEW t \in Sessions, ListenerStep(t)
      PROVE  Contexts'
  <2>1. CASE InitCtx(t)
    BY <2>1 DEF InitCtx, Listener, globals
  <2>2. CASE Socket(t)
    BY <2>2 DEF Socket, socket, Listener, globals
  <2>3. CASE SocketFails(t) \/ ConnectFails(t)
    <3>1. /\ pc' = [pc EXCEPT ![t] = "flag_off"] /\ pc[t] \in {"socket", "connect"}
          /\ UNCHANGED <<ui, ctx, refs>>
      BY <2>3 DEF SocketFails, ConnectFails, Listener, globals
    <3> QED
      BY <3>1
  <2>4. CASE Connected(t)
    BY <2>4 DEF Connected, Listener, globals
  <2>5. CASE NewSsl(t)
    <3>1. ctx = t /\ \A u \in Sessions \ {t} : ~Alive(u)
      BY <2>5, OthersRest DEF NewSsl, Listener
    <3>2. /\ pc' = [pc EXCEPT ![t] = "handshake"]
          /\ UNCHANGED <<ui, ctx>>
      BY <2>5 DEF NewSsl, Listener
    <3>3. BeforeDestroy => refs[t] = 1
      BY <2>5 DEF NewSsl, Listener
    <3>4. BeforeDestroy => refs' = [refs EXCEPT ![t] = 2]
      BY <2>5, <3>1, <3>3 DEF NewSsl
    <3>5. \A u \in Sessions \ {t} : pc'[u] = pc[u] /\ pc[u] \in {"none", "ended"}
      BY <3>1, <3>2
    <3>6. pc'[t] = "handshake" /\ (BeforeDestroy' => refs'[t] = 2)
      BY <3>2, <3>4
    <3> QED
      BY <3>1, <3>2, <3>5, <3>6
  <2>6. CASE FailedClose(t) \/ CloseSocket(t)
    <3>1. pc' = [pc EXCEPT ![t] = "free"] /\ pc[t] \in {"failed_close", "close"}
          /\ UNCHANGED <<ui, ctx, refs>>
      BY <2>6, Zenon DEF FailedClose, CloseSocket, Listener
    <3> QED
      BY <3>1
  <2>7. CASE HandshakeShutDown(t) \/ FlagOn(t) \/ Read(t) \/ ReadClosed(t) \/ ReadEnds(t)
    <3>1. PICK at \in {"flag_on", "listen", "reading", "close"} :
             /\ pc' = [pc EXCEPT ![t] = at]
             /\ pc[t] \in {"handshake", "flag_on", "listen", "reading"}
             /\ UNCHANGED <<ui, ctx, refs>>
      BY <2>7, Zenon DEF HandshakeShutDown, FlagOn, Read, ReadClosed, ReadEnds, Listener, globals
    <3> QED
      BY <3>1
  <2>8. CASE FreeCtx(t)
    <3>1. pc' = [pc EXCEPT ![t] = "flag_off"] /\ UNCHANGED <<ui, ctx>>
      BY <2>8 DEF FreeCtx, Listener
    <3>2. ctx = t /\ \A u \in Sessions \ {t} : ~Alive(u)
      BY <2>8, OthersRest DEF FreeCtx, Listener
    <3>3. \A u \in Sessions \ {t} : pc'[u] = pc[u] /\ pc[u] \in {"none", "ended"}
      BY <3>1, <3>2
    <3>4. pc'[t] = "flag_off"
      BY <3>1
    <3> QED
      BY <3>1, <3>2, <3>3, <3>4
  <2>9. CASE FlagOff(t)
    BY <2>9 DEF FlagOff, Listener, globals
  <2> QED
    BY <1>3, <2>1, <2>2, <2>3, <2>4, <2>5, <2>6, <2>7, <2>8, <2>9 DEF ListenerStep
<1>4. ASSUME NEW t \in Sessions, Handshake(t) \/ HandshakeFails(t) \/ Receive(t)
      PROVE  Contexts'
  <2>1. PICK at \in {"flag_on", "failed_close", "listen", "close"} :
           /\ pc' = [pc EXCEPT ![t] = at] /\ pc[t] \in {"handshake", "reading"}
           /\ UNCHANGED <<ui, ctx, refs>>
    BY <1>4, Zenon DEF Handshake, HandshakeFails, Receive, Listener, globals
  <2> QED
    BY <2>1
<1>5. ASSUME NEW t \in Sessions, PeerCloses(t)
      PROVE  Contexts'
  BY <1>5 DEF PeerCloses, globals
<1>6. CASE Ended
  BY <1>6 DEF Ended, vars, globals
<1> QED
  BY <1>1, <1>2, <1>3, <1>4, <1>5, <1>6 DEF Next

LEMMA DestinationStep ==
    ASSUME ClientInv, Next
    PROVE  Destination'
<1> USE DEF ClientInv, ClientTypeOK, Threads, Flag, Destination, Alive,
        HasSocket, Reached, Sessions
<1>1. CASE Input
  BY <1>1 DEF Input, ReadText, SendCommand, IncompleteGrant, ConnectCommand,
              DisconnectCommand, Ui, globals
<1>2. CASE UiStep
  BY <1>2 DEF UiStep, SendText, StopUnconnected, Stop, StopSend, StopClose, StopFree,
              StopFlag, Join, StartFlag, Create, CreateFails, Ui, globals
<1>3. ASSUME NEW t \in Sessions, ListenerStep(t)
      PROVE  Destination'
  <2>1. CASE InitCtx(t)
    BY <2>1 DEF InitCtx, Listener, globals
  <2>2. CASE Socket(t)
    BY <2>2 DEF Socket, socket, Listener, globals
  <2>3. CASE SocketFails(t) \/ ConnectFails(t)
    BY <2>3 DEF SocketFails, ConnectFails, Listener, globals
  <2>4. CASE Connected(t)
    <3>1. \A u \in Sessions \ {t} : ~Alive(u)
      BY <2>4, OthersRest DEF Connected, Listener
    <3>2. /\ pc' = [pc EXCEPT ![t] = "ssl_new"]
          /\ UNCHANGED <<ui, arg_host>>
          /\ host' = [host EXCEPT ![t] = arg_host]
      BY <2>4 DEF Connected, Listener
    <3> QED
      BY <3>1, <3>2
  <2>5. CASE NewSsl(t)
    BY <2>5 DEF NewSsl, Listener, globals
  <2>6. CASE FailedClose(t) \/ CloseSocket(t)
    BY <2>6 DEF FailedClose, CloseSocket, Close, Listener, globals
  <2>7. CASE HandshakeShutDown(t) \/ FlagOn(t) \/ Read(t) \/ ReadClosed(t) \/ ReadEnds(t)
    BY <2>7 DEF HandshakeShutDown, FlagOn, Read, ReadClosed, ReadEnds, Listener, globals
  <2>8. CASE FreeCtx(t)
    BY <2>8 DEF FreeCtx, SSL_CTX_free, Listener, globals
  <2>9. CASE FlagOff(t)
    BY <2>9 DEF FlagOff, Listener, globals
  <2> QED
    BY <1>3, <2>1, <2>2, <2>3, <2>4, <2>5, <2>6, <2>7, <2>8, <2>9 DEF ListenerStep
<1>4. ASSUME NEW t \in Sessions, Handshake(t) \/ HandshakeFails(t) \/ Receive(t)
      PROVE  Destination'
  BY <1>4 DEF Handshake, HandshakeFails, Receive, Listener, globals
<1>5. ASSUME NEW t \in Sessions, PeerCloses(t)
      PROVE  Destination'
  BY <1>5 DEF PeerCloses, globals
<1>6. CASE Ended
  BY <1>6 DEF Ended, vars, globals
<1> QED
  BY <1>1, <1>2, <1>3, <1>4, <1>5, <1>6 DEF Next

LEMMA NextKeeps == ClientInv /\ [Next]_vars => ClientInv'
<1>1. ASSUME ClientInv, Next PROVE ClientInv'
  BY <1>1, TypeStep, ThreadsStep, FlagStep, BoundStep, TerminalStep, SocketsStep,
     ContextsStep, DestinationStep DEF ClientInv
<1>2. ASSUME ClientInv, UNCHANGED vars PROVE ClientInv'
  <2> USE <1>2 DEF vars, globals
  <2>1. ClientTypeOK'
    BY DEF ClientInv, ClientTypeOK
  <2>2. Threads' /\ Flag' /\ Bound' /\ Terminal'
    BY DEF ClientInv, Threads, Flag, Bound, Alive, Terminal, TerminalStaysOpen, Running
  <2>3. Sockets'
    BY SocketsStay
  <2>4. Contexts' /\ Destination'
    BY DEF ClientInv, Contexts, Destination, Alive, BeforeDestroy
  <2> QED
    BY <2>1, <2>2, <2>3, <2>4 DEF ClientInv
<1> QED
  BY <1>1, <1>2

\* The inductive invariant: the flag, the threads and the globals agree.
THEOREM ClientInvariance == Spec => []ClientInv
<1>1. ClientInv /\ [Next]_vars => ClientInv'
  BY NextKeeps
<1> QED
  BY InitHolds, <1>1, PTL DEF Spec

\* Every variable of the client keeps its type: no context's reference count
\* falls below zero although two threads free it.
THEOREM ClientTypeCorrect == Spec => []ClientTypeOK
<1>1. ClientInv => ClientTypeOK
  BY DEF ClientInv
<1> QED
  BY <1>1, ClientInvariance, PTL

\* Two listener threads never run at once, and at the prompt is_connected tells
\* whether one runs (client.c:360-451).
THEOREM OnlyOneListener == Spec => []OneListener
<1>1. ClientInv => OneListener
  <2> SUFFICES ASSUME ClientInv PROVE OneListener
    OBVIOUS
  <2>1. input_thread \in Sessions \/ input_thread = 0
    BY MaxSessionsAssumption DEF ClientInv, ClientTypeOK, Sessions
  <2>2. \A t \in Sessions : Alive(t) => t = input_thread
    BY DEF ClientInv, Threads
  <2>3. ui = "input" => (is_connected <=> \E t \in Sessions : Alive(t))
    BY DEF ClientInv, Flag
  <2>4. input_thread > 0 => input_thread \in Sessions
    BY <2>1
  <2> QED
    BY <2>2, <2>3, <2>4 DEF OneListener
<1> QED
  BY <1>1, ClientInvariance, PTL

\* client_ch_destroy never closes descriptor 0 (client_ch.c:18, :145).
THEOREM TerminalIsNeverClosed == Spec => []TerminalStaysOpen
<1>1. ClientInv => TerminalStaysOpen
  BY DEF ClientInv, Terminal
<1> QED
  BY <1>1, ClientInvariance, PTL

\* A session that reached the server gives its descriptor back (client_ch.c:145).
THEOREM DescriptorsComeBack == Spec => []OnlyUnreachedLeak
<1>1. ClientInv => OnlyUnreachedLeak
  BY DEF ClientInv, Sockets, Finishing, OnlyUnreachedLeak
<1> QED
  BY <1>1, ClientInvariance, PTL

\* The SSL context stays alive while the listener uses it (client_ch.c:98-146).
THEOREM ContextIsHeld == Spec => []ContextHeld
<1>1. ClientInv => ContextHeld
  BY DEF ClientInv, Contexts, BeforeDestroy, HasSocket, Reached, ContextHeld
<1> QED
  BY <1>1, ClientInvariance, PTL

\* An established session is one with the host named last (client.c:400-420).
THEOREM ConnectedToTheHostNamed == Spec => []ConnectedWhereAsked
<1>1. ClientInv => ConnectedWhereAsked
  BY DEF ClientInv, Destination, HasSocket, Reached, ConnectedWhereAsked
<1> QED
  BY <1>1, ClientInvariance, PTL

==============================================================================
