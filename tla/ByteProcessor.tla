---------------------------- MODULE ByteProcessor ----------------------------
(***************************************************************************)
(* The readers of server_ch_listen and client_ch_listen and                *)
(* bp_process_data (byteprocessor.c), which cuts what SSL_read returns     *)
(* into packets.                                                           *)
(*                                                                         *)
(* A packet starts with its own length (datapacket_finish) and is written  *)
(* by one SSL_write, so it travels in a TLS record of its own; SSL_read    *)
(* returns up to BufSize bytes of one record and keeps the others.  A byte *)
(* is named by the packet and the place it comes from: its value matters   *)
(* only where a length is read.                                            *)
(***************************************************************************)
EXTENDS Integers, Sequences

CONSTANTS
    Sockets,       \* the connections this reader serves
    Lengths,       \* lengths of the packets peers write
    BufSize,       \* sizeof(data_buffer) and sizeof(rest_buffer), 1024
    HeaderLen,     \* sizeof(int), 4
    Stride,        \* sizeof(byte *), 8: total_data is an array of pointers
    GarbageSizes,  \* lengths that bytes which are no header may read as
    SelectsFirst,  \* select() before each read: the server's loop
    MaxPackets,    \* bound: packets written to a socket
    MaxCallbacks   \* bound: callbacks made for a socket

ASSUME SizesAssumption ==
    /\ HeaderLen \in Nat \ {0}
    /\ Stride \in Nat \ {0}
    /\ BufSize \in Nat \ {0}
    /\ GarbageSizes \subseteq Int
ASSUME LengthsAssumption == Lengths \subseteq {n \in Nat : n >= HeaderLen}
ASSUME SelectsFirstAssumption == SelectsFirst \in BOOLEAN
ASSUME BoundsAssumption == MaxPackets \in Nat /\ MaxCallbacks \in Nat

VARIABLES
    sent,         \* per socket, the packets written to it
    network,      \* per socket, those the kernel holds as unread records
    pending,      \* per socket, decrypted bytes SSL_read has kept back
    received,     \* per socket, the bytes of every packet handed to the callback
    reader,       \* "running", "stopped" or "corrupt"
    data,         \* what SSL_read returned and bp_process_data works on
    sender,       \* the socket it was read from
    rest_buffer   \* rest_buffer[0 .. rest_buffer_len - 1]

streams == <<sent, network, pending>>
vars == <<sent, network, pending, received, reader, data, sender, rest_buffer>>

Packet(s, no, len) == [from |-> s, no |-> no, len |-> len]
Byte(p, i) == [of |-> p, at |-> i]
Bytes(p) == [i \in 1 .. p.len |-> Byte(p, i)]

NoPacket == [from |-> "none", no |-> 0, len |-> 0]
Garbage == Byte(NoPacket, 0)   \* memory that was never written

------------------------------------------------------------------------------
(* The peers and SSL_read *)

Send(s, len) ==
    LET p == Packet(s, Len(sent[s]) + 1, len)
    IN  /\ Len(sent[s]) < MaxPackets
        /\ sent' = [sent EXCEPT ![s] = Append(@, p)]
        /\ network' = [network EXCEPT ![s] = Append(@, p)]
        /\ UNCHANGED <<pending, received, reader, data, sender, rest_buffer>>

\* select() looks at the kernel's buffer and does not see what SSL has kept.
Readable(s) ==
    network[s] # <<>> \/ (~SelectsFirst /\ pending[s] # <<>>)

SSL_read(s) ==
    LET kept  == pending[s] # <<>>
        avail == IF kept THEN pending[s] ELSE Bytes(Head(network[s]))
        n     == IF Len(avail) < BufSize THEN Len(avail) ELSE BufSize
    IN  /\ data' = SubSeq(avail, 1, n)
        /\ pending' = [pending EXCEPT ![s] = SubSeq(avail, n + 1, Len(avail))]
        /\ network' = IF kept THEN network ELSE [network EXCEPT ![s] = Tail(@)]

Read(s) ==
    /\ reader = "running"
    /\ data = <<>>
    /\ Readable(s)
    /\ SSL_read(s)
    /\ sender' = s
    /\ UNCHANGED <<sent, received, reader, rest_buffer>>

------------------------------------------------------------------------------
(* bp_process_data: an action is one turn of its loop *)

TotalLen == Len(rest_buffer) + Len(data)

\* Byte i of total_data.  The second memcpy counts its offset in elements of
\* total_data, which are Stride bytes wide.
TotalData(i) ==
    LET gap == Stride * Len(rest_buffer)
    IN  IF i <= Len(rest_buffer) THEN rest_buffer[i]
        ELSE IF i \in gap + 1 .. gap + Len(data) THEN data[i - gap]
        ELSE Garbage

Cut(from, len) == [i \in 1 .. len |-> TotalData(from + i)]

\* bc_to_int of the first bytes: the length of a packet if they are its header.
PacketSizes ==
    LET p == TotalData(1).of
    IN  IF p # NoPacket /\ Cut(0, HeaderLen) = SubSeq(Bytes(p), 1, HeaderLen)
        THEN {p.len}
        ELSE GarbageSizes

cb_msg_rcv(size) ==
    /\ Len(received[sender]) < MaxCallbacks
    /\ received' = [received EXCEPT ![sender] = Append(@, Cut(0, size))]

\* Bytes go into rest_buffer, which holds BufSize of them.
KeepRest(bytes) ==
    /\ rest_buffer' = bytes
    /\ reader' = IF Len(bytes) > BufSize THEN "corrupt" ELSE reader

Processing == reader = "running" /\ data # <<>>

\* "read too much": the loop turns again, over the same data.  The source of
\* the rest is an offset in elements of total_data, too.
ReadTooMuch(size) ==
    /\ Processing
    /\ size >= 0 /\ size < TotalLen
    /\ cb_msg_rcv(size)
    /\ KeepRest(Cut(Stride * size, TotalLen - size))
    /\ UNCHANGED <<streams, data, sender>>

\* A whole packet; rest_buffer_len is left as it was.
WholePacket_keeps_data_as_rest(size) ==   \* mutant
    /\ Processing
    /\ size = TotalLen
    /\ cb_msg_rcv(size)
    /\ data' = <<>>
    /\ KeepRest(Cut(0, TotalLen))
    /\ UNCHANGED <<streams, sender>>

WholePacket(size) ==
    /\ Processing
    /\ size = TotalLen
    /\ cb_msg_rcv(size)
    /\ data' = <<>>
    /\ UNCHANGED <<streams, reader, sender, rest_buffer>>

Unfinished(size) ==
    /\ Processing
    /\ size > TotalLen
    /\ KeepRest(Cut(0, TotalLen))
    /\ data' = <<>>
    /\ UNCHANGED <<streams, received, sender>>

\* bp_process_data returns 0: the client's loop ends, the server's goes on.
NegativeSize(size) ==
    /\ Processing
    /\ size < 0
    /\ data' = <<>>
    /\ reader' = IF SelectsFirst THEN reader ELSE "stopped"
    /\ UNCHANGED <<streams, received, sender, rest_buffer>>

Process(size) ==
    \/ ReadTooMuch(size)
    \/ WholePacket(size)
    \/ Unfinished(size)
    \/ NegativeSize(size)

ProcessData == \E size \in PacketSizes : Process(size)

------------------------------------------------------------------------------
Init ==
    /\ sent = [s \in Sockets |-> <<>>]
    /\ network = [s \in Sockets |-> <<>>]
    /\ pending = [s \in Sockets |-> <<>>]
    /\ received = [s \in Sockets |-> <<>>]
    /\ reader = "running"
    /\ data = <<>>
    /\ sender \in Sockets
    /\ rest_buffer = <<>>

Next ==
    \/ \E s \in Sockets, len \in Lengths : Send(s, len)
    \/ \E s \in Sockets : Read(s)
    \/ ProcessData

\* The reader does not rest while it has something to do; select() reports
\* every ready socket and the loop visits all of them, so a socket that is
\* readable again and again is read.
Fairness ==
    /\ \A s \in Sockets : SF_vars(Read(s))
    /\ WF_vars(ProcessData)

Spec == Init /\ [][Next]_vars
FairSpec == Spec /\ Fairness

------------------------------------------------------------------------------
(* Properties *)

Intact(bytes) == bytes # <<>> /\ bytes = Bytes(bytes[1].of)

\* A callback gets a whole packet: all the bytes of one, and only those
\* (byteprocessor.h:10 "when a whole packet is read, the callback function is
\* called with a newly allocated byte array").
CallbacksGetWholePackets ==
    \A s \in Sockets : \A n \in 1 .. Len(received[s]) : Intact(received[s][n])

\* The first packet that does not fit into data_buffer and has been read, at
\* least in part; if there is none, one past the last packet.
Split(s) ==
    LET arrived == Len(sent[s]) - Len(network[s])
    IN  {n \in 1 .. arrived : sent[s][n].len > BufSize}

\* As long as no packet that exceeds data_buffer has been read from any
\* socket, packets are delivered whole, once and in the order in which they
\* were written: the code's faults are confined to packets that are split.
ExactUntilSplit ==
    (\A s \in Sockets : Split(s) = {}) =>
        \A s \in Sockets :
            LET done == Len(sent[s]) - Len(network[s])
                        - (IF data # <<>> /\ sender = s THEN 1 ELSE 0)
            IN  /\ received[s] = [n \in 1 .. done |-> Bytes(sent[s][n])]
                /\ rest_buffer = <<>> /\ reader = "running"

\* What a callback got, as a packet: itself if it is whole.
PacketOf(bytes) == IF Intact(bytes) THEN bytes[1].of ELSE NoPacket

Promise == INSTANCE Framing WITH
    Packets <- [from : Sockets, no : 1 .. MaxPackets, len : Lengths],
    received <- [s \in Sockets |->
                    [n \in 1 .. Len(received[s]) |-> PacketOf(received[s][n])]]

\* The reader implements Framing, if every packet fits into data_buffer.
ImplementsFraming == Promise!Spec
==============================================================================
