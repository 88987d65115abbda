---------------------------- MODULE FramingProofs ----------------------------
(***************************************************************************)
(* Proofs about ByteProcessor, for any sockets, packet lengths, size of    *)
(* the buffers, width of a pointer, and either of the two read loops: up   *)
(* to the first packet that does not fit into data_buffer delivery is      *)
(* exact, and if there is none, the reader takes the steps of Framing.     *)
(***************************************************************************)
EXTENDS ByteProcessor, SequenceTheorems, TLAPS

Written == [from : Sockets, no : Nat \ {0}, len : Lengths]

\* How many packets have been read, and how many of them are done with.
Arrived(s) == Len(sent[s]) - Len(network[s])
InWork(s) == IF data # <<>> /\ sender = s THEN 1 ELSE 0
Done(s) == Arrived(s) - InWork(s)

LEMMA SameSequence ==
    ASSUME NEW S, NEW p \in Seq(S), NEW q \in Seq(S), NEW n \in Nat,
           Len(p) = n, Len(q) = n, \A i \in 1 .. n : p[i] = q[i]
    PROVE  q = p
OBVIOUS

\* The kernel holds the packets that were written last.
Streams ==
    /\ sent \in [Sockets -> Seq(Written)]
    /\ network \in [Sockets -> Seq(Written)]
    /\ DOMAIN pending = Sockets
    /\ DOMAIN received = Sockets
    /\ sender \in Sockets
    /\ \A s \in Sockets :
          /\ Len(network[s]) <= Len(sent[s])
          /\ \A k \in 1 .. Len(network[s]) : network[s][k] = sent[s][Arrived(s) + k]

NoSplit == \A s \in Sockets : Split(s) = {}

\* The reader between two packets, or with one whole packet at hand.
Exact ==
    /\ \A s \in Sockets : pending[s] = <<>>
    /\ rest_buffer = <<>> /\ reader = "running"
    /\ data # <<>> => /\ Arrived(sender) >= 1
                      /\ data = Bytes(sent[sender][Arrived(sender)])
    /\ \A s \in Sockets : received[s] = [n \in 1 .. Done(s) |-> Bytes(sent[s][n])]

ReaderInv == Streams /\ (NoSplit => Exact)

------------------------------------------------------------------------------
(* Packets and their bytes *)

LEMMA WrittenLength ==
    ASSUME NEW p \in Written
    PROVE  p.len \in Nat /\ p.len >= 1 /\ p.len >= HeaderLen
<1>1. p.len \in Lengths
  BY Zenon DEF Written
<1>2. p.len \in Nat /\ p.len >= HeaderLen
  BY <1>1, LengthsAssumption
<1>3. HeaderLen \in Nat /\ HeaderLen >= 1
  BY SizesAssumption
<1> QED
  BY <1>2, <1>3

LEMMA BytesOfPacket ==
    ASSUME NEW p \in Written
    PROVE  /\ Bytes(p) \in Seq({Byte(p, i) : i \in 1 .. p.len})
           /\ Len(Bytes(p)) = p.len
           /\ Bytes(p) # <<>>
           /\ \A i \in 1 .. p.len : Bytes(p)[i] = Byte(p, i)
<1>1. p.len \in Nat /\ p.len >= 1
  BY WrittenLength
<1>2. Bytes(p) \in [1 .. p.len -> {Byte(p, i) : i \in 1 .. p.len}]
  BY DEF Bytes
<1>3. Bytes(p) \in Seq({Byte(p, i) : i \in 1 .. p.len}) /\ Len(Bytes(p)) = p.len
  BY <1>1, <1>2
<1>4. Bytes(p) # <<>>
  BY <1>1, <1>3
<1> QED
  BY <1>3, <1>4 DEF Bytes

\* A byte tells which packet it is from.
LEMMA WholeIsIntact ==
    ASSUME NEW p \in Written
    PROVE  Intact(Bytes(p)) /\ PacketOf(Bytes(p)) = p
<1>0. 1 \in 1 .. p.len
  BY WrittenLength
<1>1. Bytes(p)[1] = Byte(p, 1)
  BY <1>0, BytesOfPacket
<1>2. Bytes(p)[1].of = p
  BY <1>1 DEF Byte
<1>3. Intact(Bytes(p))
  BY <1>2, BytesOfPacket DEF Intact
<1> QED
  BY <1>2, <1>3 DEF PacketOf

\* Without an oversized packet, every one that arrived fits into data_buffer.
LEMMA ArrivedFit ==
    ASSUME Streams, NoSplit, NEW s \in Sockets, NEW n \in 1 .. Arrived(s)
    PROVE  sent[s][n] \in Written /\ sent[s][n].len <= BufSize
<1>1. sent[s] \in Seq(Written) /\ network[s] \in Seq(Written)
  BY DEF Streams
<1>2. n \in 1 .. Len(sent[s])
  <2>1. Len(sent[s]) \in Nat /\ Len(network[s]) \in Nat
    BY <1>1
  <2> QED
    BY <2>1 DEF Arrived
<1>3. sent[s][n] \in Written
  BY <1>1, <1>2
<1>4. ~ sent[s][n].len > BufSize
  BY DEF NoSplit, Split, Arrived
<1> QED
  BY <1>3, <1>4, WrittenLength, SizesAssumption

------------------------------------------------------------------------------
LEMMA ReaderInit == Init => ReaderInv
<1> SUFFICES ASSUME Init PROVE ReaderInv
  OBVIOUS
<1>1. /\ sent \in [Sockets -> Seq(Written)] /\ network \in [Sockets -> Seq(Written)]
      /\ \A s \in Sockets : Len(sent[s]) = 0 /\ Len(network[s]) = 0
  BY DEF Init
<1>2. Streams
  BY <1>1 DEF Init, Streams
<1>3. \A s \in Sockets : Done(s) = 0 /\ received[s] = <<>>
  <2> TAKE s \in Sockets
  <2>1. InWork(s) = 0
    BY DEF InWork, Init
  <2>2. received[s] = <<>>
    BY DEF Init
  <2> QED
    BY <1>1, <2>1, <2>2 DEF Done, Arrived
<1>4. \A s \in Sockets : received[s] = [n \in 1 .. Done(s) |-> Bytes(sent[s][n])]
  <2> TAKE s \in Sockets
  <2>1. 1 .. Done(s) = {}
    BY <1>3
  <2> QED
    BY <1>3, <2>1
<1>5. Exact
  BY <1>4 DEF Exact, Init
<1> QED
  BY <1>2, <1>5 DEF ReaderInv

LEMMA SendKeeps ==
    ASSUME ReaderInv, NEW to \in Sockets, NEW len \in Lengths, Send(to, len)
    PROVE  ReaderInv'
<1> DEFINE p == Packet(to, Len(sent[to]) + 1, len)
<1>1. /\ sent' = [sent EXCEPT ![to] = Append(@, p)]
      /\ network' = [network EXCEPT ![to] = Append(@, p)]
      /\ UNCHANGED <<pending, received, reader, data, sender, rest_buffer>>
  BY DEF Send
<1>2. p \in Written
  BY DEF Packet, Written, ReaderInv, Streams
<1> HIDE DEF p
<1>3. sent' \in [Sockets -> Seq(Written)] /\ network' \in [Sockets -> Seq(Written)]
  BY <1>1, <1>2 DEF ReaderInv, Streams
<1>4. ASSUME NEW s \in Sockets
      PROVE  /\ Arrived(s)' = Arrived(s)
             /\ Len(network[s]') <= Len(sent[s]')
             /\ Len(sent[s]) <= Len(sent[s]')
             /\ \A n \in 1 .. Len(sent[s]) : sent'[s][n] = sent[s][n]
             /\ \A k \in 1 .. Len(network[s]') :
                   network'[s][k] = sent'[s][Arrived(s) + k]
  <2>1. /\ sent[s] \in Seq(Written) /\ network[s] \in Seq(Written)
        /\ Len(network[s]) <= Len(sent[s])
        /\ \A k \in 1 .. Len(network[s]) : network[s][k] = sent[s][Arrived(s) + k]
    BY DEF ReaderInv, Streams
  <2>2. CASE s = to
    <3>1. sent'[s] = Append(sent[s], p) /\ network'[s] = Append(network[s], p)
      BY <1>1, <2>2 DEF ReaderInv, Streams
    <3>2. /\ Len(sent[s]) \in Nat /\ Len(network[s]) \in Nat
          /\ Len(sent[s]') = Len(sent[s]) + 1
          /\ Len(network[s]') = Len(network[s]) + 1
          /\ \A n \in 1 .. Len(sent[s]) : sent'[s][n] = sent[s][n]
          /\ \A k \in 1 .. Len(network[s]) : network'[s][k] = network[s][k]
          /\ sent'[s][Len(sent[s]) + 1] = p /\ network'[s][Len(network[s]) + 1] = p
      BY <1>2, <2>1, <3>1
    <3>3. Arrived(s)' = Arrived(s)
      BY <3>2 DEF Arrived
    <3>5. PICK m \in Nat, n \in Nat :
              m = Len(sent[s]) /\ n = Len(network[s]) /\ Arrived(s) = m - n
      BY <3>2 DEF Arrived
    <3>6. Arrived(s) = m - n /\ n <= m
      BY <2>1, <3>5
    <3>4. ASSUME NEW k \in 1 .. n + 1
          PROVE  network'[s][k] = sent'[s][Arrived(s) + k]
      <4>1. CASE k = n + 1
        <5>1. Arrived(s) + k = m + 1
          BY <3>6, <4>1
        <5> QED
          BY <3>2, <3>5, <4>1, <5>1
      <4>2. CASE k # n + 1
        <5>1. k \in 1 .. Len(network[s])
          BY <3>5, <4>2
        <5>4. Arrived(s) + k \in 1 .. m
          BY <3>6, <4>2
        <5>2. Arrived(s) + k \in 1 .. Len(sent[s])
          BY <3>5, <5>4
        <5>3. network[s][k] = sent[s][Arrived(s) + k]
          BY <2>1, <5>1
        <5> QED
          BY <3>2, <5>1, <5>2, <5>3
      <4> QED
        BY <4>1, <4>2
    <3>7. \A k \in 1 .. Len(network[s]') : network'[s][k] = sent'[s][Arrived(s) + k]
      BY <3>2, <3>4, <3>5
    <3> QED
      BY <2>1, <3>2, <3>3, <3>7
  <2>3. CASE s # to
    <3>1. sent'[s] = sent[s] /\ network'[s] = network[s]
      BY <1>1, <2>3 DEF ReaderInv, Streams
    <3>2. Arrived(s)' = Arrived(s)
      BY <3>1 DEF Arrived
    <3> QED
      BY <2>1, <3>1, <3>2
  <2> QED
    BY <2>2, <2>3
<1>5. Streams'
  <2>1. \A s \in Sockets :
           /\ Len(network[s]') <= Len(sent[s]')
           /\ \A k \in 1 .. Len(network[s]') : network'[s][k] = sent'[s][Arrived(s)' + k]
    BY <1>4
  <2> QED
    BY <1>1, <1>3, <2>1 DEF ReaderInv, Streams
<1>6. ASSUME NEW s \in Sockets
      PROVE  Arrived(s) \in Int /\ Arrived(s) <= Len(sent[s])
  BY DEF ReaderInv, Streams, Arrived
<1>7. NoSplit' => NoSplit
  <2>1. ASSUME NEW s \in Sockets PROVE Split(s)' = Split(s)
    <3>1. \A n \in 1 .. Arrived(s) : sent'[s][n] = sent[s][n]
      BY <1>4, <1>6 DEF ReaderInv, Streams
    <3>2. /\ Split(s) = {n \in 1 .. Arrived(s) : sent[s][n].len > BufSize}
          /\ Split(s)' = {n \in 1 .. Arrived(s)' : sent'[s][n].len > BufSize}
      BY DEF Split, Arrived
    <3> QED
      BY <1>4, <3>1, <3>2
  <2> QED
    BY <2>1 DEF NoSplit
<1>8. ASSUME Exact PROVE Exact'
  <2>1. \A s \in Sockets : Done(s)' = Done(s) /\ Done(s) <= Len(sent[s]) /\ Done(s) \in Int
    BY <1>1, <1>4, <1>6 DEF Done, InWork
  <2>2. \A s \in Sockets : received'[s] = [n \in 1 .. Done(s)' |-> Bytes(sent'[s][n])]
    BY <1>1, <1>4, <1>8, <2>1 DEF Exact
  <2>3. data # <<>> => sent'[sender][Arrived(sender)] = sent[sender][Arrived(sender)]
    BY <1>4, <1>6, <1>8 DEF Exact, ReaderInv, Streams
  <2> QED
    BY <1>1, <1>4, <1>8, <2>2, <2>3 DEF Exact, ReaderInv, Streams
<1> QED
  BY <1>5, <1>7, <1>8 DEF ReaderInv

LEMMA ReadKeeps ==
    ASSUME ReaderInv, NEW from \in Sockets, Read(from)
    PROVE  ReaderInv'
<1>1. /\ reader = "running" /\ data = <<>>
      /\ Readable(from) /\ SSL_read(from)
      /\ sender' = from
      /\ UNCHANGED <<sent, received, reader, rest_buffer>>
  BY DEF Read
<1>2. DOMAIN pending' = Sockets
  BY <1>1 DEF SSL_read, ReaderInv, Streams
\* Bytes that were kept back belong to a packet that was split before.
<1>3. CASE pending[from] # <<>>
  <2>1. network' = network
    BY <1>1, <1>3 DEF SSL_read
  <2>2. Streams'
    BY <1>1, <1>2, <2>1 DEF ReaderInv, Streams, Arrived
  <2>3. NoSplit' => NoSplit
    BY <1>1, <2>1 DEF NoSplit, Split
  <2>4. ~ NoSplit
    BY <1>3 DEF ReaderInv, Exact
  <2> QED
    BY <2>2, <2>3, <2>4 DEF ReaderInv
<1>4. CASE pending[from] = <<>>
  <2> DEFINE p == Head(network[from])
             avail == Bytes(p)
             n == IF Len(avail) < BufSize THEN Len(avail) ELSE BufSize
  <2>1. network[from] # <<>>
    BY <1>1, <1>4 DEF Readable
  <2>2. /\ data' = SubSeq(avail, 1, n)
        /\ pending' = [pending EXCEPT ![from] = SubSeq(avail, n + 1, Len(avail))]
        /\ network' = [network EXCEPT ![from] = Tail(@)]
    BY <1>1, <1>4 DEF SSL_read
  <2>3. \A s \in Sockets : /\ sent[s] \in Seq(Written) /\ network[s] \in Seq(Written)
                           /\ Len(network[s]) \in Nat /\ Len(sent[s]) \in Nat
                           /\ Len(network[s]) <= Len(sent[s])
    <3> TAKE s \in Sockets
    <3>1. sent[s] \in Seq(Written) /\ network[s] \in Seq(Written)
      BY DEF ReaderInv, Streams
    <3>2. Len(network[s]) <= Len(sent[s])
      BY DEF ReaderInv, Streams
    <3> QED
      BY <3>1, <3>2
  <2>4. PICK a \in Nat, m \in Nat : a = Arrived(from) /\ m = Len(network[from]) /\ m >= 1
    <3>1. Arrived(from) \in Nat
      BY <2>3 DEF Arrived
    <3> QED
      BY <2>1, <2>3, <3>1
  <2>5. /\ network'[from] \in Seq(Written)
        /\ Len(network'[from]) = m - 1
        /\ \A k \in 1 .. m - 1 : network'[from][k] = network[from][k + 1]
        /\ \A s \in Sockets : s # from => network'[s] = network[s]
    BY <2>1, <2>2, <2>3, <2>4 DEF ReaderInv, Streams
  <2>6. Arrived(from)' = a + 1
    BY <1>1, <2>3, <2>4, <2>5 DEF Arrived
  <2>7. \A s \in Sockets : s # from => Arrived(s)' = Arrived(s)
    BY <1>1, <2>5 DEF Arrived
  <2>8. /\ \A k \in 1 .. m : network[from][k] = sent[from][a + k]
        /\ p = sent[from][a + 1] /\ p \in Written
    <3>1. \A k \in 1 .. m : network[from][k] = sent[from][a + k]
      BY <2>4 DEF ReaderInv, Streams
    <3>2. p = network[from][1] /\ p \in Written
      BY <2>1, <2>3
    <3> QED
      BY <2>4, <3>1, <3>2
  <2> HIDE DEF p
  <2>9. Streams'
    <3>1. ASSUME NEW s \in Sockets
          PROVE  /\ Len(network'[s]) <= Len(sent'[s])
                 /\ \A k \in 1 .. Len(network'[s]) : network'[s][k] = sent'[s][Arrived(s)' + k]
      <4>1. CASE s = from
        <5>1. ASSUME NEW k \in 1 .. m - 1
              PROVE  network'[from][k] = sent[from][a + 1 + k]
          <6>1. k + 1 \in 1 .. m /\ a + (k + 1) = a + 1 + k
            BY <2>4
          <6> QED
            BY <2>5, <2>8, <6>1
        <5>2. Len(network'[from]) <= Len(sent[from])
          BY <2>3, <2>4, <2>5
        <5> QED
          BY <1>1, <2>5, <2>6, <4>1, <5>1, <5>2
      <4>2. CASE s # from
        BY <1>1, <2>5, <2>7, <4>2 DEF ReaderInv, Streams
      <4> QED
        BY <4>1, <4>2
    <3>2. network' \in [Sockets -> Seq(Written)]
      BY <2>2, <2>5, <2>3 DEF ReaderInv, Streams
    <3> QED
      BY <1>1, <1>2, <3>1, <3>2 DEF ReaderInv, Streams
  <2>10. NoSplit' => NoSplit
    <3>1. ASSUME NEW s \in Sockets PROVE Split(s) \subseteq Split(s)'
      <4>1. /\ Split(s) = {i \in 1 .. Arrived(s) : sent[s][i].len > BufSize}
            /\ Split(s)' = {i \in 1 .. Arrived(s)' : sent[s][i].len > BufSize}
        BY <1>1 DEF Split, Arrived
      <4>2. 1 .. Arrived(s) \subseteq 1 .. Arrived(s)'
        BY <2>4, <2>6, <2>7
      <4> QED
        BY <4>1, <4>2
    <3> QED
      BY <3>1 DEF NoSplit
  <2>11. ASSUME NoSplit', Exact PROVE Exact'
    <3>1. p.len \in Nat /\ p.len >= 1 /\ p.len <= BufSize
      <4>1. Split(from)' = {i \in 1 .. Arrived(from)' : sent[from][i].len > BufSize}
        BY <1>1 DEF Split, Arrived
      <4>2. a + 1 \in 1 .. Arrived(from)'
        BY <2>4, <2>6
      <4>3. ~ p.len > BufSize
        BY <2>8, <2>11, <4>1, <4>2 DEF NoSplit
      <4> QED
        BY <2>8, <4>3, WrittenLength, SizesAssumption
    <3>2. /\ avail \in Seq({Byte(p, i) : i \in 1 .. p.len})
          /\ Len(avail) = p.len /\ avail # <<>>
      BY <2>8, BytesOfPacket
    <3>3. n = p.len
      BY <3>1, <3>2, SizesAssumption
    <3> HIDE DEF avail, n
    <3>4. data' = avail
      BY <2>2, <3>1, <3>2, <3>3
    <3>5. SubSeq(avail, n + 1, Len(avail)) = <<>>
      BY <3>1, <3>2, <3>3
    <3>6. \A s \in Sockets : pending'[s] = <<>>
      BY <2>2, <2>11, <3>5 DEF Exact, ReaderInv, Streams
    <3>7. \A s \in Sockets : Done(s)' = Done(s)
      <4> TAKE s \in Sockets
      <4>1. InWork(s) = 0 /\ InWork(s)' = IF s = from THEN 1 ELSE 0
        BY <1>1, <3>2, <3>4 DEF InWork
      <4>2. Arrived(s) \in Int
        BY <2>3 DEF Arrived
      <4>3. Arrived(s)' = IF s = from THEN Arrived(s) + 1 ELSE Arrived(s)
        BY <2>4, <2>6, <2>7
      <4> QED
        BY <4>1, <4>2, <4>3 DEF Done
    <3>8. \A s \in Sockets : received'[s] = [i \in 1 .. Done(s)' |-> Bytes(sent'[s][i])]
      BY <1>1, <2>11, <3>7 DEF Exact
    <3>9. Arrived(sender)' >= 1 /\ data' = Bytes(sent'[sender'][Arrived(sender)'])
      <4>1. Arrived(sender)' = a + 1
        BY <1>1, <2>6 DEF Arrived
      <4> QED
        BY <1>1, <2>4, <2>8, <3>4, <4>1 DEF avail
    <3> QED
      BY <1>1, <2>11, <3>6, <3>8, <3>9 DEF Exact
  <2> QED
    BY <2>9, <2>10, <2>11 DEF ReaderInv
<1> QED
  BY <1>3, <1>4

\* One turn of the loop with a whole packet at hand and nothing in rest_buffer:
\* the length is its own, and the packet is handed over.
LEMMA ProcessExact ==
    ASSUME ReaderInv, NoSplit, ProcessData
    PROVE  /\ Arrived(sender) >= 1
           /\ sent[sender][Arrived(sender)] \in Written
           /\ received' = [received EXCEPT ![sender] =
                             Append(@, Bytes(sent[sender][Arrived(sender)]))]
           /\ data # <<>> /\ data' = <<>>
           /\ UNCHANGED <<streams, reader, sender, rest_buffer>>
<1> DEFINE p == sent[sender][Arrived(sender)]
<1>1. data # <<>>
  BY DEF ProcessData, Process, ReadTooMuch, WholePacket, Unfinished, NegativeSize, Processing
<1>2. Exact
  BY DEF ReaderInv
<1>3. /\ Arrived(sender) >= 1 /\ Arrived(sender) \in Int
      /\ data = Bytes(p) /\ rest_buffer = <<>>
  <2>1. Arrived(sender) \in Int
    <3>1. sent[sender] \in Seq(Written) /\ network[sender] \in Seq(Written)
      BY DEF ReaderInv, Streams
    <3>2. Len(sent[sender]) \in Nat /\ Len(network[sender]) \in Nat
      BY <3>1
    <3> QED
      BY <3>2 DEF Arrived
  <2> QED
    BY <1>1, <1>2, <2>1 DEF Exact
<1>4. p \in Written
  BY <1>3, ArrivedFit DEF ReaderInv, Streams
<1> HIDE DEF p
<1>5. /\ p.len \in Nat /\ p.len >= 1 /\ p.len >= HeaderLen /\ HeaderLen \in Nat
      /\ HeaderLen >= 1
  BY <1>4, WrittenLength, SizesAssumption
<1>6. /\ Len(data) = p.len /\ Len(rest_buffer) = 0
      /\ \A i \in 1 .. p.len : data[i] = Byte(p, i)
  BY <1>3, <1>4, BytesOfPacket
<1>7. TotalLen = p.len
  BY <1>5, <1>6 DEF TotalLen
<1>8. ASSUME NEW i \in 1 .. p.len PROVE TotalData(i) = Byte(p, i)
  <2>1. Stride * Len(rest_buffer) = 0
    BY <1>6, SizesAssumption
  <2>2. TotalData(i) = IF i <= 0 THEN rest_buffer[i]
                       ELSE IF i \in 0 + 1 .. 0 + p.len THEN data[i - 0] ELSE Garbage
    BY <1>6, <2>1 DEF TotalData
  <2>3. i - 0 = i /\ ~ i <= 0 /\ i \in 0 + 1 .. 0 + p.len
    BY <1>5
  <2> QED
    BY <1>6, <2>2, <2>3
<1>9. ASSUME NEW k \in 0 .. p.len PROVE Cut(0, k) = [i \in 1 .. k |-> Byte(p, i)]
  <2>1. \A i \in 1 .. k : i \in 1 .. p.len /\ 0 + i = i
    BY <1>5
  <2> QED
    BY <1>8, <2>1 DEF Cut
<1>10. PacketSizes = {p.len}
  <2>1. 1 \in 1 .. p.len
    BY <1>5
  <2>2. TotalData(1).of = p
    BY <1>8, <2>1 DEF Byte
  <2>3. p # NoPacket
    BY <1>4 DEF Written, NoPacket
  <2>4. Cut(0, HeaderLen) = SubSeq(Bytes(p), 1, HeaderLen)
    <3>1. /\ Bytes(p) \in Seq({Byte(p, i) : i \in 1 .. p.len})
          /\ Len(Bytes(p)) = p.len
      BY <1>4, BytesOfPacket
    <3>2. SubSeq(Bytes(p), 1, HeaderLen) = [i \in 1 .. HeaderLen |-> Bytes(p)[i]]
      BY <1>5, <3>1
    <3>3. \A i \in 1 .. HeaderLen : Bytes(p)[i] = Byte(p, i)
      <4>1. \A i \in 1 .. HeaderLen : i \in 1 .. p.len
        BY <1>5
      <4> QED
        BY <1>4, <4>1, BytesOfPacket
    <3>4. Cut(0, HeaderLen) = [i \in 1 .. HeaderLen |-> Byte(p, i)]
      BY <1>5, <1>9
    <3> QED
      BY <3>2, <3>3, <3>4
  <2> QED
    BY <2>2, <2>3, <2>4 DEF PacketSizes
<1>11. Process(p.len)
  BY <1>10 DEF ProcessData
<1>12. WholePacket(p.len)
  BY <1>5, <1>7, <1>11 DEF Process, ReadTooMuch, Unfinished, NegativeSize
<1>13. Cut(0, p.len) = Bytes(p)
  BY <1>5, <1>9 DEF Bytes
<1> QED
  BY <1>1, <1>3, <1>4, <1>12, <1>13 DEF WholePacket, cb_msg_rcv, p

LEMMA ProcessKeeps ==
    ASSUME ReaderInv, ProcessData
    PROVE  ReaderInv'
<1>1. UNCHANGED <<streams, sender>> /\ DOMAIN received' = Sockets
  BY DEF ProcessData, Process, ReadTooMuch, WholePacket, Unfinished, NegativeSize,
         cb_msg_rcv, ReaderInv, Streams
<1>2. Streams'
  BY <1>1 DEF streams, Streams, ReaderInv, Arrived
<1>3. NoSplit' => NoSplit
  BY <1>1 DEF streams, NoSplit, Split
<1>4. ASSUME NoSplit PROVE Exact'
  <2> DEFINE p == sent[sender][Arrived(sender)]
  <2>1. /\ received' = [received EXCEPT ![sender] = Append(@, Bytes(p))]
        /\ data # <<>> /\ data' = <<>> /\ Arrived(sender) >= 1
        /\ UNCHANGED <<streams, reader, sender, rest_buffer>>
    BY <1>4, ProcessExact
  <2>2. Exact
    BY <1>4 DEF ReaderInv
  <2>3. ASSUME NEW s \in Sockets PROVE Arrived(s) \in Int /\ Arrived(s)' = Arrived(s)
    <3>1. sent[s] \in Seq(Written) /\ network[s] \in Seq(Written)
      BY DEF ReaderInv, Streams
    <3>2. Len(sent[s]) \in Nat /\ Len(network[s]) \in Nat
      BY <3>1
    <3> QED
      BY <2>1, <3>2 DEF Arrived, streams
  <2>4. ASSUME NEW s \in Sockets
        PROVE  received'[s] = [n \in 1 .. Done(s)' |-> Bytes(sent'[s][n])]
    <3>1. received[s] = [n \in 1 .. Done(s) |-> Bytes(sent[s][n])]
      BY <2>2 DEF Exact
    <3>2. InWork(s)' = 0 /\ sent' = sent
      BY <2>1 DEF InWork, streams
    <3>3. CASE s = sender
      <4>1. PICK d \in Nat : d = Done(s) /\ Arrived(s) = d + 1 /\ Done(s)' = d + 1
        <5>1. InWork(s) = 1
          BY <2>1, <3>3 DEF InWork
        <5> QED
          BY <2>1, <2>3, <3>2, <3>3, <5>1 DEF Done
      <4>2. received[s] = [n \in 1 .. d |-> Bytes(sent[s][n])]
        BY <3>1, <4>1
      <4>3. received'[s] = Append(received[s], Bytes(sent[s][d + 1]))
        BY <2>1, <3>3, <4>1 DEF ReaderInv, Streams
      <4>4. Append(received[s], Bytes(sent[s][d + 1]))
                = [n \in 1 .. d + 1 |-> Bytes(sent[s][n])]
        <5> DEFINE all == [n \in 1 .. d + 1 |-> Bytes(sent[s][n])]
                   S == {Bytes(sent[s][n]) : n \in 1 .. d + 1}
        <5>1. received[s] \in Seq(S) /\ Len(received[s]) = d
          BY <4>2
        <5>2. all \in Seq(S) /\ Len(all) = d + 1
          OBVIOUS
        <5>3. \A n \in 1 .. d + 1 : Append(received[s], Bytes(sent[s][d + 1]))[n] = all[n]
          BY <4>2, <5>1
        <5>4. /\ Append(received[s], Bytes(sent[s][d + 1])) \in Seq(S)
              /\ Len(Append(received[s], Bytes(sent[s][d + 1]))) = d + 1
          BY <5>1
        <5> QED
          <6> HIDE DEF all, S
          <6>1. all = Append(received[s], Bytes(sent[s][d + 1]))
            BY <5>2, <5>3, <5>4, SameSequence
          <6> QED
            BY <6>1 DEF all
      <4> QED
        BY <3>2, <4>1, <4>3, <4>4
    <3>4. CASE s # sender
      <4>1. InWork(s) = 0
        BY <3>4 DEF InWork
      <4>2. Done(s)' = Done(s)
        BY <2>3, <3>2, <4>1 DEF Done
      <4>3. received'[s] = received[s]
        BY <2>1, <3>4 DEF ReaderInv, Streams
      <4> QED
        BY <3>1, <3>2, <4>2, <4>3
    <3> QED
      BY <3>3, <3>4
  <2> QED
    BY <2>1, <2>2, <2>4 DEF Exact, streams
<1> QED
  BY <1>2, <1>3, <1>4 DEF ReaderInv

LEMMA ReaderInvariance == Spec => []ReaderInv
<1>1. ReaderInv /\ [Next]_vars => ReaderInv'
  <2> SUFFICES ASSUME ReaderInv, [Next]_vars PROVE ReaderInv'
    OBVIOUS
  <2>1. CASE \E s \in Sockets, len \in Lengths : Send(s, len)
    BY <2>1, SendKeeps
  <2>2. CASE \E s \in Sockets : Read(s)
    BY <2>2, ReadKeeps
  <2>3. CASE ProcessData
    BY <2>3, ProcessKeeps
  <2>4. CASE UNCHANGED vars
    <3>1. Streams'
      BY <2>4 DEF vars, streams, ReaderInv, Streams, Arrived
    <3>2. NoSplit' => NoSplit
      BY <2>4 DEF vars, streams, NoSplit, Split
    <3>3. Exact => Exact'
      BY <2>4 DEF vars, streams, Exact, Done, InWork, Arrived
    <3> QED
      BY <3>1, <3>2, <3>3 DEF ReaderInv
  <2> QED
    BY <2>1, <2>2, <2>3, <2>4 DEF Next
<1> QED
  BY ReaderInit, <1>1, PTL DEF Spec

\* Up to the first packet that is split, every packet is delivered whole, once
\* and in order, whatever else the peers write (byteprocessor.c:20-79).
THEOREM DeliveryIsExact == Spec => []ExactUntilSplit
<1>1. ReaderInv => ExactUntilSplit
  BY DEF ReaderInv, NoSplit, Exact, Done, Arrived, InWork, ExactUntilSplit
<1> QED
  BY <1>1, ReaderInvariance, PTL

------------------------------------------------------------------------------
(* If every packet fits *)

EveryPacketFits == \A len \in Lengths : len <= BufSize

LEMMA NothingIsSplit ==
    ASSUME EveryPacketFits, ReaderInv
    PROVE  NoSplit /\ Exact
<1>1. ASSUME NEW s \in Sockets PROVE Split(s) = {}
  <2>1. sent[s] \in Seq(Written) /\ network[s] \in Seq(Written)
    BY DEF ReaderInv, Streams
  <2>2. Len(sent[s]) \in Nat /\ Len(network[s]) \in Nat
    BY <2>1
  <2>3. ASSUME NEW n \in 1 .. Len(sent[s]) - Len(network[s])
        PROVE  ~ sent[s][n].len > BufSize
    <3>1. n \in 1 .. Len(sent[s])
      BY <2>2
    <3>2. sent[s][n] \in Written
      BY <2>1, <3>1
    <3>3. sent[s][n].len \in Lengths
      BY <3>2, Zenon DEF Written
    <3> QED
      BY <3>2, <3>3, WrittenLength, SizesAssumption DEF EveryPacketFits
  <2> QED
    BY <2>3 DEF Split
<1> QED
  BY <1>1 DEF ReaderInv, NoSplit

\* How many packets a callback has got of a socket, and which.
LEMMA ReceivedPackets ==
    ASSUME ReaderInv, Exact, NEW s \in Sockets
    PROVE  /\ Done(s) \in Nat /\ Done(s) <= Len(sent[s])
           /\ received[s] \in Seq({Bytes(sent[s][n]) : n \in 1 .. Done(s)})
           /\ Len(received[s]) = Done(s)
           /\ \A n \in 1 .. Done(s) : /\ sent[s][n] \in Written
                                      /\ received[s][n] = Bytes(sent[s][n])
<1>1. sent[s] \in Seq(Written) /\ network[s] \in Seq(Written)
  BY DEF ReaderInv, Streams
<1>2. Len(sent[s]) \in Nat /\ Len(network[s]) \in Nat
  BY <1>1
<1>3. Len(network[s]) <= Len(sent[s])
  BY DEF ReaderInv, Streams
<1>4. Arrived(s) \in Nat /\ Arrived(s) <= Len(sent[s])
  <2>1. PICK m \in Nat, n \in Nat : m = Len(sent[s]) /\ n = Len(network[s])
    BY <1>2
  <2>2. Arrived(s) = m - n /\ n <= m
    BY <1>3, <2>1 DEF Arrived
  <2>3. Arrived(s) \in Nat /\ Arrived(s) <= m
    BY <2>2
  <2> QED
    BY <2>1, <2>3
<1>5. InWork(s) \in {0, 1} /\ (InWork(s) = 1 => Arrived(s) >= 1)
  BY DEF InWork, Exact
<1>6. Done(s) \in Nat /\ Done(s) <= Arrived(s)
  BY <1>4, <1>5 DEF Done
<1>7. received[s] = [n \in 1 .. Done(s) |-> Bytes(sent[s][n])]
  BY DEF Exact
<1>8. \A n \in 1 .. Done(s) : n \in 1 .. Len(sent[s])
  BY <1>2, <1>4, <1>6
<1>9. \A n \in 1 .. Done(s) : sent[s][n] \in Written
  BY <1>1, <1>8
<1> HIDE DEF Done
<1>10. Done(s) <= Len(sent[s])
  BY <1>2, <1>4, <1>6
<1> QED
  BY <1>6, <1>7, <1>9, <1>10

\* What byteprocessor.h:10 says of the callback is true for packets that fit,
\* and only fails (run split_packet) because some do not.
THEOREM WholePacketsIfTheyFit ==
    ASSUME EveryPacketFits
    PROVE  Spec => []CallbacksGetWholePackets
<1>1. ReaderInv => CallbacksGetWholePackets
  <2> SUFFICES ASSUME ReaderInv, NEW s \in Sockets, NEW n \in 1 .. Len(received[s])
               PROVE  Intact(received[s][n])
    BY DEF CallbacksGetWholePackets
  <2>1. Exact
    BY NothingIsSplit
  <2>2. sent[s][n] \in Written /\ received[s][n] = Bytes(sent[s][n])
    BY <2>1, ReceivedPackets
  <2> QED
    BY <2>2, WholeIsIntact
<1> QED
  BY <1>1, ReaderInvariance, PTL

------------------------------------------------------------------------------
(* The refinement *)

Packets == [from : Sockets, no : 1 .. MaxPackets, len : Lengths]
Got == [s \in Sockets |-> [n \in 1 .. Len(received[s]) |-> PacketOf(received[s][n])]]

LEMMA FramingInit == Init => Promise!Init
<1> SUFFICES ASSUME Init PROVE Promise!Init
  OBVIOUS
<1>1. \A s \in Sockets :
         [n \in 1 .. Len(received[s]) |-> PacketOf(received[s][n])] = <<>>
  <2> TAKE s \in Sockets
  <2>1. received[s] = <<>>
    BY DEF Init
  <2>2. 1 .. Len(received[s]) = {}
    BY <2>1
  <2> QED
    BY <2>2
<1> QED
  BY <1>1 DEF Init, Promise!Init

LEMMA FramingSend ==
    ASSUME NEW s \in Sockets, NEW len \in Lengths, Send(s, len), ReaderInv
    PROVE  Promise!Send(s)
<1> DEFINE p == Packet(s, Len(sent[s]) + 1, len)
<1>1. sent' = [sent EXCEPT ![s] = Append(@, p)] /\ UNCHANGED received
  BY DEF Send
<1>2. p \in Packets
  <2>1. sent[s] \in Seq(Written)
    BY DEF ReaderInv, Streams
  <2>2. Len(sent[s]) + 1 \in 1 .. MaxPackets
    BY <2>1, BoundsAssumption DEF Send
  <2> QED
    BY <2>2 DEF Packet, Packets
<1> HIDE DEF p
<1> QED
  BY <1>1, <1>2 DEF Promise!Send, Packets

LEMMA FramingDeliver ==
    ASSUME ReaderInv, NoSplit, ProcessData, NEW s \in Sockets, s = sender
    PROVE  Promise!Deliver(s)
<1> DEFINE p == sent[sender][Arrived(sender)]
           d == Done(sender)
<1>1. Exact /\ sender \in Sockets
  BY DEF ReaderInv, Streams
<1>2. /\ p \in Written /\ Arrived(sender) >= 1 /\ data # <<>>
      /\ received' = [received EXCEPT ![sender] = Append(@, Bytes(p))]
      /\ UNCHANGED sent
  BY ProcessExact DEF streams
<1>3. /\ d \in Nat /\ Len(received[sender]) = d
      /\ received[sender] \in Seq({Bytes(sent[sender][n]) : n \in 1 .. d})
  BY <1>1, ReceivedPackets
<1>4. d + 1 = Arrived(sender) /\ d < Len(sent[sender])
  <2>1. sent[sender] \in Seq(Written) /\ network[sender] \in Seq(Written)
    BY DEF ReaderInv, Streams
  <2>2. Len(sent[sender]) \in Nat /\ Len(network[sender]) \in Nat
    BY <2>1
  <2>3. InWork(sender) = 1
    BY <1>2 DEF InWork
  <2>4. Arrived(sender) \in Int
    BY <2>2 DEF Arrived
  <2>5. d = Arrived(sender) - 1
    BY <2>3 DEF Done
  <2>6. Arrived(sender) <= Len(sent[sender])
    <3>1. PICK m \in Nat, n \in Nat : m = Len(sent[sender]) /\ n = Len(network[sender])
      BY <2>2
    <3>2. Arrived(sender) = m - n
      BY <3>1 DEF Arrived
    <3>3. Arrived(sender) <= m
      BY <3>2
    <3> QED
      BY <3>1, <3>3
  <2> QED
    BY <1>3, <2>2, <2>4, <2>5, <2>6
<1>5. PacketOf(Bytes(p)) = p
  BY <1>2, WholeIsIntact
<1> HIDE DEF p, d
<1>6. /\ received'[sender] = Append(received[sender], Bytes(p))
      /\ \A t \in Sockets : t # sender => received'[t] = received[t]
      /\ DOMAIN received' = Sockets
  BY <1>1, <1>2 DEF ReaderInv, Streams
<1>7. /\ Len(received'[sender]) = d + 1
      /\ \A n \in 1 .. d : received'[sender][n] = received[sender][n]
      /\ received'[sender][d + 1] = Bytes(p)
  <2> DEFINE old == received[sender]
             S == {Bytes(sent[sender][n]) : n \in 1 .. d} \union {Bytes(p)}
  <2>1. old \in Seq(S) /\ Len(old) = d /\ Bytes(p) \in S
    BY <1>3
  <2>2. received'[sender] = Append(old, Bytes(p))
    BY <1>6
  <2> HIDE DEF old, S
  <2>3. /\ Len(Append(old, Bytes(p))) = d + 1
        /\ \A n \in 1 .. d : Append(old, Bytes(p))[n] = old[n]
        /\ Append(old, Bytes(p))[d + 1] = Bytes(p)
    BY <1>3, <2>1
  <2> QED
    BY <2>2, <2>3 DEF old
<1>8. Got[sender] = [n \in 1 .. d |-> PacketOf(received[sender][n])]
  BY <1>1, <1>3 DEF Got
<1>9. Got'[sender] = Append(Got[sender], p)
  <2> DEFINE S == {PacketOf(received[sender][n]) : n \in 1 .. d} \union {p}
             new == Append(Got[sender], p)
  <2>1. Got[sender] \in Seq(S) /\ Len(Got[sender]) = d
    BY <1>3, <1>8
  <2>2. Got'[sender] = [n \in 1 .. d + 1 |-> PacketOf(received'[sender][n])]
    BY <1>1, <1>7 DEF Got
  <2>3. new \in Seq(S) /\ Len(new) = d + 1
    BY <2>1
  <2>4. \A n \in 1 .. d : Got'[sender][n] = Got[sender][n] /\ new[n] = Got[sender][n]
    BY <1>3, <1>7, <1>8, <2>1, <2>2
  <2>5. Got'[sender][d + 1] = p /\ new[d + 1] = p
    BY <1>3, <1>5, <1>7, <2>1, <2>2
  <2>6. \A n \in 1 .. d + 1 : n \in 1 .. d \/ n = d + 1
    BY <1>3
  <2>7. \A n \in 1 .. d + 1 : Got'[sender][n] = new[n]
    BY <2>4, <2>5, <2>6
  <2>8. new = [n \in 1 .. d + 1 |-> new[n]]
    BY <1>3, <2>3
  <2> HIDE DEF new
  <2>9. Got'[sender] = [n \in 1 .. d + 1 |-> Got'[sender][n]]
    BY <2>2
  <2>10. Got'[sender] = new
    BY <2>7, <2>8, <2>9
  <2> QED
    BY <2>10 DEF new
<1>10. \A t \in Sockets : t # sender => Got'[t] = Got[t]
  BY <1>6 DEF Got
<1>11. Got' = [Got EXCEPT ![sender] = Append(@, sent[sender][Len(Got[sender]) + 1])]
  <2>1. Len(Got[sender]) = d
    BY <1>3, <1>8
  <2>2. sent[sender][Len(Got[sender]) + 1] = p
    BY <1>4, <2>1 DEF p
  <2>3. /\ Got \in [Sockets -> {Got[t] : t \in Sockets}]
        /\ Got' = [t \in Sockets |-> Got'[t]]
    BY DEF Got
  <2> QED
    BY <1>1, <1>9, <1>10, <2>2, <2>3
<1>12. Len(Got[sender]) < Len(sent[sender])
  BY <1>3, <1>4, <1>8
<1> QED
  BY <1>2, <1>11, <1>12 DEF Promise!Deliver, Got

\* The reader takes the steps of Framing, if every packet fits into data_buffer:
\* the safety part of ImplementsFraming.  Delivery needs fairness, which only
\* the run framing looks at.
THEOREM ReaderTakesFramingSteps ==
    ASSUME EveryPacketFits
    PROVE  Spec => Promise!Init /\ [][Promise!Next]_(Promise!vars)
<1>1. ReaderInv /\ [Next]_vars => [Promise!Next]_(Promise!vars)
  <2> SUFFICES ASSUME ReaderInv, [Next]_vars PROVE [Promise!Next]_(Promise!vars)
    OBVIOUS
  <2>1. CASE \E s \in Sockets, len \in Lengths : Send(s, len)
    BY <2>1, FramingSend DEF Promise!Next
  <2>2. CASE \E s \in Sockets : Read(s)
    BY <2>2 DEF Read, Promise!vars
  <2>3. CASE ProcessData
    <3>1. NoSplit /\ sender \in Sockets
      BY NothingIsSplit DEF ReaderInv, Streams
    <3>2. PICK s \in Sockets : s = sender
      BY <3>1
    <3>3. Promise!Deliver(s)
      BY <2>3, <3>1, <3>2, FramingDeliver
    <3> QED
      BY <3>3 DEF Promise!Next
  <2>4. CASE UNCHANGED vars
    BY <2>4 DEF vars, streams, Promise!vars
  <2> QED
    BY <2>1, <2>2, <2>3, <2>4 DEF Next
<1> QED
  BY <1>1, FramingInit, ReaderInvariance, PTL DEF Spec
==============================================================================
