--------------------------- MODULE DatapacketProofs ---------------------------
(***************************************************************************)
(* Proofs about Datapacket, for any sizes, strings and lists: the buffer   *)
(* is never exceeded, ints and strings are read back, and stacks keep what *)
(* was pushed.                                                             *)
(***************************************************************************)
EXTENDS Datapacket, FiniteSetTheorems, TLAPS

LEMMA IntMax ==
    /\ INT_MAX \in Nat /\ INT_MAX > 255
    /\ 0 .. INT_MAX \subseteq Ints
    /\ \A n \in Ints : n \in Int /\ -INT_MAX - 1 <= n /\ n <= INT_MAX
<1>1. INT_MAX \in Nat /\ INT_MAX > 255
  BY SMT DEF INT_MAX
<1> QED
  BY <1>1, SMT DEF Ints

LEMMA StringLength ==
    ASSUME NEW s \in Strings
    PROVE  /\ strlen[s] \in Nat /\ strlen[s] \in Ints
           /\ strlen[s] = 0 <=> s = ""
<1>1. strlen[s] \in 0 .. INT_MAX - 1 /\ (strlen[s] = 0 <=> s = "")
  BY StrlenAssumption DEF Strings
<1>2. ASSUME NEW n \in 0 .. INT_MAX - 1 PROVE n \in Nat /\ n \in Ints
  <2>1. n \in 0 .. INT_MAX
    BY <1>2, IntMax
  <2> QED
    BY <2>1, IntMax
<1> QED
  BY <1>1, <1>2

\* A datapacket that is being written.
Sound(p) ==
    /\ p = [data |-> p.data, index |-> p.index, buf_size |-> p.buf_size]
    /\ p.index \in Nat /\ p.buf_size \in Nat
    /\ SizeofInt <= p.index /\ p.index <= p.buf_size
    /\ DOMAIN p.data \subseteq 0 .. p.buf_size - 1

\* datapacket_verify_size makes room and changes nothing else.
LEMMA VerifySize ==
    ASSUME NEW p, Sound(p), NEW n \in Nat
    PROVE  LET q == datapacket_verify_size(p, n)
           IN  /\ Sound(q)
               /\ q.index = p.index /\ q.data = p.data
               /\ q.buf_size - q.index > n
               /\ q.buf_size >= p.buf_size
<1> DEFINE free == p.buf_size - p.index
           steps == IF free > n THEN 0 ELSE (n - free) \div PACKET_SIZE + 1
           q == datapacket_verify_size(p, n)
<1>1. steps \in Nat /\ free + steps * PACKET_SIZE > n
  <2>1. CASE free > n
    BY <2>1, PacketSizeAssumption DEF Sound
  <2>2. CASE ~(free > n)
    <3> DEFINE d == n - free
    <3>1. d \in Nat /\ PACKET_SIZE \in Nat /\ PACKET_SIZE > 0
      BY <2>2, PacketSizeAssumption DEF Sound, SizeofInt
    <3>2. d \div PACKET_SIZE \in Nat /\ d < (d \div PACKET_SIZE + 1) * PACKET_SIZE
      <4> HIDE DEF d
      <4> QED
        BY <3>1
    <3> QED
      BY <2>2, <3>1, <3>2 DEF Sound
  <2> QED
    BY <2>1, <2>2
<1>2. steps * PACKET_SIZE \in Nat
  <2> HIDE DEF steps
  <2> QED
    BY <1>1, PacketSizeAssumption
<1>3. q = [data |-> p.data, index |-> p.index, buf_size |-> p.buf_size + steps * PACKET_SIZE]
  BY DEF Sound, datapacket_verify_size
<1> HIDE DEF steps, q
<1>4. Sound(q)
  BY <1>2, <1>3 DEF Sound
<1> QED
  BY <1>1, <1>2, <1>3, <1>4 DEF Sound, q

\* Bytes that fit keep the packet sound.
LEMMA Write ==
    ASSUME NEW p, Sound(p), NEW bytes, Len(bytes) \in Nat,
           p.index + Len(bytes) <= p.buf_size
    PROVE  LET q == Written(p, bytes)
           IN  /\ Sound(q)
               /\ q.index = p.index + Len(bytes) /\ q.buf_size = p.buf_size
               /\ q.data = [k \in DOMAIN p.data \union p.index .. p.index + Len(bytes) - 1 |->
                              IF k \in p.index .. p.index + Len(bytes) - 1
                              THEN bytes[k - p.index + 1] ELSE p.data[k]]
<1> DEFINE n == Len(bytes)
           data == [k \in DOMAIN p.data \union p.index .. p.index + n - 1 |->
                      IF k \in p.index .. p.index + n - 1
                      THEN bytes[k - p.index + 1] ELSE p.data[k]]
           q == Written(p, bytes)
           m == memcpy(p, p.index, bytes)
<1>1. q = [data |-> data, index |-> p.index + n, buf_size |-> p.buf_size]
  <2>1. m = [data |-> data, index |-> p.index, buf_size |-> p.buf_size]
    <3>1. m = [p EXCEPT !.data = data]
      BY DEF memcpy
    <3> HIDE DEF data, m
    <3> QED
      BY <3>1 DEF Sound
  <2>2. q = [m EXCEPT !.index = @ + n]
    BY DEF Written
  <2> HIDE DEF data, m, q, n
  <2> QED
    BY <2>1, <2>2
<1>2. DOMAIN data \subseteq 0 .. p.buf_size - 1
  BY DEF Sound, SizeofInt
<1> HIDE DEF data, q
<1>3. Sound(q)
  BY <1>1, <1>2 DEF Sound, SizeofInt
<1> QED
  BY <1>1, <1>3 DEF data, q

\* datapacket_set_int: four bytes, and never less room behind them than before.
LEMMA SetIntSound ==
    ASSUME NEW p, Sound(p), NEW n
    PROVE  LET q == datapacket_set_int(p, n)
           IN  /\ Sound(q)
               /\ q.index = p.index + SizeofInt
               /\ q.buf_size >= p.buf_size
<1> DEFINE room == datapacket_verify_size(p, SizeofInt)
           bytes == bc_from_int(n)
<1>1. /\ Sound(room) /\ room.index = p.index
      /\ room.buf_size - room.index > SizeofInt
      /\ room.buf_size >= p.buf_size
  BY VerifySize DEF SizeofInt
<1>2. Len(bytes) = SizeofInt
  BY SMT DEF bc_from_int, SizeofInt
<1>3. datapacket_set_int(p, n) = Written(room, bytes)
  BY DEF datapacket_set_int
<1> HIDE DEF room, bytes
<1>4. Len(bytes) \in Nat /\ room.index + Len(bytes) <= room.buf_size
  BY <1>1, <1>2 DEF Sound, SizeofInt
<1> DEFINE q == Written(room, bytes)
<1>5. Sound(q) /\ q.index = room.index + Len(bytes) /\ q.buf_size = room.buf_size
  BY <1>1, <1>4, Write
<1> QED
  BY <1>1, <1>2, <1>3, <1>5

LEMMA RoomBehindLength ==
    ASSUME NEW l \in Nat, NEW at \in Nat, NEW size \in Nat, NEW index \in Nat,
           NEW buf_size \in Nat, size - at > SizeofInt + l + 1,
           index = at + SizeofInt, buf_size >= size
    PROVE  index + (l + 1) <= buf_size
BY DEF SizeofInt

LEMMA SetStringSound ==
    ASSUME NEW p, Sound(p), NEW s \in Strings
    PROVE  Sound(datapacket_set_string(p, s))
<1> DEFINE need == SizeofInt + strlen[s] + 1
           grown == datapacket_verify_size(p, need)
           head == datapacket_set_int(grown, strlen[s])
           bytes == Chars(s)
<1>1. strlen[s] \in Nat
  BY StringLength
<1>2. need \in Nat
  BY <1>1 DEF SizeofInt
<1> HIDE DEF need
<1>3. Sound(grown) /\ grown.buf_size - grown.index > need
  BY <1>2, VerifySize
<1> USE DEF need
<1>4. Len(bytes) = strlen[s] + 1
  BY <1>1 DEF Chars
<1>5. datapacket_set_string(p, s) = Written(head, bytes)
  BY DEF datapacket_set_string
<1> HIDE DEF grown, bytes
<1>6. /\ Sound(head) /\ head.index = grown.index + SizeofInt
      /\ head.buf_size >= grown.buf_size
  BY <1>3, SetIntSound
<1> HIDE DEF head
<1>7. Len(bytes) \in Nat /\ head.index + Len(bytes) <= head.buf_size
  BY <1>1, <1>3, <1>4, <1>6 DEF Sound, SizeofInt
<1>8. Sound(Written(head, bytes))
  BY <1>6, <1>7, Write
<1> QED
  BY <1>5, <1>8

LEMMA CreateSound == \A type : Sound(datapacket_create(type))
<1> SUFFICES ASSUME NEW type PROVE Sound(datapacket_create(type))
  OBVIOUS
<1> DEFINE fresh == [data |-> [k \in {} |-> Byte(0)], index |-> SizeofInt,
                     buf_size |-> PACKET_SIZE]
<1>1. Sound(fresh)
  BY PacketSizeAssumption DEF Sound, SizeofInt
<1>2. datapacket_create(type) = datapacket_set_int(fresh, type)
  BY DEF datapacket_create
<1> HIDE DEF fresh
<1> QED
  BY <1>1, <1>2, SetIntSound

------------------------------------------------------------------------------
(* Reading back *)

LEMMA FourBytes ==
    ASSUME NEW w, NEW x, NEW y, NEW z, NEW t, t = <<w, x, y, z>>
    PROVE  Len(t) = 4 /\ t[1] = w /\ t[2] = x /\ t[3] = y /\ t[4] = z
BY SMT

LEMMA ByteFields ==
    ASSUME NEW b, NEW k, b = Byte(k)
    PROVE  b.of = "" /\ b.at = k
BY DEF Byte

\* The k-th byte of an int.
Byte1(n) == (n \div 16777216) % 256
Byte2(n) == (n \div 65536) % 256
Byte3(n) == (n \div 256) % 256
Byte4(n) == n % 256

LEMMA IntBytes ==
    ASSUME NEW n
    PROVE  LET b == bc_from_int(n)
           IN  /\ Len(b) = 4
               /\ b[1].of = "" /\ b[1].at = Byte1(n)
               /\ b[2].of = "" /\ b[2].at = Byte2(n)
               /\ b[3].of = "" /\ b[3].at = Byte3(n)
               /\ b[4].of = "" /\ b[4].at = Byte4(n)
<1> DEFINE b == bc_from_int(n)
<1>1. b = <<Byte(Byte1(n)), Byte(Byte2(n)), Byte(Byte3(n)), Byte(Byte4(n))>>
  BY SMT DEF bc_from_int, Byte1, Byte2, Byte3, Byte4
<1> HIDE DEF b
<1>2. /\ Len(b) = 4
      /\ b[1] = Byte(Byte1(n)) /\ b[2] = Byte(Byte2(n))
      /\ b[3] = Byte(Byte3(n)) /\ b[4] = Byte(Byte4(n))
  BY <1>1, FourBytes
<1>3. b[1].of = "" /\ b[1].at = Byte1(n)
  BY <1>2, ByteFields
<1>4. b[2].of = "" /\ b[2].at = Byte2(n)
  BY <1>2, ByteFields
<1>5. b[3].of = "" /\ b[3].at = Byte3(n)
  BY <1>2, ByteFields
<1>6. b[4].of = "" /\ b[4].at = Byte4(n)
  BY <1>2, ByteFields
<1> QED
  BY <1>2, <1>3, <1>4, <1>5, <1>6, Zenon DEF b

LEMMA SameInt ==
    ASSUME NEW x, NEW y, x[1] = y[1], x[2] = y[2], x[3] = y[3], x[4] = y[4]
    PROVE  bc_to_int(x) = bc_to_int(y)
BY SMT DEF bc_to_int

\* bc_to_int undoes bc_from_int, the sign included.
LEMMA RoundTrip ==
    ASSUME NEW n \in Ints
    PROVE  bc_to_int(bc_from_int(n)) = n
<1> DEFINE a == n \div 16777216
           b == n \div 65536
           c == n \div 256
<1>1. /\ n \in Int /\ a \in Int /\ b \in Int /\ c \in Int
      /\ -128 <= a /\ a <= 127
  <2>1. n \in Int /\ -INT_MAX - 1 <= n /\ n <= INT_MAX
    BY IntMax
  <2> QED
    BY <2>1, SMT DEF INT_MAX
<1>2. c * 256 + (n % 256) = n
  BY <1>1, SMT
<1>3. b * 256 + (c % 256) = c
  BY <1>1, SMT
<1>4. a * 256 + (b % 256) = b
  BY <1>1, SMT
<1>5. (IF (a % 256) > 127 THEN (a % 256) - 256 ELSE a % 256) = a
  BY <1>1, SMT
<1>6. bc_to_int(bc_from_int(n)) =
        (IF (a % 256) > 127 THEN (a % 256) - 256 ELSE a % 256) * 16777216
            + (b % 256) * 65536 + (c % 256) * 256 + (n % 256)
  <2> DEFINE bytes == bc_from_int(n)
  <2>1. /\ Byte1(n) = a % 256 /\ Byte2(n) = b % 256
        /\ Byte3(n) = c % 256 /\ Byte4(n) = n % 256
    BY SMT DEF Byte1, Byte2, Byte3, Byte4
  <2>2. bc_to_int(bytes) =
          (IF bytes[1].at > 127 THEN bytes[1].at - 256 ELSE bytes[1].at) * 16777216
              + bytes[2].at * 65536 + bytes[3].at * 256 + bytes[4].at
    BY SMT DEF bc_to_int
  <2> HIDE DEF bytes, a, b, c
  <2>3. /\ bytes[1].at = Byte1(n) /\ bytes[2].at = Byte2(n)
        /\ bytes[3].at = Byte3(n) /\ bytes[4].at = Byte4(n)
    BY IntBytes, Zenon DEF bytes
  <2>4. bc_to_int(bytes) =
          (IF (a % 256) > 127 THEN (a % 256) - 256 ELSE a % 256) * 16777216
              + (b % 256) * 65536 + (c % 256) * 256 + (n % 256)
    BY <2>1, <2>2, <2>3, SMT
  <2> QED
    BY <2>4, SMT DEF bytes
<1> HIDE DEF a, b, c
<1> QED
  BY <1>1, <1>2, <1>3, <1>4, <1>5, <1>6, SMT

------------------------------------------------------------------------------
(* What is in a buffer, and stays there *)

Holds(data, at, bytes) ==
    \A i \in 1 .. Len(bytes) : at + i - 1 \in DOMAIN data /\ data[at + i - 1] = bytes[i]

\* A packet being written: everything between the length and index is written.
Packed(p) == Sound(p) /\ DOMAIN p.data = SizeofInt .. p.index - 1

\* What is written in p is also written in q.
Keeps(p, q) == \A k \in DOMAIN p.data : k \in DOMAIN q.data /\ q.data[k] = p.data[k]

LEMMA KeepsHolds ==
    ASSUME NEW p, NEW q, Keeps(p, q), NEW at, NEW bytes, Holds(p.data, at, bytes)
    PROVE  Holds(q.data, at, bytes)
BY DEF Keeps, Holds

LEMMA WritePacked ==
    ASSUME NEW p, Packed(p), NEW bytes, Len(bytes) \in Nat,
           p.index + Len(bytes) <= p.buf_size
    PROVE  LET q == Written(p, bytes)
           IN  /\ Packed(q) /\ Keeps(p, q)
               /\ q.index = p.index + Len(bytes) /\ q.buf_size = p.buf_size
               /\ Holds(q.data, p.index, bytes)
<1> DEFINE q == Written(p, bytes)
<1>1. Sound(p) /\ p.index \in Nat /\ SizeofInt \in Nat /\ SizeofInt <= p.index
  BY DEF Packed, Sound, SizeofInt
<1>2. /\ Sound(q)
      /\ q.index = p.index + Len(bytes) /\ q.buf_size = p.buf_size
      /\ q.data = [k \in DOMAIN p.data \union p.index .. p.index + Len(bytes) - 1 |->
                     IF k \in p.index .. p.index + Len(bytes) - 1
                     THEN bytes[k - p.index + 1] ELSE p.data[k]]
  BY <1>1, Write
<1> HIDE DEF q
<1>3. DOMAIN p.data = SizeofInt .. p.index - 1
  BY DEF Packed
<1>4. Packed(q)
  BY <1>1, <1>2, <1>3 DEF Packed
<1>5. Keeps(p, q)
  BY <1>1, <1>2, <1>3 DEF Keeps
<1>6. Holds(q.data, p.index, bytes)
  BY <1>1, <1>2 DEF Holds
<1> QED
  BY <1>2, <1>4, <1>5, <1>6 DEF q

LEMMA VerifyPacked ==
    ASSUME NEW p, Packed(p), NEW n \in Nat
    PROVE  LET q == datapacket_verify_size(p, n)
           IN  /\ Packed(q) /\ Keeps(p, q)
               /\ q.index = p.index /\ q.buf_size - q.index > n
<1> DEFINE q == datapacket_verify_size(p, n)
<1>1. Sound(q) /\ q.index = p.index /\ q.data = p.data /\ q.buf_size - q.index > n
  BY VerifySize DEF Packed
<1> HIDE DEF q
<1>2. Packed(q) /\ Keeps(p, q)
  BY <1>1 DEF Packed, Keeps
<1> QED
  BY <1>1, <1>2 DEF q

\* datapacket_set_int puts the four bytes at index and leaves the rest.
LEMMA IntWritten ==
    ASSUME NEW p, Packed(p), NEW n
    PROVE  LET q == datapacket_set_int(p, n)
           IN  /\ Packed(q) /\ Keeps(p, q)
               /\ q.index = p.index + SizeofInt
               /\ q.buf_size >= p.buf_size
               /\ Holds(q.data, p.index, bc_from_int(n))
<1> DEFINE room == datapacket_verify_size(p, SizeofInt)
           bytes == bc_from_int(n)
           q == Written(room, bytes)
<1>1. /\ Packed(room) /\ Keeps(p, room)
      /\ room.index = p.index /\ room.buf_size - room.index > SizeofInt
  BY VerifyPacked DEF SizeofInt
<1>2. Len(bytes) = SizeofInt
  BY IntBytes DEF SizeofInt
<1>3. datapacket_set_int(p, n) = q
  BY DEF datapacket_set_int
<1>4. q.buf_size >= p.buf_size
  BY <1>3, SetIntSound DEF Packed
<1> HIDE DEF room, bytes
<1>5. Len(bytes) \in Nat /\ room.index + Len(bytes) <= room.buf_size
  BY <1>1, <1>2 DEF Packed, Sound, SizeofInt
<1>6. /\ Packed(q) /\ Keeps(room, q)
      /\ q.index = room.index + Len(bytes)
      /\ Holds(q.data, room.index, bytes)
  BY <1>1, <1>5, WritePacked
<1> HIDE DEF q
<1>7. Keeps(p, q)
  BY <1>1, <1>6 DEF Keeps
<1> QED
  BY <1>1, <1>2, <1>3, <1>4, <1>6, <1>7 DEF bytes

\* datapacket_set_string puts the length and behind it the characters.
LEMMA StringWritten ==
    ASSUME NEW p, Packed(p), NEW s \in Strings
    PROVE  LET q == datapacket_set_string(p, s)
           IN  /\ Packed(q) /\ Keeps(p, q)
               /\ q.index = p.index + SizeofInt + strlen[s] + 1
               /\ Holds(q.data, p.index, bc_from_int(strlen[s]))
               /\ Holds(q.data, p.index + SizeofInt, Chars(s))
<1> DEFINE need == SizeofInt + strlen[s] + 1
           grown == datapacket_verify_size(p, need)
           head == datapacket_set_int(grown, strlen[s])
           bytes == Chars(s)
           q == Written(head, bytes)
<1>1. strlen[s] \in Nat
  BY StringLength
<1>2. need \in Nat
  BY <1>1 DEF SizeofInt
<1>3. /\ Packed(grown) /\ Keeps(p, grown)
      /\ grown.index = p.index /\ grown.buf_size - grown.index > need
  <2> HIDE DEF need
  <2> QED
    BY <1>2, VerifyPacked
<1>4. Len(bytes) = strlen[s] + 1
  BY <1>1 DEF Chars
<1>5. datapacket_set_string(p, s) = q
  BY DEF datapacket_set_string
<1> HIDE DEF grown, bytes
<1>6. /\ Packed(head) /\ Keeps(grown, head)
      /\ head.index = grown.index + SizeofInt
      /\ head.buf_size >= grown.buf_size
      /\ Holds(head.data, grown.index, bc_from_int(strlen[s]))
  BY <1>3, IntWritten
<1> HIDE DEF head
<1>7. Len(bytes) \in Nat /\ head.index + Len(bytes) <= head.buf_size
  <2>1. /\ grown.index \in Nat /\ grown.buf_size \in Nat
        /\ head.index \in Nat /\ head.buf_size \in Nat
    BY <1>3, <1>6 DEF Packed, Sound
  <2>2. grown.buf_size - grown.index > SizeofInt + strlen[s] + 1
    BY <1>3
  <2>3. head.index = grown.index + SizeofInt /\ head.buf_size >= grown.buf_size
    BY <1>6
  <2>4. head.index + (strlen[s] + 1) <= head.buf_size
    BY <1>1, <2>1, <2>2, <2>3, RoomBehindLength
  <2> QED
    BY <1>1, <1>4, <2>4
<1>8. /\ Packed(q) /\ Keeps(head, q)
      /\ q.index = head.index + Len(bytes)
      /\ Holds(q.data, head.index, bytes)
  BY <1>6, <1>7, WritePacked
<1> HIDE DEF q
<1>9. Holds(q.data, grown.index, bc_from_int(strlen[s]))
  BY <1>6, <1>8, KeepsHolds
<1>10. Keeps(p, q)
  BY <1>3, <1>6, <1>8 DEF Keeps
<1>11. q.index = p.index + SizeofInt + strlen[s] + 1
  <2>1. p.index \in Nat
    BY DEF Packed, Sound
  <2>2. q.index = ((p.index + SizeofInt) + (strlen[s] + 1))
    BY <1>3, <1>4, <1>6, <1>8
  <2> QED
    BY <1>1, <2>1, <2>2 DEF SizeofInt
<1> QED
  BY <1>3, <1>5, <1>6, <1>8, <1>9, <1>10, <1>11 DEF bytes

------------------------------------------------------------------------------
(* Reading *)

LEMMA IntRead ==
    ASSUME NEW p, p.index \in Nat, NEW n \in Ints, Holds(p.data, p.index, bc_from_int(n))
    PROVE  HasInt(p) /\ datapacket_get_int(p) = n
<1> DEFINE bytes == bc_from_int(n)
<1>1. Len(bytes) = 4
  BY IntBytes
<1>2. \A i \in 1 .. 4 : bytes[i].of = ""
  <2>1. \A i \in 1 .. 4 : i = 1 \/ i = 2 \/ i = 3 \/ i = 4
    BY SMT
  <2>2. bytes[1].of = "" /\ bytes[2].of = "" /\ bytes[3].of = "" /\ bytes[4].of = ""
    BY IntBytes, Zenon DEF bytes
  <2> HIDE DEF bytes
  <2> QED
    BY <2>1, <2>2
<1>3. bc_to_int(bytes) = n
  BY RoundTrip
<1> HIDE DEF bytes
<1>4. /\ p.index .. p.index + 3 \subseteq DOMAIN p.data
      /\ \A i \in 1 .. 4 : p.data[p.index + i - 1] = bytes[i]
  <2>1. \A i \in 1 .. 4 : /\ p.index + i - 1 \in DOMAIN p.data
                          /\ p.data[p.index + i - 1] = bytes[i]
    BY <1>1 DEF Holds, bytes
  <2>2. ASSUME NEW k \in p.index .. p.index + 3 PROVE k \in DOMAIN p.data
    <3>1. k - p.index + 1 \in 1 .. 4 /\ p.index + (k - p.index + 1) - 1 = k
      BY <2>2
    <3> QED
      BY <2>1, <3>1
  <2> QED
    BY <2>1, <2>2
<1>5. /\ DOMAIN Bytes(p, SizeofInt) = 1 .. 4
      /\ \A i \in 1 .. 4 : Bytes(p, SizeofInt)[i] = bytes[i]
  BY <1>4 DEF Bytes, SizeofInt
<1>6. HasInt(p)
  <2>1. Within(p, SizeofInt)
    BY <1>4 DEF Within, SizeofInt
  <2> QED
    BY <2>1, <1>2, <1>5 DEF HasInt, Range
<1>7. datapacket_get_int(p) = n
  <2>1. bc_to_int(Bytes(p, SizeofInt)) = bc_to_int(bytes)
    BY <1>5, SameInt
  <2> QED
    BY <2>1, <1>3 DEF datapacket_get_int
<1> QED
  BY <1>6, <1>7

\* No two strings have the same characters.
LEMMA CharsOf ==
    ASSUME NEW s \in Strings
    PROVE  /\ Len(Chars(s)) = strlen[s] + 1 /\ DOMAIN Chars(s) = 1 .. strlen[s] + 1
           /\ s # "" => Chars(s)[1].of = s
<1> DEFINE n == strlen[s]
           body == [i \in 1 .. n |-> Char(s, i)]
           zero == Byte(0)
<1>1. Chars(s) = Append(body, zero)
  BY DEF Chars
<1>2. n \in Nat
  BY StringLength
<1>3. Char(s, 1).of = s
  BY DEF Char
<1> HIDE DEF n, zero
<1>4. Len(Append(body, zero)) = n + 1
  BY <1>2
<1>5. DOMAIN Append(body, zero) = 1 .. n + 1
  BY <1>2
<1>6. ASSUME s # "" PROVE Chars(s)[1].of = s
  <2>1. n # 0
    BY <1>6, StringLength, Zenon DEF n
  <2>2. n > 0
    BY <1>2, <2>1
  <2>3. Append(body, zero)[1] = Char(s, 1)
    BY <1>2, <2>2
  <2> QED
    BY <1>1, <1>3, <2>3
<1> QED
  BY <1>1, <1>4, <1>5, <1>6 DEF n

LEMMA CharsAreUnique ==
    ASSUME NEW s \in Strings, NEW t \in Strings, Chars(s) = Chars(t)
    PROVE  s = t
<1>1. strlen[s] \in Nat /\ strlen[t] \in Nat
  BY StringLength
<1>2. strlen[s] + 1 = strlen[t] + 1
  BY CharsOf
<1>3. strlen[s] = strlen[t]
  BY <1>1, <1>2
<1>4. s = "" <=> t = ""
  BY <1>3, StringLength
<1> QED
  BY <1>4, CharsOf

LEMMA StringRead ==
    ASSUME NEW p, p.index \in Nat, p = [data |-> p.data, index |-> p.index, buf_size |-> p.buf_size],
           NEW s \in Strings,
           Holds(p.data, p.index, bc_from_int(strlen[s])),
           Holds(p.data, p.index + SizeofInt, Chars(s))
    PROVE  /\ HasString(p) /\ datapacket_get_string(p) = s
           /\ datapacket_get_int(p) = strlen[s]
<1> DEFINE n == strlen[s]
           at == Skip(p, SizeofInt)
<1>1. n \in Nat /\ n \in Ints
  BY StringLength
<1>2. HasInt(p) /\ datapacket_get_int(p) = n
  BY <1>1, IntRead
<1>3. at = [data |-> p.data, index |-> p.index + SizeofInt, buf_size |-> p.buf_size]
  BY DEF Skip
<1>4. at.index = p.index + SizeofInt /\ at.index \in Nat /\ at.data = p.data
  BY <1>3 DEF SizeofInt
<1>5. Len(Chars(s)) = n + 1 /\ DOMAIN Chars(s) = 1 .. n + 1
  BY CharsOf
<1> HIDE DEF n, at
<1>6. \A i \in 1 .. n + 1 : /\ at.index + i - 1 \in DOMAIN at.data
                            /\ at.data[at.index + i - 1] = Chars(s)[i]
  BY <1>4, <1>5 DEF Holds
<1>7. Bytes(at, n + 1) = Chars(s)
  <2>1. Chars(s) = [i \in 1 .. n + 1 |-> Chars(s)[i]]
    BY <1>1, <1>5 DEF Chars, n
  <2> QED
    BY <1>1, <1>6, <2>1 DEF Bytes
<1>8. Within(at, n + 1)
  <2> SUFFICES ASSUME NEW k \in at.index .. at.index + (n + 1) - 1 PROVE k \in DOMAIN at.data
    BY DEF Within
  <2>1. k - at.index + 1 \in 1 .. n + 1 /\ at.index + (k - at.index + 1) - 1 = k
    BY <1>1, <1>4
  <2> QED
    BY <2>1, <1>6
<1>9. HasString(p)
  BY <1>1, <1>2, <1>7, <1>8 DEF HasString, at
<1>10. datapacket_get_string(p) = s
  <2>1. datapacket_get_string(p) = CHOOSE t \in Strings : Chars(s) = Chars(t)
    BY <1>2, <1>7 DEF datapacket_get_string, at
  <2> QED
    BY <2>1, CharsAreUnique
<1> QED
  BY <1>2, <1>9, <1>10 DEF n

------------------------------------------------------------------------------

\* What datapacket_set_int wrote, datapacket_get_int reads at its place, and
\* nothing that was written before is touched (byteconverter.c, datapacket.c:54-64
\* and :111-118).
THEOREM IntsReadBack ==
    ASSUME NEW p, Packed(p), NEW n \in Ints
    PROVE  LET q  == datapacket_set_int(p, n)
               at == [q EXCEPT !.index = p.index]
           IN  /\ HasInt(at) /\ datapacket_get_int(at) = n
               /\ Keeps(p, q)
<1> DEFINE q  == datapacket_set_int(p, n)
           at == [q EXCEPT !.index = p.index]
<1>1. Packed(q) /\ Keeps(p, q) /\ Holds(q.data, p.index, bc_from_int(n))
  BY IntWritten
<1> HIDE DEF q
<1>2. at.data = q.data /\ at.index = p.index /\ at.index \in Nat
  BY <1>1 DEF Packed, Sound
<1> HIDE DEF at
<1>3. HasInt(at) /\ datapacket_get_int(at) = n
  BY <1>1, <1>2, IntRead
<1> QED
  BY <1>1, <1>3 DEF q, at

\* What datapacket_set_string wrote, however often the buffer had to grow, is what
\* datapacket_get_string finds at its place, and nothing before it is touched
\* (datapacket.c:90-100 and :126-135).
THEOREM StringsReadBack ==
    ASSUME NEW p, Packed(p), NEW s \in Strings
    PROVE  LET q  == datapacket_set_string(p, s)
               at == [q EXCEPT !.index = p.index]
           IN  /\ HasString(at) /\ datapacket_get_string(at) = s
               /\ Keeps(p, q)
<1> DEFINE q  == datapacket_set_string(p, s)
           at == [q EXCEPT !.index = p.index]
<1>1. /\ Packed(q) /\ Keeps(p, q)
      /\ Holds(q.data, p.index, bc_from_int(strlen[s]))
      /\ Holds(q.data, p.index + SizeofInt, Chars(s))
  BY StringWritten
<1> HIDE DEF q
<1>2. at = [data |-> q.data, index |-> p.index, buf_size |-> q.buf_size]
  BY <1>1 DEF Packed, Sound
<1>3. p.index \in Nat
  BY DEF Packed, Sound
<1> HIDE DEF at
<1>4. HasString(at) /\ datapacket_get_string(at) = s
  BY <1>1, <1>2, <1>3, StringRead
<1> QED
  BY <1>1, <1>4 DEF q, at

------------------------------------------------------------------------------
(* Induction, in a form that names a set and no operator *)

LEMMA LessIsWellFounded == IsWellFoundedOn({ss \in Nat \X Nat : ss[1] < ss[2]}, Nat)
BY NatLessThanWellFounded DEF OpToRel

LEMMA SetInduction ==
    ASSUME NEW S, 0 \in S, \A n \in Nat : n \in S => n + 1 \in S
    PROVE  Nat \subseteq S
<1> DEFINE R == {ss \in Nat \X Nat : ss[1] < ss[2]}
           T == Nat \ S
<1> SUFFICES ASSUME T # {} PROVE FALSE
  OBVIOUS
<1>1. \E x \in T : \A y \in T : ~ (<<y, x>> \in R)
  <2>1. IsWellFoundedOn(R, Nat)
    BY LessIsWellFounded
  <2> HIDE DEF R
  <2> QED
    BY <2>1, WFMin
<1>2. PICK x \in T : \A y \in T : ~ (<<y, x>> \in R)
  BY <1>1
<1>3. x \in Nat /\ x # 0 /\ x - 1 \in Nat /\ x - 1 < x
  OBVIOUS
<1>4. x - 1 \notin T
  BY <1>2, <1>3
<1> QED
  BY <1>3, <1>4

\* For statements about the places of a sequence.
LEMMA PrefixInduction ==
    ASSUME NEW n \in Nat, NEW S, 0 \in S, \A k \in 1 .. n : k - 1 \in S => k \in S
    PROVE  0 .. n \subseteq S
<1> DEFINE T == {k \in Nat : k <= n => k \in S}
<1>1. 0 \in T
  OBVIOUS
<1>2. \A k \in Nat : k \in T => k + 1 \in T
  <2> SUFFICES ASSUME NEW k \in Nat, k \in T, k + 1 <= n PROVE k + 1 \in S
    OBVIOUS
  <2>1. k \in S /\ k + 1 \in 1 .. n /\ (k + 1) - 1 = k
    OBVIOUS
  <2> QED
    BY <2>1
<1>3. Nat \subseteq T
  <2> HIDE DEF T
  <2> QED
    BY <1>1, <1>2, SetInduction
<1> QED
  BY <1>3

LEMMA IntervalLast ==
    ASSUME NEW k \in Nat, k # 0
    PROVE  (1 .. k) \ {k} = 1 .. k - 1 /\ 1 .. k # {}
<1>1. ASSUME NEW x PROVE x \in (1 .. k) \ {k} <=> x \in 1 .. k - 1
  OBVIOUS
<1>2. k \in 1 .. k
  OBVIOUS
<1> QED
  BY <1>1, <1>2

LEMMA MaxOfInterval ==
    ASSUME NEW n \in Nat, NEW s \in SUBSET (1 .. n + 1), n + 1 \in s
    PROVE  Max(s) = n + 1
<1>1. \A y \in s : n + 1 >= y
  OBVIOUS
<1>2. \A x \in s : (\A y \in s : x >= y) => x = n + 1
  OBVIOUS
<1> QED
  BY <1>1, <1>2 DEF Max

------------------------------------------------------------------------------
(* Stacks *)

\* The recursion of FoldLeft in Pushed, on the sets of places it goes through.
PushStep(g, seq, s) ==
    IF s = {} THEN vstack_create ELSE vstack_push(g[s \ {Max(s)}], seq[Max(s)])

IsPushTable(g, seq, D) == g = [s \in SUBSET D |-> PushStep(g, seq, s)]

LEMMA PushTableExists ==
    ASSUME NEW seq
    PROVE  \A n \in Nat : \E g : IsPushTable(g, seq, 1 .. n)
<1> DEFINE S == {n \in Nat : \E g : IsPushTable(g, seq, 1 .. n)}
<1>1. 0 \in S
  <2>1. 1 .. 0 = {} /\ SUBSET {} = {{}}
    OBVIOUS
  <2> DEFINE g == [s \in {{}} |-> vstack_create]
  <2>2. g = [s \in {{}} |-> PushStep(g, seq, s)]
    BY DEF PushStep
  <2>3. IsPushTable(g, seq, 1 .. 0)
    <3> HIDE DEF g
    <3> QED
      BY <2>1, <2>2 DEF IsPushTable
  <2> QED
    BY <2>3
<1>2. ASSUME NEW n \in Nat, n \in S PROVE n + 1 \in S
  <2>1. PICK g : IsPushTable(g, seq, 1 .. n)
    BY <1>2
  <2> DEFINE h == [s \in SUBSET (1 .. n + 1) |->
                     IF n + 1 \in s THEN vstack_push(g[s \ {n + 1}], seq[n + 1]) ELSE g[s]]
  <2>2. \A s \in SUBSET (1 .. n) : g[s] = PushStep(g, seq, s)
    BY <2>1 DEF IsPushTable
  <2>3. \A s \in SUBSET (1 .. n) : s \in SUBSET (1 .. n + 1) /\ n + 1 \notin s /\ h[s] = g[s]
    OBVIOUS
  <2>4. ASSUME NEW s \in SUBSET (1 .. n + 1) PROVE h[s] = PushStep(h, seq, s)
    <3>1. CASE n + 1 \in s
      <4>1. Max(s) = n + 1
        BY <3>1, MaxOfInterval
      <4>2. s \ {n + 1} \in SUBSET (1 .. n)
        OBVIOUS
      <4>3. h[s] = vstack_push(h[s \ {n + 1}], seq[n + 1])
        BY <2>3, <3>1, <4>2
      <4> HIDE DEF h
      <4> QED
        BY <3>1, <4>1, <4>3 DEF PushStep
    <3>2. CASE n + 1 \notin s
      <4> DEFINE m == Max(s)
      <4>1. s \in SUBSET (1 .. n) /\ s \ {m} \in SUBSET (1 .. n)
        <5> HIDE DEF m
        <5>1. s \in SUBSET (1 .. n)
          BY <3>2
        <5> QED
          BY <5>1
      <4>2. h[s] = g[s] /\ h[s \ {Max(s)}] = g[s \ {Max(s)}]
        BY <2>3, <4>1
      <4> HIDE DEF h
      <4> QED
        BY <2>2, <4>1, <4>2 DEF PushStep
    <3> QED
      BY <3>1, <3>2
  <2>5. h = [s \in SUBSET (1 .. n + 1) |-> h[s]]
    OBVIOUS
  <2> HIDE DEF h
  <2>6. IsPushTable(h, seq, 1 .. n + 1)
    BY <2>4, <2>5 DEF IsPushTable
  <2> QED
    BY <2>6
<1> HIDE DEF S
<1>3. Nat \subseteq S
  BY <1>1, <1>2, SetInduction
<1> QED
  BY <1>3 DEF S

\* Pushed is where a run of pushes gets to.
LEMMA PushRun ==
    ASSUME NEW S, NEW seq \in Seq(S)
    PROVE  \E t : /\ t[0] = vstack_create
                  /\ \A k \in 1 .. Len(seq) : t[k] = vstack_push(t[k - 1], seq[k])
                  /\ Pushed(seq) = t[Len(seq)]
<1> DEFINE n == Len(seq)
           g == CHOOSE g : IsPushTable(g, seq, 1 .. n)
           t == [k \in 0 .. n |-> g[1 .. k]]
<1>1. n \in Nat /\ DOMAIN seq = 1 .. n
  OBVIOUS
<1>2. Pushed(seq) = g[1 .. n]
  BY <1>1 DEF Pushed, FoldLeft, MapThenFoldSet, IsPushTable, PushStep
<1>3. IsPushTable(g, seq, 1 .. n)
  BY <1>1, PushTableExists
<1> HIDE DEF g, n
<1>4. \A s \in SUBSET (1 .. n) : g[s] = PushStep(g, seq, s)
  BY <1>3 DEF IsPushTable
<1>5. t[0] = vstack_create
  <2>1. 1 .. 0 = {} /\ t[0] = g[1 .. 0]
    BY <1>1
  <2> QED
    BY <1>4, <2>1 DEF PushStep
<1>6. ASSUME NEW k \in 1 .. n PROVE t[k] = vstack_push(t[k - 1], seq[k])
  <2>1. k - 1 \in Nat /\ (k - 1) + 1 = k /\ k \in 1 .. k /\ 1 .. k \in SUBSET (1 .. n)
    BY <1>1
  <2>2. Max(1 .. k) = k
    BY <2>1, MaxOfInterval
  <2>3. (1 .. k) \ {k} = 1 .. k - 1 /\ 1 .. k # {}
    BY <2>1, IntervalLast
  <2>4. t[k] = g[1 .. k] /\ t[k - 1] = g[1 .. k - 1]
    BY <1>1
  <2> QED
    BY <1>4, <2>1, <2>2, <2>3, <2>4 DEF PushStep
<1>7. Pushed(seq) = t[n]
  BY <1>1, <1>2
<1> QED
  BY <1>5, <1>6, <1>7 DEF n

\* A stack that holds seq within the places it has.
StackOf(s, seq) ==
    /\ s = [vals |-> seq, max_len |-> s.max_len]
    /\ s.max_len \in Nat \ {0} /\ Len(seq) <= s.max_len

LEMMA EmptyStack == StackOf(vstack_create, <<>>)
BY MaxLenAssumption DEF StackOf, vstack_create

LEMMA PushOne ==
    ASSUME NEW S, NEW seq \in Seq(S), NEW x \in S, NEW s, StackOf(s, seq)
    PROVE  StackOf(vstack_push(s, x), Append(seq, x))
<1> DEFINE m == IF Len(s.vals) >= s.max_len THEN 2 * s.max_len ELSE s.max_len
           q == vstack_push(s, x)
<1>1. s.vals = seq /\ s.max_len \in Nat \ {0} /\ Len(seq) <= s.max_len
  BY DEF StackOf
<1>2. q = [vals |-> Append(seq, x), max_len |-> m]
  BY <1>1 DEF vstack_push
<1>3. Len(Append(seq, x)) = Len(seq) + 1 /\ Len(seq) \in Nat
  OBVIOUS
<1>4. m \in Nat \ {0} /\ Len(seq) + 1 <= m
  BY <1>1, <1>3
<1> HIDE DEF m, q
<1>5. q.max_len = m
  BY <1>2
<1> QED
  BY <1>2, <1>3, <1>4, <1>5 DEF StackOf, q

LEMMA PushedAll ==
    ASSUME NEW S, NEW seq \in Seq(S)
    PROVE  StackOf(Pushed(seq), seq)
<1> DEFINE n == Len(seq)
<1>1. n \in Nat
  OBVIOUS
<1>2. PICK t : /\ t[0] = vstack_create
               /\ \A k \in 1 .. n : t[k] = vstack_push(t[k - 1], seq[k])
               /\ Pushed(seq) = t[n]
  BY PushRun
<1> DEFINE T == {k \in 0 .. n : StackOf(t[k], SubSeq(seq, 1, k))}
<1>3. 0 \in T
  <2>1. SubSeq(seq, 1, 0) = <<>>
    OBVIOUS
  <2>2. StackOf(t[0], <<>>)
    BY <1>2, EmptyStack
  <2>3. StackOf(t[0], SubSeq(seq, 1, 0))
    BY <2>1, <2>2, Zenon
  <2>4. 0 \in 0 .. n
    BY <1>1
  <2> QED
    BY <2>3, <2>4, Zenon
<1>4. ASSUME NEW k \in 1 .. n, k - 1 \in T PROVE k \in T
  <2>1. /\ k - 1 \in 0 .. n /\ k \in 0 .. n /\ seq[k] \in S
        /\ SubSeq(seq, 1, k - 1) \in Seq(S)
    BY <1>1
  <2>2. Append(SubSeq(seq, 1, k - 1), seq[k]) = SubSeq(seq, 1, k)
    OBVIOUS
  <2>3. StackOf(vstack_push(t[k - 1], seq[k]), Append(SubSeq(seq, 1, k - 1), seq[k]))
    BY <1>4, <2>1, PushOne
  <2> QED
    BY <1>2, <2>1, <2>2, <2>3
<1>5. n \in T
  <2> HIDE DEF T
  <2>1. 0 .. n \subseteq T
    <3> HIDE DEF n
    <3> QED
      BY <1>1, <1>3, <1>4, PrefixInduction
  <2> QED
    BY <1>1, <2>1
<1>6. SubSeq(seq, 1, n) = seq
  OBVIOUS
<1> QED
  BY <1>2, <1>5, <1>6

\* However often a stack has to double, a push stays within its array, and popping
\* until it is empty gives everything back in reverse (vstack.c:13-43).
THEOREM StacksGiveBack ==
    ASSUME NEW S, NEW seq \in Seq(S)
    PROVE  /\ Len(Pushed(seq).vals) <= Pushed(seq).max_len
           /\ Popped(Pushed(seq)) = Reverse(seq)
<1>1. StackOf(Pushed(seq), seq)
  BY PushedAll
<1> QED
  BY <1>1 DEF StackOf, Popped

------------------------------------------------------------------------------
(* Sequences that list a set *)

\* s has every element of S, once.
ListsAll(s, S) ==
    /\ s \in Seq(S) /\ IsInjective(s)
    /\ \A x \in S : \E i \in DOMAIN s : s[i] = x

LEMMA ListIsBijection ==
    ASSUME NEW S, NEW s, ListsAll(s, S)
    PROVE  Len(s) \in Nat /\ s \in Bijection(1 .. Len(s), S)
BY DEF ListsAll, Bijection, Injection, Surjection, IsInjective

LEMMA ListLength ==
    ASSUME NEW S, NEW s, ListsAll(s, S)
    PROVE  IsFiniteSet(S) /\ Len(s) = Cardinality(S)
<1>1. Len(s) \in Nat /\ s \in Bijection(1 .. Len(s), S)
  BY ListIsBijection
<1>2. ExistsBijection(1 .. Len(s), S)
  BY <1>1 DEF ExistsBijection
<1>3. IsFiniteSet(S)
  BY <1>1, <1>2, FS_NatBijection
<1> QED
  BY <1>1, <1>2, <1>3, FS_CountingElements

LEMMA EmptyList == ListsAll(<<>>, {})
BY DEF ListsAll, IsInjective

LEMMA ListOneMore ==
    ASSUME NEW S, NEW s, ListsAll(s, S), NEW x, x \notin S
    PROVE  ListsAll(Append(s, x), S \union {x})
<1> DEFINE t == Append(s, x)
           n == Len(s)
<1>1. s \in Seq(S) /\ n \in Nat /\ DOMAIN s = 1 .. n
  BY DEF ListsAll
<1>2. /\ t \in Seq(S \union {x}) /\ DOMAIN t = 1 .. n + 1
      /\ \A i \in 1 .. n : t[i] = s[i]
      /\ t[n + 1] = x
  <2>1. s \in Seq(S \union {x})
    BY <1>1
  <2> QED
    BY <1>1, <2>1
<1> HIDE DEF t, n
<1>3. \A i \in 1 .. n : s[i] \in S
  BY <1>1
<1>4. IsInjective(t)
  <2> SUFFICES ASSUME NEW i \in 1 .. n + 1, NEW j \in 1 .. n + 1, t[i] = t[j] PROVE i = j
    BY <1>2 DEF IsInjective
  <2>1. CASE i \in 1 .. n /\ j \in 1 .. n
    BY <1>1, <1>2, <2>1 DEF ListsAll, IsInjective
  <2>2. CASE i = n + 1 /\ j \in 1 .. n
    BY <1>2, <1>3, <2>2
  <2>3. CASE j = n + 1 /\ i \in 1 .. n
    BY <1>2, <1>3, <2>3
  <2> QED
    BY <1>1, <2>1, <2>2, <2>3
<1>5. ASSUME NEW y \in S \union {x} PROVE \E i \in DOMAIN t : t[i] = y
  <2>1. CASE y = x
    BY <1>1, <1>2, <2>1
  <2>2. CASE y \in S
    <3>1. PICK i \in 1 .. n : s[i] = y
      BY <1>1, <2>2 DEF ListsAll
    <3> QED
      BY <1>1, <1>2, <3>1
  <2> QED
    BY <2>1, <2>2
<1> QED
  BY <1>2, <1>4, <1>5 DEF ListsAll, t

LEMMA ListReversed ==
    ASSUME NEW S, NEW s, ListsAll(s, S)
    PROVE  ListsAll(Reverse(s), S)
<1> DEFINE n == Len(s)
           t == Reverse(s)
<1>1. s \in Seq(S) /\ n \in Nat /\ DOMAIN s = 1 .. n
  BY DEF ListsAll
<1>2. t = [i \in 1 .. n |-> s[(n - i) + 1]]
  BY DEF Reverse
<1> HIDE DEF n, t
<1>3. \A i \in 1 .. n : (n - i) + 1 \in 1 .. n /\ n - ((n - i) + 1) + 1 = i
  BY <1>1
<1>4. t \in Seq(S) /\ DOMAIN t = 1 .. n
  BY <1>1, <1>2, <1>3
<1>5. IsInjective(t)
  <2> SUFFICES ASSUME NEW i \in 1 .. n, NEW j \in 1 .. n, t[i] = t[j] PROVE i = j
    BY <1>4 DEF IsInjective
  <2>1. s[(n - i) + 1] = s[(n - j) + 1]
    BY <1>2
  <2>2. (n - i) + 1 = (n - j) + 1
    BY <1>1, <1>3, <2>1 DEF ListsAll, IsInjective
  <2> QED
    BY <1>1, <2>2
<1>6. ASSUME NEW x \in S PROVE \E i \in DOMAIN t : t[i] = x
  <2>1. PICK i \in 1 .. n : s[i] = x
    BY <1>1 DEF ListsAll
  <2>2. t[(n - i) + 1] = x
    BY <1>2, <1>3, <2>1
  <2> QED
    BY <1>3, <1>4, <2>2
<1> QED
  BY <1>4, <1>5, <1>6 DEF ListsAll, t

\* As many different elements of S as S has are all of them.
LEMMA InjectionReaches ==
    ASSUME NEW S, IsFiniteSet(S), NEW n, n = Cardinality(S),
           NEW f \in [1 .. n -> S], IsInjective(f)
    PROVE  \A x \in S : \E i \in DOMAIN f : f[i] = x
<1> DEFINE R == {f[i] : i \in 1 .. n}
<1>1. n \in Nat /\ IsFiniteSet(1 .. n) /\ Cardinality(1 .. n) = n
  BY FS_CardinalityType, FS_Interval
<1>2. R \subseteq S /\ IsFiniteSet(R)
  BY FS_Subset
<1>3. Cardinality(R) = n
  <2>1. f \in Bijection(1 .. n, R)
    BY DEF Bijection, Injection, Surjection, IsInjective
  <2>2. ExistsBijection(1 .. n, R)
    BY <2>1 DEF ExistsBijection
  <2> HIDE DEF R
  <2> QED
    BY <1>1, <2>2, FS_CountingElements, <1>2
<1>4. R = S
  <2> HIDE DEF R
  <2> QED
    BY <1>2, <1>3, FS_Subset
<1> QED
  BY <1>4

LEMMA SetToSeqLists ==
    ASSUME NEW S, IsFiniteSet(S)
    PROVE  ListsAll(SetToSeq(S), S)
<1> DEFINE n == Cardinality(S)
           s == SetToSeq(S)
<1>1. n \in Nat
  BY FS_CardinalityType
<1>2. ExistsBijection(1 .. n, S)
  BY FS_CardinalityType
<1>3. PICK f : f \in Bijection(1 .. n, S)
  BY <1>2 DEF ExistsBijection
<1>4. s \in [1 .. n -> S] /\ IsInjective(s)
  BY <1>3 DEF SetToSeq, Bijection, Injection
<1> HIDE DEF s
<1>5. ASSUME NEW x \in S PROVE \E i \in DOMAIN s : s[i] = x
  BY <1>1, <1>4, InjectionReaches
<1>6. s \in Seq(S)
  BY <1>1, <1>4
<1> QED
  BY <1>4, <1>5, <1>6 DEF ListsAll, s

------------------------------------------------------------------------------
(* Pairs laid out one behind the other *)

\* The i first pairs of a and b, one behind the other.
Alternate(a, b, i) == [k \in 1 .. 2 * i |-> IF k % 2 = 1 THEN a[(k + 1) \div 2] ELSE b[k \div 2]]

Columns(a, b, n, S) == a \in [1 .. n -> S] /\ b \in [1 .. n -> S]

Alternates(f, a, b, i, S) ==
    /\ f \in Seq(S) /\ Len(f) = 2 * i
    /\ \A k \in 1 .. i : f[2 * k - 1] = a[k] /\ f[2 * k] = b[k]

LEMMA AlternateAt ==
    ASSUME NEW S, NEW n \in Nat, NEW a, NEW b, Columns(a, b, n, S),
           NEW i \in 0 .. n
    PROVE  Alternates(Alternate(a, b, i), a, b, i, S)
<1> DEFINE f == Alternate(a, b, i)
           half(k) == IF k % 2 = 1 THEN (k + 1) \div 2 ELSE k \div 2
<1>1. \A k \in 1 .. 2 * i : half(k) \in 1 .. n
  BY SMT
<1>2. f = [k \in 1 .. 2 * i |-> IF k % 2 = 1 THEN a[half(k)] ELSE b[half(k)]]
  BY DEF Alternate
<1>3. \A k \in 1 .. i : /\ 2 * k - 1 \in 1 .. 2 * i /\ 2 * k \in 1 .. 2 * i
                        /\ (2 * k - 1) % 2 = 1 /\ (2 * k) % 2 = 0
                        /\ half(2 * k - 1) = k /\ half(2 * k) = k
  BY SMT
<1> HIDE DEF f, half
<1>4. f \in [1 .. 2 * i -> S]
  BY <1>1, <1>2 DEF Columns
<1>5. f \in Seq(S) /\ Len(f) = 2 * i
  BY <1>4
<1>6. ASSUME NEW k \in 1 .. i PROVE f[2 * k - 1] = a[k] /\ f[2 * k] = b[k]
  BY <1>2, <1>3
<1> QED
  BY <1>5, <1>6 DEF f, Alternates

Joins(h, f, g, S) ==
    /\ h \in Seq(S) /\ Len(h) = Len(f) + Len(g)
    /\ \A k \in 1 .. Len(f) : h[k] = f[k]
    /\ \A k \in 1 .. Len(g) : h[Len(f) + k] = g[k]

LEMMA Concat ==
    ASSUME NEW S, NEW f, NEW g, f \in Seq(S), g \in Seq(S)
    PROVE  Joins(f \o g, f, g, S)
<1>1. f \o g \in Seq(S) /\ Len(f \o g) = Len(f) + Len(g)
  OBVIOUS
<1>2. \A k \in 1 .. Len(f) : (f \o g)[k] = f[k]
  OBVIOUS
<1>3. \A k \in 1 .. Len(g) : (f \o g)[Len(f) + k] = g[k]
  OBVIOUS
<1> QED
  BY <1>1, <1>2, <1>3 DEF Joins

NextPair(a, b, i) == Alternate(a, b, i) = Alternate(a, b, i - 1) \o <<a[i], b[i]>>

LEMMA AlternateStep ==
    ASSUME NEW S, NEW n \in Nat, NEW a, NEW b, Columns(a, b, n, S)
    PROVE  \A i \in 1 .. n : NextPair(a, b, i)
<1> TAKE i \in 1 .. n
<1> DEFINE f == Alternate(a, b, i)
           g == Alternate(a, b, i - 1)
           last == <<a[i], b[i]>>
           h == g \o last
<1>1. ASSUME NEW j \in 0 .. n PROVE Alternates(Alternate(a, b, j), a, b, j, S)
  BY AlternateAt
<1>2. i \in 0 .. n /\ i - 1 \in 0 .. n /\ i \in 1 .. i /\ i \in Int
  OBVIOUS
<1>3. /\ f = [k \in 1 .. 2 * i |-> IF k % 2 = 1 THEN a[(k + 1) \div 2] ELSE b[k \div 2]]
      /\ g = [k \in 1 .. 2 * (i - 1) |-> IF k % 2 = 1 THEN a[(k + 1) \div 2] ELSE b[k \div 2]]
  BY DEF Alternate
<1>4. Alternates(f, a, b, i, S) /\ Alternates(g, a, b, i - 1, S)
  BY <1>1, <1>2
<1> HIDE DEF f, g
<1>5. /\ f \in Seq(S) /\ Len(f) = 2 * i
      /\ g \in Seq(S) /\ Len(g) = 2 * (i - 1)
      /\ f[2 * i - 1] = a[i] /\ f[2 * i] = b[i]
  BY <1>2, <1>4 DEF Alternates
<1>6. a[i] \in S /\ b[i] \in S
  BY DEF Columns
<1>7. /\ h \in Seq(S) /\ Len(h) = 2 * i
      /\ \A k \in 1 .. 2 * (i - 1) : h[k] = g[k]
      /\ h[2 * i - 1] = a[i] /\ h[2 * i] = b[i]
  <2>1. last \in Seq(S) /\ Len(last) = 2 /\ last[1] = a[i] /\ last[2] = b[i]
    BY <1>6
  <2> HIDE DEF last
  <2>2. g \in Seq(S) /\ last \in Seq(S)
    BY <1>5, <2>1
  <2>3. Joins(h, g, last, S)
    BY <2>2, Concat
  <2> HIDE DEF h
  <2>4. h \in Seq(S) /\ Len(h) = 2 * i
    BY <1>2, <1>5, <2>1, <2>3 DEF Joins
  <2>5. \A k \in 1 .. 2 * (i - 1) : h[k] = g[k]
    BY <1>2, <1>5, <2>1, <2>3 DEF Joins
  <2>6. h[Len(g) + 1] = a[i] /\ h[Len(g) + 2] = b[i]
    BY <2>1, <2>3 DEF Joins
  <2>7. Len(g) + 1 = 2 * i - 1 /\ Len(g) + 2 = 2 * i
    BY <1>2, <1>5
  <2> QED
    BY <2>4, <2>5, <2>6, <2>7
<1>8. ASSUME NEW k \in 1 .. 2 * i PROVE h[k] = f[k]
  <2>1. CASE k \in 1 .. 2 * (i - 1)
    BY <1>3, <1>7, <2>1
  <2>2. CASE k = 2 * i - 1
    BY <1>5, <1>7, <2>2
  <2>3. CASE k = 2 * i
    BY <1>5, <1>7, <2>3
  <2>4. k \in 1 .. 2 * (i - 1) \/ k = 2 * i - 1 \/ k = 2 * i
    BY <1>2
  <2> HIDE DEF h
  <2> QED
    BY <2>1, <2>2, <2>3, <2>4
<1> HIDE DEF h
<1>9. h = f
  BY <1>5, <1>7, <1>8
<1> QED
  BY <1>9 DEF NextPair, f, g, h, last

LEMMA AlternateNone ==
    ASSUME NEW a, NEW b
    PROVE  Alternate(a, b, 0) = <<>>
BY DEF Alternate

\* FlattenSeq of pairs is what the name says.
LEMMA FlattenPairs ==
    ASSUME NEW S, NEW n \in Nat, NEW a, NEW b, Columns(a, b, n, S)
    PROVE  FlattenSeq([i \in 1 .. n |-> <<a[i], b[i]>>]) = Alternate(a, b, n)
<1>0. \A i \in 1 .. n : Alternate(a, b, i) = Alternate(a, b, i - 1) \o <<a[i], b[i]>>
  <2>1. \A i \in 1 .. n : NextPair(a, b, i)
    BY AlternateStep
  <2> QED
    BY <2>1, Zenon DEF NextPair
<1>1. Alternate(a, b, 1 - 1) = <<>>
  <2>1. 1 - 1 = 0
    OBVIOUS
  <2> QED
    BY <2>1, AlternateNone, Zenon
<1> DEFINE pairs == [i \in 1 .. n |-> <<a[i], b[i]>>]
           IsFlat(f) == f = [i \in 1 .. n |-> IF i = 1 THEN pairs[i] ELSE f[i - 1] \o pairs[i]]
           flat == CHOOSE f : IsFlat(f)
           all == [i \in 1 .. n |-> Alternate(a, b, i)]
<1>2. Len(pairs) = n /\ pairs \in Seq(S \X S) /\ DOMAIN pairs = 1 .. n
  BY DEF Columns
<1>3. \A i \in 1 .. n : pairs[i] = <<a[i], b[i]>>
  OBVIOUS
<1>4. CASE n = 0
  <2>1. pairs = <<>>
    BY <1>4
  <2>2. Alternate(a, b, n) = <<>>
    BY <1>4, AlternateNone
  <2> QED
    BY <1>2, <1>4, <2>1, <2>2 DEF FlattenSeq
<1>5. CASE n # 0
  <2>1. FlattenSeq(pairs) = flat[n]
    <3> HIDE DEF pairs
    <3> QED
      BY <1>2, <1>5 DEF FlattenSeq
  <2>2. IsFlat(all)
    <3> HIDE DEF pairs
    <3>1. ASSUME NEW i \in 1 .. n, i = 1 PROVE all[i] = pairs[i]
      <4>1. all[i] = <<>> \o <<a[i], b[i]>>
        BY <1>0, <1>1, <3>1
      <4> QED
        BY <1>3, <4>1
    <3>2. ASSUME NEW i \in 1 .. n, i # 1 PROVE all[i] = all[i - 1] \o pairs[i]
      <4>1. i - 1 \in 1 .. n
        BY <3>2
      <4>2. all[i] = Alternate(a, b, i) /\ all[i - 1] = Alternate(a, b, i - 1)
        BY <4>1
      <4> HIDE DEF all
      <4> QED
        BY <1>0, <1>3, <4>2
    <3>3. all = [i \in 1 .. n |-> all[i]]
      OBVIOUS
    <3> HIDE DEF all
    <3>4. \A i \in 1 .. n : all[i] = IF i = 1 THEN pairs[i] ELSE all[i - 1] \o pairs[i]
      BY <3>1, <3>2
    <3> QED
      BY <3>3, <3>4
  <2>3. IsFlat(flat)
    <3> HIDE DEF IsFlat, all
    <3> QED
      BY <2>2
  <2> HIDE DEF flat
  <2>4. \A i \in 1 .. n : flat[i] = IF i = 1 THEN pairs[i] ELSE flat[i - 1] \o pairs[i]
    <3> HIDE DEF pairs
    <3> QED
      BY <2>3
  <2> HIDE DEF pairs
  <2> DEFINE T == {i \in 0 .. n : i # 0 => flat[i] = Alternate(a, b, i)}
  <2>5. 0 \in T
    OBVIOUS
  <2>6. ASSUME NEW i \in 1 .. n, i - 1 \in T PROVE i \in T
    <3>1. i \in 0 .. n
      OBVIOUS
    <3>2. CASE i = 1
      <4>1. Alternate(a, b, i) = <<>> \o <<a[i], b[i]>>
        BY <1>0, <1>1, <3>2
      <4>2. flat[i] = <<a[i], b[i]>>
        BY <1>3, <2>4, <3>2
      <4> QED
        BY <3>1, <4>1, <4>2
    <3>3. CASE i # 1
      <4>1. flat[i - 1] = Alternate(a, b, i - 1)
        BY <2>6, <3>3
      <4>2. flat[i] = flat[i - 1] \o pairs[i]
        BY <2>4, <3>3
      <4>3. flat[i] = Alternate(a, b, i)
        BY <1>0, <1>3, <4>1, <4>2
      <4> QED
        BY <3>1, <4>3
    <3> QED
      BY <3>2, <3>3
  <2>7. n \in T
    <3> HIDE DEF T
    <3>1. 0 .. n \subseteq T
      BY <2>5, <2>6, PrefixInduction
    <3> QED
      BY <3>1
  <2>8. flat[n] = Alternate(a, b, n)
    BY <1>5, <2>7
  <2> QED
    BY <2>1, <2>8 DEF pairs
<1> QED
  BY <1>4, <1>5
==============================================================================
