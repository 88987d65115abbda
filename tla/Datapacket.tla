------------------------------ MODULE Datapacket ------------------------------
(***************************************************************************)
(* datapacket.c and byteconverter.c: the buffer a packet is written into   *)
(* and read from, and vstack.c, the stack its lists go through.            *)
(*                                                                         *)
(* data is the memory that has been written, a function on offsets; a byte *)
(* of a string is named by the string and its place.  The accessors of     *)
(* bool and long, datapacket_simulate_int and datapacket_update_int are    *)
(* not called by the program.                                              *)
(***************************************************************************)
EXTENDS Integers, SequencesExt

CONSTANTS
    PACKET_SIZE,   \* what the buffer starts with and grows by, 32
    MAX_LEN,       \* what a vstack starts with, 8
    strlen         \* the length of each string

SizeofInt == 4
SizeofPointer == 8
INT_MAX == 2147483647
Ints == -INT_MAX - 1 .. INT_MAX

ASSUME PacketSizeAssumption == PACKET_SIZE \in Nat /\ PACKET_SIZE >= SizeofInt
ASSUME MaxLenAssumption == MAX_LEN \in Nat \ {0}
\* A length and the 0 behind the string are counted in an int (datapacket.c:92).
ASSUME StrlenAssumption ==
    \A s \in DOMAIN strlen : strlen[s] \in 0 .. INT_MAX - 1 /\ (strlen[s] = 0 <=> s = "")

Strings == DOMAIN strlen

------------------------------------------------------------------------------
(* Bytes *)

Byte(n) == [of |-> "", at |-> n]
Char(s, i) == [of |-> s, at |-> i]

\* An int is 32 bits in two's complement; the first byte has the sign.
bc_from_int(n) ==
    << Byte((n \div 16777216) % 256), Byte((n \div 65536) % 256),
       Byte((n \div 256) % 256), Byte(n % 256) >>

bc_to_int(b) ==
    (IF b[1].at > 127 THEN b[1].at - 256 ELSE b[1].at) * 16777216
        + b[2].at * 65536 + b[3].at * 256 + b[4].at

\* A string with its terminating 0.
Chars(s) == Append([i \in 1 .. strlen[s] |-> Char(s, i)], Byte(0))

------------------------------------------------------------------------------
(* Writing *)

memcpy(dp, from, bytes) ==
    [dp EXCEPT !.data =
        [k \in DOMAIN @ \union from .. from + Len(bytes) - 1 |->
            IF k \in from .. from + Len(bytes) - 1 THEN bytes[k - from + 1] ELSE @[k]]]

Written(dp, bytes) == [memcpy(dp, dp.index, bytes) EXCEPT !.index = @ + Len(bytes)]

\* The buffer grows by steps of PACKET_SIZE until more than additional bytes
\* are free.
datapacket_verify_size(dp, additional) ==
    LET free  == dp.buf_size - dp.index
        steps == IF free > additional THEN 0
                 ELSE (additional - free) \div PACKET_SIZE + 1
    IN  [dp EXCEPT !.buf_size = @ + steps * PACKET_SIZE]

datapacket_set_int(dp, i) ==
    Written(datapacket_verify_size(dp, SizeofInt), bc_from_int(i))

datapacket_set_string_unverified(dp, s) ==   \* mutant
    Written(datapacket_set_int(dp, strlen[s]), Chars(s))

datapacket_set_string(dp, s) ==
    LET grown == datapacket_verify_size(dp, SizeofInt + strlen[s] + 1)
    IN  Written(datapacket_set_int(grown, strlen[s]), Chars(s))

datapacket_create(type) ==
    datapacket_set_int([data |-> [k \in {} |-> Byte(0)], index |-> SizeofInt,
                        buf_size |-> PACKET_SIZE], type)

datapacket_finish(dp) == memcpy(dp, 0, bc_from_int(dp.index))

------------------------------------------------------------------------------
(* Reading *)

\* The bytes of a packet as the receiver gets them, index at the type.
datapacket_create_from_data(bytes, size) ==
    [data |-> [k \in 0 .. size - 1 |-> bytes[k]], index |-> SizeofInt,
     buf_size |-> SizeofPointer]

Within(dp, n) == dp.index .. dp.index + n - 1 \subseteq DOMAIN dp.data
Bytes(dp, n) == [i \in 1 .. n |-> dp.data[dp.index + i - 1]]
Skip(dp, n) == [dp EXCEPT !.index = @ + n]

\* There is an int, or a string, where the reader looks for one.
HasInt(dp) ==
    Within(dp, SizeofInt) /\ \A b \in Range(Bytes(dp, SizeofInt)) : b.of = ""

datapacket_get_int(dp) == bc_to_int(Bytes(dp, SizeofInt))

HasString(dp) ==
    /\ HasInt(dp)
    /\ LET len == datapacket_get_int(dp)
           at  == Skip(dp, SizeofInt)
       IN  /\ len >= 0 /\ Within(at, len + 1)
           /\ \E s \in Strings : Bytes(at, len + 1) = Chars(s)

datapacket_get_string(dp) ==
    LET at == Skip(dp, SizeofInt)
    IN  CHOOSE s \in Strings : Bytes(at, datapacket_get_int(dp) + 1) = Chars(s)

------------------------------------------------------------------------------
(* vstack *)

vstack_create == [vals |-> <<>>, max_len |-> MAX_LEN]

vstack_push_full(s, v) ==   \* mutant
    IF Len(s.vals) >= s.max_len THEN [s EXCEPT !.max_len = 2 * @]
    ELSE [s EXCEPT !.vals = Append(@, v)]

vstack_push(s, v) ==
    LET max_len == IF Len(s.vals) >= s.max_len THEN 2 * s.max_len ELSE s.max_len
    IN  [vals |-> Append(s.vals, v), max_len |-> max_len]

\* What a loop that pops until the stack is empty gets.
Popped(s) == Reverse(s.vals)

Pushed(seq) == FoldLeft(vstack_push, vstack_create, seq)
==============================================================================
