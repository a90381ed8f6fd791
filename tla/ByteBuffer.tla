----------------------------- MODULE ByteBuffer -----------------------------
(***************************************************************************)
(* The encodings of common/packet/ByteBuffer.hpp, which Packet.hpp passes   *)
(* through, the two packet formats built on it, AuthPacket.hpp and          *)
(* WorkPacket.hpp, and their receivers.  A buffer is its bytes and the read *)
(* position.  Integers keep their width, w bytes.  A float or a double is   *)
(* written as the integer with its bits, so it is an unsigned integer here. *)
(***************************************************************************)
EXTENDS Integers, Sequences

Base == 256
Byte == 0..(Base - 1)
ByteBuffer == [data : Seq(Byte), pos : Nat]
NewBuffer(data) == [data |-> data, pos |-> 0]

\* How many values w bytes have.
Power[w \in Nat] == IF w = 0 THEN 1 ELSE Base * Power[w - 1]

----------------------------------------------------------------------------
(* Writing.                                                                 *)

write_bytes(b, s) == [b EXCEPT !.data = @ \o s]

\* The w bytes of v, the most significant first (htobe) or last (htole).
BigEndian(v, w) == [i \in 1..w |-> (v \div Power[w - i]) % Base]

\* std::reverse.
Reversed(s) == [i \in 1..Len(s) |-> s[Len(s) + 1 - i]]
LittleEndian(v, w) == Reversed(BigEndian(v, w))

\* static_cast between the signed and the unsigned integers of w bytes.
ToUnsigned(v, w) == v % Power[w]
ToSigned(v, w) == IF 2 * v >= Power[w] THEN v - Power[w] ELSE v

write_uint_be(b, v, w) == write_bytes(b, BigEndian(v, w))
write_uint_le(b, v, w) == write_bytes(b, LittleEndian(v, w))
write_bool(b, v) == write_bytes(b, <<IF v THEN 1 ELSE 0>>)
write_string_raw_be(b, s) == write_bytes(b, s)
write_string_raw_le(b, s) == write_bytes(b, Reversed(s))
write_string_nt_be(b, s) == write_bytes(write_string_raw_be(b, s), <<0>>)

\* The string itself is not reversed.
write_string_nt_le_Plain(b, s) == write_bytes(write_string_raw_be(b, s), <<0>>)
write_string_nt_le(b, s) == write_bytes(write_string_raw_le(b, s), <<0>>)

----------------------------------------------------------------------------
(* Reading: the buffer after it, the value, and whether it returned at all. *)

Throws(b) == [buffer |-> b, value |-> <<>>, ok |-> FALSE]
Returns(b, n, v) == [buffer |-> [b EXCEPT !.pos = @ + n], value |-> v, ok |-> TRUE]

check_read(b, n) == b.pos + n <= Len(b.data)

Ahead(b, n) == SubSeq(b.data, b.pos + 1, b.pos + n)
Value(s) ==
    LET value[i \in 0..Len(s)] == IF i = 0 THEN 0 ELSE Base * value[i - 1] + s[i]
    IN value[Len(s)]

read_bytes(b, n) == IF check_read(b, n) THEN Returns(b, n, Ahead(b, n)) ELSE Throws(b)
read_uint_be(b, w) == IF check_read(b, w) THEN Returns(b, w, Value(Ahead(b, w))) ELSE Throws(b)
read_uint_le(b, w) == IF check_read(b, w) THEN Returns(b, w, Value(Reversed(Ahead(b, w)))) ELSE Throws(b)
read_bool(b) == IF check_read(b, 1) THEN Returns(b, 1, Ahead(b, 1) # <<0>>) ELSE Throws(b)
read_string_raw_be(b, n) == read_bytes(b, n)
read_string_raw_le(b, n) == IF check_read(b, n) THEN Returns(b, n, Reversed(Ahead(b, n))) ELSE Throws(b)
skip(b, n) == IF check_read(b, n) THEN Returns(b, n, <<>>) ELSE Throws(b)

\* Where the first zero is, or one past the end.
FirstZero(s) == CHOOSE z \in 1..(Len(s) + 1) : (z <= Len(s) => s[z] = 0) /\ \A i \in 1..(z - 1) : s[i] # 0

\* The zero is skipped even where there is none.
read_string_nt_be_Past(b) ==
    LET rest == SubSeq(b.data, b.pos + 1, Len(b.data))
        z == FirstZero(rest \o <<0>>)
    IN Returns(b, z, SubSeq(rest, 1, z - 1))

\* Up to the first zero, which is consumed and left out, or else, without any
\* complaint, up to the end of the buffer.
read_string_nt_be(b) ==
    LET rest == SubSeq(b.data, b.pos + 1, Len(b.data))
        z == FirstZero(rest)
    IN IF z > Len(rest) THEN Returns(b, Len(rest), rest) ELSE Returns(b, z, SubSeq(rest, 1, z - 1))
read_string_nt_le(b) == [read_string_nt_be(b) EXCEPT !.value = Reversed(@)]

----------------------------------------------------------------------------
(* Packets: an opcode of n bytes (1 in AuthPacket, 2 in WorkPacket), the    *)
(* length of the payload in two bytes, and the payload.                     *)

LengthBytes == 2

build_packet(n, opcode, payload) ==
    BigEndian(opcode, n) \o BigEndian(ToUnsigned(Len(payload), LengthBytes), LengthBytes) \o payload

\* The payload in a buffer of its own; throws unless the length is that of the
\* rest of the packet.
deserialize(n, raw) ==
    LET opcode == read_uint_be(NewBuffer(raw), n)
        length == read_uint_be(opcode.buffer, LengthBytes)
        payload == read_bytes(length.buffer, length.value)
    IN IF ~opcode.ok \/ ~length.ok THEN Throws(NewBuffer(<<>>))
       ELSE IF length.value # Len(raw) - n - LengthBytes THEN Throws(NewBuffer(<<>>))
       ELSE [buffer |-> NewBuffer(payload.value), value |-> opcode.value, ok |-> TRUE]

----------------------------------------------------------------------------
(* What a receiver makes of the bytes s that have arrived: it waits for     *)
(* more, takes a packet and leaves the rest, or refuses and ends the        *)
(* connection.  Either end cuts at the length that it finds in the header.  *)

PayloadLimit == 2048

HeaderLength(n, s) == Value(SubSeq(s, n + 1, n + LengthBytes))

Waits(s) == [outcome |-> "wait", packet |-> Throws(NewBuffer(<<>>)), rest |-> s]
Refuses(s) == [outcome |-> "refused", packet |-> Throws(NewBuffer(<<>>)), rest |-> s]
Takes(n, s, size) ==
    LET end == n + LengthBytes + size
    IN [outcome |-> "packet", packet |-> deserialize(n, SubSeq(s, 1, end)), rest |-> SubSeq(s, end + 1, Len(s))]

\* The limit is applied to the whole packet.
process_read_buffer_Tight(n, s) ==
    LET size == HeaderLength(n, s) IN
    IF Len(s) < n + LengthBytes THEN Waits(s)
    ELSE IF Len(s) < n + LengthBytes + size THEN Waits(s)
    ELSE IF n + LengthBytes + size > PayloadLimit THEN Refuses(s)
    ELSE Takes(n, s, size)

\* The server's readers look at the limit when the packet is there.
process_read_buffer(n, s) ==
    LET size == HeaderLength(n, s) IN
    IF Len(s) < n + LengthBytes THEN Waits(s)
    ELSE IF Len(s) < n + LengthBytes + size THEN Waits(s)
    ELSE IF size > PayloadLimit THEN Refuses(s)
    ELSE Takes(n, s, size)

\* The client reads the header, looks at the limit and then reads the payload.
start_receive_loop(n, s) ==
    LET size == HeaderLength(n, s) IN
    IF Len(s) < n + LengthBytes THEN Waits(s)
    ELSE IF size > PayloadLimit THEN Refuses(s)
    ELSE IF Len(s) < n + LengthBytes + size THEN Waits(s)
    ELSE Takes(n, s, size)

============================================================================
