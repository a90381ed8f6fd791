------------------------------- MODULE Packet -------------------------------
(***************************************************************************)
(* The typed fields of a packet: the calls of common/packet/Packet.hpp,     *)
(* each of which it hands on to its ByteBuffer, and what a reader of any    *)
(* payload may rely on.  The specification has no steps; its states are the *)
(* strings that the encodings are applied to.                               *)
(***************************************************************************)
EXTENDS ByteBuffer, UTF8Utils

CONSTANTS
    Samples,        \* byte strings: user names, fields and whole payloads
    NoSample,       \* none of them
    MaxField,       \* how long a string is that is written as a field
    Numbers,        \* the numbers that are written as fields
    Tails,          \* what may follow a packet in the stream
    Widths          \* how many bytes the reads of unknown bytes ask for

VARIABLE bytes

----------------------------------------------------------------------------
(* Fields, their value a sequence of numbers: a string's bytes, or the one  *)
(* number.                                                                  *)

Unsigned == {"uint_be", "uint_le"}
Signed == {"int_be", "int_le"}
Terminated == {"nt_be", "nt_le"}
Raw == {"raw_be", "raw_le"}
Kinds == Unsigned \cup Signed \cup {"bool"} \cup Terminated \cup Raw

Field(kinds, w, values) == [kind : kinds, w : {w}, value : values]

\* The string kinds that can hold s: a zero would end the terminated ones.
StringFields(s) ==
    Field(Raw, Len(s), {s})
    \cup IF \E i \in DOMAIN s : s[i] = 0 THEN {} ELSE Field(Terminated, 0, {s})

\* A number that the type of the call can hold, by its most significant byte.
IsNumber(f) ==
    /\ f \in [kind : Unsigned \cup Signed \cup {"bool"}, w : 1..8, value : Seq(Int)] /\ Len(f.value) = 1
    /\ f.kind \in Unsigned => f.value[1] \div Power[f.w - 1] \in Byte
    /\ f.kind \in Signed => f.value[1] \div Power[f.w - 1] \in (-128)..127
    /\ f.kind = "bool" => f.value[1] \in {0, 1}

ASSUME PacketAssumption ==
    /\ Samples \subseteq Seq(Byte) /\ NoSample \notin Samples
    /\ \A f \in Numbers : IsNumber(f)
    /\ MaxField \in Nat /\ MaxField + 9 < Power[LengthBytes]
    /\ Widths \subseteq Nat /\ Tails \subseteq Seq(Byte)

Write(b, f) ==
    LET v == f.value IN
    CASE f.kind = "uint_be" -> write_uint_be(b, v[1], f.w)
      [] f.kind = "uint_le" -> write_uint_le(b, v[1], f.w)
      [] f.kind = "int_be" -> write_uint_be(b, ToUnsigned(v[1], f.w), f.w)
      [] f.kind = "int_le" -> write_uint_le(b, ToUnsigned(v[1], f.w), f.w)
      [] f.kind = "bool" -> write_bool(b, v[1] = 1)
      [] f.kind = "nt_be" -> write_string_nt_be(b, v)
      [] f.kind = "nt_le" -> write_string_nt_le(b, v)
      [] f.kind = "raw_be" -> write_string_raw_be(b, v)
      [] f.kind = "raw_le" -> write_string_raw_le(b, v)

\* The result r of a read with v for its value.
As(r, v) == IF r.ok THEN [r EXCEPT !.value = v] ELSE r

\* The read that matches.
Read(b, f) ==
    LET be == read_uint_be(b, f.w)
        le == read_uint_le(b, f.w)
        bool == read_bool(b)
    IN CASE f.kind = "uint_be" -> As(be, <<be.value>>)
         [] f.kind = "uint_le" -> As(le, <<le.value>>)
         [] f.kind = "int_be" -> As(be, <<ToSigned(be.value, f.w)>>)
         [] f.kind = "int_le" -> As(le, <<ToSigned(le.value, f.w)>>)
         [] f.kind = "bool" -> As(bool, <<IF bool.value THEN 1 ELSE 0>>)
         [] f.kind = "nt_be" -> read_string_nt_be(b)
         [] f.kind = "nt_le" -> read_string_nt_le(b)
         [] f.kind = "raw_be" -> read_string_raw_be(b, f.w)
         [] f.kind = "raw_le" -> read_string_raw_le(b, f.w)

PacketSpec == bytes \in Samples \cup {NoSample} /\ [][UNCHANGED bytes]_bytes

----------------------------------------------------------------------------
(* Properties.                                                              *)

\* Not a whole payload but a string of the length of a field.
Short == bytes # NoSample /\ Len(bytes) <= MaxField

\* A string and a number written into a packet of either format, in either
\* order and by whichever encoding, are read back by the matching calls, and
\* nothing is left: no field takes a byte of the next one or leaves one to it.
FieldsSurvive ==
    Short =>
        \A n \in {1, 2}, s \in StringFields(bytes), f \in Numbers : \A fields \in {<<s, f>>, <<f, s>>} :
            LET payload == Write(Write(NewBuffer(<<>>), fields[1]), fields[2]).data
                one == Read(deserialize(n, build_packet(n, 7, payload)).buffer, fields[1])
                two == Read(one.buffer, fields[2])
            IN /\ one.ok /\ one.value = fields[1].value
               /\ two.ok /\ two.value = fields[2].value
               /\ two.buffer.pos = Len(payload)

\* Two reads of any kinds from any bytes, whatever was written there, leave the
\* position inside the buffer, and a read that throws leaves it where it was.
\* The terminated strings never throw: without a zero they end with the buffer.
ReadsStayInside ==
    Short =>
        \A first, second \in [kind : Kinds, w : Widths, value : {<<>>}] :
            LET one == Read(NewBuffer(bytes), first)
                two == Read(one.buffer, second)
            IN /\ two.buffer.pos \in one.buffer.pos..Len(bytes)
               /\ ~one.ok => one.buffer = NewBuffer(bytes)
               /\ ~two.ok => two.buffer = one.buffer
               /\ second.kind \in Terminated => two.ok

\* What a receiver should make of a packet with bytes for its payload, and of
\* the stream up to the last byte of it, given what it does make of them.
Delivered(got, more) ==
    IF Len(bytes) <= PayloadLimit
    THEN /\ got.outcome = "packet" /\ got.rest = more
         /\ got.packet = [buffer |-> NewBuffer(bytes), value |-> 7, ok |-> TRUE]
    ELSE got.outcome = "refused"

\* A payload whose length the header can hold arrives as it was given to
\* build_packet(), and what follows in the stream is left for the next packet;
\* or it is above the limit and refused.  Both ends cut by the length in the
\* header, and neither takes a packet before its last byte is there.
PacketsWhole ==
    bytes # NoSample /\ Len(bytes) < Power[LengthBytes] =>
        \A n \in {1, 2}, more \in Tails :
            LET sent == build_packet(n, 7, bytes)
            IN /\ Delivered(process_read_buffer(n, sent \o more), more)
               /\ Delivered(start_receive_loop(n, sent \o more), more)
               /\ \A k \in {n + 1, Len(sent) - 1} :
                     /\ process_read_buffer(n, SubSeq(sent, 1, k)).outcome = "wait"
                     /\ start_receive_loop(n, SubSeq(sent, 1, k)).outcome # "packet"

\* is_valid_utf8(): "> U+10FFFF" is refused.  It accepts exactly the well-formed
\* strings: the concatenations of shortest encodings of code points up to
\* U+10FFFF, surrogates excepted.
Utf8Exact == Short => (is_valid_utf8(bytes) <=> EncodesUpTo(bytes, LastCodePoint))

\* A sequence of four bytes that begins like a code point above U+10FFFF.
Beyond(s) == \E i \in 1..(Len(s) - 1) : s[i] = 244 /\ s[i + 1] >= 144

\* is_valid_utf8() accepts exactly the well-formed strings among those that do
\* not go beyond U+10FFFF: its tests of the first two bytes, and of how many
\* bytes follow, leave no overlong form, no surrogate and no stray byte.
Utf8ExactInRange ==
    Short /\ ~Beyond(bytes) => (is_valid_utf8(bytes) <=> EncodesUpTo(bytes, LastCodePoint))

============================================================================
