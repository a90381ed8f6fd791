------------------------------- MODULE MCWire -------------------------------
(***************************************************************************)
(* Three instances in one, about the bytes between client and server: one  *)
(* of Handshake, with keys of two bytes, so that leading zeros are         *)
(* frequent; one of Packet, whose states are many strings; and one of      *)
(* FrameReader.  In each behaviour one of them is at work and the others   *)
(* are idle.                                                               *)
(***************************************************************************)
EXTENDS Handshake, Packet, FrameReader, FiniteSets, SequencesExt

\* Some function of the whole sequence, to two bytes.
MCHash(s) == BigEndian(FoldLeft(LAMBDA v, d : (31 * v + d + 1) % 65521, 7, s), HashBytes)

\* "1", a name with a letter and a character of three bytes, one of four bytes,
\* one in Latin-1, and one that with its zero is just above the limit.
MCNames == {<<49>>, <<98, 226, 130, 172, 122>>, <<240, 159, 152, 128>>, <<106, 233>>, [i \in 1..PayloadLimit |-> 97]}
MCSalts == {<<0, 5>>, <<200, 0>>}
MCExponents == 1..5

----------------------------------------------------------------------------
Strings(set, n) == UNION {[1..i -> set] : i \in 0..n}

\* Bytes on both sides of every boundary that is_valid_utf8() tests.
Boundaries == {97, 122, 127, 128, 143, 144, 159, 160, 191, 192, 193, 194, 223, 224, 237, 239, 240, 244, 245}

\* Up to two of them, longer strings that begin like a character of three or
\* four bytes, short strings with zeros, and payloads around the limit and up to
\* what the length in a header can hold.
MCSamples ==
    Strings(Boundaries, 2)
    \cup {<<c, d, e>> : c \in {224, 237, 239}, d \in Boundaries, e \in {97, 127, 128, 191, 192}}
    \cup {<<c, d, e, f>> : c \in {224, 240, 244, 245}, d \in Boundaries, e \in {128, 191, 194}, f \in {97, 128}}
    \cup Strings({0, 1, 255}, 3)
    \cup {[i \in 1..len |-> i % Base] : len \in {255, 256, PayloadLimit - 1, PayloadLimit, PayloadLimit + 1, 65535}}

MCNumbers ==
    Field(Unsigned, 1, {<<v>> : v \in {0, 127, 128, 255}})
    \cup Field(Unsigned, 2, {<<v>> : v \in {0, 255, 256, 32768, 65535}})
    \cup Field(Unsigned, 4, {<<v>> : v \in {1, 65536, 2147483647}})
    \cup Field(Signed, 2, {<<v>> : v \in {-32768, -256, -1, 0, 127, 32767}})
    \cup Field({"bool"}, 1, {<<0>>, <<1>>})

\* Nothing, one byte, and what looks like the header of one more packet.
MCTails == {<<>>, <<7>>, <<7, 0, 1, 0>>}

----------------------------------------------------------------------------
NoLogon ==
    /\ stage = "none" /\ wire = <<>> /\ name = <<>> /\ account = NoAccount /\ cache = NoAccount
    /\ username = <<>> /\ server = NoServer /\ client = NoClient

NoReader ==
    /\ frames = <<>> /\ authFrames = 0 /\ received = 0 /\ consumed = 0 /\ peak = 0
    /\ size = InitialSize /\ store = [i \in 1..InitialSize |-> 0] /\ rpos = 0 /\ wpos = 0
    /\ mode = "AUTH" /\ packets = <<>> /\ pc = "closed"

MCInit ==
    \/ Init /\ bytes = NoSample /\ NoReader
    \/ bytes \in Samples /\ NoLogon /\ NoReader
    \/ ReaderInit /\ bytes = NoSample /\ NoLogon

MCNext ==
    \/ Next /\ UNCHANGED <<bytes, readerVars>>
    \/ ReaderNext /\ UNCHANGED <<bytes, vars>>
    \/ stage = "none" /\ pc = "closed" /\ UNCHANGED <<vars, bytes, readerVars>>

MCSpec == MCInit /\ [][MCNext]_<<vars, bytes, readerVars>>

============================================================================
