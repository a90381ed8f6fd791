-------------------------- MODULE HandshakeProofs --------------------------
(***************************************************************************)
(* Proofs about the bytes of a logon, for keys and hashes of any length,    *)
(* every modulus, generator and name, and whatever SHA1 computes: the       *)
(* invariant that knows every packet to the byte, from which the two ends   *)
(* compute with the same numbers and no logon is cut off.  What a read      *)
(* makes of a packet comes from WireProofs.                                 *)
(***************************************************************************)
EXTENDS Handshake, WireProofs

----------------------------------------------------------------------------
(* The numbers of the exchange.                                             *)

\* All that is assumed of SHA1.
SHA1Type == \A s \in Seq(Byte) : SHA1(s) \in Seq(Byte) /\ Len(SHA1(s)) = HashBytes

Number == 0..(N - 1)

\* As many bytes as a number needs, and no more.
LEMMA BinBytes ==
    ASSUME NEW v \in Nat, v < Power[KeyBytes]
    PROVE  \E w \in 0..KeyBytes : Bin(v) = BigEndian(v, w) /\ v < Power[w]
<1>0. KeyBytes \in Nat
      BY HandshakeAssumption
<1> DEFINE T == {w \in Nat : v < Power[w]}
           Q(w) == v < Power[w] /\ (w > 0 => v >= Power[w - 1])
<1>1. PICK x \in T : \A y \in T : x <= y
  <2>1. T \subseteq Nat /\ T # {}
        BY <1>0
  <2> QED BY <2>1, LeastNumber, Zenon
<1>2. x \in 0..KeyBytes
      BY <1>0, <1>1
<1>3. ASSUME x > 0 PROVE v >= Power[x - 1]
  <2>1. x - 1 \in Nat /\ ~(x <= x - 1)
        BY <1>1, <1>3
  <2>2. x - 1 \notin T
        BY <1>1, <2>1, Zenon
  <2>3. ~(v < Power[x - 1])
        BY <2>1, <2>2, Zenon
  <2>4. Power[x - 1] \in Nat
        BY <2>1, PowerSteps, Zenon
  <2> QED BY <2>3, <2>4
<1>4. Q(x)
  <2>1. v < Power[x]
        BY <1>1, Zenon
  <2> QED BY <1>3, <2>1, Zenon
<1> DEFINE c == CHOOSE w \in 0..KeyBytes : Q(w)
<1>5. c \in 0..KeyBytes /\ Q(c)
      BY <1>2, <1>4, Zenon
<1>6. Bin(v) = BigEndian(v, c)
      BY Zenon DEF Bin
<1> HIDE DEF c
<1> QED BY <1>5, <1>6, Zenon

\* A padded number is its bytes in the length of a key.
LEMMA KeyBytesOf ==
    ASSUME NEW v \in Nat, v < Power[KeyBytes]
    PROVE  key_bytes(v) = BigEndian(v, KeyBytes)
<1> DEFINE K == KeyBytes
<1>0. K \in Nat
      BY HandshakeAssumption
<1>1. PICK w \in 0..K : Bin(v) = BigEndian(v, w) /\ v < Power[w]
      BY BinBytes, Zenon
<1> DEFINE s == BigEndian(v, w)
           z == [i \in 1..(K - w) |-> 0]
<1>2. s \in Seq(Byte) /\ Len(s) = w /\ w \in Nat /\ K - w \in Nat
      BY <1>0, BigEndianType
<1>3. key_bytes(v) = z \o s
      BY <1>1, <1>2, Zenon DEF key_bytes, pad_bytes_left
<1>4. z \in Seq(Byte) /\ Len(z) = K - w /\ \A i \in 1..(K - w) : z[i] = 0
      BY <1>2 DEF Byte, Base
<1>5. ASSUME NEW i \in 1..w PROVE s[i] = (v \div Power[w - i]) % Base
      BY DEF BigEndian
<1> HIDE DEF s, z
<1>6. z \o s \in Seq(Byte) /\ Len(z \o s) = K
      BY <1>0, <1>2, <1>4
<1>7. ASSUME NEW i \in 1..K PROVE (z \o s)[i] = (v \div Power[K - i]) % Base
  <2>1. CASE i <= K - w
    <3>1. i \in 1..(K - w) /\ K - i \in Nat /\ w <= K - i
          BY <1>0, <1>2, <2>1
    <3>2. (z \o s)[i] = 0
          BY <1>2, <1>4, <3>1
    <3>3. Power[K - i] \in Nat \ {0} /\ Power[w] \in Nat
          BY <1>2, <3>1, PowerSteps, Zenon
    <3>4. Power[w] <= Power[K - i]
          BY <1>2, <3>1, PowerGrows, Zenon
    <3>5. v < Power[K - i]
          BY <1>1, <3>3, <3>4
    <3>6. \A m \in Nat \ {0} : v < m => (v \div m) % Base = 0
          BY DEF Base
    <3> QED BY <3>2, <3>3, <3>5, <3>6, Zenon
  <2>2. CASE i > K - w
    <3>1. i - (K - w) \in 1..w /\ w - (i - (K - w)) = K - i
          BY <1>0, <1>2, <2>2
    <3>2. (z \o s)[i] = s[i - (K - w)]
          BY <1>0, <1>2, <1>4, <2>2, SMTT(30)
    <3> QED BY <1>5, <3>1, <3>2, Zenon
  <2>3. i <= K - w \/ i > K - w
        BY <1>2
  <2> QED BY <2>1, <2>2, <2>3, Zenon
<1>8. BigEndian(v, K) \in Seq(Byte) /\ Len(BigEndian(v, K)) = K
      BY <1>0, BigEndianType, Zenon
<1>9. z \o s = BigEndian(v, K)
  <2>1. ASSUME NEW i \in 1..K PROVE (z \o s)[i] = BigEndian(v, K)[i]
    <3>1. BigEndian(v, K)[i] = (v \div Power[K - i]) % Base
          BY DEF BigEndian
    <3> QED BY <1>7, <3>1, Zenon
  <2> QED BY <1>6, <1>8, <2>1, SameSeq, Zenon
<1> QED BY <1>3, <1>9, Zenon

\* A power modulo m is below m.
LEMMA ModExpRange ==
    ASSUME NEW b \in Nat, NEW e \in Nat, NEW m \in Nat \ {0}
    PROVE  BN_mod_exp(b, e, m) \in 0..(m - 1)
<1> DEFINE V == 0..(m - 1)
           step == [p \in Nat \X V |-> (p[2] * b) % m]
           F[i \in 0..e] == IF i = 0 THEN 1 % m ELSE (F[i - 1] * b) % m
<1>1. 1 % m \in V
      OBVIOUS
<1>2. ASSUME NEW x \in V PROVE (x * b) % m \in V
  <2>1. x * b \in Nat
        OBVIOUS
  <2> QED BY <2>1
<1>3. F = CHOOSE h : h = [i \in 0..e |-> IF i = 0 THEN 1 % m ELSE (h[i - 1] * b) % m]
      BY Zenon
<1>4. BN_mod_exp(b, e, m) = F[e]
      BY Zenon DEF BN_mod_exp
<1> HIDE DEF F, V
<1>5. step \in [Nat \X V -> V]
      BY <1>2
<1>6. \A k \in Nat, x \in V : step[<<k, x>>] = (x * b) % m
      OBVIOUS
<1> HIDE DEF step
<1>7. PICK h \in [0..e -> V] : Obeys(h, 1 % m, step, e)
      BY <1>1, <1>5, ObeysUpTo, Zenon
<1>8. h = [i \in 0..e |-> IF i = 0 THEN 1 % m ELSE (h[i - 1] * b) % m]
  <2>1. ASSUME NEW i \in 0..e, i # 0 PROVE h[i] = (h[i - 1] * b) % m
    <3>1. i - 1 \in Nat /\ i - 1 < e /\ (i - 1) + 1 = i /\ i - 1 \in 0..e
          BY <2>1
    <3>2. h[i - 1] \in V
          BY <3>1, Zenon
    <3>3. h[(i - 1) + 1] = step[<<i - 1, h[i - 1]>>]
          BY <1>7, <3>1, Zenon DEF Obeys
    <3> QED BY <1>6, <3>1, <3>2, <3>3, Zenon
  <2>2. h[0] = 1 % m
        BY <1>7, Zenon DEF Obeys
  <2>3. ASSUME NEW i \in 0..e PROVE h[i] = IF i = 0 THEN 1 % m ELSE (h[i - 1] * b) % m
        BY <2>1, <2>2, Zenon
  <2> QED BY <2>3
<1>9. F = [i \in 0..e |-> IF i = 0 THEN 1 % m ELSE (F[i - 1] * b) % m]
      BY <1>3, <1>8, Zenon
<1> DEFINE S == {i \in Nat : F[i] \in V}
<1>10. 0 \in S
  <2>1. 0 \in 0..e
        OBVIOUS
  <2>2. F[0] = 1 % m
        BY <1>9, <2>1, Zenon
  <2> QED BY <1>1, <2>2
<1>11. ASSUME NEW k \in Nat, k < e, k \in S PROVE k + 1 \in S
  <2>1. k + 1 \in 0..e /\ k + 1 # 0 /\ (k + 1) - 1 = k
        BY <1>11
  <2>2. F[k + 1] = (F[(k + 1) - 1] * b) % m
        BY <1>9, <2>1, Zenon
  <2>3. F[k] \in V
        BY <1>11
  <2>4. F[k + 1] \in V
        BY <1>2, <2>1, <2>2, <2>3, Zenon
  <2> QED BY <2>4
<1> HIDE DEF S
<1>12. e \in S
  <2>1. \A k \in 0..e : k \in S
        BY <1>10, <1>11, Induction, Zenon
  <2> QED BY <2>1
<1> QED BY <1>4, <1>12, Zenon DEF S, V

\* The bounds that the assumptions give.
LEMMA Bounds ==
    /\ KeyBytes \in Nat \ {0} /\ HashBytes \in Nat /\ N \in Nat \ {0} /\ g \in Nat /\ g < Power[1]
    /\ Exponents \subseteq Nat
    /\ \A v \in 0..N : v \in Nat /\ v < Power[KeyBytes]
    /\ g < Power[KeyBytes]
<1>1. /\ KeyBytes \in Nat \ {0} /\ HashBytes \in Nat /\ N \in 1..(Power[KeyBytes] - 1) /\ g \in 1..(Base - 1)
      /\ Exponents \subseteq Nat
      BY HandshakeAssumption, Zenon
<1>2. Power[KeyBytes] \in Nat /\ Power[1] \in Nat /\ Power[1] = Base
  <2>1. KeyBytes \in Nat /\ 1 \in Nat
        BY <1>1
  <2> QED BY <2>1, PowerSteps, SmallPowers, Zenon
<1>3. Power[1] <= Power[KeyBytes]
  <2>1. 1 \in Nat /\ KeyBytes \in Nat /\ 1 <= KeyBytes
        BY <1>1
  <2> QED BY <2>1, PowerGrows, Zenon
<1>4. N \in Nat \ {0} /\ \A v \in 0..N : v \in Nat /\ v < Power[KeyBytes]
      BY <1>1, <1>2
<1>5. g \in Nat /\ g < Power[1]
      BY <1>1, <1>2
<1>6. g < Power[KeyBytes]
      BY <1>2, <1>3, <1>5
<1> QED BY <1>1, <1>4, <1>5, <1>6, Zenon

\* A number as a field: as long as a key, and read back.
LEMMA NumberField ==
    ASSUME NEW v \in 0..N
    PROVE  key_bytes(v) \in Seq(Byte) /\ Len(key_bytes(v)) = KeyBytes /\ Value(key_bytes(v)) = v
<1>1. v \in Nat /\ v < Power[KeyBytes] /\ KeyBytes \in Nat
      BY Bounds
<1>2. key_bytes(v) = BigEndian(v, KeyBytes)
      BY <1>1, KeyBytesOf, Zenon
<1> QED BY <1>1, <1>2, BigEndianType, ValueOfBytes, Zenon

\* The bytes of a number without padding.
LEMMA BinFacts ==
    ASSUME NEW v \in Nat, v < Power[KeyBytes]
    PROVE  /\ Bin(v) \in Seq(Byte) /\ Value(Bin(v)) = v
           /\ Len(Bin(v)) # KeyBytes => v < Power[KeyBytes - 1]
<1>0. KeyBytes \in Nat \ {0}
      BY Bounds, Zenon
<1>1. PICK w \in 0..KeyBytes : Bin(v) = BigEndian(v, w) /\ v < Power[w]
      BY BinBytes, Zenon
<1>2. w \in Nat
      BY <1>0
<1>3. Bin(v) \in Seq(Byte) /\ Len(Bin(v)) = w /\ Value(Bin(v)) = v
      BY <1>1, <1>2, BigEndianType, ValueOfBytes, Zenon
<1>4. ASSUME w # KeyBytes PROVE v < Power[KeyBytes - 1]
  <2>1. KeyBytes - 1 \in Nat /\ w <= KeyBytes - 1
        BY <1>0, <1>4
  <2>2. Power[w] <= Power[KeyBytes - 1] /\ Power[w] \in Nat /\ Power[KeyBytes - 1] \in Nat
        BY <1>2, <2>1, PowerGrows, PowerSteps, Zenon
  <2> QED BY <1>1, <2>2
<1> QED BY <1>3, <1>4, Zenon

\* A row that generate_salt_and_verifier_trinity() made: its salt is as long as a
\* key, and its verifier is shorter only if it is a small number.
LEMMA RowFacts ==
    ASSUME NEW row \in Rows
    PROVE  /\ row.salt \in Seq(Byte) /\ Len(row.salt) = KeyBytes
           /\ row.verifier \in Seq(Byte)
           /\ Len(row.verifier) # KeyBytes => Value(row.verifier) < Power[KeyBytes - 1]
<1>1. PICK s \in Salts, x \in Exponents : row = generate_salt_and_verifier_trinity(s, x)
      BY DEF Rows
<1> DEFINE v == BN_mod_exp(g, x, N)
<1>2. row.salt = s /\ row.verifier = Bin(v)
      BY <1>1 DEF generate_salt_and_verifier_trinity
<1>3. s \in Seq(Byte) /\ Len(s) = KeyBytes
      BY HandshakeAssumption, Zenon
<1>4. v \in 0..(N - 1)
  <2>1. g \in Nat /\ x \in Nat /\ N \in Nat \ {0}
        BY Bounds
  <2> QED BY <2>1, ModExpRange, Zenon
<1> HIDE DEF v
<1>5. v \in Nat /\ v < Power[KeyBytes]
  <2>1. v \in 0..N
        BY <1>4, Bounds
  <2> QED BY <2>1, Bounds, Zenon
<1> QED BY <1>2, <1>3, <1>5, BinFacts, Zenon

\* The server's B is a number below N.
LEMMA EphemeralRange ==
    ASSUME SHA1Type, NEW row \in Rows, NEW b \in Exponents
    PROVE  generate_server_ephemeral(row.verifier, b) \in Number
<1>1. /\ g \in Nat /\ N \in Nat \ {0} /\ b \in Nat /\ N \in 0..N
      /\ g < Power[KeyBytes] /\ N < Power[KeyBytes]
  <2>1. N \in Nat \ {0} /\ g \in Nat /\ b \in Nat /\ g < Power[KeyBytes]
        BY Bounds, Zenon
  <2>2. N \in 0..N
        BY <2>1
  <2> QED BY <2>1, <2>2, Bounds, Zenon
<1>2. calculate_k(N, g) \in Nat
  <2>1. Bin(N) \in Seq(Byte) /\ Bin(g) \in Seq(Byte) /\ N \in Nat
        BY <1>1, BinFacts
  <2>2. Bin(N) \o Bin(g) \in Seq(Byte)
        BY <2>1, ConcatFacts, Zenon
  <2>3. SHA1(Bin(N) \o Bin(g)) \in Seq(Byte)
        BY <2>2, Zenon DEF SHA1Type
  <2> QED BY <2>3, ValueType, Zenon DEF calculate_k
<1>3. Value(row.verifier) \in Nat
      BY RowFacts, ValueType, Zenon
<1>4. BN_mod_exp(g, b, N) \in Nat
  <2>1. BN_mod_exp(g, b, N) \in 0..(N - 1)
        BY <1>1, ModExpRange, Zenon
  <2> QED BY <1>1, <2>1
<1>5. \A k, x, y \in Nat : (((k * x) % N) + y) % N \in 0..(N - 1)
  <2> SUFFICES ASSUME NEW k \in Nat, NEW x \in Nat, NEW y \in Nat PROVE (((k * x) % N) + y) % N \in 0..(N - 1)
      OBVIOUS
  <2>1. \A d \in Nat : d % N \in Nat /\ d % N \in 0..(N - 1)
        BY <1>1
  <2>2. k * x \in Nat
        OBVIOUS
  <2>3. (k * x) % N \in Nat
        BY <2>1, <2>2, Zenon
  <2>4. ((k * x) % N) + y \in Nat
        BY <2>3
  <2> QED BY <2>1, <2>4, Zenon
<1> QED BY <1>2, <1>3, <1>4, <1>5, Zenon DEF generate_server_ephemeral, Number

----------------------------------------------------------------------------
(* The packets of the exchange.                                             *)

Opcodes == {EMPTY_STAGE, CMSG_AUTH_LOGON_CHALLENGE, SMSG_AUTH_LOGON_CHALLENGE, CMSG_AUTH_LOGON_PROOF,
            SMSG_AUTH_LOGON_PROOF, SMSG_AUTH_RESPONSE}

ChallengeBytes(B, salt) == key_bytes(B) \o (BigEndian(g, 1) \o (key_bytes(N) \o salt))

\* What either end makes of the packet on the wire.
LEMMA WireArrives ==
    ASSUME NEW opcode \in Opcodes, NEW payload \in Seq(Byte), Len(payload) < Power[LengthBytes],
           wire = AuthPacket(opcode, payload)
    PROVE  /\ Arrives(start_receive_loop(1, wire), opcode, payload, << >>)
           /\ Arrives(Request, opcode, payload, << >>)
<1>1. opcode \in Nat /\ opcode < Power[1] /\ 1 \in Nat
  <2>1. opcode \in 0..7
        BY DEF Opcodes, EMPTY_STAGE, CMSG_AUTH_LOGON_CHALLENGE, SMSG_AUTH_LOGON_CHALLENGE, CMSG_AUTH_LOGON_PROOF,
               SMSG_AUTH_LOGON_PROOF, SMSG_AUTH_RESPONSE
  <2> QED BY <2>1, SmallPowers DEF Base
<1>2. wire = build_packet(1, opcode, payload)
      BY Zenon DEF AuthPacket
<1>3. wire \in Seq(Byte)
      BY <1>1, <1>2, PacketBytes, Zenon
<1>4. <<>> \in Seq(Byte) /\ wire \o <<>> = wire
      BY <1>3, EmptyFacts, Zenon
<1>5. /\ Arrives(process_read_buffer(1, wire \o <<>>), opcode, payload, <<>>)
      /\ Arrives(start_receive_loop(1, wire \o <<>>), opcode, payload, <<>>)
      BY <1>1, <1>2, <1>4, PacketsArrive, Zenon
<1> QED BY <1>4, <1>5, Zenon DEF Request

\* A packet that is short enough is received as it was sent.
LEMMA ReceivedIs ==
    ASSUME NEW opcode \in Opcodes, NEW payload \in Seq(Byte), Len(payload) <= PayloadLimit,
           wire = AuthPacket(opcode, payload)
    PROVE  /\ Received = [buffer |-> NewBuffer(payload), value |-> opcode, ok |-> TRUE]
           /\ Request.outcome = "packet" /\ Request.packet = [buffer |-> NewBuffer(payload), value |-> opcode, ok |-> TRUE]
<1>1. Len(payload) < Power[LengthBytes] /\ ~(Len(payload) > PayloadLimit)
  <2>1. LengthBytes \in Nat
        BY DEF LengthBytes
  <2>2. Power[LengthBytes] \in Nat
        BY <2>1, PowerSteps, Zenon
  <2>3. Len(payload) \in Nat
        OBVIOUS
  <2> HIDE DEF LengthBytes
  <2> QED BY <2>2, <2>3, LimitFits
<1>2. /\ Arrives(start_receive_loop(1, wire), opcode, payload, <<>>)
      /\ Arrives(Request, opcode, payload, <<>>)
      BY <1>1, WireArrives, Zenon
<1> QED BY <1>1, <1>2, Zenon DEF Arrives, Received

Regroups(x, y, z, u) == ((x \o y) \o z) \o u = x \o (y \o (z \o u))

\* Four strings one after another.
LEMMA FourParts ==
    ASSUME NEW x \in Seq(Byte), NEW y \in Seq(Byte), NEW z \in Seq(Byte), NEW u \in Seq(Byte)
    PROVE  Regroups(x, y, z, u)
<1>1. \A v \in Seq(Byte) : x \o (y \o v) = (x \o y) \o v
      OBVIOUS
<1>2. \A w \in Seq(Byte) : w \o (z \o u) = (w \o z) \o u
      OBVIOUS
<1>3. x \o y \in Seq(Byte) /\ z \o u \in Seq(Byte)
      BY ConcatFacts, Zenon
<1>4. x \o (y \o (z \o u)) = (x \o y) \o (z \o u)
      BY <1>1, <1>3, Zenon
<1>5. (x \o y) \o (z \o u) = ((x \o y) \o z) \o u
      BY <1>2, <1>3, Zenon
<1> QED BY <1>4, <1>5, Zenon DEF Regroups

\* What AnswerFrom() writes.
LEMMA ChallengeWritten ==
    ASSUME NEW B \in Number, NEW salt \in Seq(Byte), Len(salt) = KeyBytes
    PROVE  /\ write_bytes(write_bytes(write_uint_be(write_bytes(NewBuffer(<<>>), key_bytes(B)), g, 1), key_bytes(N)), salt).data
                  = ChallengeBytes(B, salt)
           /\ ChallengeBytes(B, salt) \in Seq(Byte) /\ Len(ChallengeBytes(B, salt)) <= PayloadLimit
<1> DEFINE a == key_bytes(B)
           c == BigEndian(g, 1)
           d == key_bytes(N)
<1>1. /\ a \in Seq(Byte) /\ Len(a) = KeyBytes
      /\ c \in Seq(Byte) /\ Len(c) = 1
      /\ d \in Seq(Byte) /\ Len(d) = KeyBytes
  <2>1. B \in 0..N /\ N \in 0..N /\ g \in Nat /\ 1 \in Nat
        BY Bounds DEF Number
  <2> QED BY <2>1, NumberField, BigEndianType, Zenon
<1> HIDE DEF a, c, d
<1>2. write_bytes(write_bytes(write_uint_be(write_bytes(NewBuffer(<<>>), a), g, 1), d), salt).data
          = (((<<>> \o a) \o c) \o d) \o salt
      BY DEF write_bytes, write_uint_be, NewBuffer, c
<1>3. (((<<>> \o a) \o c) \o d) \o salt = a \o (c \o (d \o salt))
  <2>1. <<>> \o a = a
        BY <1>1, EmptyFacts, Zenon
  <2>2. ((a \o c) \o d) \o salt = a \o (c \o (d \o salt))
    <3>1. Regroups(a, c, d, salt)
          BY <1>1, FourParts, Zenon
    <3> QED BY <3>1, Zenon DEF Regroups
  <2> QED BY <2>1, <2>2, Zenon
<1>4. a \o (c \o (d \o salt)) \in Seq(Byte) /\ Len(a \o (c \o (d \o salt))) = KeyBytes + (1 + (KeyBytes + KeyBytes))
  <2>1. d \o salt \in Seq(Byte) /\ Len(d \o salt) = Len(d) + Len(salt)
        BY <1>1, ConcatFacts, Zenon
  <2>2. c \o (d \o salt) \in Seq(Byte) /\ Len(c \o (d \o salt)) = Len(c) + Len(d \o salt)
        BY <1>1, <2>1, ConcatFacts, Zenon
  <2>3. a \o (c \o (d \o salt)) \in Seq(Byte) /\ Len(a \o (c \o (d \o salt))) = Len(a) + Len(c \o (d \o salt))
        BY <1>1, <2>2, ConcatFacts, Zenon
  <2> QED BY <1>1, <2>1, <2>2, <2>3, Zenon
<1>5. KeyBytes + (1 + (KeyBytes + KeyBytes)) <= PayloadLimit
  <2>1. 3 * KeyBytes + 1 <= PayloadLimit /\ KeyBytes \in Nat
        BY PayloadAssumption, Bounds
  <2> QED BY <2>1, LimitFits
<1> QED BY <1>2, <1>3, <1>4, <1>5, Zenon DEF ChallengeBytes, a, c, d

\* The fields that the client reads from buffer, each call going on where the
\* one before it stopped.
ReadsChallenge(buf, B, salt) ==
    LET one == read_bytes(buf, KeyBytes)
        two == read_uint_be(one.buffer, 1)
        three == read_bytes(two.buffer, KeyBytes)
        four == read_bytes(three.buffer, KeyBytes)
    IN one.value = key_bytes(B) /\ two.value = g /\ three.value = key_bytes(N) /\ four.value = salt /\ four.ok

\* They are the ones that were written.
LEMMA ChallengeRead ==
    ASSUME NEW B \in Number, NEW salt \in Seq(Byte), Len(salt) = KeyBytes
    PROVE  ReadsChallenge(NewBuffer(ChallengeBytes(B, salt)), B, salt)
<1> DEFINE a == key_bytes(B)
           c == BigEndian(g, 1)
           d == key_bytes(N)
           one == read_bytes(NewBuffer(ChallengeBytes(B, salt)), KeyBytes)
           two == read_uint_be(one.buffer, 1)
           three == read_bytes(two.buffer, KeyBytes)
           four == read_bytes(three.buffer, KeyBytes)
<1>1. /\ a \in Seq(Byte) /\ Len(a) = KeyBytes
      /\ c \in Seq(Byte) /\ Len(c) = 1
      /\ d \in Seq(Byte) /\ Len(d) = KeyBytes
      /\ g \in Nat /\ 1 \in Nat /\ g < Power[1]
  <2>1. B \in 0..N /\ N \in 0..N /\ g \in Nat /\ 1 \in Nat /\ g < Power[1]
        BY Bounds DEF Number
  <2> QED BY <2>1, NumberField, BigEndianType, Zenon
<1>2. ChallengeBytes(B, salt) = a \o (c \o (d \o salt))
      BY Zenon DEF ChallengeBytes
<1> HIDE DEF a, c, d
<1>3. /\ <<>> \in Seq(Byte) /\ <<>> \o a = a /\ a \o c \in Seq(Byte) /\ (a \o c) \o d \in Seq(Byte)
      /\ d \o salt \in Seq(Byte) /\ c \o (d \o salt) \in Seq(Byte) /\ a \o (c \o (d \o salt)) \in Seq(Byte)
      /\ salt \o <<>> = salt
      BY <1>1, ConcatFacts, EmptyFacts, Zenon
<1>4. one.value = a /\ one.buffer = At(a, c \o (d \o salt))
  <2>1. NewBuffer(a \o (c \o (d \o salt))) = At(<<>>, a \o (c \o (d \o salt)))
        BY <1>3, NewBufferAt, Zenon
  <2>2. read_bytes(At(<<>>, a \o (c \o (d \o salt))), Len(a)) = Taken(<<>>, a, c \o (d \o salt), a)
        BY <1>1, <1>3, BytesTaken, Zenon
  <2>3. one = Taken(<<>>, a, c \o (d \o salt), a)
        BY <1>1, <1>2, <2>1, <2>2, Zenon
  <2> QED BY <1>3, <2>3 DEF Taken
<1>5. two.value = g /\ two.buffer = At(a \o c, d \o salt)
  <2>1. read_uint_be(At(a, BigEndian(g, 1) \o (d \o salt)), 1) = Taken(a, BigEndian(g, 1), d \o salt, g)
    <3>1. \A x, z \in Seq(Byte) : read_uint_be(At(x, BigEndian(g, 1) \o z), 1) = Taken(x, BigEndian(g, 1), z, g)
      <4> TAKE x, z \in Seq(Byte)
      <4>1. g \in Nat /\ 1 \in Nat /\ g < Power[1]
            BY <1>1, Zenon
      <4> QED BY <4>1, NumberTaken, Zenon
    <3> QED BY <1>1, <1>3, <3>1, Zenon
  <2>2. two = Taken(a, c, d \o salt, g)
        BY <1>4, <2>1, Zenon DEF c
  <2> QED BY <2>2 DEF Taken
<1>6. three.value = d /\ three.buffer = At((a \o c) \o d, salt)
  <2>1. read_bytes(At(a \o c, d \o salt), Len(d)) = Taken(a \o c, d, salt, d)
        BY <1>1, <1>3, BytesTaken, Zenon
  <2>2. three = Taken(a \o c, d, salt, d)
        BY <1>1, <1>5, <2>1, Zenon
  <2> QED BY <2>2 DEF Taken
<1>7. four.value = salt /\ four.ok
  <2>1. read_bytes(At((a \o c) \o d, salt \o <<>>), Len(salt)) = Taken((a \o c) \o d, salt, <<>>, salt)
        BY <1>3, BytesTaken, Zenon
  <2>2. four = Taken((a \o c) \o d, salt, <<>>, salt)
        BY <1>3, <1>6, <2>1, Zenon
  <2> QED BY <2>2 DEF Taken
<1> HIDE DEF one, two, three, four
<1> QED BY <1>4, <1>5, <1>6, <1>7, Zenon DEF ReadsChallenge, one, two, three, four, a, d

\* The fields that the server reads from buffer.
ReadsProof(buf, A, M1) ==
    LET one == read_bytes(buf, KeyBytes)
        two == read_bytes(one.buffer, HashBytes)
    IN one.value = key_bytes(A) /\ two.value = M1 /\ two.ok

\* The client's proof, as it is written and as it is read.
LEMMA ProofFields ==
    ASSUME NEW A \in Number, NEW M1 \in Seq(Byte), Len(M1) = HashBytes
    PROVE  /\ write_bytes(write_bytes(NewBuffer(<<>>), key_bytes(A)), M1).data = key_bytes(A) \o M1
           /\ key_bytes(A) \o M1 \in Seq(Byte) /\ Len(key_bytes(A) \o M1) <= PayloadLimit
           /\ ReadsProof(NewBuffer(key_bytes(A) \o M1), A, M1)
<1> DEFINE a == key_bytes(A)
           one == read_bytes(NewBuffer(a \o M1), KeyBytes)
           two == read_bytes(one.buffer, HashBytes)
<1>1. a \in Seq(Byte) /\ Len(a) = KeyBytes
  <2>1. A \in 0..N
        BY Bounds DEF Number
  <2> QED BY <2>1, NumberField, Zenon
<1> HIDE DEF a
<1>2. /\ <<>> \in Seq(Byte) /\ <<>> \o a = a /\ M1 \o <<>> = M1
      /\ a \o M1 \in Seq(Byte) /\ Len(a \o M1) = Len(a) + Len(M1)
      BY <1>1, ConcatFacts, EmptyFacts, Zenon
<1>3. write_bytes(write_bytes(NewBuffer(<<>>), a), M1).data = a \o M1
  <2>1. write_bytes(write_bytes(NewBuffer(<<>>), a), M1).data = (<<>> \o a) \o M1
        BY DEF write_bytes, NewBuffer
  <2> QED BY <1>2, <2>1, Zenon
<1>4. Len(a \o M1) <= PayloadLimit
      BY <1>1, <1>2, PayloadAssumption, Zenon
<1>5. one.value = a /\ one.buffer = At(a, M1)
  <2>1. NewBuffer(a \o M1) = At(<<>>, a \o M1)
        BY <1>2, NewBufferAt, Zenon
  <2>2. read_bytes(At(<<>>, a \o M1), Len(a)) = Taken(<<>>, a, M1, a)
        BY <1>1, <1>2, BytesTaken, Zenon
  <2>3. one = Taken(<<>>, a, M1, a)
        BY <1>1, <2>1, <2>2, Zenon
  <2> QED BY <1>2, <2>3 DEF Taken
<1>6. two.value = M1 /\ two.ok
  <2>1. read_bytes(At(a, M1 \o <<>>), Len(M1)) = Taken(a, M1, <<>>, M1)
        BY <1>1, <1>2, BytesTaken, Zenon
  <2>2. two = Taken(a, M1, <<>>, M1)
        BY <1>2, <1>5, <2>1, Zenon
  <2> QED BY <2>2 DEF Taken
<1> HIDE DEF one, two
<1> QED BY <1>2, <1>3, <1>4, <1>5, <1>6, Zenon DEF ReadsProof, one, two, a

\* A hash that is a whole payload.
LEMMA HashRead ==
    ASSUME NEW M2 \in Seq(Byte), Len(M2) = HashBytes
    PROVE  LET one == read_bytes(NewBuffer(M2), HashBytes) IN one.value = M2 /\ one.ok
<1>1. <<>> \in Seq(Byte) /\ M2 \o <<>> = M2
      BY EmptyFacts, Zenon
<1>2. NewBuffer(M2) = At(<<>>, M2)
      BY NewBufferAt, Zenon
<1>3. read_bytes(At(<<>>, M2 \o <<>>), Len(M2)) = Taken(<<>>, M2, <<>>, M2)
      BY <1>1, BytesTaken, Zenon
<1>4. read_bytes(NewBuffer(M2), HashBytes) = Taken(<<>>, M2, <<>>, M2)
      BY <1>1, <1>2, <1>3, Zenon
<1> QED BY <1>4 DEF Taken

----------------------------------------------------------------------------
(* The inductive invariant.                                                 *)

\* The client's srp_ after the challenge, against the server's.
Shared(c, s) ==
    /\ c.A \in Number /\ c.M1 \in Seq(Byte) /\ Len(c.M1) = HashBytes
    /\ Value(c.B) = s.B /\ c.salt = s.salt
    /\ c.N = N /\ c.g = g /\ c.k = calculate_k(N, g)

Explained(code, user, row) ==
    \/ code = WRONG_USERNAME /\ (~is_valid_utf8(user) \/ row = NoAccount)
    \/ code = WRONG_PASSWORD /\ row # NoAccount /\ Value(row.verifier) < Power[KeyBytes - 1]
    \/ code = DATABASE_BUSY

Refused(w, user, row) ==
    \E code \in {WRONG_USERNAME, WRONG_PASSWORD, DATABASE_BUSY} :
        w = AuthPacket(SMSG_AUTH_RESPONSE, <<AUTH_FAILED, code>>) /\ Explained(code, user, row)

Challenged(w, c, s) ==
    /\ c = NoClient /\ s.B \in Number /\ s.salt \in Seq(Byte) /\ Len(s.salt) = KeyBytes
    /\ w = AuthPacket(SMSG_AUTH_LOGON_CHALLENGE, ChallengeBytes(s.B, s.salt))

Proven(w, c, s) == Shared(c, s) /\ w = AuthPacket(SMSG_AUTH_LOGON_PROOF, SHA1(key_bytes(c.A) \o c.M1))

Stages == {"start", "challenge", "answer", "proof", "authenticated", "refused", "closed"}

\* What is on the wire, and what each end holds, at every stage.  The packets
\* are known to the byte, so that what the next handler reads from them is too.
Exchange(st, w, c, s, user, row) ==
    /\ st = "start" => c = NoClient
    /\ st = "challenge" =>
         c = NoClient /\ w = AuthPacket(CMSG_AUTH_LOGON_CHALLENGE, Reversed(user) \o <<0>>)
    /\ st = "answer" => Refused(w, user, row) \/ Challenged(w, c, s) \/ Proven(w, c, s)
    /\ st = "proof" => Shared(c, s) /\ w = AuthPacket(CMSG_AUTH_LOGON_PROOF, key_bytes(c.A) \o c.M1)
    /\ st = "authenticated" => Shared(c, s)
    /\ st = "refused" => Refused(w, user, row)
    /\ st = "closed" => Len(user) >= PayloadLimit

HandshakeInv ==
    /\ stage \in Stages /\ name \in Names
    /\ account \in Rows \cup {NoAccount} /\ cache \in Rows \cup {NoAccount}
    /\ NameIntact
    /\ Exchange(stage, wire, client, server, name, account)

\* What a payload of each kind is received as.
LEMMA RefusalReceived ==
    ASSUME NEW code \in {WRONG_USERNAME, WRONG_PASSWORD, DATABASE_BUSY},
           wire = AuthPacket(SMSG_AUTH_RESPONSE, <<AUTH_FAILED, code>>)
    PROVE  Received.value = SMSG_AUTH_RESPONSE /\ Received.buffer.data[2] = code
<1> DEFINE payload == <<AUTH_FAILED, code>>
<1>1. code \in 0..3 /\ AUTH_FAILED \in 0..3
      BY DEF WRONG_USERNAME, WRONG_PASSWORD, DATABASE_BUSY, AUTH_FAILED
<1>2. 0..3 \subseteq Byte
      BY DEF Byte, Base
<1>3. payload \in Seq(Byte) /\ Len(payload) = 2 /\ payload[2] = code
  <2>1. code \in Byte /\ AUTH_FAILED \in Byte
        BY <1>1, <1>2, Zenon
  <2> QED BY <2>1
<1>4. 2 <= PayloadLimit
      BY LimitFits, Zenon
<1>5. SMSG_AUTH_RESPONSE \in Opcodes
      BY DEF Opcodes
<1> HIDE DEF payload
<1>6. Received = [buffer |-> NewBuffer(payload), value |-> SMSG_AUTH_RESPONSE, ok |-> TRUE]
  <2>1. wire = AuthPacket(SMSG_AUTH_RESPONSE, payload)
        BY Zenon DEF payload
  <2> QED BY <1>3, <1>4, <1>5, <2>1, ReceivedIs, Zenon
<1> QED BY <1>3, <1>6 DEF NewBuffer

LEMMA ChallengeReceived ==
    ASSUME Challenged(wire, client, server)
    PROVE  Received = [buffer |-> NewBuffer(ChallengeBytes(server.B, server.salt)),
                       value |-> SMSG_AUTH_LOGON_CHALLENGE, ok |-> TRUE]
<1>1. SMSG_AUTH_LOGON_CHALLENGE \in Opcodes
      BY DEF Opcodes
<1>2. /\ ChallengeBytes(server.B, server.salt) \in Seq(Byte)
      /\ Len(ChallengeBytes(server.B, server.salt)) <= PayloadLimit
      BY ChallengeWritten, Zenon DEF Challenged
<1> QED BY <1>1, <1>2, ReceivedIs, Zenon DEF Challenged

\* M1 and M2 are hashes.
LEMMA HashTypes ==
    ASSUME SHA1Type, NEW A \in Number, NEW s \in Seq(Byte)
    PROVE  LET hash == SHA1(key_bytes(A) \o s)
           IN hash \in Seq(Byte) /\ Len(hash) = HashBytes
<1>1. key_bytes(A) \in Seq(Byte)
  <2>1. A \in 0..N
        BY Bounds DEF Number
  <2> QED BY <2>1, NumberField, Zenon
<1>2. key_bytes(A) \o s \in Seq(Byte)
      BY <1>1, ConcatFacts, Zenon
<1> QED BY <1>2, Zenon DEF SHA1Type

\* A hash fits into a packet.
LEMMA HashFits == HashBytes <= PayloadLimit
<1>1. KeyBytes + HashBytes <= PayloadLimit /\ KeyBytes \in Nat \ {0} /\ HashBytes \in Nat
      BY PayloadAssumption, Bounds, Zenon
<1> QED BY <1>1, LimitFits

LEMMA ProofReceived ==
    ASSUME SHA1Type, Proven(wire, client, server)
    PROVE  LET M2 == SHA1(key_bytes(client.A) \o client.M1)
           IN /\ Received = [buffer |-> NewBuffer(M2), value |-> SMSG_AUTH_LOGON_PROOF, ok |-> TRUE]
              /\ M2 \in Seq(Byte) /\ Len(M2) = HashBytes
<1> DEFINE M2 == SHA1(key_bytes(client.A) \o client.M1)
<1>1. client.A \in Number /\ client.M1 \in Seq(Byte) /\ wire = AuthPacket(SMSG_AUTH_LOGON_PROOF, M2)
      BY Zenon DEF Proven, Shared
<1>2. M2 \in Seq(Byte) /\ Len(M2) = HashBytes
      BY <1>1, HashTypes, Zenon
<1>3. SMSG_AUTH_LOGON_PROOF \in Opcodes
      BY DEF Opcodes
<1> HIDE DEF M2
<1>4. Len(M2) <= PayloadLimit
      BY <1>2, HashFits, Zenon
<1>5. Received = [buffer |-> NewBuffer(M2), value |-> SMSG_AUTH_LOGON_PROOF, ok |-> TRUE]
      BY <1>1, <1>2, <1>3, <1>4, ReceivedIs, Zenon
<1> QED BY <1>2, <1>5, Zenon DEF M2

\* The answer that is on the wire is of the kind that its opcode says.
LEMMA AnswerKinds ==
    ASSUME SHA1Type, Exchange(stage, wire, client, server, name, account), stage = "answer"
    PROVE  /\ Received.value = SMSG_AUTH_LOGON_CHALLENGE => Challenged(wire, client, server)
           /\ Received.value = SMSG_AUTH_LOGON_PROOF => Proven(wire, client, server)
           /\ Received.value = SMSG_AUTH_RESPONSE => Refused(wire, name, account)
<1>1. Refused(wire, name, account) \/ Challenged(wire, client, server) \/ Proven(wire, client, server)
      BY Zenon DEF Exchange
<1>2. /\ SMSG_AUTH_LOGON_CHALLENGE # SMSG_AUTH_LOGON_PROOF
      /\ SMSG_AUTH_LOGON_CHALLENGE # SMSG_AUTH_RESPONSE
      /\ SMSG_AUTH_LOGON_PROOF # SMSG_AUTH_RESPONSE
      BY DEF SMSG_AUTH_LOGON_CHALLENGE, SMSG_AUTH_LOGON_PROOF, SMSG_AUTH_RESPONSE
<1>3. Refused(wire, name, account) => Received.value = SMSG_AUTH_RESPONSE
      BY RefusalReceived, Zenon DEF Refused
<1>4. Challenged(wire, client, server) => Received.value = SMSG_AUTH_LOGON_CHALLENGE
      BY ChallengeReceived
<1>5. Proven(wire, client, server) => Received.value = SMSG_AUTH_LOGON_PROOF
      BY ProofReceived
<1> QED BY <1>1, <1>2, <1>3, <1>4, <1>5, Zenon

\* Exchange stage by stage.
LEMMA ExchangeAt ==
    ASSUME NEW w, NEW c, NEW s, NEW user, NEW row
    PROVE  /\ Exchange("start", w, c, s, user, row) <=> c = NoClient
           /\ Exchange("challenge", w, c, s, user, row) <=>
                c = NoClient /\ w = AuthPacket(CMSG_AUTH_LOGON_CHALLENGE, Reversed(user) \o <<0>>)
           /\ Exchange("answer", w, c, s, user, row) <=> Refused(w, user, row) \/ Challenged(w, c, s) \/ Proven(w, c, s)
           /\ Exchange("proof", w, c, s, user, row) <=>
                Shared(c, s) /\ w = AuthPacket(CMSG_AUTH_LOGON_PROOF, key_bytes(c.A) \o c.M1)
           /\ Exchange("authenticated", w, c, s, user, row) <=> Shared(c, s)
           /\ Exchange("refused", w, c, s, user, row) <=> Refused(w, user, row)
           /\ Exchange("closed", w, c, s, user, row) <=> Len(user) >= PayloadLimit
BY Zenon DEF Exchange

\* A name is a text that fits into a packet.
LEMMA NameFacts ==
    ASSUME NEW s \in Names
    PROVE  s \in Text /\ s \in Seq(Byte) /\ Len(s) + 1 < Power[LengthBytes]
<1>1. s \in Text
      BY HandshakeAssumption, Zenon DEF Text
<1> QED BY <1>1, TextBytes, PayloadAssumption, Zenon

\* The invariant holds at first.
LEMMA HandshakeInit == Init => HandshakeInv
<1> SUFFICES ASSUME Init PROVE HandshakeInv
    OBVIOUS
<1>1. stage \in Stages /\ name \in Names /\ account \in Rows \cup {NoAccount} /\ cache \in Rows \cup {NoAccount}
      BY Zenon DEF Init, Stages
<1>2. NameIntact
      BY Zenon DEF Init, NameIntact
<1>3. Exchange(stage, wire, client, server, name, account)
      BY ExchangeAt, Zenon DEF Init
<1> QED BY <1>1, <1>2, <1>3, Zenon DEF HandshakeInv

\* The parts of the invariant that most actions leave alone.
LEMMA NameKept ==
    ASSUME HandshakeInv, UNCHANGED <<name, username>>
    PROVE  name' \in Names /\ NameIntact'
<1>1. name' = name /\ username' = username
      BY Zenon
<1>2. name \in Names /\ NameIntact
      BY Zenon DEF HandshakeInv
<1> QED BY <1>1, <1>2, Zenon DEF NameIntact

LEMMA SendChallengeStep ==
    ASSUME HandshakeInv, SendChallenge
    PROVE  HandshakeInv'
<1>1. /\ stage = "start" /\ stage' = "challenge"
      /\ wire' = AuthPacket(CMSG_AUTH_LOGON_CHALLENGE, write_string_nt_le(NewBuffer(<<>>), name).data)
      /\ name' = name /\ account' = account /\ cache' = cache /\ username' = username
      /\ server' = server /\ client' = client
      BY Zenon DEF SendChallenge
<1>2. /\ name \in Names /\ account \in Rows \cup {NoAccount} /\ cache \in Rows \cup {NoAccount}
      /\ Exchange(stage, wire, client, server, name, account)
      BY Zenon DEF HandshakeInv
<1>3. wire' = AuthPacket(CMSG_AUTH_LOGON_CHALLENGE, Reversed(name) \o <<0>>)
  <2>1. name \in Text
        BY <1>2, NameFacts, Zenon
  <2> QED BY <1>1, <2>1, NameArrives, Zenon
<1>4. client = NoClient
      BY <1>1, <1>2, ExchangeAt, Zenon
<1>5. Exchange(stage', wire', client', server', name', account')
      BY <1>1, <1>3, <1>4, ExchangeAt, Zenon
<1>6. stage' \in Stages
      BY <1>1, Zenon DEF Stages
<1>7. name' \in Names /\ NameIntact'
      BY <1>1, NameKept, Zenon
<1> QED BY <1>1, <1>2, <1>5, <1>6, <1>7, Zenon DEF HandshakeInv

\* The challenge on the wire, which the server takes or refuses by its length.
LEMMA NameSent ==
    ASSUME HandshakeInv, stage = "challenge"
    PROVE  LET payload == Reversed(name) \o << 0 >>
           IN /\ payload \in Seq(Byte) /\ Len(payload) = Len(name) + 1
              /\ read_string_nt_le(NewBuffer(payload)).value = name
              /\ Arrives(Request, CMSG_AUTH_LOGON_CHALLENGE, payload, << >>)
<1> DEFINE payload == Reversed(name) \o <<0>>
<1>1. name \in Text /\ Len(name) + 1 < Power[LengthBytes]
      BY NameFacts, Zenon DEF HandshakeInv
<1>2. /\ payload \in Seq(Byte) /\ Len(payload) = Len(name) + 1
      /\ read_string_nt_le(NewBuffer(payload)).value = name
      BY <1>1, NameArrives, Zenon
<1>3. wire = AuthPacket(CMSG_AUTH_LOGON_CHALLENGE, payload)
      BY ExchangeAt, Zenon DEF HandshakeInv
<1> HIDE DEF payload
<1>4. CMSG_AUTH_LOGON_CHALLENGE \in Opcodes
      BY DEF Opcodes
<1>5. Arrives(Request, CMSG_AUTH_LOGON_CHALLENGE, payload, <<>>)
      BY <1>1, <1>2, <1>3, <1>4, WireArrives, Zenon
<1> QED BY <1>2, <1>5, Zenon DEF payload

\* What the server makes of the name: the packet brings it back as it was, and
\* upper case is taken byte by byte.
LEMMA NameRead ==
    ASSUME HandshakeInv, stage = "challenge", Request.outcome = "packet"
    PROVE  /\ read_string_nt_le(Request.packet.buffer).value = name
           /\ is_valid_utf8(name) => to_uppercase(name) = [i \in DOMAIN name |-> toupper(name[i])]
<1> DEFINE payload == Reversed(name) \o <<0>>
<1>1. name \in Seq(Byte)
      BY NameFacts, Zenon DEF HandshakeInv
<1>2. /\ read_string_nt_le(NewBuffer(payload)).value = name
      /\ Arrives(Request, CMSG_AUTH_LOGON_CHALLENGE, payload, <<>>)
      BY NameSent, Zenon
<1> HIDE DEF payload
<1>3. "refused" # "packet"
      OBVIOUS
<1>4. Request.packet = [buffer |-> NewBuffer(payload), value |-> CMSG_AUTH_LOGON_CHALLENGE, ok |-> TRUE]
      BY <1>2, <1>3, Zenon DEF Arrives
<1>5. Request.packet.buffer = NewBuffer(payload)
      BY <1>4
<1>6. is_valid_utf8(name) => to_uppercase(name) = [i \in 1..Len(name) |-> toupper(name[i])]
      BY <1>1, UpperCaseByteWise, Zenon
<1>7. DOMAIN name = 1..Len(name)
      BY <1>1
<1> QED BY <1>2, <1>5, <1>6, <1>7, Zenon

\* A reply of AnswerFrom() is a challenge.
LEMMA AnswerChallenges ==
    ASSUME SHA1Type, NEW row \in Rows, AnswerFrom(row), client' = NoClient
    PROVE  stage' = "answer" /\ Challenged(wire', client', server')
<1> USE DEF AnswerFrom
<1>1. PICK b \in Exponents :
        LET B == generate_server_ephemeral(row.verifier, b)
            fields == write_bytes(write_uint_be(write_bytes(NewBuffer(<<>>), key_bytes(B)), g, 1), key_bytes(N))
        IN /\ server' = [salt |-> row.salt, B |-> B]
           /\ stage' = "answer"
           /\ wire' = AuthPacket(SMSG_AUTH_LOGON_CHALLENGE, write_bytes(fields, row.salt).data)
      BY Zenon
<1> DEFINE B == generate_server_ephemeral(row.verifier, b)
<1>2. B \in Number
      BY EphemeralRange, Zenon
<1>3. row.salt \in Seq(Byte) /\ Len(row.salt) = KeyBytes
      BY RowFacts, Zenon
<1>4. /\ server' = [salt |-> row.salt, B |-> B] /\ stage' = "answer"
      /\ wire' = AuthPacket(SMSG_AUTH_LOGON_CHALLENGE,
                   write_bytes(write_bytes(write_uint_be(write_bytes(NewBuffer(<<>>), key_bytes(B)), g, 1), key_bytes(N)), row.salt).data)
      BY <1>1, Zenon
<1> HIDE DEF B
<1>5. wire' = AuthPacket(SMSG_AUTH_LOGON_CHALLENGE, ChallengeBytes(B, row.salt))
      BY <1>2, <1>3, <1>4, ChallengeWritten, Zenon
<1>6. server'.B = B /\ server'.salt = row.salt
      BY <1>4
<1> QED BY <1>2, <1>3, <1>4, <1>5, <1>6, Zenon DEF Challenged

\* A refusal with a code that is explained.
LEMMA RefusalExplained ==
    ASSUME NEW code \in {WRONG_USERNAME, WRONG_PASSWORD, DATABASE_BUSY}, AuthFailed(code), Explained(code, name, account)
    PROVE  stage' = "answer" /\ Refused(wire', name, account) /\ cache' = cache
BY Zenon DEF AuthFailed, Refused

LEMMA ServerChallengeStep ==
    ASSUME SHA1Type, HandshakeInv, ServerChallenge
    PROVE  HandshakeInv'
<1> DEFINE read == read_string_nt_le(Request.packet.buffer).value
<1>1. stage = "challenge" /\ Request.outcome = "packet" /\ name' = name /\ account' = account /\ client' = client
      BY Zenon DEF ServerChallenge
<1>2. /\ read = name
      /\ is_valid_utf8(name) => to_uppercase(name) = [i \in DOMAIN name |-> toupper(name[i])]
      BY <1>1, NameRead, Zenon
<1>3. \/ ~is_valid_utf8(read) /\ username' = read /\ AuthFailed(WRONG_USERNAME)
      \/ /\ is_valid_utf8(read) /\ username' = to_uppercase(read)
         /\ \/ cache # NoAccount /\ AnswerFrom(cache) /\ UNCHANGED cache
            \/ FromDatabase
      BY Zenon DEF ServerChallenge
<1> HIDE DEF read
<1>4. \/ ~is_valid_utf8(name) /\ username' = name /\ AuthFailed(WRONG_USERNAME)
      \/ is_valid_utf8(name) /\ username' = to_uppercase(name) /\ cache # NoAccount /\ AnswerFrom(cache) /\ cache' = cache
      \/ is_valid_utf8(name) /\ username' = to_uppercase(name) /\ FromDatabase
      BY <1>2, <1>3, Zenon
<1>5. /\ name \in Names /\ account \in Rows \cup {NoAccount} /\ cache \in Rows \cup {NoAccount}
      /\ Exchange(stage, wire, client, server, name, account)
      BY Zenon DEF HandshakeInv
<1>6. client' = NoClient
      BY <1>1, <1>5, ExchangeAt, Zenon
<1>7. NameIntact'
      BY <1>1, <1>2, <1>4, Zenon DEF NameIntact
<1>8. /\ WRONG_USERNAME \in {WRONG_USERNAME, WRONG_PASSWORD, DATABASE_BUSY}
      /\ WRONG_PASSWORD \in {WRONG_USERNAME, WRONG_PASSWORD, DATABASE_BUSY}
      /\ DATABASE_BUSY \in {WRONG_USERNAME, WRONG_PASSWORD, DATABASE_BUSY}
      BY Zenon
<1> DEFINE Goal == /\ stage' = "answer"
                   /\ Refused(wire', name, account) \/ Challenged(wire', client', server')
                   /\ cache' \in Rows \cup {NoAccount}
<1>9. ASSUME ~is_valid_utf8(name) /\ AuthFailed(WRONG_USERNAME) PROVE Goal
  <2>1. Explained(WRONG_USERNAME, name, account)
        BY <1>9, Zenon DEF Explained
  <2> QED BY <1>5, <1>8, <1>9, <2>1, RefusalExplained, Zenon
<1>10. ASSUME cache # NoAccount /\ AnswerFrom(cache) /\ cache' = cache PROVE Goal
  <2>1. cache \in Rows
        BY <1>5, <1>10, Zenon
  <2> QED BY <1>5, <1>6, <1>10, <2>1, AnswerChallenges, Zenon
<1>11. ASSUME FromDatabase PROVE Goal
  <2>1. CASE AuthFailed(DATABASE_BUSY)
    <3>1. Explained(DATABASE_BUSY, name, account)
          BY Zenon DEF Explained
    <3> QED BY <1>5, <1>8, <2>1, <3>1, RefusalExplained, Zenon
  <2>2. CASE account = NoAccount /\ AuthFailed(WRONG_USERNAME)
    <3>1. Explained(WRONG_USERNAME, name, account)
          BY <2>2, Zenon DEF Explained
    <3> QED BY <1>5, <1>8, <2>2, <3>1, RefusalExplained, Zenon
  <2>3. CASE account # NoAccount /\ ~Complete(account) /\ AuthFailed(WRONG_PASSWORD)
    <3>1. account \in Rows
          BY <1>5, <2>3, Zenon
    <3>2. Value(account.verifier) < Power[KeyBytes - 1]
          BY <2>3, <3>1, RowFacts, Zenon DEF Complete
    <3>3. Explained(WRONG_PASSWORD, name, account)
          BY <2>3, <3>2, Zenon DEF Explained
    <3> QED BY <1>5, <1>8, <2>3, <3>3, RefusalExplained, Zenon
  <2>4. CASE Complete(account) /\ cache' = account /\ AnswerFrom(account)
    <3>1. account \in Rows
          BY <1>5, <2>4, Zenon DEF Complete
    <3> QED BY <1>5, <1>6, <2>4, <3>1, AnswerChallenges, Zenon
  <2> QED BY <1>11, <2>1, <2>2, <2>3, <2>4, Zenon DEF FromDatabase
<1>12. Goal
  <2> HIDE DEF Goal
  <2> QED BY <1>4, <1>9, <1>10, <1>11, Zenon
<1>13. Exchange(stage', wire', client', server', name', account')
      BY <1>1, <1>12, ExchangeAt, Zenon
<1>14. stage' \in Stages
      BY <1>12, Zenon DEF Stages
<1> QED BY <1>1, <1>5, <1>7, <1>12, <1>13, <1>14, Zenon DEF HandshakeInv

Srp(n, gen, k, salt, A, M1, B) == [N |-> n, g |-> gen, k |-> k, salt |-> salt, A |-> A, M1 |-> M1, B |-> B]

\* The srp_ of the client, from the fields that it read.
LEMMA ClientShares ==
    ASSUME SHA1Type, NEW B \in Number, NEW salt \in Seq(Byte), Len(salt) = KeyBytes, NEW a \in Exponents
    PROVE  LET srp == generate_client_ephemeral(load_constants(NoClient, Value(key_bytes(N)), g), a)
               M1 == compute_M1(srp.A, key_bytes(B), salt)
               c == [srp EXCEPT !.salt = salt, !.M1 = M1, !.B = key_bytes(B)]
           IN Shared(c, [salt |-> salt, B |-> B]) /\ c.A = srp.A /\ c.M1 = M1
<1> DEFINE A == BN_mod_exp(g, a, N)
           k == calculate_k(N, g)
           srp == generate_client_ephemeral(load_constants(NoClient, Value(key_bytes(N)), g), a)
           M1 == compute_M1(srp.A, key_bytes(B), salt)
           c == [srp EXCEPT !.salt = salt, !.M1 = M1, !.B = key_bytes(B)]
<1>1. B \in 0..N /\ N \in 0..N
      BY Bounds DEF Number
<1>2. /\ Value(key_bytes(N)) = N /\ Value(key_bytes(B)) = B
      /\ key_bytes(B) \in Seq(Byte)
      BY <1>1, NumberField, Zenon
<1>3. A \in Number
  <2>1. g \in Nat /\ a \in Nat /\ N \in Nat \ {0}
        BY Bounds
  <2> QED BY <2>1, ModExpRange, Zenon DEF Number
<1>4. NoClient = Srp(N, g, k, <<>>, 0, <<>>, <<>>)
      BY Zenon DEF NoClient, Srp
<1>5. load_constants(NoClient, N, g) = NoClient
  <2> HIDE DEF k
  <2>1. load_constants(NoClient, N, g) = [[[NoClient EXCEPT !.N = N] EXCEPT !.g = g] EXCEPT !.k = k]
        BY Zenon DEF load_constants, k
  <2> DEFINE r == Srp(N, g, k, <<>>, 0, <<>>, <<>>)
  <2>2. [r EXCEPT !.N = N] = r /\ [r EXCEPT !.g = g] = r /\ [r EXCEPT !.k = k] = r
        BY DEF Srp
  <2> HIDE DEF r
  <2> QED BY <1>4, <2>1, <2>2, Zenon DEF r
<1>6. srp = [NoClient EXCEPT !.A = A]
  <2>1. srp = generate_client_ephemeral(NoClient, a)
        BY <1>2, <1>5, Zenon
  <2>2. NoClient.g = g /\ NoClient.N = N
        BY DEF NoClient
  <2> QED BY <2>1, <2>2, Zenon DEF generate_client_ephemeral
<1> HIDE DEF A, srp
<1>7. srp = Srp(N, g, k, <<>>, A, <<>>, <<>>)
  <2> HIDE DEF k
  <2>1. [Srp(N, g, k, <<>>, 0, <<>>, <<>>) EXCEPT !.A = A] = Srp(N, g, k, <<>>, A, <<>>, <<>>)
        BY DEF Srp
  <2> QED BY <1>4, <1>6, <2>1, Zenon
<1>8. srp.A = A
      BY <1>7 DEF Srp
<1>9. M1 \in Seq(Byte) /\ Len(M1) = HashBytes
  <2>1. M1 = SHA1(key_bytes(A) \o (key_bytes(B) \o salt))
    <3>1. M1 = SHA1((key_bytes(A) \o key_bytes(B)) \o salt)
          BY <1>8, Zenon DEF compute_M1
    <3>2. key_bytes(A) \in Seq(Byte)
      <4>1. A \in 0..N
            BY <1>3, Bounds DEF Number
      <4> QED BY <4>1, NumberField, Zenon
    <3> DEFINE x == key_bytes(A)
               y == key_bytes(B)
    <3> HIDE DEF x, y
    <3>3. x \o (y \o salt) = (x \o y) \o salt
      <4>1. x \in Seq(Byte) /\ y \in Seq(Byte) /\ salt \in Seq(Byte)
            BY <1>2, <3>2, Zenon DEF x, y
      <4> QED BY <4>1
    <3> QED BY <3>1, <3>3, Zenon DEF x, y
  <2>2. key_bytes(B) \o salt \in Seq(Byte)
        BY <1>2, ConcatFacts, Zenon
  <2> QED BY <1>3, <2>1, <2>2, HashTypes, Zenon
<1> HIDE DEF M1, k
<1>10. c = Srp(N, g, k, salt, A, M1, key_bytes(B))
  <2>1. c = [[[srp EXCEPT !.salt = salt] EXCEPT !.M1 = M1] EXCEPT !.B = key_bytes(B)]
        BY Zenon
  <2>2. [Srp(N, g, k, <<>>, A, <<>>, <<>>) EXCEPT !.salt = salt] = Srp(N, g, k, salt, A, <<>>, <<>>)
        BY DEF Srp
  <2>3. [Srp(N, g, k, salt, A, <<>>, <<>>) EXCEPT !.M1 = M1] = Srp(N, g, k, salt, A, M1, <<>>)
        BY DEF Srp
  <2>4. [Srp(N, g, k, salt, A, M1, <<>>) EXCEPT !.B = key_bytes(B)] = Srp(N, g, k, salt, A, M1, key_bytes(B))
        BY DEF Srp
  <2> HIDE DEF c
  <2> QED BY <1>7, <2>1, <2>2, <2>3, <2>4, Zenon
<1> HIDE DEF c
<1>11. c.N = N /\ c.g = g /\ c.k = k /\ c.salt = salt /\ c.A = A /\ c.M1 = M1 /\ c.B = key_bytes(B)
      BY <1>10 DEF Srp
<1>12. [salt |-> salt, B |-> B].salt = salt /\ [salt |-> salt, B |-> B].B = B
      OBVIOUS
<1>13. Shared(c, [salt |-> salt, B |-> B])
      BY <1>2, <1>3, <1>9, <1>11, <1>12, Zenon DEF Shared, k
<1> QED BY <1>8, <1>11, <1>13, Zenon DEF c, M1, srp

LEMMA ClientProofStep ==
    ASSUME SHA1Type, HandshakeInv, ClientProof
    PROVE  HandshakeInv'
<1>1. /\ stage = "answer" /\ Received.value = SMSG_AUTH_LOGON_CHALLENGE
      /\ name' = name /\ account' = account /\ cache' = cache /\ username' = username /\ server' = server
      BY Zenon DEF ClientProof
<1>2. /\ name \in Names /\ account \in Rows \cup {NoAccount} /\ cache \in Rows \cup {NoAccount}
      /\ Exchange(stage, wire, client, server, name, account)
      BY Zenon DEF HandshakeInv
<1>3. Challenged(wire, client, server)
      BY <1>1, <1>2, AnswerKinds, Zenon
<1>4. client = NoClient /\ server.B \in Number /\ server.salt \in Seq(Byte) /\ Len(server.salt) = KeyBytes
      BY <1>3, Zenon DEF Challenged
<1>5. Received.buffer = NewBuffer(ChallengeBytes(server.B, server.salt))
      BY <1>3, ChallengeReceived
<1> DEFINE B == read_bytes(Received.buffer, KeyBytes)
           gen == read_uint_be(B.buffer, 1)
           mod == read_bytes(gen.buffer, KeyBytes)
           salt == read_bytes(mod.buffer, KeyBytes)
<1>6. B.value = key_bytes(server.B) /\ gen.value = g /\ mod.value = key_bytes(N) /\ salt.value = server.salt /\ salt.ok
  <2>1. ReadsChallenge(Received.buffer, server.B, server.salt)
        BY <1>4, <1>5, ChallengeRead, Zenon
  <2> QED BY <2>1, Zenon DEF ReadsChallenge
<1> DEFINE Sends(c, m, n, x, y) ==
             \E a \in Exponents :
               LET srp == generate_client_ephemeral(load_constants(c, Value(m), n), a)
                   M1 == compute_M1(srp.A, x, y)
                   proof == write_bytes(write_bytes(NewBuffer(<<>>), key_bytes(srp.A)), M1)
               IN /\ client' = [srp EXCEPT !.salt = y, !.M1 = M1, !.B = x]
                  /\ wire' = AuthPacket(CMSG_AUTH_LOGON_PROOF, proof.data)
                  /\ stage' = "proof"
<1>7. salt.ok => Sends(client, mod.value, gen.value, B.value, salt.value)
      BY Zenon DEF ClientProof
<1>8. Sends(NoClient, key_bytes(N), g, key_bytes(server.B), server.salt)
  <2> HIDE DEF B, gen, mod, salt, Sends
  <2> QED BY <1>4, <1>6, <1>7, Zenon
<1> HIDE DEF B, gen, mod, salt
<1>9. PICK a \in Exponents :
        LET srp == generate_client_ephemeral(load_constants(NoClient, Value(key_bytes(N)), g), a)
            M1 == compute_M1(srp.A, key_bytes(server.B), server.salt)
            proof == write_bytes(write_bytes(NewBuffer(<<>>), key_bytes(srp.A)), M1)
        IN /\ client' = [srp EXCEPT !.salt = server.salt, !.M1 = M1, !.B = key_bytes(server.B)]
           /\ wire' = AuthPacket(CMSG_AUTH_LOGON_PROOF, proof.data)
           /\ stage' = "proof"
      BY <1>8, Zenon
<1> DEFINE srp == generate_client_ephemeral(load_constants(NoClient, Value(key_bytes(N)), g), a)
           M1 == compute_M1(srp.A, key_bytes(server.B), server.salt)
<1>10. /\ Shared(client', [salt |-> server.salt, B |-> server.B])
       /\ client'.A = srp.A /\ client'.M1 = M1
      BY <1>4, <1>9, ClientShares, Zenon
<1>11. wire' = AuthPacket(CMSG_AUTH_LOGON_PROOF, write_bytes(write_bytes(NewBuffer(<<>>), key_bytes(srp.A)), M1).data)
       /\ stage' = "proof"
      BY <1>9, Zenon
<1> HIDE DEF srp, M1
<1>12. Shared(client', server)
  <2>1. [salt |-> server.salt, B |-> server.B].salt = server.salt /\ [salt |-> server.salt, B |-> server.B].B = server.B
        OBVIOUS
  <2> QED BY <1>10, <2>1, Zenon DEF Shared
<1>13. wire' = AuthPacket(CMSG_AUTH_LOGON_PROOF, key_bytes(client'.A) \o client'.M1)
  <2>1. client'.A \in Number /\ client'.M1 \in Seq(Byte) /\ Len(client'.M1) = HashBytes
        BY <1>12, Zenon DEF Shared
  <2> QED BY <1>10, <1>11, <2>1, ProofFields, Zenon
<1>14. Exchange(stage', wire', client', server', name', account')
      BY <1>1, <1>11, <1>12, <1>13, ExchangeAt, Zenon
<1>15. stage' \in Stages
      BY <1>11, Zenon DEF Stages
<1>16. name' \in Names /\ NameIntact'
      BY <1>1, NameKept, Zenon
<1> QED BY <1>1, <1>2, <1>14, <1>15, <1>16, Zenon DEF HandshakeInv

LEMMA ServerProofStep ==
    ASSUME SHA1Type, HandshakeInv, ServerProof
    PROVE  HandshakeInv'
<1> DEFINE A == read_bytes(Request.packet.buffer, KeyBytes)
           M1 == read_bytes(A.buffer, HashBytes)
<1>1. /\ stage = "proof" /\ stage' = "answer"
      /\ name' = name /\ account' = account /\ cache' = cache /\ username' = username
      /\ server' = server /\ client' = client
      /\ M1.ok => wire' = AuthPacket(SMSG_AUTH_LOGON_PROOF, verify_client_proof(A.value, M1.value))
      BY Zenon DEF ServerProof
<1>2. /\ name \in Names /\ account \in Rows \cup {NoAccount} /\ cache \in Rows \cup {NoAccount}
      /\ Exchange(stage, wire, client, server, name, account)
      BY Zenon DEF HandshakeInv
<1>3. Shared(client, server) /\ wire = AuthPacket(CMSG_AUTH_LOGON_PROOF, key_bytes(client.A) \o client.M1)
      BY <1>1, <1>2, ExchangeAt, Zenon
<1>4. client.A \in Number /\ client.M1 \in Seq(Byte) /\ Len(client.M1) = HashBytes
      BY <1>3, Zenon DEF Shared
<1> DEFINE payload == key_bytes(client.A) \o client.M1
<1>5. payload \in Seq(Byte) /\ Len(payload) <= PayloadLimit /\ ReadsProof(NewBuffer(payload), client.A, client.M1)
      BY <1>4, ProofFields, Zenon
<1>6. Request.packet.buffer = NewBuffer(payload)
  <2>1. CMSG_AUTH_LOGON_PROOF \in Opcodes
        BY DEF Opcodes
  <2>2. wire = AuthPacket(CMSG_AUTH_LOGON_PROOF, payload)
        BY <1>3, Zenon
  <2> HIDE DEF payload
  <2>3. Request.packet = [buffer |-> NewBuffer(payload), value |-> CMSG_AUTH_LOGON_PROOF, ok |-> TRUE]
        BY <1>5, <2>1, <2>2, ReceivedIs, Zenon
  <2> QED BY <2>3
<1> HIDE DEF payload
<1>7. A.value = key_bytes(client.A) /\ M1.value = client.M1 /\ M1.ok
  <2>1. ReadsProof(Request.packet.buffer, client.A, client.M1)
        BY <1>5, <1>6, Zenon
  <2> QED BY <2>1, Zenon DEF ReadsProof
<1> HIDE DEF A, M1
<1>8. wire' = AuthPacket(SMSG_AUTH_LOGON_PROOF, SHA1(key_bytes(client.A) \o client.M1))
      BY <1>1, <1>7, Zenon DEF verify_client_proof
<1>9. Proven(wire', client', server')
      BY <1>1, <1>3, <1>8, Zenon DEF Proven
<1>10. Exchange(stage', wire', client', server', name', account')
      BY <1>1, <1>9, ExchangeAt, Zenon
<1>11. stage' \in Stages
      BY <1>1, Zenon DEF Stages
<1>12. name' \in Names /\ NameIntact'
      BY <1>1, NameKept, Zenon
<1> QED BY <1>1, <1>2, <1>10, <1>11, <1>12, Zenon DEF HandshakeInv

\* Only a challenge can be refused for its length, and only for that of the name.
LEMMA ServerRefusesStep ==
    ASSUME HandshakeInv, ServerRefuses
    PROVE  HandshakeInv'
<1>1. /\ stage \in {"challenge", "proof"} /\ Request.outcome = "refused" /\ stage' = "closed"
      /\ name' = name /\ account' = account /\ cache' = cache /\ username' = username
      /\ server' = server /\ client' = client /\ wire' = wire
      BY Zenon DEF ServerRefuses
<1>2. /\ name \in Names /\ account \in Rows \cup {NoAccount} /\ cache \in Rows \cup {NoAccount}
      /\ Exchange(stage, wire, client, server, name, account)
      BY Zenon DEF HandshakeInv
<1>3. "refused" # "packet"
      OBVIOUS
<1>4. stage # "proof"
  <2> SUFFICES ASSUME stage = "proof" PROVE FALSE
      BY Zenon
  <2> DEFINE payload == key_bytes(client.A) \o client.M1
  <2>1. Shared(client, server) /\ wire = AuthPacket(CMSG_AUTH_LOGON_PROOF, payload)
        BY <1>2, ExchangeAt, Zenon
  <2>2. payload \in Seq(Byte) /\ Len(payload) <= PayloadLimit
        BY <2>1, ProofFields, Zenon DEF Shared
  <2>3. CMSG_AUTH_LOGON_PROOF \in Opcodes
        BY DEF Opcodes
  <2> HIDE DEF payload
  <2>4. Request.outcome = "packet"
        BY <2>1, <2>2, <2>3, ReceivedIs, Zenon
  <2> QED BY <1>1, <1>3, <2>4, Zenon
<1>5. Len(name) >= PayloadLimit
  <2> DEFINE payload == Reversed(name) \o <<0>>
  <2>1. stage = "challenge"
        BY <1>1, <1>4, Zenon
  <2>2. Len(payload) = Len(name) + 1 /\ Arrives(Request, CMSG_AUTH_LOGON_CHALLENGE, payload, <<>>)
        BY <2>1, NameSent, Zenon
  <2> HIDE DEF payload
  <2>3. Len(payload) > PayloadLimit
        BY <1>1, <1>3, <2>2, Zenon DEF Arrives
  <2>4. Len(name) \in Nat
    <3>1. name \in Seq(Byte)
          BY <1>2, NameFacts, Zenon
    <3> QED BY <3>1
  <2> QED BY <2>2, <2>3, <2>4, LimitFits
<1>6. Exchange(stage', wire', client', server', name', account')
      BY <1>1, <1>5, ExchangeAt, Zenon
<1>7. stage' \in Stages
      BY <1>1, Zenon DEF Stages
<1>8. name' \in Names /\ NameIntact'
      BY <1>1, NameKept, Zenon
<1> QED BY <1>1, <1>2, <1>6, <1>7, <1>8, Zenon DEF HandshakeInv

LEMMA ClientVerdictStep ==
    ASSUME SHA1Type, HandshakeInv, ClientVerdict
    PROVE  HandshakeInv'
<1> DEFINE M2 == read_bytes(Received.buffer, HashBytes)
           hash == SHA1(key_bytes(client.A) \o client.M1)
<1>1. /\ stage = "answer" /\ Received.value = SMSG_AUTH_LOGON_PROOF
      /\ name' = name /\ account' = account /\ cache' = cache /\ username' = username
      /\ server' = server /\ client' = client /\ wire' = wire
      /\ M2.ok /\ verify_server_proof(client.A, client.M1, M2.value) => stage' = "authenticated"
      BY Zenon DEF ClientVerdict
<1>2. /\ name \in Names /\ account \in Rows \cup {NoAccount} /\ cache \in Rows \cup {NoAccount}
      /\ Exchange(stage, wire, client, server, name, account)
      BY Zenon DEF HandshakeInv
<1>3. Proven(wire, client, server)
      BY <1>1, <1>2, AnswerKinds, Zenon
<1>4. /\ Received = [buffer |-> NewBuffer(hash), value |-> SMSG_AUTH_LOGON_PROOF, ok |-> TRUE]
      /\ hash \in Seq(Byte) /\ Len(hash) = HashBytes
      BY <1>3, ProofReceived, Zenon
<1> HIDE DEF hash
<1>5. M2.value = hash /\ M2.ok
  <2>1. Received.buffer = NewBuffer(hash)
        BY <1>4
  <2> QED BY <1>4, <2>1, HashRead, Zenon
<1> HIDE DEF M2
<1>6. stage' = "authenticated"
      BY <1>1, <1>5, Zenon DEF verify_server_proof, hash
<1>7. Shared(client, server)
      BY <1>3, Zenon DEF Proven
<1>8. Exchange(stage', wire', client', server', name', account')
      BY <1>1, <1>6, <1>7, ExchangeAt, Zenon
<1>9. stage' \in Stages
      BY <1>6, Zenon DEF Stages
<1>10. name' \in Names /\ NameIntact'
      BY <1>1, NameKept, Zenon
<1> QED BY <1>1, <1>2, <1>8, <1>9, <1>10, Zenon DEF HandshakeInv

LEMMA ClientRefusedStep ==
    ASSUME SHA1Type, HandshakeInv, ClientRefused
    PROVE  HandshakeInv'
<1>1. /\ stage = "answer" /\ Received.value = SMSG_AUTH_RESPONSE /\ stage' = "refused"
      /\ name' = name /\ account' = account /\ cache' = cache /\ username' = username
      /\ server' = server /\ client' = client /\ wire' = wire
      BY Zenon DEF ClientRefused
<1>2. /\ name \in Names /\ account \in Rows \cup {NoAccount} /\ cache \in Rows \cup {NoAccount}
      /\ Exchange(stage, wire, client, server, name, account)
      BY Zenon DEF HandshakeInv
<1>3. Refused(wire, name, account)
      BY <1>1, <1>2, AnswerKinds, Zenon
<1>4. Exchange(stage', wire', client', server', name', account')
      BY <1>1, <1>3, ExchangeAt, Zenon
<1>5. stage' \in Stages
      BY <1>1, Zenon DEF Stages
<1>6. name' \in Names /\ NameIntact'
      BY <1>1, NameKept, Zenon
<1> QED BY <1>1, <1>2, <1>4, <1>5, <1>6, Zenon DEF HandshakeInv

LEMMA AgainStep ==
    ASSUME HandshakeInv, Again
    PROVE  HandshakeInv'
<1>1. /\ stage' = "start" /\ name' = name /\ username' = <<>> /\ client' = NoClient
      /\ account' \in {account} \cup Rows /\ cache' \in {cache, NoAccount}
      BY Zenon DEF Again
<1>2. name \in Names /\ account \in Rows \cup {NoAccount} /\ cache \in Rows \cup {NoAccount}
      BY Zenon DEF HandshakeInv
<1>3. account' \in Rows \cup {NoAccount} /\ cache' \in Rows \cup {NoAccount}
      BY <1>1, <1>2, Zenon
<1>4. NameIntact'
      BY <1>1, Zenon DEF NameIntact
<1>5. Exchange(stage', wire', client', server', name', account')
      BY <1>1, ExchangeAt, Zenon
<1>6. stage' \in Stages
      BY <1>1, Zenon DEF Stages
<1> QED BY <1>1, <1>2, <1>3, <1>4, <1>5, <1>6, Zenon DEF HandshakeInv

\* Nothing changes.
LEMMA HandshakeStutter ==
    ASSUME HandshakeInv, UNCHANGED vars
    PROVE  HandshakeInv'
<1>1. /\ stage' = stage /\ name' = name /\ account' = account /\ cache' = cache /\ username' = username
      /\ server' = server /\ client' = client /\ wire' = wire
      BY Zenon DEF vars
<1>2. NameIntact'
      BY <1>1, NameKept, Zenon
<1> QED BY <1>1, <1>2, Zenon DEF HandshakeInv

\* Every step keeps the invariant.
LEMMA HandshakeNext ==
    ASSUME SHA1Type, HandshakeInv, [Next]_vars
    PROVE  HandshakeInv'
BY SendChallengeStep, ServerChallengeStep, ClientProofStep, ServerProofStep, ServerRefusesStep, ClientVerdictStep,
   ClientRefusedStep, AgainStep, HandshakeStutter, Zenon DEF Next

\* The invariant says what the properties say.
LEMMA HandshakeMeans ==
    ASSUME HandshakeInv
    PROVE  NameIntact /\ SameNumbers /\ NeverDisconnected /\ OnlyShortRefused
<1>1. NameIntact /\ stage \in Stages /\ Exchange(stage, wire, client, server, name, account)
      BY Zenon DEF HandshakeInv
<1>2. SameNumbers
  <2>1. stage \in {"proof", "authenticated"} => Shared(client, server)
        BY <1>1, Zenon DEF Exchange
  <2> QED BY <2>1, Zenon DEF SameNumbers, Shared
<1>3. NeverDisconnected
  <2>1. stage = "closed" => Len(name) >= PayloadLimit
        BY <1>1, Zenon DEF Exchange
  <2>2. stage \notin {"disconnected", "ignored"}
        BY <1>1 DEF Stages
  <2> QED BY <2>1, <2>2, Zenon DEF NeverDisconnected
<1>4. OnlyShortRefused
  <2> SUFFICES ASSUME stage = "refused"
               PROVE  Explained(Received.buffer.data[2], name, account)
      BY Zenon DEF OnlyShortRefused, Explained
  <2>1. Refused(wire, name, account)
        BY <1>1, ExchangeAt, Zenon
  <2>2. PICK code \in {WRONG_USERNAME, WRONG_PASSWORD, DATABASE_BUSY} :
          wire = AuthPacket(SMSG_AUTH_RESPONSE, <<AUTH_FAILED, code>>) /\ Explained(code, name, account)
        BY <2>1, Zenon DEF Refused
  <2>3. Received.buffer.data[2] = code
        BY <2>2, RefusalReceived, Zenon
  <2> QED BY <2>2, <2>3, Zenon
<1> QED BY <1>1, <1>2, <1>3, <1>4, Zenon

\* The invariant always holds.
THEOREM HandshakeInvariance ==
    ASSUME SHA1Type
    PROVE  Spec => []HandshakeInv
<1>1. HandshakeInv /\ [Next]_vars => HandshakeInv'
      BY HandshakeNext, Zenon
<1> QED BY <1>1, HandshakeInit, PTL DEF Spec

\* For every name, key length, modulus and hash, the name that the server looks
\* up is the client's name in upper case, byte by byte, or else it was no UTF-8:
\* write_string_nt_le(), read_string_nt_le() and to_uppercase() lose nothing of it.
THEOREM NameAlwaysIntact ==
    ASSUME SHA1Type
    PROVE  Spec => []NameIntact
<1>1. HandshakeInv => NameIntact
      BY HandshakeMeans, Zenon
<1> QED BY <1>1, HandshakeInvariance, PTL

\* The client computes its proof from the server's B and salt and from the same
\* N, g and k, whatever leading zeros BN_bn2bin() dropped and pad_bytes_left()
\* put back.
THEOREM NumbersAlwaysSame ==
    ASSUME SHA1Type
    PROVE  Spec => []SameNumbers
<1>1. HandshakeInv => SameNumbers
      BY HandshakeMeans, Zenon
<1> QED BY <1>1, HandshakeInvariance, PTL

\* No field of a reply is ever too short for handle_packet(), and the server's M2
\* is the one that verify_server_proof() computes: a logon ends with success or
\* with a refusal that the server sent, unless the name fills a whole payload and
\* the server's reader closes the session.
THEOREM NoLogonDisconnected ==
    ASSUME SHA1Type
    PROVE  Spec => []NeverDisconnected
<1>1. HandshakeInv => NeverDisconnected
      BY HandshakeMeans, Zenon
<1> QED BY <1>1, HandshakeInvariance, PTL

\* handle_logon_challenge() refuses a name only if it is no UTF-8 or has no
\* account, and a password only if the account's verifier is a number below
\* Power[KeyBytes - 1], unless the database failed.
THEOREM RefusalsAlwaysExplained ==
    ASSUME SHA1Type
    PROVE  Spec => []OnlyShortRefused
<1>1. HandshakeInv => OnlyShortRefused
      BY HandshakeMeans, Zenon
<1> QED BY <1>1, HandshakeInvariance, PTL

============================================================================
