----------------------------- MODULE Handshake ------------------------------
(***************************************************************************)
(* The bytes of a logon.  An account is made with common/srp6/SRP6.cpp, its *)
(* user sends a challenge, and the handlers of HandlersAuth.cpp and the     *)
(* handle_packet() of Client.cpp answer one another; every packet is        *)
(* encoded and decoded by ByteBuffer.  Numbers are kept in as many bytes as *)
(* they need and padded where the code pads them.  When a logon is over the *)
(* user may try again, the account may have changed, and the cache may      *)
(* still hold the old one.                                                  *)
(*                                                                          *)
(* A key has KeyBytes bytes (32 in the code), a hash HashBytes (20).  SHA1  *)
(* is any function to sequences of that length.  The exponents, which the   *)
(* code draws at random or gets from a hash, come from a given set.         *)
(***************************************************************************)
EXTENDS ByteBuffer, UTF8Utils

CONSTANTS
    KeyBytes, HashBytes,
    N, g,           \* the modulus and the generator
    SHA1(_),
    Names,          \* user names: byte strings without a zero
    Salts,          \* sequences of KeyBytes bytes
    Exponents,      \* for x, a and b
    NoAccount       \* in place of a row that is not there

ASSUME HandshakeAssumption ==
    /\ KeyBytes \in Nat \ {0} /\ HashBytes \in Nat
    /\ N \in 1..(Power[KeyBytes] - 1) /\ g \in 1..(Base - 1)
    /\ Exponents \subseteq Nat
    /\ \A s \in Salts : s \in Seq(Byte) /\ Len(s) = KeyBytes
    /\ \A s \in Names : s \in Seq(1..(Base - 1))

\* The answers are within what a receiver accepts; a challenge, whose name the
\* user chooses, is within what the length of a header can say.
ASSUME PayloadAssumption ==
    /\ 3 * KeyBytes + 1 <= PayloadLimit /\ KeyBytes + HashBytes <= PayloadLimit
    /\ \A s \in Names : Len(s) + 1 < Power[LengthBytes]

VARIABLES
    stage,          \* whose turn it is, or how the logon ended
    name,           \* the user
    account,        \* the user's row in the database
    cache,          \* the AccountCache's entry for that user
    username,       \* what the server made of the name
    server,         \* the server's srp_: salt_ and B_
    client,         \* the client's srp_: N_, g_, k_, salt_, A_, last_M1_, and the B it read
    wire            \* the last packet

vars == <<stage, name, account, cache, username, server, client, wire>>

----------------------------------------------------------------------------
(* SRP6.  BN_bin2bn is Value.                                               *)

\* BN_bn2bin into BN_num_bytes bytes: no leading zeros.
Bin(v) == BigEndian(v, CHOOSE w \in 0..KeyBytes : v < Power[w] /\ (w > 0 => v >= Power[w - 1]))

\* Zeros on the wrong side.
pad_bytes_left_Right(s, n) == s \o [i \in 1..(n - Len(s)) |-> 0]
\* It throws if s is longer than n; no number here is, all are below Power[n].
pad_bytes_left(s, n) == [i \in 1..(n - Len(s)) |-> 0] \o s

BN_mod_exp(base, e, modulus) ==
    LET power[i \in 0..e] == IF i = 0 THEN 1 % modulus ELSE (power[i - 1] * base) % modulus
    IN power[e]

calculate_k(modulus, generator) == Value(SHA1(Bin(modulus) \o Bin(generator)))

\* The salt loses its leading zeros too.
generate_salt_and_verifier_trinity_Trimmed(salt, x) ==
    [salt |-> Bin(Value(salt)), verifier |-> Bin(BN_mod_exp(g, x, N))]
\* The verifier is not padded.
generate_salt_and_verifier_trinity(salt, x) == [salt |-> salt, verifier |-> Bin(BN_mod_exp(g, x, N))]

\* B_, from the verifier that load_verifier() reads as a number.
generate_server_ephemeral(verifier, b) ==
    (((calculate_k(N, g) * Value(verifier)) % N) + BN_mod_exp(g, b, N)) % N

\* The client's side: c is its srp_.
load_constants(c, modulus, generator) ==
    [c EXCEPT !.N = modulus, !.g = generator, !.k = calculate_k(modulus, generator)]
generate_client_ephemeral(c, a) == [c EXCEPT !.A = BN_mod_exp(c.g, a, c.N)]

\* As many bytes as it needs.
key_bytes_Short(v) == Bin(v)
\* get_A_bytes(), get_B_bytes(), get_N_bytes().
key_bytes(v) == pad_bytes_left(Bin(v), KeyBytes)

compute_M1(A, B_bytes, salt) == SHA1(key_bytes(A) \o B_bytes \o salt)

\* The M2 of verify_client_proof(), which takes every M1 for right.
verify_client_proof(A_bytes, M1) == SHA1(A_bytes \o M1)
verify_server_proof(A, M1, M2) == M2 = SHA1(key_bytes(A) \o M1)

----------------------------------------------------------------------------
EMPTY_STAGE == 0
CMSG_AUTH_LOGON_CHALLENGE == 3
SMSG_AUTH_LOGON_CHALLENGE == 4
CMSG_AUTH_LOGON_PROOF == 5
SMSG_AUTH_LOGON_PROOF == 6
SMSG_AUTH_RESPONSE == 7
AUTH_FAILED == 1
INTERNAL_ERROR == 0
WRONG_USERNAME == 1
WRONG_PASSWORD == 2
DATABASE_BUSY == 3

AuthPacket(opcode, payload) == build_packet(1, opcode, payload)

\* What the client takes from the wire, and what the server makes of it.
Received == start_receive_loop(1, wire).packet
Request == process_read_buffer(1, wire)

Rows == {generate_salt_and_verifier_trinity(s, x) : s \in Salts, x \in Exponents}
NoServer == [salt |-> <<>>, B |-> 0]
NoClient == [N |-> N, g |-> g, k |-> calculate_k(N, g), salt |-> <<>>, A |-> 0, M1 |-> <<>>, B |-> <<>>]

Init ==
    /\ stage = "start" /\ wire = AuthPacket(EMPTY_STAGE, <<>>)
    /\ name \in Names /\ account \in Rows \cup {NoAccount} /\ cache = NoAccount
    /\ username = <<>> /\ server = NoServer /\ client = NoClient

\* The name in the other byte order.
SendChallenge_Be ==
    /\ stage = "start"
    /\ stage' = "challenge"
    /\ wire' = AuthPacket(CMSG_AUTH_LOGON_CHALLENGE, write_string_nt_be(NewBuffer(<<>>), name).data)
    /\ UNCHANGED <<name, account, cache, username, server, client>>

\* Client::handle_logon_challenge().
SendChallenge ==
    /\ stage = "start"
    /\ stage' = "challenge"
    /\ wire' = AuthPacket(CMSG_AUTH_LOGON_CHALLENGE, write_string_nt_le(NewBuffer(<<>>), name).data)
    /\ UNCHANGED <<name, account, cache, username, server, client>>

AuthFailed(code) ==
    /\ stage' = "answer"
    /\ wire' = AuthPacket(SMSG_AUTH_RESPONSE, <<AUTH_FAILED, code>>)
    /\ UNCHANGED <<cache, server>>

\* load_verifier(), generate_server_ephemeral() and the reply.
AnswerFrom(row) ==
    \E b \in Exponents :
        LET B == generate_server_ephemeral(row.verifier, b)
            fields == write_bytes(write_uint_be(write_bytes(NewBuffer(<<>>), key_bytes(B)), g, 1), key_bytes(N))
        IN /\ server' = [salt |-> row.salt, B |-> B]
           /\ stage' = "answer"
           /\ wire' = AuthPacket(SMSG_AUTH_LOGON_CHALLENGE, write_bytes(fields, row.salt).data)

Complete(row) == row # NoAccount /\ Len(row.salt) = KeyBytes /\ Len(row.verifier) = KeyBytes

\* A row is refused unless both of its columns have the length of a key.  The
\* query may also throw.
FromDatabase ==
    /\ cache = NoAccount
    /\ \/ AuthFailed(DATABASE_BUSY)
       \/ account = NoAccount /\ AuthFailed(WRONG_USERNAME)
       \/ account # NoAccount /\ ~Complete(account) /\ AuthFailed(WRONG_PASSWORD)
       \/ Complete(account) /\ cache' = account /\ AnswerFrom(account)

\* HandlersAuth::handle_logon_challenge().
ServerChallenge ==
    /\ stage = "challenge" /\ Request.outcome = "packet"
    /\ LET read == read_string_nt_le(Request.packet.buffer).value
       IN \/ ~is_valid_utf8(read) /\ username' = read /\ AuthFailed(WRONG_USERNAME)
          \/ /\ is_valid_utf8(read)
             /\ username' = to_uppercase(read)
             /\ \/ cache # NoAccount /\ AnswerFrom(cache) /\ UNCHANGED cache
                \/ FromDatabase
    /\ UNCHANGED <<name, account, client>>

\* Client::handle_packet(), SMSG_AUTH_LOGON_CHALLENGE.  A field that cannot be
\* read disconnects.
ClientProof ==
    /\ stage = "answer" /\ Received.ok /\ Received.value = SMSG_AUTH_LOGON_CHALLENGE
    /\ LET B == read_bytes(Received.buffer, KeyBytes)
           gen == read_uint_be(B.buffer, 1)
           mod == read_bytes(gen.buffer, KeyBytes)
           salt == read_bytes(mod.buffer, KeyBytes)
           loaded == load_constants(client, Value(mod.value), gen.value)
       IN IF salt.ok
          THEN \E a \in Exponents :
                 LET srp == generate_client_ephemeral(loaded, a)
                     M1 == compute_M1(srp.A, B.value, salt.value)
                     proof == write_bytes(write_bytes(NewBuffer(<<>>), key_bytes(srp.A)), M1)
                 IN /\ client' = [srp EXCEPT !.salt = salt.value, !.M1 = M1, !.B = B.value]
                    /\ wire' = AuthPacket(CMSG_AUTH_LOGON_PROOF, proof.data)
                    /\ stage' = "proof"
          ELSE stage' = "disconnected" /\ UNCHANGED <<client, wire>>
    /\ UNCHANGED <<name, account, cache, username, server>>

\* HandlersAuth::handle_logon_proof().
ServerProof ==
    /\ stage = "proof" /\ Request.outcome = "packet"
    /\ LET A == read_bytes(Request.packet.buffer, KeyBytes)
           M1 == read_bytes(A.buffer, HashBytes)
       IN wire' = IF M1.ok THEN AuthPacket(SMSG_AUTH_LOGON_PROOF, verify_client_proof(A.value, M1.value))
                  ELSE AuthPacket(SMSG_AUTH_RESPONSE, <<AUTH_FAILED, INTERNAL_ERROR>>)
    /\ stage' = "answer"
    /\ UNCHANGED <<name, account, cache, username, server, client>>

\* The reader finds the payload too large and closes the session.
ServerRefuses ==
    /\ stage \in {"challenge", "proof"} /\ Request.outcome = "refused"
    /\ stage' = "closed"
    /\ UNCHANGED <<name, account, cache, username, server, client, wire>>

\* handle_packet(), SMSG_AUTH_LOGON_PROOF.  If M2 cannot be read the exception
\* is logged by read_payload() and the packet is ignored.
ClientVerdict ==
    /\ stage = "answer" /\ Received.ok /\ Received.value = SMSG_AUTH_LOGON_PROOF
    /\ LET M2 == read_bytes(Received.buffer, HashBytes)
       IN stage' = IF ~M2.ok THEN "ignored"
                   ELSE IF verify_server_proof(client.A, client.M1, M2.value) THEN "authenticated"
                   ELSE "disconnected"
    /\ UNCHANGED <<name, account, cache, username, server, client, wire>>

\* handle_packet(), SMSG_AUTH_RESPONSE: both codes are read, then disconnect().
ClientRefused ==
    /\ stage = "answer" /\ Received.ok /\ Received.value = SMSG_AUTH_RESPONSE
    /\ stage' = "refused"
    /\ UNCHANGED <<name, account, cache, username, server, client, wire>>

\* A new client of the same user and a new session; meanwhile the account was
\* made anew or the cache's entry expired, or neither.
Again ==
    /\ stage \in {"authenticated", "refused", "disconnected", "ignored", "closed"}
    /\ stage' = "start" /\ wire' = AuthPacket(EMPTY_STAGE, <<>>)
    /\ account' \in {account} \cup Rows /\ cache' \in {cache, NoAccount}
    /\ username' = <<>> /\ server' = NoServer /\ client' = NoClient
    /\ UNCHANGED name

Next ==
    \/ SendChallenge \/ ServerChallenge \/ ClientProof \/ ServerProof \/ ServerRefuses
    \/ ClientVerdict \/ ClientRefused \/ Again

Spec == Init /\ [][Next]_vars

----------------------------------------------------------------------------
(* Properties of the exchange.                                              *)

\* The name that the server looks up is the client's name in upper case, byte by
\* byte, which is how generate_salt_and_verifier_trinity() hashes it; the name
\* travels reversed (write_string_nt_le) and its characters of several bytes
\* are put together again.  Or else it was no UTF-8 and came through unchanged.
NameIntact ==
    username # <<>> =>
        username = IF is_valid_utf8(name) THEN [i \in DOMAIN name |-> toupper(name[i])] ELSE name

\* The two ends compute with the same numbers: what the client read from the
\* challenge is the server's B, the shared N, g and k, and the salt of the row
\* in use, whatever zeros the numbers begin with.
SameNumbers ==
    stage \in {"proof", "authenticated"} =>
        /\ Value(client.B) = server.B /\ client.salt = server.salt
        /\ client.N = N /\ client.g = g /\ client.k = calculate_k(N, g)

\* No logon ends in a disconnect by the client or in silence: each field can be read, and the
\* M2 that the server computes from the bytes it received is the one the client
\* computes from the numbers it holds.  The server closes the session only on a
\* name that makes the challenge larger than its reader accepts.
NeverDisconnected ==
    /\ stage \notin {"disconnected", "ignored"}
    /\ stage = "closed" => Len(name) >= PayloadLimit

\* Who is refused, and why.  The user name is called wrong if it is no UTF-8 or
\* has no account.  The password is called wrong, before any was looked at, if
\* the verifier is a number below Power[KeyBytes - 1]: that one
\* generate_salt_and_verifier_trinity() returns in fewer bytes than the handler
\* (and the CHECK of the accounts table, README.md) demands.  Nobody else is
\* refused, unless the database was not to be had.
OnlyShortRefused ==
    stage = "refused" =>
        LET code == Received.buffer.data[2] IN
        \/ code = WRONG_USERNAME /\ (~is_valid_utf8(name) \/ account = NoAccount)
        \/ /\ code = WRONG_PASSWORD /\ account # NoAccount
           /\ Value(account.verifier) < Power[KeyBytes - 1]
        \/ code = DATABASE_BUSY

============================================================================
