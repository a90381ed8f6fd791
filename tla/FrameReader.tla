----------------------------- MODULE FrameReader -----------------------------
(***************************************************************************)
(* How a session cuts the byte stream of its client into packets: the      *)
(* MessageBuffer, do_read() and the two packet readers.  One chain of      *)
(* reads: module ClientSession shows that there is never a second one.     *)
(*                                                                         *)
(* A byte is its number in the stream, so that bytes lost, repeated or     *)
(* moved to the wrong place show; 0 is a byte never received.  The stream  *)
(* is a sequence of packets, each a header and the payload it announces;   *)
(* the client goes over from AUTH to WORK headers when the server does.    *)
(***************************************************************************)
EXTENDS Integers, Sequences

CONSTANTS
    InitialSize,  \* storage of a new MessageBuffer (4096)
    MinFree,      \* ensure_free_space() of do_read() (512)
    MaxPayload,   \* largest payload a reader accepts (2048)
    AuthHeader,   \* opcode(1) length(2)
    WorkHeader,   \* opcode(2) length(2)
    Payloads,     \* payload sizes the client announces
    MaxFrames     \* bound: packets in the stream

ASSUME SizesAssumption ==
    /\ InitialSize \in Nat /\ MinFree \in Nat \ {0} /\ MaxPayload \in Nat /\ MaxFrames \in Nat
    /\ AuthHeader \in Nat \ {0} /\ WorkHeader \in Nat \ {0}
    /\ Payloads \subseteq Nat /\ Payloads # {}

VARIABLES
    frames,             \* payload sizes of the packets of the stream
    authFrames,         \* how many of them come before the change to WORK
    received,           \* bytes taken from the socket
    consumed,           \* bytes read_completed() has passed
    size, store,        \* _storage and its size
    rpos, wpos,         \* _rpos, _wpos
    peak,               \* most unread bytes ever buffered
    mode,               \* session_mode_
    packets,            \* the packets given to dispatch(), as the bytes copied
    pc                  \* "arm": do_read() is next; "reading"; "process"; "closed"

buffer == <<size, store, rpos, wpos>>
stream == <<frames, authFrames>>
readerVars == <<stream, received, consumed, buffer, peak, mode, packets, pc>>

(***************************************************************************)
(* The stream.                                                             *)
(***************************************************************************)
Header(k) == IF k <= authFrames THEN AuthHeader ELSE WorkHeader

\* The number of the first byte of packet k.
First == LET F[k \in 1..Len(frames) + 1] == IF k = 1 THEN 1 ELSE F[k - 1] + Header(k - 1) + frames[k - 1]
         IN  F

StreamLength == First[Len(frames) + 1] - 1

HeaderSize == IF mode = "AUTH" THEN AuthHeader ELSE WorkHeader

\* The length a reader finds when it takes byte b for the first of a packet: the
\* right one on a packet boundary, in the right mode, and anything elsewhere.
Announced(b) ==
    LET K == {k \in DOMAIN frames : First[k] = b /\ Header(k) = HeaderSize}
    IN  IF K = {} THEN Payloads ELSE {frames[k] : k \in K}

(***************************************************************************)
(* MessageBuffer.                                                          *)
(***************************************************************************)
active == wpos - rpos       \* get_active_size()
remaining == size - wpos    \* get_remaining_space()

\* The types; the positions of the buffer are in order and inside its storage.
TypeOK ==
    /\ frames \in Seq(Payloads) /\ authFrames \in Nat
    /\ received \in Nat /\ consumed \in Nat /\ peak \in Nat
    /\ size \in Nat /\ store \in [1..size -> Nat] /\ wpos \in 0..size /\ rpos \in 0..wpos
    /\ mode \in {"AUTH", "WORK"} /\ packets \in Seq(Seq(Nat))
    /\ pc \in {"arm", "reading", "process", "closed"}

ReaderInit ==
    /\ \E n \in 1..MaxFrames : frames \in [1..n -> Payloads] /\ authFrames \in 1..n
    /\ received = 0 /\ consumed = 0 /\ peak = 0
    /\ size = InitialSize /\ store = [i \in 1..InitialSize |-> 0] /\ rpos = 0 /\ wpos = 0
    /\ mode = "AUTH" /\ packets = <<>>
    /\ pc = "arm"

\* Mutant: the positions are moved without memmove().
normalize_NoMove ==
    /\ rpos' = 0 /\ wpos' = active
    /\ store' = [i \in 1..size' |-> IF i <= size THEN store[i] ELSE 0]

\* The unread bytes move to the front, into the storage as ensure_free_space()
\* leaves it (resize() appends zeros).
normalize ==
    /\ rpos' = 0 /\ wpos' = active
    /\ store' = [i \in 1..size' |-> IF i <= active THEN store[rpos + i]
                                   ELSE IF i <= size THEN store[i] ELSE 0]

\* Mutant: the storage grows without a look at what normalize() has freed.
ensure_free_space_Grow ==
    \/ remaining >= MinFree /\ UNCHANGED buffer
    \/ remaining < MinFree /\ size' = size + MinFree /\ normalize

ensure_free_space ==
    \/ remaining >= MinFree /\ UNCHANGED buffer
    \/ /\ remaining < MinFree
       /\ size' = IF size - active < MinFree THEN size + MinFree ELSE size
       /\ normalize

do_read ==
    /\ pc = "arm"
    /\ ensure_free_space
    /\ pc' = "reading"
    /\ UNCHANGED <<stream, received, consumed, peak, mode, packets>>

Larger(a, b) == IF a >= b THEN a ELSE b

\* async_read_some() completes with n bytes at write_ptr(), at most the free space it
\* was given, and the handler calls write_completed(n).
ReadCompletes ==
    /\ pc = "reading"
    /\ \E n \in 1..remaining :
          /\ received + n <= StreamLength
          /\ store' = [i \in 1..size |-> IF i > wpos /\ i <= wpos + n THEN received + i - wpos ELSE store[i]]
          /\ wpos' = wpos + n
          /\ received' = received + n
          /\ peak' = Larger(peak, active + n)
    /\ pc' = "process"
    /\ UNCHANGED <<stream, consumed, size, rpos, mode, packets>>

\* The client disconnects: close().
ReadFails ==
    /\ pc = "reading"
    /\ pc' = "closed"
    /\ UNCHANGED <<stream, received, consumed, buffer, peak, mode, packets>>

(***************************************************************************)
(* process_read_buffer() and what follows it in the handler.               *)
(***************************************************************************)
\* The length found at read_ptr().
Length == Announced(store[rpos + 1])

\* Less than a header, or less than the packet it announces.
Incomplete ==
    /\ pc = "process"
    /\ active < HeaderSize \/ \E n \in Length : active < HeaderSize + n
    /\ pc' = "arm"
    /\ UNCHANGED <<stream, received, consumed, buffer, peak, mode, packets>>

Oversized ==
    /\ pc = "process" /\ active >= HeaderSize
    /\ \E n \in Length : active >= HeaderSize + n /\ n > MaxPayload
    /\ pc' = "closed"
    /\ UNCHANGED <<stream, received, consumed, buffer, peak, mode, packets>>

\* Mutant: read_completed() forgets the header.
Dispatch_NoHeader ==
    /\ pc = "process" /\ active >= HeaderSize
    /\ \E n \in Length :
          /\ active >= HeaderSize + n /\ n <= MaxPayload
          /\ packets' = Append(packets, [i \in 1..HeaderSize + n |-> store[rpos + i]])
          /\ rpos' = rpos + n /\ consumed' = consumed + n
    /\ mode' = IF Len(packets') = authFrames THEN "WORK" ELSE mode
    /\ pc' = "arm"
    /\ UNCHANGED <<stream, received, size, store, wpos, peak>>

\* One complete packet is copied, read_completed() passes it (it cannot throw: the
\* packet is no longer than the unread bytes) and it is dispatched.  The handler of
\* CMSG_AUTH_LOGON_PROOF, the last packet before the change, sets the mode; a handler
\* that throws closes the session.  One packet is taken per completed read.
Dispatch ==
    /\ pc = "process" /\ active >= HeaderSize
    /\ \E n \in Length :
          /\ active >= HeaderSize + n /\ n <= MaxPayload
          /\ packets' = Append(packets, [i \in 1..HeaderSize + n |-> store[rpos + i]])
          /\ rpos' = rpos + HeaderSize + n /\ consumed' = consumed + HeaderSize + n
    /\ \/ mode' = (IF Len(packets') = authFrames THEN "WORK" ELSE mode) /\ pc' = "arm"
       \/ mode' = mode /\ pc' = "closed"
    /\ UNCHANGED <<stream, received, size, store, wpos, peak>>

Handler == do_read \/ Incomplete \/ Oversized \/ Dispatch
ReaderNext == Handler \/ ReadCompletes \/ ReadFails

ReaderSpec == ReaderInit /\ [][ReaderNext]_readerVars

\* The handler runs to its end, and bytes that the client has sent arrive.
FairReaderSpec == ReaderSpec /\ WF_readerVars(Handler) /\ WF_readerVars(ReadCompletes)

-----------------------------------------------------------------------------
\* The unread part of the buffer is the stream from byte consumed + 1 on: normalize(),
\* resize() and the writes at write_ptr() lose, repeat and reorder nothing.
BufferIsStream ==
    /\ received = consumed + active
    /\ \A i \in rpos + 1..wpos : store[i] = consumed + i - rpos

\* The readers hand the client's packets to dispatch() whole, in order, each cut at its
\* boundary, also across the change from AUTH to WORK headers, and none above the limit.
PacketsIntact ==
    /\ Len(packets) <= Len(frames)
    /\ \A k \in DOMAIN packets :
          /\ frames[k] <= MaxPayload
          /\ packets[k] = [i \in 1..Header(k) + frames[k] |-> First[k] + i - 1]

\* do_read() always offers at least MinFree bytes, and the storage grows only when the
\* unread bytes need it: it stays below the largest backlog plus two such steps.
StorageBounded ==
    /\ pc = "reading" => remaining >= MinFree
    /\ size = InitialSize \/ size < peak + 2 * MinFree

CompletePacket ==
    active >= HeaderSize /\ \E n \in Length : n <= MaxPayload /\ active >= HeaderSize + n

\* ReaderAuthSession.cpp, after a packet was taken: "the next one is handled by do_read".
\* A complete packet left in the buffer is dispatched in the end, if the session lives.
BufferedIsHandled ==
    \A k \in 1..MaxFrames :
        (Len(packets) = k /\ CompletePacket) ~> (Len(packets) > k \/ pc = "closed")
=============================================================================
