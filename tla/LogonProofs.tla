---------------------------- MODULE LogonProofs ----------------------------
(***************************************************************************)
(* Proofs about module Logon, for any number of packets in flight and any   *)
(* number of connections.  The argument is about which packets are on their *)
(* way: an answer is in flight only if the session has done what it says,   *)
(* a proof only if the session was challenged or the client brought it.     *)
(* For the formats the order counts too: the requests are taken as one      *)
(* sequence, from the session's buffer back to the client's queue, of which *)
(* every step takes the first, extends the end or moves nothing.            *)
(***************************************************************************)
EXTENDS Logon, SequenceTheorems, TLAPS

\* The opcodes of the packets in a sequence.
OpsOf(s) == {s[i].op : i \in DOMAIN s}

\* What becomes of them when the sequence is extended, shortened or cut.
LEMMA AppendOps ==
    ASSUME NEW S, NEW s \in Seq(S), NEW p \in S
    PROVE  Append(s, p) \in Seq(S) /\ OpsOf(Append(s, p)) = OpsOf(s) \cup {p.op}
<1>1. /\ Append(s, p) \in Seq(S) /\ Len(Append(s, p)) = Len(s) + 1
      /\ \A i \in 1..Len(s) : Append(s, p)[i] = s[i]
      /\ Append(s, p)[Len(s) + 1] = p
      OBVIOUS
<1>2. DOMAIN Append(s, p) = DOMAIN s \cup {Len(s) + 1}
      BY <1>1
<1> QED BY <1>1, <1>2 DEF OpsOf

\* Taking the first packet adds no opcode.
LEMMA TailOps ==
    ASSUME NEW S, NEW s \in Seq(S), s # <<>>
    PROVE  /\ Tail(s) \in Seq(S) /\ OpsOf(Tail(s)) \subseteq OpsOf(s)
           /\ Head(s) \in S /\ Head(s).op \in OpsOf(s)
<1>1. /\ Tail(s) \in Seq(S) /\ Len(Tail(s)) = Len(s) - 1 /\ Len(s) \in Nat \ {0}
      /\ \A i \in 1..Len(Tail(s)) : Tail(s)[i] = s[i + 1]
      OBVIOUS
<1>2. Head(s) \in S /\ Head(s) = s[1] /\ 1 \in DOMAIN s
      OBVIOUS
<1>3. \A i \in DOMAIN Tail(s) : i + 1 \in DOMAIN s /\ Tail(s)[i] = s[i + 1]
      BY <1>1
<1> QED BY <1>1, <1>2, <1>3 DEF OpsOf

\* The first packet of a sequence put before another.
LEMMA FirstOfConcat ==
    ASSUME NEW S, NEW s \in Seq(S), NEW u \in Seq(S), s # <<>>
    PROVE  s \o u # <<>> /\ Head(s \o u) = Head(s) /\ Tail(s \o u) = Tail(s) \o u
<1>1. /\ s \o u \in Seq(S) /\ Len(s \o u) = Len(s) + Len(u) /\ Len(s) \in Nat \ {0} /\ Len(u) \in Nat
      /\ \A i \in 1..(Len(s) + Len(u)) : (s \o u)[i] = IF i <= Len(s) THEN s[i] ELSE u[i - Len(s)]
      OBVIOUS
<1>2. s \o u # <<>>
      BY <1>1
<1>3. /\ Tail(s \o u) \in Seq(S) /\ Len(Tail(s \o u)) = Len(s \o u) - 1
      /\ \A i \in 1..Len(Tail(s \o u)) : Tail(s \o u)[i] = (s \o u)[i + 1]
      BY <1>1, <1>2, HeadTailProperties
<1>4. /\ Tail(s) \in Seq(S) /\ Len(Tail(s)) = Len(s) - 1
      /\ \A i \in 1..Len(Tail(s)) : Tail(s)[i] = s[i + 1]
      BY HeadTailProperties
<1>5. /\ Tail(s) \o u \in Seq(S) /\ Len(Tail(s) \o u) = Len(Tail(s)) + Len(u)
      /\ \A i \in 1..(Len(Tail(s)) + Len(u)) :
            (Tail(s) \o u)[i] = IF i <= Len(Tail(s)) THEN Tail(s)[i] ELSE u[i - Len(Tail(s))]
      BY <1>4, ConcatProperties
<1>6. Len(Tail(s \o u)) = Len(Tail(s) \o u)
      BY <1>1, <1>3, <1>4, <1>5
<1>7. ASSUME NEW i \in 1..Len(Tail(s \o u)) PROVE Tail(s \o u)[i] = (Tail(s) \o u)[i]
  <2>1. i \in 1..(Len(s) + Len(u) - 1)
        BY <1>1, <1>3
  <2>2. CASE i <= Len(s) - 1
        BY <1>1, <1>3, <1>4, <1>5, <2>1, <2>2
  <2>3. CASE i > Len(s) - 1
        BY <1>1, <1>3, <1>4, <1>5, <2>1, <2>3
  <2> QED BY <1>1, <2>1, <2>2, <2>3
<1>8. Tail(s \o u) = Tail(s) \o u
      BY <1>3, <1>5, <1>6, <1>7, SeqEqual
<1>9. Head(s \o u) = (s \o u)[1] /\ Head(s) = s[1]
      BY <1>1
<1> QED BY <1>1, <1>2, <1>8, <1>9

\* A packet moves from the head of one sequence to the end of the one before it.
LEMMA MovedToEnd ==
    ASSUME NEW S, NEW s \in Seq(S), NEW u \in Seq(S), u # <<>>
    PROVE  Append(s, Head(u)) \o Tail(u) = s \o u
<1>1. /\ Head(u) \in S /\ Tail(u) \in Seq(S) /\ <<Head(u)>> \in Seq(S)
      OBVIOUS
<1>2. u = <<Head(u)>> \o Tail(u)
      OBVIOUS
<1>3. Append(s, Head(u)) = s \o <<Head(u)>>
      BY <1>1, AppendIsConcat
<1>4. (s \o <<Head(u)>>) \o Tail(u) = s \o (<<Head(u)>> \o Tail(u))
      BY <1>1, ConcatAssociative
<1> QED BY <1>2, <1>3, <1>4, Zenon

----------------------------------------------------------------------------
(* The packets in flight.                                                   *)

\* The requests on their way, in the order in which the session reads them.
Pending == buffer \o wire \o outgoing

Requested == OpsOf(Pending)

SeqInv ==
    /\ outgoing \in Seq(Requests) /\ wire \in Seq(Requests) /\ buffer \in Seq(Requests)
    /\ replies \in Seq(Replies)

\* Concatenation is associative.
LEMMA Regroup == \A a, b, c \in Seq(Requests) : (a \o b) \o c = a \o (b \o c)
BY SMT

\* What is queued goes last.
LEMMA SendPending ==
    ASSUME SeqInv, NEW p \in Requests, send_packet(p), UNCHANGED <<wire, buffer>>
    PROVE  Pending \in Seq(Requests) /\ Pending' = Append(Pending, p)
<1>1. buffer \o wire \in Seq(Requests) /\ outgoing \in Seq(Requests)
      BY DEF SeqInv
<1>2. \A s, u \in Seq(Requests) : s \o u \in Seq(Requests) /\ s \o Append(u, p) = Append(s \o u, p)
      OBVIOUS
<1> QED BY <1>1, <1>2 DEF send_packet, Pending

\* A completed write moves a packet on and keeps its place.
LEMMA WritePending ==
    ASSUME SeqInv, WriteCompletes
    PROVE  Pending' = Pending
<1>1. outgoing # <<>> /\ wire' = Append(wire, Head(outgoing)) /\ outgoing' = Tail(outgoing) /\ UNCHANGED buffer
      BY DEF WriteCompletes
<1>2. buffer \in Seq(Requests) /\ wire \in Seq(Requests) /\ outgoing \in Seq(Requests)
      BY DEF SeqInv
<1>3. Head(outgoing) \in Requests /\ Tail(outgoing) \in Seq(Requests)
      BY <1>1, <1>2, HeadTailProperties, Zenon
<1>4. wire' \in Seq(Requests)
      BY <1>1, <1>2, <1>3, AppendProperties, Zenon
<1>5. wire' \o outgoing' = wire \o outgoing
      BY <1>1, <1>2, MovedToEnd, Zenon
<1>6. \A w, o \in Seq(Requests) : (buffer \o w) \o o = buffer \o (w \o o)
      BY <1>2, Regroup, Zenon
<1>7. (buffer \o wire) \o outgoing = buffer \o (wire \o outgoing)
      BY <1>2, <1>6, Zenon
<1>8. (buffer \o wire') \o outgoing' = buffer \o (wire' \o outgoing')
      BY <1>1, <1>3, <1>4, <1>6, Zenon
<1> QED BY <1>1, <1>5, <1>7, <1>8, Zenon DEF Pending

\* The session reads the first request.
LEMMA ReadPending ==
    ASSUME SeqInv, ServerRead
    PROVE  /\ Pending \in Seq(Requests) /\ Pending # <<>> /\ Pending' = Tail(Pending)
           /\ wire' \in Seq(Requests) /\ buffer' \in Seq(Requests)
           /\ \/ /\ Head(Pending).mode = serverMode
                 /\ \/ serverMode = "AUTH" /\ dispatch_auth(Head(Pending))
                    \/ serverMode = "WORK" /\ dispatch_work(Head(Pending))
                 /\ UNCHANGED misread
              \/ /\ Head(Pending).mode # serverMode
                 /\ misread' = Head(Pending)
                 /\ UNCHANGED <<server, replies>>
<1>1. PICK n \in 0..Len(wire) :
          LET received == buffer \o SubSeq(wire, 1, n) IN
          /\ received # <<>>
          /\ wire' = SubSeq(wire, n + 1, Len(wire))
          /\ buffer' = Tail(received)
          /\ \/ /\ Head(received).mode = serverMode
                /\ \/ serverMode = "AUTH" /\ dispatch_auth(Head(received))
                   \/ serverMode = "WORK" /\ dispatch_work(Head(received))
                /\ UNCHANGED misread
             \/ /\ Head(received).mode # serverMode
                /\ misread' = Head(received)
                /\ UNCHANGED <<server, replies>>
      BY Zenon DEF ServerRead
<1> DEFINE begin == SubSeq(wire, 1, n)
           rest == SubSeq(wire, n + 1, Len(wire))
           received == buffer \o begin
<1>2. buffer \in Seq(Requests) /\ wire \in Seq(Requests) /\ outgoing \in Seq(Requests)
      BY DEF SeqInv
<1>3. begin \in Seq(Requests) /\ rest \in Seq(Requests) /\ begin \o rest = wire
  <2>1. Len(wire) \in Nat /\ \A i \in 1..Len(wire) : wire[i] \in Requests
        BY <1>2
  <2>2. begin \in Seq(Requests) /\ rest \in Seq(Requests)
        BY <2>1, SubSeqProperties
  <2>3. 1 \in 1..(Len(wire) + 1) /\ n \in (1 - 1)..Len(wire) /\ Len(wire) \in n..Len(wire)
        BY <2>1
  <2>4. begin \o rest = SubSeq(wire, 1, Len(wire))
        BY <1>2, <2>3, ConcatAdjacentSubSeq, Zenon
  <2> QED BY <1>2, <2>2, <2>4, SubSeqFull, Zenon
<1>4. /\ received # <<>> /\ wire' = rest /\ buffer' = Tail(received) /\ UNCHANGED outgoing
      BY <1>1, Zenon DEF ServerRead, client
<1>5. received \in Seq(Requests) /\ received \o rest = buffer \o wire
  <2> HIDE DEF begin, rest
  <2>1. \A u, v \in Seq(Requests) : (buffer \o u) \o v = buffer \o (u \o v)
        BY <1>2, Regroup, Zenon
  <2>2. received \in Seq(Requests)
        BY <1>2, <1>3, ConcatProperties, Zenon
  <2> QED BY <1>3, <2>1, <2>2, Zenon
<1>6. \/ /\ Head(received).mode = serverMode
         /\ \/ serverMode = "AUTH" /\ dispatch_auth(Head(received))
            \/ serverMode = "WORK" /\ dispatch_work(Head(received))
         /\ UNCHANGED misread
      \/ /\ Head(received).mode # serverMode
         /\ misread' = Head(received)
         /\ UNCHANGED <<server, replies>>
      BY <1>1, Zenon
<1> HIDE DEF begin, rest, received
<1>7. received \o rest # <<>> /\ Head(received \o rest) = Head(received) /\ Tail(received \o rest) = Tail(received) \o rest
      BY <1>3, <1>4, <1>5, FirstOfConcat, Zenon
<1>8. received \o rest \in Seq(Requests)
      BY <1>3, <1>5, ConcatProperties, Zenon
<1>9. /\ (received \o rest) \o outgoing # <<>> /\ Head((received \o rest) \o outgoing) = Head(received)
      /\ Tail((received \o rest) \o outgoing) = (Tail(received) \o rest) \o outgoing
  <2>1. \A s \in Seq(Requests) : s # <<>> =>
            s \o outgoing # <<>> /\ Head(s \o outgoing) = Head(s) /\ Tail(s \o outgoing) = Tail(s) \o outgoing
        BY <1>2, FirstOfConcat, Zenon
  <2> QED BY <1>7, <1>8, <2>1, Zenon
<1>10. Pending = (received \o rest) \o outgoing /\ Pending' = (Tail(received) \o rest) \o outgoing
      BY <1>4, <1>5, Zenon DEF Pending
<1>11. Pending \in Seq(Requests)
      BY <1>2, <1>8, <1>10, ConcatProperties, Zenon
<1>12. wire' \in Seq(Requests) /\ buffer' \in Seq(Requests)
      BY <1>3, <1>4, <1>5, HeadTailProperties, Zenon
<1> QED BY <1>6, <1>9, <1>10, <1>11, <1>12, Zenon

\* A new connection leaves the end of them, the client's queue.
LEMMA ConnectPending ==
    ASSUME SeqInv, connect
    PROVE  /\ Pending' = outgoing /\ Len(outgoing) <= Len(Pending)
           /\ \E n \in Nat : \A i \in DOMAIN outgoing : n + i \in DOMAIN Pending /\ outgoing[i] = Pending[n + i]
<1>1. wire' = <<>> /\ buffer' = <<>> /\ outgoing' = outgoing
      BY DEF connect
<1>2. outgoing \in Seq(Requests) /\ buffer \o wire \in Seq(Requests)
      BY DEF SeqInv
<1>3. Pending' = outgoing
      BY <1>1, <1>2 DEF Pending
<1>4. \A s, o \in Seq(Requests) :
          /\ Len(s) \in Nat /\ Len(o) <= Len(s \o o)
          /\ \A i \in DOMAIN o : Len(s) + i \in DOMAIN (s \o o) /\ o[i] = (s \o o)[Len(s) + i]
      OBVIOUS
<1> QED BY <1>2, <1>3, <1>4, Zenon DEF Pending

\* Steps that leave them alone.
LEMMA SamePending ==
    ASSUME UNCHANGED <<outgoing, wire, buffer>>
    PROVE  Pending' = Pending /\ Requested' = Requested
<1>1. Pending' = Pending
      BY Zenon DEF Pending
<1> QED BY <1>1, Zenon DEF Requested

\* The client queues a packet.
LEMMA SendFlow ==
    ASSUME SeqInv, NEW p \in Requests, send_packet(p), UNCHANGED <<wire, buffer>>
    PROVE  outgoing' \in Seq(Requests) /\ Requested' = Requested \cup {p.op}
<1>1. outgoing' \in Seq(Requests)
      BY AppendProperties, Zenon DEF SeqInv, send_packet
<1>2. Requested' = Requested \cup {p.op}
      BY SendPending, AppendOps, Zenon DEF Requested
<1> QED BY <1>1, <1>2

\* The session queues a reply.
LEMMA ReplyFlow ==
    ASSUME SeqInv, NEW op, NEW m, Packet(op, m) \in Replies, reply(op, m)
    PROVE  replies' \in Seq(Replies) /\ OpsOf(replies)' = OpsOf(replies) \cup {op}
<1>1. Packet(op, m).op = op
      BY DEF Packet
<1> QED BY <1>1, AppendOps DEF SeqInv, reply

\* A request moves on towards the session.
LEMMA WriteFlow ==
    ASSUME SeqInv, WriteCompletes
    PROVE  SeqInv' /\ Requested' = Requested
<1>1. outgoing # <<>> /\ wire' = Append(wire, Head(outgoing)) /\ outgoing' = Tail(outgoing)
      /\ UNCHANGED <<buffer, replies>>
      BY DEF WriteCompletes
<1>2. SeqInv'
      BY <1>1, HeadTailProperties, AppendProperties, Zenon DEF SeqInv
<1> QED BY <1>2, WritePending, Zenon DEF Requested

\* What the session reads was sent, and no opcode is new.
LEMMA ReadFlow ==
    ASSUME SeqInv, ServerRead
    PROVE  /\ wire' \in Seq(Requests) /\ buffer' \in Seq(Requests) /\ Requested' \subseteq Requested
           /\ \E p \in Requests :
                 /\ p.op \in Requested
                 /\ \/ serverMode = "AUTH" /\ dispatch_auth(p)
                    \/ serverMode = "WORK" /\ dispatch_work(p)
                    \/ UNCHANGED <<server, replies>>
<1>1. Pending \in Seq(Requests) /\ Pending # <<>> /\ Pending' = Tail(Pending)
      BY ReadPending, Zenon
<1>2. /\ Requested' \subseteq Requested /\ Head(Pending) \in Requests /\ Head(Pending).op \in Requested
      BY <1>1, TailOps, Zenon DEF Requested
<1> QED BY <1>2, ReadPending, Zenon

\* The replies that dispatch() of either stage sends.
LEMMA DispatchFlow ==
    ASSUME SeqInv, NEW p \in Requests, dispatch_auth(p) \/ dispatch_work(p)
    PROVE  /\ replies' \in Seq(Replies)
           /\ \/ UNCHANGED <<server, replies>>
              \/ OpsOf(replies)' = OpsOf(replies) \cup {"SMSG_PONG"} /\ UNCHANGED server
              \/ /\ p.op = "CMSG_AUTH_LOGON_CHALLENGE"
                 /\ OpsOf(replies)' = OpsOf(replies) \cup {"SMSG_AUTH_RESPONSE"} /\ UNCHANGED server
              \/ /\ p.op = "CMSG_AUTH_LOGON_CHALLENGE"
                 /\ OpsOf(replies)' = OpsOf(replies) \cup {"SMSG_AUTH_LOGON_CHALLENGE"}
                 /\ challenged' /\ UNCHANGED <<serverMode, authenticated>>
              \/ /\ p.op = "CMSG_AUTH_LOGON_PROOF"
                 /\ OpsOf(replies)' = OpsOf(replies) \cup {"SMSG_AUTH_LOGON_PROOF"}
                 /\ serverMode' = "WORK" /\ authenticated' /\ UNCHANGED challenged
<1> DEFINE R == {"SMSG_PONG", "SMSG_AUTH_LOGON_CHALLENGE", "SMSG_AUTH_LOGON_PROOF", "SMSG_AUTH_RESPONSE"}
<1>1. \A op \in R, m \in Modes : Packet(op, m) \in Replies
      BY DEF Packet, Replies
<1>2. ASSUME NEW op \in R, NEW m \in Modes, reply(op, m)
      PROVE  replies' \in Seq(Replies) /\ OpsOf(replies)' = OpsOf(replies) \cup {op}
      BY <1>1, <1>2, ReplyFlow
<1>3. CASE handle_ping("AUTH") \/ handle_ping("WORK")
      BY <1>2, <1>3 DEF handle_ping, Modes
<1>4. CASE p.op = "CMSG_AUTH_LOGON_CHALLENGE" /\ handle_logon_challenge
  <2>1. CASE /\ challenged' = TRUE /\ reply("SMSG_AUTH_LOGON_CHALLENGE", "AUTH")
             /\ UNCHANGED <<serverMode, authenticated>>
        BY <1>2, <1>4, <2>1 DEF Modes
  <2>2. CASE reply("SMSG_AUTH_RESPONSE", "AUTH") /\ UNCHANGED server
        BY <1>2, <1>4, <2>2 DEF Modes
  <2> QED BY <1>4, <2>1, <2>2, Zenon DEF handle_logon_challenge
<1>5. CASE p.op = "CMSG_AUTH_LOGON_PROOF" /\ handle_logon_proof
      BY <1>2, <1>5 DEF handle_logon_proof, Modes
<1>6. CASE UNCHANGED <<server, replies>>
      BY <1>6 DEF SeqInv
<1> QED BY <1>3, <1>4, <1>5, <1>6, Zenon DEF dispatch_auth, dispatch_work

\* The client reads a reply.
LEMMA ClientReadFlow ==
    ASSUME SeqInv, ClientRead
    PROVE  /\ SeqInv' /\ OpsOf(replies)' \subseteq OpsOf(replies)
           /\ \/ Requested' = Requested
              \/ /\ "SMSG_AUTH_LOGON_CHALLENGE" \in OpsOf(replies)
                 /\ Requested' = Requested \cup {"CMSG_AUTH_LOGON_PROOF"}
           /\ clientMode' = clientMode \/ "SMSG_AUTH_LOGON_PROOF" \in OpsOf(replies)
<1>1. /\ replies # <<>> /\ replies' = Tail(replies) /\ UNCHANGED <<wire, buffer>>
      /\ handle_packet(Head(replies)) \/ UNCHANGED <<clientMode, outgoing>>
      BY DEF ClientRead
<1>2. /\ replies' \in Seq(Replies) /\ OpsOf(replies') \subseteq OpsOf(replies)
      /\ Head(replies).op \in OpsOf(replies)
      BY <1>1, TailOps DEF SeqInv
<1>3. CASE UNCHANGED <<clientMode, outgoing>>
      BY <1>1, <1>2, <1>3, SamePending, Zenon DEF SeqInv
<1>4. CASE /\ Head(replies).op = "SMSG_AUTH_LOGON_CHALLENGE" /\ UNCHANGED clientMode
           /\ send_packet(Packet("CMSG_AUTH_LOGON_PROOF", "AUTH"))
  <2>1. /\ Packet("CMSG_AUTH_LOGON_PROOF", "AUTH") \in Requests
        /\ Packet("CMSG_AUTH_LOGON_PROOF", "AUTH").op = "CMSG_AUTH_LOGON_PROOF"
        BY DEF Packet, Requests, Modes
  <2>2. outgoing' \in Seq(Requests) /\ Requested' = Requested \cup {"CMSG_AUTH_LOGON_PROOF"}
        BY <1>1, <1>4, <2>1, SendFlow
  <2> QED BY <1>1, <1>2, <1>4, <2>2 DEF SeqInv
<1>5. CASE Head(replies).op = "SMSG_AUTH_LOGON_PROOF" /\ UNCHANGED outgoing
      BY <1>1, <1>2, <1>5, SamePending, Zenon DEF SeqInv
<1> QED BY <1>1, <1>3, <1>4, <1>5 DEF handle_packet

\* The client's own packets: a heartbeat, a message, and the challenge of timer1.
LEMMA OwnFlow ==
    ASSUME SeqInv, NEW op \in {"CMSG_PING", "CMSG_MESSAGE", "CMSG_AUTH_LOGON_CHALLENGE"}, NEW m \in Modes,
           send_packet(Packet(op, m)), UNCHANGED <<wire, buffer, replies>>
    PROVE  SeqInv' /\ Requested' = Requested \cup {op} /\ OpsOf(replies)' = OpsOf(replies)
<1>1. Packet(op, m) \in Requests /\ Packet(op, m).op = op
      BY DEF Packet, Requests
<1> QED BY <1>1, SendFlow DEF SeqInv

----------------------------------------------------------------------------
(* What the packets in flight say of the two ends.                          *)

ModesOK == clientMode \in Modes

StageInv ==
    /\ clientMode = "WORK" => serverMode = "WORK" \/ start.mode = "WORK"
    /\ serverMode = "WORK" => authenticated
    /\ authenticated => challenged \/ "CMSG_AUTH_LOGON_PROOF" \in start.queue
    /\ "SMSG_AUTH_LOGON_PROOF" \in OpsOf(replies) => serverMode = "WORK"
    /\ "SMSG_AUTH_LOGON_CHALLENGE" \in OpsOf(replies) => challenged
    /\ "CMSG_AUTH_LOGON_PROOF" \in Requested => challenged \/ "CMSG_AUTH_LOGON_PROOF" \in start.queue

NothingBrought == ~start.timer /\ start.queue \cap Logons = {}

LogonInv ==
    NothingBrought =>
        /\ serverMode = "AUTH" /\ ~challenged /\ ~challengeTimer
        /\ Requested \cap Logons = {}
        /\ "SMSG_AUTH_LOGON_PROOF" \notin OpsOf(replies)
        /\ "SMSG_AUTH_LOGON_CHALLENGE" \notin OpsOf(replies)

FlowInv == SeqInv /\ ModesOK /\ StageInv /\ LogonInv

\* An empty queue has no opcodes.
LEMMA EmptyOps == OpsOf(<<>>) = {}
BY DEF OpsOf

\* The invariant holds before the first connection.
LEMMA InitFlow == Init => FlowInv
<1> SUFFICES ASSUME Init PROVE FlowInv
    OBVIOUS
<1>1. SeqInv /\ ModesOK /\ Requested = {} /\ OpsOf(replies) = {}
  <2>1. SeqInv /\ ModesOK /\ Pending = <<>> /\ replies = <<>>
        BY DEF Init, SeqInv, ModesOK, Modes, Pending
  <2> QED BY <2>1, EmptyOps, Zenon DEF Requested
<1>2. StageInv
      BY <1>1 DEF Init, StageInv
<1>3. start.timer
      BY DEF Init, Brought
<1>4. LogonInv
      BY <1>3 DEF LogonInv, NothingBrought
<1> QED BY <1>1, <1>2, <1>4 DEF FlowInv

\* A new connection: nothing is in flight but what the client has brought.
LEMMA ConnectFlow == FlowInv /\ connect => FlowInv'
<1> SUFFICES ASSUME FlowInv, connect PROVE FlowInv'
    OBVIOUS
<1>1. /\ wire' = <<>> /\ buffer' = <<>> /\ replies' = <<>> /\ UNCHANGED <<clientMode, challengeTimer, outgoing>>
      /\ serverMode' = "AUTH" /\ challenged' = FALSE /\ authenticated' = FALSE
      BY DEF connect
<1>2. /\ SeqInv' /\ ModesOK' /\ OpsOf(replies)' = {} /\ Requested' = OpsOf(outgoing)
  <2>1. Pending' = outgoing
        BY ConnectPending, Zenon DEF FlowInv
  <2>2. SeqInv' /\ ModesOK' /\ OpsOf(replies)' = {}
        BY <1>1, EmptyOps DEF FlowInv, SeqInv, ModesOK
  <2> QED BY <2>1, <2>2, Zenon DEF Requested
<1>3. start'.mode = clientMode /\ start'.queue = OpsOf(outgoing) /\ (start'.timer <=> challengeTimer)
      BY DEF connect, Brought, OpsOf
<1>4. StageInv'
      BY <1>1, <1>2, <1>3 DEF StageInv
<1>5. LogonInv'
      BY <1>1, <1>2, <1>3 DEF LogonInv, NothingBrought
<1> QED BY <1>2, <1>4, <1>5 DEF FlowInv

\* A step that leaves the modes and the history alone and lets no new packet of a
\* logon into flight.
LEMMA SameFlow ==
    ASSUME FlowInv, SeqInv', UNCHANGED <<clientMode, serverMode, challenged, authenticated, start>>,
           challengeTimer' => challengeTimer,
           Requested' \subseteq Requested \cup {"CMSG_PING", "CMSG_MESSAGE"},
           OpsOf(replies)' \subseteq OpsOf(replies) \cup {"SMSG_PONG", "SMSG_AUTH_RESPONSE"}
    PROVE  FlowInv'
<1>1. StageInv'
      BY DEF FlowInv, StageInv
<1>2. LogonInv'
      BY DEF FlowInv, LogonInv, NothingBrought, Logons
<1> QED BY <1>1, <1>2 DEF FlowInv, ModesOK

\* timer1 sends its challenge: it was armed, so something was brought.
LEMMA LogonChallengeFlow == FlowInv /\ LogonChallenge => FlowInv'
<1> SUFFICES ASSUME FlowInv, LogonChallenge PROVE FlowInv'
    OBVIOUS
<1>1. /\ challengeTimer /\ send_packet(Packet("CMSG_AUTH_LOGON_CHALLENGE", "AUTH"))
      /\ UNCHANGED <<wire, buffer, replies, clientMode, serverMode, challenged, authenticated, start>>
      BY DEF LogonChallenge, server, history
<1>2. /\ SeqInv' /\ Requested' = Requested \cup {"CMSG_AUTH_LOGON_CHALLENGE"}
      /\ OpsOf(replies)' = OpsOf(replies)
      BY <1>1, OwnFlow DEF FlowInv, Modes
<1>3. StageInv'
      BY <1>1, <1>2 DEF FlowInv, StageInv
<1>4. ~NothingBrought
      BY <1>1 DEF FlowInv, LogonInv
<1>5. LogonInv'
      BY <1>1, <1>4 DEF LogonInv, NothingBrought
<1> QED BY <1>1, <1>2, <1>3, <1>5 DEF FlowInv, ModesOK

\* The client reads: a proof is queued only after a challenge, and the client enters
\* the work stage only after the session.
LEMMA ClientReadKeeps == FlowInv /\ ClientRead => FlowInv'
<1> SUFFICES ASSUME FlowInv, ClientRead PROVE FlowInv'
    OBVIOUS
<1>1. UNCHANGED <<serverMode, challenged, authenticated, start, challengeTimer>>
      BY DEF ClientRead, server, history
<1>2. /\ SeqInv' /\ OpsOf(replies)' \subseteq OpsOf(replies)
      /\ \/ Requested' = Requested
         \/ /\ "SMSG_AUTH_LOGON_CHALLENGE" \in OpsOf(replies)
            /\ Requested' = Requested \cup {"CMSG_AUTH_LOGON_PROOF"}
      /\ clientMode' = clientMode \/ "SMSG_AUTH_LOGON_PROOF" \in OpsOf(replies)
      BY ClientReadFlow DEF FlowInv
<1>3. StageInv'
      BY <1>1, <1>2 DEF FlowInv, StageInv
<1>4. LogonInv'
      BY <1>1, <1>2 DEF FlowInv, LogonInv, NothingBrought
<1>5. ModesOK'
  <2>1. clientMode' = clientMode \/ clientMode' = "WORK"
        BY DEF ClientRead, handle_packet
  <2> QED BY <2>1 DEF FlowInv, ModesOK, Modes
<1> QED BY <1>2, <1>3, <1>4, <1>5 DEF FlowInv

\* The session reads and answers.
LEMMA ServerReadKeeps == FlowInv /\ ServerRead => FlowInv'
<1> SUFFICES ASSUME FlowInv, ServerRead PROVE FlowInv'
    OBVIOUS
<1>1. UNCHANGED <<clientMode, challengeTimer, start>>
      BY DEF ServerRead, client, history
<1>2. wire' \in Seq(Requests) /\ buffer' \in Seq(Requests) /\ Requested' \subseteq Requested /\ UNCHANGED outgoing
      BY ReadFlow, Zenon DEF FlowInv, ServerRead, client
<1>3. PICK p \in Requests :
          /\ p.op \in Requested
          /\ dispatch_auth(p) \/ dispatch_work(p) \/ UNCHANGED <<server, replies>>
      BY ReadFlow DEF FlowInv
<1>4. CASE UNCHANGED <<server, replies>>
      BY <1>1, <1>2, <1>4, SameFlow DEF FlowInv, SeqInv, server
<1>5. CASE dispatch_auth(p) \/ dispatch_work(p)
  <2>1. /\ replies' \in Seq(Replies)
        /\ \/ UNCHANGED <<server, replies>>
           \/ OpsOf(replies)' = OpsOf(replies) \cup {"SMSG_PONG"} /\ UNCHANGED server
           \/ /\ p.op = "CMSG_AUTH_LOGON_CHALLENGE"
              /\ OpsOf(replies)' = OpsOf(replies) \cup {"SMSG_AUTH_RESPONSE"} /\ UNCHANGED server
           \/ /\ p.op = "CMSG_AUTH_LOGON_CHALLENGE"
              /\ OpsOf(replies)' = OpsOf(replies) \cup {"SMSG_AUTH_LOGON_CHALLENGE"}
              /\ challenged' /\ UNCHANGED <<serverMode, authenticated>>
           \/ /\ p.op = "CMSG_AUTH_LOGON_PROOF"
              /\ OpsOf(replies)' = OpsOf(replies) \cup {"SMSG_AUTH_LOGON_PROOF"}
              /\ serverMode' = "WORK" /\ authenticated' /\ UNCHANGED challenged
        BY <1>5, DispatchFlow DEF FlowInv
  <2>2. SeqInv'
        BY <1>2, <2>1 DEF FlowInv, SeqInv
  <2>3. CASE UNCHANGED <<server, replies>>
        BY <1>4, <2>3
  <2>4. CASE OpsOf(replies)' \subseteq OpsOf(replies) \cup {"SMSG_PONG", "SMSG_AUTH_RESPONSE"} /\ UNCHANGED server
        BY <1>1, <1>2, <2>2, <2>4, SameFlow DEF server
  <2>5. CASE /\ p.op = "CMSG_AUTH_LOGON_CHALLENGE"
             /\ OpsOf(replies)' = OpsOf(replies) \cup {"SMSG_AUTH_LOGON_CHALLENGE"}
             /\ challenged' /\ UNCHANGED <<serverMode, authenticated>>
    <3>1. StageInv'
          BY <1>1, <1>2, <2>5 DEF FlowInv, StageInv
    <3>2. LogonInv'
          BY <1>1, <1>3, <2>5 DEF FlowInv, LogonInv, NothingBrought, Logons
    <3> QED BY <1>1, <2>2, <3>1, <3>2 DEF FlowInv, ModesOK
  <2>6. CASE /\ p.op = "CMSG_AUTH_LOGON_PROOF"
             /\ OpsOf(replies)' = OpsOf(replies) \cup {"SMSG_AUTH_LOGON_PROOF"}
             /\ serverMode' = "WORK" /\ authenticated' /\ UNCHANGED challenged
    <3>1. StageInv'
          BY <1>1, <1>2, <1>3, <2>6 DEF FlowInv, StageInv
    <3>2. LogonInv'
          BY <1>1, <1>3, <2>6 DEF FlowInv, LogonInv, NothingBrought, Logons
    <3> QED BY <1>1, <2>2, <3>1, <3>2 DEF FlowInv, ModesOK
  <2> QED BY <2>1, <2>3, <2>4, <2>5, <2>6
<1> QED BY <1>3, <1>4, <1>5

\* Every step keeps the invariant.
LEMMA NextFlow == FlowInv /\ [Next]_vars => FlowInv'
<1> SUFFICES ASSUME FlowInv, [Next]_vars PROVE FlowInv'
    OBVIOUS
<1>1. CASE Heartbeat
  <2>1. /\ send_packet(Packet("CMSG_PING", clientMode)) /\ UNCHANGED <<wire, buffer, replies>>
        /\ UNCHANGED <<clientMode, serverMode, challenged, authenticated, start, challengeTimer>>
        BY <1>1 DEF Heartbeat, server, history
  <2>2. /\ SeqInv' /\ Requested' = Requested \cup {"CMSG_PING"} /\ OpsOf(replies)' = OpsOf(replies)
        BY <2>1, OwnFlow DEF FlowInv, ModesOK
  <2> QED BY <2>1, <2>2, SameFlow
<1>2. CASE send_message
  <2>1. /\ send_packet(Packet("CMSG_MESSAGE", "WORK")) /\ UNCHANGED <<wire, buffer, replies>>
        /\ UNCHANGED <<clientMode, serverMode, challenged, authenticated, start, challengeTimer>>
        BY <1>2 DEF send_message, server, history
  <2>2. /\ SeqInv' /\ Requested' = Requested \cup {"CMSG_MESSAGE"} /\ OpsOf(replies)' = OpsOf(replies)
        BY <2>1, OwnFlow DEF FlowInv, Modes
  <2> QED BY <2>1, <2>2, SameFlow
<1>3. CASE WriteCompletes
  <2>1. UNCHANGED <<clientMode, serverMode, challenged, authenticated, start, challengeTimer, replies>>
        BY <1>3 DEF WriteCompletes, server, history
  <2>2. SeqInv' /\ Requested' \subseteq Requested
        BY <1>3, WriteFlow DEF FlowInv
  <2> QED BY <2>1, <2>2, SameFlow
<1>4. CASE Disconnect \/ ConnectionLost \/ Signal \/ UNCHANGED vars
  <2>1. /\ UNCHANGED <<clientMode, serverMode, challenged, authenticated, start, challengeTimer>>
        /\ UNCHANGED <<outgoing, wire, buffer, replies>>
        BY <1>4 DEF Disconnect, ConnectionLost, Signal, vars, client, server, history
  <2>2. SeqInv' /\ Requested' = Requested
        BY <2>1, SamePending, Zenon DEF FlowInv, SeqInv
  <2> QED BY <2>1, <2>2, SameFlow
<1> QED BY <1>1, <1>2, <1>3, <1>4, ConnectFlow, LogonChallengeFlow, ClientReadKeeps, ServerReadKeeps
        DEF Next, Ended

----------------------------------------------------------------------------
\* The stages come in order, over any number of connections: the client is never
\* ahead of the session, nor the session of the authentication (handle_logon_proof in
\* HandlersAuth.cpp, handle_packet in Client.cpp).
THEOREM StagesAlwaysInOrder == Spec => []StagesInOrder
<1>1. FlowInv => StagesInOrder
      BY DEF FlowInv, StageInv, StagesInOrder
<1> QED BY <1>1, InitFlow, NextFlow, PTL DEF Spec

\* A connection into which the client brings neither timer1 nor a packet of a logon
\* never logs on.
THEOREM NeverASecondLogon == Spec => []NoSecondLogon
<1>1. FlowInv => NoSecondLogon
      BY DEF FlowInv, LogonInv, NothingBrought, NoSecondLogon
<1> QED BY <1>1, InitFlow, NextFlow, PTL DEF Spec

----------------------------------------------------------------------------
(* At most one packet of a logon.                                           *)

Alone(s, O) == \A i, j \in DOMAIN s : s[i].op \in O /\ s[j].op \in O => i = j

\* A packet joins a queue that has none of its kind.
LEMMA AppendAlone ==
    ASSUME NEW S, NEW s \in Seq(S), NEW p \in S, NEW O, Alone(s, O), p.op \notin O \/ OpsOf(s) \cap O = {}
    PROVE  Alone(Append(s, p), O)
<1>1. /\ DOMAIN Append(s, p) = DOMAIN s \cup {Len(s) + 1}
      /\ \A i \in DOMAIN s : Append(s, p)[i] = s[i]
      /\ Append(s, p)[Len(s) + 1] = p
      OBVIOUS
<1> QED BY <1>1 DEF Alone, OpsOf

\* The only packet of its kind is taken.
LEMMA TailAlone ==
    ASSUME NEW S, NEW s \in Seq(S), s # <<>>, NEW O, Alone(s, O)
    PROVE  Alone(Tail(s), O) /\ (Head(s).op \in O => OpsOf(Tail(s)) \cap O = {})
<1>1. /\ \A i \in DOMAIN Tail(s) : i + 1 \in DOMAIN s /\ Tail(s)[i] = s[i + 1] /\ i \in Nat \ {0}
      /\ Head(s) = s[1] /\ 1 \in DOMAIN s
      OBVIOUS
<1>2. Alone(Tail(s), O)
      BY <1>1 DEF Alone
<1>3. Head(s).op \in O => OpsOf(Tail(s)) \cap O = {}
  <2> SUFFICES ASSUME Head(s).op \in O, NEW i \in DOMAIN Tail(s), Tail(s)[i].op \in O PROVE FALSE
      BY DEF OpsOf
  <2>1. i + 1 = 1 /\ i \in Nat \ {0}
        BY <1>1 DEF Alone
  <2> QED BY <2>1
<1> QED BY <1>2, <1>3

----------------------------------------------------------------------------
(* The formats of the requests, for a client in mode m: one in the format   *)
(* of the work stage is in flight only if the client is there.              *)

RequestsFit(s, m) ==
    \A i \in DOMAIN s : /\ s[i].mode = "WORK" => m = "WORK"
                        /\ s[i].op = "CMSG_MESSAGE" => s[i].mode = "WORK"

\* A request in the client's format, or of the first stage, joins them.
LEMMA FitAppend ==
    ASSUME NEW S, NEW s \in Seq(S), NEW p \in S, NEW m, RequestsFit(s, m),
           p.mode = "WORK" => m = "WORK", p.op = "CMSG_MESSAGE" => p.mode = "WORK"
    PROVE  RequestsFit(Append(s, p), m)
<1>1. /\ DOMAIN Append(s, p) = DOMAIN s \cup {Len(s) + 1}
      /\ \A i \in DOMAIN s : Append(s, p)[i] = s[i]
      /\ Append(s, p)[Len(s) + 1] = p
      OBVIOUS
<1> QED BY <1>1 DEF RequestsFit

\* The first one is taken.
LEMMA FitTail ==
    ASSUME NEW S, NEW s \in Seq(S), s # <<>>, NEW m, RequestsFit(s, m)
    PROVE  /\ RequestsFit(Tail(s), m)
           /\ Head(s).mode = "WORK" => m = "WORK"
           /\ Head(s).op = "CMSG_MESSAGE" => Head(s).mode = "WORK"
<1>1. /\ \A i \in DOMAIN Tail(s) : i + 1 \in DOMAIN s /\ Tail(s)[i] = s[i + 1]
      /\ Head(s) = s[1] /\ 1 \in DOMAIN s
      OBVIOUS
<1> QED BY <1>1 DEF RequestsFit

----------------------------------------------------------------------------
(* The formats of the replies, for a client in mode m: those of the first   *)
(* stage come first, and the proof is the last of them.                     *)

RepliesFit(r, m) ==
    /\ m = "WORK" => \A i \in DOMAIN r : r[i].mode = "WORK" /\ r[i].op # "SMSG_AUTH_LOGON_PROOF"
    /\ m # "WORK" => \A i \in DOMAIN r : r[i].mode = "WORK" => \E j \in 1..(i - 1) : r[j].op = "SMSG_AUTH_LOGON_PROOF"
    /\ \A i, j \in DOMAIN r : i < j /\ r[i].op = "SMSG_AUTH_LOGON_PROOF" =>
                                  r[j].mode = "WORK" /\ r[j].op # "SMSG_AUTH_LOGON_PROOF"

\* The session sends a reply: of the work stage once the proof is sent, of the first
\* stage before.
LEMMA FitReply ==
    ASSUME NEW S, NEW r \in Seq(S), NEW q \in S, NEW m, RepliesFit(r, m),
           \/ /\ q.mode = "WORK" /\ q.op # "SMSG_AUTH_LOGON_PROOF"
              /\ m = "WORK" \/ "SMSG_AUTH_LOGON_PROOF" \in OpsOf(r)
           \/ q.mode # "WORK" /\ m # "WORK" /\ "SMSG_AUTH_LOGON_PROOF" \notin OpsOf(r)
    PROVE  RepliesFit(Append(r, q), m)
<1> DEFINE t == Append(r, q)
<1>1. /\ DOMAIN t = DOMAIN r \cup {Len(r) + 1} /\ DOMAIN r = 1..Len(r) /\ Len(r) \in Nat
      /\ \A i \in DOMAIN r : t[i] = r[i]
      /\ t[Len(r) + 1] = q
      OBVIOUS
<1> HIDE DEF t
<1>2. m = "WORK" => \A i \in DOMAIN t : t[i].mode = "WORK" /\ t[i].op # "SMSG_AUTH_LOGON_PROOF"
      BY <1>1 DEF RepliesFit
<1>3. ASSUME m # "WORK", NEW i \in DOMAIN t, t[i].mode = "WORK"
      PROVE  \E j \in 1..(i - 1) : t[j].op = "SMSG_AUTH_LOGON_PROOF"
  <2>1. CASE i \in DOMAIN r
    <3>1. PICK j \in 1..(i - 1) : r[j].op = "SMSG_AUTH_LOGON_PROOF"
          BY <1>1, <1>3, <2>1 DEF RepliesFit
    <3>2. j \in DOMAIN r
          BY <1>1, <2>1
    <3> QED BY <1>1, <3>1, <3>2
  <2>2. CASE i = Len(r) + 1
    <3>1. "SMSG_AUTH_LOGON_PROOF" \in OpsOf(r)
          BY <1>1, <1>3, <2>2
    <3>2. PICK j \in DOMAIN r : r[j].op = "SMSG_AUTH_LOGON_PROOF"
          BY <3>1 DEF OpsOf
    <3>3. j \in 1..(i - 1)
          BY <1>1, <2>2
    <3> QED BY <1>1, <3>2, <3>3
  <2> QED BY <1>1, <2>1, <2>2
<1>4. ASSUME NEW i \in DOMAIN t, NEW j \in DOMAIN t, i < j, t[i].op = "SMSG_AUTH_LOGON_PROOF"
      PROVE  t[j].mode = "WORK" /\ t[j].op # "SMSG_AUTH_LOGON_PROOF"
  <2>1. i \in DOMAIN r /\ r[i].op = "SMSG_AUTH_LOGON_PROOF"
        BY <1>1, <1>4
  <2>2. "SMSG_AUTH_LOGON_PROOF" \in OpsOf(r)
        BY <2>1 DEF OpsOf
  <2>3. CASE j \in DOMAIN r
        BY <1>1, <1>4, <2>1, <2>3 DEF RepliesFit
  <2>4. CASE j = Len(r) + 1
        BY <1>1, <2>2, <2>4
  <2> QED BY <1>1, <2>3, <2>4
<1> QED BY <1>2, <1>3, <1>4, Zenon DEF RepliesFit, t

\* The client reads the first reply: it is in the client's format, and once it is the
\* proof the others are in the format of the work stage.
LEMMA FitRead ==
    ASSUME NEW r \in Seq(Replies), r # <<>>, NEW m \in Modes, RepliesFit(r, m)
    PROVE  /\ Head(r).mode = m
           /\ Head(r).op = "SMSG_AUTH_LOGON_PROOF" => RepliesFit(Tail(r), "WORK")
           /\ Head(r).op # "SMSG_AUTH_LOGON_PROOF" => /\ RepliesFit(Tail(r), m)
                                                      /\ OpsOf(r) \subseteq OpsOf(Tail(r)) \cup {Head(r).op}
<1>1. /\ DOMAIN r = 1..Len(r) /\ Len(r) \in Nat \ {0} /\ DOMAIN Tail(r) = 1..(Len(r) - 1)
      /\ \A i \in DOMAIN Tail(r) : Tail(r)[i] = r[i + 1]
      /\ Head(r) = r[1]
      OBVIOUS
<1>2. Head(r).mode \in Modes
  <2>1. Head(r) \in Replies
        BY HeadTailProperties, Zenon
  <2>2. \A q \in Replies : q.mode \in Modes
        BY DEF Replies
  <2> QED BY <2>1, <2>2, Zenon
<1>3. Head(r).mode = m
      BY <1>1, <1>2 DEF RepliesFit, Modes
<1>4. \A i \in DOMAIN Tail(r) : i + 1 \in DOMAIN r /\ 1 < i + 1 /\ 1 \in DOMAIN r
      BY <1>1
<1>5. /\ \A i, j \in DOMAIN Tail(r) : i < j /\ Tail(r)[i].op = "SMSG_AUTH_LOGON_PROOF" =>
                                  Tail(r)[j].mode = "WORK" /\ Tail(r)[j].op # "SMSG_AUTH_LOGON_PROOF"
      BY <1>1, <1>4 DEF RepliesFit
<1>6. Head(r).op = "SMSG_AUTH_LOGON_PROOF" => RepliesFit(Tail(r), "WORK")
      BY <1>1, <1>4, <1>5 DEF RepliesFit
<1>7. ASSUME Head(r).op # "SMSG_AUTH_LOGON_PROOF" PROVE RepliesFit(Tail(r), m)
  <2>1. ASSUME m # "WORK", NEW i \in DOMAIN Tail(r), Tail(r)[i].mode = "WORK"
        PROVE  \E j \in 1..(i - 1) : Tail(r)[j].op = "SMSG_AUTH_LOGON_PROOF"
    <3>1. PICK k \in 1..(i + 1 - 1) : r[k].op = "SMSG_AUTH_LOGON_PROOF"
          BY <1>1, <1>4, <2>1 DEF RepliesFit
    <3>2. k # 1
          BY <1>1, <1>7, <3>1
    <3>3. k - 1 \in 1..(i - 1) /\ k - 1 \in DOMAIN Tail(r) /\ k - 1 + 1 = k
          BY <1>1, <2>1, <3>2
    <3> QED BY <1>1, <3>1, <3>3
  <2>2. m = "WORK" => \A i \in DOMAIN Tail(r) : Tail(r)[i].mode = "WORK" /\ Tail(r)[i].op # "SMSG_AUTH_LOGON_PROOF"
        BY <1>1, <1>4 DEF RepliesFit
  <2> QED BY <1>5, <2>1, <2>2, Zenon DEF RepliesFit
<1>8. OpsOf(r) \subseteq OpsOf(Tail(r)) \cup {Head(r).op}
  <2> SUFFICES ASSUME NEW i \in DOMAIN r PROVE r[i].op \in OpsOf(Tail(r)) \cup {Head(r).op}
      BY DEF OpsOf
  <2>1. CASE i = 1
        BY <1>1, <2>1
  <2>2. CASE i # 1
    <3>1. i - 1 \in DOMAIN Tail(r) /\ r[i] = Tail(r)[i - 1]
          BY <1>1, <2>2
    <3> QED BY <3>1 DEF OpsOf
  <2> QED BY <2>1, <2>2
<1> QED BY <1>3, <1>6, <1>7, <1>8, Zenon

----------------------------------------------------------------------------
(* What the two ends do with the packet they read.                          *)

\* The client reads the first reply and handles it, or misreads it.
LEMMA ClientReadStep ==
    ASSUME SeqInv, ClientRead
    PROVE  /\ replies # <<>> /\ replies' = Tail(replies) /\ connection = "up" /\ InStep
           /\ UNCHANGED <<connection, connections, start, challengeTimer, heartbeat, wire, buffer>>
           /\ UNCHANGED <<serverMode, challenged, authenticated, cached>>
           /\ \/ /\ Head(replies).mode = clientMode /\ UNCHANGED misread
                 /\ \/ UNCHANGED <<clientMode, outgoing>> /\ Head(replies).op # "SMSG_AUTH_LOGON_PROOF"
                    \/ /\ Head(replies).op = "SMSG_AUTH_LOGON_CHALLENGE" /\ UNCHANGED clientMode
                       /\ send_packet(Packet("CMSG_AUTH_LOGON_PROOF", "AUTH"))
                    \/ /\ Head(replies).op = "SMSG_AUTH_LOGON_PROOF"
                       /\ clientMode' = "WORK" /\ UNCHANGED outgoing
              \/ /\ Head(replies).mode # clientMode /\ misread' = Head(replies)
                 /\ UNCHANGED <<clientMode, outgoing>>
           /\ disconnecting' = disconnecting \/ disconnecting' = TRUE
<1>1. /\ replies # <<>> /\ replies' = Tail(replies) /\ connection = "up" /\ InStep
      /\ UNCHANGED <<connection, connections, start, challengeTimer, heartbeat, wire, buffer>>
      /\ UNCHANGED <<serverMode, challenged, authenticated, cached>>
      BY DEF ClientRead, server, history
<1>2. CASE Head(replies).mode # clientMode
      BY <1>1, <1>2, Zenon DEF ClientRead
<1>3. CASE Head(replies).mode = clientMode
  <2>1. handle_packet(Head(replies)) /\ UNCHANGED misread
        BY <1>3, Zenon DEF ClientRead
  <2>2. disconnecting' = disconnecting \/ disconnecting' = TRUE
        BY <2>1, Zenon DEF handle_packet, disconnect
  <2>3. \/ UNCHANGED <<clientMode, outgoing>> /\ Head(replies).op # "SMSG_AUTH_LOGON_PROOF"
        \/ /\ Head(replies).op = "SMSG_AUTH_LOGON_CHALLENGE" /\ UNCHANGED clientMode
           /\ send_packet(Packet("CMSG_AUTH_LOGON_PROOF", "AUTH"))
        \/ /\ Head(replies).op = "SMSG_AUTH_LOGON_PROOF"
           /\ clientMode' = "WORK" /\ UNCHANGED outgoing
        BY <2>1 DEF handle_packet
  <2> QED BY <1>1, <1>3, <2>1, <2>2, <2>3, Zenon
<1> QED BY <1>2, <1>3, Zenon

\* dispatch() of the session's stage answers the request with at most one reply, in
\* the format of that stage.
LEMMA DispatchStep ==
    ASSUME NEW p, \/ serverMode = "AUTH" /\ dispatch_auth(p)
                  \/ serverMode = "WORK" /\ dispatch_work(p)
    PROVE  \/ UNCHANGED <<serverMode, replies>>
           \/ \E op \in {"SMSG_PONG", "SMSG_AUTH_RESPONSE"} : reply(op, serverMode) /\ UNCHANGED serverMode
           \/ /\ p.op = "CMSG_AUTH_LOGON_CHALLENGE" /\ serverMode = "AUTH"
              /\ reply("SMSG_AUTH_LOGON_CHALLENGE", "AUTH") /\ UNCHANGED serverMode
           \/ /\ p.op = "CMSG_AUTH_LOGON_PROOF" /\ serverMode = "AUTH"
              /\ reply("SMSG_AUTH_LOGON_PROOF", "AUTH") /\ serverMode' = "WORK"
<1>1. CASE serverMode = "WORK" /\ dispatch_work(p)
  <2>1. CASE handle_ping("WORK")
        BY <1>1, <2>1, Zenon DEF handle_ping, server
  <2>2. CASE UNCHANGED <<server, replies>>
        BY <2>2, Zenon DEF server
  <2> QED BY <1>1, <2>1, <2>2, Zenon DEF dispatch_work
<1>2. CASE serverMode = "AUTH" /\ dispatch_auth(p)
  <2>1. CASE handle_ping("AUTH")
        BY <1>2, <2>1, Zenon DEF handle_ping, server
  <2>2. CASE p.op = "CMSG_AUTH_LOGON_CHALLENGE" /\ handle_logon_challenge
        BY <1>2, <2>2, Zenon DEF handle_logon_challenge, server
  <2>3. CASE p.op = "CMSG_AUTH_LOGON_PROOF" /\ handle_logon_proof
        BY <1>2, <2>3, Zenon DEF handle_logon_proof
  <2> QED BY <1>2, <2>1, <2>2, <2>3, Zenon DEF dispatch_auth
<1> QED BY <1>1, <1>2

\* The flags of the session keep their types.
LEMMA DispatchFlags ==
    ASSUME NEW p, dispatch_auth(p) \/ dispatch_work(p),
           challenged \in BOOLEAN, authenticated \in BOOLEAN, cached \in BOOLEAN
    PROVE  challenged' \in BOOLEAN /\ authenticated' \in BOOLEAN /\ cached' \in BOOLEAN
<1>1. CASE UNCHANGED server
      BY <1>1, Zenon DEF server
<1>2. CASE handle_logon_challenge
      BY <1>2, Zenon DEF handle_logon_challenge, server
<1>3. CASE handle_logon_proof
      BY <1>3, Zenon DEF handle_logon_proof
<1> QED BY <1>1, <1>2, <1>3, Zenon DEF dispatch_auth, dispatch_work, handle_ping

----------------------------------------------------------------------------
(* The types.                                                               *)

\* The length of three sequences put together.
LEMMA ThreeLength ==
    \A b, w, o \in Seq(Requests) :
        b \o w \o o \in Seq(Requests) /\ Len(b \o w \o o) = Len(b) + Len(w) + Len(o) /\ Len(b \o w \o o) \in Nat
OBVIOUS

\* The packets in flight are counted along the way, before a step and after it.
LEMMA InFlightLength ==
    ASSUME SeqInv
    PROVE  InFlight = Len(Pending) + Len(replies) /\ Pending \in Seq(Requests) /\ Len(Pending) \in Nat /\ Len(replies) \in Nat
<1>1. /\ buffer \in Seq(Requests) /\ wire \in Seq(Requests) /\ outgoing \in Seq(Requests)
      /\ replies \in Seq(Replies)
      BY DEF SeqInv
<1>2. Pending \in Seq(Requests) /\ Len(Pending) = Len(buffer) + Len(wire) + Len(outgoing) /\ Len(Pending) \in Nat
      BY <1>1, ThreeLength, Zenon DEF Pending
<1>3. Len(buffer) \in Nat /\ Len(wire) \in Nat /\ Len(outgoing) \in Nat /\ Len(replies) \in Nat
      BY <1>1, LenProperties, Zenon
<1> QED BY <1>2, <1>3 DEF InFlight

\* The same after a step.
LEMMA InFlightLengthNext ==
    ASSUME SeqInv'
    PROVE  InFlight' = Len(Pending') + Len(replies') /\ Pending' \in Seq(Requests) /\ Len(Pending') \in Nat /\ Len(replies') \in Nat
<1>1. /\ buffer' \in Seq(Requests) /\ wire' \in Seq(Requests) /\ outgoing' \in Seq(Requests)
      /\ replies' \in Seq(Replies)
      BY DEF SeqInv
<1>2. Pending' \in Seq(Requests) /\ Len(Pending') = Len(buffer') + Len(wire') + Len(outgoing') /\ Len(Pending') \in Nat
      BY <1>1, ThreeLength, Zenon DEF Pending
<1>3. Len(buffer') \in Nat /\ Len(wire') \in Nat /\ Len(outgoing') \in Nat /\ Len(replies') \in Nat
      BY <1>1, LenProperties, Zenon
<1> QED BY <1>2, <1>3 DEF InFlight

\* The packets the client and the session make.
LEMMA PacketTypes ==
    /\ \A m \in Modes : Packet("CMSG_PING", m) \in Requests
    /\ Packet("CMSG_MESSAGE", "WORK") \in Requests
    /\ Packet("CMSG_AUTH_LOGON_CHALLENGE", "AUTH") \in Requests
    /\ Packet("CMSG_AUTH_LOGON_PROOF", "AUTH") \in Requests
    /\ \A m \in Modes : \A op \in {"SMSG_PONG", "SMSG_AUTH_LOGON_CHALLENGE", "SMSG_AUTH_LOGON_PROOF", "SMSG_AUTH_RESPONSE"} :
           Packet(op, m) \in Replies
    /\ "AUTH" \in Modes /\ "WORK" \in Modes
BY DEF Packet, Requests, Replies, Modes

\* A packet is sent only where there is room, and an answer takes the place of what
\* it answers.
LEMMA NextSize == FlowInv /\ serverMode \in Modes /\ InFlight <= MaxPackets /\ [Next]_vars => InFlight' <= MaxPackets
<1> SUFFICES ASSUME FlowInv, serverMode \in Modes, InFlight <= MaxPackets, [Next]_vars PROVE InFlight' <= MaxPackets
    OBVIOUS
<1>1. SeqInv /\ SeqInv' /\ clientMode \in Modes
      BY NextFlow, Zenon DEF FlowInv, ModesOK
<1>2. /\ InFlight = Len(Pending) + Len(replies) /\ Pending \in Seq(Requests)
      /\ Len(Pending) \in Nat /\ Len(replies) \in Nat
      BY <1>1, InFlightLength, Zenon
<1>3. /\ InFlight' = Len(Pending') + Len(replies') /\ Pending' \in Seq(Requests)
      /\ Len(Pending') \in Nat /\ Len(replies') \in Nat
      BY <1>1, InFlightLengthNext, Zenon
<1>4. MaxPackets \in Nat /\ replies \in Seq(Replies)
      BY <1>1, LogonAssumption DEF SeqInv
<1>5. ASSUME NEW p \in Requests, send_packet(p), UNCHANGED <<wire, buffer>> PROVE Len(Pending') = Len(Pending) + 1
  <2>1. Pending' = Append(Pending, p)
        BY <1>1, <1>5, SendPending, Zenon
  <2> QED BY <1>2, <2>1, AppendProperties, Zenon
<1>6. ASSUME replies # <<>>, replies' = Tail(replies) PROVE Len(replies') = Len(replies) - 1
      BY <1>4, <1>6, HeadTailProperties, Zenon
<1>7. ASSUME UNCHANGED <<outgoing, wire, buffer>> PROVE Pending' = Pending
      BY <1>7, Zenon DEF Pending
<1>8. CASE LogonChallenge \/ Heartbeat \/ send_message
  <2>1. InFlight < MaxPackets /\ UNCHANGED <<wire, buffer, replies>>
        BY <1>8, Zenon DEF LogonChallenge, Heartbeat, send_message, Room
  <2>2. \E p \in Requests : send_packet(p)
        BY <1>1, <1>8, PacketTypes, Zenon DEF LogonChallenge, Heartbeat, send_message
  <2>3. Len(Pending') = Len(Pending) + 1
        BY <1>5, <2>1, <2>2, Zenon
  <2> QED BY <1>2, <1>3, <1>4, <2>1, <2>3
<1>9. CASE ClientRead
  <2>1. replies # <<>> /\ replies' = Tail(replies) /\ UNCHANGED <<wire, buffer>>
        BY <1>1, <1>9, ClientReadStep, Zenon
  <2>2. UNCHANGED outgoing \/ send_packet(Packet("CMSG_AUTH_LOGON_PROOF", "AUTH"))
        BY <1>1, <1>9, ClientReadStep, Zenon
  <2>3. Len(Pending') = Len(Pending) \/ Len(Pending') = Len(Pending) + 1
        BY <1>5, <1>7, <2>1, <2>2, PacketTypes, Zenon
  <2>4. Len(replies') = Len(replies) - 1
        BY <1>6, <2>1, Zenon
  <2> QED BY <1>2, <1>3, <1>4, <2>3, <2>4
<1>10. CASE ServerRead
  <2>1. Pending # <<>> /\ Pending' = Tail(Pending)
        BY <1>1, <1>10, ReadPending, Zenon
  <2>2. Len(Pending') = Len(Pending) - 1
        BY <1>2, <2>1, HeadTailProperties, Zenon
  <2>3. \/ serverMode = "AUTH" /\ dispatch_auth(Head(Pending))
        \/ serverMode = "WORK" /\ dispatch_work(Head(Pending))
        \/ UNCHANGED <<server, replies>>
        BY <1>1, <1>10, ReadPending, Zenon
  <2>4. UNCHANGED replies \/ \E q \in Replies : replies' = Append(replies, q)
    <3>1. CASE UNCHANGED <<server, replies>>
          BY <3>1, Zenon
    <3>2. CASE \/ serverMode = "AUTH" /\ dispatch_auth(Head(Pending))
               \/ serverMode = "WORK" /\ dispatch_work(Head(Pending))
      <4>1. \/ UNCHANGED replies
            \/ \E op \in {"SMSG_PONG", "SMSG_AUTH_LOGON_CHALLENGE", "SMSG_AUTH_LOGON_PROOF", "SMSG_AUTH_RESPONSE"}, m \in Modes :
                  reply(op, m)
            BY <3>2, DispatchStep, PacketTypes, Zenon
      <4> QED BY <4>1, PacketTypes, Zenon DEF reply
    <3> QED BY <2>3, <3>1, <3>2, Zenon
  <2>5. Len(replies') = Len(replies) \/ Len(replies') = Len(replies) + 1
        BY <1>4, <2>4
  <2> QED BY <1>2, <1>3, <1>4, <2>2, <2>5
<1>11. CASE connect
  <2>1. Len(Pending') <= Len(Pending) /\ replies' = <<>>
        BY <1>1, <1>11, ConnectPending, Zenon DEF connect
  <2>2. Len(replies') = 0
        BY <2>1
  <2> QED BY <1>2, <1>3, <1>4, <2>1, <2>2
<1>12. CASE WriteCompletes \/ Disconnect \/ ConnectionLost \/ Signal \/ UNCHANGED vars
  <2>1. UNCHANGED replies
        BY <1>12, Zenon DEF WriteCompletes, Disconnect, ConnectionLost, Signal, vars
  <2>2. Pending' = Pending
    <3>1. CASE WriteCompletes
          BY <1>1, <3>1, WritePending, Zenon
    <3>2. CASE Disconnect \/ ConnectionLost \/ Signal \/ UNCHANGED vars
          BY <1>7, <3>2, Zenon DEF Disconnect, ConnectionLost, Signal, vars, client
    <3> QED BY <1>12, <3>1, <3>2, Zenon
  <2>3. Len(Pending') = Len(Pending) /\ Len(replies') = Len(replies)
        BY <2>1, <2>2, Zenon
  <2> QED BY <1>2, <1>3, <1>4, <2>3
<1> QED BY <1>8, <1>9, <1>10, <1>11, <1>12, Zenon DEF Next, Ended

\* The types that do not count packets.  The client makes another connection only
\* below the bound, and the model ends with a misread packet.
FlagTypes ==
    /\ connection \in {"connecting", "up", "down"}
    /\ serverMode \in Modes
    /\ challengeTimer \in BOOLEAN /\ heartbeat \in BOOLEAN /\ disconnecting \in BOOLEAN
    /\ challenged \in BOOLEAN /\ authenticated \in BOOLEAN /\ cached \in BOOLEAN

HistoryTypes ==
    /\ connections \in 0..MaxConnections
    /\ connection = "connecting" => connections < MaxConnections
    /\ start \in [mode : Modes, queue : SUBSET {p.op : p \in Requests}, timer : BOOLEAN]
    /\ misread \in Requests \cup Replies \cup {None}
    /\ ~InStep => connection = "up"

\* What the client brings is well-typed.
LEMMA BroughtType ==
    ASSUME outgoing \in Seq(Requests), clientMode \in Modes, challengeTimer \in BOOLEAN
    PROVE  Brought \in [mode : Modes, queue : SUBSET {p.op : p \in Requests}, timer : BOOLEAN]
<1>1. \A i \in DOMAIN outgoing : outgoing[i] \in Requests
      OBVIOUS
<1>2. {outgoing[i].op : i \in DOMAIN outgoing} \subseteq {p.op : p \in Requests}
      BY <1>1, Zenon
<1> QED BY <1>2 DEF Brought

\* At the start they hold.
LEMMA InitTypes == Init => FlagTypes /\ HistoryTypes /\ InFlight <= MaxPackets
<1> SUFFICES ASSUME Init PROVE FlagTypes /\ HistoryTypes /\ InFlight <= MaxPackets
    OBVIOUS
<1>1. FlagTypes
      BY Zenon DEF Init, FlagTypes, Modes
<1>2. MaxConnections \in Nat \ {0} /\ MaxPackets \in Nat \ {0}
      BY LogonAssumption, Zenon
<1>3. outgoing \in Seq(Requests) /\ clientMode \in Modes /\ challengeTimer \in BOOLEAN
      BY DEF Init, Modes
<1>4. start \in [mode : Modes, queue : SUBSET {p.op : p \in Requests}, timer : BOOLEAN]
      BY <1>3, BroughtType, Zenon DEF Init
<1>5. connections = 0 /\ misread = None
      BY Zenon DEF Init
<1>6. HistoryTypes
  <2>1. connections \in 0..MaxConnections /\ connections < MaxConnections
        BY <1>2, <1>5
  <2> QED BY <1>4, <1>5, <2>1, Zenon DEF HistoryTypes, InStep
<1>7. InFlight = 0
      BY DEF Init, InFlight
<1> QED BY <1>1, <1>2, <1>6, <1>7

\* Every step keeps the modes and the flags.
LEMMA NextFlags == FlowInv /\ FlagTypes /\ [Next]_vars => FlagTypes'
<1> SUFFICES ASSUME FlowInv, FlagTypes, [Next]_vars PROVE FlagTypes'
    OBVIOUS
<1>1. SeqInv
      BY Zenon DEF FlowInv
<1>2. CASE connect
      BY <1>2, Zenon DEF FlagTypes, connect, Modes
<1>3. CASE LogonChallenge \/ Heartbeat \/ send_message \/ WriteCompletes \/ UNCHANGED vars
      BY <1>3, Zenon DEF FlagTypes, LogonChallenge, Heartbeat, send_message, WriteCompletes, vars, server, client
<1>4. CASE ClientRead
  <2>1. /\ UNCHANGED <<connection, challengeTimer, heartbeat, serverMode, challenged, authenticated, cached>>
        /\ disconnecting' = disconnecting \/ disconnecting' = TRUE
        BY <1>1, <1>4, ClientReadStep, Zenon
  <2> QED BY <2>1, Zenon DEF FlagTypes
<1>5. CASE Disconnect
      BY <1>5, Zenon DEF FlagTypes, Disconnect, schedule_reconnect, server
<1>6. CASE ConnectionLost
      BY <1>6, Zenon DEF FlagTypes, ConnectionLost, schedule_reconnect, server, client
<1>7. CASE Signal
      BY <1>7, Zenon DEF FlagTypes, Signal, server
<1>8. CASE ServerRead
  <2>1. UNCHANGED <<connection, challengeTimer, heartbeat, disconnecting>>
        BY <1>8, Zenon DEF ServerRead, client
  <2>2. CASE UNCHANGED <<server, replies>>
        BY <2>1, <2>2, Zenon DEF FlagTypes, server
  <2>3. CASE \/ serverMode = "AUTH" /\ dispatch_auth(Head(Pending))
             \/ serverMode = "WORK" /\ dispatch_work(Head(Pending))
    <3>1. serverMode' = serverMode \/ serverMode' = "WORK"
          BY <2>3, DispatchStep, Zenon
    <3>2. challenged' \in BOOLEAN /\ authenticated' \in BOOLEAN /\ cached' \in BOOLEAN
          BY <2>3, DispatchFlags, Zenon DEF FlagTypes
    <3> QED BY <2>1, <3>1, <3>2, PacketTypes, Zenon DEF FlagTypes
  <2> QED BY <1>1, <1>8, <2>2, <2>3, ReadPending, Zenon
<1> QED BY <1>2, <1>3, <1>4, <1>5, <1>6, <1>7, <1>8, Zenon DEF Next, Ended

\* Every step keeps the history.
LEMMA NextHistory == FlowInv /\ FlagTypes /\ HistoryTypes /\ [Next]_vars => HistoryTypes'
<1> SUFFICES ASSUME FlowInv, FlagTypes, HistoryTypes, [Next]_vars PROVE HistoryTypes'
    OBVIOUS
<1>1. SeqInv /\ clientMode \in Modes /\ challengeTimer \in BOOLEAN
      BY Zenon DEF FlowInv, ModesOK, FlagTypes
<1>2. MaxConnections \in Nat
      BY LogonAssumption
<1>3. CASE connect
  <2>1. connections' \in 0..MaxConnections
        BY <1>2, <1>3 DEF connect, HistoryTypes
  <2>2. start' \in [mode : Modes, queue : SUBSET {p.op : p \in Requests}, timer : BOOLEAN]
        BY <1>1, <1>3, BroughtType, Zenon DEF connect, SeqInv
  <2>3. connection' = "up" /\ misread' = misread
        BY <1>3, Zenon DEF connect
  <2> QED BY <2>1, <2>2, <2>3, Zenon DEF HistoryTypes
<1>4. CASE /\ UNCHANGED <<connections, start, misread>>
           /\ UNCHANGED connection \/ connection' # "connecting" \/ schedule_reconnect
           /\ UNCHANGED connection \/ InStep
  <2>1. connection' = "connecting" => connections < MaxConnections
        BY <1>4, Zenon DEF HistoryTypes, schedule_reconnect
  <2>2. InStep' <=> InStep
        BY <1>4, Zenon DEF InStep
  <2> QED BY <1>4, <2>1, <2>2, Zenon DEF HistoryTypes
<1>5. CASE /\ UNCHANGED <<connections, start, connection>>
           /\ connection = "up" /\ misread' \in Requests \cup Replies \cup {None}
      BY <1>5, Zenon DEF HistoryTypes
<1>6. CASE LogonChallenge \/ Heartbeat \/ send_message \/ WriteCompletes \/ UNCHANGED vars
      BY <1>4, <1>6, Zenon DEF LogonChallenge, Heartbeat, send_message, WriteCompletes, vars, history
<1>7. CASE Disconnect \/ ConnectionLost \/ Signal
      BY <1>4, <1>7, Zenon DEF Disconnect, ConnectionLost, Signal, history
<1>8. CASE ClientRead
  <2>1. /\ UNCHANGED <<connections, start, connection>> /\ connection = "up"
        /\ replies # <<>> /\ misread' \in {misread, Head(replies)}
        BY <1>1, <1>8, ClientReadStep, Zenon
  <2>2. Head(replies) \in Replies
        BY <1>1, <2>1, HeadTailProperties, Zenon DEF SeqInv
  <2> QED BY <1>5, <2>1, <2>2, Zenon DEF HistoryTypes
<1>9. CASE ServerRead
  <2>1. UNCHANGED <<connections, start, connection>> /\ connection = "up"
        BY <1>9, Zenon DEF ServerRead, history
  <2>2. Pending \in Seq(Requests) /\ Pending # <<>> /\ misread' \in {misread, Head(Pending)}
        BY <1>1, <1>9, ReadPending, Zenon
  <2>3. Head(Pending) \in Requests
        BY <2>2, HeadTailProperties, Zenon
  <2> QED BY <1>5, <2>1, <2>2, <2>3, Zenon DEF HistoryTypes
<1> QED BY <1>3, <1>6, <1>7, <1>8, <1>9, Zenon DEF Next, Ended

TypeInv == FlowInv /\ FlagTypes /\ HistoryTypes /\ InFlight <= MaxPackets

\* Every step keeps all of it.
LEMMA NextTypes == TypeInv /\ [Next]_vars => TypeInv'
BY NextFlow, NextFlags, NextHistory, NextSize, Zenon DEF TypeInv, FlagTypes

\* The variables have their types over any number of connections, and the packets in
\* flight between Client.cpp and ClientSession.cpp stay within their bound: every answer
\* takes the place of a packet.
THEOREM LogonTypes == Spec => []TypeOK
<1>1. Init => TypeInv
      BY InitFlow, InitTypes, Zenon DEF TypeInv
<1>2. TypeInv => TypeOK
      BY Zenon DEF TypeInv, FlowInv, SeqInv, ModesOK, FlagTypes, HistoryTypes, TypeOK
<1> QED BY <1>1, <1>2, NextTypes, PTL DEF Spec

----------------------------------------------------------------------------
(* The formats agree.                                                       *)

\* timer1, the packets of a logon and the server's challenge are one token: at most
\* one of them exists, and none once the session is in the work stage.
TokenInv ==
    /\ Alone(Pending, Logons)
    /\ Alone(replies, {"SMSG_AUTH_LOGON_CHALLENGE"})
    /\ challengeTimer \/ "SMSG_AUTH_LOGON_CHALLENGE" \in OpsOf(replies) \/ serverMode = "WORK" =>
           OpsOf(Pending) \cap Logons = {}
    /\ challengeTimer \/ serverMode = "WORK" => "SMSG_AUTH_LOGON_CHALLENGE" \notin OpsOf(replies)
    /\ serverMode = "WORK" => ~challengeTimer

\* A client that began the connection in the first stage finds every reply in its
\* format, and the proof is still to come if only the session is in the work stage.
ReplyInv ==
    start.mode = "AUTH" =>
        /\ RepliesFit(replies, clientMode)
        /\ serverMode = "WORK" => clientMode = "WORK" \/ "SMSG_AUTH_LOGON_PROOF" \in OpsOf(replies)

\* No step but those of a logon moves the token.
LEMMA TokenFrame ==
    ASSUME TokenInv, Alone(Pending', Logons), Alone(replies', {"SMSG_AUTH_LOGON_CHALLENGE"}),
           OpsOf(Pending') \cap Logons \subseteq OpsOf(Pending),
           "SMSG_AUTH_LOGON_CHALLENGE" \in OpsOf(replies') => "SMSG_AUTH_LOGON_CHALLENGE" \in OpsOf(replies),
           challengeTimer' => challengeTimer, serverMode' = "WORK" => serverMode = "WORK"
    PROVE  TokenInv'
<1>1. OpsOf(Pending) \cap Logons = {} => OpsOf(Pending') \cap Logons = {}
      BY Zenon
<1> QED BY <1>1, Zenon DEF TokenInv

\* A request that is not of a logon joins the others.
LEMMA OtherRequestToken ==
    ASSUME TokenInv, Pending \in Seq(Requests), NEW p \in Requests, p.op \notin Logons, Pending' = Append(Pending, p),
           UNCHANGED <<replies, challengeTimer, serverMode>>
    PROVE  TokenInv'
<1>1. Alone(Pending', Logons)
      BY AppendAlone, Zenon DEF TokenInv
<1>2. OpsOf(Pending') = OpsOf(Pending) \cup {p.op}
      BY AppendOps, Zenon
<1> QED BY <1>1, <1>2, TokenFrame, Zenon DEF TokenInv

\* timer1 turns into the challenge.
LEMMA ChallengeToken ==
    ASSUME TokenInv, SeqInv, LogonChallenge
    PROVE  TokenInv'
<1> DEFINE p == Packet("CMSG_AUTH_LOGON_CHALLENGE", "AUTH")
<1>1. challengeTimer /\ challengeTimer' = FALSE /\ UNCHANGED <<replies, serverMode>>
      BY Zenon DEF LogonChallenge, server
<1>2. p \in Requests /\ send_packet(p) /\ UNCHANGED <<wire, buffer>>
      BY PacketTypes, Zenon DEF LogonChallenge
<1> HIDE DEF p
<1>3. Pending \in Seq(Requests) /\ Pending' = Append(Pending, p)
      BY <1>2, SendPending, Zenon
<1>4. Alone(Pending', Logons)
      BY <1>1, <1>2, <1>3, AppendAlone, Zenon DEF TokenInv
<1>5. "SMSG_AUTH_LOGON_CHALLENGE" \notin OpsOf(replies) /\ serverMode # "WORK"
      BY <1>1, Zenon DEF TokenInv
<1> QED BY <1>1, <1>4, <1>5, Zenon DEF TokenInv

\* The client answers the challenge with the proof.
LEMMA ClientReadToken ==
    ASSUME TokenInv, SeqInv, ClientRead
    PROVE  TokenInv'
<1>1. /\ replies # <<>> /\ replies' = Tail(replies)
      /\ UNCHANGED <<challengeTimer, serverMode, wire, buffer>>
      BY ClientReadStep, Zenon
<1>2. /\ Alone(replies', {"SMSG_AUTH_LOGON_CHALLENGE"}) /\ OpsOf(replies') \subseteq OpsOf(replies)
      /\ Head(replies).op \in OpsOf(replies)
      /\ Head(replies).op = "SMSG_AUTH_LOGON_CHALLENGE" => "SMSG_AUTH_LOGON_CHALLENGE" \notin OpsOf(replies')
  <2>1. replies \in Seq(Replies) /\ Alone(replies, {"SMSG_AUTH_LOGON_CHALLENGE"})
        BY Zenon DEF SeqInv, TokenInv
  <2>2. /\ Alone(replies', {"SMSG_AUTH_LOGON_CHALLENGE"})
        /\ Head(replies).op \in {"SMSG_AUTH_LOGON_CHALLENGE"} => OpsOf(replies') \cap {"SMSG_AUTH_LOGON_CHALLENGE"} = {}
        BY <1>1, <2>1, TailAlone, Zenon
  <2>3. OpsOf(replies') \subseteq OpsOf(replies) /\ Head(replies).op \in OpsOf(replies)
        BY <1>1, <2>1, TailOps, Zenon
  <2> QED BY <2>2, <2>3, Zenon
<1>3. CASE UNCHANGED outgoing
  <2>1. Pending' = Pending
        BY <1>1, <1>3, Zenon DEF Pending
  <2> QED BY <1>1, <1>2, <2>1, TokenFrame, Zenon DEF TokenInv
<1>4. CASE /\ Head(replies).op = "SMSG_AUTH_LOGON_CHALLENGE"
           /\ send_packet(Packet("CMSG_AUTH_LOGON_PROOF", "AUTH"))
  <2>1. Pending \in Seq(Requests) /\ Pending' = Append(Pending, Packet("CMSG_AUTH_LOGON_PROOF", "AUTH"))
        BY <1>1, <1>4, SendPending, PacketTypes, Zenon
  <2>2. "SMSG_AUTH_LOGON_CHALLENGE" \in OpsOf(replies) /\ "SMSG_AUTH_LOGON_CHALLENGE" \notin OpsOf(replies')
        BY <1>2, <1>4, Zenon
  <2>3. OpsOf(Pending) \cap Logons = {} /\ ~challengeTimer /\ serverMode # "WORK"
        BY <2>2, Zenon DEF TokenInv
  <2>4. Alone(Pending', Logons)
        BY <2>1, <2>3, AppendAlone, PacketTypes, Zenon DEF TokenInv
  <2> QED BY <1>1, <1>2, <2>2, <2>3, <2>4, Zenon DEF TokenInv
<1> QED BY <1>3, <1>4, ClientReadStep, Zenon

\* The session takes the challenge or the proof and answers it.
LEMMA ServerReadToken ==
    ASSUME TokenInv, SeqInv, serverMode \in Modes, ServerRead
    PROVE  TokenInv'
<1>1. Pending \in Seq(Requests) /\ Pending # <<>> /\ Pending' = Tail(Pending) /\ UNCHANGED challengeTimer
      BY ReadPending, Zenon DEF ServerRead, client
<1>2. /\ Alone(Pending', Logons) /\ (Head(Pending).op \in Logons => OpsOf(Pending') \cap Logons = {})
      /\ OpsOf(Pending') \subseteq OpsOf(Pending) /\ Head(Pending).op \in OpsOf(Pending)
      BY <1>1, TailAlone, TailOps, Zenon DEF TokenInv
<1>3. replies \in Seq(Replies) /\ Alone(replies, {"SMSG_AUTH_LOGON_CHALLENGE"})
      BY Zenon DEF SeqInv, TokenInv
<1>4. ASSUME NEW op \in {"SMSG_PONG", "SMSG_AUTH_LOGON_CHALLENGE", "SMSG_AUTH_LOGON_PROOF", "SMSG_AUTH_RESPONSE"},
             NEW m \in Modes, reply(op, m)
      PROVE  /\ OpsOf(replies') = OpsOf(replies) \cup {op}
             /\ op # "SMSG_AUTH_LOGON_CHALLENGE" \/ "SMSG_AUTH_LOGON_CHALLENGE" \notin OpsOf(replies) =>
                   Alone(replies', {"SMSG_AUTH_LOGON_CHALLENGE"})
  <2>1. PICK q \in Replies : q.op = op /\ replies' = Append(replies, q)
        BY <1>4, PacketTypes, Zenon DEF Packet, reply
  <2>2. OpsOf(replies') = OpsOf(replies) \cup {op}
        BY <1>3, <2>1, AppendOps
  <2>3. ASSUME op # "SMSG_AUTH_LOGON_CHALLENGE" \/ "SMSG_AUTH_LOGON_CHALLENGE" \notin OpsOf(replies)
        PROVE  Alone(replies', {"SMSG_AUTH_LOGON_CHALLENGE"})
    <3>1. op \notin {"SMSG_AUTH_LOGON_CHALLENGE"} \/ OpsOf(replies) \cap {"SMSG_AUTH_LOGON_CHALLENGE"} = {}
          BY <2>3, Zenon
    <3> QED BY <1>3, <2>1, <3>1, AppendAlone, Zenon
  <2> QED BY <2>2, <2>3, Zenon
<1>5. CASE UNCHANGED <<serverMode, replies>>
      BY <1>1, <1>2, <1>3, <1>5, TokenFrame, Zenon
<1>6. CASE \E op \in {"SMSG_PONG", "SMSG_AUTH_RESPONSE"} : reply(op, serverMode) /\ UNCHANGED serverMode
  <2>1. /\ Alone(replies', {"SMSG_AUTH_LOGON_CHALLENGE"}) /\ UNCHANGED serverMode
        /\ "SMSG_AUTH_LOGON_CHALLENGE" \in OpsOf(replies') => "SMSG_AUTH_LOGON_CHALLENGE" \in OpsOf(replies)
        BY <1>4, <1>6
  <2> QED BY <1>1, <1>2, <2>1, TokenFrame, Zenon
<1>7. ASSUME Head(Pending).op \in Logons
      PROVE  /\ OpsOf(Pending') \cap Logons = {} /\ ~challengeTimer'
             /\ "SMSG_AUTH_LOGON_CHALLENGE" \notin OpsOf(replies)
      BY <1>1, <1>2, <1>7, Zenon DEF TokenInv
<1>8. CASE /\ Head(Pending).op = "CMSG_AUTH_LOGON_CHALLENGE" /\ serverMode = "AUTH"
           /\ reply("SMSG_AUTH_LOGON_CHALLENGE", "AUTH") /\ UNCHANGED serverMode
  <2>1. Head(Pending).op \in Logons
        BY <1>8, Zenon DEF Logons
  <2>2. Alone(replies', {"SMSG_AUTH_LOGON_CHALLENGE"})
        BY <1>4, <1>7, <1>8, <2>1, PacketTypes, Zenon
  <2>3. serverMode' # "WORK"
        BY <1>8
  <2> QED BY <1>2, <1>7, <2>1, <2>2, <2>3, Zenon DEF TokenInv
<1>9. CASE /\ Head(Pending).op = "CMSG_AUTH_LOGON_PROOF" /\ serverMode = "AUTH"
           /\ reply("SMSG_AUTH_LOGON_PROOF", "AUTH") /\ serverMode' = "WORK"
  <2>1. Head(Pending).op \in Logons
        BY <1>9, Zenon DEF Logons
  <2>2. Alone(replies', {"SMSG_AUTH_LOGON_CHALLENGE"}) /\ "SMSG_AUTH_LOGON_CHALLENGE" \notin OpsOf(replies')
        BY <1>4, <1>7, <1>9, <2>1, PacketTypes
  <2> QED BY <1>2, <1>7, <2>1, <2>2, Zenon DEF TokenInv
<1>10. \/ serverMode = "AUTH" /\ dispatch_auth(Head(Pending))
       \/ serverMode = "WORK" /\ dispatch_work(Head(Pending))
       \/ UNCHANGED <<serverMode, replies>>
      BY ReadPending, Zenon DEF server
<1> QED BY <1>5, <1>6, <1>8, <1>9, <1>10, DispatchStep, Zenon

\* What is left of a sequence after its beginning is dropped.
LEMMA SuffixKeeps ==
    ASSUME NEW s, NEW u, NEW n \in Nat, \A i \in DOMAIN u : n + i \in DOMAIN s /\ u[i] = s[n + i],
           \A i \in DOMAIN u : i \in Nat,
           NEW m, RequestsFit(s, m), NEW O, Alone(s, O)
    PROVE  RequestsFit(u, m) /\ Alone(u, O) /\ OpsOf(u) \subseteq OpsOf(s)
<1>1. RequestsFit(u, m)
      BY DEF RequestsFit
<1>2. Alone(u, O)
  <2> SUFFICES ASSUME NEW i \in DOMAIN u, NEW j \in DOMAIN u, u[i].op \in O, u[j].op \in O PROVE i = j
      BY Zenon DEF Alone
  <2>1. n + i = n + j
        BY DEF Alone
  <2> QED BY <2>1
<1>3. OpsOf(u) \subseteq OpsOf(s)
      BY DEF OpsOf
<1> QED BY <1>1, <1>2, <1>3

FormatInv ==
    /\ TokenInv /\ ReplyInv /\ FormatsAgree
    /\ RequestsFit(Pending, clientMode)

\* Nothing is misread yet.
LEMMA NoneMisread == misread' = None => FormatsAgree'
BY NoneAssumption DEF FormatsAgree

\* No reply is a request.
LEMMA PacketsDiffer == \A p \in Requests : p \notin Replies
<1> SUFFICES ASSUME NEW p \in Requests, p \in Replies PROVE FALSE
    OBVIOUS
<1>1. p.op \in {"CMSG_PING", "CMSG_AUTH_LOGON_CHALLENGE", "CMSG_AUTH_LOGON_PROOF", "CMSG_MESSAGE"}
      BY DEF Requests
<1>2. p.op \in {"SMSG_PONG", "SMSG_AUTH_LOGON_CHALLENGE", "SMSG_AUTH_LOGON_PROOF", "SMSG_AUTH_RESPONSE"}
      BY DEF Replies
<1> QED BY <1>1, <1>2

\* A new connection begins with the client's queue, in a session of the first stage.
LEMMA ConnectFormat ==
    ASSUME TypeInv, FormatInv, connect
    PROVE  FormatInv'
<1>1. /\ replies' = <<>> /\ serverMode' = "AUTH" /\ misread' = misread /\ start' = Brought
      /\ UNCHANGED <<clientMode, challengeTimer>> /\ connection = "connecting"
      BY Zenon DEF connect
<1>2. misread = None
      BY <1>1 DEF TypeInv, HistoryTypes, InStep
<1>3. SeqInv /\ outgoing \in Seq(Requests)
      BY Zenon DEF TypeInv, FlowInv, SeqInv
<1>4. Pending' = outgoing
      BY <1>3, ConnectPending, Zenon
<1>5. PICK n \in Nat : \A i \in DOMAIN outgoing : n + i \in DOMAIN Pending /\ outgoing[i] = Pending[n + i]
      BY <1>3, ConnectPending, Zenon
<1>6. \A i \in DOMAIN outgoing : i \in Nat
      BY <1>3
<1>7. RequestsFit(outgoing, clientMode) /\ Alone(outgoing, Logons) /\ OpsOf(outgoing) \subseteq OpsOf(Pending)
      BY <1>5, <1>6, SuffixKeeps, Zenon DEF FormatInv, TokenInv
<1>8. OpsOf(replies') = {}
      BY <1>1, EmptyOps, Zenon
<1>9. Alone(replies', {"SMSG_AUTH_LOGON_CHALLENGE"}) /\ RepliesFit(replies', clientMode')
      BY <1>1 DEF Alone, RepliesFit
<1>10. serverMode' # "WORK"
      BY <1>1
<1>11. TokenInv'
      BY <1>1, <1>4, <1>7, <1>8, <1>9, <1>10, TokenFrame, Zenon DEF FormatInv
<1>12. ReplyInv'
      BY <1>9, <1>10, Zenon DEF ReplyInv
<1> QED BY <1>1, <1>2, <1>4, <1>7, <1>11, <1>12, NoneMisread, Zenon DEF FormatInv

\* The client sends a packet of its own.
LEMMA SendFormat ==
    ASSUME TypeInv, FormatInv, LogonChallenge \/ Heartbeat \/ send_message
    PROVE  FormatInv'
<1>1. /\ UNCHANGED <<wire, buffer, replies, clientMode, serverMode, start, misread>> /\ misread = None
      BY Zenon DEF LogonChallenge, Heartbeat, send_message, history, server, InStep
<1>2. SeqInv /\ clientMode \in Modes
      BY Zenon DEF TypeInv, FlowInv, ModesOK
<1>3. PICK p \in Requests :
          /\ send_packet(p)
          /\ p.mode = "WORK" => clientMode = "WORK"
          /\ p.op = "CMSG_MESSAGE" => p.mode = "WORK"
          /\ (p.op \notin Logons /\ UNCHANGED challengeTimer) \/ LogonChallenge
  <2>1. CASE LogonChallenge
    <3>1. send_packet(Packet("CMSG_AUTH_LOGON_CHALLENGE", "AUTH"))
          BY <2>1, Zenon DEF LogonChallenge
    <3>2. /\ Packet("CMSG_AUTH_LOGON_CHALLENGE", "AUTH").mode = "AUTH"
          /\ Packet("CMSG_AUTH_LOGON_CHALLENGE", "AUTH").op = "CMSG_AUTH_LOGON_CHALLENGE"
          BY DEF Packet
    <3>3. "AUTH" # "WORK" /\ "CMSG_AUTH_LOGON_CHALLENGE" # "CMSG_MESSAGE"
          OBVIOUS
    <3> QED BY <2>1, <3>1, <3>2, <3>3, PacketTypes, Zenon
  <2>2. CASE Heartbeat
    <3>1. send_packet(Packet("CMSG_PING", clientMode)) /\ UNCHANGED challengeTimer
          BY <2>2, Zenon DEF Heartbeat
    <3>2. Packet("CMSG_PING", clientMode).mode = clientMode /\ Packet("CMSG_PING", clientMode).op = "CMSG_PING"
          BY DEF Packet
    <3>3. "CMSG_PING" \notin Logons /\ "CMSG_PING" # "CMSG_MESSAGE"
          BY DEF Logons
    <3> QED BY <1>2, <3>1, <3>2, <3>3, PacketTypes, Zenon
  <2>3. CASE send_message
    <3>1. send_packet(Packet("CMSG_MESSAGE", "WORK")) /\ UNCHANGED challengeTimer /\ clientMode = "WORK"
          BY <2>3, Zenon DEF send_message
    <3>2. Packet("CMSG_MESSAGE", "WORK").mode = "WORK" /\ Packet("CMSG_MESSAGE", "WORK").op = "CMSG_MESSAGE"
          BY DEF Packet
    <3>3. "CMSG_MESSAGE" \notin Logons
          BY DEF Logons
    <3> QED BY <3>1, <3>2, <3>3, PacketTypes, Zenon
  <2> QED BY <2>1, <2>2, <2>3, Zenon
<1>4. Pending \in Seq(Requests) /\ Pending' = Append(Pending, p)
      BY <1>1, <1>2, <1>3, SendPending, Zenon
<1>5. RequestsFit(Pending', clientMode')
      BY <1>1, <1>3, <1>4, FitAppend, Zenon DEF FormatInv
<1>6. TokenInv'
      BY <1>1, <1>2, <1>3, <1>4, OtherRequestToken, ChallengeToken, Zenon DEF FormatInv
<1>7. ReplyInv'
      BY <1>1, Zenon DEF FormatInv, ReplyInv
<1> QED BY <1>1, <1>5, <1>6, <1>7, NoneMisread, Zenon DEF FormatInv

\* A step that moves packets on, or only ends the connection.
LEMMA FormatFrame ==
    ASSUME FormatInv, Pending' = Pending,
           UNCHANGED <<replies, clientMode, challengeTimer, serverMode, authenticated, start, misread>>
    PROVE  FormatInv'
<1>1. TokenInv'
      BY TokenFrame, Zenon DEF FormatInv, TokenInv
<1>2. ReplyInv'
      BY Zenon DEF FormatInv, ReplyInv
<1>3. FormatsAgree'
      BY Zenon DEF FormatInv, FormatsAgree
<1> QED BY <1>1, <1>2, <1>3, Zenon DEF FormatInv

\* The client reads a reply.
LEMMA ClientReadFormat ==
    ASSUME TypeInv, FormatInv, ClientRead
    PROVE  FormatInv'
<1>1. /\ replies # <<>> /\ replies' = Tail(replies) /\ misread = None
      /\ UNCHANGED <<wire, buffer, serverMode, start>>
      /\ \/ /\ Head(replies).mode = clientMode /\ UNCHANGED misread
            /\ \/ UNCHANGED <<clientMode, outgoing>> /\ Head(replies).op # "SMSG_AUTH_LOGON_PROOF"
               \/ /\ Head(replies).op = "SMSG_AUTH_LOGON_CHALLENGE" /\ UNCHANGED clientMode
                  /\ send_packet(Packet("CMSG_AUTH_LOGON_PROOF", "AUTH"))
               \/ /\ Head(replies).op = "SMSG_AUTH_LOGON_PROOF"
                  /\ clientMode' = "WORK" /\ UNCHANGED outgoing
         \/ /\ Head(replies).mode # clientMode /\ misread' = Head(replies)
            /\ UNCHANGED <<clientMode, outgoing>>
      BY ClientReadStep, Zenon DEF TypeInv, FlowInv, InStep
<1>2. SeqInv /\ replies \in Seq(Replies) /\ clientMode \in Modes /\ Pending \in Seq(Requests)
      BY InFlightLength, Zenon DEF TypeInv, FlowInv, SeqInv, ModesOK
<1>3. TokenInv'
      BY <1>2, ClientReadToken, Zenon DEF FormatInv
<1>4. RequestsFit(Pending', clientMode')
  <2>1. RequestsFit(Pending, clientMode')
        BY <1>1, Zenon DEF FormatInv, RequestsFit
  <2>2. CASE UNCHANGED outgoing
    <3>1. Pending' = Pending
          BY <1>1, <2>2, Zenon DEF Pending
    <3> QED BY <2>1, <3>1, Zenon
  <2>3. CASE send_packet(Packet("CMSG_AUTH_LOGON_PROOF", "AUTH"))
    <3>1. PICK p \in Requests : send_packet(p) /\ p.mode = "AUTH" /\ p.op = "CMSG_AUTH_LOGON_PROOF"
          BY <2>3, PacketTypes, Zenon DEF Packet
    <3>2. Pending' = Append(Pending, p)
          BY <1>1, <1>2, <3>1, SendPending, Zenon
    <3>3. p.mode # "WORK" /\ p.op # "CMSG_MESSAGE"
          BY <3>1
    <3> QED BY <1>2, <2>1, <3>2, <3>3, FitAppend, Zenon
  <2> QED BY <1>1, <2>2, <2>3, Zenon
<1>5. ASSUME start.mode = "AUTH"
      PROVE  /\ UNCHANGED misread /\ RepliesFit(replies', clientMode')
             /\ serverMode' = "WORK" => clientMode' = "WORK" \/ "SMSG_AUTH_LOGON_PROOF" \in OpsOf(replies')
  <2>1. /\ RepliesFit(replies, clientMode)
        /\ serverMode = "WORK" => clientMode = "WORK" \/ "SMSG_AUTH_LOGON_PROOF" \in OpsOf(replies)
        BY <1>5, Zenon DEF FormatInv, ReplyInv
  <2>2. /\ Head(replies).mode = clientMode
        /\ Head(replies).op = "SMSG_AUTH_LOGON_PROOF" => RepliesFit(replies', "WORK")
        /\ Head(replies).op # "SMSG_AUTH_LOGON_PROOF" => /\ RepliesFit(replies', clientMode)
                                                         /\ OpsOf(replies) \subseteq OpsOf(replies') \cup {Head(replies).op}
        BY <1>1, <1>2, <2>1, FitRead, Zenon
  <2>3. CASE Head(replies).op = "SMSG_AUTH_LOGON_PROOF"
        BY <1>1, <2>2, <2>3
  <2>4. CASE Head(replies).op # "SMSG_AUTH_LOGON_PROOF"
    <3>1. UNCHANGED <<clientMode, misread>>
          BY <1>1, <2>2, <2>4, Zenon
    <3>2. "SMSG_AUTH_LOGON_PROOF" \in OpsOf(replies) => "SMSG_AUTH_LOGON_PROOF" \in OpsOf(replies')
          BY <2>2, <2>4, Zenon
    <3> QED BY <1>1, <2>1, <2>2, <2>4, <3>1, <3>2, Zenon
  <2> QED BY <2>3, <2>4, Zenon
<1>6. ReplyInv'
      BY <1>1, <1>5, Zenon DEF ReplyInv
<1>7. FormatsAgree'
  <2>1. CASE misread' = None
        BY <2>1, NoneMisread, Zenon
  <2>2. CASE misread' = Head(replies)
    <3>1. Head(replies) \in Replies
          BY <1>1, <1>2, HeadTailProperties, Zenon
    <3>2. misread' # None
          BY <2>2, <3>1, NoneAssumption, Zenon
    <3>3. start.mode # "AUTH"
          BY <1>1, <1>5, <3>2, Zenon
    <3>4. start.mode \in Modes
          BY DEF TypeInv, HistoryTypes
    <3>5. start'.mode = "WORK"
          BY <1>1, <3>3, <3>4 DEF Modes
    <3> QED BY <2>2, <3>1, <3>5, PacketsDiffer, Zenon DEF FormatsAgree
  <2> QED BY <1>1, <2>1, <2>2, Zenon
<1> QED BY <1>3, <1>4, <1>6, <1>7, Zenon DEF FormatInv

\* The session's replies are in the format the client will be in when it reads them.
LEMMA ServerReplies ==
    ASSUME TypeInv, FormatInv, ServerRead
    PROVE  ReplyInv'
<1> SUFFICES ASSUME start.mode = "AUTH"
    PROVE  /\ RepliesFit(replies', clientMode)
           /\ serverMode' = "WORK" => clientMode = "WORK" \/ "SMSG_AUTH_LOGON_PROOF" \in OpsOf(replies')
    BY Zenon DEF ServerRead, client, history, ReplyInv
<1>1. SeqInv /\ replies \in Seq(Replies) /\ serverMode \in Modes
      BY Zenon DEF TypeInv, FlowInv, SeqInv, FlagTypes
<1>2. /\ RepliesFit(replies, clientMode)
      /\ serverMode = "WORK" => clientMode = "WORK" \/ "SMSG_AUTH_LOGON_PROOF" \in OpsOf(replies)
      BY Zenon DEF FormatInv, ReplyInv
<1>3. serverMode = "AUTH" => clientMode # "WORK" /\ "SMSG_AUTH_LOGON_PROOF" \notin OpsOf(replies)
  <2>1. "AUTH" # "WORK"
        OBVIOUS
  <2> QED BY <2>1, Zenon DEF TypeInv, FlowInv, StageInv
<1>4. ASSUME NEW op \in {"SMSG_PONG", "SMSG_AUTH_LOGON_CHALLENGE", "SMSG_AUTH_LOGON_PROOF", "SMSG_AUTH_RESPONSE"},
             reply(op, serverMode), serverMode = "WORK" => op # "SMSG_AUTH_LOGON_PROOF"
      PROVE  RepliesFit(replies', clientMode) /\ OpsOf(replies') = OpsOf(replies) \cup {op}
  <2>1. PICK q \in Replies : q.op = op /\ q.mode = serverMode /\ replies' = Append(replies, q)
        BY <1>1, <1>4, PacketTypes, Zenon DEF Packet, reply
  <2>2. OpsOf(replies') = OpsOf(replies) \cup {op}
        BY <1>1, <2>1, AppendOps
  <2>3. \/ /\ q.mode = "WORK" /\ q.op # "SMSG_AUTH_LOGON_PROOF"
           /\ clientMode = "WORK" \/ "SMSG_AUTH_LOGON_PROOF" \in OpsOf(replies)
        \/ q.mode # "WORK" /\ clientMode # "WORK" /\ "SMSG_AUTH_LOGON_PROOF" \notin OpsOf(replies)
        BY <1>1, <1>2, <1>3, <1>4, <2>1 DEF Modes
  <2>4. RepliesFit(replies', clientMode)
        BY <1>1, <1>2, <2>1, <2>3, FitReply, Zenon
  <2> QED BY <2>2, <2>4, Zenon
<1>5. CASE UNCHANGED <<serverMode, replies>>
      BY <1>2, <1>5, Zenon
<1>6. CASE \E op \in {"SMSG_PONG", "SMSG_AUTH_RESPONSE"} : reply(op, serverMode) /\ UNCHANGED serverMode
  <2>1. PICK op \in {"SMSG_PONG", "SMSG_AUTH_RESPONSE"} : reply(op, serverMode) /\ UNCHANGED serverMode
        BY <1>6, Zenon
  <2>2. op # "SMSG_AUTH_LOGON_PROOF"
        BY <2>1
  <2>3. RepliesFit(replies', clientMode) /\ OpsOf(replies') = OpsOf(replies) \cup {op}
        BY <1>4, <2>1, <2>2, Zenon
  <2> QED BY <1>2, <2>1, <2>3, Zenon
<1>7. CASE serverMode = "AUTH" /\ reply("SMSG_AUTH_LOGON_CHALLENGE", "AUTH") /\ UNCHANGED serverMode
  <2>1. serverMode # "WORK"
        BY <1>7
  <2> QED BY <1>4, <1>7, <2>1, Zenon
<1>8. CASE serverMode = "AUTH" /\ reply("SMSG_AUTH_LOGON_PROOF", "AUTH") /\ serverMode' = "WORK"
  <2>1. serverMode # "WORK"
        BY <1>8
  <2> QED BY <1>4, <1>8, <2>1, Zenon
<1>9. \/ serverMode = "AUTH" /\ dispatch_auth(Head(Pending))
      \/ serverMode = "WORK" /\ dispatch_work(Head(Pending))
      \/ UNCHANGED <<serverMode, replies>>
      BY <1>1, ReadPending, Zenon DEF server
<1> QED BY <1>5, <1>6, <1>7, <1>8, <1>9, DispatchStep, Zenon

\* The request the session misreads, if it misreads one.
LEMMA ServerMisreads ==
    ASSUME TypeInv, FormatInv, NEW p \in Requests, p = Head(Pending), Pending # <<>>,
           p.mode # serverMode, misread' = p, UNCHANGED <<serverMode, authenticated, start>>
    PROVE  FormatsAgree'
<1>1. SeqInv /\ Pending \in Seq(Requests) /\ serverMode \in Modes
      BY InFlightLength, Zenon DEF TypeInv, FlowInv, FlagTypes
<1>2. /\ p.mode \in Modes
      /\ p.op \in {"CMSG_PING", "CMSG_AUTH_LOGON_CHALLENGE", "CMSG_AUTH_LOGON_PROOF", "CMSG_MESSAGE"}
      BY DEF Requests
<1>3. p \notin Replies
      BY PacketsDiffer, Zenon
<1>4. (p.mode = "WORK" => clientMode = "WORK") /\ (p.op = "CMSG_MESSAGE" => p.mode = "WORK")
      BY <1>1, FitTail, Zenon DEF FormatInv
<1>5. CASE p.mode = "WORK"
  <2>1. serverMode = "AUTH" /\ serverMode # "WORK"
        BY <1>1, <1>5 DEF Modes
  <2>2. start.mode = "WORK"
        BY <1>4, <1>5, <2>1, Zenon DEF TypeInv, FlowInv, StageInv
  <2> QED BY <1>3, <1>5, <2>1, <2>2, Zenon DEF FormatsAgree
<1>6. CASE p.mode = "AUTH"
  <2>1. serverMode = "WORK"
        BY <1>1, <1>6 DEF Modes
  <2>2. authenticated
        BY <2>1, Zenon DEF TypeInv, FlowInv, StageInv
  <2>3. p.op \in OpsOf(Pending) /\ OpsOf(Pending) \cap Logons = {}
        BY <1>1, <2>1, TailOps, Zenon DEF FormatInv, TokenInv
  <2>4. p.op = "CMSG_PING"
        BY <1>2, <1>4, <1>6, <2>3 DEF Logons
  <2>5. p = Packet("CMSG_PING", "AUTH")
        BY <1>6, <2>4 DEF Packet, Requests
  <2> QED BY <1>3, <2>1, <2>2, <2>5, Zenon DEF FormatsAgree
<1> QED BY <1>2, <1>5, <1>6 DEF Modes

\* The session reads a request.
LEMMA ServerReadFormat ==
    ASSUME TypeInv, FormatInv, ServerRead
    PROVE  FormatInv'
<1>1. SeqInv /\ serverMode \in Modes
      BY Zenon DEF TypeInv, FlowInv, FlagTypes
<1>2. /\ Pending \in Seq(Requests) /\ Pending # <<>> /\ Pending' = Tail(Pending)
      /\ UNCHANGED <<clientMode, start>> /\ misread = None
      BY <1>1, ReadPending, Zenon DEF ServerRead, client, history, InStep
<1>3. TokenInv'
      BY <1>1, ServerReadToken, Zenon DEF FormatInv
<1>4. RequestsFit(Pending', clientMode')
      BY <1>2, FitTail, Zenon DEF FormatInv
<1>5. ReplyInv'
      BY ServerReplies, Zenon
<1>6. FormatsAgree'
  <2>1. CASE UNCHANGED misread
        BY <1>2, <2>1, NoneMisread, Zenon
  <2>2. CASE Head(Pending).mode # serverMode /\ misread' = Head(Pending) /\ UNCHANGED <<server, replies>>
    <3>1. Head(Pending) \in Requests
          BY <1>2, HeadTailProperties, Zenon
    <3>2. UNCHANGED <<serverMode, authenticated, start>>
          BY <1>2, <2>2, Zenon DEF server
    <3> QED BY <1>2, <2>2, <3>1, <3>2, ServerMisreads, Zenon
  <2> QED BY <1>1, <2>1, <2>2, ReadPending, Zenon
<1> QED BY <1>3, <1>4, <1>5, <1>6, Zenon DEF FormatInv

\* Every step keeps the formats in step.
LEMMA NextFormat == TypeInv /\ FormatInv /\ [Next]_vars => FormatInv'
<1> SUFFICES ASSUME TypeInv, FormatInv, [Next]_vars PROVE FormatInv'
    OBVIOUS
<1>1. CASE WriteCompletes
  <2>1. Pending' = Pending
        BY <1>1, WritePending, Zenon DEF TypeInv, FlowInv
  <2>2. UNCHANGED <<replies, clientMode, challengeTimer, serverMode, authenticated, start, misread>>
        BY <1>1, Zenon DEF WriteCompletes, server, history
  <2> QED BY <2>1, <2>2, FormatFrame, Zenon
<1>2. CASE Disconnect \/ ConnectionLost \/ Signal \/ UNCHANGED vars
  <2>1. UNCHANGED <<outgoing, wire, buffer>>
        BY <1>2, Zenon DEF Disconnect, ConnectionLost, Signal, vars, client
  <2>2. Pending' = Pending
        BY <2>1, Zenon DEF Pending
  <2>3. UNCHANGED <<replies, clientMode, challengeTimer, serverMode, authenticated, start, misread>>
        BY <1>2, Zenon DEF Disconnect, ConnectionLost, Signal, vars, client, server, history
  <2> QED BY <2>2, <2>3, FormatFrame, Zenon
<1> QED BY <1>1, <1>2, ConnectFormat, SendFormat, ClientReadFormat, ServerReadFormat, Zenon DEF Next, Ended

\* At the start nothing is in flight.
LEMMA InitFormat == Init => FormatInv
<1> SUFFICES ASSUME Init PROVE FormatInv
    OBVIOUS
<1>1. /\ outgoing = <<>> /\ wire = <<>> /\ buffer = <<>> /\ replies = <<>> /\ serverMode = "AUTH" /\ misread = None
      BY Zenon DEF Init
<1>2. Pending = <<>> /\ serverMode # "WORK"
      BY <1>1 DEF Pending
<1>3. TokenInv
      BY <1>1, <1>2, EmptyOps DEF TokenInv, Alone
<1>4. RequestsFit(Pending, clientMode) /\ RepliesFit(replies, clientMode)
      BY <1>1, <1>2 DEF RequestsFit, RepliesFit
<1>5. FormatsAgree
      BY <1>1, NoneAssumption, Zenon DEF FormatsAgree
<1> QED BY <1>2, <1>3, <1>4, <1>5, Zenon DEF FormatInv, ReplyInv

\* Over any number of connections and packets in flight: the client reads every reply
\* in the format it was written in, and the only request that the session misreads is
\* the heartbeat sent between the proof and its answer, unless the client was in the
\* work stage when it connected (Client.cpp keeps session_mode_, ClientSession.cpp starts
\* with a new one).
THEOREM FormatsAlwaysAgree == Spec => []FormatsAgree
<1>1. Init => TypeInv /\ FormatInv
      BY InitFlow, InitTypes, InitFormat, Zenon DEF TypeInv
<1>2. TypeInv /\ FormatInv /\ [Next]_vars => (TypeInv /\ FormatInv)'
      BY NextTypes, NextFormat, Zenon
<1>3. TypeInv /\ FormatInv => FormatsAgree
      BY Zenon DEF FormatInv
<1> QED BY <1>1, <1>2, <1>3, PTL DEF Spec

============================================================================
