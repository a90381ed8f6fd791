------------------------------- MODULE Logon -------------------------------
(***************************************************************************)
(* A logon over TCP: the client of Client/Client.cpp, driven by             *)
(* main_client.cpp, and a session of the server with the packet handlers of *)
(* HandlersAuth.cpp and HandlersWork.cpp.  Either end has a session mode of *)
(* its own (AUTH: 3-byte headers, WORK: 4-byte headers), writes packets in  *)
(* the format of its mode and reads them in the format of its mode; nothing *)
(* on the wire tells the formats apart.  When the connection is lost the    *)
(* client makes another, to a new session, and keeps its mode and its queue *)
(* (module Client has the details of reconnecting).                         *)
(*                                                                          *)
(* The client runs one I/O thread and the session is taken with one: the    *)
(* session's write queue is then an ordered channel (ReplyChannel, proved in *)
(* ClientSessionProofs).  The server's buffer is a sequence of packets      *)
(* (FrameReader shows that the readers cut the stream so as long as the     *)
(* formats agree); a reader takes one packet per completed read.  The model *)
(* ends with the client, or when an end reads a packet in a format it was   *)
(* not written in: from there on the stream is out of step.                 *)
(***************************************************************************)
EXTENDS Naturals, Sequences

CONSTANTS
    MaxPackets,     \* bound: packets that exist at one time
    MaxConnections, \* bound: connections, after which the client ends
    None

ASSUME LogonAssumption == MaxPackets \in Nat \ {0} /\ MaxConnections \in Nat \ {0}

VARIABLES
    connection,     \* Client::connected and what became of the socket
    clientMode,     \* Client::session_mode_
    challengeTimer, \* timer1 of main_client.cpp is armed
    heartbeat,      \* heartbeat_timer is armed
    outgoing,       \* Client::outgoing_queue; its front is being written
    wire,           \* requests written and not yet read by the server
    buffer,         \* requests in the session's read_buffer_
    serverMode,     \* ClientSession::session_mode_
    challenged,     \* the session's SRP state holds a verifier and an ephemeral
    authenticated,  \* AccountInfo: is_authenticated
    cached,         \* the account is in the AccountCache
    replies,        \* replies sent and not yet read by the client
    disconnecting,  \* the function posted by Client::disconnect is pending
    connections,    \* connections made so far
    start,          \* the client's mode, queue and timer1 when the connection was made
    misread         \* the packet an end read in the wrong format, or None

client == <<clientMode, challengeTimer, heartbeat, outgoing, disconnecting>>
server == <<serverMode, challenged, authenticated, cached>>
history == <<connections, start>>
vars == <<connection, client, wire, buffer, server, replies, history, misread>>

Modes == {"AUTH", "WORK"}
Requests == [op : {"CMSG_PING", "CMSG_AUTH_LOGON_CHALLENGE", "CMSG_AUTH_LOGON_PROOF", "CMSG_MESSAGE"}, mode : Modes]
Replies == [op : {"SMSG_PONG", "SMSG_AUTH_LOGON_CHALLENGE", "SMSG_AUTH_LOGON_PROOF", "SMSG_AUTH_RESPONSE"}, mode : Modes]
Packet(op, mode) == [op |-> op, mode |-> mode]

\* None is no packet.
ASSUME NoneAssumption == None \notin Requests \cup Replies

InFlight == Len(outgoing) + Len(wire) + Len(buffer) + Len(replies)
Room == InFlight < MaxPackets

InStep == misread = None

Logons == {"CMSG_AUTH_LOGON_CHALLENGE", "CMSG_AUTH_LOGON_PROOF"}

\* What the client brings into a connection.
Brought == [mode |-> clientMode, queue |-> {outgoing[i].op : i \in DOMAIN outgoing}, timer |-> challengeTimer]

Init ==
    /\ connection = "connecting"
    /\ clientMode = "AUTH"
    /\ challengeTimer = TRUE
    /\ heartbeat = FALSE
    /\ outgoing = <<>> /\ wire = <<>> /\ buffer = <<>> /\ replies = <<>>
    /\ serverMode = "AUTH"
    /\ challenged = FALSE
    /\ authenticated = FALSE
    /\ cached \in BOOLEAN
    /\ disconnecting = FALSE
    /\ connections = 0 /\ start = Brought
    /\ misread = None

----------------------------------------------------------------------------
(* The client.                                                              *)

\* The new connection goes on with the old session.
connect_Resumed ==
    /\ connection = "connecting" /\ ~disconnecting
    /\ connection' = "up"
    /\ heartbeat' = TRUE
    /\ wire' = <<>> /\ buffer' = <<>> /\ replies' = <<>>
    /\ connections' = connections + 1 /\ start' = Brought
    /\ UNCHANGED <<clientMode, challengeTimer, outgoing, disconnecting, server, misread>>

\* The handler of a successful async_connect: the receive loop and the write
\* of a queued packet start with it (ClientRead and WriteCompletes are enabled
\* from here on), and so does the heartbeat.  A failed attempt is made again
\* three seconds later and changes nothing the model keeps.  On the server the
\* accepted connection has a new session.
connect ==
    /\ connection = "connecting" /\ ~disconnecting
    /\ connection' = "up"
    /\ heartbeat' = TRUE
    /\ wire' = <<>> /\ buffer' = <<>> /\ replies' = <<>>
    /\ serverMode' = "AUTH" /\ challenged' = FALSE /\ authenticated' = FALSE
    /\ connections' = connections + 1 /\ start' = Brought
    /\ UNCHANGED <<clientMode, challengeTimer, outgoing, disconnecting, cached, misread>>

\* send_packet(): the packet joins the queue, connected or not.  Whenever the
\* client is connected and the queue is not empty its front is being written.
send_packet(p) == outgoing' = Append(outgoing, p)

\* timer1 runs handle_logon_challenge() once, a second after the start.
LogonChallenge ==
    /\ InStep /\ connection # "down" /\ challengeTimer /\ Room
    /\ challengeTimer' = FALSE
    /\ send_packet(Packet("CMSG_AUTH_LOGON_CHALLENGE", "AUTH"))
    /\ UNCHANGED <<history, connection, clientMode, heartbeat, disconnecting, wire, buffer, server, replies, misread>>

\* A heartbeat that is sent once: the timer is not armed again.
Heartbeat_Once ==
    /\ InStep /\ connection = "up" /\ heartbeat /\ ~challengeTimer /\ Room
    /\ heartbeat' = FALSE
    /\ send_packet(Packet("CMSG_PING", clientMode))
    /\ UNCHANGED <<history, connection, clientMode, challengeTimer, disconnecting, wire, buffer, server, replies, misread>>

\* A heartbeat that always uses the packets of the work stage.
Heartbeat_Work ==
    /\ InStep /\ connection = "up" /\ heartbeat /\ ~challengeTimer /\ Room
    /\ send_packet(Packet("CMSG_PING", "WORK"))
    /\ UNCHANGED <<history, connection, clientMode, challengeTimer, heartbeat, disconnecting, wire, buffer, server, replies, misread>>

\* The handler of heartbeat_timer: send_ping() in the format of the client's
\* mode, and start_heartbeat() arms the timer again.  It expires 30 seconds after
\* the connection is made, so never before timer1.
Heartbeat ==
    /\ InStep /\ connection = "up" /\ heartbeat /\ ~challengeTimer /\ Room
    /\ send_packet(Packet("CMSG_PING", clientMode))
    /\ UNCHANGED <<history, connection, clientMode, challengeTimer, heartbeat, disconnecting, wire, buffer, server, replies, misread>>

\* A line of standard input: send_message() drops it before the work stage.
send_message ==
    /\ InStep /\ connection # "down" /\ clientMode = "WORK" /\ Room
    /\ send_packet(Packet("CMSG_MESSAGE", "WORK"))
    /\ UNCHANGED <<history, connection, clientMode, challengeTimer, heartbeat, disconnecting, wire, buffer, server, replies, misread>>

\* The write of a packet completes and the packet stays at the front.
WriteCompletes_NoPop ==
    /\ InStep /\ connection = "up" /\ outgoing # <<>>
    /\ wire' = Append(wire, Head(outgoing))
    /\ UNCHANGED <<history, connection, client, buffer, server, replies, misread>>

\* The async_write of flush_queue() completes; its handler pops the packet and
\* flush_queue() starts on the next one.
WriteCompletes ==
    /\ InStep /\ connection = "up" /\ outgoing # <<>>
    /\ wire' = Append(wire, Head(outgoing))
    /\ outgoing' = Tail(outgoing)
    /\ UNCHANGED <<history, connection, clientMode, challengeTimer, heartbeat, disconnecting, buffer, server, replies, misread>>

\* disconnect() posts the function that closes the socket.
disconnect == disconnecting' = TRUE

\* A client that switches to the work stage on the server's challenge.
handle_packet_Early(p) ==
    \/ /\ p.op = "SMSG_PONG"
       /\ UNCHANGED <<clientMode, outgoing, disconnecting>>
    \/ /\ p.op = "SMSG_AUTH_LOGON_CHALLENGE"
       /\ send_packet(Packet("CMSG_AUTH_LOGON_PROOF", "AUTH"))
       /\ clientMode' = "WORK"
       /\ UNCHANGED disconnecting
    \/ /\ p.op = "SMSG_AUTH_LOGON_PROOF"
       /\ UNCHANGED <<clientMode, outgoing, disconnecting>>
    \/ /\ p.op = "SMSG_AUTH_RESPONSE"
       /\ disconnect
       /\ UNCHANGED <<clientMode, outgoing>>

\* handle_packet(), of an AuthPacket or of a WorkPacket (only PONG is sent in
\* the work stage).  The challenge is answered with a proof; should computing
\* it throw, the client disconnects.  M2 is the hash of what the client sent,
\* so verify_server_proof() accepts it.
handle_packet(p) ==
    \/ /\ p.op = "SMSG_PONG"
       /\ UNCHANGED <<clientMode, outgoing, disconnecting>>
    \/ /\ p.op = "SMSG_AUTH_LOGON_CHALLENGE"
       /\ \/ send_packet(Packet("CMSG_AUTH_LOGON_PROOF", "AUTH")) /\ UNCHANGED disconnecting
          \/ disconnect /\ UNCHANGED outgoing
       /\ UNCHANGED clientMode
    \/ /\ p.op = "SMSG_AUTH_LOGON_PROOF"
       /\ clientMode' = "WORK"
       /\ UNCHANGED <<outgoing, disconnecting>>
    \/ /\ p.op = "SMSG_AUTH_RESPONSE"
       /\ disconnect
       /\ UNCHANGED <<clientMode, outgoing>>

\* One turn of start_receive_loop(): the header has the size of the client's
\* mode when the read starts, then the payload is read and handled.  The mode
\* changes in handle_packet() only, before the next read starts.
ClientRead ==
    /\ InStep /\ connection = "up" /\ replies # <<>>
    /\ replies' = Tail(replies)
    /\ \/ /\ Head(replies).mode = clientMode
          /\ handle_packet(Head(replies))
          /\ UNCHANGED misread
       \/ /\ Head(replies).mode # clientMode
          /\ misread' = Head(replies)
          /\ UNCHANGED <<clientMode, outgoing, disconnecting>>
    /\ UNCHANGED <<history, connection, challengeTimer, heartbeat, wire, buffer, server>>

\* schedule_reconnect(), which the read and the write handler call on an error.
schedule_reconnect == connection' = IF connections < MaxConnections THEN "connecting" ELSE "down"

\* The function disconnect() posted: both timers are cancelled and the socket is
\* closed, which aborts the read (or the attempt to connect), so the client
\* reconnects.
Disconnect ==
    /\ InStep /\ connection # "down" /\ disconnecting
    /\ schedule_reconnect
    /\ heartbeat' = FALSE
    /\ disconnecting' = FALSE
    /\ UNCHANGED <<history, clientMode, challengeTimer, outgoing, wire, buffer, server, replies, misread>>

\* A read or a write fails because the connection is lost.
ConnectionLost ==
    /\ InStep /\ connection = "up"
    /\ schedule_reconnect
    /\ UNCHANGED <<history, client, wire, buffer, server, replies, misread>>

\* SIGINT: io.stop() ends run(), so the function that disconnect() posts never
\* runs; the socket closes with the process.
Signal ==
    /\ InStep /\ connection \in {"connecting", "up"}
    /\ connection' = "down"
    /\ disconnecting' = TRUE
    /\ UNCHANGED <<history, clientMode, challengeTimer, heartbeat, outgoing, wire, buffer, server, replies, misread>>

----------------------------------------------------------------------------
(* The session on the server.                                               *)

reply(op, mode) == replies' = Append(replies, Packet(op, mode))

\* HandlersAuth::handle_logon_challenge(): the account comes from the cache,
\* or from the database, which may have no such user or an unusable row, or
\* fail.  The user name the client sends is well-formed.
handle_logon_challenge ==
    \/ /\ cached
       /\ challenged' = TRUE
       /\ reply("SMSG_AUTH_LOGON_CHALLENGE", "AUTH")
       /\ UNCHANGED <<serverMode, authenticated, cached>>
    \/ /\ ~cached
       /\ cached' = TRUE
       /\ challenged' = TRUE
       /\ reply("SMSG_AUTH_LOGON_CHALLENGE", "AUTH")
       /\ UNCHANGED <<serverMode, authenticated>>
    \/ /\ ~cached
       /\ reply("SMSG_AUTH_RESPONSE", "AUTH")
       /\ UNCHANGED server

\* HandlersAuth::handle_logon_proof(): verify_client_proof() returns true for
\* every proof; the session enters the work stage and the account is marked
\* authenticated before the answer, an AuthPacket still, is sent.
handle_logon_proof ==
    /\ serverMode' = "WORK"
    /\ authenticated' = TRUE
    /\ reply("SMSG_AUTH_LOGON_PROOF", "AUTH")
    /\ UNCHANGED <<challenged, cached>>

\* handle_ping() of either stage answers in the format of its stage.
handle_ping(mode) == reply("SMSG_PONG", mode) /\ UNCHANGED server

\* HandlersAuth::dispatch().
dispatch_auth(p) ==
    \/ p.op = "CMSG_PING" /\ handle_ping("AUTH")
    \/ p.op = "CMSG_AUTH_LOGON_CHALLENGE" /\ handle_logon_challenge
    \/ p.op = "CMSG_AUTH_LOGON_PROOF" /\ handle_logon_proof

\* HandlersWork::dispatch(); its handle_message() only logs the text.
dispatch_work(p) ==
    \/ p.op = "CMSG_PING" /\ handle_ping("WORK")
    \/ p.op = "CMSG_MESSAGE" /\ UNCHANGED <<server, replies>>

\* A completed read brings some of the bytes on the wire: n whole packets, and
\* perhaps a part of the next.  Then the reader of the session's mode takes the
\* first packet of the buffer, if there is a whole one, and dispatches it.
ServerRead ==
    /\ InStep /\ connection = "up" /\ wire # <<>>
    /\ \E n \in 0..Len(wire) :
          LET received == buffer \o SubSeq(wire, 1, n) IN
          /\ received # <<>>
          /\ wire' = SubSeq(wire, n + 1, Len(wire))
          /\ buffer' = Tail(received)
          /\ \/ /\ Head(received).mode = serverMode
                /\ \/ serverMode = "AUTH" /\ dispatch_auth(Head(received))
                   \/ serverMode = "WORK" /\ dispatch_work(Head(received))
                /\ UNCHANGED misread
             \/ /\ Head(received).mode # serverMode
                /\ misread' = Head(received)
                /\ UNCHANGED <<server, replies>>
    /\ UNCHANGED <<history, connection, client>>

\* The connection is over, or the stream is out of step.
Ended ==
    /\ connection = "down" \/ ~InStep
    /\ UNCHANGED vars

----------------------------------------------------------------------------
Next ==
    \/ connect \/ LogonChallenge \/ Heartbeat \/ send_message \/ WriteCompletes
    \/ ClientRead \/ Disconnect \/ ConnectionLost \/ Signal \/ ServerRead \/ Ended

Spec == Init /\ [][Next]_vars

\* The timers expire, and what is ready is run: both ends serve one thread per
\* handler queue, and nothing blocks for ever in a handler.  Nothing is assumed
\* of connecting, of lost connections, of signals or of standard input.
FairSpec ==
    /\ Spec
    /\ WF_vars(LogonChallenge) /\ WF_vars(Heartbeat) /\ WF_vars(WriteCompletes)
    /\ WF_vars(ClientRead) /\ WF_vars(Disconnect) /\ WF_vars(ServerRead)

----------------------------------------------------------------------------
(* Properties.                                                              *)

\* The variables have their types; the packets in flight stay within the bound,
\* for every answer replaces a request.
TypeOK ==
    /\ connection \in {"connecting", "up", "down"}
    /\ clientMode \in Modes /\ serverMode \in Modes
    /\ outgoing \in Seq(Requests) /\ wire \in Seq(Requests) /\ buffer \in Seq(Requests)
    /\ replies \in Seq(Replies)
    /\ InFlight <= MaxPackets
    /\ {challengeTimer, heartbeat, challenged, authenticated, cached, disconnecting} \subseteq BOOLEAN
    /\ connections \in 0..MaxConnections
    /\ start \in [mode : Modes, queue : SUBSET {p.op : p \in Requests}, timer : BOOLEAN]
    /\ misread \in Requests \cup Replies \cup {None}

\* The client is never ahead of the server: it is in the work stage only if the
\* session is or an earlier session was, the session only if its account is
\* authenticated, and that only after a challenge has loaded the verifier;
\* handle_logon_proof tests neither, and a proof that waited in the queue when
\* the last connection was lost authenticates the new session without it.
StagesInOrder ==
    /\ clientMode = "WORK" => serverMode = "WORK" \/ start.mode = "WORK"
    /\ serverMode = "WORK" => authenticated
    /\ authenticated => challenged \/ "CMSG_AUTH_LOGON_PROOF" \in start.queue

\* Although the two ends change mode at different times with packets in flight,
\* the client reads every reply in the format it was written in, and the only
\* request the server reads in the wrong one is a heartbeat of the AUTH stage
\* that the client sends between its proof and the answer, when the session has
\* already moved on.  This is so until a client that is still in the work stage
\* connects again: it misreads the replies of its new session, and that session
\* its requests.
FormatsAgree ==
    /\ misread \in Replies => start.mode = "WORK"
    /\ misread \in Requests =>
           \/ misread = Packet("CMSG_PING", "AUTH") /\ serverMode = "WORK" /\ authenticated
           \/ misread.mode = "WORK" /\ serverMode = "AUTH" /\ start.mode = "WORK"

\* timer1 fires once: a session is authenticated only if the client brought the
\* timer, a challenge or a proof into its connection.  After a reconnection that
\* brings none of them the client stays connected and never logs on.
NoSecondLogon ==
    ~start.timer /\ start.queue \cap Logons = {} => serverMode = "AUTH" /\ ~challenged

\* Where the client brought one of them and the timer has fired, a client that is
\* connected reaches the work stage, unless the connection ends or a packet is
\* misread.  A request received together with the one before it waits in the
\* buffer until the next read: it is the heartbeat that brings that read.
LogonFinishes ==
    (connection = "up" /\ ~challengeTimer /\ (start.timer \/ start.queue \cap Logons # {})) ~>
        (clientMode = "WORK" \/ connection # "up" \/ ~InStep)

============================================================================
