------------------------------- MODULE Client -------------------------------
(***************************************************************************)
(* The transport of the client, Client/Client.cpp under main_client.cpp:    *)
(* connecting, the receive loop, the outgoing queue, the reconnection and   *)
(* heartbeat timers, disconnect() and the thread that reads standard input. *)
(* What the packets say is the business of Logon.                           *)
(*                                                                          *)
(* One thread runs the io_context, so its handlers do not overlap; the      *)
(* thread of standard input calls send_message() beside them, with nothing  *)
(* to synchronise the two.  An operation is pending, or completed and its   *)
(* handler waits for the I/O thread.  Closing the socket, and starting to   *)
(* connect, which closes and reopens it, abort what is pending and leave    *)
(* alone what has completed.  expires_after() and cancel() do the same to   *)
(* the wait of a timer.  Handlers that wait are taken in any order.         *)
(***************************************************************************)
EXTENDS Naturals, Sequences

CONSTANTS
    Stdin,          \* whether main() starts the thread of standard input
    MaxPackets,     \* bound: no new packet is prompted once so many were queued
    MaxTroubles,    \* bound: failures of the network and calls of disconnect()
    MaxFailures     \* bound: failed writes after which a write completes at once

ASSUME ClientAssumption ==
    /\ Stdin \in BOOLEAN
    /\ MaxPackets \in Nat /\ MaxTroubles \in Nat /\ MaxFailures \in Nat

VARIABLES
    socket,         \* "closed", "connecting" or "open"
    connected,      \* Client::connected
    mode,           \* Client::session_mode_
    ops,            \* for each kind of operation, how many are in which state
    writes,         \* the asynchronous writes, oldest first
    queue,          \* Client::outgoing_queue, packets by number
    posted,         \* functions posted by disconnect() that wait to run
    logonTimer,     \* timer1 of main_client.cpp: "armed", "expired" or "done"
    pc,             \* where each thread is
    queued,         \* packets queued so far
    sent,           \* packets written, in the order their writes completed
    failures,       \* failed writes whose handler has run
    troubles,       \* failures of the network and calls of disconnect()
    raced,          \* both threads have been at work on the queue at once
    ended           \* "no", "stopped" by a signal, or "crashed"

transport == <<socket, connected, mode, ops, posted, logonTimer>>
history == <<sent, failures, troubles>>
vars == <<transport, writes, queue, pc, queued, history, raced, ended>>

Threads == {"io", "stdin"}
Ops == {"connect", "read", "reconnect", "heartbeat"}
SocketOps == {"connect", "read"}
States == {"pending", "ok", "err"}
NoOps == [o \in Ops |-> [s \in States |-> 0]]

----------------------------------------------------------------------------
(* Asynchronous operations.                                                 *)

\* One more operation of kind o in state s.
Put(q, o, s) == [q EXCEPT ![o][s] = @ + 1]
\* An operation of kind o leaves state s.
Take(q, o, s) == [q EXCEPT ![o][s] = @ - 1]

\* The pending operations of the kinds in K end with operation_aborted.
Cancel(q, K) ==
    [o \in Ops |-> IF o \in K
                   THEN [pending |-> 0, ok |-> q[o]["ok"], err |-> q[o]["err"] + q[o]["pending"]]
                   ELSE q[o]]

\* expires_after() cancels the wait of the timer, then async_wait() starts one.
Rearm(q, timer) == Put(Cancel(q, {timer}), timer, "pending")

\* What becomes of a read or a write that starts now: on a socket that is not
\* connected it fails at once.
Started == IF socket = "open" THEN "pending" ELSE "err"

AbortWrites(w) == [i \in DOMAIN w |-> IF w[i].state = "pending" THEN [w[i] EXCEPT !.state = "err"] ELSE w[i]]

Init ==
    /\ socket = "connecting"
    /\ connected = FALSE
    /\ mode = "AUTH"
    /\ ops = Put(NoOps, "connect", "pending")
    /\ writes = <<>> /\ queue = <<>> /\ sent = <<>>
    /\ posted = 0 /\ queued = 0 /\ failures = 0 /\ troubles = 0
    /\ logonTimer = "armed"
    /\ pc = [t \in Threads |-> "idle"]
    /\ raced = FALSE
    /\ ended = "no"

----------------------------------------------------------------------------
(* The outgoing queue.                                                      *)

Running == ended = "no"
Room == queued < MaxPackets

\* A thread moves to l.  Both threads are at work on the queue if neither is
\* idle then.
Goto(t, l) ==
    /\ pc' = [pc EXCEPT ![t] = l]
    /\ raced' = (raced \/ \A u \in Threads : pc'[u] # "idle")

\* send_packet_impl() tests connected: if not connected it only queues.
EnterSend(t) ==
    \/ connected /\ Goto(t, "send")
    \/ ~connected /\ Goto(t, "store")

\* outgoing_queue.push()
push(t) ==
    /\ Running /\ pc[t] \in {"send", "store"}
    /\ queued' = queued + 1
    /\ queue' = Append(queue, queued + 1)
    /\ \/ pc[t] = "send" /\ Goto(t, "size")
       \/ pc[t] = "store" /\ Goto(t, "idle")
    /\ UNCHANGED <<transport, writes, history, ended>>

\* A send_packet_impl() that flushes whatever the size.
size_Any(t) ==
    /\ Running /\ pc[t] = "size"
    /\ Goto(t, "flush")
    /\ UNCHANGED <<transport, writes, queue, queued, history, ended>>

\* if (outgoing_queue.size() == 1) flush_queue();
size(t) ==
    /\ Running /\ pc[t] = "size"
    /\ \/ Len(queue) = 1 /\ Goto(t, "flush")
       \/ Len(queue) # 1 /\ Goto(t, "idle")
    /\ UNCHANGED <<transport, writes, queue, queued, history, ended>>

\* The write of packet p starts.  On a socket that is not connected it fails at
\* once; after MaxFailures failures it completes at once.
async_write(p) ==
    LET failed == failures + Len(SelectSeq(writes, LAMBDA w : w.state = "err"))
        state == IF socket # "open" THEN "err" ELSE IF failed < MaxFailures THEN "pending" ELSE "ok"
    IN /\ writes' = Append(writes, [packet |-> p, state |-> state])
       /\ sent' = IF state = "ok" THEN Append(sent, p) ELSE sent

\* flush_queue(): unless the client is not connected or the queue is empty, the
\* write of the front packet starts.
flush_queue(t) ==
    /\ Running /\ pc[t] = "flush"
    /\ Goto(t, "idle")
    /\ \/ (~connected \/ queue = <<>>) /\ UNCHANGED <<writes, sent>>
       \/ connected /\ queue # <<>> /\ async_write(Head(queue))
    /\ UNCHANGED <<transport, queue, queued, failures, troubles, ended>>

----------------------------------------------------------------------------
(* The handlers of the I/O thread.                                          *)

IoIdle == Running /\ pc["io"] = "idle"

\* A schedule_reconnect() that waits beside a wait that is pending already.
schedule_reconnect_Beside(q, w) ==
    /\ connected' = FALSE
    /\ socket' = "closed"
    /\ ops' = Put(Cancel(q, SocketOps), "reconnect", "pending")
    /\ writes' = AbortWrites(w)

\* schedule_reconnect(), called with the operations q and the writes w: the socket is closed and
\* the wait of three seconds starts anew.
schedule_reconnect(q, w) ==
    /\ connected' = FALSE
    /\ socket' = "closed"
    /\ ops' = Rearm(Cancel(q, SocketOps), "reconnect")
    /\ writes' = AbortWrites(w)

\* A failed connect that is logged and nothing else.
ConnectFailed_Ignored ==
    /\ ops["connect"]["err"] > 0
    /\ ops' = Take(ops, "connect", "err")
    /\ UNCHANGED <<socket, connected, writes>>

\* The connect failed, or was aborted by the next one.
ConnectFailed ==
    /\ ops["connect"]["err"] > 0
    /\ schedule_reconnect(Take(ops, "connect", "err"), writes)

\* A connect handler that does not set connected.
ConnectHandler_Unset ==
    /\ IoIdle
    /\ \/ /\ ops["connect"]["ok"] > 0
          /\ ops' = Rearm(Put(Take(ops, "connect", "ok"), "read", Started), "heartbeat")
          /\ Goto("io", "flush")
          /\ UNCHANGED <<socket, connected, writes>>
       \/ ConnectFailed /\ UNCHANGED <<pc, raced>>
    /\ UNCHANGED <<mode, posted, logonTimer, queue, queued, history, ended>>

\* The handler of async_connect: the receive loop starts, the queue is flushed
\* and the heartbeat starts; after a failure a reconnection is scheduled.
ConnectHandler ==
    /\ IoIdle
    /\ \/ /\ ops["connect"]["ok"] > 0
          /\ connected' = TRUE
          /\ ops' = Rearm(Put(Take(ops, "connect", "ok"), "read", Started), "heartbeat")
          /\ Goto("io", "flush")
          /\ UNCHANGED <<socket, writes>>
       \/ ConnectFailed /\ UNCHANGED <<pc, raced>>
    /\ UNCHANGED <<mode, posted, logonTimer, queue, queued, history, ended>>

\* A reconnect handler that connects without closing the socket first.
ReconnectHandler_Open ==
    /\ IoIdle
    /\ \E s \in {"ok", "err"} :
          /\ ops["reconnect"][s] > 0
          /\ ops' = Put(Take(ops, "reconnect", s), "connect", "pending")
    /\ UNCHANGED <<socket, connected, mode, posted, logonTimer, writes, queue, pc, queued, history, raced, ended>>

\* The handler of reconnect_timer does not look at its error code: cancelled or
\* not, it calls connect(), which closes the socket and opens it again.
ReconnectHandler ==
    /\ IoIdle
    /\ \E s \in {"ok", "err"} :
          /\ ops["reconnect"][s] > 0
          /\ ops' = Put(Cancel(Take(ops, "reconnect", s), SocketOps), "connect", "pending")
    /\ socket' = "connecting"
    /\ writes' = AbortWrites(writes)
    /\ UNCHANGED <<connected, mode, posted, logonTimer, queue, pc, queued, history, raced, ended>>

\* The end of a connection marks the client as not connected and nothing else.
ReadFailed_Ignored ==
    /\ ops["read"]["err"] > 0
    /\ connected' = FALSE
    /\ ops' = Take(ops, "read", "err")
    /\ UNCHANGED <<socket, writes>>

\* The read failed, or was aborted because the socket was closed.
ReadFailed ==
    /\ ops["read"]["err"] > 0
    /\ schedule_reconnect(Take(ops, "read", "err"), writes)

\* The handlers of the receive loop, header and payload of a packet as one read.
\* An error, or a length above 2048, schedules a reconnection.  Otherwise the
\* packet is handled and the next read starts: it may be answered with a proof,
\* be the proof that changes the mode, make the client disconnect, or do none
\* of these.
ReadHandler ==
    /\ IoIdle
    /\ \/ ReadFailed /\ UNCHANGED <<mode, posted, pc, raced, troubles>>
       \/ /\ ops["read"]["ok"] > 0 /\ troubles < MaxTroubles
          /\ troubles' = troubles + 1
          /\ schedule_reconnect(Take(ops, "read", "ok"), writes)
          /\ UNCHANGED <<mode, posted, pc, raced>>
       \/ /\ ops["read"]["ok"] > 0
          /\ ops' = Put(Take(ops, "read", "ok"), "read", Started)
          /\ \/ UNCHANGED <<mode, posted, pc, raced, troubles>>
             \/ mode = "AUTH" /\ Room /\ EnterSend("io") /\ UNCHANGED <<mode, posted, troubles>>
             \/ mode = "AUTH" /\ mode' = "WORK" /\ UNCHANGED <<posted, pc, raced, troubles>>
             \/ /\ mode = "AUTH" /\ troubles < MaxTroubles
                /\ troubles' = troubles + 1
                /\ posted' = posted + 1
                /\ UNCHANGED <<mode, pc, raced>>
          /\ UNCHANGED <<socket, connected, writes>>
    /\ UNCHANGED <<logonTimer, queue, queued, sent, failures, ended>>

Without(s, i) == SubSeq(s, 1, i - 1) \o SubSeq(s, i + 1, Len(s))

\* The handler of async_write: a failure schedules a reconnection and leaves
\* the packet in the queue; otherwise the front is popped and flush_queue()
\* goes on.  Popping an empty queue is undefined; the model ends there.
WriteHandler ==
    /\ IoIdle
    /\ \E i \in DOMAIN writes :
          LET rest == Without(writes, i) IN
          \/ /\ writes[i].state = "err"
             /\ failures' = failures + 1
             /\ schedule_reconnect(ops, rest)
             /\ UNCHANGED <<queue, pc, raced, ended>>
          \/ /\ writes[i].state = "ok" /\ queue # <<>>
             /\ writes' = rest
             /\ queue' = Tail(queue)
             /\ Goto("io", "flush")
             /\ UNCHANGED <<socket, connected, ops, failures, ended>>
          \/ /\ writes[i].state = "ok" /\ queue = <<>>
             /\ writes' = rest
             /\ ended' = "crashed"
             /\ UNCHANGED <<socket, connected, ops, queue, pc, raced, failures>>
    /\ UNCHANGED <<mode, posted, logonTimer, queued, sent, troubles>>

\* The handler of heartbeat_timer: nothing if it was cancelled or the client is
\* not connected; otherwise a ping is sent and the timer armed again.
HeartbeatHandler ==
    /\ IoIdle
    /\ \/ /\ ops["heartbeat"]["err"] > 0
          /\ ops' = Take(ops, "heartbeat", "err")
          /\ UNCHANGED <<pc, raced>>
       \/ /\ ops["heartbeat"]["ok"] > 0 /\ ~connected
          /\ ops' = Take(ops, "heartbeat", "ok")
          /\ UNCHANGED <<pc, raced>>
       \/ /\ ops["heartbeat"]["ok"] > 0 /\ connected
          /\ ops' = Rearm(Take(ops, "heartbeat", "ok"), "heartbeat")
          /\ EnterSend("io")
    /\ UNCHANGED <<socket, connected, mode, posted, logonTimer, writes, queue, queued, history, ended>>

\* The handler of timer1 calls handle_logon_challenge().
LogonHandler ==
    /\ IoIdle /\ logonTimer = "expired"
    /\ logonTimer' = "done"
    /\ EnterSend("io")
    /\ UNCHANGED <<socket, connected, mode, ops, posted, writes, queue, queued, history, ended>>

\* The function that disconnect() posted: the timers are cancelled and the
\* socket is closed.
DisconnectHandler ==
    /\ IoIdle /\ posted > 0
    /\ posted' = posted - 1
    /\ ops' = Cancel(ops, Ops)
    /\ writes' = AbortWrites(writes)
    /\ socket' = "closed"
    /\ connected' = FALSE
    /\ UNCHANGED <<mode, logonTimer, queue, pc, queued, history, raced, ended>>

\* The signal handler of main() calls disconnect(), which posts, and io.stop().
Signal ==
    /\ IoIdle
    /\ posted' = posted + 1
    /\ ended' = "stopped"
    /\ UNCHANGED <<socket, connected, mode, ops, logonTimer, writes, queue, pc, queued, history, raced>>

\* The thread of standard input has read a line and calls send_message(), which
\* drops it before the work stage.
send_message ==
    /\ Running /\ Stdin /\ pc["stdin"] = "idle" /\ mode = "WORK" /\ Room
    /\ EnterSend("stdin")
    /\ UNCHANGED <<transport, writes, queue, queued, history, ended>>

----------------------------------------------------------------------------
(* The network and the clock.                                               *)

\* An operation of kind o completes with s.
Complete(o, s) ==
    /\ Running /\ ops[o]["pending"] > 0
    /\ ops' = Put(Take(ops, o, "pending"), o, s)
    /\ UNCHANGED <<connected, mode, posted, logonTimer, writes, queue, pc, queued, sent, failures, raced, ended>>

\* What may go wrong does so MaxTroubles times at most.
Trouble == troubles < MaxTroubles /\ troubles' = troubles + 1

\* No handler waits for the I/O thread.  A timer of seconds expires, and a
\* connection is made, when the thread has run what was waiting before: its
\* queue is first-in first-out and no handler blocks.
Quiet ==
    /\ \A o \in Ops : ops[o]["ok"] = 0 /\ ops[o]["err"] = 0
    /\ \A i \in DOMAIN writes : writes[i].state = "pending"
    /\ posted = 0 /\ logonTimer # "expired" /\ pc["io"] = "idle"

ConnectSucceeds == Quiet /\ Complete("connect", "ok") /\ socket' = "open" /\ UNCHANGED troubles
PacketArrives == Complete("read", "ok") /\ UNCHANGED <<socket, troubles>>
ReconnectTimerExpires == Quiet /\ Complete("reconnect", "ok") /\ UNCHANGED <<socket, troubles>>
HeartbeatTimerExpires == Quiet /\ Room /\ Complete("heartbeat", "ok") /\ UNCHANGED <<socket, troubles>>
NetworkFails(o) == Complete(o, "err") /\ Trouble /\ UNCHANGED socket

LogonTimerExpires ==
    /\ Running /\ logonTimer = "armed"
    /\ logonTimer' = "expired"
    /\ UNCHANGED <<socket, connected, mode, ops, posted, writes, queue, pc, queued, history, raced, ended>>

\* A pending write completes: the packet is on its way to the server, or the
\* connection broke.
WriteEnds(s) ==
    /\ Running
    /\ \E i \in DOMAIN writes :
          /\ writes[i].state = "pending"
          /\ writes' = [writes EXCEPT ![i].state = s]
          /\ sent' = IF s = "ok" THEN Append(sent, writes[i].packet) ELSE sent
    /\ s = "err" => Trouble
    /\ s = "ok" => UNCHANGED troubles
    /\ UNCHANGED <<transport, queue, pc, queued, failures, raced, ended>>

Ended == ~Running /\ UNCHANGED vars

----------------------------------------------------------------------------
IoOther ==
    \/ push("io") \/ size("io") \/ flush_queue("io")
    \/ ConnectHandler \/ ReconnectHandler \/ WriteHandler
    \/ HeartbeatHandler \/ LogonHandler \/ DisconnectHandler

StdinThread == push("stdin") \/ size("stdin") \/ flush_queue("stdin")

Clock == LogonTimerExpires \/ ReconnectTimerExpires \/ HeartbeatTimerExpires

Next ==
    \/ ReadHandler \/ IoOther \/ Signal \/ StdinThread \/ send_message
    \/ Clock \/ ConnectSucceeds \/ PacketArrives \/ WriteEnds("ok")
    \/ WriteEnds("err") \/ \E o \in SocketOps : NetworkFails(o)
    \/ Ended

Spec == Init /\ [][Next]_vars

\* The I/O thread serves its queue in order, so a handler that waits is run
\* even if packets keep arriving (strong fairness of the read handler and of
\* the others together); connecting succeeds in the end, timers expire, a write
\* that is not disturbed completes, and the other thread goes on with a call it
\* has begun.  Nothing is assumed of the server, the user or the heartbeat.
FairSpec ==
    /\ Spec
    /\ SF_vars(ReadHandler) /\ SF_vars(IoOther) /\ WF_vars(StdinThread)
    /\ SF_vars(ConnectSucceeds) /\ SF_vars(ReconnectTimerExpires)
    /\ WF_vars(WriteEnds("ok"))

----------------------------------------------------------------------------
(* Properties.                                                              *)

Count(o) == ops[o]["pending"] + ops[o]["ok"] + ops[o]["err"]
Chains == Count("connect") + Count("read") + Count("reconnect")

\* The variables have their types, and a timer has one wait at most.
TypeOK ==
    /\ socket \in {"closed", "connecting", "open"}
    /\ mode \in {"AUTH", "WORK"}
    /\ ops \in [Ops -> [States -> Nat]]
    /\ writes \in Seq([packet : Nat, state : States])
    /\ queue \in Seq(Nat) /\ sent \in Seq(Nat)
    /\ posted \in Nat /\ queued \in Nat /\ failures \in Nat /\ troubles \in Nat
    /\ logonTimer \in {"armed", "expired", "done"}
    /\ pc \in [Threads -> {"idle", "send", "store", "size", "flush"}]
    /\ connected \in BOOLEAN /\ raced \in BOOLEAN
    /\ ended \in {"no", "stopped", "crashed"}
    /\ ops["reconnect"]["pending"] <= 1 /\ ops["heartbeat"]["pending"] <= 1

\* A chain is a connection attempt, a receive loop or a wait to reconnect: each
\* of their handlers starts the next one.  There is always at least one, so the
\* client never gives up, whatever fails and whichever of its operations are
\* cancelled, by disconnect() too; and only a failed write may add one, beside
\* the one of the read that it aborts.
NeverGivesUp == Chains \in 1..(1 + failures)

\* However many chains there are, they never share a socket: one receive loop
\* reads from it and one attempt connects it, because connecting closes it first.
OneReceiveLoop ==
    /\ ops["read"]["pending"] + ops["read"]["ok"] <= 1
    /\ ops["connect"]["pending"] <= 1

\* Unless both threads have been at work on the queue at once, packets are
\* written in the order they were queued, each once: failed writes are repeated
\* on the next connection and completed ones are not, although their handler
\* may run after the socket was closed; and one write at a time is under way.
SentOnceInOrder ==
    ~raced =>
        LET popped == queued - Len(queue)
            finished == \E i \in DOMAIN writes : writes[i].state = "ok"
        IN /\ queue = [i \in 1..Len(queue) |-> popped + i]
           /\ sent = [i \in 1..(IF finished THEN popped + 1 ELSE popped) |-> i]
           /\ Len(writes) <= 1

\* When the network's failures and the calls of disconnect() have ended, the
\* client is connected for good, unless a write has failed on the way.
SettlesUnlessWriteFails == <>[]connected \/ <>(failures > 0 \/ ~Running)

\* A queued packet is written in the end, over however many connections, unless
\* the threads raced or a write has failed.
PacketsSent ==
    \A p \in 1..MaxPackets :
        (queued >= p) ~> ((\E i \in DOMAIN sent : sent[i] = p) \/ raced \/ failures > 0 \/ ~Running)

============================================================================
