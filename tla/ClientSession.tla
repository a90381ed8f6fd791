---------------------------- MODULE ClientSession ----------------------------
(***************************************************************************)
(* One server-side session (ClientSession.cpp) as the threads that call    *)
(* io_context::run() execute it: the read loop, the write queue, close(),  *)
(* and the packet readers and handlers as far as they post replies or      *)
(* close the session.                                                      *)
(*                                                                         *)
(* The session has no strand, so with several threads any two of its       *)
(* handlers may run at once.  A handler is a walk of pc[t] through the     *)
(* points where it touches shared members; "idle" is a thread inside run() *)
(* with no handler.  With one thread every handler runs to completion.     *)
(*                                                                         *)
(* The k-th packet accepted by send_packet() is the number k: its place in *)
(* the order of posting is all that the properties tell apart.  The model  *)
(* starts when start() has armed the first read (module Server models the  *)
(* accept handler and the failures of start()).                            *)
(***************************************************************************)
EXTENDS Integers, Sequences

CONSTANTS
    Threads,     \* network_threads of main_server.cpp
    MaxPackets   \* bound: replies posted in a behaviour

ASSUME ThreadsAssumption == Threads # {}
ASSUME MaxPacketsAssumption == MaxPackets \in Nat

VARIABLES
    fault,       \* why the behaviour ended abnormally, or "none"
    closed,      \* closed_
    sockOpen,    \* socket_.is_open()
    registered,  \* the session is in Server::sessions_
    rbufLive,    \* read_buffer_ has storage (clear() leaves it with none)
    readOp,      \* the async_read_some of do_read()
    writeq,      \* write_queue_
    writing,     \* writing_
    writeOp,     \* the async_write of do_write()
    sending,     \* the packet that async_write was given
    posted,      \* number of packets accepted by send_packet()
    taken,       \* number of posted do_send_packet() calls a thread has begun
    wire,        \* packets written to the peer completely, in order
    stopper,     \* the threads that run Server::stop()
    ioStopped,   \* io_context_.stop() was called: run() takes no further handler
    pc,          \* where each thread is
    cur          \* the packet of the do_send_packet() a thread runs

ioVars == <<readOp, writeOp, sending, wire>>
queueVars == <<writeq, writing, posted, taken, cur>>
closeVars == <<closed, sockOpen, registered, rbufLive, stopper, ioStopped>>
vars == <<fault, closed, sockOpen, registered, rbufLive, readOp, writeq, writing,
          writeOp, sending, posted, taken, wire, stopper, ioStopped, pc, cur>>

(***************************************************************************)
(* An asynchronous operation: not started, in the kernel, or completed     *)
(* with its handler waiting for a thread.                                  *)
(***************************************************************************)
OpStates == {"none", "pending", "ok", "err"}

\* "uncaught_exception" ends the process: the thread lambda of main_server.cpp
\* has no try block.  The other faults are undefined behaviour: nothing is said
\* of what follows them.
Faults == {"none", "uncaught_exception", "empty_deque", "overlapping_writes", "data_race"}

ReadLocs  == {"rd_opened", "rd_wrote", "rd_parse", "rd_dispatch", "rd_next", "do_read"}
WriteLocs == {"snd_push", "snd_test", "wr_pop", "dw_test", "dw_issue"}
CloseBody == {"cl_sock", "cl_rbuf", "cl_wqueue", "cl_remove"}
Locs      == {"idle", "cl_mark", "io_stop"} \cup ReadLocs \cup WriteLocs \cup CloseBody

FlagsOK ==
    /\ closed \in BOOLEAN /\ sockOpen \in BOOLEAN /\ registered \in BOOLEAN
    /\ rbufLive \in BOOLEAN /\ ioStopped \in BOOLEAN /\ writing \in BOOLEAN

DataOK ==
    /\ fault \in Faults
    /\ readOp \in OpStates /\ writeOp \in OpStates
    /\ writeq \in Seq(Nat) /\ wire \in Seq(Nat)
    /\ sending \in Nat /\ posted \in Nat /\ taken \in 0..posted
    /\ stopper \in SUBSET Threads
    /\ pc \in [Threads -> Locs]
    /\ cur \in [Threads -> Nat]

\* The types of the members; a do_send_packet() call is taken only once (taken).
TypeOK == FlagsOK /\ DataOK

Init ==
    /\ fault = "none"
    /\ closed = FALSE /\ sockOpen = TRUE /\ registered = TRUE
    /\ rbufLive = TRUE /\ stopper = {} /\ ioStopped = FALSE
    /\ readOp = "pending" /\ writeOp = "none"
    /\ writeq = <<>> /\ writing = FALSE /\ sending = 0
    /\ posted = 0 /\ taken = 0 /\ wire = <<>>
    /\ pc = [t \in Threads |-> "idle"]
    /\ cur = [t \in Threads |-> 0]

Goto(t, l) == pc' = [pc EXCEPT ![t] = l]
At(t, l) == fault = "none" /\ pc[t] = l
Ready(t) == At(t, "idle") /\ ~ioStopped

(***************************************************************************)
(* The operating system completes an operation on the open socket; the     *)
(* handler becomes ready.  Closing the socket completes it with an error   *)
(* (CloseSocket below).                                                    *)
(***************************************************************************)
ReadCompletes ==
    /\ fault = "none" /\ readOp = "pending"
    /\ readOp' \in {"ok", "err"}
    /\ UNCHANGED <<fault, writeOp, sending, wire, queueVars, closeVars, pc>>

WriteCompletes ==
    /\ fault = "none" /\ writeOp = "pending"
    /\ \/ writeOp' = "ok" /\ wire' = Append(wire, sending)
       \/ writeOp' = "err" /\ wire' = wire
    /\ UNCHANGED <<fault, readOp, sending, queueVars, closeVars, pc>>

(***************************************************************************)
(* io_context::run(): an idle thread takes a ready handler.                *)
(***************************************************************************)
RunRead(t) ==
    /\ Ready(t) /\ readOp \in {"ok", "err"}
    /\ readOp' = "none"
    /\ Goto(t, IF readOp = "ok" THEN "rd_opened" ELSE "cl_mark")
    /\ UNCHANGED <<fault, writeOp, sending, wire, queueVars, closeVars>>

RunWrite(t) ==
    /\ Ready(t) /\ writeOp \in {"ok", "err"}
    /\ writeOp' = "none"
    /\ Goto(t, IF writeOp = "ok" THEN "wr_pop" ELSE "cl_mark")
    /\ UNCHANGED <<fault, readOp, sending, wire, queueVars, closeVars>>

\* Posted functions start in the order in which they were posted.
RunSend(t) ==
    /\ Ready(t) /\ taken < posted
    /\ taken' = taken + 1
    /\ cur' = [cur EXCEPT ![t] = taken + 1]
    /\ Goto(t, "snd_push")
    /\ UNCHANGED <<fault, writeq, writing, posted, ioVars, closeVars>>

\* The signal handler, once: Server::stop() closes every session that is open,
\* then stops the io_context.
RunStop(t) ==
    /\ Ready(t) /\ stopper = {}
    /\ stopper' = {t}
    /\ Goto(t, IF closed THEN "io_stop" ELSE "cl_mark")
    /\ UNCHANGED <<fault, closed, sockOpen, registered, rbufLive, ioStopped, ioVars, queueVars>>

IoStop(t) ==
    /\ At(t, "io_stop")
    /\ ioStopped' = TRUE
    /\ Goto(t, "idle")
    /\ UNCHANGED <<fault, closed, sockOpen, registered, rbufLive, stopper, ioVars, queueVars>>

(***************************************************************************)
(* The completion handler of do_read(), and do_read() itself.              *)
(***************************************************************************)
\* Mutant: the handler goes on with a session that was closed since the read ended.
ReadIsOpened_NoTest(t) ==
    /\ At(t, "rd_opened")
    /\ Goto(t, "rd_wrote")
    /\ UNCHANGED <<fault, ioVars, queueVars, closeVars>>

\* if (!isOpened()) return;
ReadIsOpened(t) ==
    /\ At(t, "rd_opened")
    /\ Goto(t, IF closed THEN "idle" ELSE "rd_wrote")
    /\ UNCHANGED <<fault, ioVars, queueVars, closeVars>>

\* write_completed(): throws, outside every try block, when the storage is gone.
ReadWriteCompleted(t) ==
    /\ At(t, "rd_wrote")
    /\ IF rbufLive
       THEN fault' = fault /\ Goto(t, "rd_parse")
       ELSE fault' = "uncaught_exception" /\ pc' = pc
    /\ UNCHANGED <<ioVars, queueVars, closeVars>>

\* Mutant: an incomplete packet ends the handler without a further read.
ReadParse_Return(t) ==
    /\ At(t, "rd_parse")
    /\ Goto(t, "idle") \/ (rbufLive /\ Goto(t, "rd_dispatch"))
    /\ UNCHANGED <<fault, ioVars, queueVars, closeVars>>

\* The size tests of process_read_buffer_as_*server(): no complete packet yet,
\* an oversized one (close), or a complete one.  A cleared buffer has no bytes.
ReadParse(t) ==
    /\ At(t, "rd_parse")
    /\ \/ Goto(t, "rd_next")
       \/ rbufLive /\ Goto(t, "cl_mark")
       \/ rbufLive /\ Goto(t, "rd_dispatch")
    /\ UNCHANGED <<fault, ioVars, queueVars, closeVars>>

\* send_packet(): dropped when closed, otherwise posted.
send_packet ==
    /\ posted' = IF closed THEN posted ELSE posted + 1
    /\ UNCHANGED <<writeq, writing, taken, cur>>

\* read_completed() throws like write_completed(); dispatch() then replies,
\* does nothing (CMSG_MESSAGE, an unknown opcode), or throws into the reader's
\* catch block, which closes.
ReadDispatch(t) ==
    /\ At(t, "rd_dispatch")
    /\ \/ ~rbufLive /\ fault' = "uncaught_exception" /\ UNCHANGED <<pc, queueVars>>
       \/ /\ rbufLive /\ fault' = fault
          /\ \/ posted < MaxPackets /\ send_packet /\ Goto(t, "rd_next")
             \/ Goto(t, "rd_next") /\ UNCHANGED queueVars
             \/ Goto(t, "cl_mark") /\ UNCHANGED queueVars
    /\ UNCHANGED <<ioVars, closeVars>>

\* if (isOpened()) do_read();
ReadNext(t) ==
    /\ At(t, "rd_next")
    /\ Goto(t, IF closed THEN "idle" ELSE "do_read")
    /\ UNCHANGED <<fault, ioVars, queueVars, closeVars>>

\* ensure_free_space() gives the buffer storage again; a read on a closed
\* socket completes at once with an error.
do_read(t) ==
    /\ At(t, "do_read")
    /\ rbufLive' = TRUE
    /\ readOp' = IF sockOpen THEN "pending" ELSE "err"
    /\ Goto(t, "idle")
    /\ UNCHANGED <<fault, writeOp, sending, wire, queueVars, closed, sockOpen, registered, stopper, ioStopped>>

(***************************************************************************)
(* do_send_packet(), do_write() and the completion handler of do_write().  *)
(***************************************************************************)
\* Mutant: push_front() for push_back().
SendPush_Front(t) ==
    /\ At(t, "snd_push")
    /\ writeq' = <<cur[t]>> \o writeq
    /\ Goto(t, "snd_test")
    /\ UNCHANGED <<fault, writing, posted, taken, cur, ioVars, closeVars>>

SendPush(t) ==
    /\ At(t, "snd_push")
    /\ writeq' = Append(writeq, cur[t])
    /\ Goto(t, "snd_test")
    /\ UNCHANGED <<fault, writing, posted, taken, cur, ioVars, closeVars>>

SendTest(t) ==
    /\ At(t, "snd_test")
    /\ Goto(t, IF writing THEN "idle" ELSE "dw_test")
    /\ UNCHANGED <<fault, ioVars, queueVars, closeVars>>

\* Mutant: the completion handler pops but does not start the next write.
WritePop_NoNext(t) ==
    /\ At(t, "wr_pop") /\ writeq # <<>>
    /\ writeq' = Tail(writeq)
    /\ Goto(t, "idle")
    /\ UNCHANGED <<fault, writing, posted, taken, cur, ioVars, closeVars>>

\* pop_front() of an empty deque is undefined.
WritePop(t) ==
    /\ At(t, "wr_pop")
    /\ IF writeq = <<>>
       THEN fault' = "empty_deque" /\ UNCHANGED <<writeq, pc>>
       ELSE fault' = fault /\ writeq' = Tail(writeq) /\ Goto(t, "dw_test")
    /\ UNCHANGED <<writing, posted, taken, cur, ioVars, closeVars>>

\* Mutant: writing_ is not reset when the queue has run empty.
DoWriteTest_NoReset(t) ==
    /\ At(t, "dw_test")
    /\ writing' = TRUE
    /\ Goto(t, IF writeq = <<>> THEN "idle" ELSE "dw_issue")
    /\ UNCHANGED <<fault, writeq, posted, taken, cur, ioVars, closeVars>>

DoWriteTest(t) ==
    /\ At(t, "dw_test")
    /\ \/ writeq = <<>> /\ writing' = FALSE /\ Goto(t, "idle")
       \/ writeq # <<>> /\ writing' = TRUE /\ Goto(t, "dw_issue")
    /\ UNCHANGED <<fault, writeq, posted, taken, cur, ioVars, closeVars>>

\* async_write() requires that no other write of the socket is in progress,
\* and front() that the deque still has an element.
DoWriteIssue(t) ==
    /\ At(t, "dw_issue")
    /\ \/ writeq = <<>> /\ fault' = "empty_deque" /\ UNCHANGED <<writeOp, sending, pc>>
       \/ writeOp # "none" /\ fault' = "overlapping_writes" /\ UNCHANGED <<writeOp, sending, pc>>
       \/ /\ writeq # <<>> /\ writeOp = "none" /\ fault' = fault
          /\ writeOp' = IF sockOpen THEN "pending" ELSE "err"
          /\ sending' = Head(writeq)
          /\ Goto(t, "idle")
    /\ UNCHANGED <<readOp, wire, queueVars, closeVars>>

(***************************************************************************)
(* close().  A handler that calls it ends with it; Server::stop() goes on. *)
(***************************************************************************)
Return(t) == Goto(t, IF t \in stopper THEN "io_stop" ELSE "idle")

\* Mutant: closed_ is set without testing its old value.
CloseMark_NoTest(t) ==
    /\ At(t, "cl_mark")
    /\ closed' = TRUE
    /\ Goto(t, "cl_sock")
    /\ UNCHANGED <<fault, sockOpen, registered, rbufLive, stopper, ioStopped, ioVars, queueVars>>

\* Mutant: closed_ is tested and not set.
CloseMark_Unset(t) ==
    /\ At(t, "cl_mark")
    /\ IF closed THEN Return(t) ELSE Goto(t, "cl_sock")
    /\ UNCHANGED <<fault, closeVars, ioVars, queueVars>>

\* if (closed_.exchange(true)) return;
CloseMark(t) ==
    /\ At(t, "cl_mark")
    /\ closed' = TRUE
    /\ IF closed THEN Return(t) ELSE Goto(t, "cl_sock")
    /\ UNCHANGED <<fault, sockOpen, registered, rbufLive, stopper, ioStopped, ioVars, queueVars>>

Abort(op) == IF op = "pending" THEN "err" ELSE op

\* Mutant: the session gives up its socket without closing it.
CloseSocket_Forgotten(t) ==
    /\ At(t, "cl_sock")
    /\ Goto(t, "cl_rbuf")
    /\ UNCHANGED <<fault, closeVars, ioVars, queueVars>>

\* cancel(), shutdown(), close() of the socket: pending operations abort.
CloseSocket(t) ==
    /\ At(t, "cl_sock")
    /\ sockOpen' = FALSE
    /\ readOp' = Abort(readOp) /\ writeOp' = Abort(writeOp)
    /\ Goto(t, "cl_rbuf")
    /\ UNCHANGED <<fault, closed, registered, rbufLive, stopper, ioStopped, sending, wire, queueVars>>

CloseReadBuffer(t) ==
    /\ At(t, "cl_rbuf")
    /\ rbufLive' = FALSE
    /\ Goto(t, "cl_wqueue")
    /\ UNCHANGED <<fault, closed, sockOpen, registered, stopper, ioStopped, ioVars, queueVars>>

CloseWriteQueue(t) ==
    /\ At(t, "cl_wqueue")
    /\ writeq' = <<>>
    /\ Goto(t, "cl_remove")
    /\ UNCHANGED <<fault, writing, posted, taken, cur, ioVars, closeVars>>

\* server_->remove_session(shared_from_this()), under sessions_mutex_.
CloseRemove(t) ==
    /\ At(t, "cl_remove")
    /\ registered' = FALSE
    /\ Return(t)
    /\ UNCHANGED <<fault, closed, sockOpen, rbufLive, stopper, ioStopped, ioVars, queueVars>>

(***************************************************************************)
(* Unsynchronised accesses to one member (or to socket_) by two threads.   *)
(* Of the outcomes of a data race the model has the interleavings, and     *)
(* this step for all the others.                                           *)
(***************************************************************************)
QueueAccess  == WriteLocs \cup {"cl_wqueue"}
BufferAccess == {"rd_wrote", "rd_parse", "rd_dispatch", "do_read", "cl_rbuf"}
SocketAccess == {"do_read", "dw_issue", "cl_sock"}

Conflict(a, b) ==
    \/ {a, b} \subseteq QueueAccess /\ {a, b} # {"snd_test"}
    \/ {a, b} \subseteq BufferAccess
    \/ {a, b} \subseteq SocketAccess

DataRace ==
    /\ fault = "none"
    /\ \E t, u \in Threads : t # u /\ Conflict(pc[t], pc[u])
    /\ fault' = "data_race"
    /\ UNCHANGED <<ioVars, queueVars, closeVars, pc>>

Run(t) == RunRead(t) \/ RunWrite(t) \/ RunSend(t) \/ RunStop(t)

ReadStep(t) == ReadIsOpened(t) \/ ReadWriteCompleted(t) \/ ReadParse(t)
               \/ ReadDispatch(t) \/ ReadNext(t) \/ do_read(t)
WriteStep(t) == SendPush(t) \/ SendTest(t) \/ WritePop(t) \/ DoWriteTest(t) \/ DoWriteIssue(t)
close(t) == CloseMark(t) \/ CloseSocket(t) \/ CloseReadBuffer(t) \/ CloseWriteQueue(t) \/ CloseRemove(t)

\* A thread inside a handler goes on with it.
Step(t) == ReadStep(t) \/ WriteStep(t) \/ close(t) \/ IoStop(t)

Next ==
    \/ ReadCompletes \/ WriteCompletes \/ DataRace
    \/ \E t \in Threads : Run(t) \/ Step(t)

Spec == Init /\ [][Next]_vars

(***************************************************************************)
(* Fairness.  A thread that runs a handler goes on with it, and io_context *)
(* takes ready handlers from a FIFO, so a handler that stays ready is run  *)
(* although the threads are busy in between (strong fairness).  That a     *)
(* write ends, in success or error, is an assumption on the peer and its   *)
(* TCP connection: the code sets no timeout.  Reads need not complete.     *)
(***************************************************************************)
Fairness ==
    /\ \A t \in Threads : WF_vars(Step(t))
    /\ SF_vars(\E t \in Threads : RunRead(t))
    /\ SF_vars(\E t \in Threads : RunWrite(t))
    /\ SF_vars(\E t \in Threads : RunSend(t))
    /\ WF_vars(WriteCompletes)

FairSpec == Spec /\ Fairness

-----------------------------------------------------------------------------
(***************************************************************************)
(* Properties for every number of threads.                                 *)
(***************************************************************************)
Readers == {t \in Threads : pc[t] \in ReadLocs}

\* do_read() is re-armed exactly once per completion: there is never a second
\* reader of the session, and an open session is never left with none (its next
\* read is outstanding, a thread is in the handler, or a thread is about to close).
SingleReadChain ==
    fault = "none" =>
        /\ \A t, u \in Readers : t = u
        /\ readOp # "none" => Readers = {}
        /\ ~closed => \/ readOp # "none" \/ Readers # {}
                      \/ \E t \in Threads : pc[t] = "cl_mark"

\* closed_.exchange() lets one thread through: however many threads call close(),
\* its body runs once, and a session leaves Server::sessions_ only at the end of it,
\* with its socket closed.
CloseRunsOnce ==
    /\ \A t, u \in Threads : pc[t] \in CloseBody /\ pc[u] \in CloseBody => t = u
    /\ \A t \in Threads : pc[t] \in CloseBody => closed /\ registered
    /\ ~registered => closed /\ ~sockOpen

\* Between the isOpened() of the read handler and its write_completed() or
\* read_completed() another thread may close the session and clear the buffer; only
\* then does an exception leave io_context::run(), never from an open session.
ThrowsOnlyClosed == fault = "uncaught_exception" => closed

(***************************************************************************)
(* Properties with one I/O thread.                                         *)
(***************************************************************************)
Channel == INSTANCE ReplyChannel
           WITH accepted <- posted, delivered <- wire, open <- sockOpen

\* The write queue, writing_ and the chain of async_write completions implement an
\* ordered channel: replies reach the peer in the order in which send_packet()
\* accepted them, none left out and none repeated, and none after the socket closed.
OrderedReplies == Channel!Spec

\* README: "All socket writes are guarded against race conditions."  writing_ keeps
\* do_write() from starting an async_write while another is in progress.
SocketWritesGuarded == fault # "overlapping_writes"

\* Between handlers, an open session with queued packets always has a write in
\* progress (or its completion ready), writing_ says so, and every reply posted is
\* on the wire, in the queue or still to be taken by do_send_packet().
WriterAwake ==
    (fault = "none" /\ ~closed /\ \A t \in Threads : pc[t] = "idle") =>
        /\ writing <=> writeq # <<>>
        /\ writing <=> writeOp # "none"
        /\ taken = Len(wire) + Len(writeq) - (IF writeOp = "ok" THEN 1 ELSE 0)

\* The handler of a read that was queued when close() cleared the buffer finds the
\* session closed, and leaves before write_completed() or read_completed() could
\* throw out of io_context::run().
NoUncaughtException == fault # "uncaught_exception"

\* README: "Safe async write queue for each client."  pop_front() and front() are
\* only applied to a queue that has an element.
WriteQueueSafe == fault # "empty_deque"

\* Every reply accepted by send_packet() reaches the peer unless the session closes.
RepliesDelivered ==
    \A k \in 1..MaxPackets :
        posted >= k ~> (\E i \in DOMAIN wire : wire[i] = k) \/ closed \/ fault # "none"

\* README: "No leaks in the async read/write chain."  A closed session is eventually
\* out of sessions_ with no operation and no posted function left to keep it alive
\* (after io_context_.stop() these are destroyed with the io_context).
ClosedIsReleased ==
    closed ~> \/ fault # "none"
              \/ ioStopped
              \/ ~registered /\ readOp = "none" /\ writeOp = "none" /\ taken = posted
=============================================================================
