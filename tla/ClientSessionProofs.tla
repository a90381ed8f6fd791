------------------------ MODULE ClientSessionProofs ------------------------
(***************************************************************************)
(* Proofs about module ClientSession, for every set of threads and every   *)
(* bound on the replies.                                                   *)
(***************************************************************************)
EXTENDS ClientSession, TLAPS

(***************************************************************************)
(* The inductive invariants.  CloseInv strengthens CloseRunsOnce: the      *)
(* thread that won closed_.exchange() is the only one inside close(), the  *)
(* socket stays open until it passes "cl_sock", and no operation is        *)
(* pending on a closed socket.                                             *)
(***************************************************************************)
CloseInv ==
    /\ \A t, u \in Threads : pc[t] \in CloseBody /\ pc[u] \in CloseBody => t = u
    /\ \A t \in Threads : pc[t] \in CloseBody => closed /\ registered
    /\ \A t \in Threads : pc[t] \in CloseBody => (sockOpen <=> pc[t] = "cl_sock")
    /\ ~registered => closed /\ ~sockOpen
    /\ ~closed => sockOpen
    /\ closed /\ sockOpen => \E t \in Threads : pc[t] = "cl_sock"
    /\ ~sockOpen => readOp # "pending" /\ writeOp # "pending"

(***************************************************************************)
(* WriteInv holds with one thread.  Until close() clears write_queue_      *)
(* (Intact), the queue holds the packets after the Popped first ones, in   *)
(* order, and the packet being written is the first of them; writing_ is   *)
(* set while a write is under way, so a second one is never started.       *)
(***************************************************************************)
Intact == ~closed \/ \E t \in Threads : pc[t] \in {"cl_sock", "cl_rbuf", "cl_wqueue"}

Popped == IF writeOp = "ok" \/ \E t \in Threads : pc[t] = "wr_pop" THEN Len(wire) - 1 ELSE Len(wire)

Pushed == IF \E t \in Threads : pc[t] = "snd_push" THEN taken - 1 ELSE taken

WriteInv ==
    /\ fault \notin {"overlapping_writes", "data_race"}
    /\ writeOp # "none" => writing
    /\ \A t \in Threads : pc[t] \in {"wr_pop", "dw_test", "dw_issue"} => writeOp = "none"
    /\ \A t \in Threads : pc[t] \in {"wr_pop", "dw_issue"} => writing
    /\ \A t \in Threads : pc[t] = "snd_push" => cur[t] = taken
    /\ Intact => /\ Pushed = Popped + Len(writeq)
                 /\ \A i \in 1..Len(writeq) : writeq[i] = Popped + i
                 /\ writeOp # "none" => writeq # <<>> /\ sending = Popped + 1
                 /\ \A t \in Threads : pc[t] \in {"wr_pop", "dw_issue"} => writeq # <<>>
                 /\ (\A t \in Threads : pc[t] \in {"idle", "snd_push", "snd_test", "io_stop"} \cup ReadLocs)
                        => (writing <=> writeOp # "none")
                 /\ (\A t \in Threads : pc[t] \in {"idle", "snd_push", "io_stop"} \cup ReadLocs)
                        => (writeq # <<>> => writing)

(***************************************************************************)
(* Type correctness.  The Boolean members are left to Zenon, the others to *)
(* the SMT solver.                                                         *)
(***************************************************************************)
LEMMA NextFlags == FlagsOK /\ [Next]_vars => FlagsOK'
<1> SUFFICES ASSUME FlagsOK, [Next]_vars PROVE FlagsOK'
    OBVIOUS
<1> USE DEF FlagsOK, ioVars, queueVars, closeVars
<1>1. CASE ReadCompletes \/ WriteCompletes \/ DataRace
      BY <1>1, Zenon DEF ReadCompletes, WriteCompletes, DataRace
<1>2. ASSUME NEW t \in Threads, Run(t) PROVE FlagsOK'
      BY <1>2, Zenon DEF Run, RunRead, RunWrite, RunSend, RunStop
<1>3. ASSUME NEW t \in Threads, ReadStep(t) PROVE FlagsOK'
      BY <1>3, Zenon DEF ReadStep, ReadIsOpened, ReadWriteCompleted, ReadParse, ReadDispatch,
                         send_packet, ReadNext, do_read
<1>4. ASSUME NEW t \in Threads, WriteStep(t) PROVE FlagsOK'
      BY <1>4, Zenon DEF WriteStep, SendPush, SendTest, WritePop, DoWriteTest, DoWriteIssue
<1>5. ASSUME NEW t \in Threads, close(t) \/ IoStop(t) PROVE FlagsOK'
      BY <1>5, Zenon DEF close, CloseMark, CloseSocket, CloseReadBuffer, CloseWriteQueue,
                         CloseRemove, IoStop
<1>6. CASE UNCHANGED vars
      BY <1>6, Zenon DEF vars
<1> QED BY <1>1, <1>2, <1>3, <1>4, <1>5, <1>6 DEF Next, Step

\* Appending to a sequence of packet numbers.
LEMMA AppendNat ==
    ASSUME NEW s \in Seq(Nat), NEW n \in Nat
    PROVE  /\ Append(s, n) \in Seq(Nat)
           /\ Len(s) \in Nat /\ Len(Append(s, n)) = Len(s) + 1
           /\ \A i \in 1..Len(s) : Append(s, n)[i] = s[i]
           /\ Append(s, n)[Len(s) + 1] = n
OBVIOUS

\* Taking the first of a sequence of packet numbers.
LEMMA TailNat ==
    ASSUME NEW s \in Seq(Nat), s # <<>>
    PROVE  /\ Tail(s) \in Seq(Nat) /\ Head(s) \in Nat
           /\ Len(s) \in Nat \ {0} /\ Len(Tail(s)) = Len(s) - 1
           /\ \A i \in 1..(Len(s) - 1) : Tail(s)[i] = s[i + 1]
           /\ Head(s) = s[1]
OBVIOUS

\* Every step keeps the types.
LEMMA NextData == DataOK /\ [Next]_vars => DataOK'
<1> SUFFICES ASSUME DataOK, [Next]_vars PROVE DataOK'
    OBVIOUS
<1> USE DEF DataOK, Faults, OpStates, Locs, ReadLocs, WriteLocs, CloseBody,
            At, Ready, Goto, ioVars, queueVars, closeVars
<1>1. CASE ReadCompletes
      BY <1>1 DEF ReadCompletes
<1>2. CASE WriteCompletes
      <2>1. Append(wire, sending) \in Seq(Nat)
            BY AppendNat
      <2> QED BY <1>2, <2>1, Zenon DEF WriteCompletes
<1>3. CASE DataRace
      BY <1>3 DEF DataRace
<1>4. ASSUME NEW t \in Threads, RunRead(t) PROVE DataOK'
      BY <1>4 DEF RunRead
<1>5. ASSUME NEW t \in Threads, RunWrite(t) PROVE DataOK'
      BY <1>5 DEF RunWrite
<1>6. ASSUME NEW t \in Threads, RunSend(t) PROVE DataOK'
      BY <1>6 DEF RunSend
<1>7. ASSUME NEW t \in Threads, RunStop(t) PROVE DataOK'
      BY <1>7 DEF RunStop
<1>8. ASSUME NEW t \in Threads, ReadIsOpened(t) PROVE DataOK'
      BY <1>8 DEF ReadIsOpened
<1>9. ASSUME NEW t \in Threads, ReadWriteCompleted(t) PROVE DataOK'
      BY <1>9, Zenon DEF ReadWriteCompleted
<1>10. ASSUME NEW t \in Threads, ReadParse(t) PROVE DataOK'
      BY <1>10, Zenon DEF ReadParse
<1>11. ASSUME NEW t \in Threads, ReadDispatch(t) PROVE DataOK'
      <2>1. posted' \in Nat /\ taken' \in 0..posted'
            BY <1>11 DEF ReadDispatch, send_packet
      <2>2. fault' \in Faults /\ pc' \in [Threads -> Locs]
            BY <1>11, Zenon DEF ReadDispatch
      <2> QED BY <1>11, <2>1, <2>2 DEF ReadDispatch, send_packet
<1>12. ASSUME NEW t \in Threads, ReadNext(t) PROVE DataOK'
      BY <1>12 DEF ReadNext
<1>13. ASSUME NEW t \in Threads, do_read(t) PROVE DataOK'
      BY <1>13 DEF do_read
<1>14. ASSUME NEW t \in Threads, SendPush(t) PROVE DataOK'
      BY <1>14, AppendNat DEF SendPush
<1>15. ASSUME NEW t \in Threads, SendTest(t) PROVE DataOK'
      BY <1>15 DEF SendTest
<1>16. ASSUME NEW t \in Threads, WritePop(t) PROVE DataOK'
      BY <1>16, TailNat, Zenon DEF WritePop
<1>17. ASSUME NEW t \in Threads, DoWriteTest(t) PROVE DataOK'
      BY <1>17, Zenon DEF DoWriteTest
<1>18. ASSUME NEW t \in Threads, DoWriteIssue(t) PROVE DataOK'
      BY <1>18, TailNat, Zenon DEF DoWriteIssue
<1>19. ASSUME NEW t \in Threads, CloseMark(t) PROVE DataOK'
      BY <1>19, Zenon DEF CloseMark, Return
<1>20. ASSUME NEW t \in Threads, CloseSocket(t) PROVE DataOK'
      BY <1>20 DEF CloseSocket, Abort
<1>21. ASSUME NEW t \in Threads, CloseReadBuffer(t) PROVE DataOK'
      BY <1>21 DEF CloseReadBuffer
<1>22. ASSUME NEW t \in Threads, CloseWriteQueue(t) PROVE DataOK'
      BY <1>22 DEF CloseWriteQueue
<1>23. ASSUME NEW t \in Threads, CloseRemove(t) PROVE DataOK'
      BY <1>23 DEF CloseRemove, Return
<1>24. ASSUME NEW t \in Threads, IoStop(t) PROVE DataOK'
      BY <1>24 DEF IoStop
<1>25. CASE UNCHANGED vars
      BY <1>25 DEF vars
<1> QED BY <1>1, <1>2, <1>3, <1>4, <1>5, <1>6, <1>7, <1>8, <1>9, <1>10, <1>11, <1>12, <1>13,
           <1>14, <1>15, <1>16, <1>17, <1>18, <1>19, <1>20, <1>21, <1>22, <1>23, <1>24, <1>25
        DEF Next, Run, Step, ReadStep, WriteStep, close

\* Spec keeps every member of ClientSession in its type, and no posted
\* do_send_packet() call is run twice.
THEOREM TypeCorrect == Spec => []TypeOK
<1>1. Init => FlagsOK
      BY Zenon DEF Init, FlagsOK
<1>2. Init => DataOK
      BY DEF Init, DataOK, Faults, OpStates, Locs
<1> QED BY <1>1, <1>2, NextFlags, NextData, PTL DEF Spec, TypeOK

(***************************************************************************)
(* close(), for any number of threads.                                     *)
(***************************************************************************)
\* A step of thread t outside close() that stays outside it.
LEMMA CloseFrame ==
    ASSUME CloseInv, pc \in [Threads -> Locs],
           NEW t \in Threads, NEW l \in Locs \ CloseBody, pc[t] \notin CloseBody,
           pc' = [pc EXCEPT ![t] = l],
           UNCHANGED <<closed, sockOpen, registered>>,
           ~sockOpen => readOp' # "pending" /\ writeOp' # "pending"
    PROVE  CloseInv'
<1>1. \A u \in Threads : pc'[u] \in CloseBody \/ pc[u] \in CloseBody => pc'[u] = pc[u]
      OBVIOUS
<1>2. \A u \in Threads : pc'[u] = "cl_sock" <=> pc[u] = "cl_sock"
      BY <1>1 DEF CloseBody
<1> QED BY <1>1, <1>2 DEF CloseInv

\* Every step keeps the body of close() to the thread that won closed_.exchange.
LEMMA NextClose == DataOK /\ CloseInv /\ [Next]_vars => CloseInv'
<1> SUFFICES ASSUME DataOK, CloseInv, [Next]_vars PROVE CloseInv'
    OBVIOUS
<1> USE DEF DataOK, CloseInv, Locs, ReadLocs, WriteLocs, CloseBody, At, Ready, Goto,
            ioVars, queueVars, closeVars
<1>1. CASE ReadCompletes
      BY <1>1 DEF ReadCompletes
<1>2. CASE WriteCompletes
      BY <1>2 DEF WriteCompletes
<1>3. CASE DataRace
      BY <1>3 DEF DataRace
<1>4. ASSUME NEW t \in Threads, RunRead(t) PROVE CloseInv'
      BY <1>4 DEF RunRead
<1>5. ASSUME NEW t \in Threads, RunWrite(t) PROVE CloseInv'
      BY <1>5 DEF RunWrite
<1>6. ASSUME NEW t \in Threads, RunSend(t) PROVE CloseInv'
      BY <1>6 DEF RunSend
<1>7. ASSUME NEW t \in Threads, RunStop(t) PROVE CloseInv'
      BY <1>7 DEF RunStop
<1>8. ASSUME NEW t \in Threads, ReadIsOpened(t) PROVE CloseInv'
      BY <1>8 DEF ReadIsOpened
<1>9. ASSUME NEW t \in Threads, ReadWriteCompleted(t) PROVE CloseInv'
      <2>1. PICK l \in {"rd_wrote", "rd_parse"} : pc' = [pc EXCEPT ![t] = l]
            BY <1>9 DEF ReadWriteCompleted
      <2>2. /\ pc[t] \notin CloseBody /\ UNCHANGED <<closed, sockOpen, registered>>
            /\ ~sockOpen => readOp' # "pending" /\ writeOp' # "pending"
            BY <1>9 DEF ReadWriteCompleted
      <2> HIDE DEF CloseInv
      <2> QED BY <2>1, <2>2, CloseFrame, Zenon
<1>10. ASSUME NEW t \in Threads, ReadParse(t) PROVE CloseInv'
      <2>1. PICK l \in {"rd_next", "cl_mark", "rd_dispatch"} : pc' = [pc EXCEPT ![t] = l]
            BY <1>10 DEF ReadParse
      <2>2. /\ pc[t] \notin CloseBody /\ UNCHANGED <<closed, sockOpen, registered>>
            /\ ~sockOpen => readOp' # "pending" /\ writeOp' # "pending"
            BY <1>10 DEF ReadParse
      <2> HIDE DEF CloseInv
      <2> QED BY <2>1, <2>2, CloseFrame, Zenon
<1>11. ASSUME NEW t \in Threads, ReadDispatch(t) PROVE CloseInv'
      <2>1. PICK l \in {"rd_dispatch", "rd_next", "cl_mark"} : pc' = [pc EXCEPT ![t] = l]
            BY <1>11 DEF ReadDispatch
      <2>2. /\ pc[t] \notin CloseBody /\ UNCHANGED <<closed, sockOpen, registered>>
            /\ ~sockOpen => readOp' # "pending" /\ writeOp' # "pending"
            BY <1>11 DEF ReadDispatch
      <2> HIDE DEF CloseInv
      <2> QED BY <2>1, <2>2, CloseFrame, Zenon
<1>12. ASSUME NEW t \in Threads, ReadNext(t) PROVE CloseInv'
      BY <1>12 DEF ReadNext
<1>13. ASSUME NEW t \in Threads, do_read(t) PROVE CloseInv'
      BY <1>13 DEF do_read
<1>14. ASSUME NEW t \in Threads, SendPush(t) PROVE CloseInv'
      BY <1>14 DEF SendPush
<1>15. ASSUME NEW t \in Threads, SendTest(t) PROVE CloseInv'
      BY <1>15 DEF SendTest
<1>16. ASSUME NEW t \in Threads, WritePop(t) PROVE CloseInv'
      <2>1. PICK l \in {"wr_pop", "dw_test"} : pc' = [pc EXCEPT ![t] = l]
            BY <1>16 DEF WritePop
      <2>2. /\ pc[t] \notin CloseBody /\ UNCHANGED <<closed, sockOpen, registered>>
            /\ ~sockOpen => readOp' # "pending" /\ writeOp' # "pending"
            BY <1>16 DEF WritePop
      <2> HIDE DEF CloseInv
      <2> QED BY <2>1, <2>2, CloseFrame, Zenon
<1>17. ASSUME NEW t \in Threads, DoWriteTest(t) PROVE CloseInv'
      <2>1. PICK l \in {"idle", "dw_issue"} : pc' = [pc EXCEPT ![t] = l]
            BY <1>17 DEF DoWriteTest
      <2>2. /\ pc[t] \notin CloseBody /\ UNCHANGED <<closed, sockOpen, registered>>
            /\ ~sockOpen => readOp' # "pending" /\ writeOp' # "pending"
            BY <1>17 DEF DoWriteTest
      <2> HIDE DEF CloseInv
      <2> QED BY <2>1, <2>2, CloseFrame, Zenon
<1>18. ASSUME NEW t \in Threads, DoWriteIssue(t) PROVE CloseInv'
      <2>1. PICK l \in {"dw_issue", "idle"} : pc' = [pc EXCEPT ![t] = l]
            BY <1>18 DEF DoWriteIssue
      <2>2. /\ pc[t] \notin CloseBody /\ UNCHANGED <<closed, sockOpen, registered>>
            /\ ~sockOpen => readOp' # "pending" /\ writeOp' # "pending"
            BY <1>18 DEF DoWriteIssue
      <2> HIDE DEF CloseInv
      <2> QED BY <2>1, <2>2, CloseFrame, Zenon
<1>19. ASSUME NEW t \in Threads, CloseMark(t) PROVE CloseInv'
      <2> closed'
          BY <1>19 DEF CloseMark
      <2>1. CASE closed
            BY <1>19, <2>1 DEF CloseMark, Return
      <2>2. CASE ~closed
            <3>1. pc' = [pc EXCEPT ![t] = "cl_sock"]
                  BY <1>19, <2>2 DEF CloseMark
            <3>2. \A u \in Threads : pc[u] \notin CloseBody
                  BY <2>2
            <3>3. UNCHANGED <<sockOpen, registered, readOp, writeOp>> /\ sockOpen
                  BY <1>19, <2>2 DEF CloseMark
            <3> QED BY <3>1, <3>2, <3>3, <2>2
      <2> QED BY <2>1, <2>2
<1>20. ASSUME NEW t \in Threads, CloseSocket(t) PROVE CloseInv'
      BY <1>20 DEF CloseSocket, Abort
<1>21. ASSUME NEW t \in Threads, CloseReadBuffer(t) PROVE CloseInv'
      BY <1>21 DEF CloseReadBuffer
<1>22. ASSUME NEW t \in Threads, CloseWriteQueue(t) PROVE CloseInv'
      BY <1>22 DEF CloseWriteQueue
<1>23. ASSUME NEW t \in Threads, CloseRemove(t) PROVE CloseInv'
      BY <1>23 DEF CloseRemove, Return
<1>24. ASSUME NEW t \in Threads, IoStop(t) PROVE CloseInv'
      BY <1>24 DEF IoStop
<1>25. CASE UNCHANGED vars
      BY <1>25 DEF vars
<1> QED BY <1>1, <1>2, <1>3, <1>4, <1>5, <1>6, <1>7, <1>8, <1>9, <1>10, <1>11, <1>12, <1>13,
           <1>14, <1>15, <1>16, <1>17, <1>18, <1>19, <1>20, <1>21, <1>22, <1>23, <1>24, <1>25, Zenon
        DEF Next, Run, Step, ReadStep, WriteStep, close

\* The invariant of close() holds always.
LEMMA CloseInvariant == Spec => []CloseInv
<1>1. Init => CloseInv
      BY DEF Init, CloseInv, CloseBody
<1>2. Init => DataOK
      BY DEF Init, DataOK, Faults, OpStates, Locs
<1> QED BY <1>1, <1>2, NextData, NextClose, PTL DEF Spec

\* However many threads call close() on a session, one runs its body, and the session
\* is in Server::sessions_ until that thread, with the socket closed, removes it.
THEOREM CloseOnce == Spec => []CloseRunsOnce
<1>1. CloseInv => CloseRunsOnce
      BY DEF CloseInv, CloseRunsOnce
<1> QED BY <1>1, CloseInvariant, PTL

(***************************************************************************)
(* The read loop, for any number of threads: SingleReadChain is inductive. *)
(***************************************************************************)
\* A step of thread t that starts no read chain, and ends one only to close.
LEMMA ReadFrame ==
    ASSUME SingleReadChain, fault = "none", pc \in [Threads -> Locs],
           NEW t \in Threads, NEW l \in Locs, pc' = [pc EXCEPT ![t] = l],
           readOp' # "none" <=> readOp # "none",
           closed => closed',
           l \in ReadLocs => pc[t] \in ReadLocs,
           pc[t] \in ReadLocs => l \in ReadLocs \cup {"cl_mark"} \/ closed',
           pc[t] = "cl_mark" => closed'
    PROVE  SingleReadChain'
<1>1. Readers' \subseteq Readers
      BY DEF Readers
<1>2. /\ \A u, v \in Readers' : u = v
      /\ readOp' # "none" => Readers' = {}
      BY <1>1 DEF SingleReadChain
<1>3. ASSUME ~closed', readOp' = "none"
      PROVE  Readers' # {} \/ \E u \in Threads : pc'[u] = "cl_mark"
      <2>1. CASE Readers # {}
            <3>1. PICK u \in Threads : pc[u] \in ReadLocs
                  BY <2>1 DEF Readers
            <3> QED BY <1>3, <3>1 DEF Readers
      <2>2. CASE \E u \in Threads : pc[u] = "cl_mark"
            BY <1>3, <2>2
      <2> QED BY <1>3, <2>1, <2>2 DEF SingleReadChain
<1> QED BY <1>2, <1>3 DEF SingleReadChain

\* Every step keeps the one chain of reads.
LEMMA NextRead == DataOK /\ SingleReadChain /\ [Next]_vars => SingleReadChain'
<1> SUFFICES ASSUME DataOK, SingleReadChain, [Next]_vars PROVE SingleReadChain'
    OBVIOUS
<1> USE DEF DataOK, Locs, ReadLocs, WriteLocs, CloseBody, At, Ready,
            Goto, ioVars, queueVars, closeVars
<1>1. CASE ReadCompletes
      BY <1>1 DEF SingleReadChain, Readers, ReadCompletes
<1>2. CASE WriteCompletes
      BY <1>2 DEF SingleReadChain, Readers, WriteCompletes
<1>3. CASE DataRace
      BY <1>3 DEF SingleReadChain, Readers, DataRace
<1>4. ASSUME NEW t \in Threads, RunRead(t) PROVE SingleReadChain'
      BY <1>4 DEF SingleReadChain, Readers, RunRead
<1>5. ASSUME NEW t \in Threads, RunWrite(t) PROVE SingleReadChain'
      BY <1>5 DEF SingleReadChain, Readers, RunWrite
<1>6. ASSUME NEW t \in Threads, RunSend(t) PROVE SingleReadChain'
      BY <1>6 DEF SingleReadChain, Readers, RunSend
<1>7. ASSUME NEW t \in Threads, RunStop(t) PROVE SingleReadChain'
      BY <1>7 DEF SingleReadChain, Readers, RunStop
<1>8. ASSUME NEW t \in Threads, ReadIsOpened(t) PROVE SingleReadChain'
      BY <1>8 DEF SingleReadChain, Readers, ReadIsOpened
<1>9. ASSUME NEW t \in Threads, ReadWriteCompleted(t) PROVE SingleReadChain'
      BY <1>9 DEF SingleReadChain, Readers, ReadWriteCompleted
<1>10. ASSUME NEW t \in Threads, ReadParse(t) PROVE SingleReadChain'
      <2>1. CASE fault' # "none"
            BY <2>1 DEF SingleReadChain
      <2>2. CASE fault' = "none"
            <3>1. PICK l \in {"rd_next", "cl_mark", "rd_dispatch"} : pc' = [pc EXCEPT ![t] = l]
                  BY <1>10, <2>2 DEF ReadParse
            <3>2. fault = "none" /\ pc[t] = "rd_parse" /\ UNCHANGED <<readOp, closed>>
                  BY <1>10 DEF ReadParse
            <3> QED BY <3>1, <3>2, ReadFrame, Zenon
      <2> QED BY <2>1, <2>2
<1>11. ASSUME NEW t \in Threads, ReadDispatch(t) PROVE SingleReadChain'
      <2>1. CASE fault' # "none"
            BY <2>1 DEF SingleReadChain
      <2>2. CASE fault' = "none"
            <3>1. PICK l \in {"rd_next", "cl_mark"} : pc' = [pc EXCEPT ![t] = l]
                  BY <1>11, <2>2 DEF ReadDispatch
            <3>2. fault = "none" /\ pc[t] = "rd_dispatch" /\ UNCHANGED <<readOp, closed>>
                  BY <1>11 DEF ReadDispatch
            <3> QED BY <3>1, <3>2, ReadFrame, Zenon
      <2> QED BY <2>1, <2>2
<1>12. ASSUME NEW t \in Threads, ReadNext(t) PROVE SingleReadChain'
      BY <1>12 DEF SingleReadChain, Readers, ReadNext
<1>13. ASSUME NEW t \in Threads, do_read(t) PROVE SingleReadChain'
      BY <1>13 DEF SingleReadChain, Readers, do_read
<1>14. ASSUME NEW t \in Threads, SendPush(t) PROVE SingleReadChain'
      BY <1>14 DEF SingleReadChain, Readers, SendPush
<1>15. ASSUME NEW t \in Threads, SendTest(t) PROVE SingleReadChain'
      BY <1>15 DEF SingleReadChain, Readers, SendTest
<1>16. ASSUME NEW t \in Threads, WritePop(t) PROVE SingleReadChain'
      BY <1>16, SMTT(20) DEF SingleReadChain, Readers, WritePop
<1>17. ASSUME NEW t \in Threads, DoWriteTest(t) PROVE SingleReadChain'
      <2>1. CASE fault' # "none"
            BY <2>1 DEF SingleReadChain
      <2>2. CASE fault' = "none"
            <3>1. PICK l \in {"idle", "dw_issue"} : pc' = [pc EXCEPT ![t] = l]
                  BY <1>17, <2>2 DEF DoWriteTest
            <3>2. fault = "none" /\ pc[t] = "dw_test" /\ UNCHANGED <<readOp, closed>>
                  BY <1>17 DEF DoWriteTest
            <3> QED BY <3>1, <3>2, ReadFrame, Zenon
      <2> QED BY <2>1, <2>2
<1>18. ASSUME NEW t \in Threads, DoWriteIssue(t) PROVE SingleReadChain'
      <2>1. CASE fault' # "none"
            BY <2>1 DEF SingleReadChain
      <2>2. CASE fault' = "none"
            <3>1. PICK l \in {"idle"} : pc' = [pc EXCEPT ![t] = l]
                  BY <1>18, <2>2 DEF DoWriteIssue
            <3>2. fault = "none" /\ pc[t] = "dw_issue" /\ UNCHANGED <<readOp, closed>>
                  BY <1>18 DEF DoWriteIssue
            <3> QED BY <3>1, <3>2, ReadFrame, Zenon
      <2> QED BY <2>1, <2>2
<1>19. ASSUME NEW t \in Threads, CloseMark(t) PROVE SingleReadChain'
      <2>1. CASE fault' # "none"
            BY <2>1 DEF SingleReadChain
      <2>2. CASE fault' = "none"
            <3>1. PICK l \in {"idle", "io_stop", "cl_sock"} : pc' = [pc EXCEPT ![t] = l]
                  BY <1>19, <2>2 DEF CloseMark, Return
            <3>2. fault = "none" /\ pc[t] = "cl_mark" /\ readOp' = readOp /\ closed'
                  BY <1>19 DEF CloseMark
            <3> QED BY <3>1, <3>2, ReadFrame, Zenon
      <2> QED BY <2>1, <2>2
<1>20. ASSUME NEW t \in Threads, CloseSocket(t) PROVE SingleReadChain'
      BY <1>20 DEF SingleReadChain, Readers, CloseSocket, Abort
<1>21. ASSUME NEW t \in Threads, CloseReadBuffer(t) PROVE SingleReadChain'
      BY <1>21 DEF SingleReadChain, Readers, CloseReadBuffer
<1>22. ASSUME NEW t \in Threads, CloseWriteQueue(t) PROVE SingleReadChain'
      BY <1>22 DEF SingleReadChain, Readers, CloseWriteQueue
<1>23. ASSUME NEW t \in Threads, CloseRemove(t) PROVE SingleReadChain'
      BY <1>23 DEF SingleReadChain, Readers, CloseRemove, Return
<1>24. ASSUME NEW t \in Threads, IoStop(t) PROVE SingleReadChain'
      BY <1>24 DEF SingleReadChain, Readers, IoStop
<1>25. CASE UNCHANGED vars
      BY <1>25 DEF SingleReadChain, Readers, vars
<1> QED BY <1>1, <1>2, <1>3, <1>4, <1>5, <1>6, <1>7, <1>8, <1>9, <1>10, <1>11, <1>12, <1>13,
           <1>14, <1>15, <1>16, <1>17, <1>18, <1>19, <1>20, <1>21, <1>22, <1>23, <1>24, <1>25
        DEF Next, Run, Step, ReadStep, WriteStep, close

\* A session is never read by two handlers at once, and while it is open its read loop
\* never dies.
THEOREM ReadLoop == Spec => []SingleReadChain
<1>1. Init => SingleReadChain
      BY DEF Init, SingleReadChain, Readers, ReadLocs
<1> QED BY <1>1, TypeCorrect, NextRead, PTL DEF Spec, TypeOK

(***************************************************************************)
(* How a session can end abnormally.                                       *)
(***************************************************************************)
\* close() only ever sets closed_, and only a closed session has no buffer.
EndInv == (closed \/ rbufLive) /\ (fault = "uncaught_exception" => closed)

\* Every step keeps it: the storage goes in close() and comes back in do_read().
LEMMA NextEnd == FlagsOK /\ CloseInv /\ EndInv /\ [Next]_vars => EndInv'
<1> SUFFICES ASSUME FlagsOK, CloseInv, EndInv, [Next]_vars PROVE EndInv'
    OBVIOUS
<1> USE DEF EndInv, FlagsOK, ioVars, queueVars, closeVars
<1>1. CASE ReadCompletes \/ WriteCompletes \/ DataRace
      BY <1>1, Zenon DEF ReadCompletes, WriteCompletes, DataRace
<1>2. ASSUME NEW t \in Threads, Run(t) PROVE EndInv'
      BY <1>2, Zenon DEF Run, RunRead, RunWrite, RunSend, RunStop
<1>3. ASSUME NEW t \in Threads, ReadStep(t) PROVE EndInv'
      BY <1>3, Zenon DEF ReadStep, ReadIsOpened, ReadWriteCompleted, ReadParse, ReadDispatch, ReadNext, do_read
<1>4. ASSUME NEW t \in Threads, WriteStep(t) PROVE EndInv'
      BY <1>4, Zenon DEF WriteStep, SendPush, SendTest, WritePop, DoWriteTest, DoWriteIssue
<1>5. ASSUME NEW t \in Threads, CloseReadBuffer(t) PROVE EndInv'
  <2>1. closed
        BY <1>5 DEF CloseReadBuffer, CloseInv, CloseBody, At
  <2> QED BY <1>5, <2>1, Zenon DEF CloseReadBuffer
<1>6. ASSUME NEW t \in Threads, CloseMark(t) \/ CloseSocket(t) \/ CloseWriteQueue(t) \/ CloseRemove(t) \/ IoStop(t)
      PROVE  EndInv'
      BY <1>6, Zenon DEF CloseMark, CloseSocket, CloseWriteQueue, CloseRemove, IoStop
<1>7. CASE UNCHANGED vars
      BY <1>7, Zenon DEF vars
<1> QED BY <1>1, <1>2, <1>3, <1>4, <1>5, <1>6, <1>7, Zenon DEF Next, Step, close

\* However many threads there are, an exception leaves a handler only when the
\* session was closed under it: write_completed() and read_completed() never throw
\* for an open session.
THEOREM OpenNeverThrows == Spec => []ThrowsOnlyClosed
<1>1. Init => EndInv
      BY DEF Init, EndInv
<1>2. EndInv => ThrowsOnlyClosed
      BY DEF EndInv, ThrowsOnlyClosed
<1> QED BY <1>1, <1>2, NextEnd, TypeCorrect, CloseInvariant, PTL DEF Spec, TypeOK

(***************************************************************************)
(* The write queue, with one I/O thread.                                   *)
(***************************************************************************)
OneThread == \E t : Threads = {t}

\* With one thread every step keeps the queue in step with the writes.
LEMMA NextWrite == OneThread /\ DataOK /\ CloseInv /\ WriteInv /\ [Next]_vars => WriteInv'
<1> SUFFICES ASSUME OneThread, DataOK, CloseInv, WriteInv, [Next]_vars PROVE WriteInv'
    OBVIOUS
<1>0. PICK t : Threads = {t}
      BY DEF OneThread
<1> USE <1>0 DEF DataOK, WriteInv, Intact, Popped, Pushed, Locs, ReadLocs, WriteLocs, CloseBody, At, Ready,
            Goto, ioVars, queueVars, closeVars
<1>1. CASE ReadCompletes
      BY <1>1 DEF ReadCompletes
<1>2. CASE WriteCompletes
      <2>1. Len(wire) \in Nat /\ Len(writeq) \in Nat /\ Len(Append(wire, sending)) = Len(wire) + 1
            BY AppendNat
      <2>2. pc[t] # "wr_pop" /\ writeOp = "pending" /\ Popped = Len(wire)
            BY <1>2 DEF WriteCompletes
      <2>3. Popped' = Popped
            BY <1>2, <2>1, <2>2 DEF WriteCompletes
      <2>4. UNCHANGED <<fault, closed, writeq, writing, sending, taken, cur, pc>> /\ writeOp' # "none"
            BY <1>2 DEF WriteCompletes
      <2>5. Pushed' = Pushed /\ (Intact' <=> Intact)
            BY <2>4
      <2> HIDE DEF Popped, Pushed, Intact
      <2> QED BY <2>2, <2>3, <2>4, <2>5
<1>3. CASE DataRace
      BY <1>3 DEF DataRace
<1>4. ASSUME NEW u \in Threads, RunRead(u) PROVE WriteInv'
      BY <1>4 DEF RunRead
<1>5. ASSUME NEW u \in Threads, RunWrite(u) PROVE WriteInv'
      BY <1>5 DEF RunWrite
<1>6. ASSUME NEW u \in Threads, RunSend(u) PROVE WriteInv'
      BY <1>6 DEF RunSend
<1>7. ASSUME NEW u \in Threads, RunStop(u) PROVE WriteInv'
      BY <1>7 DEF RunStop
<1>8. ASSUME NEW u \in Threads, ReadIsOpened(u) PROVE WriteInv'
      BY <1>8 DEF ReadIsOpened
<1>9. ASSUME NEW u \in Threads, ReadWriteCompleted(u) PROVE WriteInv'
      <2>1. PICK l \in {"rd_wrote", "rd_parse"} : pc' = [pc EXCEPT ![u] = l]
            BY <1>9 DEF ReadWriteCompleted
      <2>2. /\ fault' \in {fault, "uncaught_exception"} /\ pc[u] \in ReadLocs
            /\ UNCHANGED <<closed, writeq, writing, writeOp, sending, taken, cur, wire>>
            BY <1>9 DEF ReadWriteCompleted
      <2>3. Popped' = Popped /\ Pushed' = Pushed /\ (Intact' <=> Intact)
            BY <2>1, <2>2
      <2> HIDE DEF Popped, Pushed, Intact
      <2> QED BY <2>1, <2>2, <2>3
<1>10. ASSUME NEW u \in Threads, ReadParse(u) PROVE WriteInv'
      <2>1. PICK l \in {"rd_next", "cl_mark", "rd_dispatch"} : pc' = [pc EXCEPT ![u] = l]
            BY <1>10 DEF ReadParse
      <2>2. /\ fault' = fault /\ pc[u] \in ReadLocs
            /\ UNCHANGED <<closed, writeq, writing, writeOp, sending, taken, cur, wire>>
            BY <1>10 DEF ReadParse
      <2>3. Popped' = Popped /\ Pushed' = Pushed /\ (Intact' <=> Intact)
            BY <2>1, <2>2
      <2> HIDE DEF Popped, Pushed, Intact
      <2> QED BY <2>1, <2>2, <2>3
<1>11. ASSUME NEW u \in Threads, ReadDispatch(u) PROVE WriteInv'
      <2>1. UNCHANGED <<closed, writeq, writing, writeOp, sending, taken, cur, wire>>
            BY <1>11 DEF ReadDispatch, send_packet
      <2>2. /\ pc[t] = "rd_dispatch"
            /\ pc'[t] \in {"rd_dispatch", "rd_next", "cl_mark"}
            /\ fault' \in {"none", "uncaught_exception"}
            BY <1>11 DEF ReadDispatch
      <2>3. Popped' = Popped /\ Pushed' = Pushed /\ (Intact' <=> Intact)
            BY <2>1, <2>2
      <2> HIDE DEF Popped, Pushed, Intact
      <2> QED BY <2>1, <2>2, <2>3
<1>12. ASSUME NEW u \in Threads, ReadNext(u) PROVE WriteInv'
      BY <1>12 DEF ReadNext
<1>13. ASSUME NEW u \in Threads, do_read(u) PROVE WriteInv'
      BY <1>13 DEF do_read
<1>14. ASSUME NEW u \in Threads, SendPush(u) PROVE WriteInv'
      <2>1. /\ writeq' = Append(writeq, taken) /\ pc[t] = "snd_push" /\ pc'[t] = "snd_test"
            /\ UNCHANGED <<fault, closed, writing, writeOp, sending, taken, cur, wire>>
            BY <1>14 DEF SendPush
      <2>2. /\ Len(writeq) \in Nat /\ Len(writeq') = Len(writeq) + 1 /\ writeq' # <<>>
            /\ \A i \in 1..Len(writeq) : writeq'[i] = writeq[i]
            /\ writeq'[Len(writeq) + 1] = taken
            BY <2>1, AppendNat
      <2>3. Popped' = Popped /\ Popped \in Int /\ Pushed = taken - 1 /\ Pushed' = taken /\ (Intact' <=> Intact)
            BY <2>1
      <2> HIDE DEF Popped, Pushed, Intact
      <2>4. Intact => \A i \in 1..Len(writeq') : writeq'[i] = Popped' + i
            <3> SUFFICES ASSUME Intact, NEW i \in 1..(Len(writeq) + 1) PROVE writeq'[i] = Popped + i
                BY <2>2, <2>3
            <3>1. Pushed = Popped + Len(writeq) /\ \A j \in 1..Len(writeq) : writeq[j] = Popped + j
                  OBVIOUS
            <3>2. CASE i = Len(writeq) + 1
                  BY <2>2, <2>3, <3>1, <3>2
            <3>3. CASE i \in 1..Len(writeq)
                  BY <2>2, <3>1, <3>3
            <3> QED BY <2>2, <3>2, <3>3
      <2> QED BY <2>1, <2>2, <2>3, <2>4
<1>15. ASSUME NEW u \in Threads, SendTest(u) PROVE WriteInv'
      BY <1>15 DEF SendTest
<1>16. ASSUME NEW u \in Threads, WritePop(u) PROVE WriteInv'
      <2>1. CASE writeq = <<>>
            BY <1>16, <2>1 DEF WritePop
      <2>2. CASE writeq # <<>>
            <3>1. /\ writeq' = Tail(writeq) /\ pc[t] = "wr_pop" /\ pc'[t] = "dw_test"
                  /\ UNCHANGED <<fault, closed, writing, writeOp, sending, taken, cur, wire>>
                  BY <1>16, <2>2 DEF WritePop
            <3>2. /\ Len(writeq) \in Nat /\ Len(writeq') = Len(writeq) - 1
                  /\ \A i \in 1..Len(writeq') : writeq'[i] = writeq[i + 1] /\ i + 1 \in 1..Len(writeq)
                  BY <2>2, <3>1, TailNat
            <3>3. /\ Popped \in Int /\ Popped' = Popped + 1 /\ Pushed' = Pushed /\ (Intact' <=> Intact)
                  /\ writeOp = "none"
                  BY <3>1
            <3>4. Pushed \in Int
                  BY <3>1
            <3> HIDE DEF Popped, Pushed, Intact
            <3>5. Intact => Pushed = Popped + Len(writeq) /\ \A j \in 1..Len(writeq) : writeq[j] = Popped + j
                  OBVIOUS
            <3>6. Intact => \A i \in 1..Len(writeq') : writeq'[i] = Popped' + i
                  <4> HIDE DEF WriteInv, DataOK
                  <4> SUFFICES ASSUME Intact, NEW i \in 1..Len(writeq') PROVE writeq[i + 1] = Popped + 1 + i
                      BY <3>2, <3>3
                  <4> QED BY <3>2, <3>3, <3>5
            <3>7. Intact => Pushed' = Popped' + Len(writeq')
                  BY <3>2, <3>3, <3>4, <3>5
            <3> QED BY <3>1, <3>3, <3>6, <3>7, Zenon
      <2> QED BY <2>1, <2>2
<1>17. ASSUME NEW u \in Threads, DoWriteTest(u) PROVE WriteInv'
      BY <1>17 DEF DoWriteTest
<1>18. ASSUME NEW u \in Threads, DoWriteIssue(u) PROVE WriteInv'
      <2>1. writeOp = "none" /\ pc[t] = "dw_issue" /\ writing
            BY <1>18 DEF DoWriteIssue
      <2>2. CASE writeq = <<>>
            BY <1>18, <2>1, <2>2 DEF DoWriteIssue
      <2>3. CASE writeq # <<>>
            <3>1. /\ sending' = Head(writeq) /\ pc'[t] = "idle" /\ writeOp' \in {"pending", "err"}
                  /\ UNCHANGED <<fault, closed, writeq, writing, taken, cur, wire>>
                  BY <1>18, <2>1, <2>3 DEF DoWriteIssue
            <3>2. Popped' = Popped /\ Pushed' = Pushed /\ (Intact' <=> Intact)
                  BY <2>1, <3>1
            <3> HIDE DEF Popped, Pushed, Intact
            <3>3. Intact => sending' = Popped' + 1
                  <4>1. Head(writeq) = writeq[1] /\ 1 \in 1..Len(writeq)
                        BY <2>3, TailNat
                  <4> QED BY <3>1, <3>2, <4>1
            <3> QED BY <2>1, <2>3, <3>1, <3>2, <3>3
      <2> QED BY <2>2, <2>3
<1>19. ASSUME NEW u \in Threads, CloseMark(u) PROVE WriteInv'
      BY <1>19 DEF CloseMark, Return
<1>20. ASSUME NEW u \in Threads, CloseSocket(u) PROVE WriteInv'
      BY <1>20 DEF CloseSocket, Abort
<1>21. ASSUME NEW u \in Threads, CloseReadBuffer(u) PROVE WriteInv'
      BY <1>21 DEF CloseReadBuffer
<1>22. ASSUME NEW u \in Threads, CloseWriteQueue(u) PROVE WriteInv'
      <2>1. closed' /\ ~Intact'
            BY <1>22 DEF CloseWriteQueue, Return, CloseInv
      <2>2. pc'[t] \in {"cl_remove", "idle", "io_stop"} /\ UNCHANGED <<fault, writing, writeOp>>
            BY <1>22 DEF CloseWriteQueue, Return
      <2> HIDE DEF Intact
      <2> QED BY <2>1, <2>2
<1>23. ASSUME NEW u \in Threads, CloseRemove(u) PROVE WriteInv'
      <2>1. closed' /\ ~Intact'
            BY <1>23 DEF CloseRemove, Return, CloseInv
      <2>2. pc'[t] \in {"cl_remove", "idle", "io_stop"} /\ UNCHANGED <<fault, writing, writeOp>>
            BY <1>23 DEF CloseRemove, Return
      <2> HIDE DEF Intact
      <2> QED BY <2>1, <2>2
<1>24. ASSUME NEW u \in Threads, IoStop(u) PROVE WriteInv'
      BY <1>24 DEF IoStop
<1>25. CASE UNCHANGED vars
      BY <1>25 DEF vars
<1> QED BY <1>1, <1>2, <1>3, <1>4, <1>5, <1>6, <1>7, <1>8, <1>9, <1>10, <1>11, <1>12, <1>13,
           <1>14, <1>15, <1>16, <1>17, <1>18, <1>19, <1>20, <1>21, <1>22, <1>23, <1>24, <1>25, Zenon
        DEF Next, Run, Step, ReadStep, WriteStep, close

\* With one thread the invariant of the write queue holds always.
LEMMA WriteInvariant == ASSUME OneThread PROVE Spec => []WriteInv
<1>1. Init => WriteInv
      BY DEF Init, WriteInv, Intact, Popped, Pushed
<1>2. DataOK /\ CloseInv /\ WriteInv /\ [Next]_vars => WriteInv'
      BY OneThread, NextWrite
<1> QED BY <1>1, <1>2, TypeCorrect, CloseInvariant, PTL DEF Spec, TypeOK

\* With one I/O thread writing_ keeps do_write() from starting a write while another
\* is in progress.
THEOREM OneThreadGuarded == ASSUME OneThread PROVE Spec => []SocketWritesGuarded
<1>1. WriteInv => SocketWritesGuarded
      BY DEF WriteInv, SocketWritesGuarded
<1> QED BY <1>1, OneThread, WriteInvariant, PTL

\* A thread between the test of closed_ and the next read has the buffer.
BufferInv ==
    /\ closed \/ rbufLive
    /\ \A t \in Threads : pc[t] \in {"rd_wrote", "rd_parse", "rd_dispatch"} => ~closed
    /\ \A t \in Threads : pc[t] \in {"cl_sock", "cl_rbuf"} => closed

\* With one thread the buffer is whole whenever write_completed() is called.
LEMMA NextBuffer ==
    OneThread /\ FlagsOK /\ DataOK /\ BufferInv /\ NoUncaughtException /\ [Next]_vars
        => BufferInv' /\ NoUncaughtException'
<1> SUFFICES ASSUME OneThread, FlagsOK, DataOK, BufferInv, NoUncaughtException, [Next]_vars
             PROVE BufferInv' /\ NoUncaughtException'
    OBVIOUS
<1>0. PICK t : Threads = {t}
      BY DEF OneThread
<1>a. pc[t] \in Locs /\ pc \in [{t} -> Locs]
      BY <1>0 DEF DataOK
<1> DEFINE Good == /\ closed \/ rbufLive
                   /\ pc[t] \in {"rd_wrote", "rd_parse", "rd_dispatch"} => ~closed
                   /\ pc[t] \in {"cl_sock", "cl_rbuf"} => closed
                   /\ fault # "uncaught_exception"
<1>b. Good
      BY <1>0 DEF BufferInv, NoUncaughtException
<1> SUFFICES Good'
    BY <1>0 DEF BufferInv, NoUncaughtException
<1> USE <1>a, <1>b DEF At, Ready, Goto, ioVars, queueVars, closeVars
<1>1. CASE UNCHANGED vars
      BY <1>1 DEF vars
<1>2. CASE ReadCompletes \/ WriteCompletes \/ DataRace
      BY <1>2 DEF ReadCompletes, WriteCompletes, DataRace
<1>3. CASE Run(t)
      BY <1>3 DEF Run, RunRead, RunWrite, RunSend, RunStop
<1>4. CASE ReadStep(t)
      BY <1>4 DEF ReadStep, ReadIsOpened, ReadWriteCompleted, ReadParse, ReadDispatch, ReadNext, do_read
<1>5. CASE WriteStep(t)
      BY <1>5 DEF WriteStep, SendPush, SendTest, WritePop, DoWriteTest, DoWriteIssue
<1>6. CASE close(t) \/ IoStop(t)
      BY <1>6 DEF close, IoStop, CloseMark, CloseSocket, CloseReadBuffer, CloseWriteQueue, CloseRemove, Return
<1> QED BY <1>0, <1>1, <1>2, <1>3, <1>4, <1>5, <1>6 DEF Next, Step

\* With one I/O thread no exception leaves a handler of the session: close() cannot
\* come between the test of closed_ and the use of the buffer.
THEOREM OneThreadCatches == ASSUME OneThread PROVE Spec => []NoUncaughtException
<1>1. Init => BufferInv /\ NoUncaughtException
      BY DEF Init, BufferInv, NoUncaughtException
<1> QED BY <1>1, NextBuffer, TypeCorrect, PTL DEF Spec, TypeOK

\* The queue runs empty under a write only after close() has cleared it.
QueueInv == fault = "empty_deque" => closed

\* With one thread every step keeps that.
LEMMA NextQueue == DataOK /\ FlagsOK /\ WriteInv /\ QueueInv /\ [Next]_vars => QueueInv'
<1> SUFFICES ASSUME DataOK, FlagsOK, WriteInv, QueueInv, [Next]_vars PROVE QueueInv'
    OBVIOUS
<1> USE DEF QueueInv, ioVars, queueVars, closeVars
<1>1. CASE ReadCompletes \/ WriteCompletes \/ DataRace
      BY <1>1, Zenon DEF ReadCompletes, WriteCompletes, DataRace
<1>2. ASSUME NEW t \in Threads, Run(t) PROVE QueueInv'
      BY <1>2, Zenon DEF Run, RunRead, RunWrite, RunSend, RunStop
<1>3. ASSUME NEW t \in Threads, ReadStep(t) PROVE QueueInv'
      BY <1>3, Zenon DEF ReadStep, ReadIsOpened, ReadWriteCompleted, ReadParse, ReadDispatch, ReadNext, do_read
<1>4. ASSUME NEW t \in Threads, pc[t] \in {"wr_pop", "dw_issue"}, writeq = <<>> PROVE closed
  <2>1. ~Intact
        BY <1>4, Zenon DEF WriteInv
  <2> QED BY <2>1, Zenon DEF Intact
<1>5. ASSUME NEW t \in Threads, WriteStep(t) PROVE QueueInv'
      BY <1>4, <1>5, Zenon DEF WriteStep, SendPush, SendTest, WritePop, DoWriteTest, DoWriteIssue, At
<1>6. ASSUME NEW t \in Threads, close(t) \/ IoStop(t) PROVE QueueInv'
      BY <1>6, Zenon DEF close, CloseMark, CloseSocket, CloseReadBuffer, CloseWriteQueue, CloseRemove, IoStop
<1>7. CASE UNCHANGED vars
      BY <1>7, Zenon DEF vars
<1> QED BY <1>1, <1>2, <1>3, <1>5, <1>6, <1>7, Zenon DEF Next, Step

\* README: "Safe async write queue for each client."  With one I/O thread nothing but
\* this can go wrong with a session: the completion of a write that was on its way when
\* close() cleared the queue pops from it.  While the session is open the queue is safe.
THEOREM OneThreadEnds == ASSUME OneThread PROVE Spec => [](fault = "none" \/ (~WriteQueueSafe /\ closed))
<1>1. Init => QueueInv
      BY DEF Init, QueueInv
<1>2. DataOK /\ WriteInv /\ QueueInv /\ NoUncaughtException => fault = "none" \/ (~WriteQueueSafe /\ closed)
      BY DEF DataOK, Faults, WriteInv, QueueInv, NoUncaughtException, WriteQueueSafe
<1> QED BY <1>1, <1>2, OneThread, NextQueue, WriteInvariant, OneThreadCatches, TypeCorrect, PTL DEF Spec, TypeOK

\* With one I/O thread, between handlers, an open session with packets queued has its
\* next write under way and has lost or repeated none of them.
THEOREM OneThreadAwake == ASSUME OneThread PROVE Spec => []WriterAwake
<1>1. DataOK /\ WriteInv => WriterAwake
  <2> SUFFICES ASSUME DataOK, WriteInv, ~closed, \A t \in Threads : pc[t] = "idle"
               PROVE  /\ writing <=> writeq # <<>>
                      /\ writing <=> writeOp # "none"
                      /\ taken = Len(wire) + Len(writeq) - (IF writeOp = "ok" THEN 1 ELSE 0)
      BY DEF WriterAwake
  <2>1. Len(wire) \in Nat /\ Len(writeq) \in Nat
        BY DEF DataOK
  <2>2. Intact /\ Pushed = taken /\ Popped = (IF writeOp = "ok" THEN Len(wire) - 1 ELSE Len(wire))
        BY DEF Intact, Pushed, Popped
  <2>3. /\ writing <=> writeOp # "none"
        /\ writeq # <<>> => writing
        /\ writeOp # "none" => writeq # <<>>
        /\ Pushed = Popped + Len(writeq)
        BY <2>2 DEF WriteInv
  <2>4. taken = Len(wire) + Len(writeq) - (IF writeOp = "ok" THEN 1 ELSE 0)
        BY <2>1, <2>2, <2>3
  <2> QED BY <2>3, <2>4
<1> QED BY <1>1, OneThread, WriteInvariant, TypeCorrect, PTL DEF TypeOK

\* With one I/O thread the session implements the ordered channel of module
\* ReplyChannel: what send_packet() accepts arrives in order, without gaps or
\* repetitions, until the socket is closed.
THEOREM OneThreadOrdered == ASSUME OneThread PROVE Spec => OrderedReplies
<1>1. Init => Channel!Init
      BY DEF Init, Channel!Init
<1>2. DataOK /\ CloseInv /\ WriteInv /\ [Next]_vars => [Channel!Next]_(Channel!channelVars)
  <2> SUFFICES ASSUME DataOK, CloseInv, WriteInv, [Next]_vars
               PROVE  [Channel!Next]_(Channel!channelVars)
      OBVIOUS
  <2> USE DEF Channel!Next, Channel!channelVars
  <2>1. CASE WriteCompletes
        <3>1. Len(wire) \in Nat /\ Len(writeq) \in Nat
              BY DEF DataOK
        <3>2. sockOpen /\ Intact /\ writeOp = "pending"
              BY <2>1 DEF WriteCompletes, CloseInv, Intact
        <3>3. \A t \in Threads : pc[t] # "wr_pop"
              BY <3>2 DEF WriteInv
        <3>4. Popped = Len(wire)
              BY <3>2, <3>3 DEF Popped
        <3>5. sending = Len(wire) + 1 /\ Pushed = Len(wire) + Len(writeq) /\ writeq # <<>>
              BY <3>2, <3>4 DEF WriteInv
        <3>6. Len(writeq) > 0
              BY <3>5, TailNat DEF DataOK
        <3>7. Len(wire) < posted
              BY <3>1, <3>5, <3>6 DEF DataOK, Pushed
        <3>8. UNCHANGED <<posted, sockOpen>>
              BY <2>1 DEF WriteCompletes, queueVars, closeVars
        <3>9. wire' = wire \/ wire' = Append(wire, Len(wire) + 1)
              BY <2>1, <3>5 DEF WriteCompletes
        <3> QED BY <3>2, <3>7, <3>8, <3>9, Zenon DEF Channel!Deliver
  <2>2. ASSUME NEW t \in Threads, ReadDispatch(t) PROVE [Channel!Next]_(Channel!channelVars)
        <3>1. UNCHANGED <<wire, sockOpen>>
              BY <2>2 DEF ReadDispatch, ioVars, closeVars
        <3>2. posted' = posted \/ (sockOpen /\ posted' = posted + 1)
              BY <2>2 DEF ReadDispatch, send_packet, CloseInv, queueVars
        <3> QED BY <3>1, <3>2, Zenon DEF Channel!Accept
  <2>3. ASSUME NEW t \in Threads, CloseSocket(t) PROVE [Channel!Next]_(Channel!channelVars)
        <3>1. sockOpen
              BY <2>3 DEF CloseSocket, CloseInv, At, CloseBody
        <3> QED BY <2>3, <3>1, Zenon DEF CloseSocket, Channel!Shut, queueVars
  <2>4. CASE UNCHANGED <<posted, wire, sockOpen>>
        BY <2>4
  <2>5. \/ WriteCompletes \/ \E t \in Threads : ReadDispatch(t) \/ CloseSocket(t)
        \/ UNCHANGED <<posted, wire, sockOpen>>
        BY ZenonT(60) DEF Next, Run, Step, ReadStep, WriteStep, close, ReadCompletes, DataRace,
           RunRead, RunWrite, RunSend, RunStop, ReadIsOpened, ReadWriteCompleted, ReadParse,
           ReadNext, do_read, SendPush, SendTest, WritePop, DoWriteTest,
           DoWriteIssue, CloseMark, CloseReadBuffer, CloseWriteQueue, CloseRemove,
           IoStop, ioVars, queueVars, closeVars, vars
  <2> QED BY <2>1, <2>2, <2>3, <2>4, <2>5
<1> QED BY <1>1, <1>2, OneThread, WriteInvariant, CloseInvariant, TypeCorrect, PTL
        DEF Spec, TypeOK, OrderedReplies, Channel!Spec
=============================================================================
