---------------------------- MODULE ServerProofs ----------------------------
(***************************************************************************)
(* Proofs about module Server, for any threads and any clients.             *)
(***************************************************************************)
EXTENDS Server, TLAPS

\* The four places where a thread takes sessions_mutex_.
Locking(t) ==
    \/ Lock(t, "ac_lock", "ac_insert") \/ Lock(t, "cl_lock", "cl_erase")
    \/ Lock(t, "st_lock", "st_copy") \/ Lock(t, "st_lock2", "st_clear")

\* What a step is.
LEMMA NextCases ==
    ASSUME [Next]_vars
    PROVE  \/ \E c \in Clients : Connect(c) \/ Disconnect(c)
           \/ AcceptFails \/ DataRace \/ UNCHANGED vars
           \/ \E t \in Threads :
                 \/ RunAccept(t) \/ AcceptInsert(t) \/ SessionStart(t) \/ SessionRead(t)
                 \/ AcceptNext(t) \/ AcceptIssue(t)
                 \/ RunRead(t) \/ CloseMark(t) \/ CloseSocket(t) \/ CloseErase(t)
                 \/ RunStop(t) \/ StopAcceptor(t) \/ StopCopy(t) \/ StopEach(t)
                 \/ StopClear(t) \/ StopIo(t) \/ StopDb(t) \/ StopLog(t)
                 \/ Locking(t)
BY Zenon DEF Next, Finished, Run, Step, accept, close, stop, Locking

----------------------------------------------------------------------------
(* Types.  A thread on its way through the accept handler or through close() *)
(* works on a session; stop() is run by the thread that took the signal.     *)

Working == {"ac_lock", "ac_insert", "ac_start", "ac_read", "ac_next"} \cup CloseLocs
Closing == {"cl_sock", "cl_lock", "cl_erase"}

DataInv ==
    /\ DataOK
    /\ \A t \in Threads : pc[t] \in Working => cur[t] \in made
    /\ \A t \in Threads : pc[t] \in Closing => cur[t] \in closed
    /\ \A t \in Threads : pc[t] \in StopLocs => stopper = t

\* Server::Server() establishes the types and whose session each thread works on.
LEMMA InitData == Init => FlagsOK /\ DataInv
<1> SUFFICES ASSUME Init PROVE FlagsOK /\ DataInv
    OBVIOUS
<1>1. FlagsOK
      BY Zenon DEF Init, FlagsOK
<1>2. DataOK
      BY DEF Init, DataOK, Locs
<1> QED BY <1>1, <1>2 DEF Init, DataInv, Working, Closing, StopLocs, CloseLocs

\* Every step keeps the flags Boolean.
LEMMA NextFlags == FlagsOK /\ [Next]_vars => FlagsOK'
<1> SUFFICES ASSUME FlagsOK, [Next]_vars PROVE FlagsOK'
    OBVIOUS
<1> USE DEF FlagsOK, vars, acceptVars, stopVars
<1>1. ASSUME NEW c \in Clients, Connect(c) PROVE FlagsOK'
      BY <1>1, Zenon DEF Connect
<1>2. ASSUME NEW c \in Clients, Disconnect(c) PROVE FlagsOK'
      BY <1>2, Zenon DEF Disconnect
<1>3. ASSUME AcceptFails PROVE FlagsOK'
      BY <1>3, Zenon DEF AcceptFails
<1>4. ASSUME DataRace PROVE FlagsOK'
      BY <1>4, Zenon DEF DataRace
<1>5. ASSUME NEW t \in Threads, RunAccept(t) PROVE FlagsOK'
      BY <1>5, Zenon DEF RunAccept
<1>6. ASSUME NEW t \in Threads, AcceptInsert(t) PROVE FlagsOK'
      BY <1>6, Zenon DEF AcceptInsert
<1>7. ASSUME NEW t \in Threads, SessionStart(t) PROVE FlagsOK'
      BY <1>7, Zenon DEF SessionStart
<1>8. ASSUME NEW t \in Threads, SessionRead(t) PROVE FlagsOK'
      BY <1>8, Zenon DEF SessionRead
<1>9. ASSUME NEW t \in Threads, AcceptNext(t) PROVE FlagsOK'
      BY <1>9, Zenon DEF AcceptNext
<1>10. ASSUME NEW t \in Threads, AcceptIssue(t) PROVE FlagsOK'
      BY <1>10, Zenon DEF AcceptIssue
<1>11. ASSUME NEW t \in Threads, RunRead(t) PROVE FlagsOK'
      BY <1>11, Zenon DEF RunRead
<1>12. ASSUME NEW t \in Threads, CloseMark(t) PROVE FlagsOK'
      BY <1>12, Zenon DEF CloseMark
<1>13. ASSUME NEW t \in Threads, CloseSocket(t) PROVE FlagsOK'
      BY <1>13, Zenon DEF CloseSocket
<1>14. ASSUME NEW t \in Threads, CloseErase(t) PROVE FlagsOK'
      BY <1>14, Zenon DEF CloseErase
<1>15. ASSUME NEW t \in Threads, RunStop(t) PROVE FlagsOK'
      BY <1>15, Zenon DEF RunStop
<1>16. ASSUME NEW t \in Threads, StopAcceptor(t) PROVE FlagsOK'
      BY <1>16, Zenon DEF StopAcceptor
<1>17. ASSUME NEW t \in Threads, StopCopy(t) PROVE FlagsOK'
      BY <1>17, Zenon DEF StopCopy
<1>18. ASSUME NEW t \in Threads, StopEach(t) PROVE FlagsOK'
      BY <1>18, Zenon DEF StopEach
<1>19. ASSUME NEW t \in Threads, StopClear(t) PROVE FlagsOK'
      BY <1>19, Zenon DEF StopClear
<1>20. ASSUME NEW t \in Threads, StopIo(t) PROVE FlagsOK'
      BY <1>20, Zenon DEF StopIo
<1>21. ASSUME NEW t \in Threads, StopDb(t) PROVE FlagsOK'
      BY <1>21, Zenon DEF StopDb
<1>22. ASSUME NEW t \in Threads, StopLog(t) PROVE FlagsOK'
      BY <1>22, Zenon DEF StopLog
<1>23. ASSUME NEW t \in Threads, Locking(t) PROVE FlagsOK'
      BY <1>23, Zenon DEF Locking, Lock
<1>24. CASE UNCHANGED vars
      BY <1>24
<1> QED BY <1>1, <1>2, <1>3, <1>4, <1>5, <1>6, <1>7, <1>8, <1>9, <1>10, <1>11, <1>12, <1>13,
         <1>14, <1>15, <1>16, <1>17, <1>18, <1>19, <1>20, <1>21, <1>22, <1>23, <1>24,
         NextCases, Zenon

\* Every step keeps the types, and a thread on the way through a handler its session.
LEMMA NextData == DataInv /\ [Next]_vars => DataInv'
<1> SUFFICES ASSUME DataInv, [Next]_vars PROVE DataInv'
    OBVIOUS
<1> USE ServerAssumption DEF At, Ready, Goto, Take, Return, DataInv, DataOK, vars, acceptVars,
         stopVars, sessionVars, Working, Closing, Locs, AcceptLocs, StopLocs, CloseLocs
<1>1. ASSUME NEW c \in Clients, Connect(c) PROVE DataInv'
      BY <1>1 DEF Connect
<1>2. ASSUME NEW c \in Clients, Disconnect(c) PROVE DataInv'
      BY <1>2 DEF Disconnect
<1>3. ASSUME AcceptFails PROVE DataInv'
      BY <1>3 DEF AcceptFails
<1>4. ASSUME DataRace PROVE DataInv'
      BY <1>4 DEF DataRace
<1>5. ASSUME NEW t \in Threads, RunAccept(t) PROVE DataInv'
      BY <1>5 DEF RunAccept
<1>6. ASSUME NEW t \in Threads, AcceptInsert(t) PROVE DataInv'
      BY <1>6 DEF AcceptInsert
<1>7. ASSUME NEW t \in Threads, SessionStart(t) PROVE DataInv'
      BY <1>7 DEF SessionStart
<1>8. ASSUME NEW t \in Threads, SessionRead(t) PROVE DataInv'
      BY <1>8 DEF SessionRead
<1>9. ASSUME NEW t \in Threads, AcceptNext(t) PROVE DataInv'
      BY <1>9 DEF AcceptNext
<1>10. ASSUME NEW t \in Threads, AcceptIssue(t) PROVE DataInv'
      BY <1>10 DEF AcceptIssue
<1>11. ASSUME NEW t \in Threads, RunRead(t) PROVE DataInv'
      BY <1>11 DEF RunRead
<1>12. ASSUME NEW t \in Threads, CloseMark(t) PROVE DataInv'
      BY <1>12 DEF CloseMark
<1>13. ASSUME NEW t \in Threads, CloseSocket(t) PROVE DataInv'
      BY <1>13 DEF CloseSocket
<1>14. ASSUME NEW t \in Threads, CloseErase(t) PROVE DataInv'
      BY <1>14 DEF CloseErase
<1>15. ASSUME NEW t \in Threads, RunStop(t) PROVE DataInv'
      BY <1>15 DEF RunStop
<1>16. ASSUME NEW t \in Threads, StopAcceptor(t) PROVE DataInv'
      BY <1>16 DEF StopAcceptor
<1>17. ASSUME NEW t \in Threads, StopCopy(t) PROVE DataInv'
      BY <1>17 DEF StopCopy
<1>18. ASSUME NEW t \in Threads, StopEach(t) PROVE DataInv'
      BY <1>18 DEF StopEach
<1>19. ASSUME NEW t \in Threads, StopClear(t) PROVE DataInv'
      BY <1>19 DEF StopClear
<1>20. ASSUME NEW t \in Threads, StopIo(t) PROVE DataInv'
      BY <1>20 DEF StopIo
<1>21. ASSUME NEW t \in Threads, StopDb(t) PROVE DataInv'
      BY <1>21 DEF StopDb
<1>22. ASSUME NEW t \in Threads, StopLog(t) PROVE DataInv'
      BY <1>22 DEF StopLog
<1>23. ASSUME NEW t \in Threads, Locking(t) PROVE DataInv'
      BY <1>23 DEF Locking, Lock
<1>24. CASE UNCHANGED vars
      BY <1>24
<1> QED BY <1>1, <1>2, <1>3, <1>4, <1>5, <1>6, <1>7, <1>8, <1>9, <1>10, <1>11, <1>12, <1>13,
         <1>14, <1>15, <1>16, <1>17, <1>18, <1>19, <1>20, <1>21, <1>22, <1>23, <1>24,
         NextCases, Zenon
----------------------------------------------------------------------------
(* The mutex is owned exactly inside the four blocks it guards.             *)

Guarded == {"ac_insert", "cl_erase", "st_copy", "st_clear"}

MutexInv == \A t \in Threads : mutex = t <=> pc[t] \in Guarded

\* At the start sessions_mutex_ is free.
LEMMA InitMutex == Init => MutexInv
BY ServerAssumption, Zenon DEF Init, MutexInv, Guarded

\* Every step keeps sessions_mutex_ with the thread that is inside a guarded block.
LEMMA NextMutex == DataInv /\ MutexInv /\ [Next]_vars => MutexInv'
<1> SUFFICES ASSUME DataInv, MutexInv, [Next]_vars PROVE MutexInv'
    OBVIOUS
<1> USE ServerAssumption DEF At, Ready, Goto, Take, Return, DataInv, DataOK, MutexInv,
         Guarded, vars
<1>1. ASSUME NEW c \in Clients, Connect(c) PROVE MutexInv'
      BY <1>1 DEF Connect
<1>2. ASSUME NEW c \in Clients, Disconnect(c) PROVE MutexInv'
      BY <1>2 DEF Disconnect
<1>3. ASSUME AcceptFails PROVE MutexInv'
      BY <1>3 DEF AcceptFails
<1>4. ASSUME DataRace PROVE MutexInv'
      BY <1>4 DEF DataRace
<1>5. ASSUME NEW t \in Threads, RunAccept(t) PROVE MutexInv'
      BY <1>5 DEF RunAccept
<1>6. ASSUME NEW t \in Threads, AcceptInsert(t) PROVE MutexInv'
      BY <1>6 DEF AcceptInsert
<1>7. ASSUME NEW t \in Threads, SessionStart(t) PROVE MutexInv'
      BY <1>7 DEF SessionStart
<1>8. ASSUME NEW t \in Threads, SessionRead(t) PROVE MutexInv'
      BY <1>8 DEF SessionRead
<1>9. ASSUME NEW t \in Threads, AcceptNext(t) PROVE MutexInv'
      BY <1>9 DEF AcceptNext
<1>10. ASSUME NEW t \in Threads, AcceptIssue(t) PROVE MutexInv'
      BY <1>10 DEF AcceptIssue
<1>11. ASSUME NEW t \in Threads, RunRead(t) PROVE MutexInv'
      BY <1>11 DEF RunRead
<1>12. ASSUME NEW t \in Threads, CloseMark(t) PROVE MutexInv'
      BY <1>12 DEF CloseMark
<1>13. ASSUME NEW t \in Threads, CloseSocket(t) PROVE MutexInv'
      BY <1>13 DEF CloseSocket
<1>14. ASSUME NEW t \in Threads, CloseErase(t) PROVE MutexInv'
      BY <1>14 DEF CloseErase
<1>15. ASSUME NEW t \in Threads, RunStop(t) PROVE MutexInv'
      BY <1>15 DEF RunStop
<1>16. ASSUME NEW t \in Threads, StopAcceptor(t) PROVE MutexInv'
      BY <1>16 DEF StopAcceptor
<1>17. ASSUME NEW t \in Threads, StopCopy(t) PROVE MutexInv'
      BY <1>17 DEF StopCopy
<1>18. ASSUME NEW t \in Threads, StopEach(t) PROVE MutexInv'
      BY <1>18 DEF StopEach
<1>19. ASSUME NEW t \in Threads, StopClear(t) PROVE MutexInv'
      BY <1>19 DEF StopClear
<1>20. ASSUME NEW t \in Threads, StopIo(t) PROVE MutexInv'
      BY <1>20 DEF StopIo
<1>21. ASSUME NEW t \in Threads, StopDb(t) PROVE MutexInv'
      BY <1>21 DEF StopDb
<1>22. ASSUME NEW t \in Threads, StopLog(t) PROVE MutexInv'
      BY <1>22 DEF StopLog
<1>23. ASSUME NEW t \in Threads, Locking(t) PROVE MutexInv'
      BY <1>23 DEF Locking, Lock
<1>24. CASE UNCHANGED vars
      BY <1>24
<1> QED BY <1>1, <1>2, <1>3, <1>4, <1>5, <1>6, <1>7, <1>8, <1>9, <1>10, <1>11, <1>12, <1>13,
         <1>14, <1>15, <1>16, <1>17, <1>18, <1>19, <1>20, <1>21, <1>22, <1>23, <1>24,
         NextCases, Zenon

----------------------------------------------------------------------------
(* The accept loop.  An accept that ends in an error, in the handler or on   *)
(* its way there, failed by itself or because stop() closed the acceptor.    *)

AtMostOne == \A t, u \in Threads : pc[t] \in AcceptLocs /\ pc[u] \in AcceptLocs => t = u
OpAlone == acceptOp # "none" => \A t \in Threads : pc[t] \notin AcceptLocs

\* Every step keeps at most one thread in the accept handler, and none while an accept
\* is under way.
LEMMA NextChain == DataInv /\ AtMostOne /\ OpAlone /\ [Next]_vars => AtMostOne' /\ OpAlone'
<1> SUFFICES ASSUME DataInv, AtMostOne, OpAlone, [Next]_vars PROVE AtMostOne' /\ OpAlone'
    OBVIOUS
<1> USE DEF At, Ready, Goto, Take, Return, DataInv, DataOK, AtMostOne, OpAlone, AcceptLocs,
         vars, acceptVars
<1>1. ASSUME NEW c \in Clients, Connect(c) PROVE AtMostOne' /\ OpAlone'
      BY <1>1 DEF Connect
<1>2. ASSUME NEW c \in Clients, Disconnect(c) PROVE AtMostOne' /\ OpAlone'
      BY <1>2 DEF Disconnect
<1>3. ASSUME AcceptFails PROVE AtMostOne' /\ OpAlone'
      BY <1>3 DEF AcceptFails
<1>4. ASSUME DataRace PROVE AtMostOne' /\ OpAlone'
      BY <1>4 DEF DataRace
<1>5. ASSUME NEW t \in Threads, RunAccept(t) PROVE AtMostOne' /\ OpAlone'
      BY <1>5 DEF RunAccept
<1>6. ASSUME NEW t \in Threads, AcceptInsert(t) PROVE AtMostOne' /\ OpAlone'
      BY <1>6 DEF AcceptInsert
<1>7. ASSUME NEW t \in Threads, SessionStart(t) PROVE AtMostOne' /\ OpAlone'
      BY <1>7 DEF SessionStart
<1>8. ASSUME NEW t \in Threads, SessionRead(t) PROVE AtMostOne' /\ OpAlone'
      BY <1>8 DEF SessionRead
<1>9. ASSUME NEW t \in Threads, AcceptNext(t) PROVE AtMostOne' /\ OpAlone'
      BY <1>9 DEF AcceptNext
<1>10. ASSUME NEW t \in Threads, AcceptIssue(t) PROVE AtMostOne' /\ OpAlone'
      BY <1>10 DEF AcceptIssue
<1>11. ASSUME NEW t \in Threads, RunRead(t) PROVE AtMostOne' /\ OpAlone'
      BY <1>11 DEF RunRead
<1>12. ASSUME NEW t \in Threads, CloseMark(t) PROVE AtMostOne' /\ OpAlone'
      BY <1>12 DEF CloseMark
<1>13. ASSUME NEW t \in Threads, CloseSocket(t) PROVE AtMostOne' /\ OpAlone'
      BY <1>13 DEF CloseSocket
<1>14. ASSUME NEW t \in Threads, CloseErase(t) PROVE AtMostOne' /\ OpAlone'
      BY <1>14 DEF CloseErase
<1>15. ASSUME NEW t \in Threads, RunStop(t) PROVE AtMostOne' /\ OpAlone'
      BY <1>15 DEF RunStop
<1>16. ASSUME NEW t \in Threads, StopAcceptor(t) PROVE AtMostOne' /\ OpAlone'
      BY <1>16 DEF StopAcceptor
<1>17. ASSUME NEW t \in Threads, StopCopy(t) PROVE AtMostOne' /\ OpAlone'
      BY <1>17 DEF StopCopy
<1>18. ASSUME NEW t \in Threads, StopEach(t) PROVE AtMostOne' /\ OpAlone'
      BY <1>18 DEF StopEach
<1>19. ASSUME NEW t \in Threads, StopClear(t) PROVE AtMostOne' /\ OpAlone'
      BY <1>19 DEF StopClear
<1>20. ASSUME NEW t \in Threads, StopIo(t) PROVE AtMostOne' /\ OpAlone'
      BY <1>20 DEF StopIo
<1>21. ASSUME NEW t \in Threads, StopDb(t) PROVE AtMostOne' /\ OpAlone'
      BY <1>21 DEF StopDb
<1>22. ASSUME NEW t \in Threads, StopLog(t) PROVE AtMostOne' /\ OpAlone'
      BY <1>22 DEF StopLog
<1>23. ASSUME NEW t \in Threads, Locking(t) PROVE AtMostOne' /\ OpAlone'
      BY <1>23 DEF Locking, Lock
<1>24. CASE UNCHANGED vars
      BY <1>24
<1> QED BY <1>1, <1>2, <1>3, <1>4, <1>5, <1>6, <1>7, <1>8, <1>9, <1>10, <1>11, <1>12, <1>13,
         <1>14, <1>15, <1>16, <1>17, <1>18, <1>19, <1>20, <1>21, <1>22, <1>23, <1>24,
         NextCases, Zenon
KeepsAccepting ==
    acceptorOpen /\ ~acceptFailed => acceptOp \in {"pending",
           "ok"} \/ \E t \in Threads : pc[t] \in AcceptLocs

\* Every step keeps the accept loop of an open acceptor going.
LEMMA NextKeeps == DataInv /\ KeepsAccepting /\ [Next]_vars => KeepsAccepting'
<1> SUFFICES ASSUME DataInv, KeepsAccepting, [Next]_vars PROVE KeepsAccepting'
    OBVIOUS
<1> USE DEF At, Ready, Goto, Take, Return, DataInv, DataOK, KeepsAccepting, AcceptLocs, vars,
         acceptVars
<1>1. ASSUME NEW c \in Clients, Connect(c) PROVE KeepsAccepting'
      BY <1>1 DEF Connect
<1>2. ASSUME NEW c \in Clients, Disconnect(c) PROVE KeepsAccepting'
      BY <1>2 DEF Disconnect
<1>3. ASSUME AcceptFails PROVE KeepsAccepting'
      BY <1>3 DEF AcceptFails
<1>4. ASSUME DataRace PROVE KeepsAccepting'
      BY <1>4 DEF DataRace
<1>5. ASSUME NEW t \in Threads, RunAccept(t) PROVE KeepsAccepting'
      BY <1>5 DEF RunAccept
<1>6. ASSUME NEW t \in Threads, AcceptInsert(t) PROVE KeepsAccepting'
      BY <1>6 DEF AcceptInsert
<1>7. ASSUME NEW t \in Threads, SessionStart(t) PROVE KeepsAccepting'
      BY <1>7 DEF SessionStart
<1>8. ASSUME NEW t \in Threads, SessionRead(t) PROVE KeepsAccepting'
      BY <1>8 DEF SessionRead
<1>9. ASSUME NEW t \in Threads, AcceptNext(t) PROVE KeepsAccepting'
      BY <1>9 DEF AcceptNext
<1>10. ASSUME NEW t \in Threads, AcceptIssue(t) PROVE KeepsAccepting'
      BY <1>10 DEF AcceptIssue
<1>11. ASSUME NEW t \in Threads, RunRead(t) PROVE KeepsAccepting'
      BY <1>11 DEF RunRead
<1>12. ASSUME NEW t \in Threads, CloseMark(t) PROVE KeepsAccepting'
      BY <1>12 DEF CloseMark
<1>13. ASSUME NEW t \in Threads, CloseSocket(t) PROVE KeepsAccepting'
      BY <1>13 DEF CloseSocket
<1>14. ASSUME NEW t \in Threads, CloseErase(t) PROVE KeepsAccepting'
      BY <1>14 DEF CloseErase
<1>15. ASSUME NEW t \in Threads, RunStop(t) PROVE KeepsAccepting'
      BY <1>15 DEF RunStop
<1>16. ASSUME NEW t \in Threads, StopAcceptor(t) PROVE KeepsAccepting'
      BY <1>16 DEF StopAcceptor
<1>17. ASSUME NEW t \in Threads, StopCopy(t) PROVE KeepsAccepting'
      BY <1>17 DEF StopCopy
<1>18. ASSUME NEW t \in Threads, StopEach(t) PROVE KeepsAccepting'
      BY <1>18 DEF StopEach
<1>19. ASSUME NEW t \in Threads, StopClear(t) PROVE KeepsAccepting'
      BY <1>19 DEF StopClear
<1>20. ASSUME NEW t \in Threads, StopIo(t) PROVE KeepsAccepting'
      BY <1>20 DEF StopIo
<1>21. ASSUME NEW t \in Threads, StopDb(t) PROVE KeepsAccepting'
      BY <1>21 DEF StopDb
<1>22. ASSUME NEW t \in Threads, StopLog(t) PROVE KeepsAccepting'
      BY <1>22 DEF StopLog
<1>23. ASSUME NEW t \in Threads, Locking(t) PROVE KeepsAccepting'
      BY <1>23, Zenon DEF Locking, Lock
<1>24. CASE UNCHANGED vars
      BY <1>24
<1> QED BY <1>1, <1>2, <1>3, <1>4, <1>5, <1>6, <1>7, <1>8, <1>9, <1>10, <1>11, <1>12, <1>13,
         <1>14, <1>15, <1>16, <1>17, <1>18, <1>19, <1>20, <1>21, <1>22, <1>23, <1>24,
         NextCases, Zenon

----------------------------------------------------------------------------
(* The registry.  The session that an accept handler is about to insert is   *)
(* known to nobody else.                                                     *)

FreshInv ==
    \A t \in Threads : pc[t] \in {"ac_lock", "ac_insert"} =>
        /\ cur[t] \notin sessions \cup closed \cup armed \cup readErr \cup todo
        /\ \A u \in Threads \ {t} : cur[u] # cur[t]

\* Every step keeps a session that is being accepted out of the hands of all others.
LEMMA NextFresh == DataInv /\ AtMostOne /\ OpAlone /\ FreshInv /\ [Next]_vars => FreshInv'
<1> SUFFICES ASSUME DataInv, AtMostOne, OpAlone, FreshInv, [Next]_vars PROVE FreshInv'
    OBVIOUS
<1> USE ServerAssumption DEF At, Ready, Goto, Take, Return, DataInv, DataOK, AtMostOne,
         OpAlone, FreshInv, AcceptLocs, Working, CloseLocs, Closing, vars, acceptVars,
         sessionVars, stopVars
<1>1. ASSUME NEW c \in Clients, Connect(c) PROVE FreshInv'
      BY <1>1 DEF Connect
<1>2. ASSUME NEW c \in Clients, Disconnect(c) PROVE FreshInv'
      BY <1>2 DEF Disconnect
<1>3. ASSUME AcceptFails PROVE FreshInv'
      BY <1>3 DEF AcceptFails
<1>4. ASSUME DataRace PROVE FreshInv'
      BY <1>4 DEF DataRace
<1>5. ASSUME NEW t \in Threads, RunAccept(t) PROVE FreshInv'
      BY <1>5 DEF RunAccept
<1>6. ASSUME NEW t \in Threads, AcceptInsert(t) PROVE FreshInv'
      BY <1>6 DEF AcceptInsert
<1>7. ASSUME NEW t \in Threads, SessionStart(t) PROVE FreshInv'
      BY <1>7 DEF SessionStart
<1>8. ASSUME NEW t \in Threads, SessionRead(t) PROVE FreshInv'
      BY <1>8 DEF SessionRead
<1>9. ASSUME NEW t \in Threads, AcceptNext(t) PROVE FreshInv'
      BY <1>9 DEF AcceptNext
<1>10. ASSUME NEW t \in Threads, AcceptIssue(t) PROVE FreshInv'
      BY <1>10 DEF AcceptIssue
<1>11. ASSUME NEW t \in Threads, RunRead(t) PROVE FreshInv'
      BY <1>11 DEF RunRead
<1>12. ASSUME NEW t \in Threads, CloseMark(t) PROVE FreshInv'
      BY <1>12 DEF CloseMark
<1>13. ASSUME NEW t \in Threads, CloseSocket(t) PROVE FreshInv'
      BY <1>13 DEF CloseSocket
<1>14. ASSUME NEW t \in Threads, CloseErase(t) PROVE FreshInv'
      BY <1>14 DEF CloseErase
<1>15. ASSUME NEW t \in Threads, RunStop(t) PROVE FreshInv'
      BY <1>15 DEF RunStop
<1>16. ASSUME NEW t \in Threads, StopAcceptor(t) PROVE FreshInv'
      BY <1>16 DEF StopAcceptor
<1>17. ASSUME NEW t \in Threads, StopCopy(t) PROVE FreshInv'
      BY <1>17 DEF StopCopy
<1>18. ASSUME NEW t \in Threads, StopEach(t) PROVE FreshInv'
      BY <1>18 DEF StopEach
<1>19. ASSUME NEW t \in Threads, StopClear(t) PROVE FreshInv'
      BY <1>19 DEF StopClear
<1>20. ASSUME NEW t \in Threads, StopIo(t) PROVE FreshInv'
      BY <1>20 DEF StopIo
<1>21. ASSUME NEW t \in Threads, StopDb(t) PROVE FreshInv'
      BY <1>21 DEF StopDb
<1>22. ASSUME NEW t \in Threads, StopLog(t) PROVE FreshInv'
      BY <1>22 DEF StopLog
<1>23. ASSUME NEW t \in Threads, Locking(t) PROVE FreshInv'
      BY <1>23 DEF Locking, Lock
<1>24. CASE UNCHANGED vars
      BY <1>24
<1> QED BY <1>1, <1>2, <1>3, <1>4, <1>5, <1>6, <1>7, <1>8, <1>9, <1>10, <1>11, <1>12, <1>13,
         <1>14, <1>15, <1>16, <1>17, <1>18, <1>19, <1>20, <1>21, <1>22, <1>23, <1>24,
         NextCases, Zenon

\* A closed session that is still registered is being closed.
StillClosing == \A c \in sessions \cap closed : \E t \in Threads : cur[t] = c /\ pc[t] \in Closing

\* Every step keeps a session that is closed and registered in the hands of the thread
\* that erases it.
LEMMA NextStillClosing == DataInv /\ FreshInv /\ StillClosing /\ [Next]_vars => StillClosing'
<1> SUFFICES ASSUME DataInv, FreshInv, StillClosing, [Next]_vars PROVE StillClosing'
    OBVIOUS
<1> USE DEF At, Ready, Goto, Take, Return, DataInv, DataOK, FreshInv, StillClosing, Closing,
         vars, acceptVars, sessionVars, stopVars
<1>1. ASSUME NEW c \in Clients, Connect(c) PROVE StillClosing'
      BY <1>1 DEF Connect
<1>2. ASSUME NEW c \in Clients, Disconnect(c) PROVE StillClosing'
      BY <1>2 DEF Disconnect
<1>3. ASSUME AcceptFails PROVE StillClosing'
      BY <1>3 DEF AcceptFails
<1>4. ASSUME DataRace PROVE StillClosing'
      BY <1>4 DEF DataRace
<1>5. ASSUME NEW t \in Threads, RunAccept(t) PROVE StillClosing'
      BY <1>5 DEF RunAccept
<1>6. ASSUME NEW t \in Threads, AcceptInsert(t) PROVE StillClosing'
      BY <1>6 DEF AcceptInsert
<1>7. ASSUME NEW t \in Threads, SessionStart(t) PROVE StillClosing'
      BY <1>7 DEF SessionStart
<1>8. ASSUME NEW t \in Threads, SessionRead(t) PROVE StillClosing'
      BY <1>8 DEF SessionRead
<1>9. ASSUME NEW t \in Threads, AcceptNext(t) PROVE StillClosing'
      BY <1>9 DEF AcceptNext
<1>10. ASSUME NEW t \in Threads, AcceptIssue(t) PROVE StillClosing'
      BY <1>10 DEF AcceptIssue
<1>11. ASSUME NEW t \in Threads, RunRead(t) PROVE StillClosing'
      BY <1>11 DEF RunRead
<1>12. ASSUME NEW t \in Threads, CloseMark(t) PROVE StillClosing'
      BY <1>12 DEF CloseMark
<1>13. ASSUME NEW t \in Threads, CloseSocket(t) PROVE StillClosing'
      BY <1>13 DEF CloseSocket
<1>14. ASSUME NEW t \in Threads, CloseErase(t) PROVE StillClosing'
      BY <1>14 DEF CloseErase
<1>15. ASSUME NEW t \in Threads, RunStop(t) PROVE StillClosing'
      BY <1>15 DEF RunStop
<1>16. ASSUME NEW t \in Threads, StopAcceptor(t) PROVE StillClosing'
      BY <1>16 DEF StopAcceptor
<1>17. ASSUME NEW t \in Threads, StopCopy(t) PROVE StillClosing'
      BY <1>17 DEF StopCopy
<1>18. ASSUME NEW t \in Threads, StopEach(t) PROVE StillClosing'
      BY <1>18 DEF StopEach
<1>19. ASSUME NEW t \in Threads, StopClear(t) PROVE StillClosing'
      BY <1>19 DEF StopClear
<1>20. ASSUME NEW t \in Threads, StopIo(t) PROVE StillClosing'
      BY <1>20 DEF StopIo
<1>21. ASSUME NEW t \in Threads, StopDb(t) PROVE StillClosing'
      BY <1>21 DEF StopDb
<1>22. ASSUME NEW t \in Threads, StopLog(t) PROVE StillClosing'
      BY <1>22 DEF StopLog
<1>23. ASSUME NEW t \in Threads, Locking(t) PROVE StillClosing'
      BY <1>23 DEF Locking, Lock
<1>24. CASE UNCHANGED vars
      BY <1>24
<1> QED BY <1>1, <1>2, <1>3, <1>4, <1>5, <1>6, <1>7, <1>8, <1>9, <1>10, <1>11, <1>12, <1>13,
         <1>14, <1>15, <1>16, <1>17, <1>18, <1>19, <1>20, <1>21, <1>22, <1>23, <1>24,
         NextCases, Zenon
----------------------------------------------------------------------------
(* stop().  The thread that runs it stays in it until it is done.            *)

StopperAt(L) == stopper # None /\ pc[stopper] \in L
Cleared == {"st_io", "st_db", "st_log", "idle"}
Emptied == {"st_lock2", "st_clear"} \cup Cleared
Copied == {"st_each"} \cup Emptied \cup CloseLocs

\* Where the thread is tells what stop() has done.
StopInv ==
    /\ stopper # None => pc[stopper] \in StopLocs \cup CloseLocs \cup {"idle"}
    /\ \A t \in Threads : pc[t] \notin Working => cur[t] = None
    /\ StopperAt(Emptied) => todo = {}
    /\ StopperAt(Copied \cup {"st_lock", "st_copy"}) => acceptOp # "pending"

ProgressInv ==
    /\ StopperAt(Copied \cup {"st_lock", "st_copy"}) => ~acceptorOpen
    /\ ioStopped <=> StopperAt({"st_db", "st_log", "idle"})
    /\ StopperAt({"st_log", "idle"}) => dbDown

\* Every step keeps what stop() has done so far done.
LEMMA NextProgress == DataInv /\ StopInv /\ ProgressInv /\ [Next]_vars => ProgressInv'
<1> SUFFICES ASSUME DataInv, StopInv, ProgressInv, [Next]_vars PROVE ProgressInv'
    OBVIOUS
<1> USE ServerAssumption DEF At, Ready, Goto, Take, Return, StopperAt, Cleared, Emptied,
         Copied, DataInv, DataOK, StopInv, ProgressInv, StopLocs, CloseLocs, AcceptLocs, vars,
         acceptVars, stopVars
<1>1. ASSUME NEW c \in Clients, Connect(c) PROVE ProgressInv'
      BY <1>1 DEF Connect
<1>2. ASSUME NEW c \in Clients, Disconnect(c) PROVE ProgressInv'
      BY <1>2 DEF Disconnect
<1>3. ASSUME AcceptFails PROVE ProgressInv'
      BY <1>3 DEF AcceptFails
<1>4. ASSUME DataRace PROVE ProgressInv'
      BY <1>4 DEF DataRace
<1>5. ASSUME NEW t \in Threads, RunAccept(t) PROVE ProgressInv'
      BY <1>5 DEF RunAccept
<1>6. ASSUME NEW t \in Threads, AcceptInsert(t) PROVE ProgressInv'
      BY <1>6 DEF AcceptInsert
<1>7. ASSUME NEW t \in Threads, SessionStart(t) PROVE ProgressInv'
      BY <1>7 DEF SessionStart
<1>8. ASSUME NEW t \in Threads, SessionRead(t) PROVE ProgressInv'
      BY <1>8 DEF SessionRead
<1>9. ASSUME NEW t \in Threads, AcceptNext(t) PROVE ProgressInv'
      BY <1>9 DEF AcceptNext
<1>10. ASSUME NEW t \in Threads, AcceptIssue(t) PROVE ProgressInv'
      BY <1>10 DEF AcceptIssue
<1>11. ASSUME NEW t \in Threads, RunRead(t) PROVE ProgressInv'
      BY <1>11 DEF RunRead
<1>12. ASSUME NEW t \in Threads, CloseMark(t) PROVE ProgressInv'
      BY <1>12 DEF CloseMark
<1>13. ASSUME NEW t \in Threads, CloseSocket(t) PROVE ProgressInv'
      BY <1>13 DEF CloseSocket
<1>14. ASSUME NEW t \in Threads, CloseErase(t) PROVE ProgressInv'
      BY <1>14 DEF CloseErase
<1>15. ASSUME NEW t \in Threads, RunStop(t) PROVE ProgressInv'
      BY <1>15 DEF RunStop
<1>16. ASSUME NEW t \in Threads, StopAcceptor(t) PROVE ProgressInv'
      BY <1>16 DEF StopAcceptor
<1>17. ASSUME NEW t \in Threads, StopCopy(t) PROVE ProgressInv'
      BY <1>17 DEF StopCopy
<1>18. ASSUME NEW t \in Threads, StopEach(t) PROVE ProgressInv'
      BY <1>18 DEF StopEach
<1>19. ASSUME NEW t \in Threads, StopClear(t) PROVE ProgressInv'
      BY <1>19 DEF StopClear
<1>20. ASSUME NEW t \in Threads, StopIo(t) PROVE ProgressInv'
      BY <1>20 DEF StopIo
<1>21. ASSUME NEW t \in Threads, StopDb(t) PROVE ProgressInv'
      BY <1>21 DEF StopDb
<1>22. ASSUME NEW t \in Threads, StopLog(t) PROVE ProgressInv'
      BY <1>22 DEF StopLog
<1>23. ASSUME NEW t \in Threads, Locking(t) PROVE ProgressInv'
      BY <1>23 DEF Locking, Lock
<1>24. CASE UNCHANGED vars
      BY <1>24
<1> QED BY <1>1, <1>2, <1>3, <1>4, <1>5, <1>6, <1>7, <1>8, <1>9, <1>10, <1>11, <1>12, <1>13,
         <1>14, <1>15, <1>16, <1>17, <1>18, <1>19, <1>20, <1>21, <1>22, <1>23, <1>24,
         NextCases, Zenon

\* Every step keeps the one thread that runs stop() where its record says.
LEMMA NextStop == DataInv /\ StopInv /\ ProgressInv /\ [Next]_vars => StopInv'
<1> SUFFICES ASSUME DataInv, StopInv, ProgressInv, [Next]_vars PROVE StopInv'
    OBVIOUS
<1> USE ServerAssumption DEF At, Ready, Goto, Take, Return, StopperAt, Cleared, Emptied,
         Copied, DataInv, DataOK, StopInv, ProgressInv, Working, StopLocs, CloseLocs,
         AcceptLocs, vars, acceptVars, stopVars
<1>1. ASSUME NEW c \in Clients, Connect(c) PROVE StopInv'
      BY <1>1 DEF Connect
<1>2. ASSUME NEW c \in Clients, Disconnect(c) PROVE StopInv'
      BY <1>2 DEF Disconnect
<1>3. ASSUME AcceptFails PROVE StopInv'
      BY <1>3 DEF AcceptFails
<1>4. ASSUME DataRace PROVE StopInv'
      BY <1>4 DEF DataRace
<1>5. ASSUME NEW t \in Threads, RunAccept(t) PROVE StopInv'
      BY <1>5, SMTT(20) DEF RunAccept
<1>6. ASSUME NEW t \in Threads, AcceptInsert(t) PROVE StopInv'
      BY <1>6 DEF AcceptInsert
<1>7. ASSUME NEW t \in Threads, SessionStart(t) PROVE StopInv'
      BY <1>7 DEF SessionStart
<1>8. ASSUME NEW t \in Threads, SessionRead(t) PROVE StopInv'
      BY <1>8 DEF SessionRead
<1>9. ASSUME NEW t \in Threads, AcceptNext(t) PROVE StopInv'
      BY <1>9 DEF AcceptNext
<1>10. ASSUME NEW t \in Threads, AcceptIssue(t) PROVE StopInv'
      BY <1>10 DEF AcceptIssue
<1>11. ASSUME NEW t \in Threads, RunRead(t) PROVE StopInv'
      BY <1>11 DEF RunRead
<1>12. ASSUME NEW t \in Threads, CloseMark(t) PROVE StopInv'
      BY <1>12 DEF CloseMark
<1>13. ASSUME NEW t \in Threads, CloseSocket(t) PROVE StopInv'
      BY <1>13 DEF CloseSocket
<1>14. ASSUME NEW t \in Threads, CloseErase(t) PROVE StopInv'
      BY <1>14 DEF CloseErase
<1>15. ASSUME NEW t \in Threads, RunStop(t) PROVE StopInv'
      BY <1>15 DEF RunStop
<1>16. ASSUME NEW t \in Threads, StopAcceptor(t) PROVE StopInv'
      BY <1>16 DEF StopAcceptor
<1>17. ASSUME NEW t \in Threads, StopCopy(t) PROVE StopInv'
      BY <1>17 DEF StopCopy
<1>18. ASSUME NEW t \in Threads, StopEach(t) PROVE StopInv'
      BY <1>18 DEF StopEach
<1>19. ASSUME NEW t \in Threads, StopClear(t) PROVE StopInv'
      BY <1>19 DEF StopClear
<1>20. ASSUME NEW t \in Threads, StopIo(t) PROVE StopInv'
      BY <1>20 DEF StopIo
<1>21. ASSUME NEW t \in Threads, StopDb(t) PROVE StopInv'
      BY <1>21 DEF StopDb
<1>22. ASSUME NEW t \in Threads, StopLog(t) PROVE StopInv'
      BY <1>22 DEF StopLog
<1>23. ASSUME NEW t \in Threads, Locking(t) PROVE StopInv'
      BY <1>23 DEF Locking, Lock
<1>24. CASE UNCHANGED vars
      BY <1>24
<1> QED BY <1>1, <1>2, <1>3, <1>4, <1>5, <1>6, <1>7, <1>8, <1>9, <1>10, <1>11, <1>12, <1>13,
         <1>14, <1>15, <1>16, <1>17, <1>18, <1>19, <1>20, <1>21, <1>22, <1>23, <1>24,
         NextCases, Zenon
\* A session that is neither closed nor registered is about to be, or stop() has
\* cleared the set.
Registered ==
    \A c \in made \ (sessions \cup closed) :
        \/ \E t \in Threads : cur[t] = c /\ pc[t] \in {"ac_lock", "ac_insert"}
        \/ StopperAt(Cleared)

\* Every step keeps a session that is made and open in the registry, until stop() clears it.
LEMMA NextRegistered == DataInv /\ StopInv /\ ProgressInv /\ Registered /\ [Next]_vars => Registered'
<1> SUFFICES ASSUME DataInv, StopInv, ProgressInv, Registered, [Next]_vars PROVE Registered'
    OBVIOUS
<1> USE ServerAssumption DEF At, Ready, Goto, Take, Return, StopperAt, Cleared, DataInv,
         DataOK, StopInv, ProgressInv, Registered, Closing, StopLocs, CloseLocs, vars,
         acceptVars, sessionVars, stopVars
<1>1. ASSUME NEW c \in Clients, Connect(c) PROVE Registered'
      BY <1>1 DEF Connect
<1>2. ASSUME NEW c \in Clients, Disconnect(c) PROVE Registered'
      BY <1>2 DEF Disconnect
<1>3. ASSUME AcceptFails PROVE Registered'
      BY <1>3 DEF AcceptFails
<1>4. ASSUME DataRace PROVE Registered'
      BY <1>4 DEF DataRace
<1>5. ASSUME NEW t \in Threads, RunAccept(t) PROVE Registered'
      BY <1>5 DEF RunAccept
<1>6. ASSUME NEW t \in Threads, AcceptInsert(t) PROVE Registered'
      BY <1>6, SMTT(20) DEF AcceptInsert
<1>7. ASSUME NEW t \in Threads, SessionStart(t) PROVE Registered'
      BY <1>7 DEF SessionStart
<1>8. ASSUME NEW t \in Threads, SessionRead(t) PROVE Registered'
      BY <1>8 DEF SessionRead
<1>9. ASSUME NEW t \in Threads, AcceptNext(t) PROVE Registered'
      BY <1>9, SMTT(20) DEF AcceptNext
<1>10. ASSUME NEW t \in Threads, AcceptIssue(t) PROVE Registered'
      BY <1>10 DEF AcceptIssue
<1>11. ASSUME NEW t \in Threads, RunRead(t) PROVE Registered'
      BY <1>11, SMTT(20) DEF RunRead
<1>12. ASSUME NEW t \in Threads, CloseMark(t) PROVE Registered'
      BY <1>12 DEF CloseMark
<1>13. ASSUME NEW t \in Threads, CloseSocket(t) PROVE Registered'
      BY <1>13 DEF CloseSocket
<1>14. ASSUME NEW t \in Threads, CloseErase(t) PROVE Registered'
      BY <1>14, SMTT(20) DEF CloseErase
<1>15. ASSUME NEW t \in Threads, RunStop(t) PROVE Registered'
      BY <1>15, SMTT(20) DEF RunStop
<1>16. ASSUME NEW t \in Threads, StopAcceptor(t) PROVE Registered'
      BY <1>16 DEF StopAcceptor
<1>17. ASSUME NEW t \in Threads, StopCopy(t) PROVE Registered'
      BY <1>17 DEF StopCopy
<1>18. ASSUME NEW t \in Threads, StopEach(t) PROVE Registered'
      BY <1>18 DEF StopEach
<1>19. ASSUME NEW t \in Threads, StopClear(t) PROVE Registered'
      BY <1>19 DEF StopClear
<1>20. ASSUME NEW t \in Threads, StopIo(t) PROVE Registered'
      BY <1>20 DEF StopIo
<1>21. ASSUME NEW t \in Threads, StopDb(t) PROVE Registered'
      BY <1>21 DEF StopDb
<1>22. ASSUME NEW t \in Threads, StopLog(t) PROVE Registered'
      BY <1>22 DEF StopLog
<1>23. ASSUME NEW t \in Threads, Locking(t) PROVE Registered'
      BY <1>23, SMTT(20) DEF Locking, Lock
<1>24. CASE UNCHANGED vars
      BY <1>24
<1> QED BY <1>1, <1>2, <1>3, <1>4, <1>5, <1>6, <1>7, <1>8, <1>9, <1>10, <1>11, <1>12, <1>13,
         <1>14, <1>15, <1>16, <1>17, <1>18, <1>19, <1>20, <1>21, <1>22, <1>23, <1>24,
         NextCases, Zenon

\* A session that is marked closed and whose socket is not is about to lose it.
TornInv == \A c \in closed \ torn : \E t \in Threads : cur[t] = c /\ pc[t] = "cl_sock"

\* Every step keeps a session that is closed either torn down or about to be.
LEMMA NextTorn == DataInv /\ TornInv /\ [Next]_vars => TornInv'
<1> SUFFICES ASSUME DataInv, TornInv, [Next]_vars PROVE TornInv'
    OBVIOUS
<1> USE DEF At, Ready, Goto, Take, Return, DataInv, DataOK, TornInv, vars, acceptVars,
         sessionVars, stopVars
<1>1. ASSUME NEW c \in Clients, Connect(c) PROVE TornInv'
      BY <1>1 DEF Connect
<1>2. ASSUME NEW c \in Clients, Disconnect(c) PROVE TornInv'
      BY <1>2 DEF Disconnect
<1>3. ASSUME AcceptFails PROVE TornInv'
      BY <1>3 DEF AcceptFails
<1>4. ASSUME DataRace PROVE TornInv'
      BY <1>4 DEF DataRace
<1>5. ASSUME NEW t \in Threads, RunAccept(t) PROVE TornInv'
      BY <1>5 DEF RunAccept
<1>6. ASSUME NEW t \in Threads, AcceptInsert(t) PROVE TornInv'
      BY <1>6 DEF AcceptInsert
<1>7. ASSUME NEW t \in Threads, SessionStart(t) PROVE TornInv'
      BY <1>7 DEF SessionStart
<1>8. ASSUME NEW t \in Threads, SessionRead(t) PROVE TornInv'
      BY <1>8 DEF SessionRead
<1>9. ASSUME NEW t \in Threads, AcceptNext(t) PROVE TornInv'
      BY <1>9 DEF AcceptNext
<1>10. ASSUME NEW t \in Threads, AcceptIssue(t) PROVE TornInv'
      BY <1>10 DEF AcceptIssue
<1>11. ASSUME NEW t \in Threads, RunRead(t) PROVE TornInv'
      BY <1>11 DEF RunRead
<1>12. ASSUME NEW t \in Threads, CloseMark(t) PROVE TornInv'
      BY <1>12 DEF CloseMark
<1>13. ASSUME NEW t \in Threads, CloseSocket(t) PROVE TornInv'
      BY <1>13 DEF CloseSocket
<1>14. ASSUME NEW t \in Threads, CloseErase(t) PROVE TornInv'
      BY <1>14 DEF CloseErase
<1>15. ASSUME NEW t \in Threads, RunStop(t) PROVE TornInv'
      BY <1>15 DEF RunStop
<1>16. ASSUME NEW t \in Threads, StopAcceptor(t) PROVE TornInv'
      BY <1>16 DEF StopAcceptor
<1>17. ASSUME NEW t \in Threads, StopCopy(t) PROVE TornInv'
      BY <1>17 DEF StopCopy
<1>18. ASSUME NEW t \in Threads, StopEach(t) PROVE TornInv'
      BY <1>18 DEF StopEach
<1>19. ASSUME NEW t \in Threads, StopClear(t) PROVE TornInv'
      BY <1>19 DEF StopClear
<1>20. ASSUME NEW t \in Threads, StopIo(t) PROVE TornInv'
      BY <1>20 DEF StopIo
<1>21. ASSUME NEW t \in Threads, StopDb(t) PROVE TornInv'
      BY <1>21 DEF StopDb
<1>22. ASSUME NEW t \in Threads, StopLog(t) PROVE TornInv'
      BY <1>22 DEF StopLog
<1>23. ASSUME NEW t \in Threads, Locking(t) PROVE TornInv'
      BY <1>23, SMTT(20) DEF Locking, Lock
<1>24. CASE UNCHANGED vars
      BY <1>24
<1> QED BY <1>1, <1>2, <1>3, <1>4, <1>5, <1>6, <1>7, <1>8, <1>9, <1>10, <1>11, <1>12, <1>13,
         <1>14, <1>15, <1>16, <1>17, <1>18, <1>19, <1>20, <1>21, <1>22, <1>23, <1>24,
         NextCases, Zenon

\* Once stop() has copied the registry it will close every session but one at most:
\* the one that the accept handler has not inserted then, or that has arrived and no
\* thread has accepted.
Left ==
    (made \ (closed \cup todo \cup {cur[stopper]})) \cup {c \in {arrived} : acceptOp = "ok"}
LateInv == StopperAt(Copied) => \A c, d \in Left : c = d

\* Every step keeps the sessions that stop() will miss to one at most.
LEMMA NextLate ==
    DataInv /\ AtMostOne /\ OpAlone /\ StopInv /\ ProgressInv /\ Registered /\ LateInv /\ [Next]_vars
        => LateInv'
<1> SUFFICES ASSUME DataInv, AtMostOne, OpAlone, StopInv, ProgressInv, Registered, LateInv,
         [Next]_vars
             PROVE  LateInv'
    OBVIOUS
<1> DEFINE Shrinks == StopperAt(Copied)' => StopperAt(Copied) /\ Left' \subseteq Left
<1>a. Shrinks => LateInv'
      BY DEF LateInv
<1>b. ASSUME UNCHANGED <<made, closed, todo, stopper, acceptOp, arrived>>,
             StopperAt(Copied)' => StopperAt(Copied) /\ cur'[stopper] = cur[stopper]
      PROVE  LateInv'
      BY <1>b DEF LateInv, Left
<1>c. ASSUME NEW t \in Threads, Ready(t), stopper # None PROVE stopper # t
      BY <1>c DEF Ready, At, ProgressInv, StopperAt
<1>d. ASSUME NEW t \in Threads, pc[t] \in AcceptLocs, stopper # None PROVE stopper # t
      BY <1>d DEF AcceptLocs, StopInv, StopLocs, CloseLocs
<1> USE DEF StopperAt, acceptVars, stopVars, sessionVars
<1>1. ASSUME NEW c \in Clients, Connect(c) PROVE LateInv'
      BY <1>1 DEF Connect, StopInv, LateInv
<1>2. ASSUME NEW c \in Clients, Disconnect(c) PROVE LateInv'
      BY <1>2, <1>b DEF Disconnect
<1>3. ASSUME AcceptFails PROVE LateInv'
      BY <1>3 DEF AcceptFails, StopInv, LateInv
<1>4. ASSUME DataRace PROVE LateInv'
      BY <1>4, <1>b DEF DataRace
<1>24. CASE UNCHANGED vars
      BY <1>24, <1>b DEF vars
<1> USE DEF DataInv, DataOK, At, Goto, Take
<1>5. ASSUME NEW t \in Threads, RunAccept(t) PROVE LateInv'
  <2>1. Ready(t) /\ (stopper # None => stopper # t)
        BY <1>5, <1>c DEF RunAccept
  <2>2. Shrinks
        BY <1>5, <2>1 DEF RunAccept, Left
  <2> QED BY <1>a, <2>2
<1>6. ASSUME NEW t \in Threads, AcceptInsert(t) PROVE LateInv'
      BY <1>6, <1>b, <1>d DEF AcceptInsert, AcceptLocs
<1>7. ASSUME NEW t \in Threads, SessionStart(t) PROVE LateInv'
      BY <1>7, <1>b, <1>d DEF SessionStart, AcceptLocs
<1>8. ASSUME NEW t \in Threads, SessionRead(t) PROVE LateInv'
      BY <1>8, <1>b, <1>d DEF SessionRead, AcceptLocs
<1>9. ASSUME NEW t \in Threads, AcceptNext(t) PROVE LateInv'
      BY <1>9, <1>b, <1>d DEF AcceptNext, AcceptLocs
<1>10. ASSUME NEW t \in Threads, AcceptIssue(t) PROVE LateInv'
  <2>1. stopper # None => stopper # t
        BY <1>10, <1>d DEF AcceptIssue, AcceptLocs
  <2>2. Shrinks
        BY <1>10, <2>1 DEF AcceptIssue, Left, ProgressInv
  <2> QED BY <1>a, <2>2
<1>11. ASSUME NEW t \in Threads, RunRead(t) PROVE LateInv'
      BY <1>11, <1>b, <1>c DEF RunRead
<1> USE ServerAssumption DEF Copied, Emptied, Cleared, CloseLocs
<1>12. ASSUME NEW t \in Threads, CloseMark(t) PROVE LateInv'
  <2>1. Shrinks
        BY <1>12 DEF CloseMark, Return, Left
  <2> QED BY <1>a, <2>1
<1>13. ASSUME NEW t \in Threads, CloseSocket(t) PROVE LateInv'
      BY <1>13, <1>b DEF CloseSocket
<1>14. ASSUME NEW t \in Threads, CloseErase(t) PROVE LateInv'
  <2>1. Shrinks
        BY <1>14 DEF CloseErase, Return, Left, Closing
  <2> QED BY <1>a, <2>1
<1>15. ASSUME NEW t \in Threads, RunStop(t) PROVE LateInv'
      BY <1>15 DEF RunStop, LateInv
<1>16. ASSUME NEW t \in Threads, StopAcceptor(t) PROVE LateInv'
      BY <1>16 DEF StopAcceptor, LateInv, StopLocs
<1>17. ASSUME NEW t \in Threads, StopCopy(t) PROVE LateInv'
  <2>1. stopper = t /\ pc[t] = "st_copy" /\ ~StopperAt(Cleared) /\ cur[t] = None
        BY <1>17 DEF StopCopy, StopLocs, StopInv, Working
  <2>2. Left' = (made \ (closed \cup sessions)) \cup {c \in {arrived} : acceptOp = "ok"}
        BY <1>17, <2>1 DEF StopCopy, Left
  <2>3. \A c \in made \ (closed \cup sessions) :
           \E u \in Threads : cur[u] = c /\ pc[u] \in AcceptLocs
        BY <2>1 DEF Registered, AcceptLocs
  <2> QED BY <2>2, <2>3 DEF LateInv, AtMostOne, OpAlone
<1>18. ASSUME NEW t \in Threads, StopEach(t) PROVE LateInv'
  <2>1. stopper = t /\ cur[t] = None
        BY <1>18 DEF StopEach, StopLocs, StopInv, Working
  <2>2. Shrinks
        BY <1>18, <2>1 DEF StopEach, Left
  <2> QED BY <1>a, <2>2
<1>19. ASSUME NEW t \in Threads, StopClear(t) PROVE LateInv'
      BY <1>19, <1>b DEF StopClear
<1>20. ASSUME NEW t \in Threads, StopIo(t) PROVE LateInv'
      BY <1>20, <1>b DEF StopIo
<1>21. ASSUME NEW t \in Threads, StopDb(t) PROVE LateInv'
      BY <1>21, <1>b DEF StopDb
<1>22. ASSUME NEW t \in Threads, StopLog(t) PROVE LateInv'
      BY <1>22, <1>b DEF StopLog
<1>23. ASSUME NEW t \in Threads, Locking(t) PROVE LateInv'
      BY <1>23, <1>b DEF Locking, Lock
<1> QED BY <1>1, <1>2, <1>3, <1>4, <1>5, <1>6, <1>7, <1>8, <1>9, <1>10, <1>11, <1>12, <1>13,
         <1>14, <1>15, <1>16, <1>17, <1>18, <1>19, <1>20, <1>21, <1>22, <1>23, <1>24,
         NextCases, Zenon
----------------------------------------------------------------------------
(* The theorems.                                                            *)

ChainInv == AtMostOne /\ OpAlone /\ KeepsAccepting
RegistryInv == FreshInv /\ StillClosing /\ Registered /\ TornInv
ServerInv == DataInv /\ MutexInv /\ ChainInv /\ StopInv /\ ProgressInv /\ RegistryInv /\ LateInv

\* The initial state satisfies every part of the invariant.
LEMMA InitServer == Init => ServerInv
<1> SUFFICES ASSUME Init PROVE ServerInv
    OBVIOUS
<1>1. ChainInv
      BY DEF Init, ChainInv, AtMostOne, OpAlone, KeepsAccepting, AcceptLocs
<1>2. StopInv /\ LateInv
      BY DEF Init, StopInv, LateInv, StopperAt
<1>3. ProgressInv
      BY DEF Init, ProgressInv, StopperAt
<1>4. RegistryInv
      BY DEF Init, RegistryInv, FreshInv, StillClosing, Registered, TornInv
<1> QED BY <1>1, <1>2, <1>3, <1>4, InitData, InitMutex DEF ServerInv

\* So does every step.
LEMMA NextServer == ServerInv /\ [Next]_vars => ServerInv'
BY NextData, NextMutex, NextChain, NextKeeps, NextStop, NextProgress, NextFresh,
         NextStillClosing,
   NextRegistered, NextTorn, NextLate, Zenon DEF ServerInv, ChainInv, RegistryInv

\* The members of the server keep their types, and only sessions that were made are
\* registered, read or closed.
THEOREM ServerTypes == Spec => []TypeOK
<1>1. FlagsOK /\ DataInv => TypeOK
      BY Zenon DEF DataInv, TypeOK
<1> QED BY <1>1, InitData, NextFlags, NextData, PTL DEF Spec

\* No thread waits for sessions_mutex_ while it owns it: stop() closes a copy.
THEOREM NeverSelfDeadlocked == Spec => []NoSelfDeadlock
<1>1. ServerInv => NoSelfDeadlock
      BY DEF ServerInv, DataInv, DataOK, MutexInv, NoSelfDeadlock, Guarded
<1> QED BY <1>1, InitServer, NextServer, PTL DEF Spec

\* start_accept() never has two accepts under way, and keeps accepting until an accept
\* fails or stop() closes the acceptor.
THEOREM OneAcceptChain == Spec => []SingleAcceptChain
<1>1. ServerInv => SingleAcceptChain
  <2> SUFFICES ASSUME ServerInv PROVE SingleAcceptChain
      OBVIOUS
  <2>1. (\A t, u \in Accepting : t = u) /\ (acceptOp # "none" => Accepting = {})
        BY DEF ServerInv, ChainInv, AtMostOne, OpAlone, Accepting
  <2>2. acceptorOpen /\ ~acceptFailed /\ acceptOp = "none" => Accepting # {}
        BY DEF ServerInv, ChainInv, KeepsAccepting, Accepting
  <2> QED BY <2>1, <2>2 DEF SingleAcceptChain
<1> QED BY <1>1, InitServer, NextServer, PTL DEF Spec

\* sessions_ is exact, with any number of threads accepting, closing and stopping.
THEOREM RegistryAlwaysExact == Spec => []RegistryExact
<1>1. ServerInv => RegistryExact
  <2> SUFFICES ASSUME ServerInv PROVE RegistryExact
      OBVIOUS
  <2>1. \A c \in sessions \cap closed :
            \E t \in Threads : cur[t] = c /\ pc[t] \in {"cl_sock", "cl_lock", "cl_erase"}
        BY DEF ServerInv, RegistryInv, StillClosing, Closing
  <2>2. StopperAt(Cleared) => ioStopped \/ \E t \in Threads : pc[t] = "st_io"
        BY DEF ServerInv, DataInv, DataOK, ProgressInv, StopperAt, Cleared
  <2>3. ASSUME NEW c \in made \ (sessions \cup closed)
        PROVE  \/ \E t \in Threads : cur[t] = c /\ pc[t] \in {"ac_lock", "ac_insert"}
               \/ ioStopped \/ \E t \in Threads : pc[t] = "st_io"
        BY <2>2, Zenon DEF ServerInv, RegistryInv, Registered
  <2> QED BY <2>1, <2>3 DEF RegistryExact
<1> QED BY <1>1, InitServer, NextServer, PTL DEF Spec

\* When every thread has left run() after stop(), the pool is shut down and every
\* session but one at most has been closed.
THEOREM StopLeavesOneAtMost == Spec => []StopClosesAllButOne
<1>1. ServerInv => StopClosesAllButOne
  <2> SUFFICES ASSUME ServerInv, ioStopped, \A t \in Threads : pc[t] = "idle"
               PROVE  dbDown /\ \A c, d \in sessions \cup (made \ torn) : c = d
      BY DEF StopClosesAllButOne
  <2>1. StopperAt({"st_db", "st_log", "idle"}) /\ stopper \in Threads
        BY DEF ServerInv, DataInv, DataOK, ProgressInv, StopperAt
  <2>2. pc[stopper] = "idle" /\ stopper # None
        BY <2>1 DEF StopperAt
  <2>3. dbDown
        BY <2>2 DEF ServerInv, ProgressInv, StopperAt
  <2>4. todo = {} /\ cur[stopper] = None /\ None \notin made
        BY <2>1, <2>2, ServerAssumption
           DEF ServerInv, DataInv, DataOK, StopInv, StopperAt, Emptied, Cleared, Working,
                  CloseLocs
  <2>5. sessions \cap closed = {} /\ closed \subseteq torn
        BY Zenon DEF ServerInv, RegistryInv, StillClosing, TornInv, Closing
  <2>6. sessions \cup (made \ torn) \subseteq Left
        BY <2>4, <2>5 DEF ServerInv, DataInv, DataOK, Left
  <2>7. \A c, d \in Left : c = d
        BY <2>2 DEF ServerInv, LateInv, StopperAt, Copied, Emptied, Cleared
  <2> QED BY <2>3, <2>6, <2>7
<1> QED BY <1>1, InitServer, NextServer, PTL DEF Spec

----------------------------------------------------------------------------
(* The shutdown with one network thread: the signal handler and the accept   *)
(* handler exclude each other, so the copy of the registry misses nothing.   *)

OneThread == \E t : Threads = {t}

\* stop() has closed, is closing or will close every session there is.
CaughtInv == StopperAt(Copied) => made \subseteq closed \cup todo \cup {cur[stopper]}

\* With one thread every step keeps that.
LEMMA NextCaught ==
    OneThread /\ DataInv /\ StopInv /\ ProgressInv /\ Registered /\ CaughtInv /\ [Next]_vars => CaughtInv'
<1> SUFFICES ASSUME OneThread, DataInv, StopInv, ProgressInv, Registered, CaughtInv, [Next]_vars
             PROVE  CaughtInv'
    OBVIOUS
<1>a. ASSUME UNCHANGED <<made, closed, todo, stopper>>,
             StopperAt(Copied)' => StopperAt(Copied) /\ cur'[stopper] = cur[stopper]
      PROVE  CaughtInv'
      BY <1>a DEF CaughtInv
<1>b. ASSUME NEW t \in Threads, Ready(t) PROVE stopper = None
      BY <1>b DEF Ready, At, ProgressInv, StopperAt, OneThread, DataInv, DataOK
<1>c. ASSUME NEW t \in Threads, pc[t] \in AcceptLocs PROVE stopper = None
      BY <1>c DEF AcceptLocs, StopInv, StopLocs, CloseLocs, OneThread, DataInv, DataOK
<1> USE DEF StopperAt, acceptVars, stopVars, sessionVars
<1>1. ASSUME NEW c \in Clients, Connect(c) \/ Disconnect(c) PROVE CaughtInv'
      BY <1>1, <1>a DEF Connect, Disconnect
<1>2. CASE AcceptFails \/ DataRace
      BY <1>2, <1>a DEF AcceptFails, DataRace
<1>3. CASE UNCHANGED vars
      BY <1>3, <1>a DEF vars
<1>4. ASSUME NEW t \in Threads, RunAccept(t) \/ RunRead(t) PROVE CaughtInv'
  <2>1. stopper = None
        BY <1>4, <1>b DEF RunAccept, RunRead
  <2> QED BY <1>4, <2>1 DEF RunAccept, RunRead, CaughtInv
<1>5. ASSUME NEW t \in Threads, AcceptInsert(t) \/ SessionStart(t) \/ SessionRead(t) \/ AcceptNext(t) \/ AcceptIssue(t)
      PROVE  CaughtInv'
  <2>1. stopper = None
        BY <1>5, <1>c DEF AcceptInsert, SessionStart, SessionRead, AcceptNext, AcceptIssue, At, AcceptLocs
  <2> QED BY <1>5, <2>1 DEF AcceptInsert, SessionStart, SessionRead, AcceptNext, AcceptIssue, CaughtInv
<1> USE ServerAssumption DEF DataInv, DataOK, At, Goto, Take, Copied, Emptied, Cleared, CloseLocs
<1>6. ASSUME NEW t \in Threads, CloseMark(t) PROVE CaughtInv'
      BY <1>6 DEF CloseMark, Return, CaughtInv
<1>7. ASSUME NEW t \in Threads, CloseSocket(t) PROVE CaughtInv'
      BY <1>7, <1>a DEF CloseSocket
<1>8. ASSUME NEW t \in Threads, CloseErase(t) PROVE CaughtInv'
      BY <1>8 DEF CloseErase, Return, CaughtInv, Closing
<1>9. ASSUME NEW t \in Threads, RunStop(t) PROVE CaughtInv'
      BY <1>9 DEF RunStop, CaughtInv
<1>10. ASSUME NEW t \in Threads, StopAcceptor(t) PROVE CaughtInv'
      BY <1>10 DEF StopAcceptor, CaughtInv, StopLocs
<1>11. ASSUME NEW t \in Threads, StopCopy(t) PROVE CaughtInv'
  <2>1. stopper = t /\ pc[t] = "st_copy" /\ ~StopperAt(Cleared)
        BY <1>11 DEF StopCopy, StopLocs
  <2>2. \A u \in Threads : u = t
        BY DEF OneThread
  <2>3. made \ (closed \cup sessions) = {}
        BY <2>1, <2>2 DEF Registered
  <2> QED BY <1>11, <2>3 DEF StopCopy, CaughtInv
<1>12. ASSUME NEW t \in Threads, StopEach(t) PROVE CaughtInv'
  <2>1. stopper = t /\ cur[t] = None
        BY <1>12 DEF StopEach, StopLocs, StopInv, Working
  <2> QED BY <1>12, <2>1 DEF StopEach, CaughtInv
<1>13. ASSUME NEW t \in Threads, StopClear(t) \/ StopIo(t) \/ StopDb(t) \/ StopLog(t) PROVE CaughtInv'
      BY <1>13, <1>a DEF StopClear, StopIo, StopDb, StopLog
<1>14. ASSUME NEW t \in Threads, Locking(t) PROVE CaughtInv'
      BY <1>14, <1>a DEF Locking, Lock
<1> QED BY <1>1, <1>2, <1>3, <1>4, <1>5, <1>6, <1>7, <1>8, <1>9, <1>10, <1>11, <1>12, <1>13, <1>14,
         NextCases, Zenon

\* With one thread there is nothing for stop() to race with.
NoRace == fault # "data_race"

\* Every step of the one thread keeps it so.
LEMMA NextNoRace == OneThread /\ NoRace /\ [Next]_vars => NoRace'
<1> SUFFICES ASSUME OneThread, fault # "data_race", [Next]_vars PROVE fault' # "data_race"
    BY DEF NoRace
<1>1. ~DataRace
      BY DEF DataRace, Conflict, OneThread
<1>2. ASSUME NEW c \in Clients, Connect(c) \/ Disconnect(c) PROVE fault' = fault
      BY <1>2, Zenon DEF Connect, Disconnect
<1>3. CASE AcceptFails \/ UNCHANGED vars
      BY <1>3, Zenon DEF AcceptFails, vars
<1>4. ASSUME NEW t \in Threads, SessionStart(t) PROVE fault' # "data_race"
      BY <1>4 DEF SessionStart
<1>5. ASSUME NEW t \in Threads,
             \/ RunAccept(t) \/ AcceptInsert(t) \/ SessionRead(t) \/ AcceptNext(t) \/ AcceptIssue(t)
             \/ RunRead(t) \/ CloseMark(t) \/ CloseSocket(t) \/ CloseErase(t) \/ Locking(t)
      PROVE  fault' = fault
      BY <1>5, Zenon DEF RunAccept, AcceptInsert, SessionRead, AcceptNext, AcceptIssue, RunRead,
                         CloseMark, CloseSocket, CloseErase, Locking, Lock
<1>6. ASSUME NEW t \in Threads,
             \/ RunStop(t) \/ StopAcceptor(t) \/ StopCopy(t) \/ StopEach(t)
             \/ StopClear(t) \/ StopIo(t) \/ StopDb(t) \/ StopLog(t)
      PROVE  fault' = fault
      BY <1>6, Zenon DEF RunStop, StopAcceptor, StopCopy, StopEach, StopClear, StopIo, StopDb, StopLog
<1> QED BY <1>1, <1>2, <1>3, <1>4, <1>5, <1>6, NextCases, Zenon

\* What StopClosesAllButOne says, with no session excepted.
StopClosesAll ==
    (fault = "none" /\ ioStopped /\ \A t \in Threads : pc[t] = "idle")
        => dbDown /\ sessions = {} /\ torn = made

\* README: "Cleanly stops all sessions and the DB pool on shutdown."  With one network
\* thread that is so without exception: when the thread has left run(), the pool is shut
\* down, the registry is empty, every socket ever accepted is closed, and nothing raced.
THEOREM OneThreadStops ==
    ASSUME OneThread
    PROVE  Spec => [](NoRace /\ StopClosesAll)
<1>1. Init => CaughtInv /\ NoRace
      BY DEF Init, CaughtInv, StopperAt, NoRace
<1>2. ServerInv /\ CaughtInv => StopClosesAll
  <2> SUFFICES ASSUME ServerInv, CaughtInv, ioStopped, \A t \in Threads : pc[t] = "idle"
               PROVE  dbDown /\ sessions = {} /\ torn = made
      BY DEF StopClosesAll
  <2>1. StopperAt({"st_db", "st_log", "idle"}) /\ stopper \in Threads
        BY DEF ServerInv, DataInv, DataOK, ProgressInv, StopperAt
  <2>2. pc[stopper] = "idle" /\ stopper # None
        BY <2>1 DEF StopperAt
  <2>3. dbDown
        BY <2>2 DEF ServerInv, ProgressInv, StopperAt
  <2>4. todo = {} /\ cur[stopper] = None /\ None \notin made
        BY <2>1, <2>2, ServerAssumption
           DEF ServerInv, DataInv, DataOK, StopInv, StopperAt, Emptied, Cleared, Working, CloseLocs
  <2>5. sessions \cap closed = {} /\ closed \subseteq torn
        BY Zenon DEF ServerInv, RegistryInv, StillClosing, TornInv, Closing
  <2>6. made \subseteq closed
        BY <2>2, <2>4 DEF CaughtInv, StopperAt, Copied, Emptied, Cleared
  <2> QED BY <2>3, <2>5, <2>6 DEF ServerInv, DataInv, DataOK
<1>3. ServerInv /\ CaughtInv /\ [Next]_vars => CaughtInv'
      BY OneThread, NextCaught, Zenon DEF ServerInv, RegistryInv
<1>4. NoRace /\ [Next]_vars => NoRace'
      BY OneThread, NextNoRace, Zenon
<1> QED BY <1>1, <1>2, <1>3, <1>4, InitServer, NextServer, PTL DEF Spec

=============================================================================
