------------------------------- MODULE Server -------------------------------
(***************************************************************************)
(* The life of the server (Server.cpp, main_server.cpp): the accept loop,  *)
(* the registry sessions_ under sessions_mutex_, the sessions' close() as  *)
(* far as it uses the registry, and stop() as the signal handler runs it.  *)
(* Any thread inside io_context::run() may execute any ready handler.      *)
(* A lock_guard block is two steps: take the mutex, then the body and the  *)
(* release.  Module ClientSession models what a session does in between,   *)
(* AccountCache and DatabasePool what stop() asks of the cache and pool.   *)
(***************************************************************************)
EXTENDS Naturals

CONSTANTS
    Threads,   \* network_threads
    Clients,   \* the connections clients may make, one session each
    None       \* no thread, no client

ASSUME ServerAssumption == Threads # {} /\ None \notin Threads \cup Clients

VARIABLES
    fault,         \* "uncaught_exception": a handler threw out of run()
    acceptorOpen,  \* acceptor_.is_open()
    acceptOp,      \* the async_accept of start_accept()
    arrived,       \* the connection a completed async_accept delivers
    acceptFailed,  \* an accept has failed while the acceptor was open
    made,          \* sessions constructed
    sessions,      \* sessions_
    mutex,         \* owner of sessions_mutex_
    armed,         \* sessions with a read outstanding
    readErr,       \* sessions whose read failed; the handler is ready
    closed,        \* sessions with closed_ set
    torn,          \* sessions whose socket is closed
    stopper,       \* the thread that runs, or ran, the signal handler
    ioStopped,     \* io_context_.stop() was called
    dbDown,        \* db_->shutdown() was called
    todo,          \* what is left of stop()'s sessions_copy
    pc, cur        \* where each thread is, and the session it works on

acceptVars  == <<acceptorOpen, acceptOp, arrived, acceptFailed>>
sessionVars == <<armed, readErr, closed, torn>>
stopVars    == <<stopper, ioStopped, dbDown, todo>>
vars == <<fault, acceptVars, made, sessions, mutex, sessionVars, stopVars, pc, cur>>

AcceptLocs == {"ac_lock", "ac_insert", "ac_start", "ac_read", "ac_next", "ac_issue"}
CloseLocs  == {"cl_mark", "cl_sock", "cl_lock", "cl_erase"}
StopLocs   == {"st_acceptor", "st_lock", "st_copy", "st_each", "st_lock2", "st_clear", "st_io", "st_db", "st_log"}
Locs       == {"idle"} \cup AcceptLocs \cup CloseLocs \cup StopLocs

FlagsOK ==
    /\ acceptorOpen \in BOOLEAN /\ acceptFailed \in BOOLEAN
    /\ ioStopped \in BOOLEAN /\ dbDown \in BOOLEAN

DataOK ==
    /\ fault \in {"none", "uncaught_exception", "data_race"}
    /\ acceptOp \in {"none", "pending", "ok", "err"}
    /\ acceptOp = "ok" => arrived \in Clients \ made
    /\ made \subseteq Clients /\ sessions \subseteq made
    /\ armed \subseteq made /\ readErr \subseteq made /\ torn \subseteq closed
    /\ closed \subseteq made /\ todo \subseteq made
    /\ mutex \in Threads \cup {None} /\ stopper \in Threads \cup {None}
    /\ pc \in [Threads -> Locs]
    /\ cur \in [Threads -> made \cup {None}]

\* The types of the members; only constructed sessions are registered, read or closed.
TypeOK == FlagsOK /\ DataOK

Init ==
    /\ fault = "none"
    /\ acceptorOpen = TRUE /\ acceptOp = "pending" /\ arrived = None /\ acceptFailed = FALSE
    /\ made = {} /\ sessions = {} /\ mutex = None
    /\ armed = {} /\ readErr = {} /\ closed = {} /\ torn = {}
    /\ stopper = None /\ ioStopped = FALSE /\ dbDown = FALSE /\ todo = {}
    /\ pc = [t \in Threads |-> "idle"] /\ cur = [t \in Threads |-> None]

At(t, l) == fault = "none" /\ pc[t] = l
Ready(t) == At(t, "idle") /\ ~ioStopped
Goto(t, l) == pc' = [pc EXCEPT ![t] = l]
Take(t, c) == cur' = [cur EXCEPT ![t] = c]

(***************************************************************************)
(* The network.                                                            *)
(***************************************************************************)
Connect(c) ==
    /\ fault = "none" /\ acceptOp = "pending" /\ c \notin made
    /\ acceptOp' = "ok" /\ arrived' = c
    /\ UNCHANGED <<fault, acceptorOpen, acceptFailed, made, sessions, mutex, sessionVars, stopVars, pc, cur>>

\* accept(2) fails with the acceptor open: no descriptor left, connection aborted.
AcceptFails ==
    /\ fault = "none" /\ acceptOp = "pending"
    /\ acceptOp' = "err" /\ acceptFailed' = TRUE
    /\ UNCHANGED <<fault, acceptorOpen, arrived, made, sessions, mutex, sessionVars, stopVars, pc, cur>>

Disconnect(c) ==
    /\ fault = "none" /\ c \in armed
    /\ armed' = armed \ {c} /\ readErr' = readErr \cup {c}
    /\ UNCHANGED <<fault, acceptVars, made, sessions, mutex, closed, torn, stopVars, pc, cur>>

\* std::lock_guard on sessions_mutex_: waits while another thread owns it.
Lock(t, from, to) ==
    /\ At(t, from) /\ mutex = None
    /\ mutex' = t
    /\ Goto(t, to)
    /\ UNCHANGED <<fault, acceptVars, made, sessions, sessionVars, stopVars, cur>>

(***************************************************************************)
(* start_accept() and its completion handler.                              *)
(***************************************************************************)
\* An error ends the handler and, as nothing re-arms it, the accept loop.
RunAccept(t) ==
    /\ Ready(t) /\ acceptOp \in {"ok", "err"}
    /\ acceptOp' = "none"
    /\ \/ acceptOp = "ok" /\ made' = made \cup {arrived} /\ Take(t, arrived) /\ Goto(t, "ac_lock")
       \/ acceptOp = "err" /\ UNCHANGED <<made, cur, pc>>
    /\ UNCHANGED <<fault, acceptorOpen, arrived, acceptFailed, sessions, mutex, sessionVars, stopVars>>

AcceptInsert(t) ==
    /\ At(t, "ac_insert")
    /\ sessions' = sessions \cup {cur[t]}
    /\ mutex' = None
    /\ Goto(t, "ac_start")
    /\ UNCHANGED <<fault, acceptVars, made, sessionVars, stopVars, cur>>

\* session->start(): remote_endpoint() throws, outside every try block, when stop()
\* has closed the socket or the peer has already gone.
SessionStart(t) ==
    /\ At(t, "ac_start")
    /\ \/ fault' = "uncaught_exception" /\ pc' = pc
       \/ cur[t] \notin torn /\ fault' = fault /\ Goto(t, "ac_read")
    /\ UNCHANGED <<acceptVars, made, sessions, mutex, sessionVars, stopVars, cur>>

\* ... and its do_read(): on a closed socket the read fails at once.
SessionRead(t) ==
    /\ At(t, "ac_read")
    /\ \/ cur[t] \in torn /\ readErr' = readErr \cup {cur[t]} /\ armed' = armed
       \/ cur[t] \notin torn /\ armed' = armed \cup {cur[t]} /\ readErr' = readErr
    /\ Goto(t, "ac_next")
    /\ UNCHANGED <<fault, acceptVars, made, sessions, mutex, closed, torn, stopVars, cur>>

\* Mutant: the handler ends without a further start_accept().
AcceptNext_Once(t) ==
    /\ At(t, "ac_next")
    /\ Goto(t, "idle") /\ Take(t, None)
    /\ UNCHANGED <<fault, acceptVars, made, sessions, mutex, sessionVars, stopVars>>

\* start_accept(): the is_open() test, then async_accept().
AcceptNext(t) ==
    /\ At(t, "ac_next")
    /\ Goto(t, IF acceptorOpen THEN "ac_issue" ELSE "idle") /\ Take(t, None)
    /\ UNCHANGED <<fault, acceptVars, made, sessions, mutex, sessionVars, stopVars>>

AcceptIssue(t) ==
    /\ At(t, "ac_issue")
    /\ acceptOp' = IF acceptorOpen THEN "pending" ELSE "err"
    /\ Goto(t, "idle")
    /\ UNCHANGED <<fault, acceptorOpen, arrived, acceptFailed, made, sessions, mutex, sessionVars, stopVars, cur>>
(***************************************************************************)
(* A session's failed read, and close() as far as the server sees it.      *)
(***************************************************************************)
RunRead(t) ==
    /\ Ready(t)
    /\ \E c \in readErr : readErr' = readErr \ {c} /\ Take(t, c)
    /\ Goto(t, "cl_mark")
    /\ UNCHANGED <<fault, acceptVars, made, sessions, mutex, armed, closed, torn, stopVars>>

\* close() was called by a read handler, which ends, or by stop(), which goes on.
Return(t) == Goto(t, IF t = stopper THEN "st_each" ELSE "idle") /\ Take(t, None)

CloseMark(t) ==
    /\ At(t, "cl_mark")
    /\ \/ cur[t] \in closed /\ closed' = closed /\ Return(t)
       \/ cur[t] \notin closed /\ closed' = closed \cup {cur[t]} /\ Goto(t, "cl_sock") /\ cur' = cur
    /\ UNCHANGED <<fault, acceptVars, made, sessions, mutex, armed, readErr, torn, stopVars>>

CloseSocket(t) ==
    /\ At(t, "cl_sock")
    /\ torn' = torn \cup {cur[t]}
    /\ armed' = armed \ {cur[t]}
    /\ readErr' = readErr \cup (armed \cap {cur[t]})
    /\ Goto(t, "cl_lock")
    /\ UNCHANGED <<fault, acceptVars, made, sessions, mutex, closed, stopVars, cur>>

\* Mutant: remove_session() leaves the session in the set.
CloseErase_Keep(t) ==
    /\ At(t, "cl_erase")
    /\ mutex' = None
    /\ Return(t)
    /\ UNCHANGED <<fault, acceptVars, made, sessions, sessionVars, stopVars>>

\* remove_session(): sessions_.erase() under the mutex.
CloseErase(t) ==
    /\ At(t, "cl_erase")
    /\ sessions' = sessions \ {cur[t]}
    /\ mutex' = None
    /\ Return(t)
    /\ UNCHANGED <<fault, acceptVars, made, sessionVars, stopVars>>

(***************************************************************************)
(* stop(), called by the handler of SIGINT and SIGTERM, which is not       *)
(* re-armed: one signal is handled.                                        *)
(***************************************************************************)
RunStop(t) ==
    /\ Ready(t) /\ stopper = None
    /\ stopper' = t
    /\ Goto(t, "st_acceptor")
    /\ UNCHANGED <<fault, acceptVars, made, sessions, mutex, sessionVars, ioStopped, dbDown, todo, cur>>

StopAcceptor(t) ==
    /\ At(t, "st_acceptor")
    /\ acceptorOpen' = FALSE
    /\ acceptOp' = IF acceptOp = "pending" THEN "err" ELSE acceptOp
    /\ Goto(t, "st_lock")
    /\ UNCHANGED <<fault, arrived, acceptFailed, made, sessions, mutex, sessionVars, stopVars, cur>>

\* Mutant: the sessions are closed with the mutex still held.
StopCopy_Locked(t) ==
    /\ At(t, "st_copy")
    /\ todo' = sessions
    /\ Goto(t, "st_each")
    /\ UNCHANGED <<fault, acceptVars, made, sessions, mutex, sessionVars, stopper, ioStopped, dbDown, cur>>

StopCopy(t) ==
    /\ At(t, "st_copy")
    /\ todo' = sessions
    /\ mutex' = None
    /\ Goto(t, "st_each")
    /\ UNCHANGED <<fault, acceptVars, made, sessions, sessionVars, stopper, ioStopped, dbDown, cur>>

\* Mutant: the copied sessions are not closed.
StopEach_Skip(t) ==
    /\ At(t, "st_each")
    /\ Goto(t, "st_lock2") /\ todo' = {}
    /\ UNCHANGED <<fault, acceptVars, made, sessions, mutex, sessionVars, stopper, ioStopped, dbDown, cur>>

\* Mutant: the loop does not advance past the session it has closed.
StopEach_Retry(t) ==
    /\ At(t, "st_each")
    /\ \/ todo = {} /\ Goto(t, "st_lock2") /\ cur' = cur
       \/ \E c \in todo :
             \/ c \in closed /\ UNCHANGED <<pc, cur>>
             \/ c \notin closed /\ Take(t, c) /\ Goto(t, "cl_mark")
    /\ UNCHANGED <<fault, acceptVars, made, sessions, mutex, sessionVars, stopVars>>

\* for (auto &s : sessions_copy) if (s->isOpened()) s->close();
StopEach(t) ==
    /\ At(t, "st_each")
    /\ \/ todo = {} /\ Goto(t, "st_lock2") /\ UNCHANGED <<todo, cur>>
       \/ \E c \in todo :
             /\ todo' = todo \ {c}
             /\ \/ c \in closed /\ UNCHANGED <<pc, cur>>
                \/ c \notin closed /\ Take(t, c) /\ Goto(t, "cl_mark")
    /\ UNCHANGED <<fault, acceptVars, made, sessions, mutex, sessionVars, stopper, ioStopped, dbDown>>

StopClear(t) ==
    /\ At(t, "st_clear")
    /\ sessions' = {}
    /\ mutex' = None
    /\ Goto(t, "st_io")
    /\ UNCHANGED <<fault, acceptVars, made, sessionVars, stopVars, cur>>

StopIo(t) ==
    /\ At(t, "st_io")
    /\ ioStopped' = TRUE
    /\ Goto(t, "st_db")
    /\ UNCHANGED <<fault, acceptVars, made, sessions, mutex, sessionVars, stopper, dbDown, todo, cur>>

StopDb(t) ==
    /\ At(t, "st_db")
    /\ dbDown' = TRUE
    /\ Goto(t, "st_log")
    /\ UNCHANGED <<fault, acceptVars, made, sessions, mutex, sessionVars, stopper, ioStopped, todo, cur>>

\* log_session_count() reads sessions_ without the mutex.
StopLog(t) ==
    /\ At(t, "st_log")
    /\ Goto(t, "idle")
    /\ UNCHANGED <<fault, acceptVars, made, sessions, mutex, sessionVars, stopVars, cur>>

(***************************************************************************)
(* Two threads in the acceptor, in one socket, or in sessions_ with one of *)
(* them not holding the mutex: the outcomes that are no interleaving.      *)
(***************************************************************************)
Conflict(t, u) ==
    \/ pc[t] = "st_acceptor" /\ pc[u] \in {"ac_next", "ac_issue"}
    \/ pc[t] = "cl_sock" /\ pc[u] \in {"ac_start", "ac_read"} /\ cur[t] = cur[u]
    \/ pc[t] = "st_log" /\ pc[u] \in {"ac_insert", "cl_erase"}

DataRace ==
    /\ fault = "none" /\ \E t, u \in Threads : Conflict(t, u)
    /\ fault' = "data_race"
    /\ UNCHANGED <<acceptVars, made, sessions, mutex, sessionVars, stopVars, pc, cur>>
accept(t) == Lock(t, "ac_lock", "ac_insert") \/ AcceptInsert(t) \/ SessionStart(t) \/ SessionRead(t)
             \/ AcceptNext(t) \/ AcceptIssue(t)
close(t) == CloseMark(t) \/ CloseSocket(t) \/ Lock(t, "cl_lock", "cl_erase") \/ CloseErase(t)
stop(t) == StopAcceptor(t) \/ Lock(t, "st_lock", "st_copy") \/ StopCopy(t) \/ StopEach(t)
           \/ Lock(t, "st_lock2", "st_clear") \/ StopClear(t) \/ StopIo(t) \/ StopDb(t) \/ StopLog(t)

\* A thread inside a handler goes on with it.
Step(t) == accept(t) \/ close(t) \/ stop(t)
Run(t) == RunAccept(t) \/ RunRead(t) \/ RunStop(t)

\* run() has returned in every thread, or the process has ended.
Finished ==
    /\ fault # "none" \/ (ioStopped /\ \A t \in Threads : pc[t] = "idle")
    /\ UNCHANGED vars

Next ==
    \/ \E c \in Clients : Connect(c) \/ Disconnect(c)
    \/ AcceptFails \/ DataRace \/ Finished
    \/ \E t \in Threads : Run(t) \/ Step(t)

Spec == Init /\ [][Next]_vars

\* A thread goes on with its handler.  The mutex is taken finitely often (there are
\* finitely many clients), so weak fairness gets a waiting thread through.
FairSpec == Spec /\ \A t \in Threads : WF_vars(Step(t))

-----------------------------------------------------------------------------
\* sessions_ is exact.  A session that close() has marked stays registered only while
\* the closing thread is on its way to remove_session(), and a session that is not
\* closed is registered from the moment the accept handler has inserted it until stop()
\* clears the set.
RegistryExact ==
    /\ \A c \in sessions \cap closed :
          \E t \in Threads : cur[t] = c /\ pc[t] \in {"cl_sock", "cl_lock", "cl_erase"}
    /\ \A c \in made \ (sessions \cup closed) :
          \/ \E t \in Threads : cur[t] = c /\ pc[t] \in {"ac_lock", "ac_insert"}
          \/ ioStopped \/ \E t \in Threads : pc[t] = "st_io"

Accepting == {t \in Threads : pc[t] \in AcceptLocs}

\* start_accept() is re-armed once per connection: never two accepts at once, and while
\* the acceptor is open and no accept has failed the server keeps accepting.
SingleAcceptChain ==
    /\ \A t, u \in Accepting : t = u
    /\ acceptOp # "none" => Accepting = {}
    /\ acceptorOpen /\ ~acceptFailed /\ acceptOp = "none" => Accepting # {}

\* Server.cpp: a copy of sessions_ is closed "to avoid the dead lock".  No thread ever
\* waits for sessions_mutex_ while it owns it, in particular not stop() inside close().
NoSelfDeadlock ==
    mutex # None => pc[mutex] \in {"ac_insert", "cl_erase", "st_copy", "st_clear"}

\* The signal handler gets through stop(), whatever the other threads do.
StopCompletes == stopper # None ~> dbDown \/ fault # "none"

\* README: "Cleanly stops all sessions and the DB pool on shutdown."  When every thread
\* has left run(), the pool is shut down and every session has been closed, but for at
\* most one: the session whose accept handler another thread was running while stop()
\* copied the registry.
StopClosesAllButOne ==
    (fault = "none" /\ ioStopped /\ \A t \in Threads : pc[t] = "idle")
        => dbDown /\ \A c, d \in sessions \cup (made \ torn) : c = d
=============================================================================
