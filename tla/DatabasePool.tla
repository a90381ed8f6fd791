---------------------------- MODULE DatabasePool ----------------------------
(***************************************************************************)
(* The connection pool (Database.hpp) under the threads that call          *)
(* execute_sync(): the queue connections_ under mutex_, the timed wait on  *)
(* cond_, reconnection, release with notify_one(), and shutdown() as       *)
(* Server::stop() calls it.  A connection is what is_open() says of it: a  *)
(* connection the database has dropped looks open until a query breaks.    *)
(***************************************************************************)
EXTENDS Naturals, Sequences, FiniteSets

CONSTANTS
    Threads,    \* network threads
    PoolSize,   \* pool_size
    MaxCalls,   \* bound: queries per thread
    None        \* no thread

ASSUME PoolAssumption ==
    /\ IsFiniteSet(Threads) /\ None \notin Threads
    /\ PoolSize \in Nat /\ MaxCalls \in Nat

VARIABLES
    pool,       \* connections_
    held,       \* the connection of each thread's ScopedConnection
    mutex,      \* owner of mutex_
    waiting,    \* threads blocked in cond_.wait_for()
    expired,    \* threads whose wait_for() has reached its timeout
    lost,       \* connections destroyed because their replacement failed
    stopping,   \* Server::stop() has stopped the io_context: no further handler
    pc, calls   \* where each thread is, and how many queries it has made

vars == <<pool, held, mutex, waiting, expired, lost, stopping, pc, calls>>

ConnStates == {"open", "dead"}
Locs == {"idle", "acquire", "wait", "reconnect", "query", "broken", "release", "notify", "shutdown"}

\* The types of the members; only a thread that uses the pool holds a connection.
TypeOK ==
    /\ pool \in Seq(ConnStates) /\ held \in [Threads -> ConnStates \cup {"none"}]
    /\ mutex \in Threads \cup {None} /\ waiting \subseteq Threads /\ expired \subseteq Threads
    /\ lost \in Nat /\ stopping \in BOOLEAN
    /\ pc \in [Threads -> Locs] /\ calls \in [Threads -> 0..MaxCalls]
    /\ \A t \in Threads : held[t] # "none" <=> pc[t] \in {"reconnect", "query", "broken", "release"}

Init ==
    /\ pool = [i \in 1..PoolSize |-> "open"] /\ held = [t \in Threads |-> "none"]
    /\ mutex = None /\ waiting = {} /\ expired = {} /\ lost = 0 /\ stopping = FALSE
    /\ pc = [t \in Threads |-> "idle"] /\ calls = [t \in Threads |-> 0]

Goto(t, l) == pc' = [pc EXCEPT ![t] = l]
Hold(t, c) == held' = [held EXCEPT ![t] = c]

(***************************************************************************)
(* acquire_connection().  "acquire" is a thread about to lock mutex_, at   *)
(* the start or on its return from the condition variable.                 *)
(***************************************************************************)
Call(t) ==
    /\ pc[t] = "idle" /\ ~stopping /\ calls[t] < MaxCalls
    /\ calls' = [calls EXCEPT ![t] = @ + 1]
    /\ Goto(t, "acquire")
    /\ UNCHANGED <<pool, held, mutex, waiting, expired, lost, stopping>>

\* The predicate is tested under the mutex; wait_for() gives the mutex up and blocks
\* in one step.
Wait(t) ==
    /\ pc[t] = "acquire" /\ mutex = None
    /\ pool = <<>> /\ t \notin expired
    /\ waiting' = waiting \cup {t}
    /\ Goto(t, "wait")
    /\ UNCHANGED <<pool, held, mutex, expired, lost, stopping, calls>>

\* Mutant: after a timeout the thread waits anew.
TimedOut_Retry(t) ==
    /\ pc[t] = "acquire" /\ mutex = None
    /\ pool = <<>> /\ t \in expired
    /\ expired' = expired \ {t}
    /\ UNCHANGED <<pool, held, mutex, waiting, lost, stopping, pc, calls>>

\* wait_for() is over its timeout, and the pool is still empty: "No DB connection
\* available after timeout" is thrown to the handler.
TimedOut(t) ==
    /\ pc[t] = "acquire" /\ mutex = None
    /\ pool = <<>> /\ t \in expired
    /\ expired' = expired \ {t}
    /\ Goto(t, "idle")
    /\ UNCHANGED <<pool, held, mutex, waiting, lost, stopping, calls>>

\* Mutant: front() without pop().
Pop_Keep(t) ==
    /\ pc[t] = "acquire" /\ mutex = None /\ pool # <<>>
    /\ pool' = pool
    /\ Hold(t, Head(pool))
    /\ expired' = expired \ {t}
    /\ IF Head(pool) = "open"
       THEN Goto(t, "query") /\ mutex' = mutex
       ELSE Goto(t, "reconnect") /\ mutex' = t
    /\ UNCHANGED <<waiting, lost, stopping, calls>>

\* A closed connection is replaced before the mutex is released.
Pop(t) ==
    /\ pc[t] = "acquire" /\ mutex = None /\ pool # <<>>
    /\ pool' = Tail(pool)
    /\ Hold(t, Head(pool))
    /\ expired' = expired \ {t}
    /\ IF Head(pool) = "open"
       THEN Goto(t, "query") /\ mutex' = mutex
       ELSE Goto(t, "reconnect") /\ mutex' = t
    /\ UNCHANGED <<waiting, lost, stopping, calls>>

\* reconnect_connection() under the mutex.  When it throws, unwinding unlocks and
\* destroys the closed connection: its place in the pool is gone.
Reconnect(t) ==
    /\ pc[t] = "reconnect"
    /\ mutex' = None
    /\ \/ Hold(t, "open") /\ Goto(t, "query") /\ lost' = lost
       \/ Hold(t, "none") /\ Goto(t, "idle") /\ lost' = lost + 1
    /\ UNCHANGED <<pool, waiting, expired, stopping, calls>>

\* The condition variable: the timeout, or a wakeup without a notification.
Timeout(t) ==
    /\ t \in waiting
    /\ waiting' = waiting \ {t} /\ expired' = expired \cup {t}
    /\ Goto(t, "acquire")
    /\ UNCHANGED <<pool, held, mutex, lost, stopping, calls>>

SpuriousWakeup(t) ==
    /\ t \in waiting
    /\ waiting' = waiting \ {t}
    /\ Goto(t, "acquire")
    /\ UNCHANGED <<pool, held, mutex, expired, lost, stopping, calls>>

(***************************************************************************)
(* execute_sync() and release_connection().                                *)
(***************************************************************************)
\* The query succeeds or throws an SQL error, or the connection breaks.
Query(t) ==
    /\ pc[t] = "query"
    /\ \/ Goto(t, "release") /\ held' = held
       \/ Goto(t, "broken") /\ Hold(t, "dead")
    /\ UNCHANGED <<pool, mutex, waiting, expired, lost, stopping, calls>>

\* The catch block opens a connection and drops it (or fails to open one); either
\* way it throws, and ~ScopedConnection() returns the broken one.
Broken(t) ==
    /\ pc[t] = "broken"
    /\ Goto(t, "release")
    /\ UNCHANGED <<pool, held, mutex, waiting, expired, lost, stopping, calls>>

\* Mutant: the connection goes back without notify_one().
Release_NoNotify(t) ==
    /\ pc[t] = "release" /\ mutex = None
    /\ pool' = Append(pool, held[t]) /\ Hold(t, "none")
    /\ Goto(t, "idle")
    /\ UNCHANGED <<mutex, waiting, expired, lost, stopping, calls>>

\* The push under the mutex ...
Release(t) ==
    /\ pc[t] = "release" /\ mutex = None
    /\ pool' = Append(pool, held[t]) /\ Hold(t, "none")
    /\ Goto(t, "notify")
    /\ UNCHANGED <<mutex, waiting, expired, lost, stopping, calls>>

\* ... and, outside it, cond_.notify_one().
Notify(t) ==
    /\ pc[t] = "notify"
    /\ \/ waiting = {} /\ waiting' = waiting /\ Goto(t, "idle")
       \/ \E u \in waiting :
             /\ waiting' = waiting \ {u}
             /\ pc' = [pc EXCEPT ![t] = "idle", ![u] = "acquire"]
    /\ UNCHANGED <<pool, held, mutex, expired, lost, stopping, calls>>

(***************************************************************************)
(* Server::stop() on an idle thread: the io_context is stopped, then       *)
(* shutdown() closes what is in the pool.                                  *)
(***************************************************************************)
Stop(t) ==
    /\ pc[t] = "idle" /\ ~stopping
    /\ stopping' = TRUE
    /\ Goto(t, "shutdown")
    /\ UNCHANGED <<pool, held, mutex, waiting, expired, lost, calls>>

shutdown(t) ==
    /\ pc[t] = "shutdown" /\ mutex = None
    /\ pool' = <<>>
    /\ Goto(t, "idle")
    /\ UNCHANGED <<held, mutex, waiting, expired, lost, stopping, calls>>

acquire_connection(t) == Wait(t) \/ TimedOut(t) \/ Pop(t) \/ Reconnect(t)
execute_sync(t) == acquire_connection(t) \/ Query(t) \/ Broken(t) \/ Release(t) \/ Notify(t)

Next ==
    \/ \E t \in Threads : Call(t) \/ execute_sync(t) \/ Timeout(t) \/ SpuriousWakeup(t) \/ Stop(t) \/ shutdown(t)
    \/ (\A t \in Threads : pc[t] = "idle") /\ UNCHANGED vars

Spec == Init /\ [][Next]_vars

\* A thread goes on unless it is blocked, queries and connection attempts end (libpq's
\* timeouts).  The mutex is taken finitely often, as calls are bounded.  The deadline of
\* wait_for() does not move when the thread wakes in between: strong fairness.
FairSpec == Spec /\ \A t \in Threads : WF_vars(execute_sync(t)) /\ SF_vars(Timeout(t)) /\ WF_vars(shutdown(t))

-----------------------------------------------------------------------------
Holding == {t \in Threads : held[t] # "none"}

\* Until shutdown() every connection is in the queue, in one ScopedConnection, or was
\* destroyed by a failed reconnection: none is duplicated and none leaks otherwise,
\* whichever exceptions execute_sync() takes.
PoolAccounted ==
    /\ ~stopping => Len(pool) + Cardinality(Holding) + lost = PoolSize
    /\ Len(pool) + Cardinality(Holding) + lost <= PoolSize

\* No wakeup is lost: while a thread sleeps in wait_for(), each connection in the pool
\* has a notification on its way or a thread that is awake to take it.
NoLostWakeup ==
    waiting # {} => Len(pool) <= Cardinality({t \in Threads : pc[t] \in {"acquire", "notify"}})

\* A call of execute_sync() always returns, with a row or an exception: nobody waits for
\* good, on the mutex, on the condition variable or on a pool that shutdown() emptied.
CallsReturn == \A t \in Threads : pc[t] # "idle" ~> pc[t] = "idle"
=============================================================================
