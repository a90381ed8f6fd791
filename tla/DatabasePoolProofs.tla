------------------------- MODULE DatabasePoolProofs -------------------------
(***************************************************************************)
(* Proofs about module DatabasePool, for any finite set of threads and any  *)
(* size of the pool.  The properties count connections and threads, so the  *)
(* steps are told apart by what they do to the queue, to the set of threads *)
(* that hold a connection and to the set of threads that are awake.         *)
(***************************************************************************)
EXTENDS DatabasePool, FiniteSetTheorems, TLAPS

Awake == {t \in Threads : pc[t] \in {"acquire", "notify"}}

----------------------------------------------------------------------------
(* Types.  A thread is in waiting exactly while it is in wait_for().        *)

FlagOK == stopping \in BOOLEAN

DataOK ==
    /\ pool \in Seq(ConnStates) /\ held \in [Threads -> ConnStates \cup {"none"}]
    /\ mutex \in Threads \cup {None} /\ waiting \subseteq Threads /\ expired \subseteq Threads
    /\ lost \in Nat
    /\ pc \in [Threads -> Locs] /\ calls \in [Threads -> 0..MaxCalls]
    /\ \A t \in Threads : held[t] # "none" <=> pc[t] \in {"reconnect", "query", "broken", "release"}
    /\ \A t \in Threads : t \in waiting <=> pc[t] = "wait"

\* The initial state has its types.
LEMMA InitData == Init => FlagOK /\ DataOK
<1> SUFFICES ASSUME Init PROVE FlagOK /\ DataOK
    OBVIOUS
<1>1. FlagOK
      BY Zenon DEF Init, FlagOK
<1>2. pool \in Seq(ConnStates)
      BY PoolAssumption DEF Init, ConnStates
<1> QED BY <1>1, <1>2, PoolAssumption DEF Init, DataOK, Locs, ConnStates

\* stopping stays a Boolean.
LEMMA NextFlag == FlagOK /\ [Next]_vars => FlagOK'
BY Zenon DEF FlagOK, Next, vars, Call, execute_sync, acquire_connection, Wait, TimedOut, Pop, Reconnect,
   Timeout, SpuriousWakeup, Query, Broken, Release, Notify, Stop, shutdown

\* Every step of a thread keeps the types.
LEMMA NextData == DataOK /\ [Next]_vars => DataOK'
<1> SUFFICES ASSUME DataOK, [Next]_vars PROVE DataOK'
    OBVIOUS
<1> USE PoolAssumption
<1>1. ASSUME NEW t \in Threads, Call(t) PROVE DataOK'
      BY <1>1 DEF DataOK, Call, Goto, Locs
<1>2. ASSUME NEW t \in Threads, Wait(t) PROVE DataOK'
      BY <1>2 DEF DataOK, Wait, Goto, Locs
<1>3. ASSUME NEW t \in Threads, TimedOut(t) PROVE DataOK'
      BY <1>3 DEF DataOK, TimedOut, Goto, Locs
<1>4. ASSUME NEW t \in Threads, Pop(t) PROVE DataOK'
  <2>1. Head(pool) \in ConnStates /\ Tail(pool) \in Seq(ConnStates)
        BY <1>4 DEF DataOK, Pop
  <2>2. PICK l \in {"query", "reconnect"} : pc' = [pc EXCEPT ![t] = l]
        BY <1>4 DEF Pop, Goto
  <2>3. held' = [held EXCEPT ![t] = Head(pool)] /\ Head(pool) # "none"
        BY <1>4, <2>1 DEF Pop, Hold, ConnStates
  <2>4. mutex' \in Threads \cup {None} /\ pool' \in Seq(ConnStates)
        BY <1>4, <2>1 DEF DataOK, Pop
  <2>5. expired' \subseteq Threads /\ UNCHANGED <<waiting, lost, calls>> /\ pc[t] = "acquire"
        BY <1>4 DEF DataOK, Pop
  <2> QED BY <2>1, <2>2, <2>3, <2>4, <2>5 DEF DataOK, Locs
<1>5. ASSUME NEW t \in Threads, Reconnect(t) PROVE DataOK'
  <2>1. CASE Hold(t, "open") /\ Goto(t, "query") /\ lost' = lost
        BY <1>5, <2>1 DEF DataOK, Reconnect, Goto, Hold, Locs, ConnStates
  <2>2. CASE Hold(t, "none") /\ Goto(t, "idle") /\ lost' = lost + 1
        BY <1>5, <2>2 DEF DataOK, Reconnect, Goto, Hold, Locs
  <2> QED BY <1>5, <2>1, <2>2 DEF Reconnect
<1>6. ASSUME NEW t \in Threads, Timeout(t) \/ SpuriousWakeup(t) PROVE DataOK'
      BY <1>6, ZenonT(30) DEF DataOK, Timeout, SpuriousWakeup, Goto, Locs
<1>7. ASSUME NEW t \in Threads, Query(t) \/ Broken(t) PROVE DataOK'
      BY <1>7, ZenonT(30) DEF DataOK, Query, Broken, Goto, Hold, Locs, ConnStates
<1>8. ASSUME NEW t \in Threads, Release(t) PROVE DataOK'
      BY <1>8 DEF DataOK, Release, Goto, Hold, Locs, ConnStates
<1>9. ASSUME NEW t \in Threads, Notify(t) PROVE DataOK'
  <2>1. CASE waiting = {} /\ waiting' = waiting /\ Goto(t, "idle")
        BY <1>9, <2>1 DEF DataOK, Notify, Goto, Locs
  <2>2. ASSUME NEW u \in waiting, waiting' = waiting \ {u},
               pc' = [pc EXCEPT ![t] = "idle", ![u] = "acquire"]
        PROVE  DataOK'
    <3>1. u \in Threads /\ pc[u] = "wait" /\ pc[t] = "notify" /\ u # t
          BY <1>9 DEF DataOK, Notify
    <3>2. pc' \in [Threads -> Locs]
          BY <2>2, <3>1 DEF DataOK, Locs
    <3>3. \A v \in Threads : pc'[v] = IF v = u THEN "acquire" ELSE IF v = t THEN "idle" ELSE pc[v]
          BY <2>2, <3>1 DEF DataOK
    <3>4. UNCHANGED <<pool, held, mutex, expired, lost, calls>>
          BY <1>9 DEF Notify
    <3> QED BY <2>2, <3>1, <3>2, <3>3, <3>4, Zenon DEF DataOK
  <2> QED BY <1>9, <2>1, <2>2 DEF Notify
<1>10. ASSUME NEW t \in Threads, Stop(t) PROVE DataOK'
      BY <1>10 DEF DataOK, Stop, Goto, Locs
<1>11. ASSUME NEW t \in Threads, shutdown(t) PROVE DataOK'
  <2>1. pool' \in Seq(ConnStates)
        BY <1>11 DEF shutdown
  <2> QED BY <1>11, <2>1 DEF DataOK, shutdown, Goto, Locs
<1>12. CASE UNCHANGED vars
      BY <1>12 DEF DataOK, vars
<1> QED BY <1>1, <1>2, <1>3, <1>4, <1>5, <1>6, <1>7, <1>8, <1>9, <1>10, <1>11, <1>12
        DEF Next, execute_sync, acquire_connection

----------------------------------------------------------------------------
(* Counting.                                                                *)

\* The counted sets are finite.
LEMMA FiniteCounts ==
    /\ IsFiniteSet(Holding) /\ Cardinality(Holding) \in Nat
    /\ IsFiniteSet(Awake) /\ Cardinality(Awake) \in Nat
<1>1. IsFiniteSet(Holding) /\ IsFiniteSet(Awake)
      BY PoolAssumption, FS_Subset DEF Holding, Awake
<1> QED BY <1>1, FS_CardinalityType

\* A thread takes a connection, or gives one up.
LEMMA HoldingGrows ==
    ASSUME DataOK, NEW t \in Threads, NEW c \in ConnStates, held[t] = "none", Hold(t, c)
    PROVE  Cardinality(Holding)' = Cardinality(Holding) + 1
<1>1. Holding' = Holding \cup {t} /\ t \notin Holding
      BY DEF DataOK, Holding, Hold, ConnStates
<1> QED BY <1>1, FiniteCounts, FS_AddElement, Zenon

\* One thread fewer holds a connection after a thread has let go of its own.
LEMMA HoldingShrinks ==
    ASSUME DataOK, NEW t \in Threads, held[t] # "none", Hold(t, "none")
    PROVE  Cardinality(Holding)' = Cardinality(Holding) - 1
<1>1. Holding' = Holding \ {t} /\ t \in Holding
      BY DEF DataOK, Holding, Hold
<1> QED BY <1>1, FiniteCounts, FS_RemoveElement, Zenon

\* A thread that is still holding one.
LEMMA HoldingStays ==
    ASSUME DataOK, NEW t \in Threads, NEW c \in ConnStates, held[t] # "none", Hold(t, c)
    PROVE  UNCHANGED Holding
BY DEF DataOK, Holding, Hold, ConnStates

\* A thread wakes, or ceases to be awake.
LEMMA AwakeGrows ==
    ASSUME DataOK, NEW t \in Threads, NEW l \in {"acquire", "notify"},
           pc[t] \notin {"acquire", "notify"}, Goto(t, l)
    PROVE  Cardinality(Awake)' = Cardinality(Awake) + 1
<1>1. Awake' = Awake \cup {t} /\ t \notin Awake
      BY DEF DataOK, Awake, Goto
<1> QED BY <1>1, FiniteCounts, FS_AddElement, Zenon

\* One thread fewer is about to take or to announce a connection after it went on.
LEMMA AwakeShrinks ==
    ASSUME DataOK, NEW t \in Threads, NEW l, l \notin {"acquire", "notify"},
           pc[t] \in {"acquire", "notify"}, Goto(t, l)
    PROVE  Cardinality(Awake)' = Cardinality(Awake) - 1
<1>1. Awake' = Awake \ {t} /\ t \in Awake
      BY DEF DataOK, Awake, Goto
<1> QED BY <1>1, FiniteCounts, FS_RemoveElement, Zenon

\* A thread that was not about to take or to announce one does not count before or after.
LEMMA AwakeStays ==
    ASSUME DataOK, NEW t \in Threads, NEW l, l \notin {"acquire", "notify"},
           pc[t] \notin {"acquire", "notify"}, Goto(t, l)
    PROVE  UNCHANGED Awake
BY DEF DataOK, Awake, Goto

----------------------------------------------------------------------------
(* No connection is duplicated and none leaks.                              *)

Sum == Len(pool) + Cardinality(Holding) + lost

\* Every step keeps the sum, but for shutdown(), which empties the queue.
LEMMA StepSum ==
    ASSUME DataOK, [Next]_vars
    PROVE  /\ Sum \in Nat
           /\ \/ Sum' = Sum
              \/ Sum' <= Sum /\ \E t \in Threads : pc[t] = "shutdown"
<1>0. Len(pool) \in Nat /\ lost \in Nat /\ Cardinality(Holding) \in Nat
      BY FiniteCounts DEF DataOK
<1>1. ASSUME UNCHANGED <<pool, held, lost>> PROVE Sum' = Sum
      BY <1>1 DEF Sum, Holding
<1>2. ASSUME NEW t \in Threads, Pop(t) PROVE Sum' = Sum
  <2>0. /\ pool \in Seq(ConnStates) /\ pool # <<>> /\ pool' = Tail(pool)
        /\ held[t] = "none" /\ Hold(t, Head(pool)) /\ UNCHANGED lost
        BY <1>2, SMTT(20) DEF DataOK, Pop
  <2>1. Head(pool) \in ConnStates /\ Len(pool') = Len(pool) - 1
        BY <2>0
  <2>2. Cardinality(Holding)' = Cardinality(Holding) + 1
        BY <2>0, <2>1, HoldingGrows
  <2> QED BY <1>0, <2>0, <2>1, <2>2 DEF Sum
<1>3. ASSUME NEW t \in Threads, Reconnect(t) PROVE Sum' = Sum
  <2>1. held[t] # "none" /\ UNCHANGED pool
        BY <1>3 DEF DataOK, Reconnect
  <2>2. CASE Hold(t, "open") /\ lost' = lost
    <3>1. UNCHANGED Holding
          BY <2>1, <2>2, HoldingStays DEF ConnStates
    <3> QED BY <2>1, <2>2, <3>1 DEF Sum
  <2>3. CASE Hold(t, "none") /\ lost' = lost + 1
    <3>1. Cardinality(Holding)' = Cardinality(Holding) - 1
          BY <2>1, <2>3, HoldingShrinks
    <3> QED BY <1>0, <2>1, <2>3, <3>1 DEF Sum
  <2> QED BY <1>3, <2>2, <2>3 DEF Reconnect
<1>4. ASSUME NEW t \in Threads, Query(t) PROVE Sum' = Sum
  <2>1. held[t] # "none" /\ UNCHANGED <<pool, lost>>
        BY <1>4 DEF DataOK, Query
  <2>2. CASE held' = held
        BY <1>1, <2>1, <2>2
  <2>3. CASE Hold(t, "dead")
    <3>1. UNCHANGED Holding
          BY <2>1, <2>3, HoldingStays DEF ConnStates
    <3> QED BY <2>1, <3>1 DEF Sum
  <2> QED BY <1>4, <2>2, <2>3 DEF Query
<1>5. ASSUME NEW t \in Threads, Release(t) PROVE Sum' = Sum
  <2>1. /\ held[t] # "none" /\ Hold(t, "none") /\ UNCHANGED lost
        /\ Len(pool') = Len(pool) + 1
        BY <1>5 DEF DataOK, Release
  <2>2. Cardinality(Holding)' = Cardinality(Holding) - 1
        BY <2>1, HoldingShrinks
  <2> QED BY <1>0, <2>1, <2>2 DEF Sum
<1>6. ASSUME NEW t \in Threads, shutdown(t) PROVE Sum' <= Sum /\ pc[t] = "shutdown"
  <2>1. Len(pool') = 0 /\ UNCHANGED <<held, lost>> /\ pc[t] = "shutdown"
        BY <1>6 DEF shutdown
  <2>2. UNCHANGED Holding
        BY <2>1 DEF Holding
  <2> QED BY <1>0, <2>1, <2>2 DEF Sum
<1>7. ASSUME NEW t \in Threads,
             Call(t) \/ Wait(t) \/ TimedOut(t) \/ Timeout(t) \/ SpuriousWakeup(t) \/ Broken(t)
             \/ Notify(t) \/ Stop(t)
      PROVE  Sum' = Sum
  <2>1. UNCHANGED <<pool, held, lost>>
        BY <1>7 DEF Call, Wait, TimedOut, Timeout, SpuriousWakeup, Broken, Notify, Stop
  <2> QED BY <1>1, <2>1
<1>8. ASSUME UNCHANGED vars PROVE Sum' = Sum
      BY <1>1, <1>8 DEF vars
<1>9. Sum \in Nat
      BY <1>0 DEF Sum
<1> HIDE DEF Sum
<1> QED BY <1>2, <1>3, <1>4, <1>5, <1>6, <1>7, <1>8, <1>9 DEF Next, execute_sync, acquire_connection

\* shutdown() runs after the io_context was stopped.
StopsFirst == \A t \in Threads : pc[t] = "shutdown" => stopping

\* Every step keeps the io_context stopped before the pool is shut down.
LEMMA NextStops == DataOK /\ StopsFirst /\ [Next]_vars => StopsFirst'
<1> SUFFICES ASSUME DataOK, StopsFirst, [Next]_vars, NEW u \in Threads, pc'[u] = "shutdown" PROVE stopping'
    BY DEF StopsFirst
<1>1. CASE stopping' = stopping
  <2>1. pc[u] = "shutdown"
        BY <1>1 DEF DataOK, Next, vars, execute_sync, acquire_connection, Call, Wait, TimedOut, Pop, Reconnect,
           Timeout, SpuriousWakeup, Query, Broken, Release, Notify, Stop, shutdown, Goto
  <2> QED BY <1>1, <2>1, Zenon DEF StopsFirst
<1>2. CASE stopping'
      BY <1>2
<1>3. stopping' = stopping \/ stopping'
      BY Zenon DEF Next, vars, execute_sync, acquire_connection, Call, Wait, TimedOut, Pop, Reconnect,
         Timeout, SpuriousWakeup, Query, Broken, Release, Notify, Stop, shutdown
<1> QED BY <1>1, <1>2, <1>3

Accounted == (stopping \/ Sum = PoolSize) /\ Sum <= PoolSize

\* The constructor fills the pool.
LEMMA InitAccounted == Init => StopsFirst /\ Accounted
<1> SUFFICES ASSUME Init PROVE StopsFirst /\ Accounted
    OBVIOUS
<1>1. Holding = {} /\ Len(pool) = PoolSize /\ lost = 0 /\ PoolSize \in Nat
      BY PoolAssumption DEF Init, Holding
<1>2. Cardinality(Holding) = 0
      BY <1>1, FS_EmptySet
<1>3. Sum = PoolSize /\ Sum <= PoolSize
      BY <1>1, <1>2 DEF Sum
<1>4. \A t \in Threads : pc[t] # "shutdown"
      BY DEF Init
<1> QED BY <1>3, <1>4, Zenon DEF StopsFirst, Accounted

\* Every step keeps the connections accounted for.
LEMMA NextAccounted == DataOK /\ StopsFirst /\ Accounted /\ [Next]_vars => Accounted'
<1> SUFFICES ASSUME DataOK, StopsFirst, Accounted, [Next]_vars PROVE Accounted'
    OBVIOUS
<1>1. stopping => stopping'
      BY Zenon DEF Next, vars, execute_sync, acquire_connection, Call, Wait, TimedOut, Pop, Reconnect,
         Timeout, SpuriousWakeup, Query, Broken, Release, Notify, Stop, shutdown
<1>2. Sum \in Nat /\ (Sum' = Sum \/ (Sum' <= Sum /\ \E t \in Threads : pc[t] = "shutdown"))
      BY StepSum
<1>3. CASE Sum' = Sum
  <2>1. stopping' \/ Sum' = PoolSize
        BY <1>1, <1>3, Zenon DEF Accounted
  <2>2. Sum' <= PoolSize
        BY <1>3 DEF Accounted
  <2> QED BY <2>1, <2>2 DEF Accounted
<1>4. CASE Sum' <= Sum /\ \E t \in Threads : pc[t] = "shutdown"
  <2>1. stopping
        BY <1>4, Zenon DEF StopsFirst
  <2>2. Len(pool') \in Nat /\ Cardinality(Holding)' \in Nat /\ lost' \in Nat
    <3>1. DataOK'
          BY NextData
    <3>2. Len(pool') \in Nat /\ lost' \in Nat
          BY <3>1 DEF DataOK
    <3>3. (Cardinality(Holding) \in Nat)'
          BY FiniteCounts, PTL
    <3> QED BY <3>2, <3>3
  <2>3. Sum' <= PoolSize
        BY <1>2, <1>4, <2>2, PoolAssumption DEF Accounted, Sum
  <2> QED BY <1>1, <2>1, <2>3 DEF Accounted
<1> QED BY <1>2, <1>3, <1>4

----------------------------------------------------------------------------
(* No wakeup is lost.                                                       *)

Woken == waiting # {} => Len(pool) <= Cardinality(Awake)

\* A step that leaves the queue and the threads awake alone, and lets no thread
\* sleep.
LEMMA WokenFrame ==
    ASSUME Woken, UNCHANGED <<pool, Awake>>, waiting' \subseteq waiting
    PROVE  Woken'
BY DEF Woken

\* Every step keeps a thread awake for each connection in the queue, while any waits.
LEMMA NextWoken == DataOK /\ Woken /\ [Next]_vars => Woken'
<1> SUFFICES ASSUME DataOK, Woken, [Next]_vars PROVE Woken'
    OBVIOUS
<1>0. Len(pool) \in Nat /\ Cardinality(Awake) \in Nat
      BY FiniteCounts DEF DataOK
<1>1. ASSUME NEW t \in Threads, Call(t) PROVE Woken'
  <2>1. Cardinality(Awake)' = Cardinality(Awake) + 1
        BY <1>1, AwakeGrows DEF Call
  <2> QED BY <1>0, <1>1, <2>1 DEF Call, Woken
<1>2. ASSUME NEW t \in Threads, Wait(t) PROVE Woken'
  <2>1. (Cardinality(Awake) \in Nat)'
        BY FiniteCounts, PTL
  <2>2. Len(pool') = 0
        BY <1>2 DEF Wait
  <2> QED BY <2>1, <2>2 DEF Woken
<1>3. ASSUME NEW t \in Threads, TimedOut(t) PROVE Woken'
  <2>1. (Cardinality(Awake) \in Nat)'
        BY FiniteCounts, PTL
  <2>2. Len(pool') = 0
        BY <1>3 DEF TimedOut
  <2> QED BY <2>1, <2>2 DEF Woken
<1>4. ASSUME NEW t \in Threads, Pop(t) PROVE Woken'
  <2>1. /\ pool \in Seq(ConnStates) /\ pool # <<>> /\ pool' = Tail(pool)
        /\ UNCHANGED waiting /\ pc[t] = "acquire" /\ (Goto(t, "query") \/ Goto(t, "reconnect"))
        BY <1>4 DEF DataOK, Pop
  <2>2. Len(pool') = Len(pool) - 1
        BY <2>1
  <2>3. Cardinality(Awake)' = Cardinality(Awake) - 1
        BY <2>1, AwakeShrinks
  <2> QED BY <1>0, <2>1, <2>2, <2>3 DEF Woken
<1>5. ASSUME NEW t \in Threads, Reconnect(t) \/ Query(t) \/ Broken(t) PROVE Woken'
  <2>1. /\ pc[t] \notin {"acquire", "notify"} /\ UNCHANGED <<pool, waiting>>
        /\ \E l \in {"query", "idle", "release", "broken"} : Goto(t, l)
        BY <1>5 DEF Reconnect, Query, Broken
  <2>2. UNCHANGED Awake
        BY <2>1, AwakeStays
  <2> QED BY <2>1, <2>2, WokenFrame
<1>6. ASSUME NEW t \in Threads, Timeout(t) \/ SpuriousWakeup(t) PROVE Woken'
  <2>1. pc[t] = "wait" /\ Goto(t, "acquire") /\ waiting' \subseteq waiting /\ UNCHANGED pool
        BY <1>6 DEF DataOK, Timeout, SpuriousWakeup
  <2>2. Cardinality(Awake)' = Cardinality(Awake) + 1
        BY <2>1, AwakeGrows
  <2> QED BY <1>0, <2>1, <2>2 DEF Woken
<1>7. ASSUME NEW t \in Threads, Release(t) PROVE Woken'
  <2>1. pc[t] = "release" /\ Goto(t, "notify") /\ UNCHANGED waiting /\ Len(pool') = Len(pool) + 1
        BY <1>7 DEF DataOK, Release
  <2>2. Cardinality(Awake)' = Cardinality(Awake) + 1
        BY <2>1, AwakeGrows
  <2> QED BY <1>0, <2>1, <2>2 DEF Woken
<1>8. ASSUME NEW t \in Threads, Notify(t) PROVE Woken'
  <2>1. CASE waiting = {} /\ waiting' = waiting
        BY <2>1 DEF Woken
  <2>2. ASSUME NEW u \in waiting, pc' = [pc EXCEPT ![t] = "idle", ![u] = "acquire"]
        PROVE  Woken'
    <3>1. u \in Threads /\ pc[u] = "wait" /\ pc[t] = "notify" /\ u # t
          BY <1>8 DEF DataOK, Notify
    <3>2. \A v \in Threads : pc'[v] = IF v = u THEN "acquire" ELSE IF v = t THEN "idle" ELSE pc[v]
          BY <2>2, <3>1 DEF DataOK
    <3>3. Awake' = (Awake \ {t}) \cup {u} /\ t \in Awake /\ u \notin Awake
          BY <3>1, <3>2 DEF Awake
    <3>4. IsFiniteSet(Awake \ {t}) /\ Cardinality(Awake \ {t}) = Cardinality(Awake) - 1
          BY <3>3, FiniteCounts, FS_RemoveElement
    <3>5. Cardinality(Awake') = Cardinality(Awake \ {t}) + 1
          BY <3>3, <3>4, FS_AddElement, Zenon
    <3>6. UNCHANGED pool /\ waiting # {}
          BY <1>8 DEF Notify
    <3> QED BY <1>0, <3>4, <3>5, <3>6 DEF Woken
  <2> QED BY <1>8, <2>1, <2>2 DEF Notify
<1>9. ASSUME NEW t \in Threads, Stop(t) PROVE Woken'
  <2>1. UNCHANGED Awake
        BY <1>9, AwakeStays DEF Stop
  <2> QED BY <1>9, <2>1, WokenFrame DEF Stop
<1>10. ASSUME NEW t \in Threads, shutdown(t) PROVE Woken'
  <2>1. (Cardinality(Awake) \in Nat)'
        BY FiniteCounts, PTL
  <2>2. Len(pool') = 0
        BY <1>10 DEF shutdown
  <2> QED BY <2>1, <2>2 DEF Woken
<1>11. CASE UNCHANGED vars
      BY <1>11, WokenFrame DEF vars, Awake
<1> QED BY <1>1, <1>2, <1>3, <1>4, <1>5, <1>6, <1>7, <1>8, <1>9, <1>10, <1>11
        DEF Next, execute_sync, acquire_connection

----------------------------------------------------------------------------
\* The members of the pool keep their types, and exactly the threads between
\* acquire_connection() and release_connection() hold a connection.
THEOREM PoolTypes == Spec => []TypeOK
<1>1. FlagOK /\ DataOK => TypeOK
      BY DEF FlagOK, DataOK, TypeOK
<1> QED BY <1>1, InitData, NextFlag, NextData, PTL DEF Spec

\* Whatever execute_sync() throws, no connection is duplicated and none leaks but
\* the ones whose replacement failed (Database.hpp).
THEOREM ConnectionsAccounted == Spec => []PoolAccounted
<1>1. Accounted => PoolAccounted
      BY Zenon DEF Accounted, PoolAccounted, Sum
<1> QED BY <1>1, InitData, InitAccounted, NextData, NextStops, NextAccounted, PTL DEF Spec

\* notify_one() after the push is enough: while a thread sleeps in wait_for(), every
\* connection in the queue has a notification, or a thread awake, on its way to it.
THEOREM WakeupsNeverLost == Spec => []NoLostWakeup
<1>1. Init => Woken
      BY DEF Init, Woken
<1>2. Woken => NoLostWakeup
      BY DEF Woken, NoLostWakeup, Awake
<1> QED BY <1>1, <1>2, InitData, NextData, NextWoken, PTL DEF Spec

=============================================================================
