------------------------- MODULE AccountCacheProofs -------------------------
(***************************************************************************)
(* For all sets of users and values and all lifetimes, intervals and       *)
(* delays: the cache is a lossy map, and idle entries do not stay.         *)
(***************************************************************************)
EXTENDS AccountCache, TLAPS

\* TypeOK without the Boolean.
DataOK ==
    /\ now \in Nat /\ due \in Nat /\ due <= now + Interval
    /\ entry \in [Users -> Values \cup {None}]
    /\ last \in [Users -> Nat] /\ \A u \in Users : last[u] <= now
    /\ timer \in {"none", "pending", "expired", "aborted"}
    /\ answer \in (Users \cup {None}) \X (Values \cup {None})

\* Why idle entries go: until stop() the sweep is armed or due, its handler is not later
\* than Delay, and no entry can outlive the next sweep by more than it was allowed.
SweepInv ==
    ~stopped =>
        /\ timer \in {"pending", "expired"}
        /\ now <= due + Delay
        /\ \A u \in Users : entry[u] # None => due <= last[u] + TTL + Interval

\* Every step keeps the types.
LEMMA DataStep == DataOK /\ [Next]_vars => DataOK'
<1> SUFFICES ASSUME DataOK, [Next]_vars PROVE DataOK'
    OBVIOUS
<1> USE CacheAssumption DEF DataOK
<1>1. ASSUME NEW u \in Users, get(u) PROVE DataOK'
  BY <1>1 DEF get
<1>2. ASSUME NEW u \in Users, invalidate(u) PROVE DataOK'
  BY <1>2 DEF invalidate
<1>3. ASSUME NEW u \in Users, NEW v \in Values, put(u, v) PROVE DataOK'
  BY <1>3 DEF put
<1>4. CASE TimerExpires
  BY <1>4 DEF TimerExpires
<1>5. CASE Cleanup
  BY <1>5 DEF Cleanup, start_cleanup_timer
<1>6. CASE Aborted
  BY <1>6 DEF Aborted
<1>7. CASE stop
  BY <1>7 DEF stop
<1>8. CASE Tick
  BY <1>8 DEF Tick
<1>9. CASE UNCHANGED vars
  BY <1>9 DEF vars
<1> QED
  BY <1>1, <1>2, <1>3, <1>4, <1>5, <1>6, <1>7, <1>8, <1>9 DEF Next

\* The types hold throughout.
LEMMA DataInvariant == Spec => []DataOK
<1>1. Init => DataOK
  BY CacheAssumption DEF Init, DataOK
<1> QED
  BY <1>1, DataStep, PTL DEF Spec

\* stopped is a Boolean.
LEMMA FlagInvariant == Spec => [](stopped \in BOOLEAN)
<1>1. Init => stopped \in BOOLEAN
  BY Zenon DEF Init
<1>2. stopped \in BOOLEAN /\ [Next]_vars => (stopped \in BOOLEAN)'
  BY Zenon DEF Next, vars, get, invalidate, put, TimerExpires, Cleanup, Aborted, stop, Tick
<1> QED
  BY <1>1, <1>2, PTL DEF Spec

\* AccountCache.hpp keeps last_access in the past and the timer within the interval.
THEOREM CacheTyped == Spec => []TypeOK
<1>1. DataOK /\ stopped \in BOOLEAN => TypeOK
  BY Zenon DEF DataOK, TypeOK
<1> QED
  BY <1>1, DataInvariant, FlagInvariant, PTL

-----------------------------------------------------------------------------
\* Every step keeps the schedule of the sweep ahead of every entry's end.
LEMMA SweepStep == DataOK /\ SweepInv /\ [Next]_vars => SweepInv'
<1> SUFFICES ASSUME DataOK, SweepInv, [Next]_vars, ~stopped' PROVE SweepInv'
    BY DEF SweepInv
<1> USE CacheAssumption DEF DataOK, SweepInv
<1>1. ASSUME NEW u \in Users, get(u) PROVE SweepInv'
  BY <1>1 DEF get
<1>2. ASSUME NEW u \in Users, invalidate(u) PROVE SweepInv'
  BY <1>2 DEF invalidate
<1>3. ASSUME NEW u \in Users, NEW v \in Values, put(u, v) PROVE SweepInv'
  BY <1>3 DEF put
<1>4. CASE TimerExpires
  BY <1>4 DEF TimerExpires
<1>5. CASE Cleanup
  BY <1>5 DEF Cleanup, start_cleanup_timer, Stale
<1>6. CASE Aborted
  BY <1>6 DEF Aborted
<1>7. CASE stop
  BY <1>7 DEF stop
<1>8. CASE Tick
  BY <1>8 DEF Tick
<1>9. CASE UNCHANGED vars
  BY <1>9 DEF vars
<1> QED
  BY <1>1, <1>2, <1>3, <1>4, <1>5, <1>6, <1>7, <1>8, <1>9 DEF Next

\* cleanup_expired_entries() and its timer bound how long an idle entry stays.
THEOREM IdleBounded == Spec => []IdleEntriesGo
<1>1. Init => SweepInv
  BY CacheAssumption DEF Init, SweepInv
<1>2. DataOK /\ SweepInv => IdleEntriesGo
  BY CacheAssumption DEF DataOK, SweepInv, IdleEntriesGo
<1> QED
  BY <1>1, <1>2, SweepStep, DataInvariant, PTL DEF Spec

-----------------------------------------------------------------------------
\* What a lookup would find.
Live == [u \in Users |-> IF Stale(u) THEN None ELSE entry[u]]

\* A new cache is an empty map.
LEMMA MapInit == Init => Map!Init
BY CacheAssumption DEF Init, Map!Init, Stale

\* Every step of the cache is a step of the map, or leaves the map as it is.
LEMMA MapStep == DataOK /\ [Next]_vars => [Map!Next]_(Map!mapVars)
<1> SUFFICES ASSUME DataOK, [Next]_vars PROVE [Map!Next]_(Map!mapVars)
    OBVIOUS
<1> USE CacheAssumption DEF DataOK
<1>1. ASSUME NEW u \in Users, get(u) PROVE Map!Lookup(u)
  <2>1. answer' = <<u, Live[u]>>
    BY <1>1 DEF get, Stale, Live
  <2>2. ASSUME NEW w \in Users PROVE Live'[w] = Live[w]
    BY <1>1 DEF get, Stale, Live
  <2>3. Live' = Live
    BY <2>2 DEF Live
  <2> QED
    BY <2>1, <2>3 DEF Map!Lookup, Live
<1>2. ASSUME NEW u \in Users, invalidate(u) PROVE Map!Forget({u})
  BY <1>2 DEF invalidate, Stale, Map!Forget
<1>3. ASSUME NEW u \in Users, NEW v \in Values, put(u, v) PROVE Map!Store(u, v)
  <2>1. ASSUME NEW w \in Users PROVE Live'[w] = IF w = u THEN v ELSE Live[w]
    BY <1>3 DEF put, Stale, Live
  <2>2. Live' = [Live EXCEPT ![u] = v]
    BY <2>1, Zenon DEF Live
  <2> QED
    BY <1>3, <2>2 DEF put, Map!Store, Live
<1>4. CASE TimerExpires \/ Aborted \/ stop \/ UNCHANGED vars
  <2>1. UNCHANGED <<now, entry, last, answer>>
    BY <1>4 DEF TimerExpires, Aborted, stop, vars
  <2> QED
    BY <2>1 DEF Map!mapVars, Stale
<1>5. CASE Cleanup
  <2>1. ASSUME NEW w \in Users PROVE Live'[w] = Live[w]
    BY <1>5 DEF Cleanup, Stale, Live
  <2>2. Live' = Live
    BY <2>1 DEF Live
  <2> QED
    BY <1>5, <2>2 DEF Cleanup, Map!mapVars, Live
<1>6. CASE Tick
  <2>1. PICK E \in SUBSET Users : E = {u \in Users : now + 1 - last[u] > TTL}
    BY Zenon
  <2>2. ASSUME NEW w \in Users PROVE Live'[w] = IF w \in E THEN None ELSE Live[w]
    BY <1>6, <2>1 DEF Tick, Stale, Live
  <2>3. Live' = [w \in Users |-> IF w \in E THEN None ELSE Live[w]]
    BY <2>2 DEF Live
  <2>4. Map!Forget(E)
    BY <1>6, <2>3 DEF Tick, Map!Forget, Live
  <2> QED
    BY <2>4 DEF Map!Next
<1>7. ASSUME NEW u \in Users, get(u) \/ invalidate(u) \/ \E v \in Values : put(u, v) PROVE Map!Next
  BY <1>1, <1>2, <1>3, <1>7, Zenon DEF Map!Next
<1> QED
  BY <1>4, <1>5, <1>6, <1>7 DEF Next

\* get(), put(), the sweep and the passing of time implement the lossy map.
THEOREM CacheRefines == Spec => CacheIsLossyMap
BY MapInit, MapStep, DataInvariant, PTL DEF Spec, CacheIsLossyMap, Map!Spec
=============================================================================
