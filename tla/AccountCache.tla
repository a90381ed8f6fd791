---------------------------- MODULE AccountCache ----------------------------
(***************************************************************************)
(* The account cache (AccountCache.hpp): entries with a sliding lifetime,  *)
(* swept by a timer that re-arms itself.  get(), put(), invalidate() and   *)
(* the sweep hold mutex_ from beginning to end, so each is one step, of    *)
(* whichever thread.  Time is a counter.                                   *)
(***************************************************************************)
EXTENDS Integers

CONSTANTS
    Users,      \* usernames
    Values,     \* salt and verifier of an account
    None,       \* no entry
    TTL,        \* ttl_
    Interval,   \* cleanup_interval_
    Delay,      \* how late a due timer's handler may run
    MaxTime     \* bound on the clock

ASSUME CacheAssumption ==
    /\ TTL \in Nat /\ Interval \in Nat /\ Delay \in Nat /\ MaxTime \in Nat
    /\ None \notin Users \cup Values

VARIABLES
    now,        \* steady_clock::now()
    entry,      \* salt and verifier in cache_, or None
    last,       \* last_access
    timer,      \* cleanup_timer_: its async_wait
    due,        \* when it expires
    stopped,    \* stop() was called
    answer      \* the last get(): its user and what it returned

vars == <<now, entry, last, timer, due, stopped, answer>>

\* The types; no access lies in the future, and the timer is never set further
\* ahead than the interval.
TypeOK ==
    /\ now \in Nat /\ due \in Nat /\ due <= now + Interval
    /\ entry \in [Users -> Values \cup {None}]
    /\ last \in [Users -> Nat] /\ \A u \in Users : last[u] <= now
    /\ timer \in {"none", "pending", "expired", "aborted"} /\ stopped \in BOOLEAN
    /\ answer \in (Users \cup {None}) \X (Values \cup {None})

\* The constructor, and start().
Init ==
    /\ now = 0
    /\ entry = [u \in Users |-> None] /\ last = [u \in Users |-> 0]
    /\ timer = "pending" /\ due = Interval /\ stopped = FALSE
    /\ answer = <<None, None>>

Stale(u) == now - last[u] > TTL

\* Mutant: last_access is renewed before the test of the lifetime.
get_Renew(u) ==
    /\ answer' = <<u, entry[u]>>
    /\ last' = [last EXCEPT ![u] = now]
    /\ UNCHANGED <<now, entry, timer, due, stopped>>

\* A stale entry is not returned, and not renewed either.
get(u) ==
    /\ \/ (entry[u] = None \/ Stale(u)) /\ answer' = <<u, None>> /\ last' = last
       \/ /\ entry[u] # None /\ ~Stale(u)
          /\ answer' = <<u, entry[u]>> /\ last' = [last EXCEPT ![u] = now]
    /\ UNCHANGED <<now, entry, timer, due, stopped>>

put(u, v) ==
    /\ entry' = [entry EXCEPT ![u] = v] /\ last' = [last EXCEPT ![u] = now]
    /\ UNCHANGED <<now, timer, due, stopped, answer>>

invalidate(u) ==
    /\ entry' = [entry EXCEPT ![u] = None]
    /\ UNCHANGED <<now, last, timer, due, stopped, answer>>

(***************************************************************************)
(* The timer.                                                              *)
(***************************************************************************)
start_cleanup_timer == timer' = "pending" /\ due' = now + Interval

TimerExpires ==
    /\ timer = "pending" /\ now >= due
    /\ timer' = "expired"
    /\ UNCHANGED <<now, entry, last, due, stopped, answer>>

\* Mutant: the handler does not arm the timer again.
Cleanup_Once ==
    /\ timer = "expired"
    /\ entry' = [u \in Users |-> IF Stale(u) THEN None ELSE entry[u]]
    /\ timer' = "none"
    /\ UNCHANGED <<now, last, due, stopped, answer>>

\* The handler without error: cleanup_expired_entries(), start_cleanup_timer().
Cleanup ==
    /\ timer = "expired"
    /\ entry' = [u \in Users |-> IF Stale(u) THEN None ELSE entry[u]]
    /\ start_cleanup_timer
    /\ UNCHANGED <<now, last, stopped, answer>>

\* The handler with operation_aborted: the chain ends.
Aborted ==
    /\ timer = "aborted"
    /\ timer' = "none"
    /\ UNCHANGED <<now, entry, last, due, stopped, answer>>

\* cancel() aborts a pending wait; it does not reach a handler that is already queued.
stop ==
    /\ timer' = IF timer = "pending" THEN "aborted" ELSE timer
    /\ stopped' = TRUE
    /\ UNCHANGED <<now, entry, last, due, answer>>

\* Time passes; the handler of a due timer runs within Delay.
Tick ==
    /\ now < MaxTime
    /\ timer \in {"pending", "expired"} => now < due + Delay
    /\ now' = now + 1
    /\ UNCHANGED <<entry, last, timer, due, stopped, answer>>

Next ==
    \/ \E u \in Users : get(u) \/ invalidate(u) \/ \E v \in Values : put(u, v)
    \/ TimerExpires \/ Cleanup \/ Aborted \/ stop \/ Tick

Spec == Init /\ [][Next]_vars

-----------------------------------------------------------------------------
Map == INSTANCE LossyMap
       WITH Keys <- Users, Nothing <- None,
            map <- [u \in Users |-> IF Stale(u) THEN None ELSE entry[u]]

\* The cache is a lossy map: get() returns what was put last or nothing, and an entry
\* whose lifetime has run out never comes back without put(), whether or not the sweep
\* has reached it.
CacheIsLossyMap == Map!Spec

\* Until stop(), an entry that nobody asks for is gone a lifetime, an interval
\* and the handler's delay after its last access: the cache does not keep idle accounts.
IdleEntriesGo ==
    ~stopped => \A u \in Users : entry[u] # None => now - last[u] <= TTL + Interval + Delay
=============================================================================
