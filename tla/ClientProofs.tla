---------------------------- MODULE ClientProofs ----------------------------
(***************************************************************************)
(* Proofs about module Client, for any number of packets and failures.      *)
(* First its types and its operations: these properties count operations,   *)
(* so most of the work is in what Put, Take, Cancel and Rearm do to the     *)
(* counts.  Then its packets, which are sent once and in order.  For these  *)
(* two invariants are added: LinkInv, about a connection and its writes,    *)
(* and OrderInv, about the queue, the writes and where the threads are.     *)
(***************************************************************************)
EXTENDS Client, SequenceTheorems, TLAPS

Counts == [Ops -> [States -> Nat]]

\* How many operations of kind o there are.
Total(q, o) == q[o]["pending"] + q[o]["ok"] + q[o]["err"]

\* What Put, Take, Cancel and Rearm make of the counts.
LEMMA PutCounts ==
    ASSUME NEW q \in Counts, NEW o \in Ops, NEW s \in States
    PROVE  /\ Put(q, o, s) \in Counts
           /\ \A p \in Ops, r \in States : Put(q, o, s)[p][r] = IF p = o /\ r = s THEN q[p][r] + 1 ELSE q[p][r]
BY DEF Put, Counts

\* Taking an operation lowers one count.
LEMMA TakeCounts ==
    ASSUME NEW q \in Counts, NEW o \in Ops, NEW s \in States, q[o][s] > 0
    PROVE  /\ Take(q, o, s) \in Counts
           /\ \A p \in Ops, r \in States : Take(q, o, s)[p][r] = IF p = o /\ r = s THEN q[p][r] - 1 ELSE q[p][r]
BY DEF Take, Counts

\* Closing a socket or cancelling a timer moves what is pending to the aborted ones.
LEMMA CancelCounts ==
    ASSUME NEW q \in Counts, NEW K \in SUBSET Ops
    PROVE  /\ Cancel(q, K) \in Counts
           /\ \A p \in K : /\ Cancel(q, K)[p]["pending"] = 0
                           /\ Cancel(q, K)[p]["ok"] = q[p]["ok"]
                           /\ Cancel(q, K)[p]["err"] = q[p]["err"] + q[p]["pending"]
           /\ \A p \in Ops \ K : Cancel(q, K)[p] = q[p]
BY DEF Cancel, Counts, States, Ops

\* Arming a timer again leaves one wait pending and its cancelled one aborted.
LEMMA RearmCounts ==
    ASSUME NEW q \in Counts, NEW o \in Ops
    PROVE  /\ Rearm(q, o) \in Counts
           /\ Rearm(q, o)[o]["pending"] = 1
           /\ Rearm(q, o)[o]["ok"] = q[o]["ok"]
           /\ Rearm(q, o)[o]["err"] = q[o]["err"] + q[o]["pending"]
           /\ \A p \in Ops \ {o}, r \in States : Rearm(q, o)[p][r] = q[p][r]
<1> DEFINE c == Cancel(q, {o})
<1>1. /\ c \in Counts /\ c[o]["pending"] = 0 /\ c[o]["ok"] = q[o]["ok"]
      /\ c[o]["err"] = q[o]["err"] + q[o]["pending"]
      /\ \A p \in Ops \ {o} : c[p] = q[p]
      BY CancelCounts
<1> HIDE DEF c
<1>2. /\ Put(c, o, "pending") \in Counts
      /\ \A p \in Ops, r \in States : Put(c, o, "pending")[p][r] = IF p = o /\ r = "pending" THEN c[p][r] + 1 ELSE c[p][r]
      BY <1>1, PutCounts DEF States
<1> DEFINE d == Put(c, o, "pending")
<1>3. Rearm(q, o) = d
      BY DEF Rearm, c
<1>4. /\ d \in Counts /\ d[o]["pending"] = 1 /\ d[o]["ok"] = q[o]["ok"]
      /\ d[o]["err"] = q[o]["err"] + q[o]["pending"]
      BY <1>1, <1>2 DEF States
<1>5. \A p \in Ops \ {o}, r \in States : d[p][r] = q[p][r]
      BY <1>1, <1>2
<1> QED BY <1>3, <1>4, <1>5

\* What schedule_reconnect() makes of the operations.
LEMMA ScheduleCounts ==
    ASSUME NEW q \in Counts
    PROVE  LET r == Rearm(Cancel(q, SocketOps), "reconnect") IN
           /\ r \in Counts
           /\ \A p \in SocketOps : r[p]["pending"] = 0 /\ r[p]["ok"] = q[p]["ok"]
                                   /\ r[p]["err"] = q[p]["err"] + q[p]["pending"]
           /\ r["reconnect"]["pending"] = 1 /\ r["reconnect"]["ok"] = q["reconnect"]["ok"]
           /\ r["reconnect"]["err"] = q["reconnect"]["err"] + q["reconnect"]["pending"]
           /\ \A s \in States : r["heartbeat"][s] = q["heartbeat"][s]
<1> DEFINE c == Cancel(q, SocketOps)
<1>1. /\ c \in Counts
      /\ \A p \in SocketOps : c[p]["pending"] = 0 /\ c[p]["ok"] = q[p]["ok"]
                               /\ c[p]["err"] = q[p]["err"] + q[p]["pending"]
      /\ c["reconnect"] = q["reconnect"] /\ c["heartbeat"] = q["heartbeat"]
      BY CancelCounts DEF SocketOps, Ops
<1> HIDE DEF c
<1>2. /\ Rearm(c, "reconnect") \in Counts
      /\ Rearm(c, "reconnect")["reconnect"]["pending"] = 1
      /\ Rearm(c, "reconnect")["reconnect"]["ok"] = c["reconnect"]["ok"]
      /\ Rearm(c, "reconnect")["reconnect"]["err"] = c["reconnect"]["err"] + c["reconnect"]["pending"]
      /\ \A p \in Ops \ {"reconnect"}, s \in States : Rearm(c, "reconnect")[p][s] = c[p][s]
      BY <1>1, RearmCounts DEF Ops
<1>3. \A p \in SocketOps : p \in Ops \ {"reconnect"}
      BY DEF SocketOps, Ops
<1> QED BY <1>1, <1>2, <1>3 DEF c, Ops, States

----------------------------------------------------------------------------
(* The invariant.  The chains are counted; and a read can only be under way  *)
(* or done on the socket of the last successful attempt, since closing the  *)
(* socket, or opening it anew, aborts the read and the attempt before.      *)

OpsInv ==
    /\ ops \in Counts /\ failures \in Nat
    /\ socket \in {"closed", "connecting", "open"}
    /\ Total(ops, "connect") + Total(ops, "read") + Total(ops, "reconnect") = 1 + failures
    /\ ops["reconnect"]["pending"] <= 1 /\ ops["heartbeat"]["pending"] <= 1
    /\ ops["read"]["pending"] + ops["read"]["ok"] <= 1
    /\ ops["connect"]["pending"] <= 1
    /\ socket = "closed" => ops["connect"]["pending"] = 0
    /\ socket = "open" => /\ ops["connect"]["pending"] = 0
                          /\ ops["connect"]["ok"] + ops["read"]["pending"] + ops["read"]["ok"] <= 1
    /\ socket # "open" => ops["read"]["pending"] = 0

\* The counts are natural numbers.
LEMMA CountsNat ==
    ASSUME NEW q \in Counts
    PROVE  \A o \in Ops : q[o]["pending"] \in Nat /\ q[o]["ok"] \in Nat /\ q[o]["err"] \in Nat
BY DEF Counts, States

\* The first connect() establishes the invariant.
LEMMA InitOps == Init => OpsInv
<1> SUFFICES ASSUME Init PROVE OpsInv
    OBVIOUS
<1>1. NoOps \in Counts /\ \A o \in Ops, s \in States : NoOps[o][s] = 0
      BY DEF NoOps, Counts
<1>2. "connect" \in Ops /\ "pending" \in States
      BY DEF Ops, States
<1>3. /\ ops \in Counts
      /\ \A o \in Ops, s \in States : ops[o][s] = IF o = "connect" /\ s = "pending" THEN NoOps[o][s] + 1 ELSE NoOps[o][s]
      BY <1>1, <1>2, PutCounts DEF Init
<1> QED BY <1>1, <1>3 DEF OpsInv, Total, Init, Ops, States

\* A step that leaves the operations alone.
LEMMA OpsFrame == OpsInv /\ UNCHANGED <<ops, failures, socket>> => OpsInv'
BY DEF OpsInv, Total

\* schedule_reconnect() in a handler that has taken its operation, o in state s.
LEMMA ScheduleOps ==
    ASSUME OpsInv, NEW o \in SocketOps, NEW s \in {"ok", "err"}, ops[o][s] > 0,
           NEW w, schedule_reconnect(Take(ops, o, s), w), UNCHANGED failures
    PROVE  OpsInv'
<1> DEFINE q == Take(ops, o, s)
<1>1. o \in Ops /\ s \in States /\ ops \in Counts
      BY DEF OpsInv, SocketOps, Ops, States
<1>2. /\ q \in Counts
      /\ \A p \in Ops, r \in States : q[p][r] = IF p = o /\ r = s THEN ops[p][r] - 1 ELSE ops[p][r]
      BY <1>1, TakeCounts, SMTT(20)
<1> HIDE DEF q
<1> DEFINE c == Rearm(Cancel(q, SocketOps), "reconnect")
<1>3. /\ c \in Counts
      /\ \A p \in SocketOps : c[p]["pending"] = 0 /\ c[p]["ok"] = q[p]["ok"]
                              /\ c[p]["err"] = q[p]["err"] + q[p]["pending"]
      /\ c["reconnect"]["pending"] = 1 /\ c["reconnect"]["ok"] = q["reconnect"]["ok"]
      /\ c["reconnect"]["err"] = q["reconnect"]["err"] + q["reconnect"]["pending"]
      /\ \A r \in States : c["heartbeat"][r] = q["heartbeat"][r]
      BY <1>2, ScheduleCounts
<1>4. ops' = c /\ socket' = "closed"
      BY DEF schedule_reconnect, q
<1> HIDE DEF c
<1>5. \A p \in Ops : Total(q, p) = IF p = o THEN Total(ops, p) - 1 ELSE Total(ops, p)
      BY <1>1, <1>2, CountsNat DEF Total, States
<1>6. /\ Total(c, "connect") = Total(q, "connect") /\ Total(c, "read") = Total(q, "read")
      /\ Total(c, "reconnect") = Total(q, "reconnect") + 1
      BY <1>2, <1>3, CountsNat DEF Total, SocketOps, Ops
<1>7. /\ Total(ops, "connect") \in Nat /\ Total(ops, "read") \in Nat /\ Total(ops, "reconnect") \in Nat
      BY <1>1, CountsNat DEF Total, Ops
<1>8. Total(c, "connect") + Total(c, "read") + Total(c, "reconnect") = 1 + failures
      BY <1>5, <1>6, <1>7 DEF OpsInv, SocketOps, Ops
<1>9. /\ c["read"]["ok"] \in Nat /\ c["read"]["ok"] <= ops["read"]["ok"]
      /\ c["heartbeat"]["pending"] = ops["heartbeat"]["pending"]
      /\ c["read"]["pending"] = 0 /\ c["connect"]["pending"] = 0
      BY <1>1, <1>2, <1>3, CountsNat DEF SocketOps, Ops, States
<1>10. /\ ops["read"]["ok"] \in Nat /\ ops["read"]["pending"] \in Nat
      BY <1>1, CountsNat DEF Ops
<1> QED BY <1>3, <1>4, <1>8, <1>9, <1>10 DEF OpsInv, Total

\* The same in a handler of a write, which has no operation to take and counts a
\* failure.
LEMMA ScheduleFailure ==
    ASSUME OpsInv, NEW w, schedule_reconnect(ops, w), failures' = failures + 1
    PROVE  OpsInv'
<1> DEFINE c == Rearm(Cancel(ops, SocketOps), "reconnect")
<1>1. ops \in Counts
      BY DEF OpsInv
<1>2. /\ c \in Counts
      /\ \A p \in SocketOps : c[p]["pending"] = 0 /\ c[p]["ok"] = ops[p]["ok"]
                              /\ c[p]["err"] = ops[p]["err"] + ops[p]["pending"]
      /\ c["reconnect"]["pending"] = 1 /\ c["reconnect"]["ok"] = ops["reconnect"]["ok"]
      /\ c["reconnect"]["err"] = ops["reconnect"]["err"] + ops["reconnect"]["pending"]
      /\ \A r \in States : c["heartbeat"][r] = ops["heartbeat"][r]
      BY <1>1, ScheduleCounts
<1>3. ops' = c /\ socket' = "closed"
      BY DEF schedule_reconnect
<1> HIDE DEF c
<1>4. /\ Total(c, "connect") = Total(ops, "connect") /\ Total(c, "read") = Total(ops, "read")
      /\ Total(c, "reconnect") = Total(ops, "reconnect") + 1
      BY <1>1, <1>2, CountsNat DEF Total, SocketOps, Ops
<1>5. Total(ops, "connect") \in Nat /\ Total(ops, "read") \in Nat /\ Total(ops, "reconnect") \in Nat
      BY <1>1, CountsNat DEF Total, Ops
<1>6. Total(c, "connect") + Total(c, "read") + Total(c, "reconnect") = 1 + failures'
      BY <1>4, <1>5 DEF OpsInv
<1>7. /\ c["read"]["ok"] = ops["read"]["ok"] /\ c["heartbeat"]["pending"] = ops["heartbeat"]["pending"]
      /\ c["read"]["pending"] = 0 /\ c["connect"]["pending"] = 0
      BY <1>2 DEF SocketOps, States
<1>8. ops["read"]["ok"] \in Nat /\ ops["read"]["pending"] \in Nat
      BY <1>1, CountsNat DEF Ops
<1> QED BY <1>2, <1>3, <1>6, <1>7, <1>8 DEF OpsInv, Total

\* The network or the clock completes an operation: it stays of its kind.
LEMMA CompleteOps ==
    ASSUME OpsInv, NEW o \in Ops, NEW s \in {"ok", "err"}, Complete(o, s),
           \/ o # "connect" /\ UNCHANGED socket
           \/ o = "connect" /\ s = "err" /\ UNCHANGED socket
           \/ /\ o = "connect" /\ s = "ok" /\ socket' = "open"
              /\ ops["connect"]["ok"] = 0 /\ ops["read"]["ok"] = 0
    PROVE  OpsInv'
<1> DEFINE q == Take(ops, o, "pending")
<1>1. ops \in Counts /\ s \in States /\ "pending" \in States /\ ops[o]["pending"] > 0
      BY DEF OpsInv, States, Complete
<1>2. /\ q \in Counts
      /\ \A p \in Ops, r \in States : q[p][r] = IF p = o /\ r = "pending" THEN ops[p][r] - 1 ELSE ops[p][r]
      BY <1>1, TakeCounts, SMTT(20)
<1> HIDE DEF q
<1>3. /\ Put(q, o, s) \in Counts
      /\ \A p \in Ops, r \in States : Put(q, o, s)[p][r] = IF p = o /\ r = s THEN q[p][r] + 1 ELSE q[p][r]
      BY <1>1, <1>2, PutCounts
<1>4. ops' = Put(q, o, s) /\ UNCHANGED failures
      BY DEF Complete, q
<1>5. \A p \in Ops : p # o => /\ ops'[p]["pending"] = ops[p]["pending"] /\ ops'[p]["ok"] = ops[p]["ok"]
                              /\ ops'[p]["err"] = ops[p]["err"]
      BY <1>2, <1>3, <1>4 DEF States
<1>6. /\ ops'[o]["pending"] = ops[o]["pending"] - 1
      /\ s = "ok" => ops'[o]["ok"] = ops[o]["ok"] + 1 /\ ops'[o]["err"] = ops[o]["err"]
      /\ s = "err" => ops'[o]["err"] = ops[o]["err"] + 1 /\ ops'[o]["ok"] = ops[o]["ok"]
      BY <1>2, <1>3, <1>4 DEF States
<1>7. \A p \in Ops : Total(ops, p)' = Total(ops, p)
      BY <1>1, <1>5, <1>6, CountsNat DEF Total
<1>8. \A p \in Ops : ops[p]["pending"] \in Nat /\ ops[p]["ok"] \in Nat /\ ops[p]["err"] \in Nat
      BY <1>1, CountsNat
<1>9. ops' \in Counts
      BY <1>3, <1>4
<1> HIDE DEF Total
<1>10. Total(ops, "connect")' + Total(ops, "read")' + Total(ops, "reconnect")' = 1 + failures'
      BY <1>4, <1>7 DEF OpsInv, Ops
<1>11. CASE o = "connect"
  <2>1. /\ \A r \in {"pending", "ok", "err"} : /\ ops'["read"][r] = ops["read"][r]
                                               /\ ops'["reconnect"][r] = ops["reconnect"][r]
                                               /\ ops'["heartbeat"][r] = ops["heartbeat"][r]
        BY <1>5, <1>11 DEF Ops
  <2>2. ops["connect"]["pending"] = 1 /\ ops'["connect"]["pending"] = 0
        BY <1>1, <1>6, <1>8, <1>11 DEF OpsInv, Ops
  <2>3. CASE s = "err"
        BY <1>4, <1>6, <1>9, <1>10, <1>11, <2>1, <2>2, <2>3 DEF OpsInv
  <2>4. CASE s = "ok"
    <3>1. /\ socket' = "open" /\ ops'["connect"]["ok"] = 1 /\ ops["read"]["ok"] = 0
          /\ ops["read"]["pending"] = 0
          BY <1>6, <1>11, <2>2, <2>4 DEF OpsInv
    <3> QED BY <1>4, <1>9, <1>10, <2>1, <2>2, <3>1 DEF OpsInv
  <2> QED BY <2>3, <2>4
<1>12. CASE o # "connect"
      BY <1>1, <1>4, <1>5, <1>6, <1>8, <1>9, <1>10, <1>12 DEF OpsInv, Ops
<1> QED BY <1>11, <1>12

\* A handler that takes its operation, o, and starts the next read: the chain
\* goes on, and a read starts on the socket that o was of.
LEMMA NextReadOps ==
    ASSUME OpsInv, NEW o \in SocketOps, ops[o]["ok"] > 0
    PROVE  LET r == Put(Take(ops, o, "ok"), "read", Started) IN
           /\ r \in Counts
           /\ Total(r, "connect") + Total(r, "read") + Total(r, "reconnect") = 1 + failures
           /\ r["reconnect"] = ops["reconnect"] /\ r["heartbeat"] = ops["heartbeat"]
           /\ r["read"]["pending"] + r["read"]["ok"] <= 1
           /\ r["connect"]["pending"] = ops["connect"]["pending"]
           /\ socket = "open" => r["connect"]["ok"] + r["read"]["pending"] + r["read"]["ok"] <= 1
           /\ socket # "open" => r["read"]["pending"] = 0
<1> DEFINE q == Take(ops, o, "ok")
<1>1. o \in Ops /\ "read" \in Ops /\ "ok" \in States /\ Started \in States /\ ops \in Counts
      BY DEF OpsInv, SocketOps, Ops, States, Started
<1>2. /\ q \in Counts
      /\ \A p \in Ops, r \in States : q[p][r] = IF p = o /\ r = "ok" THEN ops[p][r] - 1 ELSE ops[p][r]
      BY <1>1, TakeCounts, SMTT(20)
<1>3. q["reconnect"] = ops["reconnect"] /\ q["heartbeat"] = ops["heartbeat"]
      BY <1>1 DEF Take, Counts, Ops, SocketOps
<1> HIDE DEF q
<1> DEFINE c == Put(q, "read", Started)
<1>4. /\ c \in Counts
      /\ \A p \in Ops, r \in States : c[p][r] = IF p = "read" /\ r = Started THEN q[p][r] + 1 ELSE q[p][r]
      BY <1>1, <1>2, PutCounts, SMTT(20)
<1>5. c["reconnect"] = q["reconnect"] /\ c["heartbeat"] = q["heartbeat"]
      BY <1>2 DEF Put, Counts, Ops
<1> HIDE DEF c
<1>6. \A p \in Ops : Total(q, p) = IF p = o THEN Total(ops, p) - 1 ELSE Total(ops, p)
      BY <1>1, <1>2, CountsNat DEF Total, States
<1>7. \A p \in Ops : Total(c, p) = IF p = "read" THEN Total(q, p) + 1 ELSE Total(q, p)
      BY <1>1, <1>2, <1>4, CountsNat DEF Total, States
<1>8. \A p \in Ops : Total(ops, p) \in Nat
      BY <1>1, CountsNat DEF Total
<1>9. Total(c, "connect") + Total(c, "read") + Total(c, "reconnect") = 1 + failures
      BY <1>6, <1>7, <1>8 DEF OpsInv, SocketOps, Ops
<1>10. \A p \in Ops : ops[p]["pending"] \in Nat /\ ops[p]["ok"] \in Nat
      BY <1>1, CountsNat
<1>11. c["connect"]["pending"] = ops["connect"]["pending"]
      BY <1>2, <1>4 DEF Ops, States
<1>12. CASE socket = "open"
  <2>1. Started = "pending"
        BY <1>12 DEF Started
  <2>2. /\ c["read"]["pending"] = ops["read"]["pending"] + 1
        /\ c["read"]["ok"] = IF o = "read" THEN ops["read"]["ok"] - 1 ELSE ops["read"]["ok"]
        /\ c["connect"]["ok"] = IF o = "connect" THEN ops["connect"]["ok"] - 1 ELSE ops["connect"]["ok"]
        BY <1>2, <1>4, <2>1 DEF Ops, States
  <2>3. ops["connect"]["ok"] + ops["read"]["pending"] + ops["read"]["ok"] <= 1
        BY <1>12 DEF OpsInv
  <2>4. c["connect"]["ok"] + c["read"]["pending"] + c["read"]["ok"] <= 1 /\ c["connect"]["ok"] >= 0
        BY <1>10, <2>2, <2>3 DEF SocketOps, Ops
  <2>5. c["read"]["pending"] + c["read"]["ok"] <= 1
        BY <1>10, <2>2, <2>3 DEF SocketOps, Ops
  <2> QED BY <1>3, <1>4, <1>5, <1>9, <1>11, <1>12, <2>4, <2>5 DEF c, q
<1>13. CASE socket # "open"
  <2>1. Started = "err"
        BY <1>13 DEF Started
  <2>2. /\ c["read"]["pending"] = ops["read"]["pending"]
        /\ c["read"]["ok"] = IF o = "read" THEN ops["read"]["ok"] - 1 ELSE ops["read"]["ok"]
        BY <1>2, <1>4, <2>1 DEF Ops, States
  <2>3. ops["read"]["pending"] = 0 /\ ops["read"]["ok"] <= 1
        BY <1>10, <1>13 DEF OpsInv, Ops
  <2>4. c["read"]["pending"] = 0 /\ c["read"]["pending"] + c["read"]["ok"] <= 1
        BY <1>10, <2>2, <2>3 DEF Ops
  <2> QED BY <1>3, <1>4, <1>5, <1>9, <1>11, <1>13, <2>4 DEF c, q
<1> QED BY <1>12, <1>13

\* Rearming the heartbeat timer touches no chain.
LEMMA HeartbeatRearmed ==
    ASSUME NEW r \in Counts, r["heartbeat"]["pending"] \in Nat, ops' = Rearm(r, "heartbeat")
    PROVE  /\ ops' \in Counts /\ ops'["heartbeat"]["pending"] = 1
           /\ \A p \in {"connect", "read", "reconnect"}, s \in States : ops'[p][s] = r[p][s]
           /\ \A p \in {"connect", "read", "reconnect"} : Total(ops, p)' = Total(r, p)
<1>1. /\ ops' \in Counts /\ ops'["heartbeat"]["pending"] = 1
      /\ \A p \in Ops \ {"heartbeat"}, s \in States : ops'[p][s] = r[p][s]
      BY RearmCounts DEF Ops
<1>2. \A p \in {"connect", "read", "reconnect"}, s \in States : ops'[p][s] = r[p][s]
      BY <1>1 DEF Ops
<1> QED BY <1>1, <1>2 DEF Total, States

\* The handler of async_connect preserves the invariant.
LEMMA ConnectHandlerOps == OpsInv /\ ConnectHandler => OpsInv'
<1> SUFFICES ASSUME OpsInv, ConnectHandler PROVE OpsInv'
    OBVIOUS
<1>0. UNCHANGED failures
      BY DEF ConnectHandler, history
<1>1. CASE ops["connect"]["ok"] > 0 /\ ops' = Rearm(Put(Take(ops, "connect", "ok"), "read", Started), "heartbeat")
           /\ UNCHANGED socket
  <2> DEFINE r == Put(Take(ops, "connect", "ok"), "read", Started)
  <2>1. /\ r \in Counts
        /\ Total(r, "connect") + Total(r, "read") + Total(r, "reconnect") = 1 + failures
        /\ r["reconnect"] = ops["reconnect"] /\ r["heartbeat"] = ops["heartbeat"]
        /\ r["read"]["pending"] + r["read"]["ok"] <= 1
        /\ r["connect"]["pending"] = ops["connect"]["pending"]
        /\ socket = "open" => r["connect"]["ok"] + r["read"]["pending"] + r["read"]["ok"] <= 1
        /\ socket # "open" => r["read"]["pending"] = 0
        BY <1>1, NextReadOps DEF SocketOps
  <2> HIDE DEF r
  <2>2. /\ ops' \in Counts /\ ops'["heartbeat"]["pending"] = 1
        /\ \A p \in {"connect", "read", "reconnect"}, s \in States : ops'[p][s] = r[p][s]
        /\ \A p \in {"connect", "read", "reconnect"} : Total(ops, p)' = Total(r, p)
        BY <1>1, <2>1, HeartbeatRearmed, CountsNat DEF r, Ops
  <2> HIDE DEF Total
  <2> QED BY <1>0, <1>1, <2>1, <2>2 DEF OpsInv, States
<1>2. CASE ops["connect"]["err"] > 0 /\ schedule_reconnect(Take(ops, "connect", "err"), writes)
      BY <1>0, <1>2, ScheduleOps DEF SocketOps
<1> QED BY <1>1, <1>2 DEF ConnectHandler, ConnectFailed

\* The handlers of the receive loop preserve the invariant.
LEMMA ReadHandlerOps == OpsInv /\ ReadHandler => OpsInv'
<1> SUFFICES ASSUME OpsInv, ReadHandler PROVE OpsInv'
    OBVIOUS
<1>0. UNCHANGED failures
      BY DEF ReadHandler
<1>1. CASE ops["read"]["err"] > 0 /\ schedule_reconnect(Take(ops, "read", "err"), writes)
      BY <1>0, <1>1, ScheduleOps DEF SocketOps
<1>2. CASE ops["read"]["ok"] > 0 /\ schedule_reconnect(Take(ops, "read", "ok"), writes)
      BY <1>0, <1>2, ScheduleOps DEF SocketOps
<1>3. CASE ops["read"]["ok"] > 0 /\ ops' = Put(Take(ops, "read", "ok"), "read", Started) /\ UNCHANGED socket
  <2>1. /\ ops' \in Counts
        /\ Total(ops', "connect") + Total(ops', "read") + Total(ops', "reconnect") = 1 + failures
        /\ ops'["reconnect"] = ops["reconnect"] /\ ops'["heartbeat"] = ops["heartbeat"]
        /\ ops'["read"]["pending"] + ops'["read"]["ok"] <= 1
        /\ ops'["connect"]["pending"] = ops["connect"]["pending"]
        /\ socket = "open" => ops'["connect"]["ok"] + ops'["read"]["pending"] + ops'["read"]["ok"] <= 1
        /\ socket # "open" => ops'["read"]["pending"] = 0
        BY <1>3, NextReadOps DEF SocketOps
  <2> QED BY <1>0, <1>3, <2>1 DEF OpsInv, Total
<1> QED BY <1>1, <1>2, <1>3 DEF ReadHandler, ReadFailed

\* The handler of reconnect_timer preserves the invariant.
LEMMA ReconnectHandlerOps == OpsInv /\ ReconnectHandler => OpsInv'
<1> SUFFICES ASSUME OpsInv, ReconnectHandler PROVE OpsInv'
    OBVIOUS
<1>1. PICK s \in {"ok", "err"} : /\ ops["reconnect"][s] > 0
                                 /\ ops' = Put(Cancel(Take(ops, "reconnect", s), SocketOps), "connect", "pending")
      BY DEF ReconnectHandler
<1>2. socket' = "connecting" /\ UNCHANGED failures
      BY DEF ReconnectHandler, history
<1>3. ops \in Counts /\ "reconnect" \in Ops /\ s \in States
      BY DEF OpsInv, Ops, States
<1> DEFINE q == Take(ops, "reconnect", s)
<1>4. /\ q \in Counts
      /\ \A p \in Ops, r \in States : q[p][r] = IF p = "reconnect" /\ r = s THEN ops[p][r] - 1 ELSE ops[p][r]
      BY <1>1, <1>3, TakeCounts, SMTT(20)
<1> HIDE DEF q
<1> DEFINE c == Cancel(q, SocketOps)
<1>5. /\ c \in Counts
      /\ \A p \in SocketOps : /\ c[p]["pending"] = 0 /\ c[p]["ok"] = q[p]["ok"]
                              /\ c[p]["err"] = q[p]["err"] + q[p]["pending"]
      /\ \A p \in Ops \ SocketOps : c[p] = q[p]
      BY <1>4, CancelCounts DEF SocketOps, Ops
<1> HIDE DEF c
<1>6. /\ ops' \in Counts
      /\ \A p \in Ops, r \in States : ops'[p][r] = IF p = "connect" /\ r = "pending" THEN c[p][r] + 1 ELSE c[p][r]
      BY <1>1, <1>5, PutCounts DEF Ops, States, c, q
<1>7. \A p \in Ops : Total(q, p) = IF p = "reconnect" THEN Total(ops, p) - 1 ELSE Total(ops, p)
      BY <1>3, <1>4, CountsNat DEF Total, States
<1>8. \A p \in Ops : Total(c, p) = Total(q, p)
      BY <1>4, <1>5, CountsNat DEF Total, SocketOps, Ops
<1>9. \A p \in Ops : Total(ops, p)' = IF p = "connect" THEN Total(c, p) + 1 ELSE Total(c, p)
      BY <1>5, <1>6, CountsNat DEF Total, States
<1>10. \A p \in Ops : Total(ops, p) \in Nat
      BY <1>3, CountsNat DEF Total
<1>11. Total(ops, "connect")' + Total(ops, "read")' + Total(ops, "reconnect")' = 1 + failures
      BY <1>7, <1>8, <1>9, <1>10 DEF OpsInv, Ops
<1>12. /\ ops'["connect"]["pending"] = 1 /\ ops'["read"]["pending"] = 0
       /\ ops'["read"]["ok"] = ops["read"]["ok"]
       BY <1>4, <1>5, <1>6 DEF SocketOps, Ops, States
<1>13. /\ ops'["heartbeat"]["pending"] = ops["heartbeat"]["pending"]
       /\ ops'["reconnect"]["pending"] = ops["reconnect"]["pending"]
       BY <1>4, <1>5, <1>6 DEF SocketOps, Ops, States
<1>14. ops["read"]["ok"] <= 1 /\ ops["read"]["ok"] \in Nat
       BY <1>3, CountsNat DEF OpsInv, Ops
<1> HIDE DEF Total
<1> QED BY <1>2, <1>6, <1>11, <1>12, <1>13, <1>14 DEF OpsInv

\* The handler of heartbeat_timer preserves the invariant.
LEMMA HeartbeatHandlerOps == OpsInv /\ HeartbeatHandler => OpsInv'
<1> SUFFICES ASSUME OpsInv, HeartbeatHandler PROVE OpsInv'
    OBVIOUS
<1>1. UNCHANGED <<socket, failures>>
      BY DEF HeartbeatHandler, history
<1>2. PICK s \in {"ok", "err"} : /\ ops["heartbeat"][s] > 0
                                 /\ \/ ops' = Take(ops, "heartbeat", s)
                                    \/ ops' = Rearm(Take(ops, "heartbeat", s), "heartbeat")
      BY DEF HeartbeatHandler
<1>3. ops \in Counts /\ "heartbeat" \in Ops /\ s \in States
      BY DEF OpsInv, Ops, States
<1> DEFINE q == Take(ops, "heartbeat", s)
<1>4. /\ q \in Counts
      /\ \A p \in Ops, r \in States : q[p][r] = IF p = "heartbeat" /\ r = s THEN ops[p][r] - 1 ELSE ops[p][r]
      BY <1>2, <1>3, TakeCounts, SMTT(20)
<1> HIDE DEF q
<1>5. /\ \A p \in {"connect", "read", "reconnect"}, r \in States : q[p][r] = ops[p][r]
      /\ q["heartbeat"]["pending"] = ops["heartbeat"]["pending"]
      BY <1>4 DEF Ops, States
<1>6. CASE ops' = q
      BY <1>1, <1>4, <1>5, <1>6 DEF OpsInv, Total, States
<1>7. CASE ops' = Rearm(q, "heartbeat")
  <2>1. /\ ops' \in Counts /\ ops'["heartbeat"]["pending"] = 1
        /\ \A p \in {"connect", "read", "reconnect"}, r \in States : ops'[p][r] = q[p][r]
        BY <1>4, <1>7, HeartbeatRearmed, CountsNat DEF Ops
  <2> QED BY <1>1, <1>5, <2>1 DEF OpsInv, Total, States
<1> QED BY <1>2, <1>6, <1>7 DEF q

\* The function that disconnect() posts preserves the invariant.
LEMMA DisconnectHandlerOps == OpsInv /\ DisconnectHandler => OpsInv'
<1> SUFFICES ASSUME OpsInv, DisconnectHandler PROVE OpsInv'
    OBVIOUS
<1>1. ops' = Cancel(ops, Ops) /\ socket' = "closed" /\ UNCHANGED failures /\ ops \in Counts
      BY DEF DisconnectHandler, history, OpsInv
<1>2. /\ ops' \in Counts
      /\ \A p \in Ops : /\ ops'[p]["pending"] = 0 /\ ops'[p]["ok"] = ops[p]["ok"]
                        /\ ops'[p]["err"] = ops[p]["err"] + ops[p]["pending"]
      BY <1>1, CancelCounts
<1>3. \A p \in Ops : Total(ops, p)' = Total(ops, p)
      BY <1>1, <1>2, CountsNat DEF Total
<1>4. ops["read"]["ok"] \in Nat /\ ops["read"]["pending"] \in Nat
      BY <1>1, CountsNat DEF Ops
<1> HIDE DEF Total
<1> QED BY <1>1, <1>2, <1>3, <1>4 DEF OpsInv, Ops

\* The handler of async_write preserves the invariant.
LEMMA WriteHandlerOps == OpsInv /\ WriteHandler => OpsInv'
<1> SUFFICES ASSUME OpsInv, WriteHandler PROVE OpsInv'
    OBVIOUS
<1>1. PICK i \in DOMAIN writes :
          \/ failures' = failures + 1 /\ schedule_reconnect(ops, Without(writes, i))
          \/ UNCHANGED <<socket, ops, failures>>
      BY DEF WriteHandler
<1>2. CASE failures' = failures + 1 /\ schedule_reconnect(ops, Without(writes, i))
      BY <1>2, ScheduleFailure
<1>3. CASE UNCHANGED <<socket, ops, failures>>
      BY <1>3, OpsFrame
<1> QED BY <1>1, <1>2, <1>3

\* Every step keeps the invariant: the actions that change the operations one by
\* one, the others together.
LEMMA NextOps == OpsInv /\ [Next]_vars => OpsInv'
<1> SUFFICES ASSUME OpsInv, [Next]_vars PROVE OpsInv'
    OBVIOUS
<1>1. CASE ReadHandler
      BY <1>1, ReadHandlerOps
<1>2. CASE IoOther
  <2>1. ASSUME NEW t, push(t) \/ size(t) \/ flush_queue(t)
        PROVE  UNCHANGED <<ops, failures, socket>>
        BY <2>1 DEF push, size, flush_queue, transport, history
  <2>2. LogonHandler => UNCHANGED <<ops, failures, socket>>
        BY DEF LogonHandler, history
  <2> QED BY <1>2, <2>1, <2>2, OpsFrame, ConnectHandlerOps, ReconnectHandlerOps, WriteHandlerOps,
             HeartbeatHandlerOps, DisconnectHandlerOps DEF IoOther
<1>3. CASE StdinThread
      BY <1>3, OpsFrame DEF StdinThread, push, size, flush_queue, transport, history
<1>4. CASE Signal \/ send_message
      BY <1>4, OpsFrame DEF Signal, send_message, transport, history
<1>5. CASE LogonTimerExpires
      BY <1>5, OpsFrame DEF LogonTimerExpires, history
<1>6. CASE ReconnectTimerExpires
      BY <1>6, CompleteOps DEF ReconnectTimerExpires, Ops
<1>7. CASE HeartbeatTimerExpires
      BY <1>7, CompleteOps DEF HeartbeatTimerExpires, Ops
<1>8. CASE ConnectSucceeds
      BY <1>8, CompleteOps DEF ConnectSucceeds, Quiet, Ops
<1>9. CASE PacketArrives
      BY <1>9, CompleteOps DEF PacketArrives, Ops
<1>10. CASE WriteEnds("ok") \/ WriteEnds("err")
      BY <1>10, OpsFrame DEF WriteEnds, transport
<1>11. CASE \E o \in SocketOps : NetworkFails(o)
      BY <1>11, CompleteOps DEF NetworkFails, SocketOps, Ops
<1>12. CASE Ended \/ UNCHANGED vars
      BY <1>12, OpsFrame DEF Ended, vars, transport, history
<1> QED BY <1>1, <1>2, <1>3, <1>4, <1>5, <1>6, <1>7, <1>8, <1>9, <1>10, <1>11, <1>12 DEF Next, Clock

----------------------------------------------------------------------------
\* Whatever fails or is cancelled, the client goes on trying, with at most one
\* chain more for each failed write (schedule_reconnect() and the handler of
\* reconnect_timer in Client.cpp).
THEOREM AlwaysTrying == Spec => []NeverGivesUp
<1>1. OpsInv => Chains = 1 + failures /\ failures \in Nat
      BY DEF OpsInv, Chains, Count, Total
<1>2. OpsInv => NeverGivesUp
      BY <1>1 DEF NeverGivesUp
<1> QED BY <1>2, InitOps, NextOps, PTL DEF Spec

\* However many chains there are, one receive loop reads from the socket and one
\* attempt connects it: connect() closes the socket first.
THEOREM OneReceiveLoopAlways == Spec => []OneReceiveLoop
<1>1. OpsInv => OneReceiveLoop
      BY DEF OpsInv, OneReceiveLoop
<1> QED BY <1>1, InitOps, NextOps, PTL DEF Spec

----------------------------------------------------------------------------
(* The types of the queue and of the writes.                                *)

Writes == [packet : Nat, state : States]
Places == {"idle", "send", "store", "size", "flush"}

\* Closing the socket makes failures of the pending writes and keeps their packets.
LEMMA AbortedWrites ==
    ASSUME NEW w \in Seq(Writes)
    PROVE  /\ AbortWrites(w) \in Seq(Writes) /\ Len(AbortWrites(w)) = Len(w)
           /\ \A i \in 1..Len(w) : /\ AbortWrites(w)[i].packet = w[i].packet
                                   /\ AbortWrites(w)[i].state = IF w[i].state = "pending" THEN "err" ELSE w[i].state
<1>1. DOMAIN w = 1..Len(w) /\ Len(w) \in Nat /\ \A i \in 1..Len(w) : w[i] \in Writes
      OBVIOUS
<1> DEFINE a(i) == IF w[i].state = "pending" THEN [w[i] EXCEPT !.state = "err"] ELSE w[i]
<1>2. \A i \in 1..Len(w) : /\ a(i) \in Writes
                           /\ a(i).packet = w[i].packet
                           /\ a(i).state = IF w[i].state = "pending" THEN "err" ELSE w[i].state
      BY <1>1 DEF Writes, States
<1>3. AbortWrites(w) = [i \in 1..Len(w) |-> a(i)]
      BY <1>1 DEF AbortWrites
<1> HIDE DEF a
<1> QED BY <1>1, <1>2, <1>3

\* A handler's write leaves the sequence, the others keep their order.
LEMMA OneWriteLess ==
    ASSUME NEW w \in Seq(Writes), NEW i \in DOMAIN w
    PROVE  /\ Without(w, i) \in Seq(Writes) /\ Len(Without(w, i)) = Len(w) - 1
           /\ \A j \in 1..(Len(w) - 1) : \E k \in 1..Len(w) : Without(w, i)[j] = w[k]
<1> DEFINE a == SubSeq(w, 1, i - 1)
           b == SubSeq(w, i + 1, Len(w))
<1>1. i \in 1..Len(w) /\ Len(w) \in Nat
      OBVIOUS
<1>2. a \in Seq(Writes) /\ Len(a) = i - 1 /\ \A j \in 1..(i - 1) : a[j] = w[j]
      BY <1>1
<1>3. b \in Seq(Writes) /\ Len(b) = Len(w) - i /\ \A j \in 1..(Len(w) - i) : b[j] = w[j + i]
      BY <1>1
<1> HIDE DEF a, b
<1>4. /\ a \o b \in Seq(Writes) /\ Len(a \o b) = Len(a) + Len(b)
      /\ \A j \in 1..(Len(a) + Len(b)) : (a \o b)[j] = IF j <= Len(a) THEN a[j] ELSE b[j - Len(a)]
      BY <1>2, <1>3, ConcatProperties, Zenon
<1>5. Without(w, i) = a \o b
      BY DEF Without, a, b
<1>6. Len(a) + Len(b) = Len(w) - 1
      BY <1>1, <1>2, <1>3
<1>7. ASSUME NEW j \in 1..(Len(w) - 1)
      PROVE  \E k \in 1..Len(w) : Without(w, i)[j] = w[k]
  <2>0. j \in 1..(Len(a) + Len(b))
        BY <1>6, Zenon
  <2>1. Without(w, i)[j] = IF j <= i - 1 THEN a[j] ELSE b[j - (i - 1)]
        BY <1>2, <1>4, <1>5, <2>0, Zenon
  <2>2. CASE j <= i - 1
        BY <1>1, <1>2, <2>1, <2>2
  <2>3. CASE j > i - 1
    <3>1. j - (i - 1) \in 1..(Len(w) - i) /\ j - (i - 1) + i = j + 1 /\ j + 1 \in 1..Len(w)
          BY <1>1, <2>3
    <3> QED BY <1>3, <2>1, <2>3, <3>1
  <2> QED BY <2>2, <2>3
<1> QED BY <1>4, <1>5, <1>6, <1>7, Zenon

\* A thread that moves is at a place, and raced is only ever set.
LEMMA Moved ==
    ASSUME pc \in [Threads -> Places], raced \in BOOLEAN, NEW t \in Threads, NEW l \in Places, Goto(t, l)
    PROVE  pc' \in [Threads -> Places] /\ raced' \in BOOLEAN
BY DEF Goto

\* send_packet_impl() goes on to one of two places.
LEMMA Entered ==
    ASSUME pc \in [Threads -> Places], raced \in BOOLEAN, NEW t \in Threads, EnterSend(t)
    PROVE  pc' \in [Threads -> Places] /\ raced' \in BOOLEAN
BY Moved DEF EnterSend, Places

\* The types that do not concern the operations.
QueueTypes ==
    /\ writes \in Seq(Writes) /\ queue \in Seq(Nat) /\ sent \in Seq(Nat)
    /\ queued \in Nat /\ connected \in BOOLEAN
    /\ pc \in [Threads -> Places] /\ raced \in BOOLEAN
FlagTypes ==
    /\ mode \in {"AUTH", "WORK"} /\ posted \in Nat /\ troubles \in Nat
    /\ logonTimer \in {"armed", "expired", "done"}
    /\ ended \in {"no", "stopped", "crashed"}

\* The types hold at first.
LEMMA InitTypes == Init => QueueTypes /\ FlagTypes
<1> SUFFICES ASSUME Init PROVE QueueTypes /\ FlagTypes
    OBVIOUS
<1>1. writes \in Seq(Writes) /\ queue \in Seq(Nat) /\ sent \in Seq(Nat)
      BY DEF Init
<1>2. pc \in [Threads -> Places]
      BY DEF Init, Places
<1>3. queued \in Nat /\ posted \in Nat /\ troubles \in Nat
      BY DEF Init
<1> QED BY <1>1, <1>2, <1>3, Zenon DEF Init, QueueTypes, FlagTypes

\* async_write() adds a write, and what it completes at once is sent.
LEMMA WriteStarts ==
    ASSUME QueueTypes, NEW p \in Nat, async_write(p)
    PROVE  \E w \in Writes : /\ w.packet = p /\ writes' = Append(writes, w)
                             /\ sent' = IF w.state = "ok" THEN Append(sent, p) ELSE sent
                             /\ socket # "open" => w.state # "pending"
<1> DEFINE failed == failures + Len(SelectSeq(writes, LAMBDA w : w.state = "err"))
           state == IF socket # "open" THEN "err" ELSE IF failed < MaxFailures THEN "pending" ELSE "ok"
           new == [packet |-> p, state |-> state]
<1>1. writes' = Append(writes, new) /\ sent' = IF state = "ok" THEN Append(sent, p) ELSE sent
      BY Zenon DEF async_write
<1> HIDE DEF failed
<1>2. state \in States /\ (socket # "open" => state # "pending")
      BY DEF States
<1> HIDE DEF state
<1>3. new \in Writes /\ new.packet = p /\ new.state = state
      BY <1>2 DEF Writes
<1> HIDE DEF new
<1> QED BY <1>1, <1>2, <1>3, Zenon

\* schedule_reconnect() keeps the types.
LEMMA ScheduleTypes ==
    ASSUME QueueTypes, NEW w \in Seq(Writes), NEW q, schedule_reconnect(q, w)
    PROVE  connected' \in BOOLEAN /\ writes' \in Seq(Writes)
BY AbortedWrites, Zenon DEF schedule_reconnect

\* Every step keeps the types of the queue.
LEMMA NextQueueTypes == QueueTypes /\ [Next]_vars => QueueTypes'
<1> SUFFICES ASSUME QueueTypes, [Next]_vars PROVE QueueTypes'
    OBVIOUS
<1>0. "io" \in Threads /\ "stdin" \in Threads
      BY DEF Threads
<1>1. CASE \E t \in Threads : push(t)
  <2>1. PICK t \in Threads : push(t)
        BY <1>1
  <2>2. pc' \in [Threads -> Places] /\ raced' \in BOOLEAN
        BY <2>1, Moved DEF push, QueueTypes, Places
  <2> QED BY <2>1, <2>2 DEF push, QueueTypes, transport, history
<1>2. CASE \E t \in Threads : size(t)
  <2>1. PICK t \in Threads : size(t)
        BY <1>2
  <2>2. pc' \in [Threads -> Places] /\ raced' \in BOOLEAN
        BY <2>1, Moved DEF size, QueueTypes, Places
  <2> QED BY <2>1, <2>2 DEF size, QueueTypes, transport, history
<1>3. CASE \E t \in Threads : flush_queue(t)
  <2>1. PICK t \in Threads : flush_queue(t)
        BY <1>3
  <2>2. pc' \in [Threads -> Places] /\ raced' \in BOOLEAN
        BY <2>1, Moved DEF flush_queue, QueueTypes, Places
  <2>3. UNCHANGED <<queue, queued, connected>>
        BY <2>1 DEF flush_queue, transport
  <2>4. CASE UNCHANGED <<writes, sent>>
        BY <2>2, <2>3, <2>4 DEF QueueTypes
  <2>5. CASE queue # <<>> /\ async_write(Head(queue))
    <3>1. Head(queue) \in Nat
          BY <2>5 DEF QueueTypes
    <3>2. PICK w \in Writes : /\ writes' = Append(writes, w)
                              /\ sent' = IF w.state = "ok" THEN Append(sent, Head(queue)) ELSE sent
          BY <2>5, <3>1, WriteStarts, Zenon
    <3>4. writes' \in Seq(Writes) /\ sent' \in Seq(Nat)
          BY <3>1, <3>2 DEF QueueTypes
    <3> QED BY <2>2, <2>3, <3>4 DEF QueueTypes
  <2> QED BY <2>1, <2>4, <2>5 DEF flush_queue
<1>4. CASE ConnectHandler
  <2>1. UNCHANGED <<queue, queued, sent>>
        BY <1>4 DEF ConnectHandler, history
  <2>2. CASE connected' = TRUE /\ Goto("io", "flush") /\ UNCHANGED writes
        BY <1>0, <2>1, <2>2, Moved DEF QueueTypes, Places
  <2>3. CASE schedule_reconnect(Take(ops, "connect", "err"), writes) /\ UNCHANGED <<pc, raced>>
        BY <2>1, <2>3, ScheduleTypes DEF QueueTypes
  <2> QED BY <1>4, <2>2, <2>3, Zenon DEF ConnectHandler, ConnectFailed
<1>5. CASE ReconnectHandler \/ DisconnectHandler
  <2>1. writes' = AbortWrites(writes) /\ UNCHANGED <<queue, queued, sent, pc, raced>> /\ connected' \in {connected, FALSE}
        BY <1>5, Zenon DEF ReconnectHandler, DisconnectHandler, history
  <2> QED BY <2>1, AbortedWrites, Zenon DEF QueueTypes
<1>6. CASE ReadHandler
  <2>1. UNCHANGED <<queue, queued, sent>>
        BY <1>6 DEF ReadHandler
  <2>2. \/ UNCHANGED <<pc, raced>> /\ \E q : schedule_reconnect(q, writes)
        \/ UNCHANGED <<connected, writes>> /\ (EnterSend("io") \/ UNCHANGED <<pc, raced>>)
        BY <1>6, Zenon DEF ReadHandler, ReadFailed
  <2>3. CASE UNCHANGED <<pc, raced>> /\ \E q : schedule_reconnect(q, writes)
        BY <2>1, <2>3, ScheduleTypes DEF QueueTypes
  <2>4. CASE UNCHANGED <<connected, writes>> /\ (EnterSend("io") \/ UNCHANGED <<pc, raced>>)
        BY <1>0, <2>1, <2>4, Entered DEF QueueTypes
  <2> QED BY <2>2, <2>3, <2>4
<1>7. CASE WriteHandler
  <2>1. PICK i \in DOMAIN writes :
            \/ schedule_reconnect(ops, Without(writes, i)) /\ UNCHANGED <<queue, pc, raced>>
            \/ /\ writes' = Without(writes, i) /\ UNCHANGED connected
               /\ \/ queue # <<>> /\ queue' = Tail(queue) /\ Goto("io", "flush")
                  \/ UNCHANGED <<queue, pc, raced>>
        BY <1>7, Zenon DEF WriteHandler
  <2>2. UNCHANGED <<queued, sent>>
        BY <1>7 DEF WriteHandler
  <2>3. Without(writes, i) \in Seq(Writes)
        BY OneWriteLess, Zenon DEF QueueTypes
  <2>4. CASE schedule_reconnect(ops, Without(writes, i)) /\ UNCHANGED <<queue, pc, raced>>
        BY <2>2, <2>3, <2>4, ScheduleTypes DEF QueueTypes
  <2>5. CASE writes' = Without(writes, i) /\ UNCHANGED connected /\ queue # <<>> /\ queue' = Tail(queue) /\ Goto("io", "flush")
    <3>1. queue' \in Seq(Nat)
          BY <2>5 DEF QueueTypes
    <3> QED BY <1>0, <2>2, <2>3, <2>5, <3>1, Moved DEF QueueTypes, Places
  <2>6. CASE writes' = Without(writes, i) /\ UNCHANGED connected /\ UNCHANGED <<queue, pc, raced>>
        BY <2>2, <2>3, <2>6 DEF QueueTypes
  <2> QED BY <2>1, <2>4, <2>5, <2>6
<1>8. CASE HeartbeatHandler \/ LogonHandler \/ send_message
  <2>1. UNCHANGED <<connected, writes, queue, queued, sent>>
        BY <1>8 DEF HeartbeatHandler, LogonHandler, send_message, transport, history
  <2>2. EnterSend("io") \/ EnterSend("stdin") \/ UNCHANGED <<pc, raced>>
        BY <1>8 DEF HeartbeatHandler, LogonHandler, send_message
  <2> QED BY <1>0, <2>1, <2>2, Entered DEF QueueTypes
<1>9. CASE WriteEnds("ok") \/ WriteEnds("err")
  <2>1. PICK s \in {"ok", "err"} : WriteEnds(s)
        BY <1>9
  <2>2. PICK i \in DOMAIN writes : /\ writes' = [writes EXCEPT ![i].state = s]
                                   /\ sent' = IF s = "ok" THEN Append(sent, writes[i].packet) ELSE sent
        BY <2>1, Zenon DEF WriteEnds
  <2>a. writes[i] \in Writes /\ writes \in Seq(Writes)
        BY DEF QueueTypes
  <2>3. [writes[i] EXCEPT !.state = s] \in Writes /\ writes[i].packet \in Nat
        BY <2>a DEF Writes, States
  <2>4. writes' \in Seq(Writes) /\ sent' \in Seq(Nat)
        BY <2>2, <2>a, <2>3 DEF QueueTypes
  <2> QED BY <2>1, <2>4 DEF QueueTypes, WriteEnds, transport
<1>10. CASE Signal \/ Clock \/ ConnectSucceeds \/ PacketArrives \/ (\E o \in SocketOps : NetworkFails(o)) \/ Ended \/ UNCHANGED vars
  <2>1. UNCHANGED <<connected, writes, queue, queued, sent, pc, raced>>
        BY <1>10 DEF Signal, Clock, LogonTimerExpires, ReconnectTimerExpires, HeartbeatTimerExpires, ConnectSucceeds,
                     PacketArrives, NetworkFails, Complete, Ended, vars, transport, history
  <2> QED BY <2>1 DEF QueueTypes
<1> QED BY <1>0, <1>1, <1>2, <1>3, <1>4, <1>5, <1>6, <1>7, <1>8, <1>9, <1>10, Zenon DEF Next, IoOther, StdinThread

\* Every step keeps the other types.
LEMMA NextFlagTypes == FlagTypes /\ [Next]_vars => FlagTypes'
<1> SUFFICES ASSUME FlagTypes, [Next]_vars PROVE FlagTypes'
    OBVIOUS
<1>1. UNCHANGED ended \/ ended' = "stopped" \/ ended' = "crashed"
  <2>1. ASSUME NEW t, push(t) \/ size(t) \/ flush_queue(t) PROVE UNCHANGED ended
        BY <2>1 DEF push, size, flush_queue
  <2>2. ConnectHandler \/ ReconnectHandler \/ HeartbeatHandler \/ LogonHandler \/ DisconnectHandler \/ ReadHandler
            => UNCHANGED ended
        BY Zenon DEF ConnectHandler, ReconnectHandler, HeartbeatHandler, LogonHandler, DisconnectHandler, ReadHandler
  <2>3. WriteHandler => UNCHANGED ended \/ ended' = "crashed"
        BY Zenon DEF WriteHandler
  <2>4. Signal => ended' = "stopped"
        BY DEF Signal
  <2>5. ASSUME NEW o, NEW s, Complete(o, s) \/ WriteEnds(s) PROVE UNCHANGED ended
        BY <2>5 DEF Complete, WriteEnds
  <2>6. send_message \/ LogonTimerExpires \/ Ended \/ UNCHANGED vars => UNCHANGED ended
        BY DEF send_message, LogonTimerExpires, Ended, vars
  <2> QED BY <2>1, <2>2, <2>3, <2>4, <2>5, <2>6, Zenon
             DEF Next, IoOther, StdinThread, Clock, ConnectSucceeds, PacketArrives, ReconnectTimerExpires,
                 HeartbeatTimerExpires, NetworkFails
<1>2. ASSUME NEW t, push(t) \/ size(t) \/ flush_queue(t) PROVE UNCHANGED <<mode, posted, troubles, logonTimer>>
      BY <1>2 DEF push, size, flush_queue, transport, history
<1>3. ConnectHandler \/ ReconnectHandler \/ HeartbeatHandler \/ WriteHandler => UNCHANGED <<mode, posted, troubles, logonTimer>>
      BY Zenon DEF ConnectHandler, ReconnectHandler, HeartbeatHandler, WriteHandler, history
<1>4. LogonHandler \/ LogonTimerExpires => UNCHANGED <<mode, posted, troubles>> /\ logonTimer' \in {"expired", "done"}
      BY DEF LogonHandler, LogonTimerExpires, history
<1>5. DisconnectHandler \/ Signal => UNCHANGED <<mode, troubles, logonTimer>> /\ posted' \in Nat
      BY DEF DisconnectHandler, Signal, history, FlagTypes
<1>6. ReadHandler => /\ UNCHANGED logonTimer /\ mode' \in {mode, "WORK"}
                     /\ posted' \in {posted, posted + 1} /\ troubles' \in {troubles, troubles + 1}
      BY Zenon DEF ReadHandler
<1>7. ASSUME NEW o, NEW s, Complete(o, s) \/ WriteEnds(s) PROVE UNCHANGED <<mode, posted, logonTimer>>
      BY <1>7 DEF Complete, WriteEnds, transport
<1>8. ConnectSucceeds \/ PacketArrives \/ ReconnectTimerExpires \/ HeartbeatTimerExpires => UNCHANGED troubles
      BY DEF ConnectSucceeds, PacketArrives, ReconnectTimerExpires, HeartbeatTimerExpires
<1>9. WriteEnds("ok") \/ WriteEnds("err") \/ (\E o \in SocketOps : NetworkFails(o)) => troubles' \in {troubles, troubles + 1}
      BY DEF WriteEnds, NetworkFails, Trouble
<1>10. send_message \/ Ended \/ UNCHANGED vars => UNCHANGED <<mode, posted, troubles, logonTimer>>
      BY DEF send_message, Ended, vars, transport, history
<1>11. /\ mode' \in {mode, "WORK"}
       /\ posted' \in {posted, posted + 1} \/ posted' \in Nat
       /\ troubles' \in {troubles, troubles + 1}
       /\ UNCHANGED logonTimer \/ logonTimer' \in {"expired", "done"}
      BY <1>2, <1>3, <1>4, <1>5, <1>6, <1>7, <1>8, <1>9, <1>10, Zenon
         DEF Next, IoOther, StdinThread, Clock, ConnectSucceeds, PacketArrives, ReconnectTimerExpires,
             HeartbeatTimerExpires, NetworkFails
<1> QED BY <1>1, <1>11 DEF FlagTypes

\* The variables of the client always have their types, and a timer never has
\* two waits (expires_after() cancels the first).
THEOREM TypesAlwaysOK == Spec => []TypeOK
<1>1. OpsInv /\ QueueTypes /\ FlagTypes => TypeOK
      BY Zenon DEF OpsInv, QueueTypes, FlagTypes, TypeOK, Counts, Writes, Places
<1> QED BY <1>1, InitOps, InitTypes, NextOps, NextQueueTypes, NextFlagTypes, PTL DEF Spec

----------------------------------------------------------------------------
(* A connection and its writes.  The client counts as connected only while  *)
(* the receive loop that its connect handler started has a handler to come, *)
(* and an attempt succeeds only when no handler waits: so nothing is being  *)
(* written when the connect handler calls flush_queue().                    *)

LinkInv ==
    /\ connected => Total(ops, "read") >= 1
    /\ ops["connect"]["ok"] <= 1
    /\ ops["connect"]["ok"] > 0 => ~connected /\ writes = <<>>
    /\ socket # "open" => \A i \in 1..Len(writes) : writes[i].state # "pending"

\* Nothing is connected or written at first.
LEMMA InitLink == Init => LinkInv
<1> SUFFICES ASSUME Init PROVE LinkInv
    OBVIOUS
<1>1. ops["connect"]["ok"] = 0
      BY DEF Init, Put, NoOps, Ops, States
<1>2. ~connected /\ Len(writes) = 0
      BY DEF Init
<1> QED BY <1>1, <1>2 DEF LinkInv

\* What starting the next read makes of the two counts.
LEMMA NextReadLink ==
    ASSUME OpsInv, NEW o \in SocketOps, ops[o]["ok"] > 0
    PROVE  LET r == Put(Take(ops, o, "ok"), "read", Started) IN
           /\ r \in Counts /\ Total(r, "read") >= 1
           /\ r["connect"]["ok"] = IF o = "connect" THEN ops["connect"]["ok"] - 1 ELSE ops["connect"]["ok"]
<1> DEFINE q == Take(ops, o, "ok")
<1>1. o \in Ops /\ "read" \in Ops /\ "ok" \in States /\ Started \in States /\ ops \in Counts
      BY DEF OpsInv, SocketOps, Ops, States, Started
<1>2. /\ q \in Counts
      /\ \A p \in Ops, r \in States : q[p][r] = IF p = o /\ r = "ok" THEN ops[p][r] - 1 ELSE ops[p][r]
      BY <1>1, TakeCounts, SMTT(20)
<1> HIDE DEF q
<1> DEFINE c == Put(q, "read", Started)
<1>3. /\ c \in Counts
      /\ \A p \in Ops, r \in States : c[p][r] = IF p = "read" /\ r = Started THEN q[p][r] + 1 ELSE q[p][r]
      BY <1>1, <1>2, PutCounts, SMTT(20)
<1> HIDE DEF c
<1>4. c["connect"]["ok"] = IF o = "connect" THEN ops["connect"]["ok"] - 1 ELSE ops["connect"]["ok"]
      BY <1>1, <1>2, <1>3 DEF Ops, States
<1>5. c["read"][Started] = q["read"][Started] + 1 /\ q["read"][Started] \in Nat
      BY <1>1, <1>2, <1>3 DEF Counts
<1>6. c["read"]["pending"] \in Nat /\ c["read"]["ok"] \in Nat /\ c["read"]["err"] \in Nat
      BY <1>1, <1>3, CountsNat
<1>7. Total(c, "read") >= 1
      BY <1>1, <1>5, <1>6 DEF Total, States
<1> QED BY <1>3, <1>4, <1>7 DEF c, q

\* schedule_reconnect() ends the connection: what it is called with are the
\* operations without the handler's, and writes of which there are no more.
LEMMA ScheduleLink ==
    ASSUME LinkInv, QueueTypes, NEW q \in Counts, q["connect"]["ok"] <= ops["connect"]["ok"], ops \in Counts,
           NEW w \in Seq(Writes), Len(w) <= Len(writes), schedule_reconnect(q, w)
    PROVE  LinkInv'
<1>1. /\ ops'["connect"]["ok"] = q["connect"]["ok"]
      BY ScheduleCounts DEF schedule_reconnect, SocketOps
<1>2. /\ Len(writes') = Len(w) /\ writes' \in Seq(Writes)
      /\ \A i \in 1..Len(w) : writes'[i].state # "pending"
      BY AbortedWrites DEF schedule_reconnect
<1>3. connected' = FALSE
      BY DEF schedule_reconnect
<1>4. q["connect"]["ok"] \in Nat /\ ops["connect"]["ok"] \in Nat
      BY CountsNat DEF Ops
<1>5. writes = <<>> => writes' = <<>>
  <2>1. Len(w) \in Nat /\ Len(writes) \in Nat
        BY DEF QueueTypes
  <2>2. writes = <<>> => Len(writes) = 0
        OBVIOUS
  <2>3. writes = <<>> => Len(writes') = 0
        BY <1>2, <2>1, <2>2
  <2> QED BY <1>2, <2>3, EmptySeq, Zenon
<1> QED BY <1>1, <1>2, <1>3, <1>4, <1>5 DEF LinkInv

\* Aborting the writes where the operations keep their totals: connect() and
\* the function that disconnect() posts.
LEMMA ClosedLink ==
    ASSUME LinkInv, QueueTypes, ops \in Counts, writes' = AbortWrites(writes), connected' \in {connected, FALSE},
           ops'["connect"]["ok"] = ops["connect"]["ok"], Total(ops', "read") = Total(ops, "read")
    PROVE  LinkInv'
<1>1. /\ Len(writes') = Len(writes) /\ writes' \in Seq(Writes)
      /\ \A i \in 1..Len(writes) : writes'[i].state # "pending"
  <2>1. writes \in Seq(Writes)
        BY DEF QueueTypes
  <2> QED BY <2>1, AbortedWrites
<1>2. writes = <<>> => writes' = <<>>
  <2>1. writes = <<>> => Len(writes') = 0
        BY <1>1
  <2> QED BY <1>1, <2>1, EmptySeq, Zenon
<1>3. connected' => connected
      BY Zenon DEF QueueTypes
<1>4. Total(ops, "read")' = Total(ops', "read")
      BY DEF Total
<1> QED BY <1>1, <1>2, <1>3, <1>4 DEF LinkInv

\* A step that leaves the connection, the two counts and the writes alone.
LEMMA LinkFrame ==
    ASSUME LinkInv, UNCHANGED <<connected, socket, writes>>,
           ops'["connect"]["ok"] = ops["connect"]["ok"], Total(ops', "read") = Total(ops, "read")
    PROVE  LinkInv'
BY DEF LinkInv, Total

\* An operation taken, by a handler that schedules a reconnection.
LEMMA TakenLink ==
    ASSUME ops \in Counts, NEW o \in Ops, NEW s \in States, ops[o][s] > 0
    PROVE  Take(ops, o, s) \in Counts /\ Take(ops, o, s)["connect"]["ok"] <= ops["connect"]["ok"]
<1>1. /\ Take(ops, o, s) \in Counts
      /\ \A p \in Ops, r \in States : Take(ops, o, s)[p][r] = IF p = o /\ r = s THEN ops[p][r] - 1 ELSE ops[p][r]
      BY TakeCounts, SMTT(20)
<1>2. "connect" \in Ops /\ "ok" \in States /\ ops["connect"]["ok"] \in Nat
      BY CountsNat DEF Ops, States
<1> QED BY <1>1, <1>2

\* The connect handler: the one attempt that has succeeded is taken.
LEMMA ConnectHandlerLink == OpsInv /\ LinkInv /\ QueueTypes /\ ConnectHandler => LinkInv'
<1> SUFFICES ASSUME OpsInv, LinkInv, QueueTypes, ConnectHandler PROVE LinkInv'
    OBVIOUS
<1>0. ops \in Counts /\ writes \in Seq(Writes) /\ Len(writes) \in Nat
      BY DEF OpsInv, QueueTypes
<1>1. CASE /\ ops["connect"]["ok"] > 0 /\ ops' = Rearm(Put(Take(ops, "connect", "ok"), "read", Started), "heartbeat")
           /\ UNCHANGED <<socket, writes>>
  <2> DEFINE r == Put(Take(ops, "connect", "ok"), "read", Started)
  <2>1. r \in Counts /\ Total(r, "read") >= 1 /\ r["connect"]["ok"] = ops["connect"]["ok"] - 1
        BY <1>1, NextReadLink DEF SocketOps
  <2> HIDE DEF r
  <2>2. ops'["connect"]["ok"] = r["connect"]["ok"] /\ Total(ops, "read")' = Total(r, "read")
        BY <1>1, <2>1, HeartbeatRearmed, CountsNat DEF r, Ops, States
  <2>3. ops["connect"]["ok"] \in Nat /\ ops["connect"]["ok"] <= 1
        BY <1>0, CountsNat DEF LinkInv, Ops
  <2>4. ops'["connect"]["ok"] = 0 /\ Total(ops, "read")' >= 1
        BY <1>1, <2>1, <2>2, <2>3
  <2> QED BY <1>1, <2>4 DEF LinkInv
<1>2. CASE ops["connect"]["err"] > 0 /\ schedule_reconnect(Take(ops, "connect", "err"), writes)
  <2>1. Take(ops, "connect", "err") \in Counts /\ Take(ops, "connect", "err")["connect"]["ok"] <= ops["connect"]["ok"]
        BY <1>0, <1>2, TakenLink DEF Ops, States
  <2>2. Len(writes) <= Len(writes)
        BY <1>0
  <2> QED BY <1>0, <1>2, <2>1, <2>2, ScheduleLink
<1> QED BY <1>1, <1>2, Zenon DEF ConnectHandler, ConnectFailed

\* The handlers of the receive loop go on or end the connection.
LEMMA ReadHandlerLink == OpsInv /\ LinkInv /\ QueueTypes /\ ReadHandler => LinkInv'
<1> SUFFICES ASSUME OpsInv, LinkInv, QueueTypes, ReadHandler PROVE LinkInv'
    OBVIOUS
<1>0. ops \in Counts /\ writes \in Seq(Writes) /\ Len(writes) \in Nat
      BY DEF OpsInv, QueueTypes
<1>1. CASE \E s \in {"ok", "err"} : ops["read"][s] > 0 /\ schedule_reconnect(Take(ops, "read", s), writes)
  <2>1. PICK s \in {"ok", "err"} : ops["read"][s] > 0 /\ schedule_reconnect(Take(ops, "read", s), writes)
        BY <1>1
  <2>2. Take(ops, "read", s) \in Counts /\ Take(ops, "read", s)["connect"]["ok"] <= ops["connect"]["ok"]
        BY <1>0, <2>1, TakenLink DEF Ops, States
  <2>3. Len(writes) <= Len(writes)
        BY <1>0
  <2> QED BY <1>0, <2>1, <2>2, <2>3, ScheduleLink
<1>2. CASE /\ ops["read"]["ok"] > 0 /\ ops' = Put(Take(ops, "read", "ok"), "read", Started)
           /\ UNCHANGED <<socket, connected, writes>>
  <2>1. Total(ops', "read") >= 1 /\ ops'["connect"]["ok"] = ops["connect"]["ok"]
        BY <1>2, NextReadLink DEF SocketOps
  <2>2. Total(ops, "read")' = Total(ops', "read")
        BY DEF Total
  <2> QED BY <1>2, <2>1, <2>2 DEF LinkInv
<1> QED BY <1>1, <1>2, Zenon DEF ReadHandler, ReadFailed

\* The handler of reconnect_timer and the function that disconnect() posts.
LEMMA CloseHandlersLink == OpsInv /\ LinkInv /\ QueueTypes /\ (ReconnectHandler \/ DisconnectHandler) => LinkInv'
<1> SUFFICES ASSUME OpsInv, LinkInv, QueueTypes, ReconnectHandler \/ DisconnectHandler PROVE LinkInv'
    OBVIOUS
<1>0. ops \in Counts
      BY DEF OpsInv
<1>1. CASE ReconnectHandler
  <2>1. PICK s \in {"ok", "err"} : /\ ops["reconnect"][s] > 0
                                   /\ ops' = Put(Cancel(Take(ops, "reconnect", s), SocketOps), "connect", "pending")
        BY <1>1, Zenon DEF ReconnectHandler
  <2>2. writes' = AbortWrites(writes) /\ UNCHANGED connected
        BY <1>1 DEF ReconnectHandler
  <2> DEFINE q == Take(ops, "reconnect", s)
  <2>3. /\ q \in Counts
        /\ \A p \in Ops, r \in States : q[p][r] = IF p = "reconnect" /\ r = s THEN ops[p][r] - 1 ELSE ops[p][r]
        BY <1>0, <2>1, TakeCounts, SMTT(20) DEF Ops, States
  <2> HIDE DEF q
  <2> DEFINE c == Cancel(q, SocketOps)
  <2>4. /\ c \in Counts
        /\ \A p \in SocketOps : /\ c[p]["pending"] = 0 /\ c[p]["ok"] = q[p]["ok"]
                                /\ c[p]["err"] = q[p]["err"] + q[p]["pending"]
        BY <2>3, CancelCounts DEF SocketOps, Ops
  <2> HIDE DEF c
  <2>5. \A p \in Ops, r \in States : ops'[p][r] = IF p = "connect" /\ r = "pending" THEN c[p][r] + 1 ELSE c[p][r]
    <3>1. ops' = Put(c, "connect", "pending")
          BY <2>1, Zenon DEF c, q
    <3>2. "connect" \in Ops /\ "pending" \in States
          BY DEF Ops, States
    <3> QED BY <2>4, <3>1, <3>2, PutCounts
  <2>6. ops'["connect"]["ok"] = ops["connect"]["ok"]
        BY <2>3, <2>4, <2>5 DEF SocketOps, Ops, States
  <2>7. Total(ops', "read") = Total(c, "read") /\ Total(q, "read") = Total(ops, "read")
        BY <2>3, <2>5 DEF Total, Ops, States
  <2>8. Total(c, "read") = Total(q, "read")
        BY <2>3, <2>4, CountsNat DEF Total, SocketOps, Ops
  <2> QED BY <1>0, <2>2, <2>6, <2>7, <2>8, ClosedLink
<1>2. CASE DisconnectHandler
  <2>1. ops' = Cancel(ops, Ops) /\ writes' = AbortWrites(writes) /\ connected' = FALSE
        BY <1>2 DEF DisconnectHandler
  <2>2. \A p \in Ops : /\ ops'[p]["pending"] = 0 /\ ops'[p]["ok"] = ops[p]["ok"]
                       /\ ops'[p]["err"] = ops[p]["err"] + ops[p]["pending"]
        BY <1>0, <2>1, CancelCounts
  <2>3. ops'["connect"]["ok"] = ops["connect"]["ok"] /\ Total(ops', "read") = Total(ops, "read")
        BY <1>0, <2>2, CountsNat DEF Total, Ops
  <2> QED BY <1>0, <2>1, <2>3, ClosedLink, Zenon
<1> QED BY <1>1, <1>2

\* The handler of async_write: if an attempt had succeeded there would be no write.
LEMMA WriteHandlerLink == OpsInv /\ LinkInv /\ QueueTypes /\ WriteHandler => LinkInv'
<1> SUFFICES ASSUME OpsInv, LinkInv, QueueTypes, WriteHandler PROVE LinkInv'
    OBVIOUS
<1>1. PICK i \in DOMAIN writes :
          \/ schedule_reconnect(ops, Without(writes, i))
          \/ writes' = Without(writes, i) /\ UNCHANGED <<socket, connected, ops>>
      BY Zenon DEF WriteHandler
<1>2. ops \in Counts /\ writes \in Seq(Writes) /\ Len(writes) \in Nat /\ ops["connect"]["ok"] \in Nat
      BY CountsNat DEF OpsInv, QueueTypes, Ops
<1>3. /\ Without(writes, i) \in Seq(Writes) /\ Len(Without(writes, i)) = Len(writes) - 1
      /\ \A j \in 1..(Len(writes) - 1) : \E k \in 1..Len(writes) : Without(writes, i)[j] = writes[k]
      BY <1>2, OneWriteLess, Zenon
<1>4. CASE schedule_reconnect(ops, Without(writes, i))
  <2>1. Len(Without(writes, i)) <= Len(writes) /\ ops["connect"]["ok"] <= ops["connect"]["ok"]
        BY <1>2, <1>3
  <2> QED BY <1>2, <1>3, <1>4, <2>1, ScheduleLink, Zenon
<1>5. CASE writes' = Without(writes, i) /\ UNCHANGED <<socket, connected, ops>>
  <2>1. writes # <<>>
        BY <1>2
  <2>2. ~(ops["connect"]["ok"] > 0)
        BY <2>1 DEF LinkInv
  <2>3. socket # "open" => \A j \in 1..Len(writes') : writes'[j].state # "pending"
        BY <1>3, <1>5 DEF LinkInv
  <2> QED BY <1>5, <2>2, <2>3 DEF LinkInv, Total
<1> QED BY <1>1, <1>4, <1>5

\* The handler of heartbeat_timer touches neither count.
LEMMA HeartbeatHandlerLink == OpsInv /\ LinkInv /\ HeartbeatHandler => LinkInv'
<1> SUFFICES ASSUME OpsInv, LinkInv, HeartbeatHandler PROVE LinkInv'
    OBVIOUS
<1>1. UNCHANGED <<connected, socket, writes>>
      BY DEF HeartbeatHandler
<1>2. PICK s \in {"ok", "err"} : /\ ops["heartbeat"][s] > 0
                                 /\ \/ ops' = Take(ops, "heartbeat", s)
                                    \/ ops' = Rearm(Take(ops, "heartbeat", s), "heartbeat")
      BY DEF HeartbeatHandler
<1>3. ops \in Counts /\ "heartbeat" \in Ops /\ s \in States
      BY DEF OpsInv, Ops, States
<1> DEFINE q == Take(ops, "heartbeat", s)
<1>4. /\ q \in Counts
      /\ \A p \in Ops, r \in States : q[p][r] = IF p = "heartbeat" /\ r = s THEN ops[p][r] - 1 ELSE ops[p][r]
      BY <1>2, <1>3, TakeCounts, SMTT(20)
<1> HIDE DEF q
<1>5. \A p \in {"connect", "read"}, r \in States : q[p][r] = ops[p][r]
      BY <1>4 DEF Ops, States
<1>6. \A p \in {"connect", "read"}, r \in States : ops'[p][r] = q[p][r]
  <2>1. CASE ops' = q
        BY <2>1
  <2>2. CASE ops' = Rearm(q, "heartbeat")
        BY <1>4, <2>2, HeartbeatRearmed, CountsNat DEF Ops
  <2> QED BY <1>2, <2>1, <2>2 DEF q
<1>7. ops'["connect"]["ok"] = ops["connect"]["ok"] /\ Total(ops', "read") = Total(ops, "read")
      BY <1>5, <1>6 DEF Total, States
<1> QED BY <1>1, <1>7, LinkFrame

\* The network or the clock completes an operation.  An attempt that succeeds
\* had its socket closed before, and every handler of the last connection has run.
LEMMA CompleteLink ==
    ASSUME OpsInv, LinkInv, QueueTypes, NEW o \in Ops, NEW s \in {"ok", "err"}, Complete(o, s),
           \/ ~(o = "connect" /\ s = "ok") /\ UNCHANGED socket
           \/ o = "connect" /\ s = "ok" /\ socket' = "open" /\ Quiet
    PROVE  LinkInv'
<1> DEFINE q == Take(ops, o, "pending")
<1>1. ops \in Counts /\ s \in States /\ "pending" \in States /\ ops[o]["pending"] > 0
      BY DEF OpsInv, States, Complete
<1>2. /\ q \in Counts
      /\ \A p \in Ops, r \in States : q[p][r] = IF p = o /\ r = "pending" THEN ops[p][r] - 1 ELSE ops[p][r]
      BY <1>1, TakeCounts, SMTT(20)
<1> HIDE DEF q
<1>3. /\ Put(q, o, s) \in Counts
      /\ \A p \in Ops, r \in States : Put(q, o, s)[p][r] = IF p = o /\ r = s THEN q[p][r] + 1 ELSE q[p][r]
      BY <1>1, <1>2, PutCounts
<1>4. ops' = Put(q, o, s) /\ UNCHANGED <<connected, writes>>
      BY DEF Complete, q
<1>5. /\ ops["read"]["pending"] \in Nat /\ ops["read"]["ok"] \in Nat /\ ops["read"]["err"] \in Nat
      /\ ops["connect"]["pending"] \in Nat /\ ops["connect"]["ok"] \in Nat
      BY <1>1, CountsNat DEF Ops
<1>6. Total(ops', "read") = Total(ops, "read")
  <2>1. CASE o = "read"
    <3>1. /\ ops'["read"]["pending"] = ops["read"]["pending"] - 1
          /\ ops'["read"]["ok"] = IF s = "ok" THEN ops["read"]["ok"] + 1 ELSE ops["read"]["ok"]
          /\ ops'["read"]["err"] = IF s = "err" THEN ops["read"]["err"] + 1 ELSE ops["read"]["err"]
          BY <1>2, <1>3, <1>4, <2>1 DEF Ops, States
    <3> QED BY <1>5, <3>1 DEF Total
  <2>2. CASE o # "read"
        BY <1>2, <1>3, <1>4, <2>2 DEF Total, Ops, States
  <2> QED BY <2>1, <2>2
<1>7. CASE ~(o = "connect" /\ s = "ok") /\ UNCHANGED socket
  <2>1. ops'["connect"]["ok"] = ops["connect"]["ok"]
        BY <1>2, <1>3, <1>4, <1>7 DEF Ops, States
  <2> QED BY <1>4, <1>6, <1>7, <2>1, LinkFrame
<1>8. CASE o = "connect" /\ s = "ok" /\ socket' = "open" /\ Quiet
  <2>1. ops'["connect"]["ok"] = ops["connect"]["ok"] + 1
        BY <1>2, <1>3, <1>4, <1>8 DEF Ops, States
  <2>2. ops["connect"]["ok"] = 0 /\ ops["read"]["ok"] = 0 /\ ops["read"]["err"] = 0
        BY <1>8 DEF Quiet, Ops
  <2>3. socket = "connecting" /\ ops["read"]["pending"] = 0
        BY <1>1, <1>5, <1>8 DEF OpsInv
  <2>4. ~connected
        BY <2>2, <2>3 DEF LinkInv, Total
  <2>5. writes = <<>>
    <3>1. writes \in Seq(Writes) /\ Len(writes) \in Nat /\ DOMAIN writes = 1..Len(writes)
          BY DEF QueueTypes
    <3>2. \A i \in 1..Len(writes) : writes[i].state = "pending" /\ writes[i].state # "pending"
          BY <1>8, <2>3, <3>1, Zenon DEF Quiet, LinkInv
    <3>3. Len(writes) = 0
          BY <3>1, <3>2
    <3> QED BY <3>1, <3>3, EmptySeq, Zenon
  <2> QED BY <1>4, <1>8, <2>1, <2>2, <2>4, <2>5 DEF LinkInv
<1> QED BY <1>7, <1>8

\* flush_queue() and the network add and complete writes.
LEMMA WritesLink ==
    ASSUME OpsInv, LinkInv, QueueTypes, (\E t \in Threads : flush_queue(t)) \/ WriteEnds("ok") \/ WriteEnds("err")
    PROVE  LinkInv'
<1>1. UNCHANGED <<connected, socket, ops>>
      BY Zenon DEF flush_queue, WriteEnds, transport
<1>2. writes \in Seq(Writes) /\ Len(writes) \in Nat /\ DOMAIN writes = 1..Len(writes)
      BY DEF QueueTypes
<1>3. ops["connect"]["ok"] \in Nat
      BY CountsNat DEF OpsInv, Ops
<1>4. CASE UNCHANGED writes
      BY <1>1, <1>4, LinkFrame
<1>5. CASE connected /\ queue # <<>> /\ async_write(Head(queue))
  <2>1. ~(ops["connect"]["ok"] > 0)
        BY <1>5 DEF LinkInv
  <2>2. Head(queue) \in Nat
        BY <1>5 DEF QueueTypes
  <2>3. PICK w \in Writes : /\ writes' = Append(writes, w)
                            /\ socket # "open" => w.state # "pending"
        BY <1>5, <2>2, WriteStarts, Zenon
  <2>4. writes' = Append(writes, w)
        BY <2>3, Zenon
  <2>5. /\ Len(writes') = Len(writes) + 1 /\ writes'[Len(writes) + 1] = w
        /\ \A i \in 1..Len(writes) : writes'[i] = writes[i]
        BY <1>2, <2>4
  <2>6. ASSUME socket # "open", NEW i \in 1..Len(writes') PROVE writes'[i].state # "pending"
    <3>1. i \in 1..Len(writes) \/ i = Len(writes) + 1
          BY <1>2, <2>5
    <3>2. i \in 1..Len(writes) => writes'[i] = writes[i] /\ writes[i].state # "pending"
          BY <2>5, <2>6, Zenon DEF LinkInv
    <3>3. w.state # "pending"
          BY <2>3, <2>6, Zenon
    <3> QED BY <2>5, <3>1, <3>2, <3>3, Zenon
  <2> QED BY <1>1, <2>1, <2>6 DEF LinkInv, Total
<1>6. ASSUME NEW s \in {"ok", "err"}, NEW i \in DOMAIN writes, writes' = [writes EXCEPT ![i].state = s]
      PROVE  LinkInv'
  <2>1. writes # <<>>
        BY <1>2
  <2>2. Len(writes') = Len(writes) /\ \A j \in 1..Len(writes) : writes'[j].state \in {s, writes[j].state}
    <3>1. \A j \in 1..Len(writes) : writes[j] \in Writes
          BY <1>2
    <3>2. \A j \in 1..Len(writes) : writes'[j] = IF j = i THEN [writes[j] EXCEPT !.state = s] ELSE writes[j]
          BY <1>2, <1>6, Zenon
    <3>3. [writes[i] EXCEPT !.state = s].state = s
          BY <1>2, <3>1 DEF Writes
    <3>4. Len(writes') = Len(writes)
          BY <1>2, <1>6
    <3> QED BY <1>2, <3>2, <3>3, <3>4, Zenon
  <2> QED BY <1>1, <2>1, <2>2 DEF LinkInv, Total
<1>7. \/ UNCHANGED writes \/ (connected /\ queue # <<>> /\ async_write(Head(queue)))
      \/ \E s \in {"ok", "err"}, i \in DOMAIN writes : writes' = [writes EXCEPT ![i].state = s]
      BY Zenon DEF flush_queue, WriteEnds
<1> QED BY <1>4, <1>5, <1>6, <1>7, Zenon

\* Every step keeps the invariant of the connection.
LEMMA NextLink == OpsInv /\ QueueTypes /\ LinkInv /\ [Next]_vars => LinkInv'
<1> SUFFICES ASSUME OpsInv, QueueTypes, LinkInv, [Next]_vars PROVE LinkInv'
    OBVIOUS
<1>0. "io" \in Threads /\ "stdin" \in Threads
      BY DEF Threads
<1>1. ASSUME UNCHANGED <<connected, socket, writes, ops>> PROVE LinkInv'
      BY <1>1 DEF LinkInv, Total
<1>2. ASSUME NEW t, push(t) \/ size(t) PROVE LinkInv'
      BY <1>1, <1>2 DEF push, size, transport
<1>3. LogonHandler \/ Signal \/ send_message \/ LogonTimerExpires \/ Ended \/ UNCHANGED vars => LinkInv'
      BY <1>1 DEF LogonHandler, Signal, send_message, LogonTimerExpires, Ended, vars, transport
<1>4. ConnectSucceeds => LinkInv'
  <2> SUFFICES ASSUME ConnectSucceeds PROVE LinkInv'
      OBVIOUS
  <2>1. Complete("connect", "ok") /\ socket' = "open" /\ Quiet /\ "connect" \in Ops
        BY DEF ConnectSucceeds, Ops
  <2> QED BY <2>1, CompleteLink, Zenon
<1>5. ASSUME NEW o \in Ops, NEW s \in {"ok", "err"}, ~(o = "connect" /\ s = "ok"), Complete(o, s), UNCHANGED socket
      PROVE  LinkInv'
      BY <1>5, CompleteLink, Zenon
<1>6. PacketArrives \/ ReconnectTimerExpires \/ HeartbeatTimerExpires => LinkInv'
      BY <1>5 DEF PacketArrives, ReconnectTimerExpires, HeartbeatTimerExpires, Ops
<1>7. (\E o \in SocketOps : NetworkFails(o)) => LinkInv'
      BY <1>5 DEF NetworkFails, SocketOps, Ops
<1>8. (\E t \in Threads : flush_queue(t)) \/ WriteEnds("ok") \/ WriteEnds("err") => LinkInv'
      BY WritesLink, Zenon
<1> QED BY <1>0, <1>2, <1>3, <1>4, <1>6, <1>7, <1>8, ConnectHandlerLink, ReadHandlerLink, CloseHandlersLink,
           WriteHandlerLink, HeartbeatHandlerLink, Zenon DEF Next, IoOther, StdinThread, Clock

----------------------------------------------------------------------------
(* The order of the packets.  Unless the threads raced, the queue holds the *)
(* packets that are not written, in order; the front of it is the one being *)
(* written, if any; and a thread that is about to call flush_queue(), or to *)
(* find the queue of size one, finds nothing being written.                 *)

Popped == queued - Len(queue)
FrontDone == Len(writes) = 1 /\ writes[1].state = "ok"

QueueOrder ==
    /\ Len(queue) <= queued /\ \A i \in 1..Len(queue) : queue[i] = Popped + i
    /\ Len(sent) = (IF FrontDone THEN Popped + 1 ELSE Popped) /\ \A i \in 1..Len(sent) : sent[i] = i
    /\ Len(writes) <= 1
    /\ Len(writes) = 1 => Len(queue) >= 1 /\ writes[1].packet = Popped + 1
PlacesOrder ==
    /\ \A t \in Threads : pc[t] = "flush" \/ (pc[t] = "size" /\ Len(queue) = 1) => Len(writes) = 0
    /\ pc["io"] = "idle" \/ pc["stdin"] = "idle"
OrderInv == ~raced => QueueOrder /\ PlacesOrder

\* Nothing is queued at first.
LEMMA InitOrder == Init => OrderInv
<1> SUFFICES ASSUME Init PROVE OrderInv
    OBVIOUS
<1>1. Len(queue) = 0 /\ Len(sent) = 0 /\ Len(writes) = 0 /\ queued = 0
      BY DEF Init
<1>2. \A t \in Threads : pc[t] = "idle"
      BY DEF Init
<1>3. QueueOrder
      BY <1>1 DEF QueueOrder, Popped, FrontDone
<1>4. PlacesOrder
      BY <1>1, <1>2 DEF PlacesOrder, Threads
<1> QED BY <1>3, <1>4 DEF OrderInv

\* A thread that moves while the other is idle does not race; if the other is
\* not idle, raced is set.
LEMMA MovedAlone ==
    ASSUME pc \in [Threads -> Places], NEW t \in Threads, NEW l \in Places, Goto(t, l), ~raced', l # "idle"
    PROVE  ~raced /\ pc'[t] = l /\ \A u \in Threads \ {t} : pc'[u] = pc[u] /\ pc[u] = "idle"
BY Zenon DEF Goto, Threads

\* A thread that becomes idle leaves the other where it is.
LEMMA MovedIdle ==
    ASSUME pc \in [Threads -> Places], NEW t \in Threads, Goto(t, "idle"), ~raced'
    PROVE  ~raced /\ pc'[t] = "idle" /\ \A u \in Threads \ {t} : pc'[u] = pc[u]
BY Zenon DEF Goto, Threads

\* The order does not depend on how many of the writes are pending or failed.
LEMMA SameOrder ==
    ASSUME QueueOrder, UNCHANGED <<queue, queued, sent>>, Len(writes') = Len(writes),
           \A i \in 1..Len(writes) : /\ writes'[i].packet = writes[i].packet
                                     /\ writes'[i].state = "ok" <=> writes[i].state = "ok"
    PROVE  QueueOrder'
<1>1. Len(writes) = 1 => /\ writes'[1].packet = writes[1].packet
                         /\ writes'[1].state = "ok" <=> writes[1].state = "ok"
      OBVIOUS
<1>2. FrontDone' <=> FrontDone
      BY <1>1 DEF FrontDone
<1>3. Popped' = Popped
      BY DEF Popped
<1> QED BY <1>1, <1>2, <1>3 DEF QueueOrder

\* Closing the socket, connecting anew and steps elsewhere keep the order.
LEMMA OrderFrame ==
    ASSUME OrderInv, UNCHANGED <<queue, queued, sent, pc, raced>>, QueueTypes,
           writes' = writes \/ writes' = AbortWrites(writes)
    PROVE  OrderInv'
<1> SUFFICES ASSUME ~raced PROVE QueueOrder' /\ PlacesOrder'
    BY Zenon DEF OrderInv
<1>1. writes \in Seq(Writes)
      BY DEF QueueTypes
<1>2. /\ Len(writes') = Len(writes)
      /\ \A i \in 1..Len(writes) : /\ writes'[i].packet = writes[i].packet
                                   /\ writes'[i].state = "ok" <=> writes[i].state = "ok"
  <2>1. CASE writes' = writes
        BY <2>1
  <2>2. CASE writes' = AbortWrites(writes)
        BY <1>1, <2>2, AbortedWrites
  <2> QED BY <2>1, <2>2
<1>3. QueueOrder /\ PlacesOrder
      BY DEF OrderInv
<1>4. QueueOrder'
      BY <1>2, <1>3, SameOrder, Zenon
<1>5. PlacesOrder'
      BY <1>2, <1>3 DEF PlacesOrder
<1> QED BY <1>4, <1>5

\* send_packet_impl() is entered: the thread is alone at work on the queue.
LEMMA EnterOrder ==
    ASSUME OrderInv, QueueTypes, NEW t \in Threads, EnterSend(t), UNCHANGED <<queue, queued, sent, writes>>
    PROVE  OrderInv'
<1> SUFFICES ASSUME ~raced' PROVE QueueOrder' /\ PlacesOrder'
    BY DEF OrderInv
<1>1. PICK l \in {"send", "store"} : Goto(t, l)
      BY DEF EnterSend
<1>2. ~raced /\ pc'[t] = l /\ \A u \in Threads \ {t} : pc'[u] = pc[u] /\ pc[u] = "idle"
      BY <1>1, MovedAlone DEF QueueTypes, Places
<1>3. QueueOrder'
      BY <1>2, SameOrder DEF OrderInv
<1>4. PlacesOrder'
      BY <1>2 DEF PlacesOrder, Threads
<1> QED BY <1>3, <1>4

\* The packet that is pushed has the next number.
LEMMA PushOrder ==
    ASSUME OrderInv, QueueTypes, NEW t \in Threads, push(t)
    PROVE  OrderInv'
<1> SUFFICES ASSUME ~raced' PROVE QueueOrder' /\ PlacesOrder'
    BY DEF OrderInv
<1>1. PICK l \in {"size", "idle"} : Goto(t, l)
      BY Zenon DEF push
<1>2. ~raced /\ pc'[t] = l /\ \A u \in Threads \ {t} : pc'[u] = pc[u]
      BY <1>1, MovedAlone, MovedIdle DEF QueueTypes, Places
<1>3. QueueOrder /\ PlacesOrder
      BY <1>2 DEF OrderInv
<1>4. pc[t] # "idle"
      BY DEF push
<1>5. \A u \in Threads \ {t} : pc[u] = "idle"
      BY <1>3, <1>4 DEF PlacesOrder, Threads
<1>6. queued' = queued + 1 /\ queue' = Append(queue, queued + 1) /\ UNCHANGED <<writes, sent>>
      BY DEF push, history
<1>7. queue \in Seq(Nat) /\ Len(queue) \in Nat /\ queued \in Nat /\ Len(writes) \in Nat
      BY DEF QueueTypes
<1>8. /\ Len(queue') = Len(queue) + 1 /\ queue'[Len(queue) + 1] = queued + 1
      /\ \A i \in 1..Len(queue) : queue'[i] = queue[i]
      BY <1>6, <1>7
<1>9. Popped' = Popped /\ Popped \in Nat
      BY <1>3, <1>6, <1>7, <1>8 DEF Popped, QueueOrder
<1>10. QueueOrder'
  <2>1. ASSUME NEW i \in 1..Len(queue') PROVE queue'[i] = Popped' + i
    <3>1. i \in 1..Len(queue) \/ i = Len(queue) + 1
          BY <1>7, <1>8
    <3>2. CASE i \in 1..Len(queue)
          BY <1>3, <1>8, <1>9, <3>2 DEF QueueOrder
    <3>3. CASE i = Len(queue) + 1
          BY <1>7, <1>8, <1>9, <3>3 DEF Popped
    <3> QED BY <3>1, <3>2, <3>3
  <2>2. Len(queue') <= queued' /\ Len(queue') >= 1
        BY <1>3, <1>6, <1>7, <1>8 DEF QueueOrder
  <2>3. FrontDone' <=> FrontDone
        BY <1>6 DEF FrontDone
  <2> QED BY <1>3, <1>6, <1>9, <2>1, <2>2, <2>3 DEF QueueOrder
<1>11. PlacesOrder'
  <2>1. Len(queue') = 1 => Len(writes) = 0
    <3>1. Len(writes) <= 1 /\ (Len(writes) = 1 => Len(queue) >= 1)
          BY <1>3 DEF QueueOrder
    <3>2. Len(queue) \in Nat /\ Len(writes) \in Nat /\ Len(queue') = Len(queue) + 1
          BY <1>7, <1>8, Zenon
    <3> QED BY <3>1, <3>2
  <2>2. UNCHANGED writes /\ pc'[t] \in {"size", "idle"}
        BY <1>2, <1>6
  <2> QED BY <1>2, <1>5, <2>1, <2>2 DEF PlacesOrder, Threads
<1> QED BY <1>10, <1>11

\* A queue of size one has nothing being written.
LEMMA SizeOrder ==
    ASSUME OrderInv, QueueTypes, NEW t \in Threads, size(t)
    PROVE  OrderInv'
<1> SUFFICES ASSUME ~raced' PROVE QueueOrder' /\ PlacesOrder'
    BY DEF OrderInv
<1>1. PICK l \in {"flush", "idle"} : Goto(t, l) /\ (l = "flush" => Len(queue) = 1)
      BY DEF size
<1>2. ~raced /\ pc'[t] = l /\ \A u \in Threads \ {t} : pc'[u] = pc[u]
      BY <1>1, MovedAlone, MovedIdle DEF QueueTypes, Places
<1>3. QueueOrder /\ PlacesOrder
      BY <1>2 DEF OrderInv
<1>4. pc[t] = "size" /\ UNCHANGED <<writes, queue, queued, sent>>
      BY DEF size, history
<1>5. QueueOrder'
      BY <1>3, <1>4, SameOrder
<1>6. PlacesOrder'
  <2>1. l = "flush" => Len(writes) = 0
        BY <1>1, <1>3, <1>4 DEF PlacesOrder
  <2>2. \A u \in Threads \ {t} : pc'[u] = "idle"
        BY <1>2, <1>3, <1>4 DEF PlacesOrder, Threads
  <2> QED BY <1>2, <1>4, <2>1, <2>2 DEF PlacesOrder, Threads
<1> QED BY <1>5, <1>6

\* flush_queue() starts the write of the front, when nothing is being written.
LEMMA FlushOrder ==
    ASSUME OrderInv, QueueTypes, NEW t \in Threads, flush_queue(t)
    PROVE  OrderInv'
<1> SUFFICES ASSUME ~raced' PROVE QueueOrder' /\ PlacesOrder'
    BY DEF OrderInv
<1>1. Goto(t, "idle") /\ UNCHANGED <<queue, queued>> /\ pc[t] = "flush"
      BY DEF flush_queue
<1>2. ~raced /\ pc'[t] = "idle" /\ \A u \in Threads \ {t} : pc'[u] = pc[u]
      BY <1>1, MovedIdle DEF QueueTypes
<1>3. QueueOrder /\ PlacesOrder
      BY <1>2 DEF OrderInv
<1>4. \A u \in Threads : pc'[u] = "idle"
      BY <1>1, <1>2, <1>3 DEF PlacesOrder, Threads
<1>5. PlacesOrder'
      BY <1>4 DEF PlacesOrder, Threads
<1>6. CASE UNCHANGED <<writes, sent>>
      BY <1>1, <1>3, <1>5, <1>6, SameOrder
<1>7. CASE queue # <<>> /\ async_write(Head(queue))
  <2>1. /\ queue \in Seq(Nat) /\ Len(queue) \in Nat /\ queued \in Nat /\ sent \in Seq(Nat)
        /\ writes \in Seq(Writes) /\ Len(sent) \in Nat
        BY DEF QueueTypes
  <2>2. Len(writes) = 0 /\ Len(queue) >= 1 /\ Head(queue) = queue[1]
        BY <1>1, <1>3, <1>7, <2>1 DEF PlacesOrder
  <2>3. Head(queue) = Popped + 1 /\ Popped \in Nat /\ Popped' = Popped
        BY <1>1, <1>3, <2>1, <2>2 DEF QueueOrder, Popped
  <2>4. PICK w \in Writes : /\ w.packet = Head(queue) /\ writes' = Append(writes, w)
                            /\ sent' = IF w.state = "ok" THEN Append(sent, Head(queue)) ELSE sent
    <3>1. Head(queue) \in Nat
          BY <2>3
    <3> QED BY <1>7, <3>1, WriteStarts, Zenon
  <2>5. Len(writes') = 1 /\ writes'[1] = w
        BY <2>1, <2>2, <2>4
  <2>6. Len(sent) = Popped /\ \A i \in 1..Len(sent) : sent[i] = i
        BY <1>3, <2>2 DEF QueueOrder, FrontDone
  <2>7. FrontDone' <=> w.state = "ok"
        BY <2>5 DEF FrontDone
  <2>8. Len(sent') = (IF FrontDone' THEN Popped' + 1 ELSE Popped') /\ \A i \in 1..Len(sent') : sent'[i] = i
    <3>1. CASE w.state = "ok"
      <4>1. sent' = Append(sent, Popped + 1)
            BY <2>3, <2>4, <3>1
      <4> QED BY <2>1, <2>3, <2>6, <2>7, <3>1, <4>1
    <3>2. CASE w.state # "ok"
          BY <2>3, <2>4, <2>6, <2>7, <3>2
    <3> QED BY <3>1, <3>2
  <2>9. QueueOrder'
        BY <1>1, <1>3, <2>2, <2>3, <2>4, <2>5, <2>8 DEF QueueOrder
  <2> QED BY <1>5, <2>9
<1> QED BY <1>6, <1>7, Zenon DEF flush_queue

\* The connect handler flushes the queue with nothing being written; a failed
\* attempt only closes the socket.
LEMMA ConnectOrder ==
    ASSUME OpsInv, LinkInv, OrderInv, QueueTypes, ConnectHandler
    PROVE  OrderInv'
<1>1. UNCHANGED <<queue, queued, sent>>
      BY DEF ConnectHandler, history
<1>2. CASE ops["connect"]["ok"] > 0 /\ Goto("io", "flush") /\ UNCHANGED writes
  <2> SUFFICES ASSUME ~raced' PROVE QueueOrder' /\ PlacesOrder'
      BY DEF OrderInv
  <2>1. ~raced /\ pc'["io"] = "flush" /\ \A u \in Threads \ {"io"} : pc'[u] = pc[u] /\ pc[u] = "idle"
        BY <1>2, MovedAlone DEF QueueTypes, Places, Threads
  <2>2. QueueOrder'
        BY <1>1, <1>2, <2>1, SameOrder DEF OrderInv
  <2>3. Len(writes) = 0
        BY <1>2 DEF LinkInv
  <2> QED BY <1>2, <2>1, <2>2, <2>3 DEF PlacesOrder, Threads
<1>3. CASE schedule_reconnect(Take(ops, "connect", "err"), writes) /\ UNCHANGED <<pc, raced>>
  <2>1. writes' = AbortWrites(writes)
        BY <1>3 DEF schedule_reconnect
  <2> QED BY <1>1, <1>3, <2>1, OrderFrame
<1> QED BY <1>2, <1>3, Zenon DEF ConnectHandler, ConnectFailed

\* The receive loop closes the socket, sends or goes on.
LEMMA ReadOrder ==
    ASSUME OrderInv, QueueTypes, ReadHandler
    PROVE  OrderInv'
<1>1. UNCHANGED <<queue, queued, sent>>
      BY DEF ReadHandler
<1>2. \/ UNCHANGED <<pc, raced>> /\ writes' = AbortWrites(writes)
      \/ UNCHANGED writes /\ (EnterSend("io") \/ UNCHANGED <<pc, raced>>)
      BY Zenon DEF ReadHandler, ReadFailed, schedule_reconnect
<1>3. "io" \in Threads
      BY DEF Threads
<1> QED BY <1>1, <1>2, <1>3, OrderFrame, EnterOrder, Zenon

\* The handler of a completed write pops the packet that was written; that of a
\* failed one leaves it in the queue.
LEMMA WriteOrder ==
    ASSUME OrderInv, QueueTypes, WriteHandler
    PROVE  OrderInv'
<1> SUFFICES ASSUME ~raced' PROVE QueueOrder' /\ PlacesOrder'
    BY DEF OrderInv
<1>1. PICK i \in DOMAIN writes :
          \/ /\ writes[i].state = "err" /\ schedule_reconnect(ops, Without(writes, i))
             /\ UNCHANGED <<queue, pc, raced>>
          \/ /\ writes[i].state = "ok" /\ queue # <<>> /\ writes' = Without(writes, i)
             /\ queue' = Tail(queue) /\ Goto("io", "flush")
          \/ /\ writes[i].state = "ok" /\ queue = <<>> /\ UNCHANGED raced
      BY Zenon DEF WriteHandler
<1>2. UNCHANGED <<queued, sent>>
      BY DEF WriteHandler
<1>3. /\ writes \in Seq(Writes) /\ Len(writes) \in Nat /\ DOMAIN writes = 1..Len(writes)
      /\ queue \in Seq(Nat) /\ Len(queue) \in Nat /\ queued \in Nat /\ Len(sent) \in Nat
      BY DEF QueueTypes
<1>4. ~raced
      BY <1>1, Zenon DEF Goto
<1>5. QueueOrder /\ PlacesOrder
      BY <1>4 DEF OrderInv
<1>6. Len(writes) = 1 /\ i = 1
      BY <1>3, <1>5 DEF QueueOrder
<1>7. Without(writes, i) \in Seq(Writes) /\ Len(Without(writes, i)) = 0
  <2>1. Without(writes, i) \in Seq(Writes) /\ Len(Without(writes, i)) = Len(writes) - 1
        BY <1>3, OneWriteLess, Zenon
  <2> QED BY <1>6, <2>1
<1>8. CASE /\ writes[i].state = "err" /\ schedule_reconnect(ops, Without(writes, i))
           /\ UNCHANGED <<queue, pc, raced>>
  <2>1. Len(writes') = 0
    <3>1. writes' = AbortWrites(Without(writes, i))
          BY <1>8 DEF schedule_reconnect
    <3> QED BY <1>7, <3>1, AbortedWrites, Zenon
  <2>2. ~FrontDone /\ ~FrontDone' /\ Popped' = Popped
        BY <1>2, <1>6, <1>8, <2>1 DEF FrontDone, Popped
  <2>3. QueueOrder'
        BY <1>2, <1>5, <1>8, <2>1, <2>2 DEF QueueOrder
  <2>4. PlacesOrder'
        BY <1>5, <1>8, <2>1 DEF PlacesOrder
  <2> QED BY <2>3, <2>4
<1>9. CASE /\ writes[i].state = "ok" /\ queue # <<>> /\ writes' = Without(writes, i)
           /\ queue' = Tail(queue) /\ Goto("io", "flush")
  <2>1. ~raced /\ pc'["io"] = "flush" /\ \A u \in Threads \ {"io"} : pc'[u] = pc[u] /\ pc[u] = "idle"
        BY <1>9, MovedAlone DEF QueueTypes, Places, Threads
  <2>2. Len(writes') = 0 /\ FrontDone /\ ~FrontDone'
        BY <1>6, <1>7, <1>9 DEF FrontDone
  <2>3. Len(queue') = Len(queue) - 1 /\ Len(queue) >= 1 /\ \A j \in 1..Len(queue') : queue'[j] = queue[j + 1]
        BY <1>3, <1>9
  <2>4. Popped' = Popped + 1 /\ Popped \in Nat
        BY <1>2, <1>3, <1>5, <2>3 DEF Popped, QueueOrder
  <2>5. ASSUME NEW j \in 1..Len(queue') PROVE queue'[j] = Popped' + j
    <3>1. j + 1 \in 1..Len(queue) /\ j \in Nat
          BY <1>3, <2>3
    <3>2. queue[j + 1] = Popped + (j + 1)
          BY <1>5, <3>1 DEF QueueOrder
    <3> QED BY <2>3, <2>4, <3>1, <3>2
  <2>6. QueueOrder'
        BY <1>2, <1>3, <1>5, <2>2, <2>3, <2>4, <2>5 DEF QueueOrder
  <2>7. PlacesOrder'
        BY <2>1, <2>2 DEF PlacesOrder, Threads
  <2> QED BY <2>6, <2>7
<1>10. ~(queue = <<>>)
      BY <1>3, <1>5, <1>6 DEF QueueOrder
<1> QED BY <1>1, <1>8, <1>9, <1>10

\* The one write under way completes, with the packet at the front, or fails.
LEMMA EndsOrder ==
    ASSUME OrderInv, QueueTypes, NEW s \in {"ok", "err"}, WriteEnds(s)
    PROVE  OrderInv'
<1>1. PICK i \in DOMAIN writes : /\ writes[i].state = "pending" /\ writes' = [writes EXCEPT ![i].state = s]
                                 /\ sent' = IF s = "ok" THEN Append(sent, writes[i].packet) ELSE sent
      BY Zenon DEF WriteEnds
<1>2. UNCHANGED <<queue, queued, pc, raced>>
      BY DEF WriteEnds
<1> SUFFICES ASSUME ~raced PROVE QueueOrder' /\ PlacesOrder'
    BY <1>2, Zenon DEF OrderInv
<1>3. /\ writes \in Seq(Writes) /\ Len(writes) \in Nat /\ DOMAIN writes = 1..Len(writes)
      /\ queued \in Nat /\ Len(queue) \in Nat /\ sent \in Seq(Nat) /\ Len(sent) \in Nat
      BY DEF QueueTypes
<1>4. QueueOrder /\ PlacesOrder
      BY DEF OrderInv
<1>5. Len(writes) = 1 /\ i = 1 /\ writes[1] \in Writes
      BY <1>3, <1>4 DEF QueueOrder
<1>6. Len(writes') = 1 /\ writes'[1] = [writes[1] EXCEPT !.state = s]
      BY <1>1, <1>3, <1>5
<1>7. writes'[1].packet = writes[1].packet /\ writes'[1].state = s
      BY <1>5, <1>6 DEF Writes
<1>8. ~FrontDone /\ (FrontDone' <=> s = "ok") /\ Popped' = Popped
      BY <1>1, <1>2, <1>5, <1>6, <1>7 DEF FrontDone, Popped
<1>9. Popped \in Nat /\ Len(sent) = Popped /\ writes[1].packet = Popped + 1
      BY <1>3, <1>4, <1>5, <1>8 DEF QueueOrder, Popped
<1>10. Len(sent') = (IF FrontDone' THEN Popped' + 1 ELSE Popped') /\ \A j \in 1..Len(sent') : sent'[j] = j
  <2>1. \A j \in 1..Len(sent) : sent[j] = j
        BY <1>4 DEF QueueOrder
  <2>2. CASE s = "ok"
    <3>1. sent' = Append(sent, Popped + 1)
          BY <1>1, <1>5, <1>9, <2>2
    <3> QED BY <1>3, <1>8, <1>9, <2>1, <2>2, <3>1
  <2>3. CASE s = "err"
        BY <1>1, <1>8, <1>9, <2>1, <2>3
  <2> QED BY <2>2, <2>3
<1>11. QueueOrder'
      BY <1>2, <1>4, <1>5, <1>6, <1>7, <1>8, <1>10 DEF QueueOrder
<1>12. PlacesOrder'
      BY <1>2, <1>4, <1>5, <1>6 DEF PlacesOrder
<1> QED BY <1>11, <1>12

\* Every step keeps the order.
LEMMA NextOrder == OpsInv /\ QueueTypes /\ LinkInv /\ OrderInv /\ [Next]_vars => OrderInv'
<1> SUFFICES ASSUME OpsInv, QueueTypes, LinkInv, OrderInv, [Next]_vars PROVE OrderInv'
    OBVIOUS
<1>0. "io" \in Threads /\ "stdin" \in Threads
      BY DEF Threads
<1>1. ASSUME UNCHANGED <<queue, queued, sent, pc, raced, writes>> PROVE OrderInv'
      BY <1>1, OrderFrame, Zenon
<1>2. (\E t \in Threads : push(t) \/ size(t) \/ flush_queue(t)) => OrderInv'
      BY PushOrder, SizeOrder, FlushOrder, Zenon
<1>3. ConnectHandler \/ ReadHandler \/ WriteHandler => OrderInv'
      BY ConnectOrder, ReadOrder, WriteOrder, Zenon
<1>4. ReconnectHandler \/ DisconnectHandler => OrderInv'
  <2>1. ReconnectHandler \/ DisconnectHandler => writes' = AbortWrites(writes) /\ UNCHANGED <<queue, queued, sent, pc, raced>>
        BY Zenon DEF ReconnectHandler, DisconnectHandler, history
  <2> QED BY <2>1, OrderFrame, Zenon
<1>5. HeartbeatHandler \/ LogonHandler \/ send_message => OrderInv'
  <2>1. HeartbeatHandler \/ LogonHandler \/ send_message =>
            /\ UNCHANGED <<queue, queued, sent, writes>>
            /\ EnterSend("io") \/ EnterSend("stdin") \/ UNCHANGED <<pc, raced>>
        BY Zenon DEF HeartbeatHandler, LogonHandler, send_message, history
  <2> QED BY <1>0, <1>1, <2>1, EnterOrder, Zenon
<1>6. WriteEnds("ok") \/ WriteEnds("err") => OrderInv'
      BY EndsOrder, Zenon
<1>7. Signal \/ Clock \/ ConnectSucceeds \/ PacketArrives \/ (\E o \in SocketOps : NetworkFails(o)) \/ Ended \/ UNCHANGED vars
          => OrderInv'
  <2>1. ASSUME NEW o, NEW s, Complete(o, s) PROVE OrderInv'
        BY <1>1, <2>1 DEF Complete
  <2>2. Signal \/ LogonTimerExpires \/ Ended \/ UNCHANGED vars => OrderInv'
        BY <1>1 DEF Signal, LogonTimerExpires, Ended, vars, history
  <2> QED BY <2>1, <2>2, Zenon DEF Clock, ConnectSucceeds, PacketArrives, ReconnectTimerExpires, HeartbeatTimerExpires, NetworkFails
<1> QED BY <1>0, <1>2, <1>3, <1>4, <1>5, <1>6, <1>7, Zenon DEF Next, IoOther, StdinThread

\* Unless send_message() of the other thread has raced with the I/O thread,
\* packets are written once and in the order they were queued, whatever fails
\* and however often the client reconnects (send_packet_impl(), flush_queue()
\* and the handler of async_write in Client.cpp).
THEOREM SentOnceAlways == Spec => []SentOnceInOrder
<1>1. QueueTypes /\ OrderInv => SentOnceInOrder
  <2> SUFFICES ASSUME QueueTypes, QueueOrder PROVE SentOnceInOrder
      BY Zenon DEF OrderInv, SentOnceInOrder
  <2>1. /\ queue \in Seq(Nat) /\ sent \in Seq(Nat) /\ writes \in Seq(Writes) /\ Len(writes) \in Nat
        /\ queued \in Nat /\ Len(queue) \in Nat
        BY DEF QueueTypes
  <2>2. (\E i \in DOMAIN writes : writes[i].state = "ok") <=> FrontDone
    <3>1. Len(writes) <= 1 /\ DOMAIN writes = 1..Len(writes)
          BY <2>1 DEF QueueOrder
    <3>2. \A i \in DOMAIN writes : i = 1 /\ Len(writes) = 1
          BY <2>1, <3>1
    <3>3. Len(writes) = 1 => 1 \in DOMAIN writes
          BY <3>1
    <3> QED BY <3>2, <3>3, Zenon DEF FrontDone
  <2>3. queue = [i \in 1..Len(queue) |-> Popped + i]
        BY <2>1 DEF QueueOrder
  <2>4. sent = [i \in 1..(IF FrontDone THEN Popped + 1 ELSE Popped) |-> i]
        BY <2>1 DEF QueueOrder
  <2>5. Len(writes) <= 1
        BY DEF QueueOrder
  <2> QED BY <2>2, <2>3, <2>4, <2>5, Zenon DEF SentOnceInOrder, Popped
<1> QED BY <1>1, InitOps, InitTypes, InitLink, InitOrder, NextOps, NextQueueTypes, NextLink, NextOrder, PTL DEF Spec

----------------------------------------------------------------------------
(* The crash, and the client without the thread of standard input.          *)

\* The empty queue is popped only after the threads have raced.
CrashInv == ended = "crashed" => raced

\* Every step keeps that: what was written is still at the front of the queue
\* when its handler pops it, unless the other thread interfered.
LEMMA NextCrash == QueueTypes /\ OrderInv /\ CrashInv /\ [Next]_vars => CrashInv'
<1> SUFFICES ASSUME QueueTypes, OrderInv, CrashInv, [Next]_vars PROVE CrashInv'
    OBVIOUS
<1>1. CASE UNCHANGED <<ended, raced>>
      BY <1>1, Zenon DEF CrashInv
<1>2. CASE WriteHandler
  <2>1. CASE ended' = "no"
        BY <2>1 DEF CrashInv
  <2>2. CASE ended' # "no"
    <3>1. PICK i \in DOMAIN writes : queue = <<>> /\ UNCHANGED raced
          BY <1>2, <2>2, Zenon DEF WriteHandler, IoIdle, Running
    <3>2. writes \in Seq(Writes) /\ Len(writes) \in Nat /\ DOMAIN writes = 1..Len(writes)
          BY DEF QueueTypes
    <3>3. Len(writes) >= 1
          BY <3>2
    <3>4. Len(queue) = 0
          BY <3>1
    <3>5. ~QueueOrder
          BY <3>2, <3>3, <3>4 DEF QueueOrder
    <3> QED BY <3>1, <3>5, Zenon DEF OrderInv, CrashInv
  <2> QED BY <2>1, <2>2
<1>3. ended # "crashed" /\ UNCHANGED ended => CrashInv'
      BY Zenon DEF CrashInv
<1>4. Running => ended # "crashed"
      BY DEF Running
<1>5. Signal => CrashInv'
      BY DEF Signal, CrashInv
<1>6. (\E t \in Threads : push(t) \/ size(t) \/ flush_queue(t)) \/ send_message => CrashInv'
      BY <1>3, <1>4, Zenon DEF push, size, flush_queue, send_message
<1>7. ConnectHandler \/ ReconnectHandler \/ ReadHandler \/ HeartbeatHandler \/ LogonHandler \/ DisconnectHandler
          => CrashInv'
      BY <1>3, <1>4, Zenon DEF ConnectHandler, ReconnectHandler, ReadHandler, HeartbeatHandler, LogonHandler,
                               DisconnectHandler, IoIdle
<1>8. WriteEnds("ok") \/ WriteEnds("err") => UNCHANGED <<ended, raced>>
      BY Zenon DEF WriteEnds
<1>9. ASSUME NEW o, NEW s, Complete(o, s) PROVE UNCHANGED <<ended, raced>>
      BY <1>9, Zenon DEF Complete
<1>10. LogonTimerExpires \/ Ended \/ UNCHANGED vars => UNCHANGED <<ended, raced>>
      BY Zenon DEF LogonTimerExpires, Ended, vars
<1>11. Clock \/ ConnectSucceeds \/ PacketArrives \/ (\E o \in SocketOps : NetworkFails(o)) => UNCHANGED <<ended, raced>>
      BY <1>9, <1>10, Zenon
         DEF Clock, ConnectSucceeds, PacketArrives, ReconnectTimerExpires, HeartbeatTimerExpires, NetworkFails
<1>12. "io" \in Threads /\ "stdin" \in Threads
      BY DEF Threads
<1> QED BY <1>1, <1>2, <1>5, <1>6, <1>7, <1>8, <1>10, <1>11, <1>12, Zenon DEF Next, IoOther, StdinThread

\* The handler of async_write pops outgoing_queue without a look at it.  That is
\* safe, whatever fails and however often the client reconnects, unless
\* send_message() has raced with the I/O thread.
THEOREM CrashNeedsRace == Spec => [](ended = "crashed" => raced)
<1>1. Init => CrashInv
      BY DEF Init, CrashInv
<1>2. Spec => []CrashInv
      BY <1>1, InitOps, InitTypes, InitLink, InitOrder, NextOps, NextQueueTypes, NextLink, NextOrder, NextCrash,
         PTL DEF Spec
<1> QED BY <1>2, PTL DEF CrashInv

\* Without its thread nothing of send_message() ever runs.
AloneInv == pc["stdin"] = "idle" /\ ~raced

\* The I/O thread alone does not race.
LEMMA MovesAlone ==
    ASSUME QueueTypes, AloneInv, NEW l, Goto("io", l)
    PROVE  AloneInv'
BY DEF QueueTypes, AloneInv, Goto, Threads

\* Every step keeps the thread of standard input idle if main() did not start it.
LEMMA NextAlone == ~Stdin /\ QueueTypes /\ AloneInv /\ [Next]_vars => AloneInv'
<1> SUFFICES ASSUME ~Stdin, QueueTypes, AloneInv, [Next]_vars PROVE AloneInv'
    OBVIOUS
<1>1. UNCHANGED <<pc, raced>> => AloneInv'
      BY DEF AloneInv
<1>2. EnterSend("io") => AloneInv'
      BY MovesAlone, Zenon DEF EnterSend
<1>3. ~send_message
      BY Zenon DEF send_message
<1>4. ~StdinThread
      BY DEF StdinThread, push, size, flush_queue, AloneInv
<1>5. push("io") \/ size("io") \/ flush_queue("io") => AloneInv'
      BY MovesAlone, Zenon DEF push, size, flush_queue
<1>6. ConnectHandler \/ WriteHandler => AloneInv'
      BY <1>1, MovesAlone, Zenon DEF ConnectHandler, WriteHandler
<1>7. ReadHandler \/ HeartbeatHandler \/ LogonHandler => AloneInv'
      BY <1>1, <1>2, Zenon DEF ReadHandler, HeartbeatHandler, LogonHandler
<1>8. ReconnectHandler \/ DisconnectHandler \/ Signal \/ WriteEnds("ok") \/ WriteEnds("err") => AloneInv'
      BY <1>1, Zenon DEF ReconnectHandler, DisconnectHandler, Signal, WriteEnds
<1>9. ASSUME NEW o, NEW s, Complete(o, s) PROVE AloneInv'
      BY <1>1, <1>9, Zenon DEF Complete
<1>10. LogonTimerExpires \/ Ended \/ UNCHANGED vars => AloneInv'
      BY <1>1, Zenon DEF LogonTimerExpires, Ended, vars
<1>11. Clock \/ ConnectSucceeds \/ PacketArrives \/ (\E o \in SocketOps : NetworkFails(o)) => AloneInv'
      BY <1>9, <1>10, Zenon
         DEF Clock, ConnectSucceeds, PacketArrives, ReconnectTimerExpires, HeartbeatTimerExpires, NetworkFails
<1> QED BY <1>3, <1>4, <1>5, <1>6, <1>7, <1>8, <1>10, <1>11, Zenon DEF Next, IoOther

\* A client whose main() does not start the thread of standard input never
\* races and never crashes, and its packets are written in order and once,
\* without condition.
THEOREM AloneIsSafe ==
    ASSUME ~Stdin
    PROVE  Spec => [](~raced /\ ended # "crashed" /\ SentOnceInOrder)
<1>1. Init => AloneInv
      BY DEF Init, AloneInv, Threads
<1>2. QueueTypes /\ AloneInv /\ [Next]_vars => AloneInv'
      BY NextAlone, Zenon
<1>3. Spec => []AloneInv
      BY <1>1, <1>2, InitTypes, NextQueueTypes, PTL DEF Spec
<1>4. AloneInv /\ (ended = "crashed" => raced) => ~raced /\ ended # "crashed"
      BY DEF AloneInv
<1> QED BY <1>3, <1>4, SentOnceAlways, CrashNeedsRace, PTL

============================================================================
