----------------------------- MODULE WireProofs -----------------------------
(***************************************************************************)
(* Proofs about the bytes between client and server, for every input.      *)
(* About the operators: both receivers cut a packet from the stream by the *)
(* length in its header, each read of ByteBuffer returns what its write    *)
(* wrote and stays inside the buffer, upper case is taken byte by byte,    *)
(* and a valid name is one that is encoded as it should be.  From these    *)
(* the properties of Packet, for all strings and numbers.  About           *)
(* FrameReader, for every storage size, growth step, header and payload    *)
(* size and every stream: the positions stay in the storage, the unread    *)
(* part of the buffer is the stream, its growth is bounded, and the        *)
(* packets that the readers hand on are those of the stream, whole and in  *)
(* order.                                                                  *)
(***************************************************************************)
EXTENDS Packet, FrameReader, WellFoundedInduction, TLAPS

----------------------------------------------------------------------------
(* Induction and recursion.  The statements are about sets and functions,   *)
(* since an operator cannot be a parameter.                                 *)

\* A set of numbers has a least one.
LEMMA LeastNumber ==
    ASSUME NEW T, T \subseteq Nat, T # {}
    PROVE  \E x \in T : \A y \in T : x <= y
<1>1. PICK x \in T : \A y \in T : ~(<<y, x>> \in OpToRel(<, Nat))
      BY NatLessThanWellFounded, WFMin, Zenon
<1>2. \A y \in T : ~(y < x)
      BY <1>1, Zenon DEF OpToRel
<1> QED BY <1>2

\* A set with 0 and with the successor of each of its numbers below n.
LEMMA Induction ==
    ASSUME NEW n \in Nat, NEW S, 0 \in S, \A k \in Nat : k < n /\ k \in S => k + 1 \in S
    PROVE  \A k \in 0..n : k \in S
<1> SUFFICES ASSUME (0..n) \ S # {} PROVE FALSE
    OBVIOUS
<1>1. PICK x \in (0..n) \ S : \A y \in (0..n) \ S : x <= y
  <2>1. (0..n) \ S \subseteq Nat
        OBVIOUS
  <2> QED BY <2>1, LeastNumber, Zenon
<1>2. x # 0 /\ x - 1 \in 0..n /\ x - 1 < n /\ (x - 1) + 1 = x
      BY <1>1
<1>3. x - 1 \in S
      BY <1>1, <1>2
<1> QED BY <1>1, <1>2, <1>3

\* u obeys the recursion that begins with a and goes on with step, up to n.
Obeys(u, a, step, n) == u[0] = a /\ \A k \in Nat : k < n => u[k + 1] = step[<<k, u[k]>>]

\* Two functions that obey it agree.
LEMMA ObeysAgree ==
    ASSUME NEW a, NEW step, NEW n \in Nat, NEW u, NEW h, Obeys(u, a, step, n), Obeys(h, a, step, n)
    PROVE  \A k \in 0..n : u[k] = h[k]
<1> DEFINE S == {k \in Nat : u[k] = h[k]}
<1>1. 0 \in S
      BY DEF Obeys
<1>2. ASSUME NEW k \in Nat, k < n, k \in S PROVE k + 1 \in S
  <2>1. u[k] = h[k]
        BY <1>2
  <2>2. u[k + 1] = step[<<k, u[k]>>] /\ h[k + 1] = step[<<k, h[k]>>]
        BY <1>2, Zenon DEF Obeys
  <2>3. u[k + 1] = h[k + 1]
        BY <2>1, <2>2, Zenon
  <2> QED BY <2>3
<1> HIDE DEF S
<1>3. \A k \in 0..n : k \in S
      BY <1>1, <1>2, Induction, Zenon
<1> QED BY <1>3, Zenon DEF S

\* It can be obeyed up to any n.
LEMMA ObeysUpTo ==
    ASSUME NEW V, NEW a \in V, NEW step \in [Nat \X V -> V], NEW n \in Nat
    PROVE  \E u \in [0..n -> V] : Obeys(u, a, step, n)
<1> DEFINE S == {m \in Nat : \E u \in [0..m -> V] : Obeys(u, a, step, m)}
<1>1. 0 \in S
  <2>1. [k \in 0..0 |-> a] \in [0..0 -> V] /\ Obeys([k \in 0..0 |-> a], a, step, 0)
        BY DEF Obeys
  <2> QED BY <2>1, Zenon
<1>2. ASSUME NEW m \in Nat, m \in S PROVE m + 1 \in S
  <2>1. PICK u \in [0..m -> V] : Obeys(u, a, step, m)
        BY <1>2, Zenon
  <2> DEFINE h == [k \in 0..(m + 1) |-> IF k <= m THEN u[k] ELSE step[<<m, u[m]>>]]
  <2>2. u[m] \in V /\ step[<<m, u[m]>>] \in V
        OBVIOUS
  <2>3. h \in [0..(m + 1) -> V]
        BY <2>2
  <2>4. h[0] = a
        BY <2>1 DEF Obeys
  <2>5. ASSUME NEW k \in Nat, k < m + 1 PROVE h[k + 1] = step[<<k, h[k]>>]
    <3>1. CASE k < m
          BY <2>1, <3>1 DEF Obeys
    <3>2. CASE k = m
      <4>1. h[m + 1] = step[<<m, u[m]>>] /\ h[m] = u[m]
            BY ~(m + 1 <= m)
      <4> HIDE DEF h
      <4> QED BY <3>2, <4>1, Zenon
    <3> QED BY <2>5, <3>1, <3>2
  <2>6. m + 1 \in Nat
        OBVIOUS
  <2> HIDE DEF h
  <2>7. Obeys(h, a, step, m + 1)
        BY <2>4, <2>5, Zenon DEF Obeys
  <2> QED BY <2>3, <2>6, <2>7, Zenon
<1> HIDE DEF S
<1>3. \A k \in 0..n : k \in S
      BY <1>1, <1>2, Induction, Zenon
<1>4. n \in S
      BY <1>3
<1> QED BY <1>4, Zenon DEF S

\* The same for all numbers.
Follows(f, a, step) == f[0] = a /\ \A n \in Nat : f[n + 1] = step[<<n, f[n]>>]

\* There is a function on the numbers that a recursion defines.
LEMMA Recursion ==
    ASSUME NEW V, NEW a \in V, NEW step \in [Nat \X V -> V]
    PROVE  \E f \in [Nat -> V] : Follows(f, a, step)
<1> DEFINE G(n) == CHOOSE u \in [0..n -> V] : Obeys(u, a, step, n)
           f == [n \in Nat |-> G(n)[n]]
<1>1. ASSUME NEW n \in Nat PROVE G(n) \in [0..n -> V] /\ Obeys(G(n), a, step, n)
      BY ObeysUpTo, Zenon
<1> HIDE DEF G
<1>2. f \in [Nat -> V]
  <2>1. ASSUME NEW n \in Nat PROVE G(n)[n] \in V
        BY <1>1
  <2> QED BY <2>1
<1>3. f[0] = a
      BY <1>1 DEF Obeys
<1>4. ASSUME NEW n \in Nat PROVE f[n + 1] = step[<<n, f[n]>>]
  <2>1. n + 1 \in Nat /\ n < n + 1 /\ n \in 0..n
        OBVIOUS
  <2>2. Obeys(G(n), a, step, n) /\ Obeys(G(n + 1), a, step, n + 1)
        BY <1>1, <2>1, Zenon
  <2>3. Obeys(G(n + 1), a, step, n)
        BY <2>2 DEF Obeys
  <2>4. G(n + 1)[n] = G(n)[n]
    <3>1. \A k \in 0..n : G(n + 1)[k] = G(n)[k]
          BY <2>2, <2>3, ObeysAgree
    <3> QED BY <2>1, <3>1, Zenon
  <2>5. G(n + 1)[n + 1] = step[<<n, G(n + 1)[n]>>]
        BY <2>1, <2>2, Zenon DEF Obeys
  <2> QED BY <2>1, <2>4, <2>5, Zenon
<1> HIDE DEF f
<1> QED BY <1>2, <1>3, <1>4, Zenon DEF Follows

----------------------------------------------------------------------------
(* Numbers and their bytes.                                                 *)

\* What the definition of Power says.
LEMMA PowerSteps ==
    /\ Power[0] = 1
    /\ \A w \in Nat : Power[w] \in Nat \ {0} /\ Power[w + 1] = Base * Power[w]
<1> DEFINE P == Nat \ {0}
           step == [p \in Nat \X P |-> Base * p[2]]
<1>1. step \in [Nat \X P -> P]
  <2>1. ASSUME NEW n \in P PROVE Base * n \in P
        BY DEF Base
  <2> HIDE DEF P
  <2> QED BY <2>1
<1>2. 1 \in P
      OBVIOUS
<1> HIDE DEF step, P
<1>3. PICK f \in [Nat -> P] : Follows(f, 1, step)
      BY <1>1, <1>2, Recursion, Zenon
<1>4. ASSUME NEW n \in Nat PROVE f[n + 1] = Base * f[n]
  <2>1. f[n] \in P /\ <<n, f[n]>> \in Nat \X P
        BY Zenon
  <2>2. step[<<n, f[n]>>] = Base * f[n]
        BY <2>1 DEF step
  <2> QED BY <1>3, <2>2, Zenon DEF Follows
<1>5. f = [w \in Nat |-> IF w = 0 THEN 1 ELSE Base * f[w - 1]]
  <2>1. ASSUME NEW w \in Nat PROVE f[w] = IF w = 0 THEN 1 ELSE Base * f[w - 1]
    <3>1. CASE w = 0
          BY <1>3, <3>1 DEF Follows
    <3>2. CASE w # 0
      <4>1. w - 1 \in Nat /\ (w - 1) + 1 = w
            BY <3>2
      <4>2. f[(w - 1) + 1] = Base * f[w - 1]
            BY <1>4, <4>1, Zenon
      <4> QED BY <3>2, <4>1, <4>2, Zenon
    <3> QED BY <3>1, <3>2, Zenon
  <2> QED BY <2>1
<1>6. Power = CHOOSE p : p = [w \in Nat |-> IF w = 0 THEN 1 ELSE Base * p[w - 1]]
      BY Zenon DEF Power
<1>7. Power = [w \in Nat |-> IF w = 0 THEN 1 ELSE Base * Power[w - 1]]
      BY <1>5, <1>6, Zenon
<1> DEFINE S == {w \in Nat : Power[w] = f[w]}
<1>8. Power[0] = 1 /\ \A w \in Nat : Power[w + 1] = Base * Power[w]
  <2>1. \A w \in Nat : Power[w] = IF w = 0 THEN 1 ELSE Base * Power[w - 1]
        BY <1>7, Zenon
  <2>2. Power[0] = 1
        BY <2>1
  <2>3. ASSUME NEW w \in Nat PROVE Power[w + 1] = Base * Power[w]
    <3>1. w + 1 \in Nat /\ w + 1 # 0 /\ (w + 1) - 1 = w
          OBVIOUS
    <3>2. Power[w + 1] = Base * Power[(w + 1) - 1]
          BY <2>1, <3>1, Zenon
    <3> QED BY <3>1, <3>2, Zenon
  <2> QED BY <2>2, <2>3
<1>9. ASSUME NEW w \in Nat PROVE Power[w] \in P
  <2>1. 0 \in S
        BY <1>3, <1>8 DEF Follows
  <2>2. ASSUME NEW k \in Nat, k \in S PROVE k + 1 \in S
    <3>1. Power[k] = f[k]
          BY <2>2
    <3>2. Power[k + 1] = f[k + 1]
          BY <1>4, <1>8, <3>1, Zenon
    <3> QED BY <3>2
  <2> HIDE DEF S
  <2>3. \A k \in 0..w : k \in S
        BY <2>1, <2>2, Induction, Zenon
  <2>4. w \in S
        BY <2>3
  <2>5. Power[w] = f[w]
        BY <2>4, Zenon DEF S
  <2> QED BY <2>5, Zenon
<1> QED BY <1>8, <1>9, Zenon DEF P

\* One byte has Base values.
LEMMA SmallPowers == Power[1] = Base
<1>1. Power[0 + 1] = Base * Power[0]
      BY PowerSteps
<1> QED BY <1>1, PowerSteps DEF Base

\* More bytes have more values.
LEMMA PowerGrows ==
    ASSUME NEW w \in Nat, NEW u \in Nat, w <= u
    PROVE  Power[w] <= Power[u]
<1> DEFINE S == {k \in Nat : Power[w] <= Power[w + k]}
<1>1. 0 \in S
      BY PowerSteps
<1>2. ASSUME NEW k \in Nat, k \in S PROVE k + 1 \in S
  <2>1. w + k \in Nat /\ (w + k) + 1 = w + (k + 1)
        OBVIOUS
  <2>2. Power[(w + k) + 1] = Base * Power[w + k] /\ Power[w + k] \in Nat /\ Power[w] \in Nat
        BY <2>1, PowerSteps, Zenon
  <2>3. Power[w] <= Power[w + k]
        BY <1>2
  <2>4. Power[w] <= Base * Power[w + k]
        BY <2>2, <2>3 DEF Base
  <2> QED BY <2>1, <2>2, <2>4
<1> HIDE DEF S
<1>3. u - w \in Nat /\ w + (u - w) = u /\ u - w \in 0..(u - w)
      OBVIOUS
<1>4. u - w \in S
      BY <1>1, <1>2, <1>3, Induction
<1>5. Power[w] <= Power[w + (u - w)]
      BY <1>4, Zenon DEF S
<1> QED BY <1>3, <1>5, Zenon

\* Bytes are numbers.
LEMMA ByteNat == \A d \in Byte : d \in Nat
BY DEF Byte, Base

\* f is the value of the first bytes of s, for each number of them.
Accumulates(f, s) == f[0] = 0 /\ \A i \in 1..Len(s) : f[i] = Base * f[i - 1] + s[i]

\* Value() is what the loop over the bytes computes.
LEMMA ValueSteps ==
    ASSUME NEW s \in Seq(Byte)
    PROVE  \E f \in [0..Len(s) -> Nat] : Accumulates(f, s) /\ Value(s) = f[Len(s)]
<1>0. Len(s) \in Nat /\ \A i \in 1..Len(s) : s[i] \in Nat
  <2>1. Len(s) \in Nat /\ \A i \in 1..Len(s) : s[i] \in Byte
        OBVIOUS
  <2> QED BY <2>1, ByteNat, Zenon
<1> DEFINE n == Len(s)
           step == [p \in Nat \X Nat |-> IF p[1] < n THEN Base * p[2] + s[p[1] + 1] ELSE 0]
           F[i \in 0..Len(s)] == IF i = 0 THEN 0 ELSE Base * F[i - 1] + s[i]
<1>1. step \in [Nat \X Nat -> Nat]
  <2>1. ASSUME NEW p \in Nat \X Nat PROVE (IF p[1] < n THEN Base * p[2] + s[p[1] + 1] ELSE 0) \in Nat
    <3>1. CASE p[1] < n
      <4>1. p[1] + 1 \in 1..Len(s)
            BY <1>0, <3>1
      <4>2. s[p[1] + 1] \in Nat
            BY <1>0, <4>1, Zenon
      <4> QED BY <3>1, <4>2 DEF Base
    <3> QED BY <3>1
  <2> QED BY <2>1
<1>2. F = CHOOSE h : h = [i \in 0..Len(s) |-> IF i = 0 THEN 0 ELSE Base * h[i - 1] + s[i]]
      BY Zenon
<1>3. Value(s) = F[Len(s)]
      BY Zenon DEF Value
<1> HIDE DEF step, F
<1>4. PICK h \in [0..n -> Nat] : Obeys(h, 0, step, n)
      BY <1>0, <1>1, ObeysUpTo, 0 \in Nat, Zenon
<1>5. ASSUME NEW i \in 1..n PROVE h[i] = Base * h[i - 1] + s[i]
  <2>1. i - 1 \in Nat /\ i - 1 < n /\ (i - 1) + 1 = i /\ i - 1 \in 0..n
        BY <1>0
  <2>2. h[(i - 1) + 1] = step[<<i - 1, h[i - 1]>>]
        BY <1>4, <2>1, Zenon DEF Obeys
  <2>3. step[<<i - 1, h[i - 1]>>] = Base * h[i - 1] + s[(i - 1) + 1]
    <3>1. h[i - 1] \in Nat
          BY <2>1, Zenon
    <3> QED BY <2>1, <3>1 DEF step
  <2> QED BY <2>1, <2>2, <2>3, Zenon
<1>6. h[0] = 0
      BY <1>4, Zenon DEF Obeys
<1>7. h = [i \in 0..Len(s) |-> IF i = 0 THEN 0 ELSE Base * h[i - 1] + s[i]]
  <2>1. ASSUME NEW i \in 0..n, i # 0 PROVE i \in 1..n
        BY <1>0, <2>1
  <2>2. ASSUME NEW i \in 0..n PROVE h[i] = IF i = 0 THEN 0 ELSE Base * h[i - 1] + s[i]
        BY <1>5, <1>6, <2>1, Zenon
  <2> QED BY <2>2
<1>8. F = [i \in 0..Len(s) |-> IF i = 0 THEN 0 ELSE Base * F[i - 1] + s[i]]
      BY <1>2, <1>7, Zenon
<1> DEFINE S == {i \in Nat : F[i] = h[i]}
<1>9. \A i \in 0..n : i \in S
  <2>1. 0 \in S
    <3>1. 0 \in 0..Len(s)
          BY <1>0
    <3>2. F[0] = 0
          BY <1>8, <3>1, Zenon
    <3> QED BY <1>6, <3>2
  <2>2. ASSUME NEW k \in Nat, k < n, k \in S PROVE k + 1 \in S
    <3>1. k + 1 \in 1..n /\ k + 1 \in 0..n /\ k + 1 # 0 /\ (k + 1) - 1 = k
          BY <1>0, <2>2
    <3>2. F[k + 1] = Base * F[(k + 1) - 1] + s[k + 1]
          BY <1>8, <3>1, Zenon
    <3>3. h[k + 1] = Base * h[(k + 1) - 1] + s[k + 1]
          BY <1>5, <3>1, Zenon
    <3>4. F[k] = h[k]
          BY <2>2
    <3>5. F[k + 1] = h[k + 1]
          BY <3>1, <3>2, <3>3, <3>4, Zenon
    <3> QED BY <3>5
  <2> HIDE DEF S
  <2> QED BY <1>0, <2>1, <2>2, Induction, Zenon
<1>10. F[n] = h[n]
  <2>1. n \in S
        BY <1>0, <1>9
  <2> QED BY <2>1
<1>11. Accumulates(h, s)
       BY <1>5, <1>6, Zenon DEF Accumulates
<1> QED BY <1>3, <1>10, <1>11, Zenon

\* The value of a string is a number.
LEMMA ValueType ==
    ASSUME NEW s \in Seq(Byte)
    PROVE  Value(s) \in Nat
<1>1. PICK f \in [0..Len(s) -> Nat] : Value(s) = f[Len(s)]
      BY ValueSteps, Zenon
<1>2. Len(s) \in 0..Len(s)
      OBVIOUS
<1> QED BY <1>1, <1>2, Zenon

\* The bytes of a number.
LEMMA BigEndianType ==
    ASSUME NEW v \in Nat, NEW w \in Nat
    PROVE  BigEndian(v, w) \in Seq(Byte) /\ Len(BigEndian(v, w)) = w
<1>1. ASSUME NEW i \in 1..w PROVE (v \div Power[w - i]) % Base \in Byte
  <2>1. w - i \in Nat
        OBVIOUS
  <2>2. Power[w - i] \in Nat \ {0}
        BY <2>1, PowerSteps, Zenon
  <2> QED BY <2>2 DEF Base, Byte
<1>2. BigEndian(v, w) \in [1..w -> Byte]
      BY <1>1, Zenon DEF BigEndian
<1> QED BY <1>2

\* One byte more is shifted out.
LEMMA DivPower ==
    ASSUME NEW v \in Nat, NEW k \in Nat
    PROVE  v \div Power[k + 1] = (v \div Power[k]) \div Base
<1>1. Power[k] \in Nat \ {0} /\ Power[k + 1] = Base * Power[k]
      BY PowerSteps, Zenon
<1>2. \A m \in Nat \ {0} : v \div (256 * m) = (v \div m) \div 256
      OBVIOUS
<1> QED BY <1>1, <1>2 DEF Base

\* A number that fits comes back from its bytes.
LEMMA ValueOfBytes ==
    ASSUME NEW w \in Nat, NEW v \in Nat, v < Power[w]
    PROVE  Value(BigEndian(v, w)) = v
<1> DEFINE s == BigEndian(v, w)
<1>1. s \in Seq(Byte) /\ Len(s) = w
      BY BigEndianType, Zenon
<1>2. PICK f \in [0..Len(s) -> Nat] : Accumulates(f, s) /\ Value(s) = f[Len(s)]
      BY <1>1, ValueSteps, Zenon
<1>3. ASSUME NEW i \in 1..w PROVE s[i] = (v \div Power[w - i]) % Base
      BY DEF BigEndian
<1> HIDE DEF s
<1> DEFINE S == {i \in Nat : f[i] = v \div Power[w - i]}
<1>4. 0 \in S
  <2>1. f[0] = 0
        BY <1>2, Zenon DEF Accumulates
  <2>2. v \div Power[w - 0] = 0
    <3>0. w - 0 = w
          OBVIOUS
    <3>1. Power[w] \in Nat \ {0}
          BY PowerSteps, Zenon
    <3>2. \A m \in Nat \ {0} : v < m => v \div m = 0
          OBVIOUS
    <3> QED BY <3>0, <3>1, <3>2, Zenon
  <2> QED BY <2>1, <2>2
<1>5. ASSUME NEW k \in Nat, k < w, k \in S PROVE k + 1 \in S
  <2>1. k + 1 \in 1..w /\ (k + 1) - 1 = k /\ w - (k + 1) \in Nat /\ (w - (k + 1)) + 1 = w - k
        BY <1>5
  <2> DEFINE q == v \div Power[w - (k + 1)]
  <2>2. f[k + 1] = Base * f[k] + s[k + 1]
        BY <1>1, <1>2, <2>1, Zenon DEF Accumulates
  <2>3. s[k + 1] = q % Base
        BY <1>3, <2>1, Zenon
  <2>4. f[k] = q \div Base
    <3>1. f[k] = v \div Power[w - k]
          BY <1>5
    <3>2. v \div Power[(w - (k + 1)) + 1] = q \div Base
          BY <2>1, DivPower, Zenon
    <3> QED BY <2>1, <3>1, <3>2, Zenon
  <2>5. q \in Nat
    <3>1. Power[w - (k + 1)] \in Nat \ {0}
          BY <2>1, PowerSteps, Zenon
    <3>2. \A m \in Nat \ {0} : v \div m \in Nat
          OBVIOUS
    <3> QED BY <3>1, <3>2, Zenon
  <2>6. Base * (q \div Base) + (q % Base) = q
        BY <2>5 DEF Base
  <2>7. f[k + 1] = v \div Power[w - (k + 1)]
        BY <2>2, <2>3, <2>4, <2>6, Zenon
  <2> QED BY <2>7
<1> HIDE DEF S
<1>6. w \in S
  <2>1. \A k \in 0..w : k \in S
        BY <1>4, <1>5, Induction, Zenon
  <2> QED BY <2>1
<1>7. f[w] = v \div Power[w - w]
      BY <1>6, Zenon DEF S
<1>8. v \div Power[w - w] = v
  <2>1. w - w = 0 /\ v \div 1 = v
        OBVIOUS
  <2> QED BY <2>1, PowerSteps, Zenon
<1> QED BY <1>1, <1>2, <1>7, <1>8, Zenon DEF s

\* Sequences of the same length and elements are the same.
LEMMA SameSeq ==
    ASSUME NEW S, NEW s \in Seq(S), NEW t \in Seq(S), Len(s) = Len(t), \A i \in 1..Len(s) : s[i] = t[i]
    PROVE  s = t
OBVIOUS

----------------------------------------------------------------------------
(* Fields.  A buffer from which done has been read and rest has not.        *)

At(done, rest) == [data |-> done \o rest, pos |-> Len(done)]

\* Concatenation of strings.
LEMMA ConcatFacts ==
    ASSUME NEW x \in Seq(Byte), NEW y \in Seq(Byte), NEW z \in Seq(Byte)
    PROVE  /\ x \o y \in Seq(Byte) /\ Len(x \o y) = Len(x) + Len(y)
           /\ x \o (y \o z) = (x \o y) \o z
OBVIOUS

\* The order in which strings are put together makes no difference.
LEMMA ConcatAssoc ==
    ASSUME NEW x \in Seq(Byte), NEW y \in Seq(Byte), NEW z \in Seq(Byte)
    PROVE  x \o (y \o z) = (x \o y) \o z
OBVIOUS

\* The empty string.
LEMMA EmptyFacts ==
    ASSUME NEW x \in Seq(Byte)
    PROVE  <<>> \in Seq(Byte) /\ <<>> \o x = x /\ x \o <<>> = x
OBVIOUS

\* A new buffer has all of its bytes ahead.
LEMMA NewBufferAt ==
    ASSUME NEW x \in Seq(Byte)
    PROVE  NewBuffer(x) = At(<<>>, x)
BY EmptyFacts DEF NewBuffer, At

\* The next bytes are there.
LEMMA AheadIs ==
    ASSUME NEW x \in Seq(Byte), NEW y \in Seq(Byte), NEW z \in Seq(Byte)
    PROVE  check_read(At(x, y \o z), Len(y)) /\ Ahead(At(x, y \o z), Len(y)) = y
<1> DEFINE d == x \o (y \o z)
<1>1. d \in Seq(Byte) /\ Len(d) = Len(x) + (Len(y) + Len(z)) /\ Len(x) \in Nat /\ Len(y) \in Nat /\ Len(z) \in Nat
      OBVIOUS
<1>2. ASSUME NEW i \in 1..Len(y) PROVE d[Len(x) + i] = y[i]
      OBVIOUS
<1> HIDE DEF d
<1>3. SubSeq(d, Len(x) + 1, Len(x) + Len(y)) = y
  <2> DEFINE t == SubSeq(d, Len(x) + 1, Len(x) + Len(y))
  <2>1. t \in Seq(Byte) /\ Len(t) = Len(y)
        BY <1>1
  <2>2. ASSUME NEW i \in 1..Len(y) PROVE t[i] = d[Len(x) + i]
        BY <1>1
  <2> HIDE DEF t
  <2>3. t = y
        BY <1>2, <2>1, <2>2, SameSeq
  <2> QED BY <2>3 DEF t
<1>4. Len(x) + Len(y) <= Len(d)
      BY <1>1
<1> QED BY <1>3, <1>4 DEF d, At, check_read, Ahead

\* What a read returns that takes y from the bytes ahead.
Taken(x, y, z, value) == [buffer |-> At(x \o y, z), value |-> value, ok |-> TRUE]

\* The buffer after such a read.
LEMMA ReturnsTaken ==
    ASSUME NEW x \in Seq(Byte), NEW y \in Seq(Byte), NEW z \in Seq(Byte), NEW value
    PROVE  Returns(At(x, y \o z), Len(y), value) = Taken(x, y, z, value)
<1>1. x \o (y \o z) = (x \o y) \o z /\ Len(x \o y) = Len(x) + Len(y)
      BY ConcatFacts
<1> DEFINE d == x \o (y \o z)
<1>2. At(x, y \o z) = [data |-> d, pos |-> Len(x)] /\ At(x \o y, z) = [data |-> d, pos |-> Len(x) + Len(y)]
      BY <1>1, Zenon DEF At
<1> HIDE DEF d
<1>3. [At(x, y \o z) EXCEPT !.pos = @ + Len(y)] = At(x \o y, z)
      BY <1>2, SMTT(20)
<1> QED BY <1>3, Zenon DEF Returns, Taken

\* read_bytes() and read_string_raw_be() return the bytes that were written.
LEMMA BytesTaken ==
    ASSUME NEW x \in Seq(Byte), NEW y \in Seq(Byte), NEW z \in Seq(Byte)
    PROVE  read_bytes(At(x, y \o z), Len(y)) = Taken(x, y, z, y)
<1>1. check_read(At(x, y \o z), Len(y)) /\ Ahead(At(x, y \o z), Len(y)) = y
      BY AheadIs, Zenon
<1>2. Returns(At(x, y \o z), Len(y), y) = Taken(x, y, z, y)
      BY ReturnsTaken, Zenon
<1> QED BY <1>1, <1>2, Zenon DEF read_bytes

\* read_uint_be() returns the number that was written.
LEMMA NumberTaken ==
    ASSUME NEW x \in Seq(Byte), NEW z \in Seq(Byte), NEW w \in Nat, NEW v \in Nat, v < Power[w]
    PROVE  read_uint_be(At(x, BigEndian(v, w) \o z), w) = Taken(x, BigEndian(v, w), z, v)
<1> DEFINE y == BigEndian(v, w)
<1>1. y \in Seq(Byte) /\ Len(y) = w
      BY BigEndianType, Zenon
<1>2. Value(y) = v
      BY ValueOfBytes, Zenon
<1> HIDE DEF y
<1>3. read_uint_be(At(x, y \o z), Len(y)) = Taken(x, y, z, Value(y))
  <2>1. check_read(At(x, y \o z), Len(y)) /\ Ahead(At(x, y \o z), Len(y)) = y
        BY <1>1, AheadIs, Zenon
  <2>2. Returns(At(x, y \o z), Len(y), Value(y)) = Taken(x, y, z, Value(y))
        BY <1>1, ReturnsTaken, ZenonT(30)
  <2> QED BY <2>1, <2>2, Zenon DEF read_uint_be
<1>4. read_uint_be(At(x, y \o z), w) = Taken(x, y, z, v)
      BY <1>1, <1>2, <1>3, Zenon
<1> QED BY <1>4, Zenon DEF y

----------------------------------------------------------------------------
(* Packets.                                                                 *)

\* A packet of either format whose payload is shorter than 65536 bytes is
\* deserialized to the opcode and the payload it was built from, by AuthPacket
\* and WorkPacket alike.
LEMMA PacketsSurvive ==
    ASSUME NEW n \in Nat, NEW opcode \in Nat, opcode < Power[n], NEW payload \in Seq(Byte),
           Len(payload) < Power[LengthBytes]
    PROVE  deserialize(n, build_packet(n, opcode, payload))
               = [buffer |-> NewBuffer(payload), value |-> opcode, ok |-> TRUE]
<1> DEFINE l == ToUnsigned(Len(payload), LengthBytes)
           a == BigEndian(opcode, n)
           c == BigEndian(l, LengthBytes)
           raw == a \o (c \o payload)
<1>1. Power[LengthBytes] \in Nat \ {0} /\ LengthBytes \in Nat /\ LengthBytes = 2
  <2>1. LengthBytes \in Nat /\ LengthBytes = 2
        BY DEF LengthBytes
  <2> QED BY <2>1, PowerSteps, Zenon
<1>2. Len(payload) \in Nat /\ l \in Nat /\ l < Power[LengthBytes]
  <2>1. Len(payload) \in Nat
        OBVIOUS
  <2>2. \A p \in Nat \ {0}, k \in Nat : k % p \in Nat /\ k % p < p /\ (k < p => k % p = k)
        OBVIOUS
  <2> QED BY <1>1, <2>1, <2>2, Zenon DEF ToUnsigned
<1>3. Len(payload) < Power[LengthBytes] => l = Len(payload)
  <2>1. \A p \in Nat \ {0}, k \in Nat : k < p => k % p = k
        OBVIOUS
  <2> QED BY <1>1, <1>2, <2>1, Zenon DEF ToUnsigned
<1> HIDE DEF l
<1>4. a \in Seq(Byte) /\ Len(a) = n /\ c \in Seq(Byte) /\ Len(c) = 2
      BY <1>1, <1>2, BigEndianType, Zenon
<1>5. build_packet(n, opcode, payload) = raw
  <2>1. build_packet(n, opcode, payload) = (a \o c) \o payload
        BY Zenon DEF build_packet, l
  <2>2. a \o (c \o payload) = (a \o c) \o payload
        BY <1>4, ConcatFacts, Zenon
  <2> QED BY <2>1, <2>2, Zenon
<1>6. c \o payload \in Seq(Byte) /\ raw \in Seq(Byte) /\ Len(raw) = n + (2 + Len(payload))
  <2>1. c \o payload \in Seq(Byte) /\ Len(c \o payload) = Len(c) + Len(payload)
        BY <1>4, ConcatFacts, Zenon
  <2>2. raw \in Seq(Byte) /\ Len(raw) = Len(a) + Len(c \o payload)
        BY <1>4, <2>1, ConcatFacts, Zenon
  <2> QED BY <1>4, <2>1, <2>2, Zenon
<1>7. read_uint_be(NewBuffer(raw), n) = Taken(<<>>, a, c \o payload, opcode)
  <2>1. NewBuffer(raw) = At(<<>>, raw)
        BY <1>6, NewBufferAt, Zenon
  <2>2. <<>> \in Seq(Byte)
        OBVIOUS
  <2> DEFINE rest == c \o payload
  <2>3. rest \in Seq(Byte)
        BY <1>6, Zenon
  <2> HIDE DEF rest
  <2>4. read_uint_be(At(<<>>, BigEndian(opcode, n) \o rest), n) = Taken(<<>>, BigEndian(opcode, n), rest, opcode)
        BY <2>2, <2>3, NumberTaken, Zenon
  <2> QED BY <2>1, <2>4, Zenon DEF rest
<1> DEFINE after == At(a, c \o payload)
<1>8. read_uint_be(NewBuffer(raw), n) = [buffer |-> after, value |-> opcode, ok |-> TRUE]
      BY <1>4, <1>7, EmptyFacts, Zenon DEF Taken
<1>9. read_uint_be(after, LengthBytes) = [buffer |-> At(a \o c, payload), value |-> l, ok |-> TRUE]
  <2>1. read_uint_be(At(a, BigEndian(l, LengthBytes) \o payload), LengthBytes) = Taken(a, BigEndian(l, LengthBytes), payload, l)
    <3>1. a \in Seq(Byte) /\ l \in Nat /\ l < Power[LengthBytes] /\ LengthBytes \in Nat
          BY <1>1, <1>2, <1>4, Zenon
    <3> HIDE DEF a
    <3> QED BY <3>1, NumberTaken, Zenon
  <2> QED BY <2>1, Zenon DEF Taken
<1>10. a \o c \in Seq(Byte) /\ payload \o <<>> = payload /\ <<>> \in Seq(Byte)
       BY <1>4, ConcatFacts, EmptyFacts, Zenon
<1>11. read_bytes(At(a \o c, payload), Len(payload)).value = payload
  <2>1. read_bytes(At(a \o c, payload \o <<>>), Len(payload)) = Taken(a \o c, payload, <<>>, payload)
        BY <1>10, BytesTaken, Zenon
  <2>2. Taken(a \o c, payload, <<>>, payload).value = payload
        BY DEF Taken
  <2> QED BY <1>10, <2>1, <2>2, Zenon
<1> HIDE DEF raw, after, a, c
<1>12. l = Len(payload) /\ l = Len(raw) - n - LengthBytes
       BY <1>1, <1>2, <1>3, <1>6
<1>13. deserialize(n, raw) = [buffer |-> NewBuffer(payload), value |-> opcode, ok |-> TRUE]
  <2> DEFINE o == read_uint_be(NewBuffer(raw), n)
             e == read_uint_be(o.buffer, LengthBytes)
             p == read_bytes(e.buffer, e.value)
  <2>1. o.ok /\ o.buffer = after /\ o.value = opcode
        BY <1>8
  <2>2. e.ok /\ e.buffer = At(a \o c, payload) /\ e.value = l
        BY <1>9, <2>1
  <2>3. p.value = payload
        BY <1>11, <1>12, <2>2, Zenon
  <2>4. deserialize(n, raw) = IF ~o.ok \/ ~e.ok THEN Throws(NewBuffer(<<>>))
                              ELSE IF e.value # Len(raw) - n - LengthBytes THEN Throws(NewBuffer(<<>>))
                              ELSE [buffer |-> NewBuffer(p.value), value |-> o.value, ok |-> TRUE]
        BY Zenon DEF deserialize
  <2> HIDE DEF o, e, p
  <2> QED BY <1>12, <2>1, <2>2, <2>3, <2>4, Zenon
<1> QED BY <1>5, <1>13, Zenon

----------------------------------------------------------------------------
(* Strings.                                                                 *)

\* Where the first zero is.
LEMMA FirstZeroIs ==
    ASSUME NEW s \in Seq(Byte)
    PROVE  /\ FirstZero(s) \in 1..(Len(s) + 1)
           /\ FirstZero(s) <= Len(s) => s[FirstZero(s)] = 0
           /\ \A i \in 1..(FirstZero(s) - 1) : s[i] # 0
<1> DEFINE T == {k \in 1..(Len(s) + 1) : k <= Len(s) => s[k] = 0}
           Q(k) == (k <= Len(s) => s[k] = 0) /\ \A i \in 1..(k - 1) : s[i] # 0
<1>0. Len(s) \in Nat
      OBVIOUS
<1>1. PICK x \in T : \A y \in T : x <= y
  <2>1. Len(s) + 1 \in T /\ T \subseteq Nat
        BY <1>0
  <2> QED BY <2>1, LeastNumber, Zenon
<1>2. x \in 1..(Len(s) + 1) /\ (x <= Len(s) => s[x] = 0)
      BY <1>1, Zenon
<1>3. ASSUME NEW i \in 1..(x - 1) PROVE s[i] # 0
  <2>1. i \in 1..(Len(s) + 1) /\ ~(x <= i)
        BY <1>0, <1>2
  <2>2. i \notin T
        BY <1>1, <2>1, Zenon
  <2> QED BY <2>1, <2>2, Zenon
<1>4. Q(x)
      BY <1>2, <1>3, Zenon
<1>5. FirstZero(s) = CHOOSE k \in 1..(Len(s) + 1) : Q(k)
      BY Zenon DEF FirstZero
<1>6. FirstZero(s) \in 1..(Len(s) + 1) /\ Q(FirstZero(s))
      BY <1>2, <1>4, <1>5, Zenon
<1> QED BY <1>6, Zenon

\* Strings that can be terminated by a zero.
Text == Seq(1..(Base - 1))

\* They are strings of bytes without a zero.
LEMMA TextBytes ==
    ASSUME NEW s \in Text
    PROVE  s \in Seq(Byte) /\ \A i \in 1..Len(s) : s[i] # 0
<1> DEFINE D == 1..(Base - 1)
<1>1. \A d \in D : d \in Byte /\ d # 0
      BY DEF Base, Byte
<1>2. s \in Seq(D)
      BY Zenon DEF Text
<1> HIDE DEF D
<1>3. Len(s) \in Nat /\ s \in [1..Len(s) -> D] /\ \A i \in 1..Len(s) : s[i] \in D
      BY <1>2
<1>4. s \in [1..Len(s) -> Byte]
      BY <1>1, <1>3
<1> QED BY <1>1, <1>3, <1>4

\* A terminated string ends at the zero that was written after it.
LEMMA ZeroAfterText ==
    ASSUME NEW s \in Text, NEW z \in Seq(Byte)
    PROVE  /\ (s \o <<0>>) \o z \in Seq(Byte) /\ FirstZero((s \o <<0>>) \o z) = Len(s) + 1
           /\ SubSeq((s \o <<0>>) \o z, 1, Len(s)) = s
<1> DEFINE r == (s \o <<0>>) \o z
           f == FirstZero(r)
<1>0. s \in Seq(Byte) /\ (\A i \in 1..Len(s) : s[i] # 0) /\ Len(s) \in Nat /\ <<0>> \in Seq(Byte)
  <2>1. 0 \in Byte
        BY DEF Byte, Base
  <2> QED BY <2>1, TextBytes
<1>1. r \in Seq(Byte) /\ Len(r) = Len(s) + 1 + Len(z) /\ Len(z) \in Nat
      BY <1>0
<1>2. r[Len(s) + 1] = 0 /\ \A i \in 1..Len(s) : r[i] = s[i]
      BY <1>0
<1> HIDE DEF r
<1>3. f \in 1..(Len(r) + 1) /\ (f <= Len(r) => r[f] = 0) /\ \A i \in 1..(f - 1) : r[i] # 0
      BY <1>1, FirstZeroIs, Zenon
<1> HIDE DEF f
<1>4. f <= Len(s) + 1
      BY <1>0, <1>1, <1>2, <1>3
<1>5. f >= Len(s) + 1
      BY <1>0, <1>1, <1>2, <1>3
<1>6. f = Len(s) + 1
      BY <1>0, <1>1, <1>3, <1>4, <1>5
<1>7. SubSeq(r, 1, Len(s)) = s
  <2> DEFINE t == SubSeq(r, 1, Len(s))
  <2>1. t \in Seq(Byte) /\ Len(t) = Len(s) /\ \A i \in 1..Len(s) : t[i] = r[i]
        BY <1>0, <1>1
  <2> HIDE DEF t
  <2>2. t = s
        BY <1>0, <1>2, <2>1, SameSeq
  <2> QED BY <2>2, Zenon DEF t
<1> QED BY <1>1, <1>6, <1>7, Zenon DEF r, f

\* The rest of a buffer.
LEMMA RestIs ==
    ASSUME NEW x \in Seq(Byte), NEW y \in Seq(Byte)
    PROVE  SubSeq(At(x, y).data, At(x, y).pos + 1, Len(At(x, y).data)) = y
<1>1. Ahead(At(x, y \o <<>>), Len(y)) = y /\ y \o <<>> = y
      BY AheadIs, EmptyFacts, Zenon
<1>2. At(x, y).data = x \o y /\ At(x, y).pos = Len(x) /\ Len(x \o y) = Len(x) + Len(y)
      BY DEF At
<1> QED BY <1>1, <1>2, Zenon DEF Ahead

\* A terminated string is read up to its zero, which is consumed too.
LEMMA TextTaken ==
    ASSUME NEW x \in Seq(Byte), NEW s \in Text, NEW z \in Seq(Byte)
    PROVE  read_string_nt_be(At(x, (s \o <<0>>) \o z)) = Taken(x, s \o <<0>>, z, s)
<1> DEFINE y == s \o <<0>>
           r == y \o z
           b == At(x, r)
<1>1. r \in Seq(Byte) /\ FirstZero(r) = Len(s) + 1 /\ SubSeq(r, 1, Len(s)) = s
      BY ZeroAfterText, Zenon
<1>2. y \in Seq(Byte) /\ Len(y) = Len(s) + 1 /\ Len(r) = Len(y) + Len(z) /\ Len(s) \in Nat /\ Len(z) \in Nat
  <2>1. 0 \in Byte
        BY DEF Byte, Base
  <2> QED BY <2>1, TextBytes
<1> HIDE DEF y
<1>3. SubSeq(b.data, b.pos + 1, Len(b.data)) = r
      BY <1>1, RestIs, Zenon
<1>4. Returns(b, Len(y), s) = Taken(x, y, z, s)
      BY <1>2, ReturnsTaken, ZenonT(30)
<1> HIDE DEF r, b
<1>5. ~(FirstZero(r) > Len(r)) /\ FirstZero(r) - 1 = Len(s) /\ FirstZero(r) = Len(y)
      BY <1>1, <1>2
<1>6. read_string_nt_be(b) = Returns(b, FirstZero(r), SubSeq(r, 1, FirstZero(r) - 1))
      BY <1>3, <1>5, Zenon DEF read_string_nt_be
<1>7. read_string_nt_be(b) = Taken(x, y, z, s)
      BY <1>1, <1>4, <1>5, <1>6, Zenon
<1> QED BY <1>7, Zenon DEF b, r, y

\* A sequence that is reversed on the way is turned round again.
LEMMA ReversedTwice ==
    ASSUME NEW D, NEW s \in Seq(D)
    PROVE  Reversed(s) \in Seq(D) /\ Len(Reversed(s)) = Len(s) /\ Reversed(Reversed(s)) = s
<1> DEFINE n == Len(s)
           r == Reversed(s)
<1>1. s \in Seq(D)
      OBVIOUS
<1>2. n \in Nat /\ \A i \in 1..n : s[i] \in D /\ n + 1 - i \in 1..n /\ n + 1 - (n + 1 - i) = i
      BY <1>1
<1>3. r \in [1..n -> D] /\ \A i \in 1..n : r[i] = s[n + 1 - i]
      BY <1>2 DEF Reversed
<1>4. r \in Seq(D) /\ Len(r) = n
      BY <1>2, <1>3
<1> HIDE DEF r
<1>5. Reversed(r) \in [1..n -> D] /\ \A i \in 1..n : Reversed(r)[i] = r[n + 1 - i]
      BY <1>2, <1>3, <1>4 DEF Reversed
<1>6. Reversed(r) \in Seq(D) /\ Len(Reversed(r)) = n
      BY <1>2, <1>5
<1>7. ASSUME NEW i \in 1..n PROVE Reversed(r)[i] = s[i]
      BY <1>2, <1>3, <1>5, Zenon
<1>8. Reversed(r) = s
      BY <1>1, <1>6, <1>7, SameSeq, Zenon
<1> QED BY <1>4, <1>8, Zenon DEF r

\* write_string_nt_le() and read_string_nt_le(): the name arrives.
LEMMA NameArrives ==
    ASSUME NEW s \in Text
    PROVE  /\ write_string_nt_le(NewBuffer(<<>>), s).data = Reversed(s) \o <<0>>
           /\ Reversed(s) \o <<0>> \in Seq(Byte) /\ Len(Reversed(s) \o <<0>>) = Len(s) + 1
           /\ read_string_nt_le(NewBuffer(Reversed(s) \o <<0>>)).value = s
<1> DEFINE r == Reversed(s)
           y == r \o <<0>>
<1>1. r \in Text /\ Len(r) = Len(s) /\ Reversed(r) = s
      BY ReversedTwice, Zenon DEF Text
<1>2. r \in Seq(Byte) /\ <<>> \in Seq(Byte)
      BY <1>1, TextBytes, EmptyFacts, Zenon
<1>3. y \in Seq(Byte) /\ Len(y) = Len(s) + 1
  <2>1. 0 \in Byte
        BY DEF Byte, Base
  <2> HIDE DEF r
  <2> QED BY <1>1, <1>2, <2>1
<1>4. write_string_nt_le(NewBuffer(<<>>), s).data = (<<>> \o r) \o <<0>>
      BY DEF write_string_nt_le, write_string_raw_le, write_bytes, NewBuffer
<1>5. write_string_nt_le(NewBuffer(<<>>), s).data = y
      BY <1>2, <1>4, EmptyFacts, Zenon
<1> HIDE DEF r
<1>6. NewBuffer(y) = At(<<>>, (r \o <<0>>) \o <<>>)
      BY <1>3, NewBufferAt, EmptyFacts, Zenon
<1>7. read_string_nt_be(NewBuffer(y)) = Taken(<<>>, r \o <<0>>, <<>>, r)
      BY <1>1, <1>2, <1>6, TextTaken, Zenon
<1>8. read_string_nt_le(NewBuffer(y)).value = Reversed(r)
      BY <1>7 DEF read_string_nt_le, Taken
<1> QED BY <1>1, <1>3, <1>5, <1>8, Zenon DEF r

----------------------------------------------------------------------------
(* Every encoding.                                                          *)

\* The buffer b, which a write to x left, with z written after it: before the
\* field is read, and as the read that returns value leaves it.
Unread(x, b, z) == [data |-> b.data \o z, pos |-> Len(x)]
ReadUp(b, z, value) == [buffer |-> [data |-> b.data \o z, pos |-> Len(b.data)], value |-> value, ok |-> TRUE]

\* A call that takes exactly the bytes y of the field and returns value.
Exactly(x, y, z, value) ==
    LET b == write_bytes(NewBuffer(x), y)
        u == Unread(x, b, z)
    IN check_read(u, Len(y)) /\ Ahead(u, Len(y)) = y /\ Returns(u, Len(y), value) = ReadUp(b, z, value)

\* It finds them and leaves the buffer at what follows.
LEMMA ExactRead ==
    ASSUME NEW x \in Seq(Byte), NEW y \in Seq(Byte), NEW z \in Seq(Byte), NEW value
    PROVE  Exactly(x, y, z, value)
<1>1. write_bytes(NewBuffer(x), y).data = x \o y
      BY DEF write_bytes, NewBuffer
<1>2. (x \o y) \o z = x \o (y \o z)
      OBVIOUS
<1>3. LET b == write_bytes(NewBuffer(x), y)
      IN Unread(x, b, z) = At(x, y \o z) /\ ReadUp(b, z, value) = Taken(x, y, z, value)
      BY <1>1, <1>2, Zenon DEF Unread, ReadUp, At, Taken
<1>4. check_read(At(x, y \o z), Len(y)) /\ Ahead(At(x, y \o z), Len(y)) = y
      BY AheadIs, Zenon
<1>5. Returns(At(x, y \o z), Len(y), value) = Taken(x, y, z, value)
      BY ReturnsTaken, ZenonT(30)
<1> QED BY <1>3, <1>4, <1>5, Zenon DEF Exactly

\* Integers, in either byte order.
LEMMA IntegersReadBack ==
    ASSUME NEW x \in Seq(Byte), NEW z \in Seq(Byte), NEW w \in Nat, NEW v \in Nat, v < Power[w]
    PROVE  /\ read_uint_be(Unread(x, write_uint_be(NewBuffer(x), v, w), z), w) = ReadUp(write_uint_be(NewBuffer(x), v, w), z, v)
           /\ read_uint_le(Unread(x, write_uint_le(NewBuffer(x), v, w), z), w) = ReadUp(write_uint_le(NewBuffer(x), v, w), z, v)
<1> DEFINE y == BigEndian(v, w)
           r == Reversed(y)
<1>1. y \in Seq(Byte) /\ Len(y) = w /\ Value(y) = v
      BY BigEndianType, ValueOfBytes, Zenon
<1>2. r \in Seq(Byte) /\ Len(r) = w /\ Reversed(r) = y
      BY <1>1, ReversedTwice, Zenon
<1> HIDE DEF y, r
<1> DEFINE b == write_bytes(NewBuffer(x), y)
           l == write_bytes(NewBuffer(x), r)
<1>3. check_read(Unread(x, b, z), w) /\ Ahead(Unread(x, b, z), w) = y /\ Returns(Unread(x, b, z), w, v) = ReadUp(b, z, v)
  <2>1. Exactly(x, y, z, v)
        BY <1>1, ExactRead, Zenon
  <2> QED BY <1>1, <2>1, Zenon DEF Exactly
<1>4. check_read(Unread(x, l, z), w) /\ Ahead(Unread(x, l, z), w) = r /\ Returns(Unread(x, l, z), w, v) = ReadUp(l, z, v)
  <2>1. Exactly(x, r, z, v)
        BY <1>2, ExactRead, Zenon
  <2> QED BY <1>2, <2>1, Zenon DEF Exactly
<1>5. write_uint_be(NewBuffer(x), v, w) = b /\ write_uint_le(NewBuffer(x), v, w) = l
      BY Zenon DEF write_uint_be, write_uint_le, LittleEndian, y, r
<1> HIDE DEF b, l
<1>6. read_uint_be(Unread(x, b, z), w) = ReadUp(b, z, v)
      BY <1>1, <1>3, Zenon DEF read_uint_be
<1>7. read_uint_le(Unread(x, l, z), w) = ReadUp(l, z, v)
      BY <1>1, <1>2, <1>4, Zenon DEF read_uint_le
<1> QED BY <1>5, <1>6, <1>7, Zenon

\* static_cast to the unsigned integer and back.
LEMMA CastsInverse ==
    ASSUME NEW w \in Nat, NEW v \in Int, -Power[w] <= 2 * v, 2 * v < Power[w]
    PROVE  ToUnsigned(v, w) \in Nat /\ ToUnsigned(v, w) < Power[w] /\ ToSigned(ToUnsigned(v, w), w) = v
<1> DEFINE m == Power[w]
<1>1. m \in Nat \ {0} /\ -m <= 2 * v /\ 2 * v < m
      BY PowerSteps, Zenon
<1>2. ToUnsigned(v, w) = v % m
      BY Zenon DEF ToUnsigned
<1>3. \A u : ToSigned(u, w) = IF 2 * u >= m THEN u - m ELSE u
      BY Zenon DEF ToSigned
<1> HIDE DEF m
<1>4. v % m = IF v < 0 THEN v + m ELSE v
  <2>1. CASE v >= 0
        BY <1>1, <2>1
  <2>2. CASE v < 0
    <3>1. v + m \in 0..(m - 1)
          BY <1>1, <2>2
    <3>2. v = m * (-1) + (v + m)
          BY <1>1
    <3> QED BY <1>1, <2>2, <3>1, <3>2
  <2> QED BY <2>1, <2>2
<1>5. (v % m) \in Nat /\ v % m < m /\ (IF 2 * (v % m) >= m THEN (v % m) - m ELSE v % m) = v
      BY <1>1, <1>4
<1> QED BY <1>2, <1>3, <1>5, Zenon DEF m

\* A bool.
LEMMA BoolReadBack ==
    ASSUME NEW x \in Seq(Byte), NEW z \in Seq(Byte), NEW v \in BOOLEAN
    PROVE  read_bool(Unread(x, write_bool(NewBuffer(x), v), z)) = ReadUp(write_bool(NewBuffer(x), v), z, v)
<1> DEFINE y == <<IF v THEN 1 ELSE 0>>
           b == write_bytes(NewBuffer(x), y)
<1>1. y \in Seq(Byte) /\ Len(y) = 1 /\ (y # <<0>>) = v
  <2>1. 0 \in Byte /\ 1 \in Byte
        BY DEF Byte, Base
  <2>2. \A d \in Byte : <<d>> \in Seq(Byte) /\ Len(<<d>>) = 1
        OBVIOUS
  <2>3. <<1>> # <<0>>
        OBVIOUS
  <2>4. CASE v = TRUE
        BY <2>1, <2>2, <2>3, <2>4, Zenon
  <2>5. CASE v = FALSE
        BY <2>1, <2>2, <2>5, Zenon
  <2> QED BY <2>4, <2>5, Zenon
<1>2. write_bool(NewBuffer(x), v) = b
      BY Zenon DEF write_bool
<1> HIDE DEF y
<1>3. Exactly(x, y, z, v)
      BY <1>1, ExactRead, Zenon
<1>4. check_read(Unread(x, b, z), 1) /\ Ahead(Unread(x, b, z), 1) = y /\ Returns(Unread(x, b, z), 1, v) = ReadUp(b, z, v)
      BY <1>1, <1>3, Zenon DEF Exactly
<1> HIDE DEF b
<1>5. read_bool(Unread(x, b, z)) = ReadUp(b, z, v)
      BY <1>1, <1>4, Zenon DEF read_bool
<1> QED BY <1>2, <1>5, Zenon

\* Strings whose length is given to the read, in either byte order.
LEMMA RawReadBack ==
    ASSUME NEW x \in Seq(Byte), NEW z \in Seq(Byte), NEW s \in Seq(Byte)
    PROVE  /\ read_string_raw_be(Unread(x, write_string_raw_be(NewBuffer(x), s), z), Len(s)) = ReadUp(write_string_raw_be(NewBuffer(x), s), z, s)
           /\ read_string_raw_le(Unread(x, write_string_raw_le(NewBuffer(x), s), z), Len(s)) = ReadUp(write_string_raw_le(NewBuffer(x), s), z, s)
<1> DEFINE r == Reversed(s)
           b == write_bytes(NewBuffer(x), s)
           l == write_bytes(NewBuffer(x), r)
<1>1. r \in Seq(Byte) /\ Len(r) = Len(s) /\ Reversed(r) = s
      BY ReversedTwice, Zenon
<1>2. write_string_raw_be(NewBuffer(x), s) = b /\ write_string_raw_le(NewBuffer(x), s) = l
      BY Zenon DEF write_string_raw_be, write_string_raw_le
<1> HIDE DEF r
<1>3. Exactly(x, s, z, s) /\ Exactly(x, r, z, s)
      BY <1>1, ExactRead, Zenon
<1>4. /\ check_read(Unread(x, b, z), Len(s)) /\ Ahead(Unread(x, b, z), Len(s)) = s
      /\ Returns(Unread(x, b, z), Len(s), s) = ReadUp(b, z, s)
      BY <1>3, Zenon DEF Exactly
<1>5. /\ check_read(Unread(x, l, z), Len(s)) /\ Ahead(Unread(x, l, z), Len(s)) = r
      /\ Returns(Unread(x, l, z), Len(s), s) = ReadUp(l, z, s)
      BY <1>1, <1>3, Zenon DEF Exactly
<1> HIDE DEF b, l
<1>6. read_string_raw_be(Unread(x, b, z), Len(s)) = ReadUp(b, z, s)
      BY <1>4, Zenon DEF read_string_raw_be, read_bytes
<1>7. read_string_raw_le(Unread(x, l, z), Len(s)) = ReadUp(l, z, s)
      BY <1>1, <1>5, Zenon DEF read_string_raw_le
<1> QED BY <1>2, <1>6, <1>7, Zenon

\* Terminated strings, in either byte order.
LEMMA TextReadBack ==
    ASSUME NEW x \in Seq(Byte), NEW z \in Seq(Byte), NEW s \in Text
    PROVE  /\ read_string_nt_be(Unread(x, write_string_nt_be(NewBuffer(x), s), z)) = ReadUp(write_string_nt_be(NewBuffer(x), s), z, s)
           /\ read_string_nt_le(Unread(x, write_string_nt_le(NewBuffer(x), s), z)) = ReadUp(write_string_nt_le(NewBuffer(x), s), z, s)
<1>1. ASSUME NEW t \in Text, NEW b, b.data = (x \o t) \o << 0 >>
      PROVE  read_string_nt_be(Unread(x, b, z)) = ReadUp(b, z, t)
  <2>1. t \in Seq(Byte) /\ <<0>> \in Seq(Byte)
    <3>1. 0 \in Byte
          BY DEF Byte, Base
    <3> QED BY <3>1, TextBytes
  <2> DEFINE y == t \o <<0>>
  <2>2. y \in Seq(Byte) /\ b.data = x \o y
        BY <1>1, <2>1
  <2>3. read_string_nt_be(At(x, y \o z)) = Taken(x, y, z, t)
        BY TextTaken, Zenon
  <2> HIDE DEF y
  <2>4. (x \o y) \o z = x \o (y \o z)
        BY <2>2
  <2>5. Unread(x, b, z) = At(x, y \o z) /\ ReadUp(b, z, t) = Taken(x, y, z, t)
        BY <2>2, <2>4, Zenon DEF Unread, ReadUp, At, Taken
  <2> QED BY <2>3, <2>5, Zenon
<1> DEFINE r == Reversed(s)
           b == write_string_nt_be(NewBuffer(x), s)
           l == write_string_nt_le(NewBuffer(x), s)
<1>2. r \in Text /\ Reversed(r) = s
      BY ReversedTwice, Zenon DEF Text
<1>3. b.data = (x \o s) \o <<0>> /\ l.data = (x \o r) \o <<0>>
      BY DEF write_string_nt_be, write_string_nt_le, write_string_raw_be, write_string_raw_le, write_bytes, NewBuffer
<1> HIDE DEF b, l, r
<1>4. read_string_nt_be(Unread(x, b, z)) = ReadUp(b, z, s) /\ read_string_nt_be(Unread(x, l, z)) = ReadUp(l, z, r)
      BY <1>1, <1>2, <1>3, Zenon
<1>5. [ReadUp(l, z, r) EXCEPT !.value = Reversed(@)] = ReadUp(l, z, s)
  <2> DEFINE u == [data |-> l.data \o z, pos |-> Len(l.data)]
  <2>1. \A v : ReadUp(l, z, v) = [buffer |-> u, value |-> v, ok |-> TRUE]
        BY Zenon DEF ReadUp
  <2> HIDE DEF u
  <2>2. \A o : [[buffer |-> u, value |-> r, ok |-> o] EXCEPT !.value = s] = [buffer |-> u, value |-> s, ok |-> o]
        OBVIOUS
  <2>3. [buffer |-> u, value |-> r, ok |-> TRUE].value = r
        OBVIOUS
  <2> QED BY <1>2, <2>1, <2>2, <2>3, Zenon
<1>6. read_string_nt_le(Unread(x, l, z)) = ReadUp(l, z, s)
      BY <1>4, <1>5, Zenon DEF read_string_nt_le
<1> QED BY <1>4, <1>6, Zenon DEF b, l

\* Every pair of calls of ByteBuffer, for integers of any width in either byte
\* order, bools and strings of both kinds: what the write appended to x is what
\* the read returns, and it leaves the position exactly where the write ended,
\* so that no field takes a byte of the one after it, z, or leaves one to it.
THEOREM FieldsReadBack ==
    ASSUME NEW x \in Seq(Byte), NEW z \in Seq(Byte)
    PROVE  LET b == NewBuffer(x)
               Back(read, written, value) == read = ReadUp(written, z, value)
           IN /\ \A w \in Nat, v \in Nat : v < Power[w] =>
                   /\ Back(read_uint_be(Unread(x, write_uint_be(b, v, w), z), w), write_uint_be(b, v, w), v)
                   /\ Back(read_uint_le(Unread(x, write_uint_le(b, v, w), z), w), write_uint_le(b, v, w), v)
              /\ \A w \in Nat, v \in Int : -Power[w] <= 2 * v /\ 2 * v < Power[w] =>
                   LET u == ToUnsigned(v, w)
                   IN /\ Back(read_uint_be(Unread(x, write_uint_be(b, u, w), z), w), write_uint_be(b, u, w), u)
                      /\ Back(read_uint_le(Unread(x, write_uint_le(b, u, w), z), w), write_uint_le(b, u, w), u)
                      /\ ToSigned(u, w) = v
              /\ \A v \in BOOLEAN : Back(read_bool(Unread(x, write_bool(b, v), z)), write_bool(b, v), v)
              /\ \A s \in Seq(Byte) :
                   /\ Back(read_string_raw_be(Unread(x, write_string_raw_be(b, s), z), Len(s)), write_string_raw_be(b, s), s)
                   /\ Back(read_string_raw_le(Unread(x, write_string_raw_le(b, s), z), Len(s)), write_string_raw_le(b, s), s)
              /\ \A s \in Text :
                   /\ Back(read_string_nt_be(Unread(x, write_string_nt_be(b, s), z)), write_string_nt_be(b, s), s)
                   /\ Back(read_string_nt_le(Unread(x, write_string_nt_le(b, s), z)), write_string_nt_le(b, s), s)
<1> DEFINE b == NewBuffer(x)
           Plain(v, w) ==
             /\ read_uint_be(Unread(x, write_uint_be(b, v, w), z), w) = ReadUp(write_uint_be(b, v, w), z, v)
             /\ read_uint_le(Unread(x, write_uint_le(b, v, w), z), w) = ReadUp(write_uint_le(b, v, w), z, v)
<1>1. \A w \in Nat, v \in Nat : v < Power[w] => Plain(v, w)
      BY IntegersReadBack, Zenon
<1>2. ASSUME NEW w \in Nat, NEW v \in Int, -Power[w] <= 2 * v /\ 2 * v < Power[w]
      PROVE  Plain(ToUnsigned(v, w), w) /\ ToSigned(ToUnsigned(v, w), w) = v
  <2>1. ToUnsigned(v, w) \in Nat /\ ToUnsigned(v, w) < Power[w] /\ ToSigned(ToUnsigned(v, w), w) = v
        BY <1>2, CastsInverse, Zenon
  <2> HIDE DEF Plain
  <2> QED BY <1>1, <2>1, Zenon
<1>3. \A v \in BOOLEAN : read_bool(Unread(x, write_bool(b, v), z)) = ReadUp(write_bool(b, v), z, v)
      BY BoolReadBack, Zenon
<1>4. \A s \in Seq(Byte) :
        /\ read_string_raw_be(Unread(x, write_string_raw_be(b, s), z), Len(s)) = ReadUp(write_string_raw_be(b, s), z, s)
        /\ read_string_raw_le(Unread(x, write_string_raw_le(b, s), z), Len(s)) = ReadUp(write_string_raw_le(b, s), z, s)
      BY RawReadBack, Zenon
<1>5. \A s \in Text :
        /\ read_string_nt_be(Unread(x, write_string_nt_be(b, s), z)) = ReadUp(write_string_nt_be(b, s), z, s)
        /\ read_string_nt_le(Unread(x, write_string_nt_le(b, s), z)) = ReadUp(write_string_nt_le(b, s), z, s)
      BY TextReadBack, Zenon
<1> QED BY <1>1, <1>2, <1>3, <1>4, <1>5, Zenon

\* What a read may leave behind: the position inside the buffer and not before
\* where it was, and the buffer as it was if the read throws.
Inside(b, r) ==
    /\ r.buffer \in ByteBuffer /\ r.buffer.data = b.data /\ r.buffer.pos \in b.pos..Len(b.data)
    /\ r.ok \in BOOLEAN /\ (~r.ok => r.buffer = b)

\* A call that checks for n bytes first.
LEMMA CheckedInside ==
    ASSUME NEW b \in ByteBuffer, b.pos <= Len(b.data), NEW n \in Nat, NEW value
    PROVE  Inside(b, IF check_read(b, n) THEN Returns(b, n, value) ELSE Throws(b))
<1>1. b.pos \in Nat /\ b.data \in Seq(Byte) /\ Len(b.data) \in Nat
      BY DEF ByteBuffer
<1>2. CASE check_read(b, n)
  <2>1. Returns(b, n, value).buffer = [b EXCEPT !.pos = @ + n] /\ Returns(b, n, value).ok = TRUE
        BY DEF Returns
  <2>2. [b EXCEPT !.pos = @ + n].data = b.data /\ [b EXCEPT !.pos = @ + n].pos = b.pos + n
        BY DEF ByteBuffer
  <2>3. b.pos + n \in b.pos..Len(b.data)
        BY <1>1, <1>2 DEF check_read
  <2>4. [b EXCEPT !.pos = @ + n] \in ByteBuffer
        BY <1>1 DEF ByteBuffer
  <2>5. Inside(b, Returns(b, n, value))
        BY <2>1, <2>2, <2>3, <2>4, Zenon DEF Inside
  <2> QED BY <1>2, <2>5, Zenon
<1>3. CASE ~check_read(b, n)
  <2>1. Throws(b).buffer = b /\ Throws(b).ok = FALSE
        BY DEF Throws
  <2>2. b.pos \in b.pos..Len(b.data)
        BY <1>1
  <2>3. Inside(b, Throws(b))
        BY <2>1, <2>2, Zenon DEF Inside
  <2> QED BY <1>3, <2>3, Zenon
<1> QED BY <1>2, <1>3, Zenon

\* A terminated string never throws.
LEMMA TextInside ==
    ASSUME NEW b \in ByteBuffer, b.pos <= Len(b.data)
    PROVE  Inside(b, read_string_nt_be(b)) /\ read_string_nt_be(b).ok
<1> DEFINE rest == SubSeq(b.data, b.pos + 1, Len(b.data))
           f == FirstZero(rest)
<1>1. b.pos \in Nat /\ b.data \in Seq(Byte) /\ Len(b.data) \in Nat
      BY DEF ByteBuffer
<1>2. rest \in Seq(Byte) /\ Len(rest) = Len(b.data) - b.pos
      BY <1>1
<1> HIDE DEF rest
<1>3. f \in 1..(Len(rest) + 1)
      BY <1>2, FirstZeroIs, Zenon
<1> HIDE DEF f
<1>4. ASSUME NEW n \in Nat, n <= Len(rest), NEW value
      PROVE  Inside(b, Returns(b, n, value)) /\ Returns(b, n, value).ok
  <2>1. check_read(b, n)
        BY <1>1, <1>2, <1>4 DEF check_read
  <2>2. Returns(b, n, value).ok = TRUE
        BY DEF Returns
  <2> QED BY <2>1, <2>2, CheckedInside, Zenon
<1>5. CASE f > Len(rest)
  <2>1. read_string_nt_be(b) = Returns(b, Len(rest), rest)
        BY <1>5, Zenon DEF read_string_nt_be, f, rest
  <2>2. Len(rest) \in Nat /\ Len(rest) <= Len(rest)
        BY <1>2
  <2> QED BY <1>4, <2>1, <2>2, Zenon
<1>6. CASE ~(f > Len(rest))
  <2>1. read_string_nt_be(b) = Returns(b, f, SubSeq(rest, 1, f - 1))
        BY <1>6, Zenon DEF read_string_nt_be, f, rest
  <2>2. f \in Nat /\ f <= Len(rest)
        BY <1>2, <1>3, <1>6
  <2> QED BY <1>4, <2>1, <2>2, Zenon
<1> QED BY <1>5, <1>6, Zenon

\* No read of ByteBuffer, whatever the bytes are and however many are asked for,
\* leaves the position outside the buffer or moves it back, and one that throws
\* leaves the buffer alone.  So it is after any number of reads.  A terminated
\* string never throws: without a zero it ends with the buffer.
THEOREM ReadsAlwaysInside ==
    ASSUME NEW b \in ByteBuffer, b.pos <= Len(b.data), NEW n \in Nat
    PROVE  /\ Inside(b, read_bytes(b, n)) /\ Inside(b, skip(b, n))
           /\ Inside(b, read_uint_be(b, n)) /\ Inside(b, read_uint_le(b, n)) /\ Inside(b, read_bool(b))
           /\ Inside(b, read_string_raw_be(b, n)) /\ Inside(b, read_string_raw_le(b, n))
           /\ Inside(b, read_string_nt_be(b)) /\ read_string_nt_be(b).ok
           /\ Inside(b, read_string_nt_le(b)) /\ read_string_nt_le(b).ok
<1>1. \A value : Inside(b, IF check_read(b, n) THEN Returns(b, n, value) ELSE Throws(b))
      BY CheckedInside, Zenon
<1>2. \A value : Inside(b, IF check_read(b, 1) THEN Returns(b, 1, value) ELSE Throws(b))
  <2>1. 1 \in Nat
        OBVIOUS
  <2> QED BY <2>1, CheckedInside, Zenon
<1>3. Inside(b, read_bytes(b, n)) /\ Inside(b, skip(b, n)) /\ Inside(b, read_string_raw_be(b, n)) /\ Inside(b, read_string_raw_le(b, n))
      BY <1>1, Zenon DEF read_bytes, skip, read_string_raw_be, read_string_raw_le
<1>4. Inside(b, read_uint_be(b, n)) /\ Inside(b, read_uint_le(b, n)) /\ Inside(b, read_bool(b))
      BY <1>1, <1>2, Zenon DEF read_uint_be, read_uint_le, read_bool
<1>5. Inside(b, read_string_nt_be(b)) /\ read_string_nt_be(b).ok
      BY TextInside, Zenon
<1>6. Inside(b, read_string_nt_le(b)) /\ read_string_nt_le(b).ok
  <2>1. /\ read_string_nt_le(b).buffer = read_string_nt_be(b).buffer
        /\ read_string_nt_le(b).ok = read_string_nt_be(b).ok
    <3>1. PICK m, value : read_string_nt_be(b) = Returns(b, m, value)
          BY Zenon DEF read_string_nt_be
    <3> DEFINE buf == [b EXCEPT !.pos = @ + m]
    <3>2. read_string_nt_be(b) = [buffer |-> buf, value |-> value, ok |-> TRUE]
          BY <3>1, Zenon DEF Returns
    <3> HIDE DEF buf
    <3> QED BY <3>2 DEF read_string_nt_le
  <2> QED BY <1>5, <2>1, Zenon DEF Inside
<1> QED BY <1>3, <1>4, <1>5, <1>6, Zenon

----------------------------------------------------------------------------
(* Typed fields: the pairs of calls in Packet.                              *)

\* y is what Write() appends for the field, and Read() takes exactly that and
\* returns the field's value, whatever is before it and after it.
Encoded(f, y) ==
    /\ y \in Seq(Byte)
    /\ \A x \in Seq(Byte) : Write(NewBuffer(x), f) = NewBuffer(x \o y)
    /\ \A x, z \in Seq(Byte) : Read(At(x, y \o z), f) = Taken(x, y, z, f.value)

\* A write appends.
LEMMA Appends ==
    ASSUME NEW x, NEW y
    PROVE  write_bytes(NewBuffer(x), y) = NewBuffer(x \o y)
<1>1. \A d, e, p : [[data |-> d, pos |-> p] EXCEPT !.data = e] = [data |-> e, pos |-> p]
      OBVIOUS
<1>2. [data |-> x, pos |-> 0].data = x
      OBVIOUS
<1> QED BY <1>1, <1>2, Zenon DEF write_bytes, NewBuffer

\* The forms in which the lemmas above speak of a buffer.
LEMMA SameBuffers ==
    ASSUME NEW x \in Seq(Byte), NEW y \in Seq(Byte), NEW z \in Seq(Byte), NEW value
    PROVE  /\ Unread(x, NewBuffer(x \o y), z) = At(x, y \o z)
           /\ ReadUp(NewBuffer(x \o y), z, value) = Taken(x, y, z, value)
<1>1. NewBuffer(x \o y).data = x \o y
      BY DEF NewBuffer
<1>2. (x \o y) \o z = x \o (y \o z)
      OBVIOUS
<1> QED BY <1>1, <1>2, Zenon DEF Unread, ReadUp, At, Taken

\* The result of a read with another value.
LEMMA AsTaken ==
    ASSUME NEW x, NEW y, NEW z, NEW v, NEW value
    PROVE  As(Taken(x, y, z, v), value) = Taken(x, y, z, value)
<1> DEFINE u == At(x \o y, z)
<1>1. \A t : Taken(x, y, z, t) = [buffer |-> u, value |-> t, ok |-> TRUE]
      BY Zenon DEF Taken
<1> HIDE DEF u
<1>2. \A o : [[buffer |-> u, value |-> v, ok |-> o] EXCEPT !.value = value] = [buffer |-> u, value |-> value, ok |-> o]
      OBVIOUS
<1>3. [buffer |-> u, value |-> v, ok |-> TRUE].ok = TRUE /\ [buffer |-> u, value |-> v, ok |-> TRUE].value = v
      OBVIOUS
<1> QED BY <1>1, <1>2, <1>3, Zenon DEF As

\* What the writes of each kind are.
LEMMA WriteIs ==
    ASSUME NEW b, NEW f
    PROVE  /\ f.kind = "uint_be" => Write(b, f) = write_uint_be(b, f.value[1], f.w)
           /\ f.kind = "uint_le" => Write(b, f) = write_uint_le(b, f.value[1], f.w)
           /\ f.kind = "int_be" => Write(b, f) = write_uint_be(b, ToUnsigned(f.value[1], f.w), f.w)
           /\ f.kind = "int_le" => Write(b, f) = write_uint_le(b, ToUnsigned(f.value[1], f.w), f.w)
           /\ f.kind = "bool" => Write(b, f) = write_bool(b, f.value[1] = 1)
           /\ f.kind = "nt_be" => Write(b, f) = write_string_nt_be(b, f.value)
           /\ f.kind = "nt_le" => Write(b, f) = write_string_nt_le(b, f.value)
           /\ f.kind = "raw_be" => Write(b, f) = write_string_raw_be(b, f.value)
           /\ f.kind = "raw_le" => Write(b, f) = write_string_raw_le(b, f.value)
BY DEF Write

\* What the reads of each kind are.
LEMMA ReadIs ==
    ASSUME NEW b, NEW f
    PROVE  /\ f.kind = "uint_be" => Read(b, f) = As(read_uint_be(b, f.w), <<read_uint_be(b, f.w).value>>)
           /\ f.kind = "uint_le" => Read(b, f) = As(read_uint_le(b, f.w), <<read_uint_le(b, f.w).value>>)
           /\ f.kind = "int_be" => Read(b, f) = As(read_uint_be(b, f.w), <<ToSigned(read_uint_be(b, f.w).value, f.w)>>)
           /\ f.kind = "int_le" => Read(b, f) = As(read_uint_le(b, f.w), <<ToSigned(read_uint_le(b, f.w).value, f.w)>>)
           /\ f.kind = "bool" => Read(b, f) = As(read_bool(b), <<IF read_bool(b).value THEN 1 ELSE 0>>)
           /\ f.kind = "nt_be" => Read(b, f) = read_string_nt_be(b)
           /\ f.kind = "nt_le" => Read(b, f) = read_string_nt_le(b)
           /\ f.kind = "raw_be" => Read(b, f) = read_string_raw_be(b, f.w)
           /\ f.kind = "raw_le" => Read(b, f) = read_string_raw_le(b, f.w)
BY DEF Read

\* A number below Power[w], by its most significant byte.
LEMMA TopByte ==
    ASSUME NEW w \in 1..8, NEW v \in Int
    PROVE  /\ v \div Power[w - 1] \in Byte => v \in Nat /\ v < Power[w]
           /\ v \div Power[w - 1] \in (-128)..127 => -Power[w] <= 2 * v /\ 2 * v < Power[w]
<1> DEFINE p == Power[w - 1]
<1>1. p \in Nat \ {0} /\ Power[w] = Base * p
  <2>1. w - 1 \in Nat /\ (w - 1) + 1 = w
        OBVIOUS
  <2> QED BY <2>1, PowerSteps, Zenon
<1> HIDE DEF p
<1> DEFINE q == v \div p
<1>2. q \in Int /\ p * q <= v /\ v < p * q + p
      BY <1>1
<1>3. Power[w] = 256 * p
      BY <1>1 DEF Base
<1> HIDE DEF q
<1>4. ASSUME q \in Byte PROVE v \in Nat /\ v < Power[w]
  <2>1. q >= 0 /\ q + 1 <= 256
        BY <1>4 DEF Byte, Base
  <2>2. p * q >= 0 /\ p * (q + 1) <= p * 256 /\ p * (q + 1) = p * q + p
        BY <1>1, <1>2, <2>1
  <2> QED BY <1>1, <1>2, <1>3, <2>2
<1>5. ASSUME q \in (-128)..127 PROVE -Power[w] <= 2 * v /\ 2 * v < Power[w]
  <2>1. q >= -128 /\ q + 1 <= 128
        BY <1>5
  <2>2. p * q >= p * (-128) /\ p * (q + 1) <= p * 128 /\ p * (q + 1) = p * q + p
        BY <1>1, <1>2, <2>1
  <2> QED BY <1>1, <1>2, <1>3, <2>2
<1> QED BY <1>4, <1>5, Zenon DEF p, q

\* Integers are written in either byte order.
LEMMA IntegerWritten ==
    ASSUME NEW x, NEW w, NEW v
    PROVE  /\ write_uint_be(NewBuffer(x), v, w) = NewBuffer(x \o BigEndian(v, w))
           /\ write_uint_le(NewBuffer(x), v, w) = NewBuffer(x \o LittleEndian(v, w))
BY Appends, Zenon DEF write_uint_be, write_uint_le

\* Their bytes.
LEMMA LittleEndianType ==
    ASSUME NEW w \in Nat, NEW v \in Nat, v < Power[w]
    PROVE  LittleEndian(v, w) \in Seq(Byte) /\ Len(LittleEndian(v, w)) = w
<1>1. BigEndian(v, w) \in Seq(Byte) /\ Len(BigEndian(v, w)) = w
      BY BigEndianType, Zenon
<1> QED BY <1>1, ReversedTwice, Zenon DEF LittleEndian

\* read_uint_le() returns the number that was written.
LEMMA LittleTaken ==
    ASSUME NEW x \in Seq(Byte), NEW z \in Seq(Byte), NEW w \in Nat, NEW v \in Nat, v < Power[w]
    PROVE  read_uint_le(At(x, LittleEndian(v, w) \o z), w) = Taken(x, LittleEndian(v, w), z, v)
<1> DEFINE y == LittleEndian(v, w)
           b == write_uint_le(NewBuffer(x), v, w)
<1>1. read_uint_le(Unread(x, b, z), w) = ReadUp(b, z, v)
      BY IntegersReadBack, Zenon
<1>2. b = NewBuffer(x \o y)
      BY IntegerWritten, Zenon
<1>3. y \in Seq(Byte)
      BY LittleEndianType, Zenon
<1> HIDE DEF y, b
<1>4. Unread(x, b, z) = At(x, y \o z) /\ ReadUp(b, z, v) = Taken(x, y, z, v)
      BY <1>2, <1>3, SameBuffers, Zenon
<1> QED BY <1>1, <1>4, Zenon DEF y

\* The bytes of a field of at most n bytes.
EncodedIn(f, n) == \E y : Encoded(f, y) /\ Len(y) <= n

\* How a field is shown to be encoded as y: the call takes y and returns v, of
\* which Read() makes the field's value.
LEMMA EncodedAs ==
    ASSUME NEW f, NEW y \in Seq(Byte), NEW v, NEW n, Len(y) <= n,
           \A x \in Seq(Byte) : Write(NewBuffer(x), f) = NewBuffer(x \o y),
           \A x, z \in Seq(Byte) : Read(At(x, y \o z), f) = As(Taken(x, y, z, v), f.value)
    PROVE  EncodedIn(f, n)
<1>1. ASSUME NEW x \in Seq(Byte), NEW z \in Seq(Byte)
      PROVE  Read(At(x, y \o z), f) = Taken(x, y, z, f.value)
  <2>1. Read(At(x, y \o z), f) = As(Taken(x, y, z, v), f.value)
        BY Zenon
  <2>2. As(Taken(x, y, z, v), f.value) = Taken(x, y, z, f.value)
        BY AsTaken
  <2> QED BY <2>1, <2>2, Zenon
<1>2. Encoded(f, y)
      BY <1>1, Zenon DEF Encoded
<1> QED BY <1>2, Zenon DEF EncodedIn

\* Numbers.
LEMMA NumberEncoded ==
    ASSUME NEW f, IsNumber(f)
    PROVE  EncodedIn(f, 8)
<1> DEFINE v == f.value[1]
           w == f.w
           u == ToUnsigned(v, w)
<1>1. /\ f.kind \in Unsigned \/ f.kind \in Signed \/ f.kind = "bool"
      /\ w \in 1..8 /\ w \in Nat /\ w <= 8 /\ v \in Int /\ f.value = <<v>>
  <2>1. f.kind \in Unsigned \cup Signed \cup {"bool"} /\ w \in 1..8 /\ f.value \in Seq(Int) /\ Len(f.value) = 1
        BY Zenon DEF IsNumber
  <2>2. f.value[1] \in Int /\ f.value = <<f.value[1]>>
        BY <2>1
  <2> QED BY <2>1, <2>2
<1>2. CASE f.kind \in Unsigned
  <2>1. v \in Nat /\ v < Power[w]
        BY <1>1, <1>2, TopByte, Zenon DEF IsNumber
  <2> HIDE DEF v, w
  <2>2. CASE f.kind = "uint_be"
    <3> DEFINE y == BigEndian(v, w)
    <3>1. y \in Seq(Byte) /\ Len(y) = w
          BY <1>1, <2>1, BigEndianType, Zenon
    <3>2. ASSUME NEW x \in Seq(Byte) PROVE Write(NewBuffer(x), f) = NewBuffer(x \o y)
      <4>1. Write(NewBuffer(x), f) = write_uint_be(NewBuffer(x), v, w)
            BY <2>2, WriteIs, Zenon DEF v, w
      <4> QED BY <4>1, IntegerWritten
    <3>3. ASSUME NEW x \in Seq(Byte), NEW z \in Seq(Byte)
          PROVE  Read(At(x, y \o z), f) = As(Taken(x, y, z, v), f.value)
      <4>1. read_uint_be(At(x, y \o z), w) = Taken(x, y, z, v)
            BY <1>1, <2>1, NumberTaken, Zenon
      <4>2. Read(At(x, y \o z), f) = As(read_uint_be(At(x, y \o z), w), <<read_uint_be(At(x, y \o z), w).value>>)
            BY <2>2, ReadIs, Zenon DEF w
      <4>3. Taken(x, y, z, v).value = v
            BY DEF Taken
      <4> HIDE DEF y
      <4> QED BY <1>1, <2>1, <4>1, <4>2, <4>3, Zenon
    <3> HIDE DEF y
    <3>4. Len(y) <= 8
          BY <1>1, <3>1, Zenon
    <3> QED BY <3>1, <3>2, <3>3, <3>4, EncodedAs, Zenon
  <2>3. CASE f.kind = "uint_le"
    <3> DEFINE y == LittleEndian(v, w)
    <3>1. y \in Seq(Byte) /\ Len(y) = w
          BY <1>1, <2>1, LittleEndianType, Zenon
    <3>2. ASSUME NEW x \in Seq(Byte) PROVE Write(NewBuffer(x), f) = NewBuffer(x \o y)
      <4>1. Write(NewBuffer(x), f) = write_uint_le(NewBuffer(x), v, w)
            BY <2>3, WriteIs, Zenon DEF v, w
      <4> QED BY <4>1, IntegerWritten
    <3>3. ASSUME NEW x \in Seq(Byte), NEW z \in Seq(Byte)
          PROVE  Read(At(x, y \o z), f) = As(Taken(x, y, z, v), f.value)
      <4>1. read_uint_le(At(x, y \o z), w) = Taken(x, y, z, v)
            BY <1>1, <2>1, LittleTaken, Zenon
      <4>2. Read(At(x, y \o z), f) = As(read_uint_le(At(x, y \o z), w), <<read_uint_le(At(x, y \o z), w).value>>)
            BY <2>3, ReadIs, Zenon DEF w
      <4>3. Taken(x, y, z, v).value = v
            BY DEF Taken
      <4> HIDE DEF y
      <4> QED BY <1>1, <2>1, <4>1, <4>2, <4>3, Zenon
    <3> HIDE DEF y
    <3>4. Len(y) <= 8
          BY <1>1, <3>1, Zenon
    <3> QED BY <3>1, <3>2, <3>3, <3>4, EncodedAs, Zenon
  <2> QED BY <1>2, <2>2, <2>3, Zenon DEF Unsigned
<1>3. CASE f.kind \in Signed
  <2>1. -Power[w] <= 2 * v /\ 2 * v < Power[w]
        BY <1>1, <1>3, TopByte, Zenon DEF IsNumber
  <2>2. u \in Nat /\ u < Power[w] /\ ToSigned(u, w) = v
        BY <1>1, <2>1, CastsInverse, Zenon
  <2> HIDE DEF v, w, u
  <2>3. CASE f.kind = "int_be"
    <3> DEFINE y == BigEndian(u, w)
    <3>1. y \in Seq(Byte) /\ Len(y) = w
          BY <1>1, <2>2, BigEndianType, Zenon
    <3>2. ASSUME NEW x \in Seq(Byte) PROVE Write(NewBuffer(x), f) = NewBuffer(x \o y)
      <4>1. Write(NewBuffer(x), f) = write_uint_be(NewBuffer(x), u, w)
            BY <2>3, WriteIs, Zenon DEF v, w, u
      <4> QED BY <4>1, IntegerWritten
    <3>3. ASSUME NEW x \in Seq(Byte), NEW z \in Seq(Byte)
          PROVE  Read(At(x, y \o z), f) = As(Taken(x, y, z, u), f.value)
      <4>1. read_uint_be(At(x, y \o z), w) = Taken(x, y, z, u)
            BY <1>1, <2>2, NumberTaken, Zenon
      <4>2. Read(At(x, y \o z), f) = As(read_uint_be(At(x, y \o z), w), <<ToSigned(read_uint_be(At(x, y \o z), w).value, w)>>)
            BY <2>3, ReadIs, Zenon DEF w
      <4>3. Taken(x, y, z, u).value = u
            BY DEF Taken
      <4> HIDE DEF y
      <4> QED BY <1>1, <2>2, <4>1, <4>2, <4>3, Zenon
    <3> HIDE DEF y
    <3>4. Len(y) <= 8
          BY <1>1, <3>1, Zenon
    <3> QED BY <3>1, <3>2, <3>3, <3>4, EncodedAs, Zenon
  <2>4. CASE f.kind = "int_le"
    <3> DEFINE y == LittleEndian(u, w)
    <3>1. y \in Seq(Byte) /\ Len(y) = w
          BY <1>1, <2>2, LittleEndianType, Zenon
    <3>2. ASSUME NEW x \in Seq(Byte) PROVE Write(NewBuffer(x), f) = NewBuffer(x \o y)
      <4>1. Write(NewBuffer(x), f) = write_uint_le(NewBuffer(x), u, w)
            BY <2>4, WriteIs, Zenon DEF v, w, u
      <4> QED BY <4>1, IntegerWritten
    <3>3. ASSUME NEW x \in Seq(Byte), NEW z \in Seq(Byte)
          PROVE  Read(At(x, y \o z), f) = As(Taken(x, y, z, u), f.value)
      <4>1. read_uint_le(At(x, y \o z), w) = Taken(x, y, z, u)
            BY <1>1, <2>2, LittleTaken, Zenon
      <4>2. Read(At(x, y \o z), f) = As(read_uint_le(At(x, y \o z), w), <<ToSigned(read_uint_le(At(x, y \o z), w).value, w)>>)
            BY <2>4, ReadIs, Zenon DEF w
      <4>3. Taken(x, y, z, u).value = u
            BY DEF Taken
      <4> HIDE DEF y
      <4> QED BY <1>1, <2>2, <4>1, <4>2, <4>3, Zenon
    <3> HIDE DEF y
    <3>4. Len(y) <= 8
          BY <1>1, <3>1, Zenon
    <3> QED BY <3>1, <3>2, <3>3, <3>4, EncodedAs, Zenon
  <2> QED BY <1>3, <2>3, <2>4, Zenon DEF Signed
<1>4. CASE f.kind = "bool"
  <2> DEFINE t == v = 1
             y == <<IF t THEN 1 ELSE 0>>
  <2>1. v \in {0, 1}
        BY <1>4, Zenon DEF IsNumber
  <2>2. t \in BOOLEAN /\ y = f.value
        BY <1>1, <2>1
  <2>3. y \in Seq(Byte) /\ Len(y) = 1
    <3>1. 0 \in Byte /\ 1 \in Byte
          BY DEF Byte, Base
    <3> QED BY <1>1, <2>1, <2>2, <3>1
  <2> HIDE DEF v, w, u
  <2>4. \A x \in Seq(Byte) : write_bool(NewBuffer(x), t) = NewBuffer(x \o y)
        BY Appends, Zenon DEF write_bool
  <2>5. \A x \in Seq(Byte) : Write(NewBuffer(x), f) = NewBuffer(x \o y)
        BY <1>4, <2>4, WriteIs, Zenon DEF v
  <2>6. ASSUME NEW x \in Seq(Byte), NEW z \in Seq(Byte)
        PROVE  Read(At(x, y \o z), f) = As(Taken(x, y, z, t), f.value)
    <3>1. read_bool(Unread(x, NewBuffer(x \o y), z)) = ReadUp(NewBuffer(x \o y), z, t)
      <4> HIDE DEF t
      <4> QED BY <2>2, <2>4, BoolReadBack, Zenon
    <3>2. Read(At(x, y \o z), f) = As(read_bool(At(x, y \o z)), <<IF read_bool(At(x, y \o z)).value THEN 1 ELSE 0>>)
          BY <1>4, ReadIs, Zenon
    <3>3. y = <<IF t THEN 1 ELSE 0>>
          OBVIOUS
    <3> HIDE DEF y, t
    <3>4. read_bool(At(x, y \o z)) = Taken(x, y, z, t)
          BY <2>3, <3>1, SameBuffers, Zenon
    <3>5. Taken(x, y, z, t).value = t
          BY DEF Taken
    <3> QED BY <2>2, <3>2, <3>3, <3>4, <3>5, Zenon
  <2>7. Len(y) <= 8
        BY <2>3
  <2> HIDE DEF y, t
  <2> QED BY <2>3, <2>5, <2>6, <2>7, EncodedAs, Zenon
<1> QED BY <1>1, <1>2, <1>3, <1>4, Zenon

\* A string without a zero can be terminated.
LEMMA TextOf ==
    ASSUME NEW s \in Seq(Byte), ~\E i \in DOMAIN s : s[i] = 0
    PROVE  s \in Text
<1> DEFINE D == 1..(Base - 1)
<1>1. \A d \in Byte : d # 0 => d \in D
      BY DEF Base, Byte
<1>2. Len(s) \in Nat /\ DOMAIN s = 1..Len(s) /\ \A i \in 1..Len(s) : s[i] \in Byte
      OBVIOUS
<1> HIDE DEF D
<1>3. \A i \in 1..Len(s) : s[i] \in D
      BY <1>1, <1>2, Zenon
<1>4. s \in Seq(D)
      BY <1>2, <1>3
<1> QED BY <1>4, Zenon DEF Text, D

\* Strings.
LEMMA StringEncoded ==
    ASSUME NEW s \in Seq(Byte), NEW f \in StringFields(s)
    PROVE  EncodedIn(f, Len(s) + 1)
<1> DEFINE r == Reversed(s)
<1>1. /\ f.value = s /\ Len(s) \in Nat
      /\ \/ f.kind \in Raw /\ f.w = Len(s)
         \/ f.kind \in Terminated /\ ~\E i \in DOMAIN s : s[i] = 0
  <2>1. Len(s) \in Nat
        OBVIOUS
  <2>2. CASE \E i \in DOMAIN s : s[i] = 0
        BY <2>1, <2>2 DEF StringFields, Field
  <2>3. CASE ~\E i \in DOMAIN s : s[i] = 0
        BY <2>1, <2>3 DEF StringFields, Field
  <2> QED BY <2>2, <2>3, Zenon
<1>2. r \in Seq(Byte) /\ Len(r) = Len(s)
      BY ReversedTwice, Zenon
<1>3. 0 \in Byte /\ << 0 >> \in Seq(Byte)
  <2>1. 0 \in Byte
        BY DEF Byte, Base
  <2> QED BY <2>1
<1> HIDE DEF r
<1>4. CASE f.kind = "raw_be" /\ f.w = Len(s)
  <2>1. ASSUME NEW x \in Seq(Byte) PROVE Write(NewBuffer(x), f) = NewBuffer(x \o s) /\ write_string_raw_be(NewBuffer(x), s) = NewBuffer(x \o s)
    <3>1. Write(NewBuffer(x), f) = write_string_raw_be(NewBuffer(x), s)
          BY <1>1, <1>4, WriteIs, Zenon
    <3>2. write_string_raw_be(NewBuffer(x), s) = write_bytes(NewBuffer(x), s)
          BY Zenon DEF write_string_raw_be
    <3> QED BY <3>1, <3>2, Appends
  <2>2. ASSUME NEW x \in Seq(Byte), NEW z \in Seq(Byte)
        PROVE  Read(At(x, s \o z), f) = Taken(x, s, z, f.value)
    <3>1. Read(At(x, s \o z), f) = read_string_raw_be(At(x, s \o z), Len(s))
          BY <1>4, ReadIs, Zenon
    <3>2. read_string_raw_be(At(x, s \o z), Len(s)) = Taken(x, s, z, s)
          BY BytesTaken, Zenon DEF read_string_raw_be
    <3> QED BY <1>1, <3>1, <3>2, Zenon
  <2>3. Encoded(f, s) /\ Len(s) <= Len(s) + 1
    <3>1. Len(s) <= Len(s) + 1
          BY <1>1
    <3> QED BY <2>1, <2>2, <3>1, Zenon DEF Encoded
  <2> QED BY <2>3, Zenon DEF EncodedIn
<1>5. CASE f.kind = "raw_le" /\ f.w = Len(s)
  <2>1. ASSUME NEW x \in Seq(Byte) PROVE Write(NewBuffer(x), f) = NewBuffer(x \o r) /\ write_string_raw_le(NewBuffer(x), s) = NewBuffer(x \o r)
    <3>1. Write(NewBuffer(x), f) = write_string_raw_le(NewBuffer(x), s)
          BY <1>1, <1>5, WriteIs, Zenon
    <3>2. write_string_raw_le(NewBuffer(x), s) = write_bytes(NewBuffer(x), r)
          BY Zenon DEF write_string_raw_le, r
    <3> QED BY <3>1, <3>2, Appends
  <2>2. ASSUME NEW x \in Seq(Byte), NEW z \in Seq(Byte)
        PROVE  Read(At(x, r \o z), f) = Taken(x, r, z, f.value)
    <3>1. Read(At(x, r \o z), f) = read_string_raw_le(At(x, r \o z), Len(s))
          BY <1>5, ReadIs, Zenon
    <3>2. read_string_raw_le(Unread(x, NewBuffer(x \o r), z), Len(s)) = ReadUp(NewBuffer(x \o r), z, s)
      <4>1. read_string_raw_le(Unread(x, write_string_raw_le(NewBuffer(x), s), z), Len(s)) = ReadUp(write_string_raw_le(NewBuffer(x), s), z, s)
            BY RawReadBack, Zenon
      <4> QED BY <2>1, <4>1, Zenon
    <3>3. Unread(x, NewBuffer(x \o r), z) = At(x, r \o z) /\ ReadUp(NewBuffer(x \o r), z, s) = Taken(x, r, z, s)
          BY <1>2, SameBuffers
    <3> QED BY <1>1, <3>1, <3>2, <3>3, Zenon
  <2>3. Encoded(f, r) /\ Len(r) <= Len(s) + 1
    <3>1. Len(r) <= Len(s) + 1
          BY <1>1, <1>2
    <3> QED BY <1>2, <2>1, <2>2, <3>1, Zenon DEF Encoded
  <2> QED BY <2>3, Zenon DEF EncodedIn
<1>6. ASSUME NEW t \in Seq(Byte), Len(t) = Len(s)
      PROVE  /\ t \o << 0 >> \in Seq(Byte) /\ Len(t \o << 0 >>) <= Len(s) + 1
             /\ \A x \in Seq(Byte) : write_bytes(write_bytes(NewBuffer(x), t), << 0 >>) = NewBuffer(x \o (t \o << 0 >>))
  <2>1. t \o << 0 >> \in Seq(Byte) /\ Len(t \o << 0 >>) <= Len(s) + 1
        BY <1>1, <1>3, <1>6
  <2>2. ASSUME NEW x \in Seq(Byte)
        PROVE  write_bytes(write_bytes(NewBuffer(x), t), << 0 >>) = NewBuffer(x \o (t \o << 0 >>))
    <3>1. write_bytes(NewBuffer(x), t) = NewBuffer(x \o t)
          BY Appends
    <3>2. write_bytes(NewBuffer(x \o t), << 0 >>) = NewBuffer((x \o t) \o << 0 >>)
          BY Appends
    <3>3. (x \o t) \o << 0 >> = x \o (t \o << 0 >>)
          BY <1>3, ConcatFacts, Zenon
    <3> QED BY <3>1, <3>2, <3>3, Zenon
  <2> QED BY <2>1, <2>2, Zenon
<1>7. CASE f.kind = "nt_be" /\ ~\E i \in DOMAIN s : s[i] = 0
  <2> DEFINE y == s \o << 0 >>
  <2>1. s \in Text
        BY <1>7, TextOf, Zenon
  <2>2. y \in Seq(Byte) /\ Len(y) <= Len(s) + 1
        BY <1>6, Zenon
  <2>3. ASSUME NEW x \in Seq(Byte) PROVE Write(NewBuffer(x), f) = NewBuffer(x \o y)
    <3>1. Write(NewBuffer(x), f) = write_string_nt_be(NewBuffer(x), s)
          BY <1>1, <1>7, WriteIs, Zenon
    <3>2. write_string_nt_be(NewBuffer(x), s) = write_bytes(write_bytes(NewBuffer(x), s), << 0 >>)
          BY Zenon DEF write_string_nt_be, write_string_raw_be
    <3> QED BY <1>6, <3>1, <3>2, Zenon
  <2>4. ASSUME NEW x \in Seq(Byte), NEW z \in Seq(Byte)
        PROVE  Read(At(x, y \o z), f) = Taken(x, y, z, f.value)
    <3>1. Read(At(x, y \o z), f) = read_string_nt_be(At(x, y \o z))
          BY <1>7, ReadIs, Zenon
    <3>2. read_string_nt_be(At(x, y \o z)) = Taken(x, y, z, s)
          BY <2>1, TextTaken, Zenon
    <3> QED BY <1>1, <3>1, <3>2, Zenon
  <2> HIDE DEF y
  <2>5. Encoded(f, y)
        BY <2>2, <2>3, <2>4, Zenon DEF Encoded
  <2> QED BY <2>2, <2>5, Zenon DEF EncodedIn
<1>8. CASE f.kind = "nt_le" /\ ~\E i \in DOMAIN s : s[i] = 0
  <2> DEFINE y == r \o << 0 >>
  <2>1. s \in Text
        BY <1>8, TextOf, Zenon
  <2>2. y \in Seq(Byte) /\ Len(y) <= Len(s) + 1
        BY <1>2, <1>6, Zenon
  <2>3. ASSUME NEW x \in Seq(Byte)
        PROVE  Write(NewBuffer(x), f) = NewBuffer(x \o y) /\ write_string_nt_le(NewBuffer(x), s) = NewBuffer(x \o y)
    <3>1. Write(NewBuffer(x), f) = write_string_nt_le(NewBuffer(x), s)
          BY <1>1, <1>8, WriteIs, Zenon
    <3>2. write_string_nt_le(NewBuffer(x), s) = write_bytes(write_bytes(NewBuffer(x), r), << 0 >>)
          BY Zenon DEF write_string_nt_le, write_string_raw_le, r
    <3> QED BY <1>2, <1>6, <3>1, <3>2, Zenon
  <2>4. ASSUME NEW x \in Seq(Byte), NEW z \in Seq(Byte)
        PROVE  Read(At(x, y \o z), f) = Taken(x, y, z, f.value)
    <3>1. Read(At(x, y \o z), f) = read_string_nt_le(At(x, y \o z))
          BY <1>8, ReadIs, Zenon
    <3> HIDE DEF y
    <3>2. read_string_nt_le(Unread(x, NewBuffer(x \o y), z)) = ReadUp(NewBuffer(x \o y), z, s)
      <4>1. read_string_nt_le(Unread(x, write_string_nt_le(NewBuffer(x), s), z)) = ReadUp(write_string_nt_le(NewBuffer(x), s), z, s)
            BY <2>1, TextReadBack, Zenon
      <4> QED BY <2>3, <4>1, Zenon
    <3>3. Unread(x, NewBuffer(x \o y), z) = At(x, y \o z) /\ ReadUp(NewBuffer(x \o y), z, s) = Taken(x, y, z, s)
          BY <2>2, SameBuffers
    <3> QED BY <1>1, <3>1, <3>2, <3>3, Zenon
  <2> HIDE DEF y
  <2>5. Encoded(f, y)
        BY <2>2, <2>3, <2>4, Zenon DEF Encoded
  <2> QED BY <2>2, <2>5, Zenon DEF EncodedIn
<1> QED BY <1>1, <1>4, <1>5, <1>7, <1>8, Zenon DEF Raw, Terminated

\* Two fields written into a packet one after the other are read back.
LEMMA TwoFields ==
    ASSUME NEW f1, NEW f2, NEW k1 \in Nat, NEW k2 \in Nat, EncodedIn(f1, k1), EncodedIn(f2, k2),
           k1 + k2 < Power[LengthBytes], NEW n \in Nat, 7 < Power[n]
    PROVE  LET payload == Write(Write(NewBuffer(<<>>), f1), f2).data
               one == Read(deserialize(n, build_packet(n, 7, payload)).buffer, f1)
               two == Read(one.buffer, f2)
           IN /\ one.ok /\ one.value = f1.value
              /\ two.ok /\ two.value = f2.value
              /\ two.buffer.pos = Len(payload)
<1>1. PICK y1 : Encoded(f1, y1) /\ Len(y1) <= k1
      BY Zenon DEF EncodedIn
<1>2. PICK y2 : Encoded(f2, y2) /\ Len(y2) <= k2
      BY Zenon DEF EncodedIn
<1>3. y1 \in Seq(Byte) /\ y2 \in Seq(Byte) /\ <<>> \in Seq(Byte)
  <2>1. <<>> \in Seq(Byte)
        OBVIOUS
  <2> QED BY <1>1, <1>2, <2>1, Zenon DEF Encoded
<1> DEFINE p == y1 \o y2
<1>4. p \in Seq(Byte) /\ Len(p) = Len(y1) + Len(y2)
      BY <1>3, ConcatFacts, Zenon
<1>5. Write(Write(NewBuffer(<<>>), f1), f2).data = p
  <2>1. Write(NewBuffer(<<>>), f1) = NewBuffer(y1)
    <3>1. Write(NewBuffer(<<>>), f1) = NewBuffer(<<>> \o y1)
          BY <1>1, <1>3, Zenon DEF Encoded
    <3> QED BY <1>3, <3>1, EmptyFacts, Zenon
  <2>2. Write(NewBuffer(y1), f2) = NewBuffer(p)
        BY <1>2, <1>3, Zenon DEF Encoded
  <2>3. NewBuffer(p).data = p
        BY DEF NewBuffer
  <2> QED BY <2>1, <2>2, <2>3, Zenon
<1>6. Len(p) < Power[LengthBytes]
  <2>1. Len(y1) \in Nat /\ Len(y2) \in Nat
        BY <1>3
  <2>2. Power[LengthBytes] \in Nat
    <3>1. LengthBytes \in Nat
          BY DEF LengthBytes
    <3> QED BY <3>1, PowerSteps, Zenon
  <2> HIDE DEF p
  <2> QED BY <1>1, <1>2, <1>4, <2>1, <2>2
<1>7. deserialize(n, build_packet(n, 7, p)).buffer = NewBuffer(p)
  <2> HIDE DEF p
  <2>1. 7 \in Nat
        OBVIOUS
  <2>2. deserialize(n, build_packet(n, 7, p)) = [buffer |-> NewBuffer(p), value |-> 7, ok |-> TRUE]
        BY <1>4, <1>6, <2>1, PacketsSurvive, Zenon
  <2> QED BY <2>2
<1>8. NewBuffer(p) = At(<<>>, y1 \o y2)
      BY <1>4, NewBufferAt, Zenon
<1>9. Read(NewBuffer(p), f1) = Taken(<<>>, y1, y2, f1.value)
      BY <1>1, <1>3, <1>8, Zenon DEF Encoded
<1>10. /\ Read(NewBuffer(p), f1).ok = TRUE /\ Read(NewBuffer(p), f1).value = f1.value
       /\ Read(NewBuffer(p), f1).buffer = At(y1, y2 \o <<>>)
  <2>1. <<>> \o y1 = y1 /\ y2 \o <<>> = y2
        BY <1>3, EmptyFacts, Zenon
  <2>2. \A v : /\ Taken(<<>>, y1, y2, v).ok = TRUE /\ Taken(<<>>, y1, y2, v).value = v
               /\ Taken(<<>>, y1, y2, v).buffer = At(<<>> \o y1, y2)
        BY DEF Taken
  <2> QED BY <1>9, <2>1, <2>2, Zenon
<1>11. Read(At(y1, y2 \o <<>>), f2) = Taken(y1, y2, <<>>, f2.value)
       BY <1>2, <1>3, Zenon DEF Encoded
<1>12. /\ Taken(y1, y2, <<>>, f2.value).ok = TRUE /\ Taken(y1, y2, <<>>, f2.value).value = f2.value
       /\ Taken(y1, y2, <<>>, f2.value).buffer.pos = Len(p)
  <2>1. At(p, <<>>).pos = Len(p)
        BY DEF At
  <2>2. \A v : /\ Taken(y1, y2, <<>>, v).ok = TRUE /\ Taken(y1, y2, <<>>, v).value = v
               /\ Taken(y1, y2, <<>>, v).buffer = At(p, <<>>)
        BY DEF Taken
  <2> QED BY <2>1, <2>2, Zenon
<1> HIDE DEF p
<1> QED BY <1>5, <1>7, <1>10, <1>11, <1>12, Zenon

\* How many lengths the header can hold.
LEMMA PowerTwo == Power[2] = 65536
<1>1. Power[1] = 256
      BY SmallPowers DEF Base
<1>2. Power[2] = Base * Power[1]
  <2>1. 1 \in Nat /\ 1 + 1 = 2
        OBVIOUS
  <2> QED BY <2>1, PowerSteps, Zenon
<1> QED BY <1>1, <1>2, SMT DEF Base

\* The opcode 7 fits into either format.
LEMMA OpcodeFits ==
    ASSUME NEW n \in {1, 2}
    PROVE  n \in Nat /\ 7 < Power[n]
<1>1. Power[1] = 256
      BY SmallPowers DEF Base
<1> QED BY <1>1, PowerTwo, SMT

\* A string and a number, in either order.
LEMMA FieldPairs ==
    ASSUME bytes \in Seq(Byte), Len(bytes) <= MaxField
    PROVE  FieldsSurvive
<1> DEFINE Good(n, f1, f2) ==
             LET payload == Write(Write(NewBuffer(<<>>), f1), f2).data
                 one == Read(deserialize(n, build_packet(n, 7, payload)).buffer, f1)
                 two == Read(one.buffer, f2)
             IN /\ one.ok /\ one.value = f1.value
                /\ two.ok /\ two.value = f2.value
                /\ two.buffer.pos = Len(payload)
<1>1. ASSUME NEW n \in {1, 2}, NEW s \in StringFields(bytes), NEW f \in Numbers
      PROVE  Good(n, s, f) /\ Good(n, f, s)
  <2>1. EncodedIn(s, Len(bytes) + 1)
        BY StringEncoded, Zenon
  <2>2. EncodedIn(f, 8)
    <3>1. IsNumber(f)
          BY PacketAssumption
    <3> QED BY <3>1, NumberEncoded, Zenon
  <2>3. n \in Nat /\ 7 < Power[n]
        BY OpcodeFits, Zenon
  <2>4. Len(bytes) + 1 \in Nat /\ 8 \in Nat
        OBVIOUS
  <2>5. (Len(bytes) + 1) + 8 < Power[LengthBytes] /\ 8 + (Len(bytes) + 1) < Power[LengthBytes]
    <3> DEFINE P == Power[LengthBytes]
    <3>1. P \in Nat /\ MaxField \in Nat /\ MaxField + 9 < P
      <4>1. LengthBytes \in Nat
            BY DEF LengthBytes
      <4> QED BY <4>1, PowerSteps, PacketAssumption, Zenon
    <3> HIDE DEF P
    <3>2. (Len(bytes) + 1) + 8 < P /\ 8 + (Len(bytes) + 1) < P
          BY <3>1
    <3> QED BY <3>2, Zenon DEF P
  <2>6. Good(n, s, f)
        BY <2>1, <2>2, <2>3, <2>4, <2>5, TwoFields, Zenon
  <2>7. Good(n, f, s)
        BY <2>1, <2>2, <2>3, <2>4, <2>5, TwoFields, Zenon
  <2> QED BY <2>6, <2>7, Zenon
<1>2. ASSUME NEW n \in {1, 2}, NEW s \in StringFields(bytes), NEW f \in Numbers, NEW fields \in {<<s, f>>, <<f, s>>}
      PROVE  Good(n, fields[1], fields[2])
  <2> HIDE DEF Good
  <2>1. \A a, b : <<a, b>>[1] = a /\ <<a, b>>[2] = b
        OBVIOUS
  <2>2. CASE fields = <<s, f>>
        BY <1>1, <2>1, <2>2, Zenon
  <2>3. CASE fields = <<f, s>>
        BY <1>1, <2>1, <2>3, Zenon
  <2> QED BY <1>2, <2>2, <2>3, Zenon
<1> QED BY <1>2, Zenon DEF FieldsSurvive

----------------------------------------------------------------------------
(* Receivers.                                                               *)

\* The limit of a receiver is within what a header can say.
LEMMA LimitFits == PayloadLimit \in Nat /\ 2 <= PayloadLimit /\ PayloadLimit < Power[LengthBytes]
<1>1. LengthBytes = 2
      BY DEF LengthBytes
<1> QED BY <1>1, PowerTwo, SMT DEF PayloadLimit

\* A part of a string, by what is before and behind it.
LEMMA MiddleIs ==
    ASSUME NEW x \in Seq(Byte), NEW y \in Seq(Byte), NEW z \in Seq(Byte)
    PROVE  SubSeq(x \o (y \o z), Len(x) + 1, Len(x) + Len(y)) = y
<1>1. Ahead(At(x, y \o z), Len(y)) = y
      BY AheadIs, Zenon
<1> QED BY <1>1 DEF Ahead, At

\* The length that the header of a packet gives: that of its payload, in two bytes.
Length16(payload) == ToUnsigned(Len(payload), LengthBytes)

LEMMA LengthFacts ==
    ASSUME NEW payload \in Seq(Byte)
    PROVE  /\ Length16(payload) \in Nat /\ Length16(payload) <= Len(payload)
           /\ Length16(payload) < Power[LengthBytes]
           /\ Len(payload) < Power[LengthBytes] => Length16(payload) = Len(payload)
<1>1. LengthBytes \in Nat
      BY DEF LengthBytes
<1>2. Power[LengthBytes] \in Nat \ {0} /\ Len(payload) \in Nat
  <2>1. Len(payload) \in Nat
        OBVIOUS
  <2> QED BY <1>1, <2>1, PowerSteps, Zenon
<1>3. \A p \in Nat \ {0}, k \in Nat : k % p \in Nat /\ k % p <= k /\ k % p < p /\ (k < p => k % p = k)
      OBVIOUS
<1> QED BY <1>2, <1>3, Zenon DEF Length16, ToUnsigned

\* What build_packet() writes before the payload.
PacketHeader(n, opcode, l) == BigEndian(opcode, n) \o BigEndian(l, LengthBytes)

Heads(h, n, l, rest) == h \in Seq(Byte) /\ Len(h) = n + LengthBytes /\ HeaderLength(n, h \o rest) = l

LEMMA HeaderFacts ==
    ASSUME NEW n \in Nat, NEW opcode \in Nat, NEW l \in Nat, l < Power[LengthBytes], NEW rest \in Seq(Byte)
    PROVE  Heads(PacketHeader(n, opcode, l), n, l, rest)
<1> DEFINE a == BigEndian(opcode, n)
           c == BigEndian(l, LengthBytes)
<1>1. LengthBytes \in Nat
      BY DEF LengthBytes
<1>2. a \in Seq(Byte) /\ Len(a) = n /\ c \in Seq(Byte) /\ Len(c) = LengthBytes /\ Value(c) = l
      BY <1>1, BigEndianType, ValueOfBytes, Zenon
<1> HIDE DEF a, c
<1>3. a \o c \in Seq(Byte) /\ Len(a \o c) = n + LengthBytes
      BY <1>2, ConcatFacts, Zenon
<1>4. (a \o c) \o rest = a \o (c \o rest)
      BY <1>2, ConcatFacts, Zenon
<1>5. SubSeq(a \o (c \o rest), n + 1, n + LengthBytes) = c
      BY <1>2, MiddleIs, Zenon
<1>6. HeaderLength(n, (a \o c) \o rest) = l
      BY <1>2, <1>4, <1>5, Zenon DEF HeaderLength
<1> QED BY <1>3, <1>6, Zenon DEF Heads, PacketHeader, a, c

\* The two parts of a string.
LEMMA SplitAt ==
    ASSUME NEW s \in Seq(Byte), NEW l \in Nat, l <= Len(s)
    PROVE  /\ SubSeq(s, 1, l) \in Seq(Byte) /\ Len(SubSeq(s, 1, l)) = l
           /\ SubSeq(s, l + 1, Len(s)) \in Seq(Byte)
           /\ s = SubSeq(s, 1, l) \o SubSeq(s, l + 1, Len(s))
<1> DEFINE x == SubSeq(s, 1, l)
           y == SubSeq(s, l + 1, Len(s))
<1>1. x \in Seq(Byte) /\ Len(x) = l /\ \A i \in 1..l : x[i] = s[i]
      OBVIOUS
<1>2. y \in Seq(Byte) /\ Len(y) = Len(s) - l /\ \A i \in 1..(Len(s) - l) : y[i] = s[l + i]
      OBVIOUS
<1>3. x \o y \in Seq(Byte) /\ Len(x \o y) = Len(s) /\ \A i \in 1..Len(s) : (x \o y)[i] = s[i]
  <2> HIDE DEF x, y
  <2>1. x \o y \in Seq(Byte) /\ Len(x \o y) = Len(s)
        BY <1>1, <1>2
  <2>2. ASSUME NEW i \in 1..Len(s) PROVE (x \o y)[i] = s[i]
    <3>1. CASE i <= l
          BY <1>1, <1>2, <3>1
    <3>2. CASE i > l
      <4>1. (x \o y)[i] = y[i - l] /\ i - l \in 1..(Len(s) - l) /\ l + (i - l) = i
            BY <1>1, <1>2, <3>2
      <4> QED BY <1>2, <4>1
    <3>3. i <= l \/ i > l
          OBVIOUS
    <3> QED BY <3>1, <3>2, <3>3, Zenon
  <2> QED BY <2>1, <2>2
<1> HIDE DEF x, y
<1>4. s = x \o y
      BY <1>3, SameSeq
<1> QED BY <1>1, <1>2, <1>4, Zenon DEF x, y

\* The part of a stream s that a receiver copies, and what it leaves, when l is
\* the length in the header.
Parts(n, opcode, payload, more, s, l) ==
    /\ s \in Seq(Byte) /\ Len(s) = n + LengthBytes + Len(payload) + Len(more)
    /\ HeaderLength(n, s) = l
    /\ SubSeq(s, 1, n + LengthBytes + l) = build_packet(n, opcode, SubSeq(payload, 1, l))
    /\ SubSeq(s, n + LengthBytes + l + 1, Len(s)) = SubSeq(payload, l + 1, Len(payload)) \o more

LEMMA StreamParts ==
    ASSUME NEW n \in Nat, NEW opcode \in Nat, NEW payload \in Seq(Byte), NEW more \in Seq(Byte)
    PROVE  Parts(n, opcode, payload, more, build_packet(n, opcode, payload) \o more, Length16(payload))
<1> DEFINE l == Length16(payload)
           h == PacketHeader(n, opcode, l)
           x == SubSeq(payload, 1, l)
           y == SubSeq(payload, l + 1, Len(payload))
           s == build_packet(n, opcode, payload) \o more
<1>1. l \in Nat /\ l <= Len(payload) /\ l < Power[LengthBytes] /\ LengthBytes \in Nat
  <2>1. LengthBytes \in Nat
        BY DEF LengthBytes
  <2> QED BY <2>1, LengthFacts, Zenon
<1>2. x \in Seq(Byte) /\ Len(x) = l /\ y \in Seq(Byte) /\ payload = x \o y
      BY <1>1, SplitAt, Zenon
<1>3. build_packet(n, opcode, payload) = h \o payload
      BY Zenon DEF build_packet, PacketHeader, Length16
<1>4. build_packet(n, opcode, x) = h \o x
  <2>1. Length16(x) = l
        BY <1>1, <1>2, LengthFacts, Zenon
  <2> QED BY <2>1, Zenon DEF build_packet, PacketHeader, Length16
<1> HIDE DEF l
<1>5. h \in Seq(Byte) /\ Len(h) = n + LengthBytes /\ HeaderLength(n, h \o (payload \o more)) = l
  <2> DEFINE r == payload \o more
  <2>1. r \in Seq(Byte)
        BY ConcatFacts, Zenon
  <2> HIDE DEF r
  <2>2. l \in Nat /\ l < Power[LengthBytes]
        BY <1>1, Zenon
  <2>3. Heads(h, n, l, r)
        BY <2>1, <2>2, HeaderFacts, Zenon
  <2> HIDE DEF h
  <2> QED BY <2>3, Zenon DEF Heads, r
<1> HIDE DEF h, x, y
<1>6. s = h \o (payload \o more)
  <2>1. h \o (payload \o more) = (h \o payload) \o more
        BY <1>5, ConcatFacts, Zenon
  <2> QED BY <1>3, <2>1, Zenon
<1>7. s = (h \o x) \o (y \o more) /\ h \o x \in Seq(Byte) /\ y \o more \in Seq(Byte) /\ Len(h \o x) = n + LengthBytes + l
  <2>0. h \in Seq(Byte) /\ x \in Seq(Byte) /\ y \in Seq(Byte)
        BY <1>2, <1>5, Zenon
  <2>1. x \o (y \o more) = (x \o y) \o more
        BY <2>0, ConcatAssoc, Zenon
  <2>2. y \o more \in Seq(Byte) /\ h \o x \in Seq(Byte) /\ Len(h \o x) = Len(h) + Len(x)
        BY <1>2, <1>5, ConcatFacts, Zenon
  <2> DEFINE r == y \o more
  <2> HIDE DEF r
  <2>3. h \o (x \o r) = (h \o x) \o r
    <3>1. r \in Seq(Byte)
          BY <2>2, Zenon DEF r
    <3>2. h \in Seq(Byte) /\ x \in Seq(Byte)
          BY <2>0, Zenon
    <3>3. ASSUME NEW q \in Seq(Byte) PROVE h \o (x \o q) = (h \o x) \o q
          BY <3>2, ConcatAssoc, ZenonT(30)
    <3> QED BY <3>1, <3>3, Zenon
  <2> HIDE DEF s
  <2> QED BY <1>2, <1>5, <1>6, <2>1, <2>2, <2>3, Zenon DEF r
<1>8. s \in Seq(Byte) /\ Len(s) = n + LengthBytes + Len(payload) + Len(more)
  <2>1. payload \o more \in Seq(Byte) /\ Len(payload \o more) = Len(payload) + Len(more)
        BY ConcatFacts, Zenon
  <2>2. s \in Seq(Byte) /\ Len(s) = (n + LengthBytes) + (Len(payload) + Len(more))
    <3> DEFINE r == payload \o more
    <3> HIDE DEF s, r
    <3>1. r \in Seq(Byte) /\ Len(r) = Len(payload) + Len(more)
          BY <2>1, Zenon DEF r
    <3>2. h \o r \in Seq(Byte) /\ Len(h \o r) = Len(h) + Len(r)
          BY <1>5, <3>1, ConcatFacts, Zenon
    <3> QED BY <1>5, <1>6, <3>1, <3>2, Zenon DEF r
  <2>3. Len(payload) \in Nat /\ Len(more) \in Nat
        OBVIOUS
  <2> HIDE DEF s
  <2> QED BY <1>1, <2>2, <2>3
<1> HIDE DEF s
<1>9. SubSeq(s, 1, n + LengthBytes + l) = h \o x
  <2>1. <<>> \in Seq(Byte) /\ <<>> \o s = s /\ Len(<<>>) = 0
        BY <1>8, EmptyFacts
  <2>2. SubSeq(<<>> \o s, Len(<<>>) + 1, Len(<<>>) + Len(h \o x)) = h \o x
        BY <1>7, <2>1, MiddleIs, Zenon
  <2>3. Len(<<>>) + 1 = 1 /\ Len(<<>>) + Len(h \o x) = n + LengthBytes + l
        BY <1>1, <1>7, <2>1
  <2> QED BY <2>1, <2>2, <2>3, Zenon
<1>10. SubSeq(s, n + LengthBytes + l + 1, Len(s)) = y \o more
  <2>1. <<>> \in Seq(Byte) /\ (y \o more) \o <<>> = y \o more
        BY <1>7, EmptyFacts, Zenon
  <2>2. Len(s) = Len(h \o x) + Len(y \o more)
        BY <1>7, ConcatFacts, Zenon
  <2>3. SubSeq((h \o x) \o ((y \o more) \o <<>>), Len(h \o x) + 1, Len(h \o x) + Len(y \o more)) = y \o more
        BY <1>7, <2>1, MiddleIs, Zenon
  <2> QED BY <1>7, <2>1, <2>2, <2>3, Zenon
<1>11. HeaderLength(n, s) = l
      BY <1>5, <1>6, Zenon
<1> QED BY <1>4, <1>8, <1>9, <1>10, <1>11, Zenon DEF Parts, l, x, y, s

\* What is taken from the stream s when l is the length in the header.
CutAt(l, s, opcode, payload, more) ==
    IF l > PayloadLimit THEN Refuses(s)
    ELSE [outcome |-> "packet",
          packet |-> [buffer |-> NewBuffer(SubSeq(payload, 1, l)), value |-> opcode, ok |-> TRUE],
          rest |-> SubSeq(payload, l + 1, Len(payload)) \o more]

\* Either receiver takes as many bytes of a payload as the header says, which is
\* its length modulo 65536, and leaves the rest of it, and what follows, in the
\* stream; or it refuses, when that number is above the limit.  A payload of
\* 65536 bytes or more does not arrive as it was sent.
THEOREM PacketsCut ==
    ASSUME NEW n \in Nat, NEW opcode \in Nat, opcode < Power[n], NEW payload \in Seq(Byte), NEW more \in Seq(Byte)
    PROVE  LET s == build_packet(n, opcode, payload) \o more
               l == Len(payload) % Power[LengthBytes]
           IN /\ process_read_buffer(n, s) = CutAt(l, s, opcode, payload, more)
              /\ start_receive_loop(n, s) = CutAt(l, s, opcode, payload, more)
<1> DEFINE s == build_packet(n, opcode, payload) \o more
           l == Length16(payload)
           x == SubSeq(payload, 1, l)
           rest == SubSeq(payload, l + 1, Len(payload)) \o more
           whole == [buffer |-> NewBuffer(x), value |-> opcode, ok |-> TRUE]
<1>1. /\ Len(s) = n + LengthBytes + Len(payload) + Len(more) /\ HeaderLength(n, s) = l
      /\ SubSeq(s, 1, n + LengthBytes + l) = build_packet(n, opcode, x)
      /\ SubSeq(s, n + LengthBytes + l + 1, Len(s)) = rest
  <2>1. Parts(n, opcode, payload, more, s, l)
        BY StreamParts, Zenon
  <2> HIDE DEF s, l
  <2> QED BY <2>1, Zenon DEF Parts
<1>2. l \in Nat /\ l <= Len(payload) /\ l < Power[LengthBytes]
      BY LengthFacts, Zenon
<1>3. deserialize(n, build_packet(n, opcode, x)) = whole
  <2>1. x \in Seq(Byte) /\ Len(x) = l
        BY <1>2, SplitAt, Zenon
  <2> HIDE DEF x, l
  <2> QED BY <1>2, <2>1, PacketsSurvive, Zenon
<1> HIDE DEF s, l, x, rest, whole
<1>4. ~(Len(s) < n + LengthBytes) /\ ~(Len(s) < n + LengthBytes + l)
  <2>1. LengthBytes \in Nat /\ Len(payload) \in Nat /\ Len(more) \in Nat
        BY DEF LengthBytes
  <2> HIDE DEF LengthBytes
  <2> QED BY <1>1, <1>2, <2>1
<1>5. Takes(n, s, l) = [outcome |-> "packet", packet |-> whole, rest |-> rest]
      BY <1>1, <1>3, Zenon DEF Takes
<1>6. process_read_buffer(n, s) = IF l > PayloadLimit THEN Refuses(s) ELSE Takes(n, s, l)
      BY <1>1, <1>4, Zenon DEF process_read_buffer
<1>7. start_receive_loop(n, s) = IF l > PayloadLimit THEN Refuses(s) ELSE Takes(n, s, l)
      BY <1>1, <1>4, Zenon DEF start_receive_loop
<1>8. CutAt(l, s, opcode, payload, more) = IF l > PayloadLimit THEN Refuses(s) ELSE Takes(n, s, l)
      BY <1>5, Zenon DEF CutAt, whole, rest, x
<1>9. l = Len(payload) % Power[LengthBytes]
      BY Zenon DEF l, Length16, ToUnsigned
<1> QED BY <1>6, <1>7, <1>8, <1>9, Zenon DEF s

\* What should come of a payload that a header can describe.
Arrives(got, opcode, payload, more) ==
    IF Len(payload) > PayloadLimit THEN got.outcome = "refused"
    ELSE /\ got.outcome = "packet" /\ got.rest = more
         /\ got.packet = [buffer |-> NewBuffer(payload), value |-> opcode, ok |-> TRUE]

\* A payload within the limit arrives, and what follows it is left; a longer one
\* that a header can describe is refused.
LEMMA PacketsArrive ==
    ASSUME NEW n \in Nat, NEW opcode \in Nat, opcode < Power[n], NEW payload \in Seq(Byte), NEW more \in Seq(Byte),
           Len(payload) < Power[LengthBytes]
    PROVE  LET s == build_packet(n, opcode, payload) \o more
           IN /\ Arrives(process_read_buffer(n, s), opcode, payload, more)
              /\ Arrives(start_receive_loop(n, s), opcode, payload, more)
<1> DEFINE s == build_packet(n, opcode, payload) \o more
           l == Len(payload)
<1>1. process_read_buffer(n, s) = CutAt(l, s, opcode, payload, more) /\ start_receive_loop(n, s) = CutAt(l, s, opcode, payload, more)
  <2>1. l % Power[LengthBytes] = l
        BY LengthFacts, Zenon DEF Length16, ToUnsigned
  <2>2. /\ process_read_buffer(n, s) = CutAt(l % Power[LengthBytes], s, opcode, payload, more)
        /\ start_receive_loop(n, s) = CutAt(l % Power[LengthBytes], s, opcode, payload, more)
        BY PacketsCut, Zenon
  <2> HIDE DEF s, l
  <2> QED BY <2>1, <2>2, Zenon
<1>2. SubSeq(payload, 1, l) = payload /\ SubSeq(payload, l + 1, Len(payload)) = <<>>
      OBVIOUS
<1>3. <<>> \o more = more
      BY EmptyFacts, Zenon
<1> HIDE DEF s
<1>4. Refuses(s).outcome = "refused"
      BY DEF Refuses
<1> DEFINE whole == [buffer |-> NewBuffer(payload), value |-> opcode, ok |-> TRUE]
           taken == [outcome |-> "packet", packet |-> whole, rest |-> more]
<1>5. CutAt(l, s, opcode, payload, more) = IF l > PayloadLimit THEN Refuses(s) ELSE taken
      BY <1>2, <1>3, Zenon DEF CutAt
<1> HIDE DEF whole
<1>6. taken.outcome = "packet" /\ taken.packet = whole /\ taken.rest = more
      OBVIOUS
<1> HIDE DEF taken
<1>7. Arrives(CutAt(l, s, opcode, payload, more), opcode, payload, more)
      BY <1>4, <1>5, <1>6, Zenon DEF Arrives, whole
<1> QED BY <1>1, <1>7, Zenon DEF s

\* A packet is a string.
LEMMA PacketBytes ==
    ASSUME NEW n \in Nat, NEW opcode \in Nat, NEW payload \in Seq(Byte)
    PROVE  build_packet(n, opcode, payload) \in Seq(Byte)
<1>1. <<>> \in Seq(Byte)
      OBVIOUS
<1>2. Length16(payload) \in Nat /\ Length16(payload) < Power[LengthBytes]
      BY LengthFacts, Zenon
<1>3. PacketHeader(n, opcode, Length16(payload)) \in Seq(Byte)
      BY <1>1, <1>2, HeaderFacts, Zenon DEF Heads
<1>4. build_packet(n, opcode, payload) = PacketHeader(n, opcode, Length16(payload)) \o payload
      BY Zenon DEF build_packet, PacketHeader, Length16
<1> QED BY <1>3, <1>4, ConcatFacts, Zenon

\* Before its last byte is there, a packet is not taken.
LEMMA PacketsAwaited ==
    ASSUME NEW n \in Nat, NEW opcode \in Nat, NEW payload \in Seq(Byte), Len(payload) < Power[LengthBytes],
           NEW k \in 0..(Len(build_packet(n, opcode, payload)) - 1)
    PROVE  LET s == SubSeq(build_packet(n, opcode, payload), 1, k)
           IN process_read_buffer(n, s).outcome = "wait" /\ start_receive_loop(n, s).outcome # "packet"
<1> DEFINE b == build_packet(n, opcode, payload)
           s == SubSeq(b, 1, k)
<1>1. b \in Seq(Byte) /\ Len(b) = n + LengthBytes + Len(payload) /\ HeaderLength(n, b) = Len(payload)
  <2>1. <<>> \in Seq(Byte) /\ Len(<<>>) = 0
        OBVIOUS
  <2>2. /\ b \o <<>> \in Seq(Byte) /\ Len(b \o <<>>) = n + LengthBytes + Len(payload) + Len(<<>>)
        /\ HeaderLength(n, b \o <<>>) = Length16(payload)
    <3>1. Parts(n, opcode, payload, <<>>, b \o <<>>, Length16(payload))
          BY <2>1, StreamParts, Zenon
    <3> QED BY <3>1, Zenon DEF Parts
  <2>3. b \in Seq(Byte)
        BY PacketBytes, Zenon
  <2>4. b \o <<>> = b
        BY <2>3, EmptyFacts, Zenon
  <2>5. Length16(payload) = Len(payload)
        BY LengthFacts, Zenon
  <2>6. LengthBytes \in Nat /\ Len(payload) \in Nat
        BY DEF LengthBytes
  <2> HIDE DEF b, LengthBytes
  <2>7. n + LengthBytes + Len(payload) + Len(<<>>) = n + LengthBytes + Len(payload)
        BY <2>1, <2>6
  <2> QED BY <2>2, <2>3, <2>4, <2>5, <2>7, Zenon
<1>2. k \in Nat /\ k < Len(b) /\ LengthBytes \in Nat
  <2>1. LengthBytes \in Nat
        BY DEF LengthBytes
  <2> HIDE DEF b
  <2> QED BY <1>1, <2>1 DEF b
<1> HIDE DEF b
<1>3. Len(s) = k
      BY <1>1, <1>2
<1>4. n + LengthBytes <= k => HeaderLength(n, s) = Len(payload)
  <2> SUFFICES ASSUME n + LengthBytes <= k PROVE SubSeq(s, n + 1, n + LengthBytes) = SubSeq(b, n + 1, n + LengthBytes)
      BY <1>1, Zenon DEF HeaderLength
  <2> DEFINE m == n + LengthBytes
  <2>1. m \in Nat /\ m <= k
        BY <1>2
  <2> HIDE DEF m
  <2> QED BY <1>1, <1>2, <2>1 DEF m
<1> HIDE DEF s
<1>5. Waits(s).outcome = "wait" /\ Refuses(s).outcome = "refused"
      BY DEF Waits, Refuses
<1>6. "wait" # "packet" /\ "refused" # "packet"
      OBVIOUS
<1>7. CASE Len(s) < n + LengthBytes
      BY <1>5, <1>6, <1>7, Zenon DEF process_read_buffer, start_receive_loop, b, s
<1>8. CASE ~(Len(s) < n + LengthBytes)
  <2>1. HeaderLength(n, s) = Len(payload) /\ Len(s) < n + LengthBytes + HeaderLength(n, s)
    <3>1. n + LengthBytes <= k
          BY <1>2, <1>3, <1>8
    <3>2. HeaderLength(n, s) = Len(payload)
          BY <1>4, <3>1, Zenon
    <3> QED BY <1>1, <1>2, <1>3, <3>2
  <2> QED BY <1>5, <1>6, <1>8, <2>1, Zenon DEF process_read_buffer, start_receive_loop, b, s
<1> QED BY <1>7, <1>8, Zenon

\* PacketsWhole, for any string.
LEMMA WholePackets ==
    ASSUME bytes \in Seq(Byte)
    PROVE  PacketsWhole
<1> SUFFICES ASSUME Len(bytes) < Power[LengthBytes], NEW n \in {1, 2}, NEW more \in Tails
             PROVE  LET sent == build_packet(n, 7, bytes)
                    IN /\ Delivered(process_read_buffer(n, sent \o more), more)
                       /\ Delivered(start_receive_loop(n, sent \o more), more)
                       /\ \A k \in {n + 1, Len(sent) - 1} :
                             /\ process_read_buffer(n, SubSeq(sent, 1, k)).outcome = "wait"
                             /\ start_receive_loop(n, SubSeq(sent, 1, k)).outcome # "packet"
    BY Zenon DEF PacketsWhole
<1> DEFINE sent == build_packet(n, 7, bytes)
<1>1. n \in Nat /\ 7 < Power[n] /\ 7 \in Nat /\ more \in Seq(Byte)
      BY OpcodeFits, PacketAssumption
<1>2. Len(bytes) \in Nat /\ PayloadLimit \in Nat
      BY LimitFits
<1>3. Len(bytes) <= PayloadLimit <=> ~(Len(bytes) > PayloadLimit)
      BY <1>2
<1>4. Delivered(process_read_buffer(n, sent \o more), more) /\ Delivered(start_receive_loop(n, sent \o more), more)
  <2>1. \A got : Delivered(got, more) <=> Arrives(got, 7, bytes, more)
        BY <1>3, Zenon DEF Delivered, Arrives
  <2> QED BY <1>1, <2>1, PacketsArrive, Zenon
<1>5. Len(sent) = n + LengthBytes + Len(bytes)
  <2>1. <<>> \in Seq(Byte)
        OBVIOUS
  <2>2. PacketHeader(n, 7, Length16(bytes)) \in Seq(Byte) /\ Len(PacketHeader(n, 7, Length16(bytes))) = n + LengthBytes
        BY <1>1, <2>1, LengthFacts, HeaderFacts, Zenon DEF Heads
  <2>3. sent = PacketHeader(n, 7, Length16(bytes)) \o bytes
        BY Zenon DEF build_packet, PacketHeader, Length16
  <2> QED BY <2>2, <2>3, ConcatFacts, Zenon
<1>6. {n + 1, Len(sent) - 1} \subseteq 0..(Len(sent) - 1)
  <2>1. LengthBytes = 2
        BY DEF LengthBytes
  <2> HIDE DEF sent
  <2> QED BY <1>1, <1>2, <1>5, <2>1
<1>7. ASSUME NEW k \in {n + 1, Len(sent) - 1}
      PROVE  process_read_buffer(n, SubSeq(sent, 1, k)).outcome = "wait" /\ start_receive_loop(n, SubSeq(sent, 1, k)).outcome # "packet"
      BY <1>1, <1>6, PacketsAwaited, Zenon
<1> QED BY <1>4, <1>7, Zenon

\* A call that checks for n bytes first, and what Read() makes of its value.
LEMMA CheckedAs ==
    ASSUME NEW b \in ByteBuffer, b.pos <= Len(b.data), NEW n \in Nat, NEW v, NEW value
    PROVE  Inside(b, As(IF check_read(b, n) THEN Returns(b, n, v) ELSE Throws(b), value))
<1>1. As(Throws(b), value) = Throws(b)
      BY DEF As, Throws
<1>2. As(Returns(b, n, v), value) = Returns(b, n, value)
  <2> DEFINE u == [b EXCEPT !.pos = @ + n]
  <2>1. \A t : Returns(b, n, t) = [buffer |-> u, value |-> t, ok |-> TRUE]
        BY Zenon DEF Returns
  <2> HIDE DEF u
  <2>2. \A o : [[buffer |-> u, value |-> v, ok |-> o] EXCEPT !.value = value] = [buffer |-> u, value |-> value, ok |-> o]
        OBVIOUS
  <2>3. [buffer |-> u, value |-> v, ok |-> TRUE].ok = TRUE
        OBVIOUS
  <2> QED BY <2>1, <2>2, <2>3, Zenon DEF As
<1>3. Inside(b, IF check_read(b, n) THEN Returns(b, n, value) ELSE Throws(b))
      BY CheckedInside, Zenon
<1> QED BY <1>1, <1>2, <1>3, Zenon

\* One read.
LEMMA ReadInside ==
    ASSUME NEW b \in ByteBuffer, b.pos <= Len(b.data), NEW f, f.kind \in Kinds, f.w \in Nat
    PROVE  Inside(b, Read(b, f)) /\ (f.kind \in Terminated => Read(b, f).ok)
<1>1. ASSUME NEW value
      PROVE  /\ Inside(b, As(read_uint_be(b, f.w), value)) /\ Inside(b, As(read_uint_le(b, f.w), value))
             /\ Inside(b, As(read_bool(b), value))
  <2>1. 1 \in Nat
        OBVIOUS
  <2>2. Inside(b, As(read_uint_be(b, f.w), value))
        BY CheckedAs, Zenon DEF read_uint_be
  <2>3. Inside(b, As(read_uint_le(b, f.w), value))
        BY CheckedAs, Zenon DEF read_uint_le
  <2>4. Inside(b, As(read_bool(b), value))
        BY <2>1, CheckedAs, Zenon DEF read_bool
  <2> QED BY <2>2, <2>3, <2>4, Zenon
<1>2. /\ Inside(b, read_string_raw_be(b, f.w)) /\ Inside(b, read_string_raw_le(b, f.w))
      /\ Inside(b, read_string_nt_be(b)) /\ read_string_nt_be(b).ok
      /\ Inside(b, read_string_nt_le(b)) /\ read_string_nt_le(b).ok
      BY ReadsAlwaysInside, Zenon
<1>3. CASE f.kind \in Terminated
  <2>1. f.kind = "nt_be" \/ f.kind = "nt_le"
        BY <1>3, Zenon DEF Terminated
  <2> QED BY <1>2, <2>1, ReadIs, Zenon
<1>4. CASE f.kind \notin Terminated
  <2>1. \/ f.kind = "uint_be" \/ f.kind = "uint_le" \/ f.kind = "int_be" \/ f.kind = "int_le"
        \/ f.kind = "bool" \/ f.kind = "raw_be" \/ f.kind = "raw_le"
        BY <1>4, Zenon DEF Kinds, Unsigned, Signed, Raw
  <2>2. Inside(b, Read(b, f))
        BY <1>1, <1>2, <2>1, ReadIs, Zenon
  <2> QED BY <1>4, <2>2, Zenon
<1> QED BY <1>3, <1>4, Zenon

\* ReadsStayInside, for any string.
LEMMA TwoReads ==
    ASSUME bytes \in Seq(Byte)
    PROVE  ReadsStayInside
<1>1. ASSUME NEW first \in [kind : Kinds, w : Widths, value : {<<>>}], NEW second \in [kind : Kinds, w : Widths, value : {<<>>}]
      PROVE  LET one == Read(NewBuffer(bytes), first)
                 two == Read(one.buffer, second)
             IN /\ two.buffer.pos \in one.buffer.pos..Len(bytes)
                /\ ~one.ok => one.buffer = NewBuffer(bytes)
                /\ ~two.ok => two.buffer = one.buffer
                /\ second.kind \in Terminated => two.ok
  <2> DEFINE b == NewBuffer(bytes)
             one == Read(b, first)
             c == one.buffer
             two == Read(c, second)
  <2>1. first.kind \in Kinds /\ first.w \in Nat /\ second.kind \in Kinds /\ second.w \in Nat
    <3>1. Widths \subseteq Nat
          BY PacketAssumption, Zenon
    <3>2. first.kind \in Kinds /\ first.w \in Widths /\ second.kind \in Kinds /\ second.w \in Widths
      <4> HIDE DEF Kinds
      <4> QED OBVIOUS
    <3> QED BY <3>1, <3>2, Zenon
  <2>2. b \in ByteBuffer /\ b.pos = 0 /\ b.data = bytes /\ b.pos <= Len(b.data)
        BY DEF NewBuffer, ByteBuffer
  <2> HIDE DEF b
  <2>3. Inside(b, one)
        BY <2>1, <2>2, ReadInside, Zenon
  <2>4. c \in ByteBuffer /\ c.data = bytes /\ c.pos \in b.pos..Len(bytes) /\ (~one.ok => c = b)
        BY <2>2, <2>3, Zenon DEF Inside
  <2>5. c.pos <= Len(c.data)
        BY <2>2, <2>4
  <2> HIDE DEF c
  <2>6. Inside(c, two) /\ (second.kind \in Terminated => two.ok)
        BY <2>1, <2>4, <2>5, ReadInside, Zenon
  <2>7. two.buffer.pos \in c.pos..Len(bytes) /\ (~two.ok => two.buffer = c)
        BY <2>4, <2>6, Zenon DEF Inside
  <2> QED BY <2>4, <2>6, <2>7, Zenon DEF b, c
<1> QED BY <1>1, Zenon DEF ReadsStayInside

----------------------------------------------------------------------------
(* Recursion that goes up to the end of a string: the value at a position   *)
(* depends on those at later positions.                                     *)

\* step uses nothing of a function but its values at later positions.
Later(step, n, V) ==
    \A i \in 1..n, f \in [1..n -> V], h \in [1..n -> V] :
        (\A j \in 1..n : j > i => f[j] = h[j]) => step[<<i, f>>] = step[<<i, h>>]

\* f obeys step at the last m positions.
Settled(f, step, n, m) == \A i \in 1..n : i > n - m => f[i] = step[<<i, f>>]

\* f obeys it at all of them.
Solves(f, step, n) == \A i \in 1..n : f[i] = step[<<i, f>>]

\* There is a function that does.
LEMMA BackwardRecursion ==
    ASSUME NEW n \in Nat, NEW V, NEW v0 \in V, NEW step \in [(1..n) \X [1..n -> V] -> V], Later(step, n, V)
    PROVE  \E f \in [1..n -> V] : Solves(f, step, n)
<1> DEFINE S == {m \in Nat : \E f \in [1..n -> V] : Settled(f, step, n, m)}
<1>1. 0 \in S
  <2>1. [i \in 1..n |-> v0] \in [1..n -> V] /\ Settled([i \in 1..n |-> v0], step, n, 0)
        BY DEF Settled
  <2> QED BY <2>1, Zenon
<1>2. ASSUME NEW m \in Nat, m < n, m \in S PROVE m + 1 \in S
  <2>1. PICK f \in [1..n -> V] : Settled(f, step, n, m)
        BY <1>2, Zenon
  <2> DEFINE p == n - m
             h == [f EXCEPT ![p] = step[<<p, f>>]]
  <2>2. p \in 1..n
        BY <1>2
  <2>3. step[<<p, f>>] \in V
        BY <2>2
  <2>4. h \in [1..n -> V] /\ h[p] = step[<<p, f>>] /\ \A j \in 1..n : j # p => h[j] = f[j]
        BY <2>2, <2>3
  <2> HIDE DEF h
  <2>5. ASSUME NEW i \in 1..n, i >= p PROVE step[<<i, f>>] = step[<<i, h>>]
    <3>1. \A j \in 1..n : j > i => f[j] = h[j]
          BY <2>2, <2>4, <2>5
    <3> QED BY <2>4, <3>1, Zenon DEF Later
  <2>6. ASSUME NEW i \in 1..n, i > n - (m + 1) PROVE h[i] = step[<<i, h>>]
    <3>1. CASE i = p
      <4>1. p >= p
            BY <2>2
      <4> QED BY <2>2, <2>4, <2>5, <3>1, <4>1, Zenon
    <3>2. CASE i # p
      <4>1. i > n - m /\ i >= p
            BY <2>6, <3>2
      <4>2. f[i] = step[<<i, f>>]
            BY <2>1, <4>1, Zenon DEF Settled
      <4> QED BY <2>4, <2>5, <3>2, <4>1, <4>2, Zenon
    <3> QED BY <3>1, <3>2, Zenon
  <2>7. Settled(h, step, n, m + 1)
        BY <2>6, Zenon DEF Settled
  <2>8. m + 1 \in Nat
        OBVIOUS
  <2> QED BY <2>4, <2>7, <2>8, Zenon
<1> HIDE DEF S
<1>3. n \in S
  <2>1. \A k \in 0..n : k \in S
        BY <1>1, <1>2, Induction, Zenon
  <2> QED BY <2>1
<1>4. PICK f \in [1..n -> V] : Settled(f, step, n, n)
      BY <1>3, Zenon DEF S
<1>5. \A i \in 1..n : i > n - n
      OBVIOUS
<1>6. Solves(f, step, n)
      BY <1>4, <1>5, Zenon DEF Settled, Solves
<1> QED BY <1>6, Zenon

----------------------------------------------------------------------------
(* The loops of UTF8Utils.  Their bodies, with f for the rest of the loop.  *)

ValidAt(s, f, i) ==
    \/ i = Len(s) + 1
    \/ /\ i <= Len(s)
       /\ \/ s[i] <= 127 /\ f[i + 1]
          \/ Lead2(s[i]) /\ Sequence(s, i, 2) /\ f[i + 2]
          \/ Lead3(s[i]) /\ Sequence(s, i, 3) /\ f[i + 3]
          \/ Lead4(s[i]) /\ s[i] <= 244 /\ Sequence(s, i, 4) /\ f[i + 4]

UpperAt(s, f, i) ==
    IF i > Len(s) THEN <<>>
    ELSE IF s[i] <= 127 THEN <<toupper(s[i])>> \o f[i + 1]
    ELSE substr(s, i, SequenceLength(s[i])) \o f[i + SequenceLength(s[i])]

\* A function that is the loop of is_valid_utf8() at every position.
LEMMA ValidSteps ==
    ASSUME NEW s \in Seq(Byte)
    PROVE  \E f \in [1..(Len(s) + 1) -> BOOLEAN] :
               (\A i \in 1..(Len(s) + 1) : f[i] = ValidAt(s, f, i)) /\ is_valid_utf8(s) = f[1]
<1> DEFINE n == Len(s) + 1
           V == BOOLEAN
           step == [p \in (1..n) \X [1..n -> V] |-> ValidAt(s, p[2], p[1])]
           F[i \in 1..(Len(s) + 1)] ==
               \/ i = Len(s) + 1
               \/ /\ i <= Len(s)
                  /\ \/ s[i] <= 127 /\ F[i + 1]
                     \/ Lead2(s[i]) /\ Sequence(s, i, 2) /\ F[i + 2]
                     \/ Lead3(s[i]) /\ Sequence(s, i, 3) /\ F[i + 3]
                     \/ Lead4(s[i]) /\ s[i] <= 244 /\ Sequence(s, i, 4) /\ F[i + 4]
<1>0. Len(s) \in Nat /\ n \in Nat /\ 1 \in 1..n
      OBVIOUS
<1>1. F = CHOOSE h : h = [i \in 1..(Len(s) + 1) |-> ValidAt(s, h, i)]
      BY Zenon DEF ValidAt
<1>2. is_valid_utf8(s) = F[1]
      BY Zenon DEF is_valid_utf8
<1> HIDE DEF F
<1>3. \A f, i : ValidAt(s, f, i) \in BOOLEAN
      BY Zenon DEF ValidAt
<1>4. step \in [(1..n) \X [1..n -> V] -> V]
      BY <1>3, Zenon
<1>5. \A i \in 1..n, f \in [1..n -> V] : step[<<i, f>>] = ValidAt(s, f, i)
      OBVIOUS
<1>6. Later(step, n, V)
  <2> HIDE DEF step
  <2> SUFFICES ASSUME NEW i \in 1..n, NEW f \in [1..n -> V], NEW h \in [1..n -> V], \A j \in 1..n : j > i => f[j] = h[j]
               PROVE  step[<<i, f>>] = step[<<i, h>>]
      BY Zenon DEF Later
  <2>1. i <= Len(s) => i + 1 \in 1..n /\ i + 1 > i
        BY <1>0
  <2>2. \A k \in {2, 3, 4} : i + k - 1 <= Len(s) => i + k \in 1..n /\ i + k > i
        BY <1>0
  <2>3. i <= Len(s) => f[i + 1] = h[i + 1]
        BY <2>1, Zenon
  <2>4. \A k \in {2, 3, 4} : Sequence(s, i, k) => f[i + k] = h[i + k]
        BY <2>2, Zenon DEF Sequence
  <2>5. /\ Sequence(s, i, 2) => f[i + 2] = h[i + 2]
        /\ Sequence(s, i, 3) => f[i + 3] = h[i + 3]
        /\ Sequence(s, i, 4) => f[i + 4] = h[i + 4]
        BY <2>4
  <2>6. ValidAt(s, f, i) = ValidAt(s, h, i)
    <3> DEFINE one == s[i] <= 127
               two == Lead2(s[i]) /\ Sequence(s, i, 2)
               three == Lead3(s[i]) /\ Sequence(s, i, 3)
               four == Lead4(s[i]) /\ s[i] <= 244 /\ Sequence(s, i, 4)
               body(g1, g2, g3, g4) ==
                   i = Len(s) + 1 \/ (i <= Len(s) /\ ((one /\ g1) \/ (two /\ g2) \/ (three /\ g3) \/ (four /\ g4)))
    <3>1. \A u : ValidAt(s, u, i) <=> body(u[i + 1], u[i + 2], u[i + 3], u[i + 4])
          BY Zenon DEF ValidAt
    <3>2. (two => f[i + 2] = h[i + 2]) /\ (three => f[i + 3] = h[i + 3]) /\ (four => f[i + 4] = h[i + 4])
          BY <2>5, Zenon
    <3> HIDE DEF one, two, three, four
    <3>3. ValidAt(s, f, i) <=> ValidAt(s, h, i)
          BY <2>3, <3>1, <3>2, Zenon
    <3> QED BY <1>3, <3>3, Zenon
  <2> QED BY <1>5, <2>6, Zenon
<1>7. TRUE \in V
      OBVIOUS
<1>8. PICK f \in [1..n -> V] : Solves(f, step, n)
  <2> HIDE DEF step, n, V
  <2> QED BY <1>0, <1>4, <1>6, <1>7, BackwardRecursion, Zenon
<1> HIDE DEF step
<1>9. \A i \in 1..n : f[i] = ValidAt(s, f, i)
      BY <1>5, <1>8, Zenon DEF Solves
<1>10. f = [i \in 1..n |-> ValidAt(s, f, i)]
       BY <1>9, Zenon
<1>11. F = [i \in 1..n |-> ValidAt(s, F, i)]
       BY <1>1, <1>10, Zenon
<1>12. F \in [1..n -> BOOLEAN]
       BY <1>3, <1>11, Zenon
<1>13. \A i \in 1..n : F[i] = ValidAt(s, F, i)
       BY <1>11, Zenon
<1> QED BY <1>2, <1>12, <1>13, Zenon

\* How long a character says it is.
LEMMA LengthRange == \A c : SequenceLength(c) \in 1..4
BY DEF SequenceLength

\* Upper-case bytes and copied ones are bytes.
LEMMA UpperBytes ==
    ASSUME NEW s \in Seq(Byte), NEW i \in 1..Len(s)
    PROVE  /\ s[i] \in Byte /\ toupper(s[i]) \in Byte
           /\ \A n \in 1..4 : substr(s, i, n) \in Seq(Byte)
<1>1. s[i] \in Byte
      OBVIOUS
<1>2. toupper(s[i]) \in Byte
      BY <1>1 DEF toupper, Byte, Base
<1>3. ASSUME NEW n \in 1..4 PROVE substr(s, i, n) \in Seq(Byte)
      BY DEF substr
<1> QED BY <1>1, <1>2, <1>3

\* A function that is the loop of to_uppercase() at every position.
LEMMA UpperSteps ==
    ASSUME NEW s \in Seq(Byte)
    PROVE  \E f \in [1..(Len(s) + 4) -> Seq(Byte)] :
               (\A i \in 1..(Len(s) + 4) : f[i] = UpperAt(s, f, i)) /\ to_uppercase(s) = f[1]
<1> DEFINE n == Len(s) + 4
           V == Seq(Byte)
           step == [p \in (1..n) \X [1..n -> V] |-> UpperAt(s, p[2], p[1])]
           F[i \in 1..(Len(s) + 4)] ==
               IF i > Len(s) THEN <<>>
               ELSE IF s[i] <= 127 THEN <<toupper(s[i])>> \o F[i + 1]
               ELSE substr(s, i, SequenceLength(s[i])) \o F[i + SequenceLength(s[i])]
<1>0. Len(s) \in Nat /\ n \in Nat /\ \A i \in 1..n : ~(i > Len(s)) => i \in 1..Len(s)
      OBVIOUS
<1>1. F = CHOOSE h : h = [i \in 1..(Len(s) + 4) |-> UpperAt(s, h, i)]
      BY Zenon DEF UpperAt
<1>2. to_uppercase(s) = F[1]
      BY Zenon DEF to_uppercase
<1> HIDE DEF F
<1>3. \A i \in 1..Len(s), k \in 1..4 : i + k \in 1..n /\ i + k > i
      BY <1>0
<1>4. ASSUME NEW i \in 1..n, NEW f \in [1..n -> V] PROVE UpperAt(s, f, i) \in V
  <2>1. CASE i > Len(s)
    <3>1. <<>> \in V
          OBVIOUS
    <3> QED BY <2>1, <3>1, Zenon DEF UpperAt
  <2>2. CASE ~(i > Len(s))
    <3> DEFINE k == SequenceLength(s[i])
    <3>1. i \in 1..Len(s) /\ k \in 1..4 /\ 1 \in 1..4
          BY <1>0, <2>2, LengthRange
    <3> HIDE DEF k
    <3>2. f[i + 1] \in V /\ f[i + k] \in V
          BY <1>3, <3>1, Zenon
    <3>3. <<toupper(s[i])>> \in V /\ substr(s, i, k) \in V
      <4>1. toupper(s[i]) \in Byte /\ substr(s, i, k) \in Seq(Byte)
            BY <3>1, UpperBytes, Zenon
      <4> QED BY <4>1
    <3>4. <<toupper(s[i])>> \o f[i + 1] \in V /\ substr(s, i, k) \o f[i + k] \in V
          BY <3>2, <3>3, ConcatFacts, Zenon
    <3> QED BY <2>2, <3>4, Zenon DEF UpperAt, k
  <2> QED BY <2>1, <2>2, Zenon
<1>5. step \in [(1..n) \X [1..n -> V] -> V]
  <2> HIDE DEF n, V
  <2> QED BY <1>4
<1>6. \A i \in 1..n, f \in [1..n -> V] : step[<<i, f>>] = UpperAt(s, f, i)
  <2> HIDE DEF n, V
  <2> QED OBVIOUS
<1>7. Later(step, n, V)
  <2> HIDE DEF step
  <2> SUFFICES ASSUME NEW i \in 1..n, NEW f \in [1..n -> V], NEW h \in [1..n -> V], \A j \in 1..n : j > i => f[j] = h[j]
               PROVE  step[<<i, f>>] = step[<<i, h>>]
      BY Zenon DEF Later
  <2>1. CASE i > Len(s)
        BY <1>6, <2>1, Zenon DEF UpperAt
  <2>2. CASE ~(i > Len(s))
    <3> DEFINE k == SequenceLength(s[i])
    <3>1. i \in 1..Len(s) /\ k \in 1..4 /\ 1 \in 1..4
          BY <1>0, <2>2, LengthRange
    <3>2. f[i + 1] = h[i + 1] /\ f[i + k] = h[i + k]
          BY <1>3, <3>1, Zenon
    <3>3. UpperAt(s, f, i) = UpperAt(s, h, i)
          BY <2>2, <3>2, Zenon DEF UpperAt
    <3> QED BY <1>6, <3>3, Zenon
  <2> QED BY <2>1, <2>2, Zenon
<1>8. <<>> \in V
      OBVIOUS
<1>9. PICK f \in [1..n -> V] : Solves(f, step, n)
  <2> HIDE DEF step, n, V
  <2> QED BY <1>0, <1>5, <1>7, <1>8, BackwardRecursion, Zenon
<1> HIDE DEF step
<1>10. \A i \in 1..n : f[i] = UpperAt(s, f, i)
       BY <1>6, <1>9, Zenon DEF Solves
<1>11. f = [i \in 1..n |-> UpperAt(s, f, i)]
       BY <1>10, Zenon
<1>12. F = [i \in 1..n |-> UpperAt(s, F, i)]
       BY <1>1, <1>11, Zenon
<1>13. \A i \in 1..n : F[i] = UpperAt(s, F, i)
       BY <1>12, Zenon
<1>14. \A i \in 1..n : F[i] \in V
  <2> DEFINE T == {d \in Nat : \E i \in 1..n : d = n - i /\ F[i] \notin V}
  <2> SUFFICES ASSUME T # {} PROVE FALSE
    <3>1. \A i \in 1..n : n - i \in Nat
          BY <1>0
    <3> QED BY <3>1, Zenon
  <2>1. PICK d \in T : \A e \in T : d <= e
    <3>1. T \subseteq Nat
          OBVIOUS
    <3> QED BY <3>1, LeastNumber, Zenon
  <2>2. PICK i \in 1..n : d = n - i /\ F[i] \notin V
        BY <2>1, Zenon
  <2>3. \A j \in 1..n : j > i => F[j] \in V
    <3> SUFFICES ASSUME NEW j \in 1..n, j > i, F[j] \notin V PROVE FALSE
        BY Zenon
    <3>1. n - j \in Nat /\ ~(d <= n - j)
          BY <1>0, <2>2
    <3>2. n - j \in T
          BY <3>1, Zenon
    <3> QED BY <2>1, <3>1, <3>2, Zenon
  <2> DEFINE g2 == [j \in 1..n |-> IF j > i THEN F[j] ELSE <<>>]
  <2>4. g2 \in [1..n -> V]
        BY <1>8, <2>3, Zenon
  <2>5. UpperAt(s, g2, i) \in V
        BY <1>4, <2>4, Zenon
  <2>6. UpperAt(s, g2, i) = UpperAt(s, F, i)
    <3>1. CASE i > Len(s)
          BY <3>1, Zenon DEF UpperAt
    <3>2. CASE ~(i > Len(s))
      <4> DEFINE k == SequenceLength(s[i])
      <4>1. i \in 1..Len(s) /\ k \in 1..4 /\ 1 \in 1..4
            BY <1>0, <3>2, LengthRange
      <4>2. g2[i + 1] = F[i + 1] /\ g2[i + k] = F[i + k]
            BY <1>3, <4>1, Zenon
      <4> HIDE DEF g2
      <4> QED BY <3>2, <4>2, Zenon DEF UpperAt
    <3> QED BY <3>1, <3>2, Zenon
  <2> QED BY <1>13, <2>2, <2>5, <2>6, Zenon
<1>15. F \in [1..n -> V]
       BY <1>12, <1>13, <1>14, Zenon
<1> QED BY <1>2, <1>13, <1>15, Zenon

\* The k bytes from i on in upper case.
Mapped(s, i, k) == [j \in 1..k |-> toupper(s[i + j - 1])]

\* They are a string.
LEMMA MappedType ==
    ASSUME NEW s \in Seq(Byte), NEW i \in Nat \ {0}, NEW k \in Nat, i + k <= Len(s) + 1
    PROVE  Mapped(s, i, k) \in Seq(Byte) /\ Len(Mapped(s, i, k)) = k
<1>1. ASSUME NEW j \in 1..k PROVE toupper(s[i + j - 1]) \in Byte
  <2>1. i + j - 1 \in 1..Len(s)
        OBVIOUS
  <2> QED BY <2>1, UpperBytes, Zenon
<1>2. Mapped(s, i, k) \in [1..k -> Byte]
      BY <1>1, Zenon DEF Mapped
<1> QED BY <1>2

\* A byte of a character of several bytes.
High(c) == c >= 128

\* Such bytes are the same in upper case.
LEMMA CopiedIsMapped ==
    ASSUME NEW s \in Seq(Byte), NEW i \in 1..Len(s), NEW k \in 1..4, i + k - 1 <= Len(s),
           \A j \in i..(i + k - 1) : High(s[j])
    PROVE  substr(s, i, k) = Mapped(s, i, k)
<1> DEFINE t == SubSeq(s, i, i + k - 1)
<1>1. substr(s, i, k) = t
      BY Zenon DEF substr
<1>2. t \in Seq(Byte) /\ Len(t) = k /\ \A j \in 1..k : t[j] = s[i + j - 1]
      OBVIOUS
<1> HIDE DEF t
<1>3. Mapped(s, i, k) \in Seq(Byte) /\ Len(Mapped(s, i, k)) = k
  <2>1. i \in Nat \ {0} /\ k \in Nat /\ i + k <= Len(s) + 1
        OBVIOUS
  <2> QED BY <2>1, MappedType, Zenon
<1>4. ASSUME NEW j \in 1..k PROVE t[j] = Mapped(s, i, k)[j]
  <2>1. i + j - 1 \in i..(i + k - 1) /\ i + j - 1 \in 1..Len(s)
        OBVIOUS
  <2>2. High(s[i + j - 1]) /\ s[i + j - 1] \in Byte
        BY <2>1, UpperBytes, Zenon
  <2>3. \A c \in Byte : High(c) => toupper(c) = c
        BY DEF High, toupper, Byte, Base
  <2>4. Mapped(s, i, k)[j] = toupper(s[i + j - 1])
        BY Zenon DEF Mapped
  <2> QED BY <1>2, <2>2, <2>3, <2>4, Zenon
<1>5. t = Mapped(s, i, k)
      BY <1>2, <1>3, <1>4, SameSeq, Zenon
<1> QED BY <1>1, <1>5, Zenon

\* What both loops do with a character of several bytes.
LEMMA LongCharacter ==
    ASSUME NEW s \in Seq(Byte), NEW i \in 1..Len(s), NEW k \in 2..4, NEW u,
           High(s[i]), SequenceLength(s[i]) = k, Sequence(s, i, k)
    PROVE  i + k <= Len(s) + 1 /\ UpperAt(s, u, i) = Mapped(s, i, k) \o u[i + k]
<1>1. i + k - 1 <= Len(s) /\ \A j \in (i + 1)..(i + k - 1) : Continuation(s[j])
      BY Zenon DEF Sequence
<1>2. ASSUME NEW j \in i..(i + k - 1) PROVE High(s[j])
  <2>1. CASE j = i
        BY <2>1
  <2>2. CASE j # i
    <3>1. j \in (i + 1)..(i + k - 1)
          BY <2>2
    <3>2. \A c : Continuation(c) => High(c)
          BY DEF Continuation, High
    <3> QED BY <1>1, <3>1, <3>2, Zenon
  <2> QED BY <2>1, <2>2
<1>3. k \in 1..4 /\ i + k <= Len(s) + 1
      BY <1>1
<1>4. substr(s, i, k) = Mapped(s, i, k)
      BY <1>1, <1>2, <1>3, CopiedIsMapped, Zenon
<1>5. ~(i > Len(s)) /\ ~(s[i] <= 127)
  <2>1. s[i] \in Nat
        BY UpperBytes, ByteNat, Zenon
  <2>2. ~(s[i] <= 127)
        BY <2>1 DEF High
  <2>3. ~(i > Len(s))
        OBVIOUS
  <2> QED BY <2>2, <2>3
<1> QED BY <1>3, <1>4, <1>5, Zenon DEF UpperAt

\* From a position where is_valid_utf8() goes on, both loops take the same
\* character, and to_uppercase() turns it into its upper-case bytes.
LEMMA OneCharacter ==
    ASSUME NEW s \in Seq(Byte), NEW i \in 1..Len(s), NEW f, NEW u, ValidAt(s, f, i)
    PROVE  \E k \in 1..4 : i + k <= Len(s) + 1 /\ f[i + k] /\ UpperAt(s, u, i) = Mapped(s, i, k) \o u[i + k]
<1>0. s[i] \in Byte /\ i # Len(s) + 1 /\ ~(i > Len(s)) /\ i + 1 <= Len(s) + 1
  <2>1. s[i] \in Byte
        BY UpperBytes, Zenon
  <2> QED BY <2>1
<1>1. \A c : /\ Lead2(c) => High(c) /\ SequenceLength(c) = 2
             /\ Lead3(c) => High(c) /\ SequenceLength(c) = 3
             /\ Lead4(c) => High(c) /\ SequenceLength(c) = 4
  <2>1. \A c : Lead2(c) => High(c)
        BY DEF Lead2, High
  <2>2. \A c : Lead3(c) => High(c) /\ ~Lead2(c)
        BY DEF Lead2, Lead3, High
  <2>3. \A c : Lead4(c) => High(c) /\ ~Lead2(c) /\ ~Lead3(c)
        BY DEF Lead2, Lead3, Lead4, High
  <2> QED BY <2>1, <2>2, <2>3, Zenon DEF SequenceLength
<1>2. \/ s[i] <= 127 /\ f[i + 1]
      \/ Lead2(s[i]) /\ Sequence(s, i, 2) /\ f[i + 2]
      \/ Lead3(s[i]) /\ Sequence(s, i, 3) /\ f[i + 3]
      \/ Lead4(s[i]) /\ Sequence(s, i, 4) /\ f[i + 4]
      BY <1>0, Zenon DEF ValidAt
<1>3. CASE s[i] <= 127 /\ f[i + 1]
  <2>1. Mapped(s, i, 1) = <<toupper(s[i])>>
    <3>1. i + 1 - 1 = i
          OBVIOUS
    <3>2. Mapped(s, i, 1) \in Seq(Byte) /\ Len(Mapped(s, i, 1)) = 1 /\ <<toupper(s[i])>> \in Seq(Byte)
      <4>1. i \in Nat \ {0} /\ 1 \in Nat
            OBVIOUS
      <4>2. toupper(s[i]) \in Byte
            BY UpperBytes, Zenon
      <4>3. Mapped(s, i, 1) \in Seq(Byte) /\ Len(Mapped(s, i, 1)) = 1
            BY <1>0, <4>1, MappedType, Zenon
      <4>4. <<toupper(s[i])>> \in Seq(Byte)
            BY <4>2
      <4> QED BY <4>3, <4>4, Zenon
    <3>3. Mapped(s, i, 1)[1] = toupper(s[i])
          BY <3>1 DEF Mapped
    <3> QED BY <3>2, <3>3
  <2>2. UpperAt(s, u, i) = Mapped(s, i, 1) \o u[i + 1]
        BY <1>0, <1>3, <2>1, Zenon DEF UpperAt
  <2>3. 1 \in 1..4
        OBVIOUS
  <2> QED BY <1>0, <1>3, <2>2, <2>3, Zenon
<1>4. CASE Lead2(s[i]) /\ Sequence(s, i, 2) /\ f[i + 2]
  <2>1. 2 \in 2..4 /\ 2 \in 1..4
        OBVIOUS
  <2>2. High(s[i]) /\ SequenceLength(s[i]) = 2 /\ Sequence(s, i, 2) /\ f[i + 2]
        BY <1>1, <1>4, Zenon
  <2> QED BY <2>1, <2>2, LongCharacter, ZenonT(30)
<1>5. CASE Lead3(s[i]) /\ Sequence(s, i, 3) /\ f[i + 3]
  <2>1. 3 \in 2..4 /\ 3 \in 1..4
        OBVIOUS
  <2>2. High(s[i]) /\ SequenceLength(s[i]) = 3 /\ Sequence(s, i, 3) /\ f[i + 3]
        BY <1>1, <1>5, Zenon
  <2> QED BY <2>1, <2>2, LongCharacter, ZenonT(30)
<1>6. CASE Lead4(s[i]) /\ Sequence(s, i, 4) /\ f[i + 4]
  <2>1. 4 \in 2..4 /\ 4 \in 1..4
        OBVIOUS
  <2>2. High(s[i]) /\ SequenceLength(s[i]) = 4 /\ Sequence(s, i, 4) /\ f[i + 4]
        BY <1>1, <1>6, Zenon
  <2> QED BY <2>1, <2>2, LongCharacter, ZenonT(30)
<1> QED BY <1>2, <1>3, <1>4, <1>5, <1>6, Zenon

\* A character and what follows it.
LEMMA MappedJoins ==
    ASSUME NEW s \in Seq(Byte), NEW i \in 1..Len(s), NEW k \in 1..4, i + k <= Len(s) + 1
    PROVE  Mapped(s, i, k) \o Mapped(s, i + k, Len(s) + 1 - (i + k)) = Mapped(s, i, Len(s) + 1 - i)
<1> DEFINE m == Len(s) + 1 - (i + k)
           a == Mapped(s, i, k)
           b == Mapped(s, i + k, m)
           c == Mapped(s, i, Len(s) + 1 - i)
<1>1. /\ i \in Nat \ {0} /\ k \in Nat /\ m \in Nat /\ i + k \in Nat \ {0} /\ i + k + m <= Len(s) + 1
      /\ Len(s) + 1 - i \in Nat /\ i + (Len(s) + 1 - i) <= Len(s) + 1 /\ Len(s) + 1 - i = k + m
      OBVIOUS
<1>2. a \in Seq(Byte) /\ Len(a) = k
      BY <1>1, MappedType, Zenon
<1>3. b \in Seq(Byte) /\ Len(b) = m
      BY <1>1, MappedType, Zenon
<1>4. c \in Seq(Byte) /\ Len(c) = k + m
      BY <1>1, MappedType, Zenon
<1>5. /\ \A j \in 1..k : a[j] = toupper(s[i + j - 1])
      /\ \A j \in 1..m : b[j] = toupper(s[(i + k) + j - 1])
      /\ \A j \in 1..(k + m) : c[j] = toupper(s[i + j - 1])
      BY <1>1, Zenon DEF Mapped
<1> HIDE DEF a, b, c, m
<1>6. a \o b \in Seq(Byte) /\ Len(a \o b) = k + m
      BY <1>1, <1>2, <1>3
<1>7. ASSUME NEW j \in 1..(k + m) PROVE (a \o b)[j] = c[j]
  <2>1. CASE j <= k
    <3>1. j \in 1..k /\ (a \o b)[j] = a[j]
          BY <1>1, <1>2, <1>3, <2>1
    <3> QED BY <1>5, <3>1, Zenon
  <2>2. CASE j > k
    <3>1. j - k \in 1..m /\ (a \o b)[j] = b[j - k] /\ (i + k) + (j - k) - 1 = i + j - 1
          BY <1>1, <1>2, <1>3, <2>2
    <3> QED BY <1>5, <3>1, Zenon
  <2>3. j <= k \/ j > k
        BY <1>1
  <2> QED BY <2>1, <2>2, <2>3, Zenon
<1>8. a \o b = c
      BY <1>4, <1>6, <1>7, SameSeq, Zenon
<1> QED BY <1>8, Zenon DEF a, b, c, m

\* to_uppercase() of a valid string is that string with toupper() applied to
\* each of its bytes: no character of several bytes is cut, changed or lost.
THEOREM UpperCaseByteWise ==
    ASSUME NEW s \in Seq(Byte), is_valid_utf8(s)
    PROVE  to_uppercase(s) = [i \in 1..Len(s) |-> toupper(s[i])]
<1> DEFINE n == Len(s)
<1>0. n \in Nat /\ \A i \in 1..n : i \in 1..(n + 1)
      OBVIOUS
<1>1. PICK f \in [1..(n + 1) -> BOOLEAN] : (\A i \in 1..(n + 1) : f[i] = ValidAt(s, f, i)) /\ is_valid_utf8(s) = f[1]
      BY ValidSteps, Zenon
<1>2. PICK u \in [1..(n + 4) -> Seq(Byte)] : (\A i \in 1..(n + 4) : u[i] = UpperAt(s, u, i)) /\ to_uppercase(s) = u[1]
      BY UpperSteps, Zenon
<1> DEFINE T == {d \in Nat : \E i \in 1..(n + 1) : d = n + 1 - i /\ f[i] /\ u[i] # Mapped(s, i, n + 1 - i)}
<1>3. T = {}
  <2> SUFFICES ASSUME T # {} PROVE FALSE
      OBVIOUS
  <2>1. PICK d \in T : \A e \in T : d <= e
    <3>1. T \subseteq Nat
          OBVIOUS
    <3> QED BY <3>1, LeastNumber, Zenon
  <2>2. PICK i \in 1..(n + 1) : d = n + 1 - i /\ f[i] /\ u[i] # Mapped(s, i, n + 1 - i)
        BY <2>1, Zenon
  <2>3. i \in 1..(n + 4) /\ u[i] = UpperAt(s, u, i) /\ ValidAt(s, f, i)
    <3>1. i \in 1..(n + 4)
          BY <1>0
    <3> QED BY <1>1, <1>2, <2>2, <3>1, Zenon
  <2>4. CASE i = n + 1
    <3>1. i > n /\ n + 1 - i = 0
          BY <1>0, <2>4
    <3>2. u[i] = <<>>
          BY <2>3, <3>1, Zenon DEF UpperAt
    <3>3. Mapped(s, i, 0) = <<>>
          BY DEF Mapped
    <3> QED BY <2>2, <3>1, <3>2, <3>3, Zenon
  <2>5. CASE i \in 1..n
    <3>1. PICK k \in 1..4 : i + k <= n + 1 /\ f[i + k] /\ UpperAt(s, u, i) = Mapped(s, i, k) \o u[i + k]
          BY <2>3, <2>5, OneCharacter, ZenonT(30)
    <3>2. i + k \in 1..(n + 1) /\ n + 1 - (i + k) \in Nat /\ ~(d <= n + 1 - (i + k))
          BY <1>0, <2>2, <2>5, <3>1
    <3>3. n + 1 - (i + k) \notin T
          BY <2>1, <3>2, Zenon
    <3>4. u[i + k] = Mapped(s, i + k, n + 1 - (i + k))
          BY <3>1, <3>2, <3>3, Zenon
    <3>5. Mapped(s, i, k) \o Mapped(s, i + k, n + 1 - (i + k)) = Mapped(s, i, n + 1 - i)
          BY <2>5, <3>1, MappedJoins, Zenon
    <3> QED BY <2>2, <2>3, <3>1, <3>4, <3>5, Zenon
  <2>6. i = n + 1 \/ i \in 1..n
        BY <1>0
  <2> QED BY <2>4, <2>5, <2>6, Zenon
<1>4. n + 1 - 1 = n /\ 1 \in 1..(n + 1)
      BY <1>0
<1>5. n \in Nat /\ n \notin T
      BY <1>0, <1>3, Zenon
<1>6. f[1]
      BY <1>1, Zenon
<1>7. u[1] = Mapped(s, 1, n + 1 - 1)
      BY <1>4, <1>5, <1>6, Zenon
<1>8. Mapped(s, 1, n) = [i \in 1..n |-> toupper(s[i])]
  <2>1. \A i \in 1..n : 1 + i - 1 = i
        BY <1>0
  <2> QED BY <2>1, Zenon DEF Mapped
<1> QED BY <1>2, <1>4, <1>7, <1>8, Zenon

----------------------------------------------------------------------------
(* What a valid name is.  Of each of the lengths a character can have, the  *)
(* tests of is_valid_utf8() on its bytes are those that tell whether they   *)
(* encode a code point; the two loops are then the same function.           *)

\* The last code point whose encoding is_valid_utf8() lets through.
LastPoint == 1310719

\* Characters of one byte.
LEMMA OneByte ==
    ASSUME NEW c \in Byte
    PROVE  EncodesOne(<<c>>, LastPoint) <=> c <= 127
<1>1. Decode(<<c>>) = c /\ c \in Nat /\ c < 256
      BY DEF Decode, Byte, Base
<1>2. c <= 127 => Encode(c) = <<c>>
      BY <1>1 DEF Encode
<1>3. c > 127 => Encode(c) = <<192 + (c \div 64), 128 + (c % 64)>>
      BY <1>1 DEF Encode
<1>4. c > 127 => Encode(c) # <<c>>
      BY <1>3
<1>5. c <= LastPoint /\ ~Surrogate(c)
      BY <1>1 DEF LastPoint, Surrogate
<1> QED BY <1>1, <1>2, <1>4, <1>5 DEF EncodesOne

\* The tests on a character of two bytes, of three and of four.
Start2(c, d) == Lead2(c) /\ Continuation(d) /\ ~Overlong(c, d) /\ ~SurrogateHalf(c, d)

\* Characters of two bytes.
LEMMA TwoBytes ==
    ASSUME NEW c \in Byte, NEW d \in Byte
    PROVE  EncodesOne(<<c, d>>, LastPoint) <=> Start2(c, d)
<1> DEFINE p == (c % 32) * 64 + (d % 64)
<1>0. c \in Nat /\ c < 256 /\ d \in Nat /\ d < 256
      BY DEF Byte, Base
<1>1. Decode(<<c, d>>) = p
      BY DEF Decode
<1>2. p \in Nat /\ p < 2048
      BY <1>0
<1>3. Start2(c, d) <=> p >= 128 /\ 192 + (p \div 64) = c /\ 128 + (p % 64) = d
      BY <1>0 DEF Start2, Lead2, Continuation, Overlong, SurrogateHalf
<1> HIDE DEF p
<1>4. CASE p < 128
  <2>1. Encode(p) = <<p>>
        BY <1>4 DEF Encode
  <2> QED BY <1>1, <1>3, <1>4, <2>1, <1>2 DEF EncodesOne
<1>5. CASE p >= 128
  <2>1. Encode(p) = <<192 + (p \div 64), 128 + (p % 64)>>
        BY <1>2, <1>5 DEF Encode
  <2>2. Encode(p) = <<c, d>> <=> Start2(c, d)
        BY <2>1, <1>3, <1>5
  <2>3. p <= LastPoint /\ ~Surrogate(p)
        BY <1>2 DEF LastPoint, Surrogate
  <2> QED BY <1>1, <2>2, <2>3 DEF EncodesOne
<1> QED BY <1>2, <1>4, <1>5

Start3(c, d, e) == Lead3(c) /\ Continuation(d) /\ Continuation(e) /\ ~Overlong(c, d) /\ ~SurrogateHalf(c, d)

\* Characters of three bytes.
LEMMA ThreeBytes ==
    ASSUME NEW c \in Byte, NEW d \in Byte, NEW e \in Byte
    PROVE  EncodesOne(<<c, d, e>>, LastPoint) <=> Start3(c, d, e)
<1> DEFINE p == (c % 16) * 4096 + (d % 64) * 64 + (e % 64)
<1>0. c \in Nat /\ c < 256 /\ d \in Nat /\ d < 256 /\ e \in Nat /\ e < 256
      BY DEF Byte, Base
<1>1. Decode(<<c, d, e>>) = p
      BY DEF Decode
<1>2. p \in Nat /\ p < 65536
      BY <1>0
<1>3. Start3(c, d, e) <=> /\ p >= 2048 /\ ~Surrogate(p)
                          /\ 224 + (p \div 4096) = c /\ 128 + ((p \div 64) % 64) = d /\ 128 + (p % 64) = e
      BY <1>0 DEF Start3, Lead3, Continuation, Overlong, SurrogateHalf, Surrogate
<1> HIDE DEF p
<1>4. CASE p < 128
  <2>1. Encode(p) = <<p>>
        BY <1>4 DEF Encode
  <2> QED BY <1>1, <1>3, <1>4, <2>1, <1>2 DEF EncodesOne
<1>5. CASE p >= 128 /\ p < 2048
  <2>1. Encode(p) = <<192 + (p \div 64), 128 + (p % 64)>>
        BY <1>2, <1>5 DEF Encode
  <2> QED BY <1>1, <1>3, <1>5, <2>1, <1>2 DEF EncodesOne
<1>6. CASE p >= 2048
  <2>1. Encode(p) = <<224 + (p \div 4096), 128 + ((p \div 64) % 64), 128 + (p % 64)>>
        BY <1>2, <1>6 DEF Encode
  <2>3. p <= LastPoint
        BY <1>2 DEF LastPoint
  <2> QED BY <1>1, <1>3, <1>6, <2>1, <2>3 DEF EncodesOne
<1> QED BY <1>2, <1>4, <1>5, <1>6

Start4(c, d, e, f) ==
    /\ Lead4(c) /\ c <= 244 /\ Continuation(d) /\ Continuation(e) /\ Continuation(f)
    /\ ~Overlong(c, d) /\ ~SurrogateHalf(c, d)

\* p is a code point of four bytes, and these are they.
Point4(p, c, d, e, f) ==
    /\ p >= 65536 /\ p <= LastPoint /\ 240 + (p \div 262144) = c /\ 128 + ((p \div 4096) % 64) = d
    /\ 128 + ((p \div 64) % 64) = e /\ 128 + (p % 64) = f

\* Characters of four bytes.
LEMMA FourBytes ==
    ASSUME NEW c \in Byte, NEW d \in Byte, NEW e \in Byte, NEW f \in Byte
    PROVE  EncodesOne(<<c, d, e, f>>, LastPoint) <=> Start4(c, d, e, f)
<1> DEFINE p == (c % 8) * 262144 + (d % 64) * 4096 + (e % 64) * 64 + (f % 64)
<1>0. c \in Nat /\ c < 256 /\ d \in Nat /\ d < 256 /\ e \in Nat /\ e < 256 /\ f \in Nat /\ f < 256
      BY DEF Byte, Base
<1>1. Decode(<<c, d, e, f>>) = p
      BY DEF Decode
<1>2. p \in Nat
      BY <1>0
<1>3. Start4(c, d, e, f) <=> Point4(p, c, d, e, f) /\ ~Surrogate(p)
  <2>1. ASSUME Start4(c, d, e, f)
        PROVE  Point4(p, c, d, e, f)
    <3>1. c >= 240 /\ c <= 244 /\ d >= 128 /\ d < 192 /\ e >= 128 /\ e < 192 /\ f >= 128 /\ f < 192 /\ (c = 240 => d >= 144)
          BY <1>0, <2>1, SMT DEF Start4, Lead4, Continuation, Overlong
    <3>2. c % 8 = c - 240 /\ d % 64 = d - 128 /\ e % 64 = e - 128 /\ f % 64 = f - 128
          BY <1>0, <3>1, SMT
    <3>3. p = (c - 240) * 262144 + (d - 128) * 4096 + (e - 128) * 64 + (f - 128)
          BY <3>2, SMT
    <3> HIDE DEF p
    <3>4. p >= 65536 /\ p <= LastPoint
          BY <1>0, <3>1, <3>3, SMT DEF LastPoint
    <3>5. p \div 262144 = c - 240 /\ p % 64 = f - 128
          BY <1>0, <3>1, <3>3, SMT
    <3>6. p \div 4096 = (c - 240) * 64 + (d - 128) /\ p \div 64 = (c - 240) * 4096 + (d - 128) * 64 + (e - 128)
          BY <1>0, <3>1, <3>3, SMT
    <3>7. (p \div 4096) % 64 = d - 128 /\ (p \div 64) % 64 = e - 128
          BY <1>0, <3>1, <3>6, SMT
    <3> QED BY <1>0, <3>4, <3>5, <3>7, SMT DEF Point4
  <2>2. ASSUME Point4(p, c, d, e, f)
        PROVE  Start4(c, d, e, f)
    <3> DEFINE q == p
    <3>1. q \in Nat /\ q >= 65536 /\ q <= LastPoint /\ q \div 262144 = c - 240 /\ (q \div 4096) % 64 = d - 128
          BY <1>0, <1>2, <2>2, SMT DEF Point4
    <3>2. (q \div 64) % 64 = e - 128 /\ q % 64 = f - 128
          BY <1>0, <1>2, <2>2, SMT DEF Point4
    <3> HIDE DEF q
    <3>3. d >= 128 /\ d < 192 /\ e >= 128 /\ e < 192 /\ f >= 128 /\ f < 192
          BY <1>0, <3>1, <3>2, SMT
    <3>4. c >= 240 /\ c <= 244
          BY <1>0, <3>1, SMT DEF LastPoint
    <3>5. c = 240 => d >= 144
          BY <1>0, <3>1, SMT
    <3> QED BY <1>0, <3>3, <3>4, <3>5, SMT DEF Start4, Lead4, Continuation, Overlong, SurrogateHalf
  <2>3. Point4(p, c, d, e, f) => ~Surrogate(p)
        BY <1>2, SMT DEF Surrogate, Point4
  <2> HIDE DEF p
  <2> QED BY <2>1, <2>2, <2>3, Zenon
<1> HIDE DEF p
<1>4. CASE p < 65536
  <2>1. Encode(p) # <<c, d, e, f>>
    <3>1. p < 128 => Encode(p) = <<p>>
          BY <1>4 DEF Encode
    <3>2. p >= 128 /\ p < 2048 => Encode(p) = <<192 + (p \div 64), 128 + (p % 64)>>
          BY <1>2 DEF Encode
    <3>3. p >= 2048 => Encode(p) = <<224 + (p \div 4096), 128 + ((p \div 64) % 64), 128 + (p % 64)>>
          BY <1>2, <1>4 DEF Encode
    <3> QED BY <1>2, <3>1, <3>2, <3>3
  <2> QED BY <1>1, <1>2, <1>3, <1>4, <2>1 DEF EncodesOne, Point4
<1>5. CASE p >= 65536
  <2>1. Encode(p) = <<240 + (p \div 262144), 128 + ((p \div 4096) % 64), 128 + ((p \div 64) % 64), 128 + (p % 64)>>
        BY <1>2, <1>5 DEF Encode
  <2> QED BY <1>1, <1>3, <1>5, <2>1 DEF EncodesOne, Point4
<1> QED BY <1>2, <1>4, <1>5

\* A string of up to four bytes is the tuple of them.
LEMMA ShortTuples ==
    ASSUME NEW t \in Seq(Byte)
    PROVE  /\ Len(t) = 1 => t = <<t[1]>>
           /\ Len(t) = 2 => t = <<t[1], t[2]>>
           /\ Len(t) = 3 => t = <<t[1], t[2], t[3]>>
           /\ Len(t) = 4 => t = <<t[1], t[2], t[3], t[4]>>
<1>1. Len(t) = 1 => t = <<t[1]>>
      OBVIOUS
<1>2. Len(t) = 2 => t = <<t[1], t[2]>>
      OBVIOUS
<1>3. Len(t) = 3 => t = <<t[1], t[2], t[3]>>
      OBVIOUS
<1>4. Len(t) = 4 => t = <<t[1], t[2], t[3], t[4]>>
      OBVIOUS
<1> QED BY <1>1, <1>2, <1>3, <1>4, Zenon

\* What is_valid_utf8() takes for a character of n bytes at i.
Character(s, i, n) ==
    \/ n = 1 /\ s[i] <= 127
    \/ n = 2 /\ Lead2(s[i]) /\ Sequence(s, i, 2)
    \/ n = 3 /\ Lead3(s[i]) /\ Sequence(s, i, 3)
    \/ n = 4 /\ Lead4(s[i]) /\ s[i] <= 244 /\ Sequence(s, i, 4)

\* It is what the reference takes for one.
LEMMA CharacterEncodes ==
    ASSUME NEW s \in Seq(Byte), NEW i \in 1..Len(s), NEW n \in 1..4, i + n <= Len(s) + 1
    PROVE  EncodesOne(SubSeq(s, i, i + n - 1), LastPoint) <=> Character(s, i, n)
<1>0. s[i] \in Byte /\ Len(s) \in Nat /\ \A k \in 1..3 : i + k <= Len(s) => s[i + k] \in Byte
      OBVIOUS
<1> DEFINE t == SubSeq(s, i, i + n - 1)
<1>5. t \in Seq(Byte) /\ Len(t) = n /\ \A j \in 1..n : t[j] = s[i + j - 1]
      OBVIOUS
<1>6. i + 1 - 1 = i /\ i + 2 - 1 = i + 1 /\ i + 3 - 1 = i + 2 /\ i + 4 - 1 = i + 3
      OBVIOUS
<1> SUFFICES EncodesOne(t, LastPoint) <=> Character(s, i, n)
    OBVIOUS
<1> HIDE DEF t
<1>1. CASE n = 1
  <2>1. t = <<s[i]>>
    <3>1. t[1] = s[i] /\ Len(t) = 1
          BY <1>1, <1>5, <1>6
    <3> QED BY <1>5, <3>1, ShortTuples, Zenon
  <2>2. Character(s, i, 1) <=> s[i] <= 127
        BY DEF Character
  <2> QED BY <1>0, <1>1, <2>1, <2>2, OneByte, Zenon
<1>2. CASE n = 2
  <2>1. t = <<s[i], s[i + 1]>> /\ s[i + 1] \in Byte
    <3>1. t[1] = s[i] /\ t[2] = s[i + 1] /\ Len(t) = 2 /\ s[i + 1] \in Byte
          BY <1>0, <1>2, <1>5, <1>6
    <3> QED BY <1>5, <3>1, ShortTuples, Zenon
  <2>2. Sequence(s, i, 2) <=> Continuation(s[i + 1]) /\ ~Overlong(s[i], s[i + 1]) /\ ~SurrogateHalf(s[i], s[i + 1])
    <3>1. i + 2 - 1 <= Len(s) /\ (i + 1)..(i + 2 - 1) = {i + 1}
          BY <1>2
    <3> QED BY <3>1, Zenon DEF Sequence
  <2>3. Character(s, i, 2) <=> Lead2(s[i]) /\ Sequence(s, i, 2)
        BY DEF Character
  <2>4. Character(s, i, 2) <=> Start2(s[i], s[i + 1])
        BY <2>2, <2>3, Zenon DEF Start2
  <2> QED BY <1>0, <1>2, <2>1, <2>4, TwoBytes, Zenon
<1>3. CASE n = 3
  <2>1. t = <<s[i], s[i + 1], s[i + 2]>> /\ s[i + 1] \in Byte /\ s[i + 2] \in Byte
    <3>1. t[1] = s[i] /\ t[2] = s[i + 1] /\ t[3] = s[i + 2] /\ Len(t) = 3 /\ s[i + 1] \in Byte /\ s[i + 2] \in Byte
          BY <1>0, <1>3, <1>5, <1>6
    <3> QED BY <1>5, <3>1, ShortTuples, Zenon
  <2>2. Sequence(s, i, 3) <=> /\ Continuation(s[i + 1]) /\ Continuation(s[i + 2])
                              /\ ~Overlong(s[i], s[i + 1]) /\ ~SurrogateHalf(s[i], s[i + 1])
    <3>1. i + 3 - 1 <= Len(s) /\ (i + 1)..(i + 3 - 1) = {i + 1, i + 2}
          BY <1>3
    <3> QED BY <3>1, Zenon DEF Sequence
  <2>3. Character(s, i, 3) <=> Lead3(s[i]) /\ Sequence(s, i, 3)
        BY DEF Character
  <2>4. Character(s, i, 3) <=> Start3(s[i], s[i + 1], s[i + 2])
        BY <2>2, <2>3, Zenon DEF Start3
  <2> QED BY <1>0, <1>3, <2>1, <2>4, ThreeBytes, Zenon
<1>4. CASE n = 4
  <2>1. t = <<s[i], s[i + 1], s[i + 2], s[i + 3]>> /\ s[i + 1] \in Byte /\ s[i + 2] \in Byte /\ s[i + 3] \in Byte
    <3>1. /\ t[1] = s[i] /\ t[2] = s[i + 1] /\ t[3] = s[i + 2] /\ t[4] = s[i + 3] /\ Len(t) = 4
          /\ s[i + 1] \in Byte /\ s[i + 2] \in Byte /\ s[i + 3] \in Byte
          BY <1>0, <1>4, <1>5, <1>6
    <3> QED BY <1>5, <3>1, ShortTuples, Zenon
  <2>2. Sequence(s, i, 4) <=> /\ Continuation(s[i + 1]) /\ Continuation(s[i + 2]) /\ Continuation(s[i + 3])
                              /\ ~Overlong(s[i], s[i + 1]) /\ ~SurrogateHalf(s[i], s[i + 1])
    <3>1. i + 4 - 1 <= Len(s) /\ (i + 1)..(i + 4 - 1) = {i + 1, i + 2, i + 3}
          BY <1>4
    <3> QED BY <3>1, Zenon DEF Sequence
  <2>3. Character(s, i, 4) <=> Lead4(s[i]) /\ s[i] <= 244 /\ Sequence(s, i, 4)
        BY DEF Character
  <2>4. Character(s, i, 4) <=> Start4(s[i], s[i + 1], s[i + 2], s[i + 3])
        BY <2>2, <2>3, Zenon DEF Start4
  <2> QED BY <1>0, <1>4, <2>1, <2>4, FourBytes, Zenon
<1> QED BY <1>0, <1>1, <1>2, <1>3, <1>4

\* One step of the reference, which takes the encoding of one code point.
EncodesAt(s, f, i) ==
    \/ i = Len(s) + 1
    \/ \E n \in 1..4 : i + n <= Len(s) + 1 /\ EncodesOne(SubSeq(s, i, i + n - 1), LastPoint) /\ f[i + n]

\* Both loops do the same at every position, whatever the rest of them does.
LEMMA SameStep ==
    ASSUME NEW s \in Seq(Byte), NEW i \in 1..(Len(s) + 1), NEW f
    PROVE  ValidAt(s, f, i) = EncodesAt(s, f, i)
<1>0. ValidAt(s, f, i) \in BOOLEAN /\ EncodesAt(s, f, i) \in BOOLEAN
      BY Zenon DEF ValidAt, EncodesAt
<1>1. CASE i = Len(s) + 1
      BY <1>0, <1>1, Zenon DEF ValidAt, EncodesAt
<1>2. CASE i \in 1..Len(s)
  <2>1. i # Len(s) + 1 /\ i <= Len(s) /\ i + 1 <= Len(s) + 1
        BY <1>2
  <2>2. /\ Sequence(s, i, 2) => i + 2 <= Len(s) + 1
        /\ Sequence(s, i, 3) => i + 3 <= Len(s) + 1
        /\ Sequence(s, i, 4) => i + 4 <= Len(s) + 1
    <3>1. \A k \in {2, 3, 4} : i + k - 1 <= Len(s) => i + k <= Len(s) + 1
          OBVIOUS
    <3>2. \A k \in {2, 3, 4} : Sequence(s, i, k) => i + k <= Len(s) + 1
          BY <3>1, Zenon DEF Sequence
    <3> QED BY <3>2
  <2>3. ValidAt(s, f, i) <=> \E n \in 1..4 : i + n <= Len(s) + 1 /\ Character(s, i, n) /\ f[i + n]
    <3>1. \A n : n \in 1..4 <=> n = 1 \/ n = 2 \/ n = 3 \/ n = 4
          OBVIOUS
    <3>2. /\ Character(s, i, 1) <=> s[i] <= 127
          /\ Character(s, i, 2) <=> Lead2(s[i]) /\ Sequence(s, i, 2)
          /\ Character(s, i, 3) <=> Lead3(s[i]) /\ Sequence(s, i, 3)
          /\ Character(s, i, 4) <=> Lead4(s[i]) /\ s[i] <= 244 /\ Sequence(s, i, 4)
          BY DEF Character
    <3>3. ValidAt(s, f, i) <=> \/ Character(s, i, 1) /\ f[i + 1]
                               \/ Character(s, i, 2) /\ f[i + 2]
                               \/ Character(s, i, 3) /\ f[i + 3]
                               \/ Character(s, i, 4) /\ f[i + 4]
      <4> DEFINE one == s[i] <= 127
                 two == Lead2(s[i]) /\ Sequence(s, i, 2)
                 three == Lead3(s[i]) /\ Sequence(s, i, 3)
                 four == Lead4(s[i]) /\ s[i] <= 244 /\ Sequence(s, i, 4)
      <4>1. ValidAt(s, f, i) <=> (one /\ f[i + 1]) \/ (two /\ f[i + 2]) \/ (three /\ f[i + 3]) \/ (four /\ f[i + 4])
            BY <2>1, Zenon DEF ValidAt
      <4>2. /\ Character(s, i, 1) <=> one
            /\ Character(s, i, 2) <=> two
            /\ Character(s, i, 3) <=> three
            /\ Character(s, i, 4) <=> four
            BY <3>2, Zenon
      <4> HIDE DEF one, two, three, four
      <4> QED BY <4>1, <4>2, Zenon
    <3>4. /\ Character(s, i, 2) => i + 2 <= Len(s) + 1
          /\ Character(s, i, 3) => i + 3 <= Len(s) + 1
          /\ Character(s, i, 4) => i + 4 <= Len(s) + 1
          BY <2>2, <3>2, Zenon
    <3> QED BY <2>1, <3>1, <3>3, <3>4, Zenon
  <2>4. \A n \in 1..4 : i + n <= Len(s) + 1 => (EncodesOne(SubSeq(s, i, i + n - 1), LastPoint) <=> Character(s, i, n))
        BY <1>2, CharacterEncodes, Zenon
  <2>5. ValidAt(s, f, i) <=> EncodesAt(s, f, i)
        BY <2>1, <2>3, <2>4, Zenon DEF EncodesAt
  <2> HIDE DEF ValidAt, EncodesAt
  <2> QED BY <1>0, <2>5
<1> QED BY <1>1, <1>2

\* is_valid_utf8() accepts exactly the concatenations of shortest encodings of
\* code points up to U+13FFFF, surrogates excepted, for strings of any length.
THEOREM Utf8Valid ==
    ASSUME NEW s \in Seq(Byte)
    PROVE  is_valid_utf8(s) <=> EncodesUpTo(s, LastPoint)
<1> DEFINE F[i \in 1..(Len(s) + 1)] ==
               \/ i = Len(s) + 1
               \/ /\ i <= Len(s)
                  /\ \/ s[i] <= 127 /\ F[i + 1]
                     \/ Lead2(s[i]) /\ Sequence(s, i, 2) /\ F[i + 2]
                     \/ Lead3(s[i]) /\ Sequence(s, i, 3) /\ F[i + 3]
                     \/ Lead4(s[i]) /\ s[i] <= 244 /\ Sequence(s, i, 4) /\ F[i + 4]
           G[i \in 1..(Len(s) + 1)] ==
               \/ i = Len(s) + 1
               \/ \E n \in 1..4 : i + n <= Len(s) + 1 /\ EncodesOne(SubSeq(s, i, i + n - 1), LastPoint) /\ G[i + n]
<1>1. F = CHOOSE h : h = [i \in 1..(Len(s) + 1) |-> ValidAt(s, h, i)]
      BY Zenon DEF ValidAt
<1>2. G = CHOOSE h : h = [i \in 1..(Len(s) + 1) |-> EncodesAt(s, h, i)]
      BY Zenon DEF EncodesAt
<1>3. is_valid_utf8(s) = F[1]
      BY Zenon DEF is_valid_utf8
<1>4. EncodesUpTo(s, LastPoint) = G[1]
      BY Zenon DEF EncodesUpTo
<1> HIDE DEF F, G
<1>5. \A h : [i \in 1..(Len(s) + 1) |-> ValidAt(s, h, i)] = [i \in 1..(Len(s) + 1) |-> EncodesAt(s, h, i)]
      BY SameStep, Zenon
<1>6. F = G
      BY <1>1, <1>2, <1>5, Zenon
<1> QED BY <1>3, <1>4, <1>6, Zenon

\* The reference that stops at U+10FFFF takes a string for one character if its
\* code point is not above.
LEMMA InRange ==
    ASSUME NEW t, Decode(t) \in Nat, Decode(t) <= LastCodePoint
    PROVE  EncodesOne(t, LastPoint) <=> EncodesOne(t, LastCodePoint)
<1> DEFINE p == Decode(t)
<1>1. p <= LastPoint
      BY SMT DEF LastPoint, LastCodePoint
<1> QED BY <1>1, Zenon DEF EncodesOne

\* The characters of fewer than four bytes are in range.
LEMMA ShortInRange ==
    ASSUME NEW c \in Byte, NEW d \in Byte, NEW e \in Byte
    PROVE  /\ Decode(<<c>>) \in Nat /\ Decode(<<c>>) <= LastCodePoint
           /\ Decode(<<c, d>>) \in Nat /\ Decode(<<c, d>>) <= LastCodePoint
           /\ Decode(<<c, d, e>>) \in Nat /\ Decode(<<c, d, e>>) <= LastCodePoint
<1>0. c \in Nat /\ c < 256 /\ d \in Nat /\ d < 256 /\ e \in Nat /\ e < 256
      BY SMT DEF Byte, Base
<1>1. Decode(<<c>>) = c
      BY SMT DEF Decode
<1>2. Decode(<<c, d>>) = (c % 32) * 64 + (d % 64)
      BY SMT DEF Decode
<1>3. Decode(<<c, d, e>>) = (c % 16) * 4096 + (d % 64) * 64 + (e % 64)
      BY SMT DEF Decode
<1>4. c <= LastCodePoint
      BY <1>0, SMT DEF LastCodePoint
<1>5. (c % 32) * 64 + (d % 64) \in Nat /\ (c % 32) * 64 + (d % 64) <= LastCodePoint
      BY <1>0, SMT DEF LastCodePoint
<1>6. /\ (c % 16) * 4096 + (d % 64) * 64 + (e % 64) \in Nat
      /\ (c % 16) * 4096 + (d % 64) * 64 + (e % 64) <= LastCodePoint
      BY <1>0, SMT DEF LastCodePoint
<1>7. Decode(<<c>>) \in Nat /\ Decode(<<c>>) <= LastCodePoint
      BY <1>0, <1>1, <1>4, SMT
<1>8. Decode(<<c, d>>) \in Nat /\ Decode(<<c, d>>) <= LastCodePoint
      BY <1>2, <1>5, SMT
<1>9. Decode(<<c, d, e>>) \in Nat /\ Decode(<<c, d, e>>) <= LastCodePoint
      BY <1>3, <1>6, SMT
<1> QED BY <1>7, <1>8, <1>9, SMT

\* Those of four bytes are, unless they begin with 244 and a byte from 144 on.
LEMMA FourInRange ==
    ASSUME NEW c \in Byte, NEW d \in Byte, NEW e \in Byte, NEW f \in Byte, ~(c = 244 /\ d >= 144)
    PROVE  EncodesOne(<<c, d, e, f>>, LastPoint) <=> EncodesOne(<<c, d, e, f>>, LastCodePoint)
<1> DEFINE t == <<c, d, e, f>>
           p == (c % 8) * 262144 + (d % 64) * 4096 + (e % 64) * 64 + (f % 64)
<1>0. c \in Nat /\ c < 256 /\ d \in Nat /\ d < 256 /\ e \in Nat /\ e < 256 /\ f \in Nat /\ f < 256
      BY SMT DEF Byte, Base
<1>1. Decode(t) = p
      BY SMT DEF Decode
<1>2. p \in Nat
      BY <1>0, SMT
<1>3. EncodesOne(t, LastPoint) <=> Start4(c, d, e, f)
      BY FourBytes, SMT
<1>4. Start4(c, d, e, f) => p <= LastCodePoint
  <2> SUFFICES ASSUME Start4(c, d, e, f) PROVE p <= LastCodePoint
      BY SMT
  <2>2. c >= 240 /\ c <= 244 /\ d >= 128 /\ d < 192 /\ e >= 128 /\ e < 192 /\ f >= 128 /\ f < 192
        BY <1>0, SMT DEF Start4, Lead4, Continuation
  <2>3. c % 8 = c - 240 /\ d % 64 = d - 128 /\ e % 64 = e - 128 /\ f % 64 = f - 128
        BY <1>0, <2>2, SMT
  <2>4. p = (c - 240) * 262144 + (d - 128) * 4096 + (e - 128) * 64 + (f - 128)
        BY <2>3, SMT
  <2> HIDE DEF p
  <2> QED BY <1>0, <2>2, <2>4, SMT DEF LastCodePoint
<1> HIDE DEF t, p
<1>5. EncodesOne(t, LastCodePoint) => p <= LastCodePoint
      BY <1>1, Zenon DEF EncodesOne
<1>6. p <= LastCodePoint => (EncodesOne(t, LastPoint) <=> EncodesOne(t, LastCodePoint))
      BY <1>1, <1>2, InRange, Zenon
<1>7. EncodesOne(t, LastPoint) <=> EncodesOne(t, LastCodePoint)
      BY <1>3, <1>4, <1>5, <1>6, Zenon
<1> QED BY <1>7, Zenon DEF t

\* One step of the reference that stops at U+10FFFF.
EncodesInRange(s, f, i) ==
    \/ i = Len(s) + 1
    \/ \E n \in 1..4 : i + n <= Len(s) + 1 /\ EncodesOne(SubSeq(s, i, i + n - 1), LastCodePoint) /\ f[i + n]

\* It is the same step, unless the string goes beyond.
LEMMA SameRange ==
    ASSUME NEW s \in Seq(Byte), ~Beyond(s), NEW i \in 1..(Len(s) + 1), NEW f
    PROVE  EncodesAt(s, f, i) = EncodesInRange(s, f, i)
<1>1. ASSUME NEW n \in 1..4, i + n <= Len(s) + 1
      PROVE  EncodesOne(SubSeq(s, i, i + n - 1), LastPoint) <=> EncodesOne(SubSeq(s, i, i + n - 1), LastCodePoint)
  <2> DEFINE t == SubSeq(s, i, i + n - 1)
  <2>1. t \in Seq(Byte) /\ Len(t) = n /\ \A j \in 1..n : t[j] = s[i + j - 1] /\ t[j] \in Byte
    <3>1. i \in Nat \ {0} /\ i + n - 1 \in Nat /\ i <= i + n - 1 /\ i + n - 1 <= Len(s) /\ i + n - 1 - i + 1 = n
          BY <1>1
    <3>2. t \in Seq(Byte) /\ Len(t) = n
          BY <3>1
    <3>3. \A j \in 1..n : t[j] = s[i + j - 1]
          BY <3>1
    <3> HIDE DEF t
    <3>4. \A j \in 1..n : t[j] \in Byte
          BY <3>2
    <3> QED BY <3>2, <3>3, <3>4, Zenon
  <2> HIDE DEF t
  <2>2. 1 \in 1..n /\ t[1] \in Byte /\ (n = 1 \/ n = 2 \/ n = 3 \/ n = 4)
        BY <2>1
  <2>3. CASE n = 1
    <3>1. t = <<t[1]>>
          BY <2>1, <2>3, ShortTuples, Zenon
    <3>2. Decode(<<t[1]>>) \in Nat /\ Decode(<<t[1]>>) <= LastCodePoint
          BY <2>2, ShortInRange, Zenon
    <3> QED BY <3>1, <3>2, InRange, Zenon DEF t
  <2>4. CASE n = 2
    <3>1. t[2] \in Byte /\ t = <<t[1], t[2]>>
      <4>1. 2 \in 1..n
            BY <2>4
      <4> QED BY <2>1, <2>4, <4>1, ShortTuples, Zenon
    <3>2. Decode(<<t[1], t[2]>>) \in Nat /\ Decode(<<t[1], t[2]>>) <= LastCodePoint
          BY <2>2, <3>1, ShortInRange, Zenon
    <3> QED BY <3>1, <3>2, InRange, Zenon DEF t
  <2>5. CASE n = 3
    <3>1. t[2] \in Byte /\ t[3] \in Byte /\ t = <<t[1], t[2], t[3]>>
      <4>1. 2 \in 1..n /\ 3 \in 1..n
            BY <2>5
      <4> QED BY <2>1, <2>5, <4>1, ShortTuples, Zenon
    <3>2. Decode(<<t[1], t[2], t[3]>>) \in Nat /\ Decode(<<t[1], t[2], t[3]>>) <= LastCodePoint
          BY <2>2, <3>1, ShortInRange, Zenon
    <3> QED BY <3>1, <3>2, InRange, Zenon DEF t
  <2>6. CASE n = 4
    <3>1. t[2] \in Byte /\ t[3] \in Byte /\ t[4] \in Byte /\ t = <<t[1], t[2], t[3], t[4]>>
      <4>1. 2 \in 1..n /\ 3 \in 1..n /\ 4 \in 1..n
            BY <2>6
      <4> QED BY <2>1, <2>6, <4>1, ShortTuples, Zenon
    <3>2. ~(t[1] = 244 /\ t[2] >= 144)
      <4>1. i \in 1..(Len(s) - 1) /\ i + 1 - 1 = i /\ i + 2 - 1 = i + 1 /\ 2 \in 1..n
            BY <1>1, <2>6
      <4>2. t[1] = s[i] /\ t[2] = s[i + 1]
            BY <2>1, <2>2, <4>1
      <4> QED BY <4>1, <4>2, SMT DEF Beyond
    <3>3. EncodesOne(<<t[1], t[2], t[3], t[4]>>, LastPoint) <=> EncodesOne(<<t[1], t[2], t[3], t[4]>>, LastCodePoint)
          BY <2>2, <3>1, <3>2, FourInRange, Zenon
    <3> QED BY <3>1, <3>3, Zenon DEF t
  <2> QED BY <2>2, <2>3, <2>4, <2>5, <2>6, Zenon
<1>2. EncodesAt(s, f, i) <=> EncodesInRange(s, f, i)
      BY <1>1, Zenon DEF EncodesAt, EncodesInRange
<1>3. EncodesAt(s, f, i) \in BOOLEAN /\ EncodesInRange(s, f, i) \in BOOLEAN
      BY Zenon DEF EncodesAt, EncodesInRange
<1> HIDE DEF EncodesAt, EncodesInRange
<1> QED BY <1>2, <1>3

\* is_valid_utf8() accepts exactly the well-formed strings of those that do not
\* go beyond U+10FFFF, whatever their length.
THEOREM Utf8InRange ==
    ASSUME NEW s \in Seq(Byte), ~Beyond(s)
    PROVE  is_valid_utf8(s) <=> EncodesUpTo(s, LastCodePoint)
<1> DEFINE F[i \in 1..(Len(s) + 1)] ==
               \/ i = Len(s) + 1
               \/ \E n \in 1..4 : i + n <= Len(s) + 1 /\ EncodesOne(SubSeq(s, i, i + n - 1), LastPoint) /\ F[i + n]
           G[i \in 1..(Len(s) + 1)] ==
               \/ i = Len(s) + 1
               \/ \E n \in 1..4 : i + n <= Len(s) + 1 /\ EncodesOne(SubSeq(s, i, i + n - 1), LastCodePoint) /\ G[i + n]
<1>1. F = CHOOSE h : h = [i \in 1..(Len(s) + 1) |-> EncodesAt(s, h, i)]
      BY Zenon DEF EncodesAt
<1>2. G = CHOOSE h : h = [i \in 1..(Len(s) + 1) |-> EncodesInRange(s, h, i)]
      BY Zenon DEF EncodesInRange
<1>3. EncodesUpTo(s, LastPoint) = F[1]
      BY Zenon DEF EncodesUpTo
<1>4. EncodesUpTo(s, LastCodePoint) = G[1]
      BY Zenon DEF EncodesUpTo
<1> HIDE DEF F, G
<1>5. \A h : [i \in 1..(Len(s) + 1) |-> EncodesAt(s, h, i)] = [i \in 1..(Len(s) + 1) |-> EncodesInRange(s, h, i)]
      BY SameRange, Zenon
<1>6. F = G
      BY <1>1, <1>2, <1>5, Zenon
<1> QED BY <1>3, <1>4, <1>6, Utf8Valid, Zenon

----------------------------------------------------------------------------
(* The states of Packet.                                                    *)

\* Nothing but a sample is ever encoded.
PacketInv == bytes \in Samples \cup {NoSample}

\* It has no steps.
LEMMA PacketInvariance == PacketSpec => []PacketInv
<1>1. PacketInv /\ [UNCHANGED bytes]_bytes => PacketInv'
      BY DEF PacketInv
<1>2. PacketSpec => PacketInv /\ [][UNCHANGED bytes]_bytes
      BY DEF PacketSpec, PacketInv
<1> QED BY <1>1, <1>2, PTL

\* A sample is a string of bytes.
LEMMA SampleBytes == PacketInv /\ bytes # NoSample => bytes \in Seq(Byte)
BY PacketAssumption, Zenon DEF PacketInv

\* A string of any length up to MaxField and any number that its type holds,
\* written into a packet of either format in either order, are read back.
THEOREM FieldsAlwaysSurvive == PacketSpec => []FieldsSurvive
<1>1. PacketInv => FieldsSurvive
  <2>1. ~Short => FieldsSurvive
        BY Zenon DEF FieldsSurvive
  <2>2. PacketInv /\ Short => bytes \in Seq(Byte) /\ Len(bytes) <= MaxField
        BY SampleBytes, Zenon DEF Short
  <2> QED BY <2>1, <2>2, FieldPairs, Zenon
<1> QED BY <1>1, PacketInvariance, PTL

\* Two reads of any kinds and widths from any bytes stay inside the buffer.
THEOREM ReadsAlwaysStayInside == PacketSpec => []ReadsStayInside
<1>1. PacketInv => ReadsStayInside
  <2>1. ~Short => ReadsStayInside
        BY Zenon DEF ReadsStayInside
  <2>2. PacketInv /\ Short => bytes \in Seq(Byte)
        BY SampleBytes, Zenon DEF Short
  <2> QED BY <2>1, <2>2, TwoReads, Zenon
<1> QED BY <1>1, PacketInvariance, PTL

\* Whatever follows it in the stream, a payload that a header can describe
\* arrives whole at either end, or is refused because it is above the limit.
THEOREM PacketsAlwaysWhole == PacketSpec => []PacketsWhole
<1>1. PacketInv => PacketsWhole
  <2>1. bytes = NoSample => PacketsWhole
        BY Zenon DEF PacketsWhole
  <2> QED BY <2>1, SampleBytes, WholePackets, Zenon
<1> QED BY <1>1, PacketInvariance, PTL

\* Of every string that does not go beyond U+10FFFF is_valid_utf8() tells whether
\* it is a concatenation of shortest encodings of code points, no surrogates.
THEOREM Utf8AlwaysExact == PacketSpec => []Utf8ExactInRange
<1>1. PacketInv => Utf8ExactInRange
  <2>1. PacketInv /\ Short => bytes \in Seq(Byte)
        BY SampleBytes, Zenon DEF Short
  <2> QED BY <2>1, Utf8InRange, Zenon DEF Utf8ExactInRange
<1> QED BY <1>1, PacketInvariance, PTL

----------------------------------------------------------------------------
(* The buffer of FrameReader.                                               *)

\* The inductive invariant.  The bound on the storage needs that the unread bytes never
\* exceed the recorded peak, and the bytes moved by normalize() that positions are in order.
BufferInv ==
    /\ TypeOK
    /\ BufferIsStream
    /\ active <= peak
    /\ StorageBounded

\* A reader never finds a length that is no payload size.
LEMMA AnnouncedType ==
    ASSUME frames \in Seq(Payloads)
    PROVE  \A b : Announced(b) \subseteq Payloads
BY DEF Announced

\* Appending an element to a sequence of such elements.
LEMMA AppendType ==
    ASSUME NEW S, NEW s \in Seq(S), NEW e \in S
    PROVE  Append(s, e) \in Seq(S)
OBVIOUS

\* A new session's buffer satisfies the invariant.
LEMMA InitInv == ReaderInit => BufferInv
BY SizesAssumption DEF ReaderInit, BufferInv, TypeOK, BufferIsStream, StorageBounded, active, remaining

\* do_read(): normalize() and resize() keep the unread bytes.
LEMMA DoReadInv == BufferInv /\ do_read => BufferInv'
<1> SUFFICES ASSUME BufferInv, do_read PROVE BufferInv'
    OBVIOUS
<1> USE SizesAssumption DEF BufferInv, do_read, stream, buffer, active, remaining
<1>1. CASE remaining >= MinFree /\ UNCHANGED buffer
  BY <1>1 DEF TypeOK, BufferIsStream, StorageBounded
<1>2. CASE /\ remaining < MinFree
           /\ size' = IF size - active < MinFree THEN size + MinFree ELSE size
           /\ normalize
  <2>1. size' \in Nat /\ size' >= size /\ size' - active >= MinFree
    BY <1>2 DEF TypeOK
  <2>2. rpos' = 0 /\ wpos' = active /\ wpos' \in 0..size'
    BY <1>2, <2>1 DEF normalize, TypeOK
  <2>3. store' \in [1..size' -> Nat]
    BY <1>2, <2>1 DEF normalize, TypeOK
  <2>4. TypeOK'
    BY <2>1, <2>2, <2>3 DEF TypeOK
  <2>5. \A i \in 1..wpos' : store'[i] = store[rpos + i]
    BY <1>2, <2>1, <2>2 DEF normalize, TypeOK
  <2>6. BufferIsStream'
    BY <2>2, <2>5 DEF BufferIsStream, TypeOK
  <2>7. active' <= peak'
    BY <2>2 DEF TypeOK
  <2>8. StorageBounded'
    BY <1>2, <2>1, <2>2 DEF StorageBounded, TypeOK
  <2> QED
    BY <2>4, <2>6, <2>7, <2>8
<1> QED
  BY <1>1, <1>2 DEF ensure_free_space

\* write_completed(): the received bytes continue the stream.
LEMMA ReadCompletesInv == BufferInv /\ ReadCompletes => BufferInv'
<1> SUFFICES ASSUME BufferInv, ReadCompletes PROVE BufferInv'
    OBVIOUS
<1> USE SizesAssumption DEF BufferInv, stream, active, remaining
<1>1. PICK n \in 1..remaining :
          /\ store' = [i \in 1..size |-> IF i > wpos /\ i <= wpos + n THEN received + i - wpos ELSE store[i]]
          /\ wpos' = wpos + n
          /\ received' = received + n
          /\ peak' = Larger(peak, active + n)
  BY DEF ReadCompletes
<1>2. UNCHANGED <<frames, authFrames, consumed, size, rpos, mode, packets>> /\ pc' = "process"
  BY DEF ReadCompletes
<1>3. n \in Nat /\ n >= 1 /\ wpos + n <= size
  BY DEF TypeOK
<1>4. store' \in [1..size -> Nat]
  BY <1>1, <1>3 DEF TypeOK
<1>5. peak' \in Nat /\ peak' >= peak /\ active' <= peak'
  BY <1>1, <1>2, <1>3 DEF Larger, TypeOK
<1>6. TypeOK'
  BY <1>1, <1>2, <1>3, <1>4, <1>5 DEF TypeOK
<1>7. BufferIsStream'
  <2>1. received' = consumed' + active'
    BY <1>1, <1>2, <1>3 DEF BufferIsStream, TypeOK
  <2>2. ASSUME NEW i \in rpos' + 1..wpos' PROVE store'[i] = consumed' + i - rpos'
    <3>1. i \in 1..size /\ i > rpos /\ i <= wpos + n
      BY <1>1, <1>2, <1>3, <2>2 DEF TypeOK
    <3>2. CASE i <= wpos
      BY <1>1, <1>2, <3>1, <3>2 DEF BufferIsStream, TypeOK
    <3>3. CASE i > wpos
      BY <1>1, <1>2, <1>3, <3>1, <3>3 DEF BufferIsStream, TypeOK
    <3> QED
      BY <3>1, <3>2, <3>3 DEF TypeOK
  <2> QED
    BY <2>1, <2>2 DEF BufferIsStream
<1>8. StorageBounded'
  BY <1>1, <1>2, <1>3, <1>5 DEF StorageBounded, TypeOK
<1> QED
  BY <1>5, <1>6, <1>7, <1>8

\* read_completed(): the packet taken is the front of the unread bytes.
LEMMA DispatchInv == BufferInv /\ Dispatch => BufferInv'
<1> SUFFICES ASSUME BufferInv, Dispatch PROVE BufferInv'
    OBVIOUS
<1> USE SizesAssumption DEF BufferInv, stream, active, remaining
<1>1. PICK n \in Length :
          /\ active >= HeaderSize + n /\ n <= MaxPayload
          /\ packets' = Append(packets, [i \in 1..HeaderSize + n |-> store[rpos + i]])
          /\ rpos' = rpos + HeaderSize + n /\ consumed' = consumed + HeaderSize + n
  BY Zenon DEF Dispatch
<1>2. UNCHANGED <<frames, authFrames, received, size, store, wpos, peak>>
  BY DEF Dispatch
<1>3. mode' \in {"AUTH", "WORK"} /\ pc' \in {"arm", "closed"}
  BY DEF Dispatch, TypeOK
<1>4. n \in Nat /\ HeaderSize \in Nat
  BY AnnouncedType, Zenon DEF Length, HeaderSize, TypeOK
<1> DEFINE packet == [i \in 1..HeaderSize + n |-> store[rpos + i]]
<1>5. packet \in Seq(Nat)
  <2>1. \A i \in 1..HeaderSize + n : store[rpos + i] \in Nat
    BY <1>1, <1>4 DEF TypeOK
  <2> QED
    BY <1>4, <2>1
<1>6. packets' \in Seq(Seq(Nat))
  <2>1. packets \in Seq(Seq(Nat)) /\ packets' = Append(packets, packet)
    BY <1>1 DEF TypeOK
  <2> HIDE DEF packet
  <2> QED
    BY <1>5, <2>1, AppendType
<1>7. rpos' \in 0..wpos' /\ consumed' \in Nat
  BY <1>1, <1>2, <1>4 DEF TypeOK
<1>8. TypeOK'
  BY <1>2, <1>3, <1>6, <1>7 DEF TypeOK
<1>9. BufferIsStream'
  BY <1>1, <1>2, <1>4 DEF BufferIsStream, TypeOK
<1>10. active' <= peak' /\ StorageBounded'
  BY <1>1, <1>2, <1>3, <1>4 DEF StorageBounded, TypeOK
<1> QED
  BY <1>8, <1>9, <1>10

\* Every step keeps the invariant; the remaining ones leave the buffer alone.
LEMMA NextInv == BufferInv /\ [ReaderNext]_readerVars => BufferInv'
<1> SUFFICES ASSUME BufferInv, [ReaderNext]_readerVars PROVE BufferInv'
    OBVIOUS
<1> USE DEF BufferInv, stream, buffer, active, remaining
<1>1. CASE do_read
  BY <1>1, DoReadInv
<1>2. CASE ReadCompletes
  BY <1>2, ReadCompletesInv
<1>3. CASE Dispatch
  BY <1>3, DispatchInv
<1>4. CASE Incomplete \/ Oversized \/ ReadFails
  <2>1. UNCHANGED <<stream, received, consumed, buffer, peak, mode, packets>> /\ pc' \in {"arm", "closed"}
    BY <1>4 DEF Incomplete, Oversized, ReadFails
  <2> QED
    BY <2>1 DEF TypeOK, BufferIsStream, StorageBounded
<1>5. CASE UNCHANGED readerVars
  BY <1>5 DEF readerVars, TypeOK, BufferIsStream, StorageBounded
<1> QED
  BY <1>1, <1>2, <1>3, <1>4, <1>5 DEF ReaderNext, Handler

\* The invariant holds throughout.
LEMMA Invariance == ReaderSpec => []BufferInv
<1> QED
  BY InitInv, NextInv, PTL DEF ReaderSpec

\* The positions of MessageBuffer never leave its storage.
THEOREM BufferTyped == ReaderSpec => []TypeOK
<1>1. BufferInv => TypeOK
  BY DEF BufferInv
<1> QED
  BY <1>1, Invariance, PTL

\* Whatever is read in whatever pieces, the unread bytes are the stream's next ones.
THEOREM BufferFaithful == ReaderSpec => []BufferIsStream
<1>1. BufferInv => BufferIsStream
  BY DEF BufferInv
<1> QED
  BY <1>1, Invariance, PTL

\* do_read() always has MinFree bytes to offer, and the storage follows the backlog.
THEOREM BufferGrowth == ReaderSpec => []StorageBounded
<1>1. BufferInv => StorageBounded
  BY DEF BufferInv
<1> QED
  BY <1>1, Invariance, PTL

----------------------------------------------------------------------------
(* Induction, by way of the least number for which a statement fails.       *)

\* A set with 1, and with the successor of each of its numbers up to n.
LEMMA UpTo ==
    ASSUME NEW n \in Nat, NEW S, 1 \in S, \A k \in 1..n : k \in S => k + 1 \in S
    PROVE  \A k \in 1..n + 1 : k \in S
<1> SUFFICES ASSUME (1..n + 1) \ S # {} PROVE FALSE
    OBVIOUS
<1>1. PICK x \in (1..n + 1) \ S : \A y \in (1..n + 1) \ S : x <= y
  <2>1. (1..n + 1) \ S \subseteq Nat
    OBVIOUS
  <2> QED
    BY <2>1, LeastNumber, Zenon
<1>2. x # 1 /\ x - 1 \in 1..n /\ (x - 1) + 1 = x
  BY <1>1
<1>3. x - 1 \in S
  BY <1>1, <1>2
<1> QED
  BY <1>1, <1>2, <1>3

----------------------------------------------------------------------------
(* Where the packets of the stream begin.                                   *)

Places == 1..Len(frames) + 1

\* What the recursive definition of First asks of a function up to place m.
Lays(g, m) ==
    \A k \in 1..m : g[k] = IF k = 1 THEN 1 ELSE g[k - 1] + Header(k - 1) + frames[k - 1]

\* Headers and payloads have sizes.
LEMMA Sizes ==
    ASSUME frames \in Seq(Payloads), authFrames \in Nat
    PROVE  /\ Len(frames) \in Nat /\ DOMAIN frames = 1..Len(frames)
           /\ \A k \in 1..Len(frames) : Header(k) \in Nat \ {0} /\ frames[k] \in Nat
<1>1. Len(frames) \in Nat /\ DOMAIN frames = 1..Len(frames) /\ \A k \in 1..Len(frames) : frames[k] \in Payloads
  OBVIOUS
<1>2. \A k \in 1..Len(frames) : Header(k) \in Nat \ {0}
  BY SizesAssumption DEF Header
<1> QED
  BY <1>1, <1>2, SizesAssumption, Zenon

\* There is such a function.
LEMMA LayoutExists ==
    ASSUME frames \in Seq(Payloads), authFrames \in Nat
    PROVE  \E g \in [Places -> Nat] : Lays(g, Len(frames) + 1)
<1> DEFINE n == Len(frames)
           S == {m \in Places : \E g \in [1..m -> Nat] : Lays(g, m)}
<1>1. n \in Nat /\ \A k \in 1..n : Header(k) \in Nat \ {0} /\ frames[k] \in Nat
  BY Sizes, Zenon
<1>2. 1 \in S
  <2>1. [k \in 1..1 |-> 1] \in [1..1 -> Nat] /\ Lays([k \in 1..1 |-> 1], 1)
    BY DEF Lays
  <2>2. 1 \in Places
    BY <1>1 DEF Places
  <2> QED
    BY <2>1, <2>2, Zenon
<1>3. ASSUME NEW m \in 1..n, m \in S PROVE m + 1 \in S
  <2>1. PICK g \in [1..m -> Nat] : Lays(g, m)
    BY <1>3, Zenon
  <2> DEFINE h == [k \in 1..m + 1 |-> IF k <= m THEN g[k] ELSE g[m] + Header(m) + frames[m]]
  <2>2. h \in [1..m + 1 -> Nat]
    BY <1>1
  <2>3. ASSUME NEW k \in 1..m + 1 PROVE h[k] = IF k = 1 THEN 1 ELSE h[k - 1] + Header(k - 1) + frames[k - 1]
    <3>1. CASE k <= m
      BY <1>1, <2>1, <3>1 DEF Lays
    <3>2. CASE k = m + 1
      BY <1>1, <2>1, <3>2
    <3> QED
      BY <3>1, <3>2
  <2>4. m + 1 \in Places
    BY <1>1 DEF Places
  <2> QED
    BY <2>2, <2>3, <2>4, Zenon DEF Lays
<1>4. n + 1 \in S
  <2> HIDE DEF S
  <2>1. \A k \in 1..n + 1 : k \in S
    BY <1>1, <1>2, <1>3, UpTo, Zenon
  <2>2. n + 1 \in 1..n + 1
    BY <1>1
  <2> QED
    BY <2>1, <2>2, Zenon
<1> QED
  BY <1>4, Zenon DEF Places

\* First is one: the first packet begins at byte 1, each other where the one before it
\* ends.
LEMMA FirstLays ==
    ASSUME frames \in Seq(Payloads), authFrames \in Nat
    PROVE  Lays(First, Len(frames) + 1)
<1> DEFINE F[k \in 1..Len(frames) + 1] == IF k = 1 THEN 1 ELSE F[k - 1] + Header(k - 1) + frames[k - 1]
<1>1. F = CHOOSE g : g = [k \in 1..Len(frames) + 1 |-> IF k = 1 THEN 1 ELSE g[k - 1] + Header(k - 1) + frames[k - 1]]
  BY Zenon
<1>2. First = F
  BY Zenon DEF First
<1> HIDE DEF F
<1>3. PICK g \in [Places -> Nat] : Lays(g, Len(frames) + 1)
  BY LayoutExists, Zenon
<1>4. g = [k \in 1..Len(frames) + 1 |-> IF k = 1 THEN 1 ELSE g[k - 1] + Header(k - 1) + frames[k - 1]]
  BY <1>3 DEF Lays, Places
<1>5. F = [k \in 1..Len(frames) + 1 |-> IF k = 1 THEN 1 ELSE F[k - 1] + Header(k - 1) + frames[k - 1]]
  BY <1>1, <1>4, Zenon
<1>6. ASSUME NEW k \in 1..Len(frames) + 1 PROVE F[k] = IF k = 1 THEN 1 ELSE F[k - 1] + Header(k - 1) + frames[k - 1]
  BY <1>5, Zenon
<1> QED
  BY <1>2, <1>6, Zenon DEF Lays

\* The packets follow one another.
LEMMA FirstSteps ==
    ASSUME frames \in Seq(Payloads), authFrames \in Nat
    PROVE  /\ First[1] = 1 /\ \A k \in Places : First[k] \in Nat
           /\ \A k \in 1..Len(frames) : First[k + 1] = First[k] + Header(k) + frames[k]
<1>1. Len(frames) \in Nat /\ \A k \in 1..Len(frames) : Header(k) \in Nat \ {0} /\ frames[k] \in Nat
  BY Sizes, Zenon
<1>2. First[1] = 1
  BY <1>1, FirstLays DEF Lays
<1>3. ASSUME NEW k \in 1..Len(frames) PROVE First[k + 1] = First[k] + Header(k) + frames[k]
  BY <1>1, FirstLays DEF Lays
<1> DEFINE S == {k \in Places : First[k] \in Nat}
<1>4. 1 \in S
  BY <1>1, <1>2 DEF Places
<1>5. ASSUME NEW k \in 1..Len(frames), k \in S PROVE k + 1 \in S
  <2>1. k + 1 \in Places
    BY <1>1 DEF Places
  <2>2. First[k] \in Nat /\ Header(k) \in Nat /\ frames[k] \in Nat
    BY <1>1, <1>5
  <2>3. First[k] + Header(k) + frames[k] \in Nat
    BY <2>2
  <2> QED
    BY <1>3, <2>1, <2>3, Zenon
<1>6. \A k \in 1..Len(frames) + 1 : k \in S
  <2> HIDE DEF S
  <2> QED
    BY <1>1, <1>4, <1>5, UpTo, Zenon
<1> QED
  BY <1>2, <1>3, <1>6, Zenon DEF Places

\* No two packets begin at the same byte: no header is empty.
LEMMA FirstIncreases ==
    ASSUME frames \in Seq(Payloads), authFrames \in Nat
    PROVE  \A k \in Places : \A j \in 1..k - 1 : First[j] < First[k]
<1>1. Len(frames) \in Nat /\ \A k \in 1..Len(frames) : Header(k) \in Nat \ {0} /\ frames[k] \in Nat
  BY Sizes, Zenon
<1>2. /\ \A k \in Places : First[k] \in Nat
      /\ \A k \in 1..Len(frames) : First[k + 1] = First[k] + Header(k) + frames[k]
  BY FirstSteps, Zenon
<1> DEFINE S == {k \in Places : \A j \in 1..k - 1 : First[j] < First[k]}
<1>3. 1 \in S
  BY <1>1 DEF Places
<1>4. ASSUME NEW k \in 1..Len(frames), k \in S PROVE k + 1 \in S
  <2>1. k \in Places /\ k + 1 \in Places
    BY <1>1 DEF Places
  <2>2. First[k] < First[k + 1] /\ First[k] \in Nat /\ First[k + 1] \in Nat
    <3>1. First[k] \in Nat /\ First[k + 1] \in Nat /\ Header(k) \in Nat \ {0} /\ frames[k] \in Nat
      BY <1>1, <1>2, <2>1, Zenon
    <3>2. First[k + 1] = First[k] + Header(k) + frames[k]
      BY <1>2, Zenon
    <3> QED
      BY <3>1, <3>2
  <2>3. ASSUME NEW j \in 1..(k + 1) - 1 PROVE First[j] < First[k + 1]
    <3>1. j = k \/ j \in 1..k - 1
      OBVIOUS
    <3>2. j \in Places
      BY <1>1 DEF Places
    <3> QED
      BY <1>2, <1>4, <2>2, <3>1, <3>2
  <2> QED
    BY <2>1, <2>3
<1>5. \A k \in 1..Len(frames) + 1 : k \in S
  <2> HIDE DEF S
  <2> QED
    BY <1>1, <1>3, <1>4, UpTo, Zenon
<1> QED
  BY <1>5, Zenon DEF Places

----------------------------------------------------------------------------
(* The packets.  The reader stands at the first byte of the next packet, in *)
(* the mode of that packet, until the session closes.                       *)

CutInv ==
    /\ authFrames \in 1..Len(frames)
    /\ PacketsIntact
    /\ received < First[Len(frames) + 1]
    /\ consumed + 1 = First[Len(packets) + 1]
    /\ pc # "closed" => mode = IF Len(packets) < authFrames THEN "AUTH" ELSE "WORK"

\* The stream does not change, nor where its packets begin.
LEMMA StreamStays ==
    ASSUME UNCHANGED stream
    PROVE  First' = First /\ \A k : Header(k)' = Header(k)
<1>1. frames' = frames /\ authFrames' = authFrames
  BY DEF stream
<1>2. \A k : Header(k)' = Header(k)
  BY <1>1 DEF Header
<1>3. First' = First
  BY <1>1, Zenon DEF First, Header
<1> QED
  BY <1>2, <1>3, Zenon

\* Before the first packet.
LEMMA InitPackets == ReaderInit => CutInv
<1> SUFFICES ASSUME ReaderInit PROVE CutInv
    OBVIOUS
<1>1. frames \in Seq(Payloads) /\ authFrames \in Nat /\ authFrames \in 1..Len(frames) /\ Len(frames) \in Nat
  <2>1. PICK n \in 1..MaxFrames : frames \in [1..n -> Payloads] /\ authFrames \in 1..n
    BY Zenon DEF ReaderInit
  <2>2. n \in Nat /\ frames \in Seq(Payloads) /\ Len(frames) = n
    BY <2>1, SizesAssumption
  <2> QED
    BY <2>1, <2>2
<1>2. received = 0 /\ consumed = 0 /\ packets = <<>> /\ mode = "AUTH"
  BY DEF ReaderInit
<1>3. First[1] = 1 /\ Len(frames) + 1 \in Places /\ 1 \in 1..(Len(frames) + 1) - 1
  BY <1>1, FirstSteps DEF Places
<1>4. received < First[Len(frames) + 1]
  <2>1. First[1] < First[Len(frames) + 1]
    BY <1>1, <1>3, FirstIncreases, Zenon
  <2>2. First[Len(frames) + 1] \in Nat
    BY <1>1, <1>3, FirstSteps, Zenon
  <2> QED
    BY <1>2, <1>3, <2>1, <2>2
<1>5. Len(packets) = 0 /\ DOMAIN packets = {} /\ Len(packets) + 1 = 1
  BY <1>2
<1>6. consumed + 1 = First[Len(packets) + 1]
  BY <1>2, <1>3, <1>5
<1>7. mode = IF Len(packets) < authFrames THEN "AUTH" ELSE "WORK"
  BY <1>1, <1>2, <1>5
<1>8. PacketsIntact
  BY <1>1, <1>5 DEF PacketsIntact
<1> QED
  BY <1>1, <1>4, <1>6, <1>7, <1>8 DEF CutInv

\* What the reader finds when it has a header: the packet after those already taken.
LEMMA NextPacket ==
    ASSUME BufferInv, CutInv, pc = "process", active >= HeaderSize, NEW k, k = Len(packets) + 1
    PROVE  /\ k \in 1..Len(frames) /\ HeaderSize = Header(k) /\ Length = {frames[k]}
           /\ First[k] = consumed + 1
<1>1. frames \in Seq(Payloads) /\ authFrames \in Nat /\ Len(frames) \in Nat /\ DOMAIN frames = 1..Len(frames)
  BY DEF BufferInv, TypeOK
<1>2. packets \in Seq(Seq(Nat)) /\ Len(packets) \in Nat /\ Len(packets) <= Len(frames)
  BY DEF BufferInv, TypeOK, CutInv, PacketsIntact
<1>3. k \in Places /\ Len(frames) + 1 \in Places /\ k \in Nat /\ First[k] = consumed + 1
  BY <1>1, <1>2 DEF Places, CutInv
<1>4. HeaderSize \in Nat \ {0} /\ active \in Nat /\ active >= 1
  BY SizesAssumption DEF HeaderSize, BufferInv, TypeOK, active
<1>5. First[k] < First[Len(frames) + 1]
  <2>1. First[k] \in Nat /\ First[Len(frames) + 1] \in Nat
    BY <1>1, <1>3, FirstSteps, Zenon
  <2>2. received = consumed + active /\ received < First[Len(frames) + 1] /\ consumed \in Nat
    BY DEF BufferInv, BufferIsStream, CutInv, TypeOK
  <2> QED
    BY <1>3, <1>4, <2>1, <2>2
<1>6. k \in 1..Len(frames)
  <2>1. First[k] \in Nat /\ k # Len(frames) + 1
    BY <1>1, <1>3, <1>5, FirstSteps
  <2> QED
    BY <1>1, <1>3, <2>1 DEF Places
<1>7. HeaderSize = Header(k)
  BY <1>1, <1>2 DEF CutInv, HeaderSize, Header
<1>8. store[rpos + 1] = First[k]
  <2>1. rpos + 1 \in rpos + 1..wpos /\ consumed + (rpos + 1) - rpos = consumed + 1
    BY <1>4 DEF BufferInv, TypeOK, active
  <2> QED
    BY <1>3, <2>1 DEF BufferInv, BufferIsStream
<1>9. ASSUME NEW j \in DOMAIN frames, First[j] = First[k] PROVE j = k
  <2>1. j \in Places /\ j \in Nat
    BY <1>1 DEF Places
  <2>2. First[j] \in Nat /\ First[k] \in Nat
    BY <1>1, <1>3, <2>1, FirstSteps, Zenon
  <2>3. \A a, b \in Places : a \in 1..b - 1 => First[a] < First[b]
    BY <1>1, FirstIncreases, Zenon
  <2>4. ~(j \in 1..k - 1) /\ ~(k \in 1..j - 1)
    BY <1>3, <1>9, <2>1, <2>2, <2>3
  <2> QED
    BY <1>1, <1>6, <2>4
<1>10. Length = {frames[k]}
  <2> DEFINE K == {j \in DOMAIN frames : First[j] = First[k] /\ Header(j) = HeaderSize}
  <2>1. K = {k}
    BY <1>1, <1>6, <1>7, <1>9
  <2>2. Length = IF K = {} THEN Payloads ELSE {frames[j] : j \in K}
    BY <1>8, Zenon DEF Length, Announced
  <2> HIDE DEF K
  <2> QED
    BY <2>1, <2>2
<1> QED
  BY <1>3, <1>6, <1>7, <1>10, Zenon

\* That packet is taken as it is.
LEMMA DispatchPackets == BufferInv /\ CutInv /\ Dispatch => CutInv'
<1> SUFFICES ASSUME BufferInv, CutInv, Dispatch PROVE CutInv'
    OBVIOUS
<1> DEFINE k == Len(packets) + 1
<1>1. pc = "process" /\ active >= HeaderSize /\ UNCHANGED <<frames, authFrames, received>>
  BY DEF Dispatch, stream
<1>2. /\ k \in 1..Len(frames) /\ HeaderSize = Header(k) /\ Length = {frames[k]}
      /\ First[k] = consumed + 1
  BY <1>1, NextPacket, Zenon
<1>3. /\ active >= Header(k) + frames[k] /\ frames[k] <= MaxPayload
      /\ packets' = Append(packets, [i \in 1..Header(k) + frames[k] |-> store[rpos + i]])
      /\ consumed' = consumed + Header(k) + frames[k]
  BY <1>2, Zenon DEF Dispatch
<1>4. \/ mode' = (IF Len(packets') = authFrames THEN "WORK" ELSE mode) /\ pc' = "arm"
      \/ mode' = mode /\ pc' = "closed"
  BY Zenon DEF Dispatch
<1>5. frames \in Seq(Payloads) /\ authFrames \in Nat /\ packets \in Seq(Seq(Nat)) /\ Len(frames) \in Nat /\ Len(packets) \in Nat
  BY DEF BufferInv, TypeOK
<1>6. Header(k) \in Nat \ {0} /\ frames[k] \in Nat
  BY <1>2, <1>5, Sizes, Zenon
<1>7. First' = First /\ \A j : Header(j)' = Header(j)
  BY <1>1, StreamStays, Zenon DEF stream
<1> DEFINE packet == [i \in 1..Header(k) + frames[k] |-> store[rpos + i]]
<1>8. packet = [i \in 1..Header(k) + frames[k] |-> First[k] + i - 1]
  <2>1. ASSUME NEW i \in 1..Header(k) + frames[k] PROVE store[rpos + i] = First[k] + i - 1
    <3>1. rpos + i \in rpos + 1..wpos /\ consumed + (rpos + i) - rpos = consumed + 1 + i - 1
      BY <1>3, <1>6 DEF BufferInv, TypeOK, active
    <3>2. store[rpos + i] = consumed + (rpos + i) - rpos
      BY <3>1, Zenon DEF BufferInv, BufferIsStream
    <3> QED
      BY <1>2, <3>1, <3>2, Zenon
  <2> QED
    BY <2>1
<1> HIDE DEF packet
<1>9. /\ Len(packets') = k /\ DOMAIN packets' = DOMAIN packets \cup {k} /\ packets'[k] = packet
      /\ \A j \in DOMAIN packets : packets'[j] = packets[j]
  <2>1. packets' = Append(packets, packet)
    BY <1>3, Zenon DEF packet
  <2> QED
    BY <1>5, <2>1
<1>10. PacketsIntact'
  <2>1. Len(packets') <= Len(frames')
    BY <1>1, <1>2, <1>5, <1>9
  <2>2. ASSUME NEW j \in DOMAIN packets'
        PROVE  /\ frames[j] <= MaxPayload
               /\ packets'[j] = [i \in 1..Header(j) + frames[j] |-> First[j] + i - 1]
    <3>1. CASE j = k
      BY <1>3, <1>8, <1>9, <3>1, Zenon
    <3>2. CASE j \in DOMAIN packets
      BY <1>9, <3>2, Zenon DEF CutInv, PacketsIntact
    <3> QED
      BY <1>9, <3>1, <3>2, Zenon
  <2> QED
    BY <1>1, <1>7, <2>1, <2>2, Zenon DEF PacketsIntact
<1>11. consumed' + 1 = First'[Len(packets') + 1]
  <2>1. First[k + 1] = First[k] + Header(k) + frames[k]
    BY <1>2, <1>5, FirstSteps, Zenon
  <2>2. consumed \in Nat /\ k \in Nat
    BY <1>5 DEF BufferInv, TypeOK
  <2>3. consumed' + 1 = First[k + 1]
    BY <1>2, <1>3, <1>6, <2>1, <2>2
  <2> QED
    BY <1>7, <1>9, <2>3, Zenon
<1>12. pc' # "closed" => mode' = IF Len(packets') < authFrames' THEN "AUTH" ELSE "WORK"
  BY <1>1, <1>4, <1>5, <1>9 DEF CutInv
<1> QED
  BY <1>1, <1>7, <1>10, <1>11, <1>12, Zenon DEF CutInv

\* Every step keeps the invariant.
LEMMA NextPackets == BufferInv /\ CutInv /\ [ReaderNext]_readerVars => CutInv'
<1> SUFFICES ASSUME BufferInv, CutInv, [ReaderNext]_readerVars PROVE CutInv'
    OBVIOUS
<1>1. ASSUME UNCHANGED <<stream, consumed, mode, packets>>, received' < First[Len(frames) + 1],
             pc # "closed" \/ UNCHANGED pc
      PROVE  CutInv'
  <2>1. First' = First /\ \A k : Header(k)' = Header(k)
    BY <1>1, StreamStays, Zenon
  <2>2. PacketsIntact'
    BY <1>1, <2>1, Zenon DEF CutInv, PacketsIntact, stream
  <2> QED
    BY <1>1, <2>1, <2>2, Zenon DEF CutInv, stream
<1>2. CASE ReadCompletes
  <2>1. PICK n \in 1..remaining : received + n <= StreamLength /\ received' = received + n
    BY <1>2, Zenon DEF ReadCompletes
  <2>2. First[Len(frames) + 1] \in Nat /\ received \in Nat /\ n \in Nat
    <3>1. frames \in Seq(Payloads) /\ authFrames \in Nat /\ Len(frames) + 1 \in Places /\ received \in Nat /\ remaining \in Nat
      BY DEF BufferInv, TypeOK, Places, remaining
    <3> QED
      BY <2>1, <3>1, FirstSteps
  <2>3. received' < First[Len(frames) + 1]
    BY <2>1, <2>2 DEF StreamLength
  <2>4. UNCHANGED <<stream, consumed, mode, packets>> /\ pc # "closed"
    BY <1>2 DEF ReadCompletes
  <2> QED
    BY <1>1, <2>3, <2>4, Zenon
<1>3. CASE do_read \/ Incomplete \/ Oversized \/ ReadFails
  <2>1. UNCHANGED <<stream, consumed, mode, packets, received>> /\ pc # "closed"
    BY <1>3 DEF do_read, Incomplete, Oversized, ReadFails
  <2> QED
    BY <1>1, <2>1, Zenon DEF CutInv
<1>4. CASE UNCHANGED readerVars
  BY <1>1, <1>4, Zenon DEF readerVars, CutInv
<1> QED
  BY <1>2, <1>3, <1>4, DispatchPackets, Zenon DEF ReaderNext, Handler

\* For all sizes and every stream: however its bytes arrive, ReaderAuthSession and
\* ReaderWorkSession hand the packets to dispatch() whole and in order, across the
\* change of the header's size.
THEOREM PacketsAlwaysIntact == ReaderSpec => []PacketsIntact
<1>1. CutInv => PacketsIntact
  BY DEF CutInv
<1>2. BufferInv /\ CutInv /\ [ReaderNext]_readerVars => (BufferInv /\ CutInv)'
  BY NextInv, NextPackets, Zenon
<1> QED
  BY <1>1, <1>2, InitInv, InitPackets, PTL DEF ReaderSpec

============================================================================
