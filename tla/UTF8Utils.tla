----------------------------- MODULE UTF8Utils ------------------------------
(***************************************************************************)
(* common/utils/utf8utils/UTF8Utils.cpp: the check of a user name and its   *)
(* upper-case form.  Bytes are 0..255 here; the loops over a string are     *)
(* recursive functions of the position.                                     *)
(***************************************************************************)
EXTENDS Integers, Sequences

Continuation(c) == c \in 128..191           \* (c & 0xC0) == 0x80
Lead2(c) == c \in 192..223                  \* (c & 0xE0) == 0xC0
Lead3(c) == c \in 224..239                  \* (c & 0xF0) == 0xE0
Lead4(c) == c \in 240..247                  \* (c & 0xF8) == 0xF0

\* The tests on the first two bytes of a sequence: encodings that are longer
\* than need be, and halves of surrogate pairs.
Overlong(c, d) == c < 194 \/ (c = 224 /\ d < 160) \/ (c = 240 /\ d < 144)

\* No test for surrogates.
SurrogateHalf_None(c, d) == FALSE
SurrogateHalf(c, d) == c = 237 /\ d >= 160

\* The n bytes from i on are one character.
Sequence(s, i, n) ==
    /\ i + n - 1 <= Len(s)
    /\ \A j \in (i + 1)..(i + n - 1) : Continuation(s[j])
    /\ ~Overlong(s[i], s[i + 1]) /\ ~SurrogateHalf(s[i], s[i + 1])

\* The loop takes one character after the other.  A first byte above 0xF4 is
\* refused as "> U+10FFFF"; what follows 0xF4 is not looked at.
is_valid_utf8(s) ==
    LET valid[i \in 1..(Len(s) + 1)] ==
            \/ i = Len(s) + 1
            \/ /\ i <= Len(s)
               /\ \/ s[i] <= 127 /\ valid[i + 1]
                  \/ Lead2(s[i]) /\ Sequence(s, i, 2) /\ valid[i + 2]
                  \/ Lead3(s[i]) /\ Sequence(s, i, 3) /\ valid[i + 3]
                  \/ Lead4(s[i]) /\ s[i] <= 244 /\ Sequence(s, i, 4) /\ valid[i + 4]
    IN valid[1]

toupper(c) == IF c \in 97..122 THEN c - 32 ELSE c

SequenceLength(c) == IF Lead2(c) THEN 2 ELSE IF Lead3(c) THEN 3 ELSE IF Lead4(c) THEN 4 ELSE 1

\* It stops at the end of the string.
substr(s, i, n) == SubSeq(s, i, IF i + n - 1 <= Len(s) THEN i + n - 1 ELSE Len(s))

\* ASCII letters change; a sequence of several bytes is copied by the length
\* that its first byte announces.  to_lowercase() is the same loop.
to_uppercase(s) ==
    LET upper[i \in 1..(Len(s) + 4)] ==
            IF i > Len(s) THEN <<>>
            ELSE IF s[i] <= 127 THEN <<toupper(s[i])>> \o upper[i + 1]
            ELSE substr(s, i, SequenceLength(s[i])) \o upper[i + SequenceLength(s[i])]
    IN upper[1]

----------------------------------------------------------------------------
(* The reference: what the encoding of a code point is.                     *)

Encode(p) ==
    IF p < 128 THEN <<p>>
    ELSE IF p < 2048 THEN <<192 + (p \div 64), 128 + (p % 64)>>
    ELSE IF p < 65536 THEN <<224 + (p \div 4096), 128 + ((p \div 64) % 64), 128 + (p % 64)>>
    ELSE <<240 + (p \div 262144), 128 + ((p \div 4096) % 64), 128 + ((p \div 64) % 64), 128 + (p % 64)>>

\* The code point that a sequence would stand for, by its payload bits.
Decode(u) ==
    CASE Len(u) = 1 -> u[1]
      [] Len(u) = 2 -> (u[1] % 32) * 64 + (u[2] % 64)
      [] Len(u) = 3 -> (u[1] % 16) * 4096 + (u[2] % 64) * 64 + (u[3] % 64)
      [] Len(u) = 4 -> (u[1] % 8) * 262144 + (u[2] % 64) * 4096 + (u[3] % 64) * 64 + (u[4] % 64)

\* U+10FFFF.
LastCodePoint == 1114111

Surrogate(p) == 55296 <= p /\ p <= 57343

\* u is the encoding of one code point up to last that is no surrogate.
EncodesOne(u, last) == LET p == Decode(u) IN p <= last /\ ~Surrogate(p) /\ Encode(p) = u

\* s is a concatenation of encodings of code points up to last, surrogates
\* excepted.
EncodesUpTo(s, last) ==
    LET rest[i \in 1..(Len(s) + 1)] ==
            \/ i = Len(s) + 1
            \/ \E n \in 1..4 : i + n <= Len(s) + 1 /\ EncodesOne(SubSeq(s, i, i + n - 1), last) /\ rest[i + n]
    IN rest[1]

============================================================================
