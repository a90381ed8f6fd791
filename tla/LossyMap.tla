------------------------------ MODULE LossyMap ------------------------------
(***************************************************************************)
(* What a cache may promise: a lookup yields the value stored last, or     *)
(* nothing.  An entry may be forgotten at any time; a forgotten entry is   *)
(* back only when it is stored again.                                      *)
(***************************************************************************)
CONSTANTS Keys, Values, Nothing

VARIABLES
    map,      \* the remembered value of each key, or Nothing
    answer    \* the last lookup: its key and what it yielded

mapVars == <<map, answer>>

Init == map = [k \in Keys |-> Nothing] /\ answer = <<Nothing, Nothing>>

Store(k, v) == map' = [map EXCEPT ![k] = v] /\ answer' = answer
Lookup(k) == answer' = <<k, map[k]>> /\ map' = map
Forget(K) == map' = [k \in Keys |-> IF k \in K THEN Nothing ELSE map[k]] /\ answer' = answer

Next ==
    \/ \E k \in Keys : Lookup(k) \/ \E v \in Values : Store(k, v)
    \/ \E K \in SUBSET Keys : Forget(K)

Spec == Init /\ [][Next]_mapVars
=============================================================================
