--------------------------------- MODULE Map ---------------------------------
(***************************************************************************)
(* What the rest of SeSQLite takes a SESQLITE_HASH for: a map.              *)
(***************************************************************************)
CONSTANTS Key, Value, Null

VARIABLE map    \* what SESQLITE_HASH_FIND answers for each key

Init == map = [k \in Key |-> Null]

Put(k, v) == map' = [map EXCEPT ![k] = v]

Delete(k) == map' = [map EXCEPT ![k] = Null]

Clear == map' = [k \in Key |-> Null]

Next ==
  \/ Clear
  \/ \E k \in Key : Delete(k) \/ \E v \in Value : Put(k, v)

Spec == Init /\ [][Next]_map

===============================================================================
