------------------------------ MODULE MCHashTable ------------------------------
(* Two pairs of keys collide in a table of 2 buckets, one pair in one of 4. *)
EXTENDS HashTable, TLC

CONSTANTS k1, k2, k3, k4, v1, v2

MCHash == k1 :> 0 @@ k2 :> 2 @@ k3 :> 1 @@ k4 :> 5

===============================================================================
