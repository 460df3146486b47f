-------------------------------- MODULE MCWal ---------------------------------
(* Two processes, interchangeable. *)
EXTENDS Wal, TLC

CONSTANTS p1, p2

Symmetry == Permutations({p1, p2})

===============================================================================
