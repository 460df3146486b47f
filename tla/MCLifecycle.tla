------------------------------ MODULE MCLifecycle ------------------------------
(* Two tuple labels, two objects of which one needs a label of its own,     *)
(* two subjects.                                                             *)
EXTENDS Lifecycle

CONSTANTS p1, p2, t1, t2, o1, s1, s2

MCTuple  == <<t1, t2>>
MCObject == <<t1, o1>>

===============================================================================
