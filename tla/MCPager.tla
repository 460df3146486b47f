------------------------------- MODULE MCPager --------------------------------
(* The processes of the two instances: two for the locks, one for the journal. *)
EXTENDS Pager

CONSTANTS p1, p2

===============================================================================
