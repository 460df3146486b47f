------------------------- MODULE MCAccessVectorCache -------------------------
(* A small instance: label b is granted the permission, c and d are not. *)
EXTENDS AccessVectorCache

CONSTANTS a, b, c, d

MCInitial == <<a>>
MCClassPerm == {<<3, 6>>, <<1, 6>>}           \* select on db_tuple and on db_table
MCAllowed == {<<b, <<3, 6>>>>, <<a, <<1, 6>>>>}

===============================================================================
