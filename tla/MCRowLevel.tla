------------------------------ MODULE MCRowLevel ------------------------------
(* One row and three labels: a is the tuple label, b may be read and changed, *)
(* c only changed.  Id 2 can go from b to c, or be no label's.                *)
EXTENDS RowLevel

CONSTANTS a, b, c

MCInitial == <<a>>
MCClassPerm == TuplePerms
MCAllowed == ({a, b} \X TuplePerms) \cup {<<c, TupleUpdate>>}

===============================================================================
