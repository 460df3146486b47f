------------------------------- MODULE MCCatalog -------------------------------
(* Two tables and two versions of the contexts file.  Version 1 gives every    *)
(* object the label x, version 2 gives table t and its columns the label y;    *)
(* tables labelled y cannot be dropped, columns labelled y not be updated.      *)
EXTENDS Catalog

CONSTANTS t, u, x, y

MCDefault(v, k) == IF v = 2 /\ k[1] = t THEN y ELSE x
MCGranted ==
  ({x, y} \X {"access", "create", "delete", "getattr", "select", "insert"})
     \cup {<<x, "drop">>, <<x, "update">>}

===============================================================================
