------------------------------ MODULE Authorizer ------------------------------
(***************************************************************************)
(* selinuxAuthorizer: which permission an action code of SQLite asks for,  *)
(* on which objects.  The callback runs while a statement is compiled; the *)
(* label of an object is whatever the map "labels" has for it.             *)
(***************************************************************************)
EXTENDS Integers

CONSTANTS
  Granted,     \* the policy: pairs <<label, permission>> granted to scon
  NoLabel      \* an object without a label

(* The action codes sqlite3AuthCheck and sqlite3AuthRead pass. *)
Code == {"CREATE_INDEX", "CREATE_TABLE", "CREATE_TEMP_INDEX", "CREATE_TEMP_TABLE",
  "CREATE_TEMP_TRIGGER", "CREATE_TEMP_VIEW", "CREATE_TRIGGER", "CREATE_VIEW", "DELETE",
  "DROP_INDEX", "DROP_TABLE", "DROP_TEMP_INDEX", "DROP_TEMP_TABLE", "DROP_TEMP_TRIGGER",
  "DROP_TEMP_VIEW", "DROP_TRIGGER", "DROP_VIEW", "INSERT", "READ", "SELECT",
  "TRANSACTION", "UPDATE", "ALTER_TABLE", "REINDEX", "ANALYZE", "CREATE_VTABLE",
  "DROP_VTABLE", "FUNCTION", "SAVEPOINT"}

(* Codes whose callback has no database name: no db_database check. *)
NoDatabase == {"ALTER_TABLE", "SELECT", "TRANSACTION", "FUNCTION", "SAVEPOINT"}

(* Mutation: dropping a table is deleting its rows. *)
TablePerm_DropIsDelete(code) ==
  CASE code \in {"CREATE_TABLE", "CREATE_VIEW"} -> "create"
    [] code \in {"DELETE", "DROP_TABLE", "DROP_VIEW"} -> "delete"
    [] code = "ALTER_TABLE" -> "getattr"
    [] OTHER -> ""

(* The permission a code asks of the table, of the one column it names, and   *)
(* of all columns of the table ("" for none).                                 *)
TablePerm(code) ==
  CASE code \in {"CREATE_TABLE", "CREATE_TEMP_TABLE", "CREATE_VIEW", "CREATE_TEMP_VIEW"} -> "create"
    [] code \in {"CREATE_TRIGGER", "DROP_INDEX", "DROP_TRIGGER"} -> "setattr"
    [] code \in {"DROP_TABLE", "DROP_TEMP_TABLE", "DROP_VIEW", "DROP_TEMP_VIEW", "DROP_VTABLE"} -> "drop"
    [] code = "DELETE" -> "delete"
    [] code = "INSERT" -> "insert"
    [] code = "READ" -> "select"
    [] code = "ALTER_TABLE" -> "getattr"
    [] OTHER -> ""

ColumnPerm(code) ==
  CASE code = "READ" -> "select" [] code = "UPDATE" -> "update" [] OTHER -> ""

AllColumnsPerm(code) ==
  CASE code \in {"DROP_TABLE", "DROP_TEMP_TABLE", "DROP_VIEW", "DROP_VTABLE"} -> "drop"
    [] code = "INSERT" -> "insert"
    [] OTHER -> ""

(* The checks of one callback: pairs <<object, permission>>.  An object is     *)
(* <<table, column>>, with "" for what it does not have.                      *)
Checks(code, t, c, columns) ==
  {chk \in {<<<<"", "">>, IF code \in NoDatabase THEN "" ELSE "access">>,
            <<<<t, "">>, TablePerm(code)>>,
            <<<<t, c>>, IF c = "" THEN "" ELSE ColumnPerm(code)>>}
           \cup {<<<<t, d>>, AllColumnsPerm(code)>> : d \in columns} : chk[2] # ""}

(* checkAccess after getContext: the label is looked up and SELinux asked.    *)
Answer(labels, checks) ==
  \A chk \in checks : labels[chk[1]] # NoLabel /\ <<labels[chk[1]], chk[2]>> \in Granted

===============================================================================
