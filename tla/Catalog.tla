-------------------------------- MODULE Catalog --------------------------------
(***************************************************************************)
(* The catalog of object labels.  The label of a database, table or column *)
(* is kept twice: in the table selinux_context, which follows transactions *)
(* and survives the process, and in the global hash, which the authorizer  *)
(* asks and which follows neither.  CREATE TABLE writes both, PRAGMA       *)
(* restorecon writes both, ALTER TABLE and DROP TABLE write the table only,*)
(* PRAGMA chcon and the authorizer's getContext write hash only.           *)
(*                                                                         *)
(* One connection, one database.  Label ids are the labels they stand for  *)
(* (LabelStore); column "a" stands for all columns CREATE TABLE labels in  *)
(* the same loop, security_context and ROWID included; "b" is a column that*)
(* ALTER TABLE adds, and "b INT" the text of its definition.               *)
(*                                                                         *)
(* A statement is compiled (sqlite3_prepare), which asks the authorizer and*)
(* fixes the labels it will write, and run (sqlite3_step) later or never.  *)
(* Only the schema cookie tells at that time whether it is out of date.    *)
(***************************************************************************)
EXTENDS Authorizer, Sequences, SequencesExt

CONSTANTS
  Table,       \* names of user tables
  Label,       \* security labels
  Version,     \* versions of the contexts file an administrator installs
  Default(_, _),  \* label that a version of the file gives an object
  MaxOps       \* bound: statements compiled for one database

None == 0      \* contexts is NULL
ASSUME VersionAssumption == Version \subseteq Nat \ {None} /\ Version # {}

(* A schema is finite; a table of the empty name would share the entry of the *)
(* database.                                                                  *)
ASSUME TableAssumption == IsFiniteSet(Table) /\ "" \notin Table
ASSUME LabelAssumption == NoLabel \notin Label
ASSUME BoundAssumption == MaxOps \in Nat

Column       == {"a", "b", "b INT"}
DbKey        == <<"", "">>
TableKey(t)  == <<t, "">>
KeysOf(t)    == {TableKey(t)} \cup {<<t, c>> : c \in Column}
Key          == {DbKey} \cup UNION {KeysOf(t) : t \in Table}

ASSUME DefaultAssumption ==
  \A v \in Version, k \in Key : Default(v, k) \in Label

VARIABLES
  db,         \* the database as the connection sees it: schema and selinux_context
  saved,      \* << >>, or <<db when the open transaction began>>
  hash,       \* the global hash: object -> label
  contexts,   \* the global contexts: version of the file it was read from, or None
  file,       \* version of the contexts file that is installed
  up,         \* a process has the database open
  vacuum,     \* the global flag vacuum
  prepared,   \* the schema statements that are compiled and can still run
  internChanges,  \* SQLITE_InternChanges: the open transaction changed the schema
  oneSided,   \* history: objects whose label the code last wrote on one side only
  ops         \* statements compiled so far

vars == <<db, saved, hash, contexts, file, up, vacuum, prepared, internChanges, oneSided, ops>>

Absent == {}

(* selinux_context is a function from rowids to rows.  CREATE TABLE leaves the *)
(* column of a table's own row NULL, restorecon writes ''; the primary key    *)
(* (db, name, column) holds no two equal rows but any number with NULL.       *)
Entry == [name : Table \cup {""}, column : Column \cup {"", "NULL"}, label : Label]
EntryKey(e) == <<e.name, IF e.column = "NULL" THEN "" ELSE e.column>>
RowsOf(rows, k) == {i \in DOMAIN rows : EntryKey(rows[i]) = k}

(* A new row gets the rowid after the largest. *)
LastId(rows) == Max({0} \cup DOMAIN rows)
Appended(rows, new) ==
  LET n == LastId(rows) IN
  [i \in DOMAIN rows \cup (n + 1 .. n + Len(new)) |->
     IF i \in DOMAIN rows THEN rows[i] ELSE new[i - n]]

NoHash == [k \in Key |-> NoLabel]

(* The label the last of the rows for k has; what a reload leaves in hash.    *)
Stored(rows) ==
  [k \in Key |-> IF RowsOf(rows, k) = {} THEN NoLabel ELSE rows[Max(RowsOf(rows, k))].label]

Init ==
  /\ db = [tables |-> [t \in Table |-> Absent], rows |-> [i \in {} |-> 0]]
  /\ saved = << >> /\ hash = NoHash /\ contexts = None
  /\ file \in Version
  /\ up = FALSE /\ vacuum = FALSE /\ prepared = {} /\ internChanges = FALSE
  /\ oneSided = {} /\ ops = 0

Exists(t) == db.tables[t] # Absent

(* Every statement of the model counts towards the bound. *)
Count == ops < MaxOps /\ ops' = ops + 1

(* A compiled statement: the table it is about, the name it renames it to, the *)
(* rows it adds to selinux_context, and whether a PRAGMA has changed a label   *)
(* of the table since it was compiled (history).                              *)
Statement == [op : {"create", "drop", "rename", "add"}, t : Table, to : Table \cup {""},
              new : Seq(Entry), stale : BOOLEAN]

(* sqlite3_prepare, after the authorizer has agreed. *)
Compiled(op, t, to, new) ==
  prepared' = prepared \cup
    {[op |-> op, t |-> t, to |-> to, new |-> new, stale |-> FALSE]}

(* The schema cookie changes: OP_Transaction finds every other statement out  *)
(* of date, and it has to be compiled again.  A commit clears the flag.       *)
SchemaChanged ==
  /\ prepared' = {}
  /\ internChanges' = (saved # << >>)

(* A PRAGMA gives the objects in keys another label; the cookie stays.        *)
Relabelled(keys) ==
  prepared' = {[s EXCEPT !.stale = @ \/ KeysOf(s.t) \cap keys # {}] : s \in prepared}

-------------------------------------------------------------------------------
(* sqlite3SelinuxInit.  The globals hash and contexts of an earlier           *)
(* connection of the process are replaced and kept, respectively.             *)

Open ==
  /\ ~up
  /\ up' = TRUE /\ oneSided' = {}
  /\ IF DOMAIN db.rows = {}
       THEN /\ contexts' = file
            /\ db' = [db EXCEPT !.rows = Appended(@,
                 <<[name |-> "", column |-> "", label |-> Default(file, DbKey)]>>)]
            /\ hash' = [NoHash EXCEPT ![DbKey] = Default(file, DbKey)]
       ELSE /\ hash' = Stored(db.rows)
            /\ UNCHANGED <<db, contexts>>
  /\ UNCHANGED <<saved, file, vacuum, prepared, internChanges, ops>>

(* The callback for a code on table t and, if the code names one, column c.   *)
Columns(t) == db.tables[t] \cap Column
Allowed(code, t, c) == Answer(hash, Checks(code, t, c, Columns(t)))

(* getContext: on a miss the default label is computed and entered in hash    *)
(* only.  A callback may ask for a table that does not exist yet (CREATE), and *)
(* for a column of the schema (READ, UPDATE, INSERT, DROP).  With contexts NULL *)
(* a miss kills the process (Crash).                                          *)
GetContext(k) ==
  /\ up /\ hash[k] = NoLabel /\ contexts # None
  /\ k[2] # "" => k[2] \in Columns(k[1])
  /\ hash' = [hash EXCEPT ![k] = Default(contexts, k)]
  /\ UNCHANGED <<db, saved, contexts, file, up, vacuum, prepared, internChanges, oneSided, ops>>

-------------------------------------------------------------------------------
(* CREATE TABLE *)

(* Mutation: the default is computed only for a new database. *)
NewLabel_NoDefault(k) == hash[k]

(* create_security_context_column: the labels the new table's objects get.    *)
NewLabel(k) == IF hash[k] # NoLabel THEN hash[k] ELSE Default(contexts, k)

(* Mutation: the rows get the default labels, whatever hash has. *)
NewEntries_Default(t) ==
  << [name |-> t, column |-> "NULL", label |-> Default(contexts, TableKey(t))],
     [name |-> t, column |-> "a", label |-> Default(contexts, <<t, "a">>)] >>

NewEntries(t) ==
  << [name |-> t, column |-> "NULL", label |-> NewLabel(TableKey(t))],
     [name |-> t, column |-> "a", label |-> NewLabel(<<t, "a">>)] >>

(* The labels are entered in hash while the statement is compiled: if it     *)
(* fails when it runs, or never runs, only hash has changed.                  *)
CompileCreate(t) ==
  /\ up /\ ~Exists(t) /\ ~vacuum /\ Count
  /\ contexts # None                  \* lookup_security_context uses it: else Crash
  /\ Allowed("CREATE_TABLE", t, "")
  /\ hash' = [k \in Key |-> IF k \in {TableKey(t), <<t, "a">>} THEN NewLabel(k) ELSE hash[k]]
  /\ Compiled("create", t, "", NewEntries(t))
  /\ UNCHANGED <<db, saved, contexts, file, up, vacuum, internChanges, oneSided>>

(* While the flag vacuum is set the table gets neither column nor labels.     *)
CompileInVacuum(t) ==
  /\ up /\ ~Exists(t) /\ vacuum /\ Count
  /\ Allowed("CREATE_TABLE", t, "")
  /\ Compiled("create", t, "", << >>)
  /\ UNCHANGED <<db, saved, hash, contexts, file, up, vacuum, internChanges, oneSided>>

(* The rows have the labels that hash had when the statement was compiled.    *)
CreateTable(s) ==
  /\ s \in prepared /\ s.op = "create"
  /\ db' = [tables |-> [db.tables EXCEPT ![s.t] =
                          IF s.new = << >> THEN {"a"} ELSE {"a", "security_context"}],
            rows   |-> Appended(db.rows, s.new)]
  /\ SchemaChanged
  /\ oneSided' = IF s.stale THEN oneSided \cup KeysOf(s.t) ELSE oneSided \ KeysOf(s.t)
  /\ UNCHANGED <<saved, hash, contexts, file, up, vacuum, ops>>

-------------------------------------------------------------------------------
(* The schema change hook: the rows of selinux_context, never hash. *)

Without(rows, ids) == Restrict(rows, DOMAIN rows \ ids)

(* Mutation: only the table's own row is deleted. *)
DropTable_ColumnsStay(s) ==
  /\ s \in prepared /\ s.op = "drop"
  /\ db' = [tables |-> [db.tables EXCEPT ![s.t] = Absent],
            rows   |-> Without(db.rows, RowsOf(db.rows, TableKey(s.t)))]
  /\ SchemaChanged
  /\ UNCHANGED <<saved, hash, contexts, file, up, vacuum, oneSided, ops>>

(* DROP TABLE asks for DROP_TABLE and for DELETE.  (That it may also delete    *)
(* from sqlite_master is not asked here: the model has no labels for it.)      *)
CompileDrop(t) ==
  /\ up /\ Exists(t) /\ Count
  /\ Allowed("DROP_TABLE", t, "") /\ Allowed("DELETE", t, "")
  /\ Compiled("drop", t, "", << >>)
  /\ UNCHANGED <<db, saved, hash, contexts, file, up, vacuum, internChanges, oneSided>>

DropTable(s) ==
  /\ s \in prepared /\ s.op = "drop"
  /\ db' = [tables |-> [db.tables EXCEPT ![s.t] = Absent],
            rows   |-> Without(db.rows, {i \in DOMAIN db.rows : db.rows[i].name = s.t})]
  /\ SchemaChanged
  /\ UNCHANGED <<saved, hash, contexts, file, up, vacuum, oneSided, ops>>

Renamed(rows, t, u) ==
  [i \in DOMAIN rows |-> IF rows[i].name = t THEN [rows[i] EXCEPT !.name = u] ELSE rows[i]]

(* ALTER TABLE t RENAME TO u asks for getattr on the table. *)
CompileRename(t, u) ==
  /\ up /\ Exists(t) /\ ~Exists(u) /\ Count
  /\ Allowed("ALTER_TABLE", t, "")
  /\ Compiled("rename", t, u, << >>)
  /\ UNCHANGED <<db, saved, hash, contexts, file, up, vacuum, internChanges, oneSided>>

RenameTable(s) ==
  /\ s \in prepared /\ s.op = "rename"
  /\ db' = [tables |-> [db.tables EXCEPT ![s.to] = db.tables[s.t], ![s.t] = Absent],
            rows   |-> Renamed(db.rows, s.t, s.to)]
  /\ SchemaChanged
  /\ oneSided' = oneSided \cup KeysOf(s.to)
  /\ UNCHANGED <<saved, hash, contexts, file, up, vacuum, ops>>

(* ALTER TABLE t ADD: the hook is given the text of the definition and takes  *)
(* it for the column's name, which it is only when no type follows.           *)
CompileAdd(t, def) ==
  /\ up /\ Exists(t) /\ "b" \notin db.tables[t] /\ contexts # None /\ Count
  /\ Allowed("ALTER_TABLE", t, "")
  /\ Compiled("add", t, "",
       <<[name |-> t, column |-> def, label |-> Default(contexts, <<t, def>>)]>>)
  /\ UNCHANGED <<db, saved, hash, contexts, file, up, vacuum, internChanges, oneSided>>

AddColumn(s) ==
  /\ s \in prepared /\ s.op = "add"
  /\ db' = [tables |-> [db.tables EXCEPT ![s.t] = @ \cup {"b"}],
            rows   |-> Appended(db.rows, s.new)]
  /\ SchemaChanged
  /\ oneSided' = oneSided \cup {<<s.t, s.new[1].column>>}
  /\ UNCHANGED <<saved, hash, contexts, file, up, vacuum, ops>>

-------------------------------------------------------------------------------
(* PRAGMAs *)

(* chcon: hash only, and only for an object that has an entry. *)
Chcon(k, l) ==
  /\ up /\ hash[k] # NoLabel /\ hash[k] # l /\ Count
  /\ hash' = [hash EXCEPT ![k] = l]
  /\ oneSided' = oneSided \cup {k} /\ Relabelled({k})
  /\ UNCHANGED <<db, saved, contexts, file, up, vacuum, internChanges>>

(* filter_accepts; a filter is "NULL", a pattern that matches all, or a name. *)
FilterAccepts(filter, name) == filter = "*" \/ filter = name

(* The objects that reload_sesqlite_contexts visits. *)
Scanned(tblFilter, colFilter) ==
  LET tables == {t \in Table : Exists(t) /\ FilterAccepts(tblFilter, t)} IN
  {DbKey} \cup {TableKey(t) : t \in tables}
          \cup {k \in tables \X Column :
                  k[2] \in db.tables[k[1]] /\ FilterAccepts(colFilter, k[2])}

(* INSERT OR REPLACE for each of them: the row is added, then an older one    *)
(* with the same columns goes.                                                *)
ReloadedEntry(k, v) == [name |-> k[1], column |-> k[2], label |-> Default(v, k)]
Reloaded(rows, keys, v) ==
  LET order == SetToSeq(keys)
      old   == {i \in DOMAIN rows : <<rows[i].name, rows[i].column>> \in keys}
  IN  Without(Appended(rows, [n \in DOMAIN order |-> ReloadedEntry(order[n], v)]), old)

(* restorecon: the file is read again, then every object the filters accept   *)
(* gets its label in hash and in the table.  With contexts NULL freeing it     *)
(* kills the process (Crash).                                                  *)
Restorecon(tblFilter, colFilter) ==
  /\ up /\ contexts # None /\ Count
  /\ contexts' = file
  /\ LET keys == Scanned(tblFilter, colFilter) IN
     /\ hash' = [k \in Key |-> IF k \in keys THEN Default(file, k) ELSE hash[k]]
     /\ db' = [db EXCEPT !.rows = Reloaded(@, keys, file)]
     /\ oneSided' = oneSided \ keys /\ Relabelled(keys)
  /\ UNCHANGED <<saved, file, up, vacuum, internChanges>>

-------------------------------------------------------------------------------
(* VACUUM copies "SELECT *" of each table; "*" leaves security_context out,   *)
(* so the copy of selinux_context has too few values, the statement fails and *)
(* set_vacuum(0), which comes after the copies, is not reached.  It resets the *)
(* schema, and with it the generation a compiled statement has to match.       *)
Vacuum ==
  /\ up /\ saved = << >> /\ Count
  /\ vacuum' = TRUE /\ prepared' = {}
  /\ UNCHANGED <<db, saved, hash, contexts, file, up, internChanges, oneSided>>

Begin ==
  /\ up /\ saved = << >> /\ saved' = <<db>>
  /\ UNCHANGED <<db, hash, contexts, file, up, vacuum, prepared, internChanges, oneSided, ops>>

Commit ==
  /\ up /\ saved # << >> /\ saved' = << >> /\ internChanges' = FALSE
  /\ UNCHANGED <<db, hash, contexts, file, up, vacuum, prepared, oneSided, ops>>

(* A rollback writes the table's side only.  It expires the compiled           *)
(* statements when the transaction changed the schema.                         *)
Rollback ==
  /\ up /\ saved # << >>
  /\ db' = saved[1] /\ saved' = << >>
  /\ prepared' = (IF internChanges THEN {} ELSE prepared) /\ internChanges' = FALSE
  /\ oneSided' = oneSided \cup {k \in Key : Stored(db.rows)[k] # Stored(saved[1].rows)[k]}
  /\ UNCHANGED <<hash, contexts, file, up, vacuum, ops>>

(* The connection is closed, its statements finalised; the process's globals   *)
(* stay.                                                                       *)
Close ==
  /\ up /\ saved = << >>
  /\ up' = FALSE /\ prepared' = {}
  /\ UNCHANGED <<db, saved, hash, contexts, file, vacuum, internChanges, oneSided, ops>>

(* The process ends. *)
Crash ==
  /\ db' = IF saved = << >> THEN db ELSE saved[1]
  /\ saved' = << >> /\ hash' = NoHash /\ contexts' = None
  /\ up' = FALSE /\ vacuum' = FALSE /\ prepared' = {} /\ internChanges' = FALSE
  /\ UNCHANGED <<file, oneSided, ops>>

(* The administrator installs another version of the contexts file. *)
Install(v) ==
  /\ v > file /\ file' = v
  /\ UNCHANGED <<db, saved, hash, contexts, up, vacuum, prepared, internChanges, oneSided, ops>>

Next ==
  \/ Open \/ Close \/ Crash \/ Begin \/ Commit \/ Rollback \/ Vacuum
  \/ \E k \in Key : GetContext(k)
  \/ \E k \in Key, l \in Label : Chcon(k, l)
  \/ \E t \in Table : CompileCreate(t) \/ CompileInVacuum(t) \/ CompileDrop(t)
  \/ \E t, u \in Table : CompileRename(t, u)
  \/ \E t \in Table, def \in {"b", "b INT"} : CompileAdd(t, def)
  \/ \E s \in prepared : CreateTable(s) \/ DropTable(s) \/ RenameTable(s) \/ AddColumn(s)
  \/ \E tf \in Table \cup {"NULL", "*"}, cf \in {"NULL", "a", "b", "*"} : Restorecon(tf, cf)
  \/ \E v \in Version : Install(v)

Spec == Init /\ [][Next]_vars

-------------------------------------------------------------------------------
(* Properties *)

IsDb(d) ==
  /\ d = [tables |-> d.tables, rows |-> d.rows]
  /\ d.tables \in [Table -> SUBSET {"a", "b", "security_context"}]
  /\ d.rows \in [DOMAIN d.rows -> Entry]
  /\ LastId(d.rows) \in Nat /\ DOMAIN d.rows \subseteq 1..LastId(d.rows)

(* Schema, catalog and memory have their types. *)
TypeOK ==
  /\ IsDb(db)
  /\ saved = << >> \/ (saved = <<saved[1]>> /\ IsDb(saved[1]))
  /\ hash \in [Key -> Label \cup {NoLabel}]
  /\ contexts \in Version \cup {None} /\ file \in Version
  /\ up \in BOOLEAN /\ vacuum \in BOOLEAN /\ oneSided \subseteq Key /\ ops \in 0..MaxOps
  /\ prepared \subseteq Statement /\ internChanges \in BOOLEAN

(* selinux_context describes the schema: it has a row for each table that has *)
(* labels and for its first column, no row for a table that does not exist,   *)
(* and no key twice except a table's own under NULL and ''.  Were a dropped    *)
(* or renamed table to leave a row behind, the next table of that name could   *)
(* not be created, or would get its label.                                    *)
CatalogMatchesSchema ==
  /\ \A i \in DOMAIN db.rows : LET e == db.rows[i] IN e.name = "" \/ Exists(e.name)
  /\ \A t \in Table : "security_context" \in db.tables[t] =>
       \A k \in {TableKey(t), <<t, "a">>} : Stored(db.rows)[k] # NoLabel
  /\ \A i, j \in DOMAIN db.rows :
       /\ db.rows[i].name = db.rows[j].name /\ db.rows[i].column = db.rows[j].column
       => i = j

(* The label the authorizer uses is the label selinux_context has, so that    *)
(* closing and opening the database changes nobody's permissions, for every   *)
(* object but those the code wrote on one side only: chcon, ALTER TABLE, a     *)
(* CREATE that runs after a chcon it was compiled before, and a rollback.     *)
(* Labels left in hash by a dropped table, by a statement that failed after it *)
(* was compiled, or by a check of a table that does not exist yet are no      *)
(* exception.                                                                 *)
MemoryAgrees ==
  up => \A k \in Key \ oneSided :
          hash[k] # NoLabel /\ Stored(db.rows)[k] # NoLabel => hash[k] = Stored(db.rows)[k]

(* A table leaves the schema through a DROP, compiled at any earlier time,    *)
(* only if the policy grants it for the label selinux_context has for the     *)
(* table then: a statement outlives neither the table it was authorised for   *)
(* nor, after a rollback, the schema.  Excepted are, as above, labels written *)
(* on one side only, and a DROP that was compiled before PRAGMA restorecon    *)
(* gave the table the label that protects it: nothing asks again.             *)
DropAsStored ==
  [][\A t \in Table :
       LET l == Stored(db.rows)[TableKey(t)] IN
       /\ Exists(t) /\ db'.tables[t] = Absent
       /\ saved' = saved /\ up'
       /\ \A u \in Table : db'.tables[u] \in {Absent, db.tables[u]}
       /\ TableKey(t) \notin oneSided /\ l # NoLabel
       /\ \A s \in prepared : s.op = "drop" /\ s.t = t => ~s.stale
       => <<l, "drop">> \in Granted]_vars

===============================================================================
