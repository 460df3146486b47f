------------------------------ MODULE Lifecycle ------------------------------
(***************************************************************************)
(* sqlite3SelinuxInit, one statement at a time.  No transaction surrounds   *)
(* the initialisation: every CREATE TABLE and every INSERT commits by       *)
(* itself, so a crash, an error return or another process can come between  *)
(* any two of them, and isReopen has to tell from what is left in the file  *)
(* whether the database was ever initialised.                               *)
(*                                                                         *)
(* A failing assert and a NULL contexts both end the process ("aborted"):   *)
(* the model is of a build that keeps its assertions.                       *)
(***************************************************************************)
EXTENDS Integers, Sequences, FiniteSets

CONSTANTS
  Proc,           \* processes that open the same database file
  Label,          \* security labels
  TupleLabels,    \* the labels of the db_tuple lines of the contexts file, in list order
  IdLabel,        \* the db_tuple label of table selinux_id itself
  ObjectLabels,   \* the labels of the schema's objects, in the order they are scanned
  Subject,        \* the labels a process may run with (scon)
  MaxId,          \* bound: largest rowid of selinux_id
  WriteMayFail,   \* whether a write may fail (lock held, disk full)
  ReadMayFail     \* whether reading the schema or a row may fail (lock held, I/O error)

Rows(t) == {t[i] : i \in DOMAIN t}

ASSUME FileAssumption ==
  /\ TupleLabels \in Seq(Label) /\ ObjectLabels \in Seq(Label)
  /\ IdLabel \in Rows(TupleLabels)
ASSUME SubjectAssumption ==
  /\ Subject \subseteq Label
  /\ Subject \cap (Rows(TupleLabels) \cup Rows(ObjectLabels)) = {}
ASSUME BoundAssumption == MaxId \in Nat
ASSUME FaultAssumption == WriteMayFail \in BOOLEAN /\ ReadMayFail \in BOOLEAN

VARIABLES
  hasContext, hasId,  \* the two internal tables exist
  reserved,           \* a user's table has a name that starts with selinux
  ids,                \* selinux_id: rowid -> label
  stamped,            \* the rows of selinux_id have their own security_context
  objects,            \* selinux_context: object number -> label id, 0 for no row
  pc,                 \* where each process is
  reopen,             \* the local variable reopen
  n,                  \* how far the loop over tuple labels or objects has come
  scon,               \* the label the process runs with
  contexts,           \* the global contexts is not NULL
  hashId,             \* label -> id in hash_id, 0 for none
  hash,               \* object -> label id in hash, 0 for none
  last,               \* sqlite3_last_insert_rowid of the connection
  knew,               \* every statement of this open returned without an error, and
                      \* isReopen and the reload read that the database knows scon (history)
  slipped             \* a failed statement went unnoticed (history)

disk  == <<hasContext, hasId, reserved, ids, stamped, objects>>
procs == <<pc, reopen, n, scon, contexts, hashId, hash, last, knew, slipped>>
vars  == <<disk, procs>>

Object == DOMAIN ObjectLabels
NoHashId == [l \in Label |-> 0]
NoHash   == [o \in Object |-> 0]

Init ==
  /\ hasContext = FALSE /\ hasId = FALSE /\ reserved = FALSE
  /\ ids = << >> /\ stamped = FALSE /\ objects = NoHash
  /\ pc = [p \in Proc |-> "down"] /\ reopen = [p \in Proc |-> FALSE]
  /\ n = [p \in Proc |-> 1] /\ scon \in [Proc -> Subject]
  /\ contexts = [p \in Proc |-> FALSE] /\ hashId = [p \in Proc |-> NoHashId]
  /\ hash = [p \in Proc |-> NoHash] /\ last = [p \in Proc |-> 0]
  /\ knew = [p \in Proc |-> FALSE] /\ slipped = FALSE

Goto(p, l) == pc' = [pc EXCEPT ![p] = l]

-------------------------------------------------------------------------------
(* A new process, or a new connection of a process that has opened the      *)
(* database before or failed to: the globals hash and hash_id are replaced, *)
(* contexts stays what it was: after a first open that failed it can hide   *)
(* that the database was left half-initialised, with no subject registered. *)
Open(p) ==
  /\ pc[p] \in {"down", "open", "failed"}
  /\ Goto(p, "isReopen")
  /\ scon' \in IF pc[p] = "down" THEN {[scon EXCEPT ![p] = s] : s \in Subject} ELSE {scon}
  /\ hashId' = [hashId EXCEPT ![p] = NoHashId]
  /\ hash' = [hash EXCEPT ![p] = NoHash]
  /\ last' = [last EXCEPT ![p] = 0]
  /\ knew' = [knew EXCEPT ![p] = FALSE]
  /\ slipped' = (slipped \/ (pc[p] = "failed" /\ contexts[p] /\ Subject \cap Rows(ids) = {}))
  /\ UNCHANGED <<disk, reopen, n, contexts>>

(* SELECT count( * ) ... tbl_name LIKE 'selinux%' *)
InternalTables ==
  Cardinality({t \in {"context", "id", "reserved"} :
     \/ t = "context" /\ hasContext
     \/ t = "id" /\ hasId
     \/ t = "reserved" /\ reserved})

(* Mutation: one internal table is enough. *)
IsReopen_AnyTable(p) ==
  /\ pc[p] = "isReopen"
  /\ Goto(p, "createContext")
  /\ reopen' = [reopen EXCEPT ![p] = FALSE]
  /\ knew' = [knew EXCEPT ![p] = hasContext /\ hasId /\ ~reserved /\ scon[p] \in Rows(ids)]
  /\ UNCHANGED <<disk, n, scon, contexts, hashId, hash, last, slipped>>

(* A loop "while( sqlite3_step(...)==SQLITE_ROW )" takes an error for the    *)
(* end of the rows.                                                          *)
IsReopen(p) ==
  /\ pc[p] = "isReopen"
  /\ \E count \in {InternalTables} \cup (IF ReadMayFail THEN {0} ELSE {}) :
       /\ Goto(p, IF count \in {0, 2} THEN "createContext" ELSE "failed")
       /\ reopen' = [reopen EXCEPT ![p] = count = 2]
       /\ knew' = [knew EXCEPT ![p] = /\ count = 2 /\ hasContext /\ hasId
                                      /\ scon[p] \in Rows(ids)]
  /\ UNCHANGED <<disk, n, scon, contexts, hashId, hash, last, slipped>>

(* create_internal_table: CREATE TABLE IF NOT EXISTS, twice. *)
CreateContext(p) ==
  /\ pc[p] = "createContext"
  /\ hasContext' = TRUE
  /\ Goto(p, "createId")
  /\ UNCHANGED <<hasId, reserved, ids, stamped, objects,
                 reopen, n, scon, contexts, hashId, hash, last, knew, slipped>>

CreateId(p) ==
  /\ pc[p] = "createId"
  /\ hasId' = TRUE
  /\ Goto(p, "prepare")
  /\ UNCHANGED <<hasContext, reserved, ids, stamped, objects,
                 reopen, n, scon, contexts, hashId, hash, last, knew, slipped>>

(* prepare_stmt *)
PrepareStmt(p) ==
  /\ pc[p] = "prepare"
  /\ Goto(p, IF reopen[p] THEN "loadIds" ELSE "readFile")
  /\ UNCHANGED <<disk, reopen, n, scon, contexts, hashId, hash, last, knew, slipped>>

(* An error that sqlite3SelinuxInit returns: a SELECT of isReopen or of       *)
(* load_contexts_from_table or a statement of prepare_stmt that cannot be     *)
(* compiled because the schema cannot be read, a CREATE TABLE IF NOT EXISTS   *)
(* that cannot make a missing table, or cannot get a shared lock to verify    *)
(* the schema that has it (SQLITE_BUSY).                                      *)
StatementFails(p) ==
  /\ \/ WriteMayFail /\ pc[p] = "createContext" /\ ~hasContext
     \/ WriteMayFail /\ pc[p] = "createId" /\ ~hasId
     \/ ReadMayFail /\ pc[p] \in {"isReopen", "createContext", "createId", "prepare",
                                   "loadIds", "loadObjects"}
  /\ Goto(p, "failed")
  /\ knew' = [knew EXCEPT ![p] = FALSE]
  /\ UNCHANGED <<disk, reopen, n, scon, contexts, hashId, hash, last, slipped>>

-------------------------------------------------------------------------------
(* Mutation: the two "no entry" values are confused. *)
IdsOf_MinusOne(t) ==
  [l \in Label |-> IF l \in Rows(t) THEN CHOOSE i \in DOMAIN t : t[i] = l ELSE -1]

IdsOf(t) ==
  [l \in Label |-> IF l \in Rows(t) THEN CHOOSE i \in DOMAIN t : t[i] = l ELSE 0]

(* Mutation: the last row is not read. *)
LoadIds_ShortByOne(p) ==
  /\ pc[p] = "loadIds"
  /\ hashId' = [hashId EXCEPT ![p] = IdsOf(SubSeq(ids, 1, Len(ids) - 1))]
  /\ Goto(p, "loadObjects")
  /\ UNCHANGED <<disk, reopen, n, scon, contexts, hash, last, knew, slipped>>

(* load_contexts_from_table: one SELECT for each table. *)
LoadIds(p) ==
  /\ pc[p] = "loadIds"
  /\ \E k \in {Len(ids)} \cup (IF ReadMayFail THEN 0..Len(ids) ELSE {}) :
       /\ hashId' = [hashId EXCEPT ![p] = IdsOf(SubSeq(ids, 1, k))]
       /\ knew' = [knew EXCEPT ![p] = @ /\ k = Len(ids)]
       /\ slipped' = (slipped \/ k < Len(ids))
  /\ Goto(p, "loadObjects")
  /\ UNCHANGED <<disk, reopen, n, scon, contexts, hash, last>>

(* Mutation: selinux_context is not read. *)
LoadObjects_None(p) ==
  /\ pc[p] = "loadObjects"
  /\ Goto(p, "scon")
  /\ UNCHANGED <<disk, reopen, n, scon, contexts, hashId, hash, last, knew, slipped>>

LoadObjects(p) ==
  /\ pc[p] = "loadObjects"
  /\ \E k \in {Len(ObjectLabels)} \cup (IF ReadMayFail THEN 0..Len(ObjectLabels) ELSE {}) :
       /\ hash' = [hash EXCEPT ![p] = [o \in Object |-> IF o <= k THEN objects[o] ELSE 0]]
       /\ slipped' = (slipped \/ k < Len(ObjectLabels))
  /\ Goto(p, "scon")
  /\ UNCHANGED <<disk, reopen, n, scon, contexts, hashId, last, knew>>

(* read_sesqlite_context: the file may be missing, and contexts is then NULL. *)
ReadFile(p) ==
  /\ pc[p] = "readFile"
  /\ \E found \in BOOLEAN :
       /\ contexts' = [contexts EXCEPT ![p] = found]
       /\ Goto(p, IF found THEN "mapping" ELSE "failed")
  /\ n' = [n EXCEPT ![p] = 1]
  /\ UNCHANGED <<disk, reopen, scon, hashId, hash, last, knew, slipped>>

-------------------------------------------------------------------------------
(* stmt_insert for label l, followed by sqlite3_last_insert_rowid.  The      *)
(* insertion fails when another process has registered the label.            *)
Inserted(p, l) ==
  /\ l \notin Rows(ids) /\ Len(ids) < MaxId
  /\ ids' = Append(ids, l)
  /\ last' = [last EXCEPT ![p] = Len(ids) + 1]

NotInserted(l) ==
  /\ l \in Rows(ids) \/ WriteMayFail
  /\ UNCHANGED <<ids, last>>

(* The same where nobody looks at the return code: the id is then that of     *)
(* the connection's last insertion, whatever that was.                       *)
Ignored(p, l) ==
  \/ Inserted(p, l) /\ UNCHANGED slipped
  \/ NotInserted(l) /\ slipped' = (slipped \/ l \notin Rows(ids))

(* initialize_mapping registers the tuple labels and asserts every insertion. *)
Mapping(p) ==
  /\ pc[p] = "mapping" /\ n[p] <= Len(TupleLabels)
  /\ LET l == TupleLabels[n[p]] IN
     \/ /\ hashId[p][l] # 0
        /\ n' = [n EXCEPT ![p] = n[p] + 1]
        /\ UNCHANGED <<ids, last, hashId, pc>>
     \/ /\ hashId[p][l] = 0 /\ Inserted(p, l)
        /\ hashId' = [hashId EXCEPT ![p][l] = last'[p]]
        /\ n' = [n EXCEPT ![p] = n[p] + 1]
        /\ UNCHANGED pc
     \/ /\ hashId[p][l] = 0 /\ NotInserted(l)
        /\ Goto(p, "aborted")               \* assert( rc==SQLITE_DONE )
        /\ UNCHANGED <<n, hashId>>
  /\ UNCHANGED <<hasContext, hasId, reserved, stamped, objects,
                 reopen, scon, contexts, hash, knew, slipped>>

(* Mutation: scon is registered before the objects are. *)
Update_SubjectFirst(p) ==
  /\ pc[p] = "mapping" /\ n[p] > Len(TupleLabels)
  /\ stamped' = TRUE /\ Goto(p, "objectLabel")
  /\ Inserted(p, scon[p])
  /\ hashId' = [hashId EXCEPT ![p][scon[p]] = last'[p]]
  /\ n' = [n EXCEPT ![p] = 1]
  /\ UNCHANGED <<hasContext, hasId, reserved, objects,
                 reopen, scon, contexts, hash, knew, slipped>>

(* UPDATE selinux_id SET security_context: its failure is returned. *)
Update(p) ==
  /\ pc[p] = "mapping" /\ n[p] > Len(TupleLabels)
  /\ \/ stamped' = TRUE /\ Goto(p, "objectLabel")
     \/ WriteMayFail /\ Goto(p, "failed") /\ UNCHANGED stamped
  /\ n' = [n EXCEPT ![p] = 1]
  /\ UNCHANGED <<hasContext, hasId, reserved, ids, objects,
                 reopen, scon, contexts, hashId, hash, last, knew, slipped>>

(* load_sesqlite_contexts, for each object of the schema: insert_context and *)
(* insert_key, then the row of selinux_context, whose rowid is the           *)
(* connection's last one then.                                               *)
ObjectLabel(p) ==
  /\ pc[p] = "objectLabel" /\ n[p] \in Object
  /\ LET l == ObjectLabels[n[p]] IN
     \/ /\ hashId[p][l] # 0
        /\ UNCHANGED <<ids, last, hashId, slipped>>
     \/ /\ hashId[p][l] = 0 /\ Ignored(p, l)
        /\ hashId' = [hashId EXCEPT ![p][l] = last'[p]]
  /\ hash' = [hash EXCEPT ![p][n[p]] = hashId'[p][ObjectLabels[n[p]]]]
  /\ Goto(p, "objectRow")
  /\ UNCHANGED <<hasContext, hasId, reserved, stamped, objects,
                 reopen, n, scon, contexts, knew>>

ObjectRow(p) ==
  /\ pc[p] = "objectRow"
  /\ \/ /\ objects' = [objects EXCEPT ![n[p]] = hash[p][n[p]]]   \* INSERT OR REPLACE
        /\ \E rowid \in 1..MaxId : last' = [last EXCEPT ![p] = rowid]
        /\ n' = [n EXCEPT ![p] = n[p] + 1] /\ Goto(p, "objectLabel")
     \/ /\ WriteMayFail /\ Goto(p, "aborted")      \* assert( rc==SQLITE_DONE )
        /\ UNCHANGED <<objects, n, last>>
  /\ UNCHANGED <<hasContext, hasId, reserved, ids, stamped,
                 reopen, scon, contexts, hashId, hash, knew, slipped>>

ObjectsDone(p) ==
  /\ pc[p] = "objectLabel" /\ n[p] \notin Object
  /\ Goto(p, "scon")
  /\ UNCHANGED <<disk, reopen, n, scon, contexts, hashId, hash, last, knew, slipped>>

-------------------------------------------------------------------------------
(* The pragmas and the authorizer are installed, then insert_id registers    *)
(* scon.  On a miss lookup_security_context needs contexts and the id of     *)
(* IdLabel; the insertion's return code is ignored, an id of 0 is asserted   *)
(* against.                                                                  *)
RegisterSubject(p) ==
  /\ pc[p] = "scon"
  /\ LET l == scon[p] IN
     \/ /\ hashId[p][l] # 0
        /\ Goto(p, "open") /\ UNCHANGED <<ids, last, hashId, slipped>>
     \/ /\ hashId[p][l] = 0 /\ (~contexts[p] \/ hashId[p][IdLabel] = 0)
        /\ Goto(p, "aborted") /\ UNCHANGED <<ids, last, hashId, slipped>>
     \/ /\ hashId[p][l] = 0 /\ contexts[p] /\ hashId[p][IdLabel] # 0
        /\ Ignored(p, l)
        /\ hashId' = [hashId EXCEPT ![p][l] = last'[p]]
        /\ Goto(p, IF last'[p] = 0 THEN "aborted" ELSE "open")
  /\ UNCHANGED <<hasContext, hasId, reserved, stamped, objects,
                 reopen, n, scon, contexts, hash, knew>>

-------------------------------------------------------------------------------
(* The process ends, at any time. *)
Crash(p) ==
  /\ pc[p] # "down"
  /\ Goto(p, "down")
  /\ contexts' = [contexts EXCEPT ![p] = FALSE]
  /\ hashId' = [hashId EXCEPT ![p] = NoHashId] /\ hash' = [hash EXCEPT ![p] = NoHash]
  /\ last' = [last EXCEPT ![p] = 0] /\ reopen' = [reopen EXCEPT ![p] = FALSE]
  /\ n' = [n EXCEPT ![p] = 1] /\ knew' = [knew EXCEPT ![p] = FALSE]
  /\ UNCHANGED <<disk, scon, slipped>>

(* An application creates a table whose name starts with selinux. *)
CreateReserved(p) ==
  /\ pc[p] = "open" /\ ~reserved
  /\ reserved' = TRUE
  /\ UNCHANGED <<hasContext, hasId, ids, stamped, objects, procs>>

(* The next statement of sqlite3SelinuxInit. *)
Step(p) ==
  \/ IsReopen(p) \/ CreateContext(p) \/ CreateId(p) \/ PrepareStmt(p) \/ StatementFails(p)
  \/ LoadIds(p) \/ LoadObjects(p) \/ ReadFile(p)
  \/ Mapping(p) \/ Update(p)
  \/ ObjectLabel(p) \/ ObjectRow(p) \/ ObjectsDone(p) \/ RegisterSubject(p)

Next == \E p \in Proc : Step(p) \/ Open(p) \/ Crash(p) \/ CreateReserved(p)

(* sqlite3SelinuxInit runs on: nothing in it waits for another process. *)
Spec == Init /\ [][Next]_vars /\ \A p \in Proc : WF_vars(Step(p))

-------------------------------------------------------------------------------
(* Properties *)

(* The variables of the file and of every process have their types: ids stay *)
(* below the bound and "no entry" is 0 in every map.                         *)
TypeOK ==
  /\ {hasContext, hasId, reserved, stamped} \subseteq BOOLEAN
  /\ ids \in Seq(Label) /\ Len(ids) <= MaxId
  /\ objects \in [Object -> 0..MaxId]
  /\ pc \in [Proc -> {"down", "isReopen", "createContext", "createId", "prepare", "loadIds",
                      "loadObjects", "readFile", "mapping", "objectLabel",
                      "objectRow", "scon", "open", "failed", "aborted"}]
  /\ reopen \in [Proc -> BOOLEAN] /\ contexts \in [Proc -> BOOLEAN]
  /\ knew \in [Proc -> BOOLEAN] /\ scon \in [Proc -> Subject]
  /\ n \in [Proc -> 1..(Len(TupleLabels) + Len(ObjectLabels) + 1)]
  /\ hashId \in [Proc -> [Label -> 0..MaxId]] /\ hash \in [Proc -> [Object -> 0..MaxId]]
  /\ last \in [Proc -> 0..MaxId]

(* Everything the first open has to leave in the database is there. *)
Complete ==
  /\ hasContext /\ hasId /\ stamped
  /\ Rows(TupleLabels) \subseteq Rows(ids)
  /\ \A o \in Object : objects[o] \in DOMAIN ids /\ ids[objects[o]] = ObjectLabels[o]

(* "Initialize SeSqlite and register objects": whatever crashed or failed    *)
(* before, sqlite3SelinuxInit never succeeds on a half-initialised database. *)
(* Nothing records that the initialisation ended; it is the subject's own    *)
(* row, written last, that later opens need to find.  Three things spoil it: *)
(* a failed insertion whose return code is ignored, a failed read that is    *)
(* taken for the end of the table, and a second try of the process in which  *)
(* a first open failed, which still has contexts, before any came to its end.*)
OpenComplete == (\E p \in Proc : pc[p] = "open") /\ ~slipped => Complete

(* A process that opened the database has it in memory as it is on disk:     *)
(* the label ids of all objects, the ids of its own label and of every label *)
(* the first open registered, and no id that the table gives another label.  *)
(* Only labels other processes registered since then may be missing.  Again  *)
(* as long as no failure went unnoticed.                                     *)
OpenMirrors ==
  \A p \in Proc : pc[p] = "open" /\ ~slipped =>
    /\ \A l \in Rows(TupleLabels) \cup Rows(ObjectLabels) \cup {scon[p]} : hashId[p][l] # 0
    /\ \A l \in Label : hashId[p][l] # 0 => hashId[p][l] \in DOMAIN ids /\ ids[hashId[p][l]] = l
    /\ hash[p] = objects

(* An open that finds both tables and its own label fails only by an error  *)
(* one of its own statements returns (a lock held, an I/O error), and never  *)
(* aborts: it needs no contexts file, inserts nothing, and whatever other    *)
(* processes do meanwhile cannot take the label away from it.                *)
KnownSubjectSafe == \A p \in Proc : knew[p] => pc[p] \notin {"failed", "aborted"}

(* ... and it succeeds, unless the process ends or such an error comes first. *)
KnownSubjectOpens == \A p \in Proc : knew[p] ~> (pc[p] \in {"open", "down"} \/ ~knew[p])

===============================================================================
