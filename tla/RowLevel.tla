------------------------------- MODULE RowLevel -------------------------------
(***************************************************************************)
(* Rows and their labels.  Every row of a user's table has a hidden column *)
(* security_context with the id of its label: INSERT stores the id of the  *)
(* table's db_tuple label, UPDATE ... SET security_context = getcon_id(l)  *)
(* stores another, and every SELECT, UPDATE and DELETE gets the conjunct   *)
(* selinux_check_access(security_context, 'db_tuple', ...).                *)
(*                                                                         *)
(* Rows and schema follow the transactions, hash_id does not, so a row can *)
(* be given an id that selinux_id does not have (the label was rolled back *)
(* and hash_id still finds it); and the check is answered by the access    *)
(* vector cache, which may remember what an id meant before a rollback.    *)
(* One user table is modelled.                                             *)
(***************************************************************************)
EXTENDS AccessVectorCache

CONSTANTS
  Row,          \* the rowids of the table
  TupleLabel    \* the db_tuple label the contexts file has for the table

(* The class db_tuple (3) with the permissions select, update and delete. *)
TupleSelect == <<3, 6>>
TupleUpdate == <<3, 7>>
TupleDelete == <<3, 9>>
TuplePerms  == {TupleSelect, TupleUpdate, TupleDelete}

ASSUME TupleAssumption == TupleLabel \in Rows(InitialLabels)
ASSUME PermAssumption == TuplePerms \subseteq ClassPerm

VARIABLES
  data,       \* the user's table as the connection sees it
  savedData   \* data when each open transaction or savepoint began

rowVars == <<cacheVars, data, savedData>>

(* A stored row: its security_context, and as history what label the        *)
(* statement that wrote it meant and whether that id was in selinux_id then.*)
Stored == [id : Ids, meant : Label, registered : BOOLEAN]
NoRow  == [id |-> NoId, meant |-> NoLabel, registered |-> FALSE]

Present == {r \in Row : data.rows[r] # NoRow}

RowInit ==
  /\ CacheInit
  /\ data = [rows |-> [r \in Row |-> NoRow], last |-> TRUE]
  /\ savedData = << >>

-------------------------------------------------------------------------------
(* selinux_check_access for a row's id: the cached answer if there is one,   *)
(* else SELinux's for the label hash_id has under the id now; an id it does  *)
(* not know gives a NULL label, which SELinux refuses.                       *)
Permits(i, cp) ==
  LET cached == avc[AvcKey(i, cp)] IN
  "allow" = IF cached # "none" THEN cached ELSE Decide(key2val[i], cp)

(* sqlite3SelectNew, sqlite3Update and sqlite3DeleteFrom AND the check to    *)
(* the WHERE clause.  Evaluating it on a row asks SELinux and remembers the  *)
(* answer unless it is known; id 0 fails an assertion (Crash).               *)
RowCheck(r, cp) ==
  /\ r \in Present /\ data.rows[r].id # 0
  /\ CheckAccess(data.rows[r].id, cp)
  /\ UNCHANGED <<data, savedData>>

(* The rest of the statement sees a row the check, whose answer is now in    *)
(* the cache, let through.                                                   *)
Passed(r, cp) == r \in Present /\ avc[AvcKey(data.rows[r].id, cp)] = "allow"

(* The rows a SELECT returns. *)
Selected == {r \in Present : Permits(data.rows[r].id, TupleSelect)}

(* getcon_label reads selinux_id itself; an id without a row is an error. *)
GetconLabel(i) == IF i \in DOMAIN table THEN table[i] ELSE NoLabel

(* What an UPDATE or INSERT leaves in the row. *)
Write(r, i, l, known) ==
  /\ data' = [data EXCEPT !.rows[r] = [id |-> i, meant |-> l, registered |-> known]]
  /\ UNCHANGED savedData

(* lookup_security_context asserts that hash_id has the tuple label. *)
LookupSecurityContext == val2key[TupleLabel]

(* sqlite3Insert appends the id to the list of columns and to the list of    *)
(* values.  Without a list of columns the values are assigned by position:   *)
(* the id goes to the last column, which is security_context until a column  *)
(* is added, and after that a value of the statement lands there instead.    *)
(* With contexts NULL the process dies (Crash).                              *)
Insert(r) ==
  /\ contexts /\ r \notin Present
  /\ \/ Write(r, LookupSecurityContext, TupleLabel, TRUE)
     \/ ~data.last /\ \E v \in Ids : Write(r, v, TupleLabel, FALSE)
  /\ UserWrite

(* UPDATE ... SET security_context = getcon_id(l).  selinuxGetconIdFunction   *)
(* calls insert_id, which runs inside the UPDATE's own transaction.          *)
RelabelKnown(r, l) ==
  /\ Passed(r, TupleUpdate)
  /\ val2key[l] # NoId
  /\ Write(r, val2key[l], l, l \in Rows(table))
  /\ UserWrite

(* Mutation: the id is that of the last row before the insertion. *)
RelabelNew_EarlyId(r, l) ==
  /\ Passed(r, TupleUpdate)
  /\ Write(r, Len(table), l, TRUE)
  /\ CacheRegister(l)

RelabelNew(r, l) ==
  /\ Passed(r, TupleUpdate)
  /\ Write(r, Len(table) + 1, l, TRUE)
  /\ CacheRegister(l)

Delete(r) ==
  /\ Passed(r, TupleDelete)
  /\ data' = [data EXCEPT !.rows[r] = NoRow]
  /\ UserWrite /\ UNCHANGED savedData

(* ALTER TABLE ... ADD puts the new column behind security_context. *)
AlterAdd ==
  /\ data.last
  /\ data' = [data EXCEPT !.last = FALSE]
  /\ UserWrite /\ UNCHANGED savedData

(* getContext, CREATE TABLE, chcon and getcon_id in a SELECT register labels *)
(* without writing a row.                                                    *)
RowRegister(l) == CacheRegister(l) /\ UNCHANGED <<data, savedData>>

(* A statement that writes to another table, or whose rows are all refused,  *)
(* and PRAGMA clearavc.                                                      *)
OtherWrite  == UserWrite /\ UNCHANGED <<data, savedData>>
RowClearAvc == ClearAvc /\ UNCHANGED <<data, savedData>>

-------------------------------------------------------------------------------
(* The transactions take the rows with the labels. *)

RowOpen == (CacheOpenNew \/ CacheReopen) /\ UNCHANGED <<data, savedData>>

RowSavepoint ==
  CacheSavepoint /\ savedData' = Append(savedData, data) /\ UNCHANGED data

(* Mutation: the released savepoint stays on the stack. *)
RowRelease_Kept(k) ==
  /\ CacheRelease(k) /\ savedData' = SubSeq(savedData, 1, k)
  /\ UNCHANGED data

RowRelease(k) ==
  /\ CacheRelease(k) /\ savedData' = SubSeq(savedData, 1, k - 1)
  /\ UNCHANGED data

(* Mutation: ROLLBACK TO takes back the labels and keeps the rows. *)
RowRollbackTo_KeepsRows(k) ==
  /\ CacheRollbackTo(k)
  /\ savedData' = SubSeq(savedData, 1, k)
  /\ UNCHANGED data

RowRollbackTo(k) ==
  /\ CacheRollbackTo(k)
  /\ data' = savedData[k] /\ savedData' = SubSeq(savedData, 1, k)

OnDisk == IF savedData = << >> THEN data ELSE savedData[1]

RowRollback == CacheRollback /\ data' = OnDisk /\ savedData' = << >>

RowCrash == CacheCrash /\ data' = OnDisk /\ savedData' = << >>

RowNext ==
  \/ RowOpen \/ RowSavepoint \/ RowRollback \/ RowCrash \/ AlterAdd
  \/ OtherWrite \/ RowClearAvc
  \/ \E l \in Label : RowRegister(l)
  \/ \E r \in Row, cp \in TuplePerms : RowCheck(r, cp)
  \/ \E r \in Row : Insert(r) \/ Delete(r)
  \/ \E r \in Row, l \in Label : RelabelKnown(r, l) \/ RelabelNew(r, l)
  \/ \E k \in 1..MaxDepth : RowRelease(k) \/ RowRollbackTo(k)

RowSpec == RowInit /\ [][RowNext]_rowVars

-------------------------------------------------------------------------------
(* Properties *)

Data == [rows : [Row -> Stored \cup {NoRow}], last : BOOLEAN]

(* Label store and cache have their types, and every savepoint has a copy of *)
(* the data.                                                                 *)
RowTypeOK ==
  /\ CacheTypeOK
  /\ data \in Data
  /\ savedData \in Seq(Data) /\ Len(savedData) = Len(saved)

(* A row whose id was in selinux_id when it was written keeps that meaning   *)
(* for as long as it is stored: rollbacks to any savepoint, reuse of the     *)
(* rowids they free, crashes and reopenings never leave such a row with an   *)
(* id that is gone or that stands for another label.  Both for the table and *)
(* for hash_id, so getcon_label and selinux_check_access tell the same.      *)
RowMeaning ==
  \A r \in Present : data.rows[r].registered =>
    LET i == data.rows[r].id IN
    /\ GetconLabel(i) = data.rows[r].meant
    /\ up => key2val[i] = data.rows[r].meant

(* ... and so does every copy of the row that a rollback or a crash may      *)
(* bring back, in the table as the same rollback leaves it.                  *)
SavedMeaning ==
  \A k \in DOMAIN savedData : \A r \in Row :
    LET s == savedData[k].rows[r] IN
    s.registered => s.id \in 1..saved[k] /\ table[s.id] = s.meant

(* A row whose label is committed is read, changed and deleted exactly when  *)
(* the policy grants it on the label the row was given, whether the cache or *)
(* SELinux answers and whatever was rolled back, reused and cached before:   *)
(* no such row is shown, or hidden, under another's label.  (A row whose id  *)
(* only the transaction in progress has registered may be: ROLLBACK TO runs  *)
(* no hook.)                                                                 *)
FilterExact ==
  up => \A r \in Present : data.rows[r].registered /\ data.rows[r].id <= DiskLen =>
          \A cp \in TuplePerms :
            Permits(data.rows[r].id, cp) <=> <<data.rows[r].meant, cp>> \in Allowed

(* "SET security_context=getcon_id('...no_select_t...')", and then "SELECT"    *)
(* does not return the row: a row has the label it was given (in a table to   *)
(* which no column was added).                                                *)
RowHasItsLabel ==
  up /\ data.last => \A r \in Present : key2val[data.rows[r].id] = data.rows[r].meant

===============================================================================
