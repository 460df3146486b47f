------------------------------ MODULE LabelStore ------------------------------
(***************************************************************************)
(* The mapping between security labels and integer ids: the table          *)
(* selinux_id, which lives in the database and follows its transactions,   *)
(* and the process-wide BiHash hash_id, which mirrors the table in memory  *)
(* and follows no transaction at all.                                      *)
(*                                                                         *)
(* A label is registered by insert_id, insert_context or                   *)
(* lookup_security_label; the three run the same statement and the same    *)
(* BiHash insertion.  A rowid of selinux_id is "largest rowid + 1" and no  *)
(* code deletes a row, so the table is a sequence and a rollback cuts it   *)
(* to a prefix: a savepoint only has to remember a length.                 *)
(***************************************************************************)
EXTENDS Integers, Sequences

CONSTANTS
  Label,          \* the security labels
  NoLabel,        \* key2val has no entry (a NULL answer of BIHASH_FIND)
  InitialLabels,  \* the labels sqlite3SelinuxInit registers on a new database
  MaxId,          \* bound: largest rowid of selinux_id
  MaxDepth,       \* bound: open savepoints, the transaction included
  Faults          \* what may go wrong besides crashes, see FaultAssumption

Distinct(s) == \A i, j \in DOMAIN s : s[i] = s[j] => i = j

ASSUME LabelAssumption == NoLabel \notin Label
ASSUME BoundAssumption == MaxId \in Nat /\ MaxDepth \in Nat
ASSUME InitialAssumption ==
  /\ InitialLabels \in Seq(Label)
  /\ Distinct(InitialLabels)
  /\ Len(InitialLabels) \in 1..MaxId
(* "insert": stmt_insert may fail (lock held, disk full, read only);        *)
(* "read": a read error may end the loading of hash_id early;               *)
(* "process": another process may register labels in the same database.     *)
ASSUME FaultAssumption == Faults \subseteq {"insert", "read", "process"}

NoId == -1            \* val2key has no entry (a NULL answer of BIHASH_FINDKEY)
Ids  == 0..MaxId      \* 0 is sqlite3_last_insert_rowid() before any insert

VARIABLES
  table,     \* selinux_id as the connection sees it: rowid -> security_label
  saved,     \* lengths of table when each open transaction/savepoint began
  key2val,   \* hash_id->key2val : id -> label
  val2key,   \* hash_id->val2key : label -> id
  contexts,  \* the global contexts is not NULL
  up,        \* a process has the database open
  spoiled    \* history: hash_id lost track of the table, and no code noticed,
             \* by one of the Faults since it was last loaded

vars == <<table, saved, key2val, val2key, contexts, up, spoiled>>

-------------------------------------------------------------------------------
(* The mapping as read from a table whose rows are t. *)

Rows(t) == {t[i] : i \in DOMAIN t}

Key2Val(t) == [i \in Ids |-> IF i \in DOMAIN t THEN t[i] ELSE NoLabel]

Val2Key(t) ==
  [l \in Label |-> IF l \in Rows(t) THEN CHOOSE i \in DOMAIN t : t[i] = l ELSE NoId]

(* What is on disk while a transaction is open is what its first savepoint *)
(* remembers.                                                              *)
DiskLen == IF saved = << >> THEN Len(table) ELSE saved[1]
Disk    == SubSeq(table, 1, DiskLen)

Init ==
  /\ table = << >> /\ saved = << >>
  /\ key2val = Key2Val(<< >>) /\ val2key = Val2Key(<< >>)
  /\ contexts = FALSE /\ up = FALSE /\ spoiled = FALSE

-------------------------------------------------------------------------------
(* sqlite3SelinuxInit.  A new database gets the labels of the contexts     *)
(* file; an existing one is read back and the file is not.  Lifecycle.tla  *)
(* takes these steps one by one.                                           *)

OpenNew ==
  /\ ~up /\ table = << >>
  /\ table' = InitialLabels
  /\ key2val' = Key2Val(InitialLabels) /\ val2key' = Val2Key(InitialLabels)
  /\ contexts' = TRUE /\ up' = TRUE /\ spoiled' = FALSE
  /\ UNCHANGED saved

(* Mutation: the maps are taken over from the earlier connection. *)
Reopen_KeepsMaps ==
  /\ table # << >> /\ saved = << >>
  /\ up' = TRUE /\ spoiled' = FALSE
  /\ UNCHANGED <<table, saved, key2val, val2key, contexts>>

(* load_contexts_from_table, in a new process, or in the same process over *)
(* the globals of an earlier connection; only the former has contexts NULL.*)
(* hash_id is a new, empty BiHash and the rows have pairwise different     *)
(* rowids and labels, so each BIHASH_INSERT of the loop adds one entry to  *)
(* either map and the order of the scan is of no matter.  The loop takes a *)
(* read error for the end of the table: the rows not reached are missing.  *)
Reopen ==
  /\ table # << >> /\ saved = << >>
  /\ \E read \in IF "read" \in Faults THEN SUBSET (DOMAIN table) ELSE {DOMAIN table} :
       /\ key2val' = [i \in Ids |-> IF i \in read THEN table[i] ELSE NoLabel]
       /\ val2key' = [l \in Label |->
                        IF Val2Key(table)[l] \in read THEN Val2Key(table)[l] ELSE NoId]
       /\ spoiled' = (read # DOMAIN table)
  /\ up' = TRUE
  /\ UNCHANGED <<table, saved, contexts>>

-------------------------------------------------------------------------------
(* SESQLITE_BIHASH_INSERT(hash_id, k, v).  The old value of k is looked up, *)
(* then freed by the insertion into key2val, then passed to HASH_REMOVE: by *)
(* then its bytes may still spell the old label, spell the new one (the     *)
(* allocator handed out the same block), or spell neither.                  *)

(* Mutation: the entry stays, with NULL in it. *)
Remove_Null(m, l) == [m EXCEPT ![l] = NoLabel]

Remove(m, l) == [m EXCEPT ![l] = NoId]

(* Mutation: an id that has a label keeps it. *)
BihashInsert_KeepsOld(k, v) ==
  /\ key2val' = IF key2val[k] = NoLabel THEN [key2val EXCEPT ![k] = v] ELSE key2val
  /\ val2key' = IF val2key[v] # NoId THEN val2key ELSE [val2key EXCEPT ![v] = k]

BihashInsert(k, v) ==
  LET old == key2val[k] IN
  /\ key2val' = [key2val EXCEPT ![k] = v]
  /\ \E val2keyRest \in IF old = NoLabel THEN {val2key}
                        ELSE {val2key, Remove(val2key, old), Remove(val2key, v)} :
       val2key' = IF val2keyRest[v] # NoId THEN val2keyRest   \* "not injective"
                  ELSE [val2keyRest EXCEPT ![v] = k]

(* The label is not in hash_id, so a row is inserted for it.  The row's own *)
(* security_context comes from contexts->tuple_context: with contexts NULL  *)
(* the process dies here instead (Crash).                                   *)
Miss(l) == up /\ contexts /\ val2key[l] = NoId

(* Mutation: hash_id is not asked and the column is not UNIQUE. *)
Register_Unchecked(l) ==
  /\ up /\ contexts /\ Len(table) < MaxId
  /\ table' = Append(table, l)
  /\ BihashInsert(Len(table) + 1, l)
  /\ UNCHANGED <<saved, contexts, up, spoiled>>

(* Mutation: the rowid is read before the row is inserted. *)
Register_EarlyRowid(l) ==
  /\ Miss(l)
  /\ l \notin Rows(table) /\ Len(table) < MaxId
  /\ table' = Append(table, l)
  /\ BihashInsert(Len(table), l)
  /\ UNCHANGED <<saved, contexts, up, spoiled>>

Register(l) ==
  /\ Miss(l)
  /\ l \notin Rows(table) /\ Len(table) < MaxId
  /\ table' = Append(table, l)
  /\ BihashInsert(Len(table) + 1, l)
  /\ UNCHANGED <<saved, contexts, up, spoiled>>

(* The insertion fails (UNIQUE, or a fault) and its return code is ignored: *)
(* the rowid used is that of whatever row the connection inserted last.     *)
RegisterFails(l) ==
  /\ Miss(l)
  /\ l \in Rows(table) \/ "insert" \in Faults
  /\ \E r \in Ids : BihashInsert(r, l)
  /\ spoiled' = (spoiled \/ l \notin Rows(table))
  /\ UNCHANGED <<table, saved, contexts, up>>

(* Another process registers a label and commits; hash_id is not told. *)
OtherRegisters(l) ==
  /\ "process" \in Faults /\ table # << >> /\ saved = << >>
  /\ l \notin Rows(table) /\ Len(table) < MaxId
  /\ table' = Append(table, l)
  /\ spoiled' = (spoiled \/ up)
  /\ UNCHANGED <<saved, key2val, val2key, contexts, up>>

-------------------------------------------------------------------------------
(* Transactions.  BEGIN is a savepoint nobody rolls back to, COMMIT is the  *)
(* release of the first one; a statement that fails inside a transaction is *)
(* a rollback to the savepoint at its start.                                *)

Savepoint ==
  /\ up /\ Len(saved) < MaxDepth
  /\ saved' = Append(saved, Len(table))
  /\ UNCHANGED <<table, key2val, val2key, contexts, up, spoiled>>

Release(k) ==
  /\ up /\ k \in DOMAIN saved
  /\ saved' = SubSeq(saved, 1, k - 1)
  /\ UNCHANGED <<table, key2val, val2key, contexts, up, spoiled>>

RollbackTo(k) ==
  /\ up /\ k \in DOMAIN saved
  /\ table' = SubSeq(table, 1, saved[k])
  /\ saved' = SubSeq(saved, 1, k)
  /\ UNCHANGED <<key2val, val2key, contexts, up, spoiled>>

(* Mutation: the rollback forgets the labels and keeps what the ids mean. *)
Rollback_HalfRepair ==
  /\ up /\ saved # << >>
  /\ table' = Disk /\ saved' = << >> /\ val2key' = Val2Key(Disk)
  /\ UNCHANGED <<key2val, contexts, up, spoiled>>

Rollback ==
  /\ up /\ saved # << >>
  /\ table' = Disk /\ saved' = << >>
  /\ UNCHANGED <<key2val, val2key, contexts, up, spoiled>>

(* The process ends: by itself, by a crash, or by a miss with contexts NULL.*)
Crash ==
  /\ up
  /\ table' = Disk /\ saved' = << >>
  /\ key2val' = Key2Val(<< >>) /\ val2key' = Val2Key(<< >>)
  /\ contexts' = FALSE /\ up' = FALSE /\ spoiled' = FALSE

Next ==
  \/ OpenNew \/ Reopen \/ Savepoint \/ Rollback \/ Crash
  \/ \E l \in Label : Register(l) \/ RegisterFails(l) \/ OtherRegisters(l)
  \/ \E k \in 1..MaxDepth : Release(k) \/ RollbackTo(k)

Spec == Init /\ [][Next]_vars

-------------------------------------------------------------------------------
(* Properties *)

(* The table and both maps hold labels and ids below the bound, and every   *)
(* savepoint remembers a length.                                            *)
TypeOK ==
  /\ table \in Seq(Label) /\ Len(table) <= MaxId
  /\ saved \in Seq(0..MaxId) /\ Len(saved) <= MaxDepth
  /\ key2val \in [Ids -> Label \cup {NoLabel}]
  /\ val2key \in [Label -> Ids \cup {NoId}]
  /\ contexts \in BOOLEAN /\ up \in BOOLEAN /\ spoiled \in BOOLEAN

(* Memory and table agree on every row the connection can see, whatever was *)
(* rolled back, reused or left behind by the BiHash: BIHASH_FIND and        *)
(* BIHASH_FINDKEY answer the row.  A fault nobody notices ends this, and    *)
(* opening the database again, with every row read, restores it however far *)
(* the two had drifted apart.  A label that FINDKEY misses is therefore not *)
(* in the table: the ignored return code of stmt_insert hides no UNIQUE     *)
(* failure, which alone among the failures does not count as a fault.       *)
LabelsAgree ==
  up /\ ~spoiled =>
    \A i \in DOMAIN table : key2val[i] = table[i] /\ val2key[table[i]] = i

(* Savepoints are nested: an inner one never remembers fewer rows. *)
Nested ==
  /\ \A k \in DOMAIN saved : saved[k] <= Len(table)
  /\ \A j, k \in DOMAIN saved : j <= k => saved[j] <= saved[k]
  /\ ~up => saved = << >>

(* The entries a rollback leaves behind in key2val are harmless because no  *)
(* label sits under two ids and every label key2val knows, FINDKEY finds:   *)
(* a label that is registered is in neither map, and the label whose entry  *)
(* BIHASH_INSERT drops is never the label of a visible row.                 *)
Key2ValInjective ==
  \A i, j \in Ids : key2val[i] \in Label /\ key2val[i] = key2val[j] => i = j
Key2ValFound ==
  \A i \in Ids : key2val[i] \in Label => val2key[key2val[i]] # NoId

(* The inductive invariant behind LabelsAgree: hash_id mirrors selinux_id   *)
(* through every rollback and every reuse of a rowid, and the labels of the *)
(* table stay apart whatever goes wrong.                                    *)
MirrorInv ==
  /\ Nested /\ Distinct(table) /\ LabelsAgree
  /\ ~spoiled => Key2ValInjective /\ Key2ValFound

(* Once a label's row is on disk its id denotes it for ever, in the table   *)
(* and, while the database is open and no fault went unnoticed, in memory:  *)
(* no rollback, reuse of a rowid, crash or reopening changes what a stored  *)
(* security_context means.                                                  *)
DurableMeaning ==
  [][\A i \in 1..DiskLen :
       /\ i <= DiskLen' /\ Disk'[i] = Disk[i]
       /\ up /\ up' /\ ~spoiled /\ ~spoiled' => key2val'[i] = key2val[i]]_vars

(* The disk behaves as the append-only registry of labels. *)
Registry == INSTANCE LabelRegistry WITH registry <- Disk
Implements == Registry!Spec

===============================================================================
