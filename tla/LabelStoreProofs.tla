--------------------------- MODULE LabelStoreProofs ---------------------------
(***************************************************************************)
(* Proofs, for any set of labels and any bounds, of the properties that    *)
(* MCLabelStore checks on a small instance.                                *)
(***************************************************************************)
EXTENDS LabelStore, SequenceTheorems, TLAPS

USE DEF Ids, NoId

(* A rollback cuts a table to a prefix of itself. *)
LEMMA PrefixOfTable ==
  ASSUME NEW S, NEW s \in Seq(S), NEW n \in 0..Len(s)
  PROVE  /\ SubSeq(s, 1, n) \in Seq(S)
         /\ Len(SubSeq(s, 1, n)) = n
         /\ \A i \in 1..n : SubSeq(s, 1, n)[i] = s[i]
  OBVIOUS

(* Domains of a sequence, its prefixes and its extension by one row. *)
LEMMA AppendRow ==
  ASSUME NEW S, NEW s \in Seq(S), NEW x \in S
  PROVE  /\ Append(s, x) \in Seq(S)
         /\ Len(Append(s, x)) = Len(s) + 1
         /\ \A i \in 1..Len(s) : Append(s, x)[i] = s[i]
         /\ Append(s, x)[Len(s) + 1] = x
  OBVIOUS

(* Reading a table into fresh maps, as load_contexts_from_table does, gives *)
(* maps that agree with every row and mention no other label.               *)
LEMMA LoadedMaps ==
  ASSUME NEW t \in Seq(Label), Len(t) <= MaxId, Distinct(t)
  PROVE  /\ Key2Val(t) \in [Ids -> Label \cup {NoLabel}]
         /\ Val2Key(t) \in [Label -> Ids \cup {NoId}]
         /\ \A i \in DOMAIN t : Key2Val(t)[i] = t[i] /\ Val2Key(t)[t[i]] = i
         /\ \A i \in Ids : Key2Val(t)[i] \in Label => i \in DOMAIN t
<1>1. DOMAIN t = 1..Len(t) /\ Len(t) \in Nat /\ DOMAIN t \subseteq Ids
  BY BoundAssumption
<1>2. \A i \in DOMAIN t : t[i] \in Label
  OBVIOUS
<1>3. \A l \in Rows(t) : (CHOOSE i \in DOMAIN t : t[i] = l) \in DOMAIN t
  BY DEF Rows
<1>4. \A i \in DOMAIN t : (CHOOSE j \in DOMAIN t : t[j] = t[i]) = i
  <2> SUFFICES ASSUME NEW i \in DOMAIN t
               PROVE  (CHOOSE j \in DOMAIN t : t[j] = t[i]) = i
    OBVIOUS
  <2> DEFINE c == CHOOSE j \in DOMAIN t : t[j] = t[i]
  <2>1. c \in DOMAIN t /\ t[c] = t[i]
    OBVIOUS
  <2> HIDE DEF c
  <2>2. c = i
    BY <2>1 DEF Distinct
  <2> QED BY <2>2 DEF c
<1>5. Key2Val(t) \in [Ids -> Label \cup {NoLabel}]
  BY <1>1, <1>2 DEF Key2Val
<1>6. Val2Key(t) \in [Label -> Ids \cup {NoId}]
  BY <1>1, <1>3 DEF Val2Key
<1>7. ASSUME NEW i \in DOMAIN t
      PROVE  Key2Val(t)[i] = t[i] /\ Val2Key(t)[t[i]] = i
  <2>1. Key2Val(t)[i] = t[i]
    BY <1>1 DEF Key2Val
  <2>2. t[i] \in Rows(t) /\ t[i] \in Label
    BY <1>2 DEF Rows
  <2>3. Val2Key(t)[t[i]] = CHOOSE j \in DOMAIN t : t[j] = t[i]
    BY <2>2 DEF Val2Key
  <2> QED BY <2>1, <2>3, <1>4
<1>8. \A i \in Ids : Key2Val(t)[i] \in Label => i \in DOMAIN t
  BY LabelAssumption DEF Key2Val
<1> QED BY <1>5, <1>6, <1>7, <1>8

(* The empty maps of a process that has not opened the database. *)
LEMMA EmptyMaps ==
  /\ Key2Val(<< >>) \in [Ids -> Label \cup {NoLabel}]
  /\ Val2Key(<< >>) \in [Label -> Ids \cup {NoId}]
  /\ \A i \in Ids : Key2Val(<< >>)[i] \notin Label
<1> DEFINE t == << >>
<1>1. t \in Seq(Label) /\ Len(t) <= MaxId /\ Distinct(t)
  BY BoundAssumption DEF Distinct
<1>2. DOMAIN t = {}
  OBVIOUS
<1> HIDE DEF t
<1>3. /\ Key2Val(t) \in [Ids -> Label \cup {NoLabel}]
      /\ Val2Key(t) \in [Label -> Ids \cup {NoId}]
      /\ \A i \in Ids : Key2Val(t)[i] \in Label => i \in DOMAIN t
  BY <1>1, LoadedMaps
<1>4. \A i \in Ids : Key2Val(t)[i] \notin Label
  BY <1>2, <1>3
<1> QED BY <1>3, <1>4 DEF t

-------------------------------------------------------------------------------
(* Type correctness needs the nesting of savepoints: a rollback to a         *)
(* savepoint that remembered more rows than the table has would be no table. *)

TypeInv == TypeOK /\ Nested

LEMMA TypeInvInit == Init => TypeInv
<1> SUFFICES ASSUME Init PROVE TypeInv
  OBVIOUS
<1>1. /\ key2val \in [Ids -> Label \cup {NoLabel}]
      /\ val2key \in [Label -> Ids \cup {NoId}]
  BY EmptyMaps DEF Init
<1>2. table = << >> /\ saved = << >> /\ contexts = FALSE /\ up = FALSE /\ spoiled = FALSE
  BY DEF Init
<1>3. table \in Seq(Label) /\ Len(table) <= MaxId /\ saved \in Seq(0..MaxId)
      /\ Len(saved) <= MaxDepth
  BY <1>2, BoundAssumption
<1>4. TypeOK
  BY <1>1, <1>2, <1>3 DEF TypeOK
<1>5. Nested
  BY <1>2 DEF Nested
<1> QED BY <1>4, <1>5 DEF TypeInv

(* Every open savepoint remembers a length. *)
LEMMA SavedLengths ==
  ASSUME TypeOK
  PROVE  /\ Len(saved) \in Nat /\ DOMAIN saved = 1..Len(saved)
         /\ \A k \in DOMAIN saved : saved[k] \in 0..MaxId
<1> DEFINE S == 0..MaxId
<1>1. saved \in Seq(S)
  BY DEF TypeOK
<1> HIDE DEF S
<1>2. /\ Len(saved) \in Nat /\ DOMAIN saved = 1..Len(saved)
      /\ \A k \in DOMAIN saved : saved[k] \in S
  BY <1>1
<1> QED BY <1>2 DEF S

(* What is on disk is a prefix of the table. *)
LEMMA DiskPrefix ==
  ASSUME TypeInv
  PROVE  /\ DiskLen \in 0..Len(table)
         /\ Disk \in Seq(Label) /\ Len(Disk) = DiskLen
         /\ \A i \in 1..DiskLen : Disk[i] = table[i]
<1>1. DiskLen \in 0..Len(table)
  <2>1. CASE saved = << >>
    BY <2>1 DEF DiskLen, TypeInv, TypeOK
  <2>2. CASE saved # << >>
    <3>1. 1 \in DOMAIN saved /\ saved[1] \in 0..MaxId
      <4>1. saved \in Seq(0..MaxId)
        BY DEF TypeInv, TypeOK
      <4>2. Len(saved) # 0
        BY <2>2, <4>1, EmptySeq
      <4> QED BY <4>2, SavedLengths DEF TypeInv
    <3> QED BY <2>2, <3>1 DEF DiskLen, TypeInv, TypeOK, Nested
  <2> QED BY <2>1, <2>2
<1>2. table \in Seq(Label)
  BY DEF TypeInv, TypeOK
<1> QED BY <1>1, <1>2, PrefixOfTable DEF Disk

(* SESQLITE_BIHASH_INSERT keeps both maps well typed. *)
LEMMA BihashInsertType ==
  ASSUME TypeOK, NEW k \in Ids, NEW v \in Label, BihashInsert(k, v)
  PROVE  /\ key2val' \in [Ids -> Label \cup {NoLabel}]
         /\ val2key' \in [Label -> Ids \cup {NoId}]
<1>1. key2val' \in [Ids -> Label \cup {NoLabel}]
  BY DEF BihashInsert, TypeOK
<1>2. key2val[k] \in Label \cup {NoLabel}
  BY DEF TypeOK
<1>3. PICK m \in IF key2val[k] = NoLabel THEN {val2key}
                 ELSE {val2key, Remove(val2key, key2val[k]), Remove(val2key, v)} :
        val2key' = IF m[v] # NoId THEN m ELSE [m EXCEPT ![v] = k]
  BY DEF BihashInsert
<1>4. m \in [Label -> Ids \cup {NoId}]
  BY <1>2, <1>3 DEF Remove, TypeOK
<1> QED BY <1>1, <1>3, <1>4

(* load_contexts_from_table inserts the rows it reads: all, or, if it takes  *)
(* a read error for the end, some.                                           *)
LoadOf(read) ==
  /\ key2val' = [i \in Ids |-> IF i \in read THEN table[i] ELSE NoLabel]
  /\ val2key' = [l \in Label |->
                   IF Val2Key(table)[l] \in read THEN Val2Key(table)[l] ELSE NoId]
  /\ spoiled' = (read # DOMAIN table)

LEMMA ReopenLoads == Reopen => \E read \in SUBSET (DOMAIN table) : LoadOf(read)
<1> SUFFICES ASSUME Reopen PROVE \E read \in SUBSET (DOMAIN table) : LoadOf(read)
  OBVIOUS
<1>1. PICK read \in IF "read" \in Faults THEN SUBSET (DOMAIN table) ELSE {DOMAIN table} :
        LoadOf(read)
  BY DEF Reopen, LoadOf
<1>2. read \in SUBSET (DOMAIN table)
  BY <1>1
<1> QED BY <1>1, <1>2

LEMMA TypeInvNext == TypeInv /\ [Next]_vars => TypeInv'
<1> SUFFICES ASSUME TypeInv, [Next]_vars PROVE TypeInv'
  OBVIOUS
<1> USE DEF TypeInv
<1>1. CASE OpenNew
  <2>1. /\ key2val' \in [Ids -> Label \cup {NoLabel}]
        /\ val2key' \in [Label -> Ids \cup {NoId}]
    BY <1>1, LoadedMaps, InitialAssumption DEF OpenNew
  <2>2. TypeOK'
    <3>1. table' = InitialLabels /\ saved' = saved /\ contexts' = TRUE /\ up' = TRUE
          /\ spoiled' = FALSE
      BY <1>1 DEF OpenNew
    <3>2. table' \in Seq(Label) /\ Len(table') <= MaxId
      BY <3>1, InitialAssumption
    <3>3. saved' \in Seq(0..MaxId) /\ Len(saved') <= MaxDepth
      BY <3>1 DEF TypeOK
    <3> QED BY <2>1, <3>1, <3>2, <3>3 DEF TypeOK
  <2>3. saved' = << >>
    BY <1>1 DEF OpenNew, Nested
  <2> QED BY <2>2, <2>3 DEF Nested
<1>2. CASE Reopen
  <2>1. table' = table /\ saved' = saved /\ saved = << >> /\ up' = TRUE /\ contexts' = contexts
    BY <1>2 DEF Reopen
  <2>2. PICK read \in SUBSET (DOMAIN table) : LoadOf(read)
    BY <1>2, ReopenLoads
  <2>3. /\ key2val' \in [Ids -> Label \cup {NoLabel}]
        /\ val2key' \in [Label -> Ids \cup {NoId}]
        /\ spoiled' \in BOOLEAN
    <3>1. DOMAIN table \subseteq Ids /\ \A i \in DOMAIN table : table[i] \in Label
      BY BoundAssumption DEF TypeOK
    <3>2. key2val' \in [Ids -> Label \cup {NoLabel}]
      BY <2>2, <3>1 DEF LoadOf
    <3>3. val2key' \in [Label -> Ids \cup {NoId}]
      BY <2>2, <3>1 DEF LoadOf
    <3> QED BY <2>2, <3>2, <3>3 DEF LoadOf
  <2>4. TypeOK'
    BY <2>1, <2>3 DEF TypeOK
  <2> QED BY <2>1, <2>4 DEF Nested
<1>3. CASE Savepoint
  <2>1. Len(table) \in 0..MaxId /\ saved \in Seq(0..MaxId)
    BY BoundAssumption DEF TypeOK
  <2>2. /\ saved' \in Seq(0..MaxId) /\ Len(saved') = Len(saved) + 1
        /\ \A i \in 1..Len(saved) : saved'[i] = saved[i]
        /\ saved'[Len(saved) + 1] = Len(table)
    BY <1>3, <2>1, AppendRow DEF Savepoint
  <2>3. TypeOK'
    BY <1>3, <2>2, BoundAssumption DEF Savepoint, TypeOK
  <2>4. \A k \in DOMAIN saved' : saved'[k] <= Len(table)
    BY <2>1, <2>2 DEF Nested
  <2>5. \A j, k \in DOMAIN saved' : j <= k => saved'[j] <= saved'[k]
    BY <2>1, <2>2, <2>4 DEF Nested
  <2> QED BY <1>3, <2>3, <2>4, <2>5 DEF Savepoint, Nested
<1>4. CASE Rollback
  <2>1. table' \in Seq(Label) /\ Len(table') <= MaxId
    BY <1>4, DiskPrefix, BoundAssumption DEF Rollback, TypeOK
  <2>2. saved' = << >> /\ saved' \in Seq(0..MaxId) /\ Len(saved') <= MaxDepth
    BY <1>4, BoundAssumption DEF Rollback
  <2>3. TypeOK'
    BY <1>4, <2>1, <2>2 DEF Rollback, TypeOK
  <2> QED BY <2>2, <2>3 DEF Nested
<1>5. CASE Crash
  <2>1. table' \in Seq(Label) /\ Len(table') <= MaxId
    BY <1>5, DiskPrefix, BoundAssumption DEF Crash, TypeOK
  <2>2. saved' = << >> /\ saved' \in Seq(0..MaxId) /\ Len(saved') <= MaxDepth
    BY <1>5, BoundAssumption DEF Crash
  <2>3. /\ key2val' \in [Ids -> Label \cup {NoLabel}]
        /\ val2key' \in [Label -> Ids \cup {NoId}]
    BY <1>5, EmptyMaps DEF Crash
  <2>4. contexts' = FALSE /\ up' = FALSE /\ spoiled' = FALSE
    BY <1>5 DEF Crash
  <2>5. TypeOK'
    BY <2>1, <2>2, <2>3, <2>4 DEF TypeOK
  <2> QED BY <2>2, <2>5 DEF Nested
<1>6. ASSUME NEW l \in Label, Register(l) PROVE TypeInv'
  <2>1. Len(table) + 1 \in Ids
    BY <1>6, BoundAssumption DEF Register, TypeOK
  <2>2. /\ key2val' \in [Ids -> Label \cup {NoLabel}]
        /\ val2key' \in [Label -> Ids \cup {NoId}]
    BY <1>6, <2>1, BihashInsertType DEF Register
  <2>3. table' \in Seq(Label) /\ Len(table') = Len(table) + 1
    BY <1>6, AppendRow DEF Register, TypeOK
  <2>4. TypeOK'
    BY <1>6, <2>1, <2>2, <2>3 DEF Register, TypeOK
  <2>5. saved' = saved /\ up' = up /\ saved \in Seq(0..MaxId) /\ Len(table) \in Nat
    BY <1>6 DEF Register, TypeOK
  <2>6. \A k \in DOMAIN saved : saved[k] <= Len(table) /\ saved[k] \in 0..MaxId
    BY SavedLengths DEF Nested
  <2>7. \A k \in DOMAIN saved' : saved'[k] <= Len(table')
    BY <2>3, <2>5, <2>6, BoundAssumption
  <2>8. Nested'
    BY <2>5, <2>7 DEF Nested
  <2> QED BY <2>4, <2>8
<1>7. ASSUME NEW l \in Label, RegisterFails(l) PROVE TypeInv'
  <2>1. PICK r \in Ids : BihashInsert(r, l)
    BY <1>7 DEF RegisterFails
  <2>2. /\ key2val' \in [Ids -> Label \cup {NoLabel}]
        /\ val2key' \in [Label -> Ids \cup {NoId}]
    BY <2>1, BihashInsertType
  <2>3. spoiled' \in BOOLEAN
    BY <1>7 DEF RegisterFails, TypeOK
  <2> QED BY <1>7, <2>2, <2>3 DEF RegisterFails, TypeOK, Nested
<1>8. ASSUME NEW k \in 1..MaxDepth, Release(k) PROVE TypeInv'
  <2>1. saved \in Seq(0..MaxId) /\ k - 1 \in 0..Len(saved)
    BY <1>8 DEF Release, TypeOK
  <2>2. /\ saved' \in Seq(0..MaxId) /\ Len(saved') = k - 1
        /\ \A i \in 1..(k - 1) : saved'[i] = saved[i]
    BY <1>8, <2>1, PrefixOfTable DEF Release
  <2>3. Len(saved') <= MaxDepth
    BY <2>1, <2>2, BoundAssumption DEF TypeOK
  <2>4. TypeOK'
    BY <1>8, <2>2, <2>3 DEF Release, TypeOK
  <2>5. table' = table /\ up' = up /\ up
    BY <1>8 DEF Release
  <2>6. DOMAIN saved' \subseteq DOMAIN saved /\ \A i \in DOMAIN saved' : saved'[i] = saved[i]
    BY <2>1, <2>2
  <2> QED BY <2>4, <2>5, <2>6 DEF Nested
<1>9. ASSUME NEW k \in 1..MaxDepth, RollbackTo(k) PROVE TypeInv'
  <2>1. saved \in Seq(0..MaxId) /\ k \in 0..Len(saved) /\ k \in DOMAIN saved
    BY <1>9 DEF RollbackTo, TypeOK
  <2>2. /\ saved' \in Seq(0..MaxId) /\ Len(saved') = k
        /\ \A i \in 1..k : saved'[i] = saved[i]
    BY <1>9, <2>1, PrefixOfTable DEF RollbackTo
  <2>3. saved[k] \in 0..Len(table) /\ table \in Seq(Label)
    <3>1. saved[k] \in Nat /\ saved[k] <= Len(table)
      BY <2>1, SavedLengths DEF Nested
    <3>2. table \in Seq(Label) /\ Len(table) \in Nat
      BY DEF TypeOK
    <3> QED BY <3>1, <3>2
  <2>4. table' \in Seq(Label) /\ Len(table') = saved[k]
    BY <1>9, <2>3, PrefixOfTable DEF RollbackTo
  <2>5. Len(saved') <= MaxDepth /\ Len(table') <= MaxId
    BY <2>1, <2>2, <2>3, <2>4, BoundAssumption DEF TypeOK
  <2>6. TypeOK'
    BY <1>9, <2>2, <2>4, <2>5 DEF RollbackTo, TypeOK
  <2>7. up' = up /\ up
    BY <1>9 DEF RollbackTo
  <2>8. DOMAIN saved' = 1..k /\ DOMAIN saved' \subseteq DOMAIN saved
        /\ \A i \in DOMAIN saved' : saved'[i] = saved[i]
    BY <2>1, <2>2
  <2>9. \A j \in DOMAIN saved' : saved'[j] <= Len(table')
    BY <2>1, <2>4, <2>8 DEF Nested
  <2> QED BY <2>6, <2>7, <2>8, <2>9 DEF Nested
<1>10. CASE UNCHANGED vars
  BY <1>10 DEF vars, TypeOK, Nested
<1>11. ASSUME NEW l \in Label, OtherRegisters(l) PROVE TypeInv'
  <2>1. table' \in Seq(Label) /\ Len(table') = Len(table) + 1
    BY <1>11, AppendRow DEF OtherRegisters, TypeOK
  <2>2. Len(table') <= MaxId /\ spoiled' \in BOOLEAN
    BY <1>11, <2>1, BoundAssumption DEF OtherRegisters, TypeOK
  <2>3. TypeOK'
    BY <1>11, <2>1, <2>2 DEF OtherRegisters, TypeOK
  <2>4. saved' = << >>
    BY <1>11 DEF OtherRegisters
  <2> QED BY <2>3, <2>4 DEF Nested
<1> QED BY <1>1, <1>2, <1>3, <1>4, <1>5, <1>6, <1>7, <1>8, <1>9, <1>10, <1>11 DEF Next

(* The state of the label store is well typed and its savepoints nested, *)
(* whatever goes wrong.                                                  *)
THEOREM TypeCorrect == Spec => [](TypeOK /\ Nested)
<1>1. Spec => []TypeInv
  BY TypeInvInit, TypeInvNext, PTL DEF Spec
<1> QED BY <1>1, PTL DEF TypeInv

-------------------------------------------------------------------------------
(* The mirror.  Only the insertion of a row has to argue about the BiHash:   *)
(* a rollback leaves both maps alone and the rows that stay are a prefix.    *)

MapsInv ==
  /\ Distinct(table) /\ LabelsAgree
  /\ ~spoiled => Key2ValInjective /\ Key2ValFound

(* A prefix of a table without duplicates has none, and the maps that agree  *)
(* with the table agree with the prefix.                                     *)
LEMMA PrefixAgrees ==
  ASSUME TypeOK, MapsInv, NEW n \in 0..Len(table),
         table' = SubSeq(table, 1, n),
         key2val' = key2val, val2key' = val2key, up' = up, spoiled' = spoiled
  PROVE  MapsInv'
<1>1. table \in Seq(Label)
  BY DEF TypeOK
<1>2. Len(table') = n /\ DOMAIN table' = 1..n /\ \A i \in 1..n : table'[i] = table[i]
  BY <1>1, PrefixOfTable
<1>3. DOMAIN table' \subseteq DOMAIN table
  BY <1>1, <1>2
<1>4. Distinct(table')
  BY <1>2, <1>3 DEF MapsInv, Distinct
<1>5. LabelsAgree'
  BY <1>2, <1>3 DEF MapsInv, LabelsAgree
<1> QED BY <1>4, <1>5 DEF MapsInv, Key2ValInjective, Key2ValFound

(* Maps just read from a table mirror it. *)
LEMMA LoadedMirror ==
  ASSUME table' \in Seq(Label), Len(table') <= MaxId, Distinct(table'),
         key2val' = Key2Val(table'), val2key' = Val2Key(table')
  PROVE  MapsInv'
<1> DEFINE t == table'
<1>1. /\ Key2Val(t) \in [Ids -> Label \cup {NoLabel}]
      /\ Val2Key(t) \in [Label -> Ids \cup {NoId}]
      /\ \A i \in DOMAIN t : Key2Val(t)[i] = t[i] /\ Val2Key(t)[t[i]] = i
      /\ \A i \in Ids : Key2Val(t)[i] \in Label => i \in DOMAIN t
  BY LoadedMaps
<1>2. DOMAIN t = 1..Len(t) /\ Len(t) \in Nat
  OBVIOUS
<1>3. LabelsAgree'
  BY <1>1 DEF LabelsAgree
<1>4. Key2ValInjective'
  BY <1>1 DEF Key2ValInjective, Distinct
<1>5. Key2ValFound'
  <2> SUFFICES ASSUME NEW i \in Ids, Key2Val(t)[i] \in Label
               PROVE  Val2Key(t)[Key2Val(t)[i]] # NoId
    BY DEF Key2ValFound
  <2>1. i \in DOMAIN t /\ Key2Val(t)[i] = t[i] /\ Val2Key(t)[t[i]] = i
    BY <1>1
  <2> QED BY <2>1, <1>2
<1> QED BY <1>3, <1>4, <1>5 DEF MapsInv

(* A label that FINDKEY misses is under no id and in no visible row. *)
LEMMA MissedLabel ==
  ASSUME TypeOK, MapsInv, ~spoiled, NEW l \in Label, Miss(l)
  PROVE  /\ \A i \in Ids : key2val[i] # l
         /\ l \notin Rows(table)
<1>1. \A i \in Ids : key2val[i] # l
  BY DEF MapsInv, Key2ValFound, Miss
<1>2. l \notin Rows(table)
  <2> SUFFICES ASSUME NEW i \in DOMAIN table, table[i] = l PROVE FALSE
    BY DEF Rows
  <2>1. val2key[l] = i
    BY DEF MapsInv, LabelsAgree, Miss
  <2>2. i \in Nat
    BY DEF TypeOK
  <2> QED BY <2>1, <2>2 DEF Miss
<1> QED BY <1>1, <1>2

(* What SESQLITE_BIHASH_INSERT(k, v) does to the maps when v is in neither:  *)
(* v is found under k, and no label but v and the one k had is touched.      *)
LEMMA BihashInsertEffect ==
  ASSUME TypeOK, NEW k \in Ids, NEW v \in Label, val2key[v] = NoId,
         BihashInsert(k, v)
  PROVE  /\ key2val' = [key2val EXCEPT ![k] = v]
         /\ val2key'[v] = k
         /\ \A l \in Label \ {v, key2val[k]} : val2key'[l] = val2key[l]
<1>1. key2val' = [key2val EXCEPT ![k] = v]
  BY DEF BihashInsert
<1>2. key2val[k] \in Label \cup {NoLabel}
  BY DEF TypeOK
<1>3. PICK m \in IF key2val[k] = NoLabel THEN {val2key}
                 ELSE {val2key, Remove(val2key, key2val[k]), Remove(val2key, v)} :
        val2key' = IF m[v] # NoId THEN m ELSE [m EXCEPT ![v] = k]
  BY DEF BihashInsert
<1>4. /\ m \in [Label -> Ids \cup {NoId}]
      /\ m[v] = NoId
      /\ \A l \in Label \ {v, key2val[k]} : m[l] = val2key[l]
  BY <1>2, <1>3 DEF Remove, TypeOK
<1>5. val2key' = [m EXCEPT ![v] = k]
  BY <1>3, <1>4
<1> QED BY <1>1, <1>4, <1>5

(* Registering a label keeps the mirror, whatever an earlier rollback left   *)
(* under the rowid that is reused.                                           *)
LEMMA RegisterMirror ==
  ASSUME TypeOK, TypeOK', MapsInv, ~spoiled, NEW l \in Label, Register(l)
  PROVE  MapsInv'
<1> DEFINE n == Len(table) + 1
<1>1. table \in Seq(Label) /\ n \in Ids /\ DOMAIN table = 1..(n - 1) /\ n \in Nat
  BY BoundAssumption DEF Register, TypeOK
<1>2. /\ Len(table') = n /\ DOMAIN table' = 1..n
      /\ \A i \in DOMAIN table : table'[i] = table[i]
      /\ table'[n] = l
  BY <1>1, AppendRow DEF Register
<1>3. (\A i \in Ids : key2val[i] # l) /\ l \notin Rows(table) /\ val2key[l] = NoId /\ up
  BY MissedLabel DEF Register, Miss
<1>4. /\ key2val' = [key2val EXCEPT ![n] = l]
      /\ val2key'[l] = n
      /\ \A x \in Label \ {l, key2val[n]} : val2key'[x] = val2key[x]
  BY <1>1, <1>3, BihashInsertEffect DEF Register
<1> HIDE DEF n
<1>5. key2val \in [Ids -> Label \cup {NoLabel}]
  BY DEF TypeOK
<1>6. \A i \in DOMAIN table :
        /\ i \in Ids /\ i # n /\ table[i] \in Label /\ table[i] # l
        /\ key2val[i] = table[i] /\ val2key[table[i]] = i /\ table[i] # key2val[n]
  <2> SUFFICES ASSUME NEW i \in DOMAIN table
               PROVE  /\ i \in Ids /\ i # n /\ table[i] \in Label /\ table[i] # l
                      /\ key2val[i] = table[i] /\ val2key[table[i]] = i
                      /\ table[i] # key2val[n]
    OBVIOUS
  <2>1. i \in Ids /\ i # n
    BY <1>1, BoundAssumption DEF TypeOK
  <2>2. table[i] \in Label /\ table[i] # l
    BY <1>1, <1>3 DEF Rows
  <2>3. key2val[i] = table[i] /\ val2key[table[i]] = i
    BY <1>3 DEF MapsInv, LabelsAgree
  <2>4. table[i] # key2val[n]
    BY <1>1, <2>1, <2>2, <2>3 DEF MapsInv, Key2ValInjective
  <2> QED BY <2>1, <2>2, <2>3, <2>4
<1>7. Distinct(table')
  <2>1. \A i \in DOMAIN table' : i = n \/ i \in DOMAIN table
    BY <1>1, <1>2
  <2> QED BY <1>2, <1>6, <2>1 DEF MapsInv, Distinct
<1>8. LabelsAgree'
  <2> SUFFICES ASSUME NEW i \in DOMAIN table'
               PROVE  key2val'[i] = table'[i] /\ val2key'[table'[i]] = i
    BY DEF LabelsAgree
  <2>1. CASE i = n
    BY <1>1, <1>2, <1>4, <1>5, <2>1
  <2>2. CASE i # n
    <3>1. i \in DOMAIN table
      BY <1>1, <1>2, <2>2
    <3> QED BY <1>2, <1>4, <1>5, <1>6, <2>2, <3>1
  <2> QED BY <2>1, <2>2
<1>9. \A i \in Ids : key2val'[i] = IF i = n THEN l ELSE key2val[i]
  BY <1>1, <1>4, <1>5
<1>10. Key2ValInjective'
  BY <1>3, <1>9 DEF MapsInv, Key2ValInjective
<1>11. Key2ValFound'
  <2> SUFFICES ASSUME NEW i \in Ids, key2val'[i] \in Label
               PROVE  val2key'[key2val'[i]] # NoId
    BY DEF Key2ValFound
  <2>1. CASE i = n
    BY <1>1, <1>4, <1>9, <2>1
  <2>2. CASE i # n
    <3>1. key2val'[i] = key2val[i] /\ key2val[i] \in Label
      BY <1>9, <2>2
    <3>2. key2val[i] # l /\ key2val[i] # key2val[n]
      BY <1>1, <1>3, <2>2, <3>1 DEF MapsInv, Key2ValInjective
    <3>3. val2key'[key2val[i]] = val2key[key2val[i]]
      BY <1>4, <3>1, <3>2
    <3> QED BY <3>1, <3>3 DEF MapsInv, Key2ValFound
  <2> QED BY <2>1, <2>2
<1> QED BY <1>7, <1>8, <1>10, <1>11 DEF MapsInv

(* UNIQUE keeps the labels of the table pairwise different. *)
LEMMA DistinctNext ==
  ASSUME TypeInv, Distinct(table), [Next]_vars
  PROVE  Distinct(table')
<1> USE DEF TypeInv
<1>1. table \in Seq(Label)
  BY DEF TypeOK
<1>2. ASSUME NEW n \in 0..Len(table), table' = SubSeq(table, 1, n)
      PROVE  Distinct(table')
  <2>1. DOMAIN table' = 1..n /\ \A i \in 1..n : table'[i] = table[i]
    BY <1>1, <1>2, PrefixOfTable
  <2>2. 1..n \subseteq DOMAIN table
    BY <1>1
  <2> QED BY <2>1, <2>2 DEF Distinct
<1>3. CASE OpenNew
  BY <1>3, InitialAssumption DEF OpenNew
<1>4. CASE Rollback \/ Crash
  <2>1. DiskLen \in 0..Len(table) /\ table' = SubSeq(table, 1, DiskLen)
    BY <1>4, DiskPrefix DEF Rollback, Crash, Disk
  <2> QED BY <1>2, <2>1
<1>5. ASSUME NEW l \in Label, Register(l) \/ OtherRegisters(l) PROVE Distinct(table')
  <2>1. /\ DOMAIN table' = 1..(Len(table) + 1) /\ table'[Len(table) + 1] = l
        /\ \A i \in 1..Len(table) : table'[i] = table[i]
    BY <1>1, <1>5, AppendRow DEF Register, OtherRegisters
  <2>2. \A i \in DOMAIN table : table[i] # l
    BY <1>5 DEF Register, OtherRegisters, Rows
  <2>3. DOMAIN table = 1..Len(table) /\ Len(table) \in Nat
    BY <1>1
  <2>4. \A i \in DOMAIN table' : i = Len(table) + 1 \/ i \in DOMAIN table
    BY <2>1, <2>3
  <2> QED BY <2>1, <2>2, <2>3, <2>4 DEF Distinct
<1>6. ASSUME NEW k \in 1..MaxDepth, RollbackTo(k) PROVE Distinct(table')
  <2>1. saved[k] \in 0..Len(table) /\ table' = SubSeq(table, 1, saved[k])
    BY <1>6, SavedLengths DEF RollbackTo, Nested
  <2> QED BY <1>2, <2>1
<1>7. CASE UNCHANGED table
  BY <1>7
<1>8. UNCHANGED table \/ OpenNew \/ Rollback \/ Crash
      \/ (\E l \in Label : Register(l) \/ OtherRegisters(l))
      \/ (\E k \in 1..MaxDepth : RollbackTo(k))
  BY DEF Next, vars, Reopen, Savepoint, RegisterFails, Release
<1> QED BY <1>3, <1>4, <1>5, <1>6, <1>7, <1>8

LEMMA MapsInvInit == Init => MapsInv
<1> SUFFICES ASSUME Init PROVE MapsInv
  OBVIOUS
<1>1. \A i \in Ids : key2val[i] \notin Label
  BY EmptyMaps DEF Init
<1>2. Distinct(table) /\ LabelsAgree
  BY DEF Init, Distinct, LabelsAgree
<1> QED BY <1>1, <1>2 DEF MapsInv, Key2ValInjective, Key2ValFound

LEMMA MapsInvNext ==
  ASSUME TypeInv, TypeInv', MapsInv, [Next]_vars
  PROVE  MapsInv'
<1> USE DEF TypeInv
<1>0. Distinct(table')
  BY DistinctNext DEF MapsInv
<1>1. CASE OpenNew
  BY <1>1, LoadedMirror, InitialAssumption DEF OpenNew
<1>2. CASE Reopen
  <2>1. PICK read \in SUBSET (DOMAIN table) : LoadOf(read)
    BY <1>2, ReopenLoads
  <2>2. CASE read # DOMAIN table
    <3>1. spoiled'
      BY <2>1, <2>2 DEF LoadOf
    <3> QED BY <1>0, <3>1 DEF MapsInv, LabelsAgree
  <2>3. CASE read = DOMAIN table
    <3>1. table' = table /\ table \in Seq(Label) /\ Len(table) <= MaxId
      BY <1>2 DEF Reopen, TypeOK
    <3>2. key2val' = Key2Val(table)
      BY <2>1, <2>3 DEF LoadOf, Key2Val
    <3>3. \A l \in Label : Val2Key(table)[l] \in DOMAIN table \/ Val2Key(table)[l] = NoId
      <4>1. \A l \in Rows(table) : (CHOOSE i \in DOMAIN table : table[i] = l) \in DOMAIN table
        BY DEF Rows
      <4> QED BY <4>1 DEF Val2Key
    <3>4. Val2Key(table) = [l \in Label |-> Val2Key(table)[l]]
      BY DEF Val2Key
    <3>5. val2key' = Val2Key(table)
      BY <2>1, <2>3, <3>3, <3>4 DEF LoadOf
    <3> QED BY <1>0, <3>1, <3>2, <3>5, LoadedMirror
  <2> QED BY <2>2, <2>3
<1>3. CASE Savepoint
  BY <1>3 DEF Savepoint, MapsInv, Distinct, LabelsAgree, Key2ValInjective, Key2ValFound
<1>4. CASE Rollback
  <2>1. DiskLen \in 0..Len(table)
    BY DiskPrefix
  <2> QED BY <1>4, <2>1, PrefixAgrees DEF Rollback, Disk
<1>5. CASE Crash
  <2>1. \A i \in Ids : key2val'[i] \notin Label
    BY <1>5, EmptyMaps DEF Crash
  <2>2. LabelsAgree'
    BY <1>5 DEF Crash, LabelsAgree
  <2> QED BY <1>0, <2>1, <2>2 DEF MapsInv, Key2ValInjective, Key2ValFound
<1>6. ASSUME NEW l \in Label, Register(l) PROVE MapsInv'
  <2>1. CASE ~spoiled
    BY <1>6, <2>1, RegisterMirror
  <2>2. CASE spoiled
    <3>1. spoiled'
      BY <1>6, <2>2 DEF Register
    <3> QED BY <1>0, <3>1 DEF MapsInv, LabelsAgree
  <2> QED BY <2>1, <2>2
<1>7. ASSUME NEW l \in Label, RegisterFails(l) PROVE MapsInv'
  <2>1. spoiled'
    BY <1>7, MissedLabel DEF RegisterFails
  <2> QED BY <1>0, <2>1 DEF MapsInv, LabelsAgree
<1>8. ASSUME NEW k \in 1..MaxDepth, Release(k) PROVE MapsInv'
  BY <1>8 DEF Release, MapsInv, Distinct, LabelsAgree, Key2ValInjective, Key2ValFound
<1>9. ASSUME NEW k \in 1..MaxDepth, RollbackTo(k) PROVE MapsInv'
  <2>1. saved[k] \in 0..Len(table)
    BY <1>9, SavedLengths DEF RollbackTo, Nested
  <2> QED BY <1>9, <2>1, PrefixAgrees DEF RollbackTo
<1>10. CASE UNCHANGED vars
  BY <1>10 DEF vars, MapsInv, Distinct, LabelsAgree, Key2ValInjective, Key2ValFound
<1>11. ASSUME NEW l \in Label, OtherRegisters(l) PROVE MapsInv'
  <2>1. key2val' = key2val /\ val2key' = val2key /\ up' = up /\ spoiled' = (spoiled \/ up)
    BY <1>11 DEF OtherRegisters
  <2>2. LabelsAgree'
    BY <2>1 DEF LabelsAgree
  <2>3. ~spoiled' => (Key2ValInjective /\ Key2ValFound)'
    BY <2>1 DEF MapsInv, Key2ValInjective, Key2ValFound
  <2> QED BY <1>0, <2>2, <2>3 DEF MapsInv
<1> QED BY <1>1, <1>2, <1>3, <1>4, <1>5, <1>6, <1>7, <1>8, <1>9, <1>10, <1>11 DEF Next

(* hash_id mirrors selinux_id on every visible row, through rollbacks, reuse *)
(* of rowids, the BiHash's removal from freed memory, crashes and            *)
(* reopenings, from the last complete load on and until the next fault that  *)
(* goes unnoticed; a UNIQUE failure is never such a fault.                   *)
THEOREM Mirror == Spec => [](LabelsAgree /\ MirrorInv)
<1>1. Init => TypeInv /\ MapsInv
  BY TypeInvInit, MapsInvInit
<1>2. TypeInv /\ MapsInv /\ [Next]_vars => (TypeInv /\ MapsInv)'
  BY TypeInvNext, MapsInvNext
<1>3. TypeInv /\ MapsInv => LabelsAgree /\ MirrorInv
  BY DEF TypeInv, MapsInv, MirrorInv
<1> QED BY <1>1, <1>2, <1>3, PTL DEF Spec

-------------------------------------------------------------------------------
(* The disk. *)

DiskOK ==
  /\ Disk \in Seq(Label) /\ Len(Disk) = DiskLen /\ DOMAIN Disk = 1..DiskLen
  /\ DiskLen \in 0..Len(table) /\ Len(table) \in Nat /\ DOMAIN table = 1..Len(table)
  /\ \A i \in 1..DiskLen : Disk[i] = table[i] /\ i \in DOMAIN table

(* The disk is a prefix of the table, before and after a step. *)
LEMMA DiskBefore == TypeInv => DiskOK
<1> SUFFICES ASSUME TypeInv PROVE DiskOK
  OBVIOUS
<1>1. /\ Disk \in Seq(Label) /\ Len(Disk) = DiskLen
      /\ DiskLen \in 0..Len(table)
      /\ \A i \in 1..DiskLen : Disk[i] = table[i]
  BY DiskPrefix
<1>2. Len(table) \in Nat /\ DOMAIN table = 1..Len(table)
  BY DEF TypeInv, TypeOK
<1>3. DOMAIN Disk = 1..DiskLen
  BY <1>1
<1> QED BY <1>1, <1>2, <1>3 DEF DiskOK

LEMMA DiskAfter == TypeInv' => DiskOK'
  BY DiskBefore, PTL

(* Every step extends what is on disk or leaves it alone. *)
LEMMA DiskGrows ==
  ASSUME TypeInv, TypeInv', [Next]_vars
  PROVE  DiskLen <= DiskLen' /\ \A i \in 1..DiskLen : Disk'[i] = Disk[i]
<1> USE DEF TypeInv
<1>1. /\ DiskLen \in 0..Len(table) /\ \A i \in 1..DiskLen : Disk[i] = table[i]
      /\ Len(table) \in Nat
  BY DiskPrefix DEF TypeOK
<1>2. /\ DiskLen' \in 0..Len(table') /\ \A i \in 1..DiskLen' : Disk'[i] = table'[i]
      /\ Len(table') \in Nat
  BY DiskAfter DEF DiskOK
<1>3. SUFFICES DiskLen <= DiskLen' /\ \A i \in 1..DiskLen : table'[i] = table[i]
  BY <1>1, <1>2
<1>4. saved \in Seq(0..MaxId) /\ saved' \in Seq(0..MaxId) /\ table \in Seq(Label)
  BY DEF TypeOK
<1>5. /\ Len(saved) \in Nat /\ DOMAIN saved = 1..Len(saved)
      /\ \A k \in DOMAIN saved : saved[k] \in 0..MaxId
      /\ saved # << >> => Len(saved) # 0
  BY <1>4, SavedLengths, EmptySeq
<1>6. CASE OpenNew
  <2>1. DiskLen = 0
    BY <1>1, <1>6 DEF OpenNew, Nested, DiskLen
  <2> QED BY <1>2, <2>1
<1>7. CASE Reopen
  BY <1>1, <1>7 DEF Reopen, DiskLen
<1>8. CASE Savepoint
  <2>1. /\ Len(saved') = Len(saved) + 1
        /\ \A i \in 1..Len(saved) : saved'[i] = saved[i]
        /\ saved'[Len(saved) + 1] = Len(table)
    BY <1>4, <1>8, AppendRow DEF Savepoint
  <2>2. saved' # << >>
    BY <1>5, <2>1
  <2>3. saved'[1] = DiskLen
    BY <1>5, <2>1 DEF DiskLen
  <2> QED BY <1>1, <1>8, <2>2, <2>3 DEF Savepoint, DiskLen
<1>9. CASE Rollback
  <2>1. table' = Disk /\ Len(Disk) = DiskLen /\ saved' = << >>
    BY <1>9, DiskPrefix DEF Rollback
  <2> QED BY <1>1, <2>1 DEF DiskLen
<1>10. CASE Crash
  <2>1. table' = Disk /\ Len(Disk) = DiskLen /\ saved' = << >>
    BY <1>10, DiskPrefix DEF Crash
  <2> QED BY <1>1, <2>1 DEF DiskLen
<1>11. ASSUME NEW l \in Label, Register(l)
       PROVE  DiskLen <= DiskLen' /\ \A i \in 1..DiskLen : table'[i] = table[i]
  <2>1. Len(table') = Len(table) + 1 /\ \A i \in 1..Len(table) : table'[i] = table[i]
    BY <1>4, <1>11, AppendRow DEF Register
  <2>2. DiskLen <= DiskLen'
    BY <1>1, <1>11, <2>1 DEF Register, DiskLen
  <2> QED BY <1>1, <2>1, <2>2
<1>12. ASSUME NEW l \in Label, RegisterFails(l)
       PROVE  DiskLen <= DiskLen' /\ \A i \in 1..DiskLen : table'[i] = table[i]
  BY <1>1, <1>12 DEF RegisterFails, DiskLen
<1>13. ASSUME NEW k \in 1..MaxDepth, Release(k)
       PROVE  DiskLen <= DiskLen' /\ \A i \in 1..DiskLen : table'[i] = table[i]
  <2>1. table' = table /\ k \in 1..Len(saved) /\ saved # << >>
    BY <1>5, <1>13 DEF Release
  <2>2. Len(saved') = k - 1 /\ \A i \in 1..(k - 1) : saved'[i] = saved[i]
    BY <1>4, <1>13, <2>1, PrefixOfTable DEF Release
  <2>3. CASE saved' = << >>
    BY <1>1, <2>1, <2>3 DEF DiskLen
  <2>4. CASE saved' # << >>
    <3>1. saved'[1] = saved[1]
      BY <1>4, <2>1, <2>2, <2>4, EmptySeq
    <3> QED BY <1>1, <2>1, <2>4, <3>1 DEF DiskLen
  <2> QED BY <2>3, <2>4
<1>14. ASSUME NEW k \in 1..MaxDepth, RollbackTo(k)
       PROVE  DiskLen <= DiskLen' /\ \A i \in 1..DiskLen : table'[i] = table[i]
  <2>1. k \in 1..Len(saved) /\ saved # << >>
    BY <1>5, <1>14 DEF RollbackTo
  <2>2. Len(saved') = k /\ \A i \in 1..k : saved'[i] = saved[i]
    BY <1>4, <1>14, <2>1, PrefixOfTable DEF RollbackTo
  <2>3. saved' # << >> /\ saved'[1] = saved[1]
    BY <2>1, <2>2
  <2>4. saved[1] <= saved[k] /\ saved[k] \in 0..Len(table) /\ saved[1] \in Nat
    BY <1>5, <2>1 DEF Nested
  <2>5. \A i \in 1..saved[k] : table'[i] = table[i]
    BY <1>4, <1>14, <2>4, PrefixOfTable DEF RollbackTo
  <2> QED BY <1>1, <2>1, <2>3, <2>4, <2>5 DEF DiskLen
<1>15. CASE UNCHANGED vars
  BY <1>1, <1>15 DEF vars, DiskLen
<1>16. ASSUME NEW l \in Label, OtherRegisters(l)
       PROVE  DiskLen <= DiskLen' /\ \A i \in 1..DiskLen : table'[i] = table[i]
  <2>1. Len(table') = Len(table) + 1 /\ \A i \in 1..Len(table) : table'[i] = table[i]
    BY <1>4, <1>16, AppendRow DEF OtherRegisters
  <2>2. DiskLen <= DiskLen'
    BY <1>1, <1>16, <2>1 DEF OtherRegisters, DiskLen
  <2> QED BY <1>1, <2>1, <2>2
<1> QED BY <1>6, <1>7, <1>8, <1>9, <1>10, <1>11, <1>12, <1>13, <1>14, <1>15, <1>16 DEF Next

(* A label id that is on disk means the same label after every step: no      *)
(* rollback, reuse of a rowid, crash or reopening changes it, neither in the *)
(* table nor, between unnoticed faults, in hash_id.                          *)
THEOREM DurableIds == Spec => DurableMeaning
<1> DEFINE Inv == TypeInv /\ MapsInv
           Kept == \A i \in 1..DiskLen :
                     /\ i <= DiskLen' /\ Disk'[i] = Disk[i]
                     /\ up /\ up' /\ ~spoiled /\ ~spoiled' => key2val'[i] = key2val[i]
<1>1. Init => Inv
  BY TypeInvInit, MapsInvInit
<1>2. Inv /\ [Next]_vars => Inv'
  BY TypeInvNext, MapsInvNext
<1>3. Inv /\ Inv' /\ [Next]_vars => [Kept]_vars
  <2> SUFFICES ASSUME Inv, Inv', [Next]_vars, NEW i \in 1..DiskLen
               PROVE  /\ i <= DiskLen' /\ Disk'[i] = Disk[i]
                      /\ up /\ up' /\ ~spoiled /\ ~spoiled' => key2val'[i] = key2val[i]
    OBVIOUS
  <2>1. DiskLen <= DiskLen' /\ Disk'[i] = Disk[i]
    BY DiskGrows
  <2>2. DiskOK /\ DiskOK'
    BY DiskBefore, DiskAfter
  <2>3. DiskLen \in Nat /\ DiskLen' \in Nat
    BY <2>2 DEF DiskOK
  <2>4. i \in 1..DiskLen'
    BY <2>1, <2>3
  <2>5. /\ table[i] = Disk[i] /\ i \in DOMAIN table
        /\ table'[i] = Disk'[i] /\ i \in DOMAIN table'
    BY <2>2, <2>4 DEF DiskOK
  <2>6. up /\ ~spoiled => key2val[i] = table[i]
    BY <2>5 DEF MapsInv, LabelsAgree
  <2>7. up' /\ ~spoiled' => key2val'[i] = table'[i]
    BY <2>5 DEF MapsInv, LabelsAgree
  <2> QED BY <2>1, <2>3, <2>4, <2>5, <2>6, <2>7
<1> QED BY <1>1, <1>2, <1>3, PTL DEF Spec, DurableMeaning

(* The table on disk implements the append-only registry of labels. *)
THEOREM Implementation == Spec => Implements
<1> DEFINE Inv == TypeInv /\ Distinct(table)
<1>1. Init => Inv
  BY TypeInvInit DEF Init, Distinct
<1>2. Inv /\ [Next]_vars => Inv'
  BY TypeInvNext, DistinctNext
<1>3. Init => Registry!Init
  BY DEF Init, Registry!Init, Disk, DiskLen
<1>4. Inv /\ Inv' /\ [Next]_vars => [Registry!Next]_Disk
  <2> SUFFICES ASSUME Inv, Inv', [Next]_vars PROVE Registry!Publish
    BY DEF Registry!Next
  <2>1. DiskOK /\ DiskOK'
    BY DiskBefore, DiskAfter
  <2>2. DiskLen <= DiskLen' /\ \A i \in 1..DiskLen : Disk'[i] = Disk[i]
    BY DiskGrows
  <2>3. Registry!Distinct(Disk')
    BY <2>1 DEF DiskOK, Registry!Distinct, Distinct
  <2> QED BY <2>1, <2>2, <2>3 DEF DiskOK, Registry!Publish
<1> QED BY <1>1, <1>2, <1>3, <1>4, PTL DEF Spec, Implements, Registry!Spec

-------------------------------------------------------------------------------
(* Without faults hash_id never loses track of the table. *)
LEMMA FaultFree ==
  ASSUME Faults = {}, TypeInv, MapsInv, ~spoiled, [Next]_vars
  PROVE  ~spoiled'
<1> USE DEF TypeInv
<1>1. CASE Reopen
  BY <1>1 DEF Reopen
<1>2. ASSUME NEW l \in Label, RegisterFails(l) PROVE FALSE
  BY <1>2, MissedLabel DEF RegisterFails
<1>3. ASSUME NEW l \in Label, OtherRegisters(l) PROVE FALSE
  BY <1>3 DEF OtherRegisters
<1>4. CASE UNCHANGED spoiled \/ OpenNew \/ Crash
  BY <1>4 DEF OpenNew, Crash
<1>5. \/ Reopen \/ (UNCHANGED spoiled \/ OpenNew \/ Crash)
      \/ \E l \in Label : RegisterFails(l) \/ OtherRegisters(l)
  BY DEF Next, vars, Savepoint, Rollback, Register, Release, RollbackTo
<1> QED BY <1>1, <1>2, <1>3, <1>4, <1>5

===============================================================================
