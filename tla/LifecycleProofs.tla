---------------------------- MODULE LifecycleProofs ---------------------------
(***************************************************************************)
(* For any number of processes, labels and objects: an open never succeeds *)
(* on a half-initialised database, it leaves in memory what is on disk,    *)
(* and an open that knows its subject ends badly only by an error that one *)
(* of its own statements returns.                                          *)
(***************************************************************************)
EXTENDS Lifecycle, SequenceTheorems, TLAPS

Places == {"down", "isReopen", "createContext", "createId", "prepare", "loadIds",
           "loadObjects", "readFile", "mapping", "objectLabel", "objectRow", "scon", "open",
           "failed", "aborted"}

(* How far each loop counter may have come. *)
CountersOK ==
  \A p \in Proc :
    /\ pc[p] = "mapping"     => n[p] <= Len(TupleLabels) + 1
    /\ pc[p] = "objectLabel" => n[p] <= Len(ObjectLabels) + 1
    /\ pc[p] = "objectRow"   => n[p] \in Object

LifeTypeInv == TypeOK /\ CountersOK /\ slipped \in BOOLEAN

-------------------------------------------------------------------------------
(* An open that read its own label. *)

KnownInv ==
  \A p \in Proc : knew[p] =>
    /\ reopen[p] /\ hasContext /\ hasId /\ scon[p] \in Rows(ids)
    /\ pc[p] \in {"createContext", "createId", "prepare", "loadIds", "loadObjects", "scon",
                  "open"}
    /\ pc[p] \in {"loadObjects", "scon", "open"} => hashId[p][scon[p]] # 0

-------------------------------------------------------------------------------
(* A first open.  The assertions of initialize_mapping let only one process   *)
(* get past the first tuple label; until it registers its own label nobody    *)
(* else adds a row.                                                           *)

Leads(p) ==
  \/ pc[p] = "mapping" /\ n[p] > 1
  \/ pc[p] \in {"objectLabel", "objectRow"}
  \/ pc[p] = "scon" /\ ~reopen[p]

(* A first open has come to its end: some subject is registered. *)
Done == \E s \in Subject : s \in Rows(ids)

FirstLabel == TupleLabels[1]
NeededLabels == Rows(TupleLabels) \cup Rows(ObjectLabels)

(* What a process has in memory is what the table says. *)
Truthful(p) ==
  \A l \in Label : hashId[p][l] # 0 => hashId[p][l] \in DOMAIN ids /\ ids[hashId[p][l]] = l

(* How far the first open of process p has come. *)
Labelled(p, o) ==
  /\ hash[p][o] = hashId[p][ObjectLabels[o]] /\ hashId[p][ObjectLabels[o]] # 0
Stored(p, o) == Labelled(p, o) /\ objects[o] = hash[p][o]

LeaderInv(p) ==
  /\ ~Done
  /\ \A q \in Proc : Leads(q) => q = p
  /\ \A l \in Rows(ids) : hashId[p][l] # 0
  /\ FirstLabel \in Rows(ids)
  /\ pc[p] = "mapping" => \A i \in 1..(n[p] - 1) : hashId[p][TupleLabels[i]] # 0
  /\ pc[p] # "mapping" => stamped /\ \A l \in Rows(TupleLabels) : hashId[p][l] # 0
  /\ pc[p] \in {"objectLabel", "objectRow"} => \A o \in 1..(n[p] - 1) : Stored(p, o)
  /\ pc[p] = "objectRow" => Labelled(p, n[p])
  /\ pc[p] = "scon" => \A o \in Object : Stored(p, o)

(* The tables a process has seen or made. *)
TablesInv(p) ==
  /\ pc[p] \in {"createId", "prepare", "loadIds", "loadObjects", "readFile", "mapping",
                "objectLabel", "objectRow", "scon", "open"} => hasContext
  /\ pc[p] \in {"prepare", "loadIds", "loadObjects", "readFile", "mapping", "objectLabel",
                "objectRow", "scon", "open"} => hasId

(* Before a process inserts anything. *)
EarlyInv(p) ==
  /\ pc[p] \in {"isReopen", "createContext", "createId", "prepare", "loadIds", "loadObjects",
                "readFile"}
       \/ (pc[p] = "scon" /\ reopen[p]) => last[p] = 0
  /\ pc[p] \in {"isReopen", "createContext", "createId", "prepare", "loadIds", "readFile"}
       \/ (pc[p] = "mapping" /\ n[p] = 1) => hashId[p] = NoHashId
  /\ pc[p] \in {"loadIds", "loadObjects"} => reopen[p]
  /\ pc[p] \in {"readFile", "mapping", "objectLabel", "objectRow"} => ~reopen[p]

(* contexts is set in a first open only, or after one. *)
ContextsInv(p) ==
  contexts[p] =>
    /\ pc[p] # "down"
    /\ pc[p] \in {"isReopen", "createContext", "createId", "prepare", "loadIds",
                  "loadObjects", "readFile", "open"} \/ (pc[p] = "scon" /\ reopen[p]) => Done

(* A later open, from the moment it has read selinux_id. *)
LoadedInv(p) ==
  (contexts[p] \/ \E s \in Subject : hashId[p][s] # 0) =>
    /\ pc[p] \in {"loadObjects", "open"} \/ (pc[p] = "scon" /\ reopen[p])
         => \A l \in NeededLabels : hashId[p][l] # 0
    /\ pc[p] = "open" \/ (pc[p] = "scon" /\ reopen[p]) => hash[p] = objects

OpenInv(p) == pc[p] = "open" => hashId[p][scon[p]] # 0

FileInv ==
  /\ \A i, j \in DOMAIN ids : ids[i] = ids[j] => i = j
  /\ ids # << >> => FirstLabel \in Rows(ids)
  /\ Done => Complete

ProcInv(p) ==
  /\ Truthful(p) /\ TablesInv(p) /\ EarlyInv(p)
  /\ ContextsInv(p) /\ LoadedInv(p) /\ OpenInv(p)
  /\ Leads(p) => LeaderInv(p)

InitInv == ~slipped => FileInv /\ \A p \in Proc : ProcInv(p)

-------------------------------------------------------------------------------
(* The operators. *)

LEMMA FileFacts ==
  /\ Len(TupleLabels) \in Nat /\ DOMAIN TupleLabels = 1..Len(TupleLabels)
  /\ Len(ObjectLabels) \in Nat /\ Object = 1..Len(ObjectLabels)
  /\ \A i \in 1..Len(TupleLabels) : TupleLabels[i] \in Label
  /\ \A o \in Object : ObjectLabels[o] \in Label
  /\ IdLabel \in Label /\ MaxId \in Nat
  /\ 1 \in DOMAIN TupleLabels
BY FileAssumption, BoundAssumption DEF Object, Rows

LEMMA SetId ==
  ASSUME NEW R, hashId \in [Proc -> [Label -> R]], NEW p \in Proc, NEW l \in Label, NEW v \in R,
         hashId' = [hashId EXCEPT ![p][l] = v]
  PROVE  /\ hashId' \in [Proc -> [Label -> R]]
         /\ hashId'[p][l] = v
         /\ \A m \in Label : m # l => hashId'[p][m] = hashId[p][m]
         /\ \A q \in Proc : q # p => hashId'[q] = hashId[q]
OBVIOUS

LEMMA InsertedIds ==
  ASSUME LifeTypeInv, NEW p \in Proc, NEW l \in Label, Inserted(p, l)
  PROVE  /\ l \notin Rows(ids)
         /\ ids' \in Seq(Label) /\ Len(ids') = Len(ids) + 1 /\ Len(ids') <= MaxId
         /\ \A i \in DOMAIN ids : i \in DOMAIN ids' /\ ids'[i] = ids[i]
         /\ DOMAIN ids' = DOMAIN ids \cup {Len(ids) + 1}
         /\ Len(ids) + 1 \notin DOMAIN ids
         /\ ids'[Len(ids) + 1] = l
         /\ Rows(ids') = Rows(ids) \cup {l}
         /\ last' \in [Proc -> 0..MaxId]
         /\ last'[p] = Len(ids) + 1 /\ last'[p] \in 1..MaxId
         /\ \A q \in Proc : q # p => last'[q] = last[q]
<1>1. /\ ids \in Seq(Label) /\ Len(ids) \in Nat /\ Len(ids) < MaxId /\ MaxId \in Nat
      /\ last \in [Proc -> 0..MaxId]
      /\ ids' = Append(ids, l) /\ last' = [last EXCEPT ![p] = Len(ids) + 1]
      /\ l \notin Rows(ids)
  BY BoundAssumption DEF Inserted, LifeTypeInv, TypeOK
<1>2. /\ ids' \in Seq(Label) /\ Len(ids') = Len(ids) + 1
      /\ DOMAIN ids' = 1..(Len(ids) + 1) /\ DOMAIN ids = 1..Len(ids)
      /\ ids'[Len(ids) + 1] = l /\ \A i \in 1..Len(ids) : ids'[i] = ids[i]
  BY <1>1
<1>3. DOMAIN ids' = DOMAIN ids \cup {Len(ids) + 1} /\ Len(ids) + 1 \notin DOMAIN ids
  BY <1>1, <1>2
<1>4. \A i \in DOMAIN ids : i \in DOMAIN ids' /\ ids'[i] = ids[i]
  BY <1>2, <1>3
<1>5. Rows(ids') = Rows(ids) \cup {l}
  BY <1>2, <1>3, <1>4 DEF Rows
<1>6. Len(ids) + 1 \in 1..MaxId
  BY <1>1
<1>7. /\ last' \in [Proc -> 0..MaxId] /\ last'[p] = Len(ids) + 1
      /\ \A q \in Proc : q # p => last'[q] = last[q]
  BY <1>1, <1>6
<1> QED BY <1>1, <1>2, <1>3, <1>4, <1>5, <1>6, <1>7

LEMMA NotInsertedIds ==
  ASSUME NEW l, NotInserted(l)
  PROVE  ids' = ids /\ last' = last
BY DEF NotInserted

LEMMA IgnoredIds ==
  ASSUME NEW p \in Proc, NEW l, Ignored(p, l)
  PROVE  \/ Inserted(p, l) /\ slipped' = slipped
         \/ /\ ids' = ids /\ last' = last
            /\ slipped' = (slipped \/ l \notin Rows(ids))
BY DEF Ignored, NotInserted

LEMMA IdsOfType ==
  ASSUME LifeTypeInv, NEW k \in 0..Len(ids)
  PROVE  /\ IdsOf(SubSeq(ids, 1, k)) \in [Label -> 0..MaxId]
         /\ \A l \in Label : IdsOf(SubSeq(ids, 1, k))[l] # 0
              => IdsOf(SubSeq(ids, 1, k))[l] \in DOMAIN ids /\ ids[IdsOf(SubSeq(ids, 1, k))[l]] = l
         /\ k = Len(ids) => \A l \in Label : l \in Rows(ids) => IdsOf(SubSeq(ids, 1, k))[l] # 0
<1> DEFINE t == SubSeq(ids, 1, k)
<1>1. ids \in Seq(Label) /\ Len(ids) \in Nat /\ Len(ids) <= MaxId /\ MaxId \in Nat
  BY BoundAssumption DEF LifeTypeInv, TypeOK
<1>2. t \in Seq(Label) /\ DOMAIN t = 1..k /\ \A i \in 1..k : t[i] = ids[i]
  BY <1>1
<1>3. DOMAIN ids = 1..Len(ids)
  BY <1>1
<1> HIDE DEF t
<1>4. ASSUME NEW l \in Label, l \in Rows(t)
      PROVE  IdsOf(t)[l] \in 1..k /\ ids[IdsOf(t)[l]] = l
  <2>1. \E i \in 1..k : t[i] = l
    BY <1>2, <1>4 DEF Rows
  <2>2. IdsOf(t)[l] = CHOOSE i \in 1..k : t[i] = l
    BY <1>4, <1>2 DEF IdsOf
  <2> QED BY <2>1, <2>2, <1>2
<1>5. ASSUME NEW l \in Label, l \notin Rows(t)
      PROVE  IdsOf(t)[l] = 0
  BY <1>5 DEF IdsOf
<1>6. 1..k \subseteq 0..MaxId /\ 1..k \subseteq 1..Len(ids)
  BY <1>1
<1>7. \A l \in Label : IdsOf(t)[l] \in 0..MaxId
  BY <1>1, <1>4, <1>5, <1>6
<1>8. IdsOf(t) \in [Label -> 0..MaxId]
  <2>1. IdsOf(t) = [l \in Label |-> IdsOf(t)[l]]
    BY DEF IdsOf
  <2> QED BY <2>1, <1>7
<1>9. \A l \in Label : IdsOf(t)[l] # 0 => IdsOf(t)[l] \in DOMAIN ids /\ ids[IdsOf(t)[l]] = l
  BY <1>3, <1>4, <1>5, <1>6
<1>10. ASSUME k = Len(ids), NEW l \in Label, l \in Rows(ids) PROVE IdsOf(t)[l] # 0
  <2>1. l \in Rows(t)
    BY <1>10, <1>2, <1>3 DEF Rows
  <2> QED BY <2>1, <1>4
<1> QED BY <1>8, <1>9, <1>10 DEF t

-------------------------------------------------------------------------------
(* Types. *)

LEMMA GotoType ==
  ASSUME LifeTypeInv, NEW p \in Proc, NEW s \in Places, Goto(p, s)
  PROVE  /\ pc' \in [Proc -> Places] /\ pc'[p] = s
         /\ \A q \in Proc : q # p => pc'[q] = pc[q]
BY DEF Goto, LifeTypeInv, TypeOK, Places

LEMMA TypesInit == Init => LifeTypeInv
<1> SUFFICES ASSUME Init PROVE LifeTypeInv
  OBVIOUS
<1>1. 0 \in 0..MaxId /\ 1 \in 1..(Len(TupleLabels) + Len(ObjectLabels) + 1)
  BY FileFacts
<1>2. ids \in Seq(Label) /\ Len(ids) <= MaxId
  BY FileFacts DEF Init
<1>3. /\ objects \in [Object -> 0..MaxId] /\ last \in [Proc -> 0..MaxId]
      /\ hashId \in [Proc -> [Label -> 0..MaxId]] /\ hash \in [Proc -> [Object -> 0..MaxId]]
  BY <1>1 DEF Init, NoHash, NoHashId
<1>4. /\ {hasContext, hasId, reserved, stamped} \subseteq BOOLEAN
      /\ reopen \in [Proc -> BOOLEAN] /\ contexts \in [Proc -> BOOLEAN]
      /\ knew \in [Proc -> BOOLEAN] /\ scon \in [Proc -> Subject]
      /\ slipped \in BOOLEAN
  BY DEF Init
<1>5. pc \in [Proc -> Places] /\ \A p \in Proc : pc[p] = "down"
  BY DEF Init, Places
<1>6. n \in [Proc -> 1..(Len(TupleLabels) + Len(ObjectLabels) + 1)]
  BY <1>1 DEF Init
<1>7. TypeOK
  BY <1>2, <1>3, <1>4, <1>5, <1>6 DEF TypeOK, Places
<1>8. CountersOK
  BY <1>5 DEF CountersOK
<1> QED BY <1>4, <1>7, <1>8 DEF LifeTypeInv

(* Steps that touch neither the label table nor a counter. *)
LEMMA TypesPlain ==
  ASSUME LifeTypeInv, NEW p \in Proc,
         \/ IsReopen(p) \/ CreateContext(p) \/ CreateId(p) \/ PrepareStmt(p) \/ StatementFails(p)
         \/ ObjectsDone(p) \/ CreateReserved(p)
  PROVE  LifeTypeInv'
<1>1. /\ UNCHANGED <<ids, stamped, objects, n, scon, contexts, hashId, hash, last, slipped>>
  BY DEF IsReopen, CreateContext, CreateId, PrepareStmt, StatementFails, ObjectsDone, CreateReserved, disk, procs
<1>2. PICK s \in Places \ {"mapping", "objectLabel", "objectRow"} : pc' = [pc EXCEPT ![p] = s] \/ pc' = pc
  <2> DEFINE S == Places \ {"mapping", "objectLabel", "objectRow"}
  <2>1. {"createContext", "failed", "createId", "prepare", "loadIds", "readFile", "scon"} \subseteq S
    BY DEF Places
  <2>2. CASE IsReopen(p)
    BY <2>1, <2>2 DEF IsReopen, Goto
  <2>3. CASE CreateContext(p)
    BY <2>1, <2>3 DEF CreateContext, Goto
  <2>4. CASE CreateId(p)
    BY <2>1, <2>4 DEF CreateId, Goto
  <2>5. CASE StatementFails(p)
    BY <2>1, <2>5 DEF StatementFails, Goto
  <2>8. CASE PrepareStmt(p)
    <3>1. pc' = [pc EXCEPT ![p] = "loadIds"] \/ pc' = [pc EXCEPT ![p] = "readFile"]
      BY <2>8 DEF PrepareStmt, Goto
    <3> QED BY <2>1, <3>1
  <2>6. CASE ObjectsDone(p)
    BY <2>1, <2>6 DEF ObjectsDone, Goto
  <2>7. CASE CreateReserved(p)
    BY <2>1, <2>7 DEF CreateReserved, procs
  <2> QED BY <2>2, <2>3, <2>4, <2>5, <2>6, <2>7, <2>8
<1>3. reopen' \in [Proc -> BOOLEAN] /\ knew' \in [Proc -> BOOLEAN]
  <2>0. reopen \in [Proc -> BOOLEAN] /\ knew \in [Proc -> BOOLEAN]
    BY DEF LifeTypeInv, TypeOK
  <2>1. CASE IsReopen(p)
    <3>1. PICK b1 \in BOOLEAN, b2 \in BOOLEAN :
             reopen' = [reopen EXCEPT ![p] = b1] /\ knew' = [knew EXCEPT ![p] = b2]
      BY <2>1 DEF IsReopen
    <3> QED BY <3>1, <2>0
  <2>2. CASE StatementFails(p)
    <3>1. reopen' = reopen /\ knew' = [knew EXCEPT ![p] = FALSE]
      BY <2>2 DEF StatementFails
    <3> QED BY <3>1, <2>0
  <2>3. CASE ~IsReopen(p) /\ ~StatementFails(p)
    <3>1. reopen' = reopen /\ knew' = knew
      BY <2>3 DEF CreateContext, CreateId, PrepareStmt, ObjectsDone, CreateReserved, procs
    <3> QED BY <3>1, <2>0
  <2> QED BY <2>1, <2>2, <2>3
<1>4. {hasContext, hasId, reserved, stamped}' \subseteq BOOLEAN
  <2>1. {hasContext, hasId, reserved, stamped} \subseteq BOOLEAN
    BY DEF LifeTypeInv, TypeOK
  <2> QED BY <2>1 DEF IsReopen, CreateContext, CreateId, PrepareStmt, StatementFails, ObjectsDone,
                      CreateReserved, disk
<1>5. pc' \in [Proc -> Places] /\ \A q \in Proc :
        pc'[q] \in {"mapping", "objectLabel", "objectRow"} => pc'[q] = pc[q]
  <2>1. CASE pc' = [pc EXCEPT ![p] = s]
    <3>1. /\ pc' \in [Proc -> Places] /\ pc'[p] = s
          /\ \A q \in Proc : q # p => pc'[q] = pc[q]
      BY <2>1, <1>2, GotoType DEF Goto
    <3>2. s \notin {"mapping", "objectLabel", "objectRow"}
      BY <1>2
    <3> QED BY <3>1, <3>2
  <2>2. CASE pc' = pc
    BY <2>2 DEF LifeTypeInv, TypeOK, Places
  <2> QED BY <1>2, <2>1, <2>2
<1>6. TypeOK'
  BY <1>1, <1>3, <1>4, <1>5 DEF LifeTypeInv, TypeOK, Places
<1>7. CountersOK'
  BY <1>1, <1>5 DEF LifeTypeInv, CountersOK
<1> QED BY <1>1, <1>6, <1>7 DEF LifeTypeInv

LEMMA TypesLoadIds ==
  ASSUME LifeTypeInv, NEW p \in Proc, LoadIds(p)
  PROVE  LifeTypeInv'
<1>1. UNCHANGED <<disk, reopen, n, scon, contexts, hash, last>> /\ Goto(p, "loadObjects")
  BY DEF LoadIds
<1>2. pc' \in [Proc -> Places] /\ pc'[p] = "loadObjects" /\ \A q \in Proc : q # p => pc'[q] = pc[q]
  BY <1>1, GotoType DEF Places
<1>3. Len(ids) \in Nat
  BY DEF LifeTypeInv, TypeOK
<1>4. PICK k \in {Len(ids)} \cup (IF ReadMayFail THEN 0..Len(ids) ELSE {}) :
        /\ hashId' = [hashId EXCEPT ![p] = IdsOf(SubSeq(ids, 1, k))]
        /\ knew' = [knew EXCEPT ![p] = @ /\ k = Len(ids)]
        /\ slipped' = (slipped \/ k < Len(ids))
  BY DEF LoadIds
<1>0. k \in 0..Len(ids)
  BY <1>3
<1>5. hashId' \in [Proc -> [Label -> 0..MaxId]]
  <2>1. IdsOf(SubSeq(ids, 1, k)) \in [Label -> 0..MaxId]
    BY <1>0, IdsOfType
  <2>2. hashId \in [Proc -> [Label -> 0..MaxId]]
    BY DEF LifeTypeInv, TypeOK
  <2> QED BY <2>1, <2>2, <1>4
<1>6. knew' \in [Proc -> BOOLEAN] /\ slipped' \in BOOLEAN
  BY <1>4 DEF LifeTypeInv, TypeOK
<1>7. TypeOK'
  BY <1>1, <1>2, <1>5, <1>6 DEF LifeTypeInv, TypeOK, Places, disk
<1>8. CountersOK'
  BY <1>1, <1>2 DEF LifeTypeInv, CountersOK
<1> QED BY <1>6, <1>7, <1>8 DEF LifeTypeInv

LEMMA TypesLoadObjects ==
  ASSUME LifeTypeInv, NEW p \in Proc, LoadObjects(p)
  PROVE  LifeTypeInv'
<1>1. UNCHANGED <<disk, reopen, n, scon, contexts, hashId, last, knew>> /\ Goto(p, "scon")
  BY DEF LoadObjects
<1>2. pc' \in [Proc -> Places] /\ pc'[p] = "scon" /\ \A q \in Proc : q # p => pc'[q] = pc[q]
  BY <1>1, GotoType DEF Places
<1>3. PICK k \in {Len(ObjectLabels)} \cup (IF ReadMayFail THEN 0..Len(ObjectLabels) ELSE {}) :
        /\ hash' = [hash EXCEPT ![p] = [o \in Object |-> IF o <= k THEN objects[o] ELSE 0]]
        /\ slipped' = (slipped \/ k < Len(ObjectLabels))
  BY DEF LoadObjects
<1>4. hash' \in [Proc -> [Object -> 0..MaxId]]
  <2> DEFINE R == 0..MaxId
             h == [o \in Object |-> IF o <= k THEN objects[o] ELSE 0]
  <2>1. objects \in [Object -> R] /\ hash \in [Proc -> [Object -> R]] /\ 0 \in R
    BY FileFacts DEF LifeTypeInv, TypeOK
  <2> HIDE DEF R
  <2>2. h \in [Object -> R]
    BY <2>1
  <2> HIDE DEF h
  <2>3. hash' = [hash EXCEPT ![p] = h]
    BY <1>3 DEF h
  <2>4. hash' \in [Proc -> [Object -> R]]
    BY <2>1, <2>2, <2>3
  <2> QED BY <2>4 DEF R
<1>5. slipped' \in BOOLEAN
  BY <1>3
<1>6. TypeOK'
  BY <1>1, <1>2, <1>4 DEF LifeTypeInv, TypeOK, Places, disk
<1>7. CountersOK'
  BY <1>1, <1>2 DEF LifeTypeInv, CountersOK
<1> QED BY <1>5, <1>6, <1>7 DEF LifeTypeInv

LEMMA TypesReadFile ==
  ASSUME LifeTypeInv, NEW p \in Proc, ReadFile(p)
  PROVE  LifeTypeInv'
<1>1. UNCHANGED <<disk, reopen, scon, hashId, hash, last, knew, slipped>>
  BY DEF ReadFile
<1>2. PICK found \in BOOLEAN :
        /\ contexts' = [contexts EXCEPT ![p] = found]
        /\ Goto(p, IF found THEN "mapping" ELSE "failed")
  BY DEF ReadFile
<1>3. pc' \in [Proc -> Places] /\ pc'[p] \in {"mapping", "failed"} /\ \A q \in Proc : q # p => pc'[q] = pc[q]
  BY <1>2, GotoType DEF Places
<1>4. contexts' \in [Proc -> BOOLEAN]
  BY <1>2 DEF LifeTypeInv, TypeOK
<1>5. n' \in [Proc -> 1..(Len(TupleLabels) + Len(ObjectLabels) + 1)] /\ n'[p] = 1
      /\ \A q \in Proc : q # p => n'[q] = n[q]
  <2> DEFINE R == 1..(Len(TupleLabels) + Len(ObjectLabels) + 1)
  <2>1. 1 \in R /\ n \in [Proc -> R] /\ n' = [n EXCEPT ![p] = 1]
    BY FileFacts DEF LifeTypeInv, TypeOK, ReadFile
  <2> HIDE DEF R
  <2>2. n' \in [Proc -> R] /\ n'[p] = 1 /\ \A q \in Proc : q # p => n'[q] = n[q]
    BY <2>1
  <2> QED BY <2>2 DEF R
<1>6. TypeOK'
  BY <1>1, <1>3, <1>4, <1>5 DEF LifeTypeInv, TypeOK, Places, disk
<1>7. CountersOK'
  BY <1>1, <1>3, <1>5, FileFacts DEF LifeTypeInv, CountersOK
<1> QED BY <1>1, <1>6, <1>7 DEF LifeTypeInv

(* The loop counter p's step sets. *)
LEMMA CountType ==
  ASSUME LifeTypeInv, NEW p \in Proc,
         NEW k \in 1..(Len(TupleLabels) + Len(ObjectLabels) + 1), n' = [n EXCEPT ![p] = k]
  PROVE  /\ n' \in [Proc -> 1..(Len(TupleLabels) + Len(ObjectLabels) + 1)]
         /\ n'[p] = k /\ \A q \in Proc : q # p => n'[q] = n[q]
<1> DEFINE R == 1..(Len(TupleLabels) + Len(ObjectLabels) + 1)
<1>1. n \in [Proc -> R]
  BY DEF LifeTypeInv, TypeOK
<1> HIDE DEF R
<1>2. n' \in [Proc -> R] /\ n'[p] = k /\ \A q \in Proc : q # p => n'[q] = n[q]
  <2>1. k \in R
    BY DEF R
  <2> QED BY <1>1, <2>1
<1> QED BY <1>2 DEF R

LEMMA HashIdType ==
  ASSUME LifeTypeInv, NEW p \in Proc, NEW l \in Label, NEW v \in 0..MaxId,
         hashId' = [hashId EXCEPT ![p][l] = v]
  PROVE  /\ hashId' \in [Proc -> [Label -> 0..MaxId]]
         /\ hashId'[p][l] = v
         /\ \A m \in Label : m # l => hashId'[p][m] = hashId[p][m]
         /\ \A q \in Proc : q # p => hashId'[q] = hashId[q]
<1>1. hashId \in [Proc -> [Label -> 0..MaxId]]
  BY DEF LifeTypeInv, TypeOK
<1> QED BY <1>1, SetId

(* What initialize_mapping does for one label. *)
LEMMA MappingCases ==
  ASSUME LifeTypeInv, NEW p \in Proc, Mapping(p)
  PROVE  /\ pc[p] = "mapping" /\ n[p] \in 1..Len(TupleLabels)
         /\ TupleLabels[n[p]] \in Label
         /\ UNCHANGED <<hasContext, hasId, reserved, stamped, objects,
                        reopen, scon, contexts, hash, knew, slipped>>
         /\ \/ /\ hashId[p][TupleLabels[n[p]]] # 0
               /\ n' = [n EXCEPT ![p] = n[p] + 1]
               /\ UNCHANGED <<ids, last, hashId, pc>>
            \/ /\ hashId[p][TupleLabels[n[p]]] = 0 /\ Inserted(p, TupleLabels[n[p]])
               /\ hashId' = [hashId EXCEPT ![p][TupleLabels[n[p]]] = last'[p]]
               /\ n' = [n EXCEPT ![p] = n[p] + 1]
               /\ UNCHANGED pc
            \/ /\ UNCHANGED <<ids, last, n, hashId>>
               /\ Goto(p, "aborted")
<1>1. n[p] \in Nat /\ n[p] >= 1
  BY FileFacts DEF LifeTypeInv, TypeOK
<1>2. pc[p] = "mapping" /\ n[p] <= Len(TupleLabels)
  BY DEF Mapping
<1>3. n[p] \in 1..Len(TupleLabels) /\ TupleLabels[n[p]] \in Label
  BY <1>1, <1>2, FileFacts
<1> QED BY <1>2, <1>3 DEF Mapping, NotInserted

LEMMA TypesMapping ==
  ASSUME LifeTypeInv, NEW p \in Proc, Mapping(p)
  PROVE  LifeTypeInv'
<1> DEFINE l == TupleLabels[n[p]]
<1>1. /\ pc[p] = "mapping" /\ n[p] \in 1..Len(TupleLabels) /\ l \in Label
      /\ UNCHANGED <<hasContext, hasId, reserved, stamped, objects,
                     reopen, scon, contexts, hash, knew, slipped>>
  BY MappingCases
<1>2. CASE n' = [n EXCEPT ![p] = n[p] + 1] /\ UNCHANGED <<ids, last, hashId, pc>>
  <2>1. n[p] + 1 \in 1..(Len(TupleLabels) + Len(ObjectLabels) + 1)
        /\ n[p] + 1 <= Len(TupleLabels) + 1
    BY <1>1, FileFacts
  <2>2. /\ n' \in [Proc -> 1..(Len(TupleLabels) + Len(ObjectLabels) + 1)]
        /\ n'[p] = n[p] + 1 /\ \A q \in Proc : q # p => n'[q] = n[q]
    BY <2>1, <1>2, CountType
  <2>3. TypeOK'
    BY <1>1, <1>2, <2>2 DEF LifeTypeInv, TypeOK
  <2>4. CountersOK'
    BY <1>1, <1>2, <2>1, <2>2 DEF LifeTypeInv, CountersOK
  <2> QED BY <1>1, <2>3, <2>4 DEF LifeTypeInv
<1>3. CASE /\ Inserted(p, l) /\ hashId' = [hashId EXCEPT ![p][l] = last'[p]]
           /\ n' = [n EXCEPT ![p] = n[p] + 1] /\ UNCHANGED pc
  <2>1. n[p] + 1 \in 1..(Len(TupleLabels) + Len(ObjectLabels) + 1)
        /\ n[p] + 1 <= Len(TupleLabels) + 1
    BY <1>1, FileFacts
  <2>2. /\ n' \in [Proc -> 1..(Len(TupleLabels) + Len(ObjectLabels) + 1)]
        /\ n'[p] = n[p] + 1 /\ \A q \in Proc : q # p => n'[q] = n[q]
    BY <2>1, <1>3, CountType
  <2>3. /\ ids' \in Seq(Label) /\ Len(ids') <= MaxId /\ last' \in [Proc -> 0..MaxId]
        /\ last'[p] \in 0..MaxId
    BY <1>1, <1>3, InsertedIds
  <2>4. hashId' \in [Proc -> [Label -> 0..MaxId]]
    BY <1>1, <1>3, <2>3, HashIdType
  <2>5. TypeOK'
    BY <1>1, <1>3, <2>2, <2>3, <2>4 DEF LifeTypeInv, TypeOK
  <2>6. CountersOK'
    BY <1>1, <1>3, <2>1, <2>2 DEF LifeTypeInv, CountersOK
  <2> QED BY <1>1, <2>5, <2>6 DEF LifeTypeInv
<1>4. CASE UNCHANGED <<ids, last, n, hashId>> /\ Goto(p, "aborted")
  <2>1. pc' \in [Proc -> Places] /\ pc'[p] = "aborted" /\ \A q \in Proc : q # p => pc'[q] = pc[q]
    BY <1>4, GotoType DEF Places
  <2>2. TypeOK'
    BY <1>1, <1>4, <2>1 DEF LifeTypeInv, TypeOK, Places
  <2>3. CountersOK'
    BY <1>1, <1>4, <2>1 DEF LifeTypeInv, CountersOK
  <2> QED BY <1>1, <2>2, <2>3 DEF LifeTypeInv
<1> QED BY <1>2, <1>3, <1>4, MappingCases

LEMMA TypesUpdate ==
  ASSUME LifeTypeInv, NEW p \in Proc, Update(p)
  PROVE  LifeTypeInv'
<1>1. /\ UNCHANGED <<hasContext, hasId, reserved, ids, objects,
                     reopen, scon, contexts, hashId, hash, last, knew, slipped>>
      /\ n' = [n EXCEPT ![p] = 1]
      /\ stamped' = TRUE \/ stamped' = stamped
  BY DEF Update
<1>2. pc' \in [Proc -> Places] /\ pc'[p] \in {"objectLabel", "failed"}
      /\ \A q \in Proc : q # p => pc'[q] = pc[q]
  <2>1. CASE Goto(p, "objectLabel")
    BY <2>1, GotoType DEF Places
  <2>2. CASE Goto(p, "failed")
    BY <2>2, GotoType DEF Places
  <2> QED BY <2>1, <2>2 DEF Update
<1>3. 1 \in 1..(Len(TupleLabels) + Len(ObjectLabels) + 1)
  BY FileFacts
<1>4. /\ n' \in [Proc -> 1..(Len(TupleLabels) + Len(ObjectLabels) + 1)]
      /\ n'[p] = 1 /\ \A q \in Proc : q # p => n'[q] = n[q]
  BY <1>1, <1>3, CountType
<1>5. TypeOK'
  BY <1>1, <1>2, <1>4 DEF LifeTypeInv, TypeOK, Places
<1>6. CountersOK'
  BY <1>2, <1>4, FileFacts DEF LifeTypeInv, CountersOK
<1> QED BY <1>1, <1>5, <1>6 DEF LifeTypeInv

(* What insert_context and insert_key do for one object. *)
LEMMA ObjectLabelCases ==
  ASSUME LifeTypeInv, NEW p \in Proc, ObjectLabel(p)
  PROVE  /\ pc[p] = "objectLabel" /\ n[p] \in Object /\ ObjectLabels[n[p]] \in Label
         /\ UNCHANGED <<hasContext, hasId, reserved, stamped, objects,
                        reopen, n, scon, contexts, knew>>
         /\ Goto(p, "objectRow")
         /\ hash' = [hash EXCEPT ![p][n[p]] = hashId'[p][ObjectLabels[n[p]]]]
         /\ \/ /\ hashId[p][ObjectLabels[n[p]]] # 0
               /\ UNCHANGED <<ids, last, hashId, slipped>>
            \/ /\ hashId[p][ObjectLabels[n[p]]] = 0 /\ Inserted(p, ObjectLabels[n[p]])
               /\ hashId' = [hashId EXCEPT ![p][ObjectLabels[n[p]]] = last'[p]]
               /\ UNCHANGED slipped
            \/ /\ hashId[p][ObjectLabels[n[p]]] = 0 /\ UNCHANGED <<ids, last>>
               /\ hashId' = [hashId EXCEPT ![p][ObjectLabels[n[p]]] = last'[p]]
               /\ slipped' = (slipped \/ ObjectLabels[n[p]] \notin Rows(ids))
<1>1. pc[p] = "objectLabel" /\ n[p] \in Object
  BY DEF ObjectLabel
<1>2. ObjectLabels[n[p]] \in Label
  BY <1>1, FileFacts
<1> QED BY <1>1, <1>2 DEF ObjectLabel, Ignored, NotInserted

LEMMA SetHash ==
  ASSUME LifeTypeInv, NEW p \in Proc, NEW o \in Object, NEW v \in 0..MaxId,
         hash' = [hash EXCEPT ![p][o] = v]
  PROVE  /\ hash' \in [Proc -> [Object -> 0..MaxId]]
         /\ hash'[p][o] = v
         /\ \A m \in Object : m # o => hash'[p][m] = hash[p][m]
         /\ \A q \in Proc : q # p => hash'[q] = hash[q]
<1>1. hash \in [Proc -> [Object -> 0..MaxId]]
  BY DEF LifeTypeInv, TypeOK
<1> DEFINE R == 0..MaxId
           O == Object
<1>2. hash \in [Proc -> [O -> R]] /\ v \in R /\ o \in O
  BY <1>1
<1> HIDE DEF R, O
<1>3. /\ hash' \in [Proc -> [O -> R]]
      /\ hash'[p][o] = v
      /\ \A m \in O : m # o => hash'[p][m] = hash[p][m]
      /\ \A q \in Proc : q # p => hash'[q] = hash[q]
  BY <1>2
<1> QED BY <1>3 DEF R, O

LEMMA TypesObjectLabel ==
  ASSUME LifeTypeInv, NEW p \in Proc, ObjectLabel(p)
  PROVE  LifeTypeInv'
<1> DEFINE l == ObjectLabels[n[p]]
<1>1. /\ pc[p] = "objectLabel" /\ n[p] \in Object /\ l \in Label
      /\ UNCHANGED <<hasContext, hasId, reserved, stamped, objects, reopen, n, scon, contexts, knew>>
      /\ Goto(p, "objectRow") /\ hash' = [hash EXCEPT ![p][n[p]] = hashId'[p][l]]
  BY ObjectLabelCases
<1>2. slipped' \in BOOLEAN
  BY ObjectLabelCases DEF LifeTypeInv
<1>3. pc' \in [Proc -> Places] /\ pc'[p] = "objectRow" /\ \A q \in Proc : q # p => pc'[q] = pc[q]
  BY <1>1, GotoType DEF Places
<1>4. /\ ids' \in Seq(Label) /\ Len(ids') <= MaxId /\ last' \in [Proc -> 0..MaxId]
      /\ hashId' \in [Proc -> [Label -> 0..MaxId]]
  <2>0. /\ ids \in Seq(Label) /\ Len(ids) <= MaxId /\ last \in [Proc -> 0..MaxId]
        /\ hashId \in [Proc -> [Label -> 0..MaxId]]
    BY DEF LifeTypeInv, TypeOK
  <2>1. CASE UNCHANGED <<ids, last, hashId>>
    BY <2>0, <2>1
  <2>2. CASE Inserted(p, l) /\ hashId' = [hashId EXCEPT ![p][l] = last'[p]]
    <3>1. /\ ids' \in Seq(Label) /\ Len(ids') <= MaxId /\ last' \in [Proc -> 0..MaxId]
          /\ last'[p] \in 0..MaxId
      BY <1>1, <2>2, InsertedIds
    <3>2. hashId' \in [Proc -> [Label -> 0..MaxId]]
      BY <1>1, <2>2, <3>1, HashIdType
    <3> QED BY <3>1, <3>2
  <2>3. CASE UNCHANGED <<ids, last>> /\ hashId' = [hashId EXCEPT ![p][l] = last'[p]]
    <3>1. last'[p] \in 0..MaxId
      BY <2>0, <2>3
    <3>2. hashId' \in [Proc -> [Label -> 0..MaxId]]
      BY <1>1, <2>3, <3>1, HashIdType
    <3> QED BY <2>0, <2>3, <3>2
  <2> QED BY <2>1, <2>2, <2>3, ObjectLabelCases
<1>5. hash' \in [Proc -> [Object -> 0..MaxId]]
  <2>1. hashId'[p][l] \in 0..MaxId
    BY <1>1, <1>4
  <2> QED BY <2>1, <1>1, SetHash
<1>6. TypeOK'
  BY <1>1, <1>3, <1>4, <1>5 DEF LifeTypeInv, TypeOK, Places
<1>7. CountersOK'
  BY <1>1, <1>3 DEF LifeTypeInv, CountersOK
<1> QED BY <1>2, <1>6, <1>7 DEF LifeTypeInv

(* The rowid of a row of selinux_context. *)
LEMMA RowidType ==
  ASSUME LifeTypeInv, NEW p \in Proc, ObjectRow(p)
  PROVE  last' \in [Proc -> 0..MaxId] /\ \A q \in Proc : q # p => last'[q] = last[q]
<1>1. last \in [Proc -> 0..MaxId]
  BY DEF LifeTypeInv, TypeOK
<1>2. CASE \E rowid \in 1..MaxId : last' = [last EXCEPT ![p] = rowid]
  <2>1. PICK rowid \in 1..MaxId : last' = [last EXCEPT ![p] = rowid]
    BY <1>2
  <2>2. rowid \in 0..MaxId
    BY FileFacts
  <2> QED BY <1>1, <2>1, <2>2
<1>3. CASE last' = last
  BY <1>1, <1>3
<1> QED BY <1>2, <1>3 DEF ObjectRow

LEMMA TypesObjectRow ==
  ASSUME LifeTypeInv, NEW p \in Proc, ObjectRow(p)
  PROVE  LifeTypeInv'
<1>1. UNCHANGED <<hasContext, hasId, reserved, ids, stamped,
                  reopen, scon, contexts, hashId, hash, knew, slipped>>
  BY DEF ObjectRow
<1>L. last' \in [Proc -> 0..MaxId] /\ \A q \in Proc : q # p => last'[q] = last[q]
  BY RowidType
<1>2. n[p] \in Object /\ n[p] \in 1..Len(ObjectLabels)
  BY FileFacts DEF ObjectRow, LifeTypeInv, CountersOK
<1>3. CASE /\ objects' = [objects EXCEPT ![n[p]] = hash[p][n[p]]]
           /\ n' = [n EXCEPT ![p] = n[p] + 1] /\ Goto(p, "objectLabel")
  <2>1. pc' \in [Proc -> Places] /\ pc'[p] = "objectLabel" /\ \A q \in Proc : q # p => pc'[q] = pc[q]
    BY <1>3, GotoType DEF Places
  <2>2. /\ n[p] + 1 \in 1..(Len(TupleLabels) + Len(ObjectLabels) + 1)
        /\ n[p] + 1 <= Len(ObjectLabels) + 1
    BY <1>2, FileFacts
  <2>3. /\ n' \in [Proc -> 1..(Len(TupleLabels) + Len(ObjectLabels) + 1)]
        /\ n'[p] = n[p] + 1 /\ \A q \in Proc : q # p => n'[q] = n[q]
    BY <2>2, <1>3, CountType
  <2>4. objects' \in [Object -> 0..MaxId]
    <3>1. objects \in [Object -> 0..MaxId] /\ hash[p][n[p]] \in 0..MaxId
      BY <1>2 DEF LifeTypeInv, TypeOK
    <3> QED BY <3>1, <1>2, <1>3
  <2>5. TypeOK'
    BY <1>1, <1>L, <2>1, <2>3, <2>4 DEF LifeTypeInv, TypeOK, Places
  <2>6. CountersOK'
    BY <2>1, <2>2, <2>3 DEF LifeTypeInv, CountersOK
  <2> QED BY <1>1, <2>5, <2>6 DEF LifeTypeInv
<1>4. CASE Goto(p, "aborted") /\ UNCHANGED <<objects, n>>
  <2>1. pc' \in [Proc -> Places] /\ pc'[p] = "aborted" /\ \A q \in Proc : q # p => pc'[q] = pc[q]
    BY <1>4, GotoType DEF Places
  <2>2. TypeOK'
    BY <1>1, <1>L, <1>4, <2>1 DEF LifeTypeInv, TypeOK, Places
  <2>3. CountersOK'
    BY <1>4, <2>1 DEF LifeTypeInv, CountersOK
  <2> QED BY <1>1, <2>2, <2>3 DEF LifeTypeInv
<1> QED BY <1>3, <1>4 DEF ObjectRow

(* What insert_id does for the subject. *)
LEMMA RegisterCases ==
  ASSUME LifeTypeInv, NEW p \in Proc, RegisterSubject(p)
  PROVE  /\ pc[p] = "scon" /\ scon[p] \in Label /\ scon[p] \in Subject
         /\ UNCHANGED <<hasContext, hasId, reserved, stamped, objects,
                        reopen, n, scon, contexts, hash, knew>>
         /\ \/ /\ hashId[p][scon[p]] # 0
               /\ Goto(p, "open") /\ UNCHANGED <<ids, last, hashId, slipped>>
            \/ /\ hashId[p][scon[p]] = 0
               /\ Goto(p, "aborted") /\ UNCHANGED <<ids, last, hashId, slipped>>
            \/ /\ hashId[p][scon[p]] = 0 /\ contexts[p] /\ Inserted(p, scon[p])
               /\ hashId' = [hashId EXCEPT ![p][scon[p]] = last'[p]]
               /\ Goto(p, "open") /\ UNCHANGED slipped
            \/ /\ hashId[p][scon[p]] = 0 /\ contexts[p] /\ UNCHANGED <<ids, last>>
               /\ hashId' = [hashId EXCEPT ![p][scon[p]] = last'[p]]
               /\ Goto(p, IF last'[p] = 0 THEN "aborted" ELSE "open")
               /\ slipped' = (slipped \/ scon[p] \notin Rows(ids))
<1>1. scon[p] \in Label /\ scon[p] \in Subject
  BY SubjectAssumption DEF LifeTypeInv, TypeOK
<1>2. /\ pc[p] = "scon"
      /\ UNCHANGED <<hasContext, hasId, reserved, stamped, objects,
                     reopen, n, scon, contexts, hash, knew>>
  BY DEF RegisterSubject
<1>3. CASE hashId[p][scon[p]] # 0
  BY <1>1, <1>2, <1>3 DEF RegisterSubject
<1>4. CASE hashId[p][scon[p]] = 0
  <2>1. CASE Goto(p, "aborted") /\ UNCHANGED <<ids, last, hashId, slipped>>
    BY <1>1, <1>2, <1>4, <2>1
  <2>2. CASE /\ contexts[p] /\ Ignored(p, scon[p])
             /\ hashId' = [hashId EXCEPT ![p][scon[p]] = last'[p]]
             /\ Goto(p, IF last'[p] = 0 THEN "aborted" ELSE "open")
    <3>1. CASE Inserted(p, scon[p]) /\ UNCHANGED slipped
      <4>1. last'[p] # 0
        <5>1. last'[p] \in 1..MaxId
          BY <3>1, <1>1, InsertedIds
        <5> QED BY <5>1
      <4> QED BY <4>1, <1>1, <1>2, <1>4, <2>2, <3>1
    <3>2. CASE NotInserted(scon[p]) /\ slipped' = (slipped \/ scon[p] \notin Rows(ids))
      <4>1. UNCHANGED <<ids, last>>
        BY <3>2 DEF NotInserted
      <4> QED BY <4>1, <1>1, <1>2, <1>4, <2>2, <3>2
    <3> QED BY <2>2, <3>1, <3>2 DEF Ignored
  <2> QED BY <1>4, <2>1, <2>2 DEF RegisterSubject
<1> QED BY <1>3, <1>4

LEMMA TypesRegister ==
  ASSUME LifeTypeInv, NEW p \in Proc, RegisterSubject(p)
  PROVE  LifeTypeInv'
<1> DEFINE l == scon[p]
<1>1. /\ pc[p] = "scon" /\ l \in Label
      /\ UNCHANGED <<hasContext, hasId, reserved, stamped, objects,
                     reopen, n, scon, contexts, hash, knew>>
  BY RegisterCases
<1>2. slipped' \in BOOLEAN
  BY RegisterCases DEF LifeTypeInv
<1>3. pc' \in [Proc -> Places] /\ pc'[p] \in {"open", "aborted"} /\ \A q \in Proc : q # p => pc'[q] = pc[q]
  <2>1. CASE Goto(p, "open")
    BY <2>1, GotoType DEF Places
  <2>2. CASE Goto(p, "aborted")
    BY <2>2, GotoType DEF Places
  <2> QED BY <2>1, <2>2, RegisterCases
<1>4. /\ ids' \in Seq(Label) /\ Len(ids') <= MaxId /\ last' \in [Proc -> 0..MaxId]
      /\ hashId' \in [Proc -> [Label -> 0..MaxId]]
  <2>0. /\ ids \in Seq(Label) /\ Len(ids) <= MaxId /\ last \in [Proc -> 0..MaxId]
        /\ hashId \in [Proc -> [Label -> 0..MaxId]]
    BY DEF LifeTypeInv, TypeOK
  <2>1. CASE UNCHANGED <<ids, last, hashId>>
    BY <2>0, <2>1
  <2>2. CASE Inserted(p, l) /\ hashId' = [hashId EXCEPT ![p][l] = last'[p]]
    <3>1. /\ ids' \in Seq(Label) /\ Len(ids') <= MaxId /\ last' \in [Proc -> 0..MaxId]
          /\ last'[p] \in 0..MaxId
      BY <1>1, <2>2, InsertedIds
    <3>2. hashId' \in [Proc -> [Label -> 0..MaxId]]
      BY <1>1, <2>2, <3>1, HashIdType
    <3> QED BY <3>1, <3>2
  <2>3. CASE UNCHANGED <<ids, last>> /\ hashId' = [hashId EXCEPT ![p][l] = last'[p]]
    <3>1. last'[p] \in 0..MaxId
      BY <2>0, <2>3
    <3>2. hashId' \in [Proc -> [Label -> 0..MaxId]]
      BY <1>1, <2>3, <3>1, HashIdType
    <3> QED BY <2>0, <2>3, <3>2
  <2> QED BY <2>1, <2>2, <2>3, RegisterCases
<1>5. TypeOK'
  BY <1>1, <1>3, <1>4 DEF LifeTypeInv, TypeOK, Places
<1>6. CountersOK'
  BY <1>1, <1>3 DEF LifeTypeInv, CountersOK
<1> QED BY <1>2, <1>5, <1>6 DEF LifeTypeInv

LEMMA ResetMaps ==
  ASSUME LifeTypeInv, NEW p \in Proc, hashId' = [hashId EXCEPT ![p] = NoHashId],
         hash' = [hash EXCEPT ![p] = NoHash], last' = [last EXCEPT ![p] = 0]
  PROVE  /\ hashId' \in [Proc -> [Label -> 0..MaxId]] /\ hash' \in [Proc -> [Object -> 0..MaxId]]
         /\ last' \in [Proc -> 0..MaxId]
         /\ hashId'[p] = NoHashId /\ hash'[p] = NoHash /\ last'[p] = 0
         /\ \A q \in Proc : q # p => hashId'[q] = hashId[q] /\ hash'[q] = hash[q] /\ last'[q] = last[q]
<1>1. 0 \in 0..MaxId
  BY FileFacts
<1>2. NoHashId \in [Label -> 0..MaxId] /\ NoHash \in [Object -> 0..MaxId]
  BY <1>1 DEF NoHashId, NoHash
<1>3. /\ hashId \in [Proc -> [Label -> 0..MaxId]] /\ hash \in [Proc -> [Object -> 0..MaxId]]
      /\ last \in [Proc -> 0..MaxId]
  BY DEF LifeTypeInv, TypeOK
<1> QED BY <1>1, <1>2, <1>3

LEMMA TypesOpen ==
  ASSUME LifeTypeInv, NEW p \in Proc, Open(p)
  PROVE  LifeTypeInv'
<1>1. UNCHANGED <<disk, reopen, n, contexts>> /\ Goto(p, "isReopen")
  BY DEF Open
<1>2. pc' \in [Proc -> Places] /\ pc'[p] = "isReopen" /\ \A q \in Proc : q # p => pc'[q] = pc[q]
  BY <1>1, GotoType DEF Places
<1>3. /\ hashId' \in [Proc -> [Label -> 0..MaxId]] /\ hash' \in [Proc -> [Object -> 0..MaxId]]
      /\ last' \in [Proc -> 0..MaxId]
  BY ResetMaps DEF Open
<1>4. scon' \in [Proc -> Subject]
  <2>0. scon \in [Proc -> Subject]
    BY DEF LifeTypeInv, TypeOK
  <2>1. CASE pc[p] = "down"
    <3>1. PICK s \in Subject : scon' = [scon EXCEPT ![p] = s]
      BY <2>1 DEF Open
    <3> QED BY <2>0, <3>1
  <2>2. CASE pc[p] # "down"
    BY <2>0, <2>2 DEF Open
  <2> QED BY <2>1, <2>2
<1>5. knew' \in [Proc -> BOOLEAN] /\ slipped' \in BOOLEAN
  BY DEF Open, LifeTypeInv, TypeOK
<1>6. TypeOK'
  BY <1>1, <1>2, <1>3, <1>4, <1>5 DEF LifeTypeInv, TypeOK, Places, disk
<1>7. CountersOK'
  BY <1>1, <1>2 DEF LifeTypeInv, CountersOK
<1> QED BY <1>5, <1>6, <1>7 DEF LifeTypeInv

LEMMA TypesCrash ==
  ASSUME LifeTypeInv, NEW p \in Proc, Crash(p)
  PROVE  LifeTypeInv'
<1>1. UNCHANGED <<disk, scon, slipped>> /\ Goto(p, "down") /\ n' = [n EXCEPT ![p] = 1]
  BY DEF Crash
<1>2. pc' \in [Proc -> Places] /\ pc'[p] = "down" /\ \A q \in Proc : q # p => pc'[q] = pc[q]
  BY <1>1, GotoType DEF Places
<1>3. /\ hashId' \in [Proc -> [Label -> 0..MaxId]] /\ hash' \in [Proc -> [Object -> 0..MaxId]]
      /\ last' \in [Proc -> 0..MaxId]
  BY ResetMaps DEF Crash
<1>4. knew' \in [Proc -> BOOLEAN] /\ reopen' \in [Proc -> BOOLEAN] /\ contexts' \in [Proc -> BOOLEAN]
  BY DEF Crash, LifeTypeInv, TypeOK
<1>5. /\ n' \in [Proc -> 1..(Len(TupleLabels) + Len(ObjectLabels) + 1)]
      /\ n'[p] = 1 /\ \A q \in Proc : q # p => n'[q] = n[q]
  <2>1. 1 \in 1..(Len(TupleLabels) + Len(ObjectLabels) + 1)
    BY FileFacts
  <2> QED BY <2>1, <1>1, CountType
<1>6. TypeOK'
  BY <1>1, <1>2, <1>3, <1>4, <1>5 DEF LifeTypeInv, TypeOK, Places, disk
<1>7. CountersOK'
  BY <1>2, <1>5 DEF LifeTypeInv, CountersOK
<1> QED BY <1>1, <1>6, <1>7 DEF LifeTypeInv

LEMMA TypesStep == LifeTypeInv /\ [Next]_vars => LifeTypeInv'
<1> SUFFICES ASSUME LifeTypeInv, [Next]_vars PROVE LifeTypeInv'
  OBVIOUS
<1>1. ASSUME NEW p \in Proc, Step(p) \/ Open(p) \/ Crash(p) \/ CreateReserved(p)
      PROVE  LifeTypeInv'
  BY <1>1, TypesPlain, TypesLoadIds, TypesLoadObjects, TypesReadFile, TypesMapping, TypesUpdate,
     TypesObjectLabel, TypesObjectRow, TypesRegister, TypesOpen, TypesCrash DEF Step
<1>2. CASE UNCHANGED vars
  BY <1>2 DEF vars, disk, procs, LifeTypeInv, TypeOK, CountersOK
<1> QED BY <1>1, <1>2 DEF Next

(* Whatever fails, crashes or comes in between: ids, counters and places      *)
(* keep their types, for any number of processes, labels and objects.         *)
THEOREM LifeTypes == Spec => []TypeOK
<1>1. Spec => []LifeTypeInv
  BY TypesInit, TypesStep, PTL DEF Spec
<1>2. LifeTypeInv => TypeOK
  BY DEF LifeTypeInv
<1> QED BY <1>1, <1>2, PTL

-------------------------------------------------------------------------------
(* A step of one process leaves the others alone, and the file only grows. *)

Same(q) ==
  /\ pc'[q] = pc[q] /\ reopen'[q] = reopen[q] /\ n'[q] = n[q] /\ scon'[q] = scon[q]
  /\ contexts'[q] = contexts[q] /\ hashId'[q] = hashId[q] /\ hash'[q] = hash[q]
  /\ last'[q] = last[q] /\ knew'[q] = knew[q]

Others(p) == \A q \in Proc : q # p => Same(q)

Grow ==
  /\ \A i \in DOMAIN ids : i \in DOMAIN ids' /\ ids'[i] = ids[i]
  /\ \A l \in Rows(ids) : l \in Rows(ids')
  /\ (hasContext => hasContext') /\ (hasId => hasId') /\ (stamped => stamped')

LEMMA GotoOne ==
  ASSUME LifeTypeInv, NEW p \in Proc, NEW s, Goto(p, s)
  PROVE  pc'[p] = s /\ \A q \in Proc : q # p => pc'[q] = pc[q]
BY DEF Goto, LifeTypeInv, TypeOK

LEMMA IdsSame ==
  ASSUME ids' = ids
  PROVE  /\ \A i \in DOMAIN ids : i \in DOMAIN ids' /\ ids'[i] = ids[i]
         /\ \A l \in Rows(ids) : l \in Rows(ids')
BY DEF Rows

LEMMA OthersPlain ==
  ASSUME LifeTypeInv, NEW p \in Proc,
         \/ IsReopen(p) \/ CreateContext(p) \/ CreateId(p) \/ PrepareStmt(p) \/ StatementFails(p)
         \/ ObjectsDone(p) \/ CreateReserved(p) \/ LoadIds(p) \/ LoadObjects(p)
  PROVE  Others(p) /\ Grow /\ ids' = ids /\ objects' = objects
<1>1. /\ UNCHANGED <<ids, stamped, objects, n, scon, contexts, last>>
      /\ (hasContext => hasContext') /\ (hasId => hasId')
  BY DEF IsReopen, CreateContext, CreateId, PrepareStmt, StatementFails, ObjectsDone, CreateReserved,
         LoadIds, LoadObjects, disk, procs
<1>2. Grow
  BY <1>1, IdsSame DEF Grow
<1>3. \A q \in Proc : q # p => pc'[q] = pc[q]
  BY DEF IsReopen, CreateContext, CreateId, PrepareStmt, StatementFails, ObjectsDone, CreateReserved,
         LoadIds, LoadObjects, procs, LifeTypeInv, TypeOK, Goto
<1>4. \A q \in Proc : q # p => reopen'[q] = reopen[q] /\ knew'[q] = knew[q]
  BY DEF IsReopen, CreateContext, CreateId, PrepareStmt, StatementFails, ObjectsDone, CreateReserved,
         LoadIds, LoadObjects, procs, LifeTypeInv, TypeOK
<1>5. \A q \in Proc : q # p => hashId'[q] = hashId[q] /\ hash'[q] = hash[q]
  BY DEF IsReopen, CreateContext, CreateId, PrepareStmt, StatementFails, ObjectsDone, CreateReserved,
         LoadIds, LoadObjects, procs, LifeTypeInv, TypeOK
<1>6. Others(p)
  BY <1>1, <1>3, <1>4, <1>5 DEF Others, Same
<1> QED BY <1>1, <1>2, <1>6

LEMMA OthersQuiet ==
  ASSUME LifeTypeInv, NEW p \in Proc, ReadFile(p) \/ Update(p) \/ Open(p) \/ Crash(p)
  PROVE  Others(p) /\ Grow /\ ids' = ids /\ objects' = objects
<1>1. /\ UNCHANGED <<ids, objects, hasContext, hasId>> /\ (stamped => stamped')
  BY DEF ReadFile, Update, Open, Crash, disk
<1>2. Grow
  BY <1>1, IdsSame DEF Grow
<1>3. \A q \in Proc : q # p => pc'[q] = pc[q] /\ scon'[q] = scon[q]
  BY DEF ReadFile, Update, Open, Crash, LifeTypeInv, TypeOK, Goto
<1>4. \A q \in Proc : q # p => reopen'[q] = reopen[q] /\ knew'[q] = knew[q] /\ contexts'[q] = contexts[q]
  BY DEF ReadFile, Update, Open, Crash, LifeTypeInv, TypeOK
<1>5. \A q \in Proc : q # p => hashId'[q] = hashId[q] /\ hash'[q] = hash[q]
  BY DEF ReadFile, Update, Open, Crash, LifeTypeInv, TypeOK
<1>6. \A q \in Proc : q # p => last'[q] = last[q] /\ n'[q] = n[q]
  BY DEF ReadFile, Update, Open, Crash, LifeTypeInv, TypeOK
<1>7. Others(p)
  BY <1>3, <1>4, <1>5, <1>6 DEF Others, Same
<1> QED BY <1>1, <1>2, <1>7

LEMMA OthersMapping ==
  ASSUME LifeTypeInv, NEW p \in Proc, Mapping(p)
  PROVE  Others(p) /\ Grow /\ objects' = objects
<1> DEFINE l == TupleLabels[n[p]]
<1>1. /\ l \in Label /\ n[p] \in 1..Len(TupleLabels)
      /\ UNCHANGED <<hasContext, hasId, reserved, stamped, objects,
                     reopen, scon, contexts, hash, knew, slipped>>
  BY MappingCases
<1>2. \A q \in Proc : q # p => n'[q] = n[q] /\ pc'[q] = pc[q]
  BY MappingCases DEF Goto, LifeTypeInv, TypeOK
<1>3. CASE UNCHANGED <<ids, last, hashId>>
  BY <1>1, <1>2, <1>3, IdsSame DEF Others, Same, Grow
<1>4. CASE Inserted(p, l) /\ hashId' = [hashId EXCEPT ![p][l] = last'[p]]
  <2>1. /\ \A i \in DOMAIN ids : i \in DOMAIN ids' /\ ids'[i] = ids[i]
        /\ Rows(ids') = Rows(ids) \cup {l}
        /\ last'[p] \in 0..MaxId /\ \A q \in Proc : q # p => last'[q] = last[q]
    BY <1>1, <1>4, InsertedIds
  <2>2. \A q \in Proc : q # p => hashId'[q] = hashId[q]
    BY <1>1, <1>4, <2>1, HashIdType
  <2> QED BY <1>1, <1>2, <2>1, <2>2 DEF Others, Same, Grow
<1> QED BY <1>3, <1>4, MappingCases

LEMMA OthersObjectLabel ==
  ASSUME LifeTypeInv, NEW p \in Proc, ObjectLabel(p)
  PROVE  Others(p) /\ Grow /\ objects' = objects
<1> DEFINE l == ObjectLabels[n[p]]
<1>1. /\ l \in Label /\ n[p] \in Object
      /\ UNCHANGED <<hasContext, hasId, reserved, stamped, objects,
                     reopen, n, scon, contexts, knew>>
      /\ Goto(p, "objectRow")
  BY ObjectLabelCases
<1>2. \A q \in Proc : q # p => pc'[q] = pc[q]
  BY <1>1, GotoOne
<1>3. \A q \in Proc : q # p => hash'[q] = hash[q]
  <2>1. hash \in [Proc -> [Object -> 0..MaxId]] /\ hash' = [hash EXCEPT ![p][n[p]] = hashId'[p][l]]
    BY ObjectLabelCases DEF LifeTypeInv, TypeOK
  <2> QED BY <2>1
<1>4. CASE UNCHANGED <<ids, last, hashId>>
  BY <1>1, <1>2, <1>3, <1>4, IdsSame DEF Others, Same, Grow
<1>5. CASE Inserted(p, l) /\ hashId' = [hashId EXCEPT ![p][l] = last'[p]]
  <2>1. /\ \A i \in DOMAIN ids : i \in DOMAIN ids' /\ ids'[i] = ids[i]
        /\ Rows(ids') = Rows(ids) \cup {l}
        /\ last'[p] \in 0..MaxId /\ \A q \in Proc : q # p => last'[q] = last[q]
    BY <1>1, <1>5, InsertedIds
  <2>2. \A q \in Proc : q # p => hashId'[q] = hashId[q]
    BY <1>1, <1>5, <2>1, HashIdType
  <2> QED BY <1>1, <1>2, <1>3, <2>1, <2>2 DEF Others, Same, Grow
<1>6. CASE UNCHANGED <<ids, last>> /\ hashId' = [hashId EXCEPT ![p][l] = last'[p]]
  <2>1. last'[p] \in 0..MaxId
    BY <1>6 DEF LifeTypeInv, TypeOK
  <2>2. \A q \in Proc : q # p => hashId'[q] = hashId[q]
    BY <1>1, <1>6, <2>1, HashIdType
  <2> QED BY <1>1, <1>2, <1>3, <1>6, <2>2, IdsSame DEF Others, Same, Grow
<1> QED BY <1>4, <1>5, <1>6, ObjectLabelCases

LEMMA OthersObjectRow ==
  ASSUME LifeTypeInv, NEW p \in Proc, ObjectRow(p)
  PROVE  Others(p) /\ Grow /\ ids' = ids
<1>1. UNCHANGED <<hasContext, hasId, reserved, ids, stamped,
                  reopen, scon, contexts, hashId, hash, knew, slipped>>
  BY DEF ObjectRow
<1>L. last' \in [Proc -> 0..MaxId] /\ \A q \in Proc : q # p => last'[q] = last[q]
  BY RowidType
<1>2. \A q \in Proc : q # p => n'[q] = n[q] /\ pc'[q] = pc[q]
  BY DEF ObjectRow, Goto, LifeTypeInv, TypeOK
<1> QED BY <1>1, <1>L, <1>2, IdsSame DEF Others, Same, Grow

LEMMA OthersRegister ==
  ASSUME LifeTypeInv, NEW p \in Proc, RegisterSubject(p)
  PROVE  Others(p) /\ Grow /\ objects' = objects
<1> DEFINE l == scon[p]
<1>1. /\ l \in Label
      /\ UNCHANGED <<hasContext, hasId, reserved, stamped, objects,
                     reopen, n, scon, contexts, hash, knew>>
  BY RegisterCases
<1>2. \A q \in Proc : q # p => pc'[q] = pc[q]
  <2>1. Goto(p, "open") \/ Goto(p, "aborted")
    BY RegisterCases
  <2> QED BY <2>1, GotoOne
<1>3. CASE UNCHANGED <<ids, last, hashId>>
  BY <1>1, <1>2, <1>3, IdsSame DEF Others, Same, Grow
<1>4. CASE Inserted(p, l) /\ hashId' = [hashId EXCEPT ![p][l] = last'[p]]
  <2>1. /\ \A i \in DOMAIN ids : i \in DOMAIN ids' /\ ids'[i] = ids[i]
        /\ Rows(ids') = Rows(ids) \cup {l}
        /\ last'[p] \in 0..MaxId /\ \A q \in Proc : q # p => last'[q] = last[q]
    BY <1>1, <1>4, InsertedIds
  <2>2. \A q \in Proc : q # p => hashId'[q] = hashId[q]
    BY <1>1, <1>4, <2>1, HashIdType
  <2> QED BY <1>1, <1>2, <2>1, <2>2 DEF Others, Same, Grow
<1>5. CASE UNCHANGED <<ids, last>> /\ hashId' = [hashId EXCEPT ![p][l] = last'[p]]
  <2>1. last'[p] \in 0..MaxId
    BY <1>5 DEF LifeTypeInv, TypeOK
  <2>2. \A q \in Proc : q # p => hashId'[q] = hashId[q]
    BY <1>1, <1>5, <2>1, HashIdType
  <2> QED BY <1>1, <1>2, <1>5, <2>2, IdsSame DEF Others, Same, Grow
<1> QED BY <1>3, <1>4, <1>5, RegisterCases

-------------------------------------------------------------------------------
(* An open that knows its subject. *)

LEMMA KnownInit == Init => KnownInv
BY DEF Init, KnownInv

KnownOf(p) ==
  knew[p] =>
    /\ reopen[p] /\ hasContext /\ hasId /\ scon[p] \in Rows(ids)
    /\ pc[p] \in {"createContext", "createId", "prepare", "loadIds", "loadObjects", "scon",
                  "open"}
    /\ pc[p] \in {"loadObjects", "scon", "open"} => hashId[p][scon[p]] # 0

LEMMA KnownOthers ==
  ASSUME KnownInv, NEW p \in Proc, Others(p), Grow, KnownOf(p)'
  PROVE  KnownInv'
<1> SUFFICES ASSUME NEW q \in Proc PROVE KnownOf(q)'
  BY DEF KnownInv, KnownOf
<1>1. CASE q = p
  BY <1>1
<1>2. CASE q # p
  <2>1. Same(q)
    BY <1>2 DEF Others
  <2>2. KnownOf(q)
    BY DEF KnownInv, KnownOf
  <2> QED BY <2>1, <2>2 DEF Same, Grow, KnownOf
<1> QED BY <1>1, <1>2

LEMMA KnownStep ==
  ASSUME LifeTypeInv, LifeTypeInv', KnownInv, NEW p \in Proc,
         Step(p) \/ Open(p) \/ Crash(p) \/ CreateReserved(p)
  PROVE  KnownInv'
<1>0. KnownOf(p) /\ knew \in [Proc -> BOOLEAN] /\ pc \in [Proc -> Places] /\ reopen \in [Proc -> BOOLEAN]
  BY DEF KnownInv, KnownOf, LifeTypeInv, TypeOK, Places
<1>1. CASE IsReopen(p)
  <2>1. PICK count \in {InternalTables} \cup (IF ReadMayFail THEN {0} ELSE {}) :
          /\ Goto(p, IF count \in {0, 2} THEN "createContext" ELSE "failed")
          /\ reopen' = [reopen EXCEPT ![p] = count = 2]
          /\ knew' = [knew EXCEPT ![p] = count = 2 /\ hasContext /\ hasId /\ scon[p] \in Rows(ids)]
          /\ UNCHANGED <<disk, scon>>
    BY <1>1 DEF IsReopen
  <2>2. /\ knew'[p] <=> count = 2 /\ hasContext /\ hasId /\ scon[p] \in Rows(ids)
        /\ reopen'[p] <=> count = 2
    BY <1>0, <2>1
  <2>3. knew'[p] => pc'[p] = "createContext"
    BY <1>0, <2>1, <2>2 DEF Goto
  <2>4. KnownOf(p)'
    BY <2>1, <2>2, <2>3 DEF KnownOf, disk
  <2> QED BY <1>1, <2>4, OthersPlain, KnownOthers
<1>f. CASE StatementFails(p)
  <2>1. ~knew'[p]
    BY <1>0, <1>f DEF StatementFails
  <2>2. KnownOf(p)'
    BY <2>1 DEF KnownOf
  <2> QED BY <1>f, <2>2, OthersPlain, KnownOthers
<1>2. CASE CreateContext(p) \/ CreateId(p) \/ PrepareStmt(p) \/ ObjectsDone(p)
  <2>1. /\ UNCHANGED <<ids, reopen, scon, hashId, knew>>
        /\ (hasContext => hasContext') /\ (hasId => hasId')
    BY <1>2 DEF CreateContext, CreateId, PrepareStmt, ObjectsDone, disk
  <2>2. knew[p] => pc'[p] \in {"createId", "prepare", "loadIds"}
    BY <1>0, <1>2 DEF CreateContext, CreateId, PrepareStmt, ObjectsDone, Goto, KnownOf
  <2>3. KnownOf(p)'
    BY <1>0, <2>1, <2>2 DEF KnownOf
  <2> QED BY <1>2, <2>3, OthersPlain, KnownOthers
<1>3. CASE LoadIds(p)
  <2>1. PICK k \in {Len(ids)} \cup (IF ReadMayFail THEN 0..Len(ids) ELSE {}) :
          /\ hashId' = [hashId EXCEPT ![p] = IdsOf(SubSeq(ids, 1, k))]
          /\ knew' = [knew EXCEPT ![p] = @ /\ k = Len(ids)]
    BY <1>3 DEF LoadIds
  <2>2. UNCHANGED <<disk, reopen, scon>> /\ Goto(p, "loadObjects")
    BY <1>3 DEF LoadIds
  <2>3. k \in 0..Len(ids)
    BY DEF LifeTypeInv, TypeOK
  <2>4. pc'[p] = "loadObjects"
    BY <2>2, GotoOne
  <2>5. knew'[p] => knew[p] /\ k = Len(ids)
    BY <1>0, <2>1
  <2>6. hashId'[p] = IdsOf(SubSeq(ids, 1, k)) /\ scon[p] \in Label
    BY <2>1, SubjectAssumption DEF LifeTypeInv, TypeOK
  <2>7. knew'[p] => hashId'[p][scon[p]] # 0
    BY <1>0, <2>3, <2>5, <2>6, IdsOfType DEF KnownOf
  <2>8. KnownOf(p)'
    BY <1>0, <2>2, <2>4, <2>5, <2>7 DEF KnownOf, disk
  <2> QED BY <1>3, <2>8, OthersPlain, KnownOthers
<1>4. CASE LoadObjects(p)
  <2>1. UNCHANGED <<disk, reopen, scon, hashId, knew>> /\ Goto(p, "scon") /\ pc[p] = "loadObjects"
    BY <1>4 DEF LoadObjects
  <2>2. pc'[p] = "scon"
    BY <2>1, GotoOne
  <2>3. KnownOf(p)'
    BY <1>0, <2>1, <2>2 DEF KnownOf, disk
  <2> QED BY <1>4, <2>3, OthersPlain, KnownOthers
<1>5. CASE ReadFile(p) \/ Update(p)
  <2>1. ~knew[p] /\ knew' = knew
    BY <1>0, <1>5 DEF ReadFile, Update, KnownOf
  <2>2. KnownOf(p)'
    BY <2>1 DEF KnownOf
  <2> QED BY <1>5, <2>2, OthersQuiet, KnownOthers
<1>6. CASE Open(p) \/ Crash(p)
  <2>1. ~knew'[p]
    BY <1>0, <1>6 DEF Open, Crash
  <2>2. KnownOf(p)'
    BY <2>1 DEF KnownOf
  <2> QED BY <1>6, <2>2, OthersQuiet, KnownOthers
<1>7. CASE Mapping(p)
  <2>1. ~knew[p] /\ knew' = knew
    BY <1>0, <1>7 DEF Mapping, KnownOf
  <2>2. KnownOf(p)'
    BY <2>1 DEF KnownOf
  <2> QED BY <1>7, <2>2, OthersMapping, KnownOthers
<1>8. CASE ObjectLabel(p)
  <2>1. ~knew[p] /\ knew' = knew
    BY <1>0, <1>8 DEF ObjectLabel, KnownOf
  <2>2. KnownOf(p)'
    BY <2>1 DEF KnownOf
  <2> QED BY <1>8, <2>2, OthersObjectLabel, KnownOthers
<1>9. CASE ObjectRow(p)
  <2>1. ~knew[p] /\ knew' = knew
    BY <1>0, <1>9 DEF ObjectRow, KnownOf
  <2>2. KnownOf(p)'
    BY <2>1 DEF KnownOf
  <2> QED BY <1>9, <2>2, OthersObjectRow, KnownOthers
<1>10. CASE RegisterSubject(p)
  <2>1. UNCHANGED <<hasContext, hasId, reopen, scon, knew>> /\ pc[p] = "scon"
    BY <1>10, RegisterCases
  <2>2. CASE ~knew[p]
    <3>1. KnownOf(p)'
      BY <2>1, <2>2 DEF KnownOf
    <3> QED BY <1>10, <3>1, OthersRegister, KnownOthers
  <2>3. CASE knew[p]
    <3>1. hashId[p][scon[p]] # 0
      BY <1>0, <2>1, <2>3 DEF KnownOf
    <3>2. Goto(p, "open") /\ UNCHANGED <<ids, hashId>>
      BY <1>10, <3>1, RegisterCases
    <3>3. pc'[p] = "open"
      BY <3>2, GotoOne
    <3>4. KnownOf(p)'
      BY <1>0, <2>1, <2>3, <3>1, <3>2, <3>3 DEF KnownOf
    <3> QED BY <1>10, <3>4, OthersRegister, KnownOthers
  <2> QED BY <2>2, <2>3
<1>11. CASE CreateReserved(p)
  <2>1. UNCHANGED <<ids, hasContext, hasId, reopen, scon, knew, pc, hashId>>
    BY <1>11 DEF CreateReserved, procs
  <2>2. KnownOf(p)'
    BY <1>0, <2>1 DEF KnownOf
  <2> QED BY <1>11, <2>2, OthersPlain, KnownOthers
<1> QED BY <1>f, <1>1, <1>2, <1>3, <1>4, <1>5, <1>6, <1>7, <1>8, <1>9, <1>10, <1>11 DEF Step

(* An open that finds both tables and its own row, and none of whose own       *)
(* statements returns an error, neither fails nor runs into an assertion: it   *)
(* needs no contexts file, and no other process can take the row away.         *)
THEOREM KnownSubjectIsSafe == Spec => []KnownSubjectSafe
<1>1. Spec => []LifeTypeInv
  BY TypesInit, TypesStep, PTL DEF Spec
<1>2. LifeTypeInv /\ KnownInv /\ LifeTypeInv' /\ [Next]_vars => KnownInv'
  <2> SUFFICES ASSUME LifeTypeInv, KnownInv, LifeTypeInv', [Next]_vars PROVE KnownInv'
    OBVIOUS
  <2>1. CASE UNCHANGED vars
    BY <2>1 DEF vars, disk, procs, KnownInv
  <2> QED BY <2>1, KnownStep DEF Next
<1>3. KnownInv => KnownSubjectSafe
  BY DEF KnownInv, KnownSubjectSafe
<1> QED BY <1>1, <1>2, <1>3, KnownInit, PTL DEF Spec

-------------------------------------------------------------------------------
(* The first open and the later ones. *)

LEMMA KnownDone ==
  ASSUME LifeTypeInv, NEW q \in Proc, Truthful(q), NEW s \in Subject, hashId[q][s] # 0
  PROVE  s \in Rows(ids) /\ Done
<1>1. s \in Label
  BY SubjectAssumption
<1>2. hashId[q][s] \in DOMAIN ids /\ ids[hashId[q][s]] = s
  BY <1>1 DEF Truthful
<1>3. s \in Rows(ids)
  BY <1>2 DEF Rows
<1> QED BY <1>3 DEF Done

LEMMA CompleteLabels ==
  ASSUME Complete
  PROVE  \A l \in NeededLabels : l \in Rows(ids)
<1>1. ASSUME NEW o \in Object PROVE ObjectLabels[o] \in Rows(ids)
  BY DEF Complete, Rows
<1> QED BY <1>1 DEF Complete, NeededLabels, Rows, Object

LEMMA NeededFacts ==
  /\ \A l \in NeededLabels : l \in Label /\ l \notin Subject
  /\ \A i \in 1..Len(TupleLabels) : TupleLabels[i] \in NeededLabels
  /\ \A o \in Object : ObjectLabels[o] \in NeededLabels
BY FileFacts, SubjectAssumption DEF NeededLabels, Rows, Object

LEMMA CompleteGrows ==
  ASSUME Complete, Grow, objects' = objects
  PROVE  Complete'
BY DEF Complete, Grow

LEMMA InitOthers ==
  ASSUME LifeTypeInv, FileInv, NEW p \in Proc, Others(p), Grow,
         \A q \in Proc : ProcInv(q),
         objects' = objects \/ ~Done,
         \A q \in Proc : q # p /\ Leads(q) => ids' = ids /\ objects' = objects /\ ~Leads(p)'
  PROVE  \A q \in Proc : q # p => ProcInv(q)'
<1> SUFFICES ASSUME NEW q \in Proc, q # p PROVE ProcInv(q)'
  OBVIOUS
<1>0. /\ Truthful(q) /\ TablesInv(q) /\ EarlyInv(q) /\ ContextsInv(q) /\ LoadedInv(q)
      /\ OpenInv(q) /\ (Leads(q) => LeaderInv(q))
  BY DEF ProcInv
<1>1. /\ pc'[q] = pc[q] /\ reopen'[q] = reopen[q] /\ n'[q] = n[q] /\ scon'[q] = scon[q]
      /\ contexts'[q] = contexts[q] /\ hashId'[q] = hashId[q] /\ hash'[q] = hash[q]
      /\ last'[q] = last[q]
  BY DEF Others, Same
<1>2. Done => Done'
  BY DEF Done, Grow
<1>3. Truthful(q)'
  BY <1>0, <1>1 DEF Truthful, Grow
<1>4. TablesInv(q)' /\ EarlyInv(q)' /\ OpenInv(q)'
  BY <1>0, <1>1 DEF TablesInv, EarlyInv, OpenInv, Grow
<1>5. ContextsInv(q)'
  BY <1>0, <1>1, <1>2 DEF ContextsInv
<1>6. LoadedInv(q)'
  <2> SUFFICES ASSUME contexts[q] \/ \E s \in Subject : hashId[q][s] # 0
               PROVE  /\ pc[q] \in {"loadObjects", "open"} \/ (pc[q] = "scon" /\ reopen[q])
                           => \A l \in NeededLabels : hashId[q][l] # 0
                      /\ pc[q] = "open" \/ (pc[q] = "scon" /\ reopen[q]) => hash[q] = objects'
    BY <1>1 DEF LoadedInv
  <2>1. pc[q] = "open" \/ (pc[q] = "scon" /\ reopen[q]) => Done
    BY <1>0, KnownDone DEF ContextsInv
  <2> QED BY <1>0, <2>1 DEF LoadedInv
<1>7. Leads(q)' => LeaderInv(q)'
  <2> SUFFICES ASSUME Leads(q)' PROVE LeaderInv(q)'
    OBVIOUS
  <2>1. Leads(q)
    BY <1>1 DEF Leads
  <2>2. LeaderInv(q) /\ ids' = ids /\ objects' = objects /\ ~Leads(p)'
    BY <1>0, <2>1
  <2>3. ASSUME NEW r \in Proc, Leads(r)' PROVE r = q
    <3>1. r # p
      BY <2>2, <2>3
    <3>2. Leads(r)
      BY <2>3, <3>1 DEF Others, Same, Leads
    <3> QED BY <2>2, <3>2 DEF LeaderInv
  <2>4. ~Done'
    BY <2>2 DEF LeaderInv, Done
  <2>5. /\ \A l \in Rows(ids)' : hashId'[q][l] # 0
        /\ FirstLabel \in Rows(ids)'
    BY <1>1, <2>2 DEF LeaderInv
  <2>6. /\ pc'[q] = "mapping" => \A i \in 1..(n'[q] - 1) : hashId'[q][TupleLabels[i]] # 0
        /\ pc'[q] # "mapping" => stamped' /\ \A l \in Rows(TupleLabels) : hashId'[q][l] # 0
    BY <1>1, <2>2 DEF LeaderInv, Grow
  <2>7. \A o : Stored(q, o)' <=> Stored(q, o)
    BY <1>1, <2>2 DEF Stored, Labelled
  <2>8. \A o : Labelled(q, o)' <=> Labelled(q, o)
    BY <1>1 DEF Labelled
  <2>9. /\ pc'[q] \in {"objectLabel", "objectRow"} => \A o \in 1..(n'[q] - 1) : Stored(q, o)'
        /\ pc'[q] = "objectRow" => Labelled(q, n[q])'
        /\ pc'[q] = "scon" => \A o \in Object : Stored(q, o)'
    BY <1>1, <2>2, <2>7, <2>8 DEF LeaderInv
  <2>10. pc'[q] = "objectRow" => Labelled(q, n[q])'
    BY <2>9
  <2> QED BY <1>1, <2>3, <2>4, <2>5, <2>6, <2>9, <2>10 DEF LeaderInv
<1> QED BY <1>3, <1>4, <1>5, <1>6, <1>7 DEF ProcInv

LEMMA Quiet ==
  ASSUME LifeTypeInv, InitInv, ~slipped, NEW p \in Proc, Others(p), Grow, ids' = ids,
         objects' = objects, Leads(p)' => Leads(p), ProcInv(p)'
  PROVE  InitInv'
<1>1. FileInv /\ \A q \in Proc : ProcInv(q)
  BY DEF InitInv
<1>2. \A q \in Proc : q # p /\ Leads(q) => ids' = ids /\ objects' = objects /\ ~Leads(p)'
  BY <1>1 DEF ProcInv, LeaderInv
<1>3. \A q \in Proc : q # p => ProcInv(q)'
  BY <1>1, <1>2, InitOthers
<1>4. FileInv'
  <2>1. Complete => Complete'
    BY CompleteGrows
  <2>2. Done' => Done
    BY DEF Done, Rows
  <2> QED BY <1>1, <2>1, <2>2 DEF FileInv, Rows
<1> QED BY <1>3, <1>4 DEF InitInv

LEMMA OwnInv ==
  ASSUME InitInv, ~slipped, NEW p \in Proc
  PROVE  /\ FileInv /\ Truthful(p) /\ TablesInv(p) /\ EarlyInv(p) /\ ContextsInv(p)
         /\ LoadedInv(p) /\ OpenInv(p) /\ (Leads(p) => LeaderInv(p))
BY DEF InitInv, ProcInv

(* The steps before anything is read or written. *)
LEMMA InitTables ==
  ASSUME LifeTypeInv, InitInv, NEW p \in Proc, ~slipped',
         IsReopen(p) \/ CreateContext(p) \/ CreateId(p) \/ PrepareStmt(p) \/ StatementFails(p)
  PROVE  InitInv'
<1>1. UNCHANGED <<ids, stamped, objects, n, scon, contexts, hashId, hash, last, slipped>>
  BY DEF IsReopen, CreateContext, CreateId, PrepareStmt, StatementFails, disk
<1>2. Others(p) /\ Grow
  BY OthersPlain
<1>3. Truthful(p) /\ EarlyInv(p) /\ TablesInv(p) /\ ContextsInv(p)
  BY <1>1, OwnInv
<1>4. pc'[p] \in {"createContext", "failed", "createId", "prepare", "loadIds", "readFile"}
  BY DEF IsReopen, CreateContext, CreateId, PrepareStmt, StatementFails, Goto, LifeTypeInv, TypeOK
<1>5. /\ pc'[p] = "failed" \/ pc[p] \in {"isReopen", "createContext", "createId", "prepare"}
      /\ pc'[p] = "createId" => hasContext'
      /\ pc'[p] \in {"prepare", "loadIds", "readFile"} => hasContext' /\ hasId'
      /\ pc'[p] = "loadIds" => reopen'[p]
      /\ pc'[p] = "readFile" => ~reopen'[p]
  <2>1. CASE IsReopen(p)
    BY <2>1 DEF IsReopen, Goto, LifeTypeInv, TypeOK
  <2>2. CASE CreateContext(p)
    BY <2>2 DEF CreateContext, Goto, LifeTypeInv, TypeOK
  <2>3. CASE CreateId(p)
    BY <2>3, <1>3 DEF CreateId, Goto, LifeTypeInv, TypeOK, TablesInv
  <2>4. CASE PrepareStmt(p)
    BY <2>4, <1>3 DEF PrepareStmt, Goto, LifeTypeInv, TypeOK, TablesInv, disk
  <2>5. CASE StatementFails(p)
    BY <2>5 DEF StatementFails, Goto, LifeTypeInv, TypeOK
  <2> QED BY <2>1, <2>2, <2>3, <2>4, <2>5
<1>6. ~Leads(p)'
  BY <1>4 DEF Leads
<1>7. Truthful(p)'
  BY <1>1, <1>3 DEF Truthful
<1>8. TablesInv(p)' /\ OpenInv(p)' /\ LoadedInv(p)'
  BY <1>4, <1>5 DEF TablesInv, OpenInv, LoadedInv
<1>9. EarlyInv(p)'
  BY <1>1, <1>3, <1>4, <1>5 DEF EarlyInv
<1>10. ContextsInv(p)'
  <2>1. Done' <=> Done
    BY <1>1 DEF Done
  <2> QED BY <1>1, <1>3, <1>4, <1>5, <2>1 DEF ContextsInv
<1>11. ProcInv(p)'
  BY <1>6, <1>7, <1>8, <1>9, <1>10 DEF ProcInv
<1> QED BY <1>1, <1>2, <1>6, <1>11, Quiet

LEMMA InitReserved ==
  ASSUME LifeTypeInv, InitInv, NEW p \in Proc, ~slipped', CreateReserved(p)
  PROVE  InitInv'
<1>1. UNCHANGED <<hasContext, hasId, ids, stamped, objects, procs>>
  BY DEF CreateReserved
<1>2. ProcInv(p) /\ ~slipped
  BY <1>1 DEF InitInv, procs
<1>3. Leads(p)' <=> Leads(p)
  BY <1>1 DEF Leads, procs
<1>4. ProcInv(p)'
  BY <1>1, <1>2 DEF ProcInv, Truthful, TablesInv, EarlyInv, ContextsInv, LoadedInv, OpenInv,
                    Leads, LeaderInv, Done, Stored, Labelled, procs
<1>5. Others(p) /\ Grow /\ ids' = ids /\ objects' = objects
  BY OthersPlain
<1> QED BY <1>2, <1>3, <1>4, <1>5, Quiet

LEMMA InitLoadIds ==
  ASSUME LifeTypeInv, InitInv, NEW p \in Proc, ~slipped', LoadIds(p)
  PROVE  InitInv'
<1>1. PICK k \in {Len(ids)} \cup (IF ReadMayFail THEN 0..Len(ids) ELSE {}) :
        /\ hashId' = [hashId EXCEPT ![p] = IdsOf(SubSeq(ids, 1, k))]
        /\ slipped' = (slipped \/ k < Len(ids))
  BY DEF LoadIds
<1>2. /\ UNCHANGED <<disk, reopen, n, scon, contexts, hash, last>>
      /\ pc[p] = "loadIds" /\ Goto(p, "loadObjects")
  BY DEF LoadIds
<1>3. ~slipped /\ k = Len(ids) /\ k \in 0..Len(ids)
  <2>1. slipped' = (slipped \/ k < Len(ids)) /\ slipped \in BOOLEAN
    BY <1>1 DEF LifeTypeInv
  <2>2. ~slipped /\ ~(k < Len(ids))
    BY <2>1
  <2>3. Len(ids) \in Nat
    BY DEF LifeTypeInv, TypeOK
  <2>4. k \in 0..Len(ids)
    BY <2>3
  <2> QED BY <2>2, <2>3, <2>4
<1>4. pc'[p] = "loadObjects"
  BY <1>2, GotoOne
<1>5. hashId'[p] = IdsOf(SubSeq(ids, 1, k))
  BY <1>1 DEF LifeTypeInv, TypeOK
<1>6. /\ FileInv /\ EarlyInv(p) /\ TablesInv(p) /\ ContextsInv(p)
  BY <1>3, OwnInv
<1>7. ids' = ids /\ objects' = objects /\ hasContext' = hasContext /\ hasId' = hasId
  BY <1>2 DEF disk
<1>8. Truthful(p)'
  BY <1>3, <1>5, <1>7, IdsOfType DEF Truthful
<1>9. TablesInv(p)' /\ OpenInv(p)'
  BY <1>2, <1>4, <1>6, <1>7 DEF TablesInv, OpenInv
<1>10. EarlyInv(p)'
  BY <1>2, <1>4, <1>6 DEF EarlyInv
<1>11. Done' <=> Done
  BY <1>7 DEF Done
<1>12. ContextsInv(p)'
  BY <1>2, <1>4, <1>6, <1>11 DEF ContextsInv
<1>13. LoadedInv(p)'
  <2> SUFFICES ASSUME contexts'[p] \/ \E s \in Subject : hashId'[p][s] # 0,
                      NEW l \in NeededLabels
               PROVE  hashId'[p][l] # 0
    BY <1>4 DEF LoadedInv
  <2>1. Done
    <3>1. CASE contexts'[p]
      BY <3>1, <1>2, <1>6 DEF ContextsInv
    <3>2. CASE \E s \in Subject : hashId'[p][s] # 0
      <4>1. PICK s \in Subject : hashId'[p][s] # 0
        BY <3>2
      <4>2. s \in Label
        BY SubjectAssumption
      <4>3. hashId'[p][s] \in DOMAIN ids /\ ids[hashId'[p][s]] = s
        BY <1>7, <1>8, <4>1, <4>2 DEF Truthful
      <4> QED BY <4>3 DEF Done, Rows
    <3> QED BY <3>1, <3>2
  <2>2. l \in Rows(ids) /\ l \in Label
    BY <1>6, <2>1, CompleteLabels, NeededFacts DEF FileInv
  <2> QED BY <2>2, <1>3, <1>5, IdsOfType
<1>14. ~Leads(p)'
  BY <1>4 DEF Leads
<1>15. ProcInv(p)'
  BY <1>8, <1>9, <1>10, <1>12, <1>13, <1>14 DEF ProcInv
<1>16. Others(p) /\ Grow
  BY OthersPlain
<1> QED BY <1>3, <1>7, <1>14, <1>15, <1>16, Quiet

LEMMA InitLoadObjects ==
  ASSUME LifeTypeInv, InitInv, NEW p \in Proc, ~slipped', LoadObjects(p)
  PROVE  InitInv'
<1>1. PICK k \in {Len(ObjectLabels)} \cup (IF ReadMayFail THEN 0..Len(ObjectLabels) ELSE {}) :
        /\ hash' = [hash EXCEPT ![p] = [o \in Object |-> IF o <= k THEN objects[o] ELSE 0]]
        /\ slipped' = (slipped \/ k < Len(ObjectLabels))
  BY DEF LoadObjects
<1>2. /\ UNCHANGED <<disk, reopen, n, scon, contexts, hashId, last>>
      /\ pc[p] = "loadObjects" /\ Goto(p, "scon")
  BY DEF LoadObjects
<1>3. ~slipped /\ k = Len(ObjectLabels)
  <2>1. slipped' = (slipped \/ k < Len(ObjectLabels)) /\ slipped \in BOOLEAN
    BY <1>1 DEF LifeTypeInv
  <2>2. ~slipped /\ ~(k < Len(ObjectLabels))
    BY <2>1
  <2>3. Len(ObjectLabels) \in Nat
    BY FileFacts
  <2>4. k \in 0..Len(ObjectLabels)
    BY <2>3
  <2> QED BY <2>2, <2>3, <2>4
<1>4. pc'[p] = "scon"
  BY <1>2, GotoOne
<1>5. hash'[p] = objects
  <2>1. hash'[p] = [o \in Object |-> IF o <= k THEN objects[o] ELSE 0]
    BY <1>1 DEF LifeTypeInv, TypeOK
  <2>2. objects = [o \in Object |-> objects[o]]
    BY DEF LifeTypeInv, TypeOK
  <2>3. \A o \in Object : o <= k
    BY <1>3, FileFacts
  <2> QED BY <2>1, <2>2, <2>3
<1>6. /\ Truthful(p) /\ EarlyInv(p) /\ TablesInv(p) /\ ContextsInv(p) /\ LoadedInv(p)
  BY <1>3, OwnInv
<1>7. ids' = ids /\ objects' = objects /\ hasContext' = hasContext /\ hasId' = hasId
  BY <1>2 DEF disk
<1>8. Truthful(p)'
  BY <1>2, <1>6, <1>7 DEF Truthful
<1>9. TablesInv(p)' /\ OpenInv(p)'
  BY <1>2, <1>4, <1>6, <1>7 DEF TablesInv, OpenInv
<1>10. EarlyInv(p)' /\ reopen'[p]
  BY <1>2, <1>4, <1>6 DEF EarlyInv
<1>11. Done' <=> Done
  BY <1>7 DEF Done
<1>12. ContextsInv(p)'
  BY <1>2, <1>4, <1>6, <1>11 DEF ContextsInv
<1>13. LoadedInv(p)'
  BY <1>2, <1>4, <1>5, <1>6, <1>7 DEF LoadedInv
<1>14. ~Leads(p)'
  BY <1>4, <1>10 DEF Leads
<1>15. ProcInv(p)'
  BY <1>8, <1>9, <1>10, <1>12, <1>13, <1>14 DEF ProcInv
<1>16. Others(p) /\ Grow
  BY OthersPlain
<1> QED BY <1>3, <1>7, <1>14, <1>15, <1>16, Quiet

LEMMA InitReadFile ==
  ASSUME LifeTypeInv, InitInv, NEW p \in Proc, ~slipped', ReadFile(p)
  PROVE  InitInv'
<1>1. /\ UNCHANGED <<disk, reopen, scon, hashId, hash, last, knew, slipped>>
      /\ pc[p] = "readFile" /\ n' = [n EXCEPT ![p] = 1]
  BY DEF ReadFile
<1>2. pc'[p] \in {"mapping", "failed"}
  BY DEF ReadFile, Goto, LifeTypeInv, TypeOK
<1>3. n'[p] = 1
  BY <1>1 DEF LifeTypeInv, TypeOK
<1>4. Truthful(p) /\ EarlyInv(p) /\ TablesInv(p)
  BY <1>1, OwnInv
<1>5. ids' = ids /\ objects' = objects /\ hasContext' = hasContext /\ hasId' = hasId
  BY <1>1 DEF disk
<1>6. Truthful(p)' /\ TablesInv(p)' /\ OpenInv(p)' /\ LoadedInv(p)' /\ ContextsInv(p)'
  BY <1>1, <1>2, <1>4, <1>5 DEF Truthful, TablesInv, OpenInv, LoadedInv, ContextsInv
<1>7. EarlyInv(p)'
  BY <1>1, <1>2, <1>3, <1>4 DEF EarlyInv
<1>8. ~Leads(p)'
  BY <1>2, <1>3 DEF Leads
<1>9. ProcInv(p)'
  BY <1>6, <1>7, <1>8 DEF ProcInv
<1>10. Others(p) /\ Grow /\ ~slipped
  BY <1>1, OthersQuiet
<1> QED BY <1>5, <1>8, <1>9, <1>10, Quiet

LEMMA InitOpenCrash ==
  ASSUME LifeTypeInv, InitInv, NEW p \in Proc, ~slipped', Open(p) \/ Crash(p)
  PROVE  InitInv'
<1>1. /\ UNCHANGED disk /\ hashId' = [hashId EXCEPT ![p] = NoHashId]
      /\ hash' = [hash EXCEPT ![p] = NoHash] /\ last' = [last EXCEPT ![p] = 0] /\ ~slipped
  <2>1. CASE Open(p)
    <3>1. /\ slipped' = (slipped \/ (pc[p] = "failed" /\ contexts[p] /\ Subject \cap Rows(ids) = {}))
          /\ slipped \in BOOLEAN
      BY <2>1 DEF Open, LifeTypeInv
    <3>2. ~slipped
      BY <3>1
    <3> QED BY <2>1, <3>2 DEF Open
  <2>2. CASE Crash(p)
    BY <2>2 DEF Crash
  <2> QED BY <2>1, <2>2
<1>2. hashId'[p] = NoHashId /\ last'[p] = 0
  BY <1>1, ResetMaps
<1>3. Truthful(p) /\ ContextsInv(p) /\ OpenInv(p)
  BY <1>1, OwnInv
<1>4. ids' = ids /\ objects' = objects
  BY <1>1 DEF disk
<1>5. Truthful(p)'
  BY <1>2 DEF Truthful, NoHashId
<1>6. CASE Crash(p)
  <2>1. pc'[p] = "down" /\ ~contexts'[p]
    BY <1>6 DEF Crash, Goto, LifeTypeInv, TypeOK
  <2>2. TablesInv(p)' /\ EarlyInv(p)' /\ ContextsInv(p)' /\ LoadedInv(p)' /\ OpenInv(p)' /\ ~Leads(p)'
    BY <2>1 DEF TablesInv, EarlyInv, ContextsInv, LoadedInv, OpenInv, Leads
  <2>3. ProcInv(p)'
    BY <1>5, <2>2 DEF ProcInv
  <2> QED BY <1>1, <1>4, <1>6, <2>2, <2>3, OthersQuiet, Quiet
<1>7. CASE Open(p)
  <2>1. pc'[p] = "isReopen" /\ contexts' = contexts
    BY <1>7, GotoOne DEF Open
  <2>2. contexts[p] => Done
    <3> SUFFICES ASSUME contexts[p] PROVE Done
      OBVIOUS
    <3>1. CASE pc[p] = "open"
      BY <3>1, <1>3 DEF ContextsInv
    <3>2. CASE pc[p] = "failed"
      <4>1. Subject \cap Rows(ids) # {}
        BY <3>2, <1>7 DEF Open
      <4> QED BY <4>1 DEF Done
    <3> QED BY <3>1, <3>2, <1>3, <1>7 DEF Open, ContextsInv
  <2>3. Done => Done'
    BY <1>4 DEF Done
  <2>4. TablesInv(p)' /\ EarlyInv(p)' /\ ContextsInv(p)' /\ LoadedInv(p)' /\ OpenInv(p)' /\ ~Leads(p)'
    BY <1>2, <2>1, <2>2, <2>3 DEF TablesInv, EarlyInv, ContextsInv, LoadedInv, OpenInv, Leads
  <2>5. ProcInv(p)'
    BY <1>5, <2>4 DEF ProcInv
  <2> QED BY <1>1, <1>4, <1>7, <2>4, <2>5, OthersQuiet, Quiet
<1> QED BY <1>6, <1>7

(* The end of an insertion: no other process leads, and the row is neither a  *)
(* subject's nor the first of an unfinished table.                            *)
LEMMA FileInsert ==
  ASSUME LifeTypeInv, FileInv, NEW p \in Proc, NEW l \in Label, Inserted(p, l), Grow,
         objects' = objects, FirstLabel \in Rows(ids) \/ l = FirstLabel,
         Complete \/ ~Done'
  PROVE  FileInv'
<1>1. /\ l \notin Rows(ids) /\ DOMAIN ids' = DOMAIN ids \cup {Len(ids) + 1}
      /\ \A i \in DOMAIN ids : ids'[i] = ids[i]
      /\ ids'[Len(ids) + 1] = l /\ Rows(ids') = Rows(ids) \cup {l}
  BY InsertedIds
<1>2. \A i \in DOMAIN ids : ids[i] # l
  BY <1>1 DEF Rows
<1>3. \A i, j \in DOMAIN ids' : ids'[i] = ids'[j] => i = j
  BY <1>1, <1>2 DEF FileInv
<1>4. FirstLabel \in Rows(ids')
  BY <1>1
<1>5. Done' => Complete'
  BY CompleteGrows
<1> QED BY <1>3, <1>4, <1>5 DEF FileInv

(* No other process leads while p does. *)
LEMMA OnlyLeader ==
  ASSUME InitInv, ~slipped, NEW p \in Proc, Leads(p)
  PROVE  ~Done /\ \A q \in Proc : q # p => ~Leads(q)
BY DEF InitInv, ProcInv, LeaderInv

LEMMA InitObjectsDone ==
  ASSUME LifeTypeInv, InitInv, NEW p \in Proc, ~slipped', ObjectsDone(p)
  PROVE  InitInv'
<1>1. /\ UNCHANGED <<disk, reopen, n, scon, contexts, hashId, hash, last, knew, slipped>>
      /\ pc[p] = "objectLabel" /\ n[p] \notin Object /\ Goto(p, "scon")
  BY DEF ObjectsDone
<1>2. pc'[p] = "scon"
  BY <1>1, GotoOne
<1>3. /\ Truthful(p) /\ TablesInv(p) /\ EarlyInv(p) /\ Leads(p) /\ LeaderInv(p) /\ ~slipped
  BY <1>1, OwnInv DEF Leads
<1>4. n[p] = Len(ObjectLabels) + 1
  <2>1. n[p] \in Nat /\ n[p] >= 1 /\ n[p] <= Len(ObjectLabels) + 1
    BY <1>1, FileFacts DEF LifeTypeInv, TypeOK, CountersOK
  <2> QED BY <1>1, <2>1, FileFacts
<1>5. \A o \in Object : Stored(p, o)
  <2>1. \A o \in Object : o \in 1..(n[p] - 1)
    BY <1>4, FileFacts
  <2> QED BY <1>1, <1>3, <2>1 DEF LeaderInv
<1>6. /\ ids' = ids /\ objects' = objects /\ hasContext' = hasContext /\ hasId' = hasId
      /\ stamped' = stamped
  BY <1>1 DEF disk
<1>7. Others(p) /\ Grow
  BY OthersPlain
<1>8. ~reopen'[p]
  BY <1>1, <1>3 DEF EarlyInv
<1>9. Truthful(p)' /\ TablesInv(p)' /\ EarlyInv(p)' /\ ContextsInv(p)' /\ LoadedInv(p)' /\ OpenInv(p)'
  BY <1>1, <1>2, <1>3, <1>6, <1>8 DEF Truthful, TablesInv, EarlyInv, ContextsInv, LoadedInv, OpenInv
<1>10. LeaderInv(p)'
  <2>1. ~Done'
    BY <1>3, <1>6 DEF LeaderInv, Done
  <2>2. \A q \in Proc : Leads(q)' => q = p
    BY <1>3, <1>7 DEF LeaderInv, Others, Same, Leads
  <2>3. \A o \in Object : Stored(p, o)'
    BY <1>1, <1>5, <1>6 DEF Stored, Labelled
  <2>4. /\ \A l \in Rows(ids)' : hashId'[p][l] # 0
        /\ FirstLabel \in Rows(ids)' /\ stamped' /\ \A l \in Rows(TupleLabels) : hashId'[p][l] # 0
    BY <1>1, <1>3, <1>6 DEF LeaderInv
  <2> QED BY <1>2, <2>1, <2>2, <2>3, <2>4 DEF LeaderInv
<1>11. ProcInv(p)'
  BY <1>9, <1>10 DEF ProcInv
<1> QED BY <1>3, <1>6, <1>7, <1>11, Quiet

LEMMA InitUpdate ==
  ASSUME LifeTypeInv, InitInv, NEW p \in Proc, ~slipped', Update(p)
  PROVE  InitInv'
<1>1. /\ UNCHANGED <<hasContext, hasId, reserved, ids, objects,
                     reopen, scon, contexts, hashId, hash, last, knew, slipped>>
      /\ pc[p] = "mapping" /\ n[p] > Len(TupleLabels) /\ n' = [n EXCEPT ![p] = 1]
  BY DEF Update
<1>2. \/ pc'[p] = "objectLabel" /\ stamped'
      \/ pc'[p] = "failed"
  BY DEF Update, Goto, LifeTypeInv, TypeOK
<1>3. n'[p] = 1
  BY <1>1 DEF LifeTypeInv, TypeOK
<1>4. n[p] \in Nat /\ n[p] > 1
  BY <1>1, FileFacts DEF LifeTypeInv, TypeOK
<1>5. Truthful(p) /\ TablesInv(p) /\ EarlyInv(p) /\ ContextsInv(p) /\ Leads(p) /\ LeaderInv(p) /\ ~slipped
  BY <1>1, <1>4, OwnInv DEF Leads
<1>6. Others(p) /\ Grow
  BY OthersQuiet
<1>7. Truthful(p)' /\ TablesInv(p)' /\ EarlyInv(p)' /\ ContextsInv(p)' /\ LoadedInv(p)' /\ OpenInv(p)'
  BY <1>1, <1>2, <1>5 DEF Truthful, TablesInv, EarlyInv, ContextsInv, LoadedInv, OpenInv
<1>8. Leads(p)' => LeaderInv(p)'
  <2> SUFFICES ASSUME Leads(p)' PROVE LeaderInv(p)'
    OBVIOUS
  <2>0. pc'[p] = "objectLabel" /\ stamped'
    BY <1>2 DEF Leads
  <2>1. ~Done'
    BY <1>1, <1>5 DEF LeaderInv, Done
  <2>2. \A q \in Proc : Leads(q)' => q = p
    BY <1>5, <1>6 DEF LeaderInv, Others, Same, Leads
  <2>3. ASSUME NEW l \in Rows(TupleLabels) PROVE hashId'[p][l] # 0
    <3>1. PICK i \in 1..Len(TupleLabels) : l = TupleLabels[i]
      BY FileFacts DEF Rows
    <3>2. i \in 1..(n[p] - 1)
      BY <1>1, <1>4, FileFacts
    <3> QED BY <1>1, <1>5, <3>1, <3>2 DEF LeaderInv
  <2>4. /\ \A l \in Rows(ids)' : hashId'[p][l] # 0
        /\ FirstLabel \in Rows(ids)'
    BY <1>1, <1>5 DEF LeaderInv
  <2>5. 1..(n'[p] - 1) = {}
    BY <1>3
  <2> QED BY <2>0, <2>1, <2>2, <2>3, <2>4, <2>5 DEF LeaderInv
<1>9. ProcInv(p)'
  BY <1>7, <1>8 DEF ProcInv
<1> QED BY <1>1, <1>5, <1>6, <1>9, Quiet

(* A process that aborts keeps what it has and leads no more. *)
LEMMA InitAborts ==
  ASSUME LifeTypeInv, InitInv, ~slipped, NEW p \in Proc, Others(p), Grow, pc'[p] = "aborted",
         ids' = ids, objects' = objects, hashId' = hashId
  PROVE  InitInv'
<1>1. Truthful(p)
  BY OwnInv
<1>2. Truthful(p)' /\ TablesInv(p)' /\ EarlyInv(p)' /\ ContextsInv(p)' /\ LoadedInv(p)' /\ OpenInv(p)'
  BY <1>1 DEF Truthful, TablesInv, EarlyInv, ContextsInv, LoadedInv, OpenInv
<1>3. ~Leads(p)'
  BY DEF Leads
<1>4. ProcInv(p)'
  BY <1>2, <1>3 DEF ProcInv
<1> QED BY <1>3, <1>4, Quiet

LEMMA InitMapping ==
  ASSUME LifeTypeInv, InitInv, NEW p \in Proc, ~slipped', Mapping(p)
  PROVE  InitInv'
<1> DEFINE l == TupleLabels[n[p]]
<1>1. /\ pc[p] = "mapping" /\ n[p] \in 1..Len(TupleLabels) /\ l \in Label
      /\ UNCHANGED <<hasContext, hasId, reserved, stamped, objects,
                     reopen, scon, contexts, hash, knew, slipped>>
  BY MappingCases
<1>2. FileInv /\ Truthful(p) /\ TablesInv(p) /\ EarlyInv(p) /\ (Leads(p) => LeaderInv(p)) /\ ~slipped
  BY <1>1, OwnInv
<1>3. Others(p) /\ Grow /\ objects' = objects
  BY OthersMapping
<1>4. n[p] \in Nat /\ (n[p] > 1 \/ n[p] = 1) /\ (n[p] > 1 => Leads(p))
  BY <1>1, FileFacts DEF Leads
<1>5. l \in Rows(TupleLabels) /\ l \in NeededLabels /\ l \notin Subject
  BY <1>1, FileFacts, NeededFacts DEF Rows
<1>6. CASE hashId[p][l] # 0 /\ n' = [n EXCEPT ![p] = n[p] + 1] /\ UNCHANGED <<ids, last, hashId, pc>>
  <2>1. n'[p] = n[p] + 1
    BY <1>6 DEF LifeTypeInv, TypeOK
  <2>2. n[p] > 1
    <3>1. n[p] # 1
      BY <1>1, <1>2, <1>6 DEF EarlyInv, NoHashId
    <3> QED BY <1>4, <3>1
  <2>3. LeaderInv(p) /\ Leads(p)
    BY <1>2, <1>4, <2>2
  <2>4. Truthful(p)' /\ TablesInv(p)' /\ ContextsInv(p)' /\ LoadedInv(p)' /\ OpenInv(p)'
    BY <1>1, <1>2, <1>6 DEF Truthful, TablesInv, ContextsInv, LoadedInv, OpenInv
  <2>5. EarlyInv(p)'
    <3>1. n'[p] # 1
      BY <2>1, <2>2, <1>4
    <3> QED BY <1>1, <1>2, <1>6, <3>1 DEF EarlyInv
  <2>6. LeaderInv(p)'
    <3>1. ~Done'
      BY <1>6, <2>3 DEF LeaderInv, Done
    <3>2. \A q \in Proc : Leads(q)' => q = p
      BY <1>3, <2>3 DEF LeaderInv, Others, Same, Leads
    <3>3. ASSUME NEW i \in 1..(n'[p] - 1) PROVE hashId'[p][TupleLabels[i]] # 0
      <4>1. i = n[p] \/ i \in 1..(n[p] - 1)
        BY <2>1, <1>4
      <4> QED BY <4>1, <1>1, <1>6, <2>3 DEF LeaderInv
    <3>4. /\ \A m \in Rows(ids)' : hashId'[p][m] # 0
          /\ FirstLabel \in Rows(ids)'
      BY <1>6, <2>3 DEF LeaderInv
    <3>5. pc'[p] = "mapping"
      BY <1>1, <1>6
    <3> QED BY <3>1, <3>2, <3>3, <3>4, <3>5 DEF LeaderInv
  <2>7. ProcInv(p)'
    BY <2>4, <2>5, <2>6 DEF ProcInv
  <2> QED BY <1>2, <1>3, <1>6, <2>3, <2>7, Quiet
<1>7. CASE /\ hashId[p][l] = 0 /\ Inserted(p, l) /\ hashId' = [hashId EXCEPT ![p][l] = last'[p]]
           /\ n' = [n EXCEPT ![p] = n[p] + 1] /\ UNCHANGED pc
  <2>1. n'[p] = n[p] + 1 /\ pc'[p] = "mapping"
    BY <1>1, <1>7 DEF LifeTypeInv, TypeOK
  <2>2. /\ l \notin Rows(ids) /\ Rows(ids') = Rows(ids) \cup {l}
        /\ Len(ids) + 1 \in DOMAIN ids' /\ ids'[Len(ids) + 1] = l
        /\ last'[p] = Len(ids) + 1 /\ last'[p] \in 1..MaxId
    BY <1>1, <1>7, InsertedIds
  <2>3. /\ hashId'[p][l] = last'[p] /\ hashId'[p][l] # 0
        /\ \A m \in Label : m # l => hashId'[p][m] = hashId[p][m]
    <3>1. last'[p] \in 0..MaxId /\ last'[p] # 0
      BY <2>2
    <3> QED BY <1>1, <1>7, <3>1, HashIdType
  <2>4. ~Done
    BY <1>2, <1>5, <2>2, CompleteLabels DEF FileInv
  <2>5. ~Done'
    BY <1>5, <2>2, <2>4 DEF Done
  <2>6. FirstLabel \in Rows(ids) \/ l = FirstLabel
    BY <1>2, <1>4 DEF LeaderInv, FirstLabel
  <2>7. FileInv'
    BY <1>1, <1>2, <1>3, <1>7, <2>5, <2>6, FileInsert
  <2>8. \A q \in Proc : q # p => ~Leads(q)
    <3>1. CASE n[p] > 1
      BY <3>1, <1>2, <1>4, OnlyLeader
    <3>2. CASE n[p] = 1
      <4> SUFFICES ASSUME NEW q \in Proc, Leads(q) PROVE FALSE
        OBVIOUS
      <4>1. FirstLabel \in Rows(ids)
        BY <1>2 DEF InitInv, ProcInv, LeaderInv
      <4> QED BY <4>1, <3>2, <2>2 DEF FirstLabel
    <3> QED BY <1>4, <3>1, <3>2
  <2>9. Truthful(p)'
    BY <1>2, <1>3, <2>2, <2>3 DEF Truthful, Grow
  <2>10. TablesInv(p)' /\ ContextsInv(p)' /\ LoadedInv(p)' /\ OpenInv(p)'
    BY <1>1, <1>2, <2>1 DEF TablesInv, ContextsInv, LoadedInv, OpenInv
  <2>11. n'[p] # 1
    BY <2>1, <1>4
  <2>12. EarlyInv(p)'
    BY <1>1, <1>2, <2>1, <2>11 DEF EarlyInv
  <2>13. LeaderInv(p)'
    <3>1. \A q \in Proc : Leads(q)' => q = p
      BY <1>3, <2>8 DEF Others, Same, Leads
    <3>2. \A m \in Rows(ids) : hashId[p][m] # 0 /\ m \in Label
      <4>1. CASE n[p] > 1
        BY <4>1, <1>2, <1>4 DEF LeaderInv, LifeTypeInv, TypeOK, Rows
      <4>2. CASE n[p] = 1
        <5>1. FirstLabel \notin Rows(ids)
          BY <4>2, <2>2 DEF FirstLabel
        <5>2. ids = << >>
          BY <5>1, <1>2 DEF FileInv
        <5>3. Rows(ids) = {}
          BY <5>2 DEF Rows
        <5> QED BY <5>3
      <4> QED BY <1>4, <4>1, <4>2
    <3>3. \A m \in Rows(ids') : hashId'[p][m] # 0
      BY <2>2, <2>3, <3>2
    <3>4. FirstLabel \in Rows(ids')
      BY <2>2, <2>6
    <3>5. ASSUME NEW i \in 1..(n'[p] - 1) PROVE hashId'[p][TupleLabels[i]] # 0
      <4>1. i = n[p] \/ i \in 1..(n[p] - 1)
        BY <2>1, <1>4
      <4>2. CASE i = n[p]
        BY <4>2, <2>3
      <4>3. CASE i \in 1..(n[p] - 1)
        <5>1. n[p] > 1 /\ i \in 1..Len(TupleLabels) /\ TupleLabels[i] \in Label
          BY <4>3, <1>1, <1>4, FileFacts
        <5>2. hashId[p][TupleLabels[i]] # 0
          BY <5>1, <4>3, <1>1, <1>2, <1>4 DEF LeaderInv
        <5> QED BY <5>1, <5>2, <2>3
      <4> QED BY <4>1, <4>2, <4>3
    <3> QED BY <2>1, <2>5, <3>1, <3>3, <3>4, <3>5 DEF LeaderInv
  <2>14. ProcInv(p)'
    BY <2>9, <2>10, <2>12, <2>13 DEF ProcInv
  <2>15. \A q \in Proc : q # p => ProcInv(q)'
    <3>1. \A q \in Proc : ProcInv(q)
      BY <1>2 DEF InitInv
    <3> QED BY <3>1, <1>2, <1>3, <2>8, InitOthers
  <2> QED BY <2>7, <2>14, <2>15 DEF InitInv
<1>8. CASE UNCHANGED <<ids, last, n, hashId>> /\ Goto(p, "aborted")
  <2>1. pc'[p] = "aborted"
    BY <1>8, GotoOne
  <2> QED BY <1>2, <1>3, <1>8, <2>1, InitAborts
<1> QED BY <1>6, <1>7, <1>8, MappingCases

LEMMA InitObjectLabel ==
  ASSUME LifeTypeInv, LifeTypeInv', InitInv, NEW p \in Proc, ~slipped', ObjectLabel(p)
  PROVE  InitInv'
<1> DEFINE l == ObjectLabels[n[p]]
<1>1. /\ pc[p] = "objectLabel" /\ n[p] \in Object /\ l \in Label
      /\ UNCHANGED <<hasContext, hasId, reserved, stamped, objects, reopen, n, scon, contexts, knew>>
      /\ Goto(p, "objectRow") /\ hash' = [hash EXCEPT ![p][n[p]] = hashId'[p][l]]
  BY ObjectLabelCases
<1>2. pc'[p] = "objectRow"
  BY <1>1, GotoOne
<1>3. Others(p) /\ Grow /\ objects' = objects
  BY OthersObjectLabel
<1>4. ~slipped
  <2>1. slipped \in BOOLEAN
    BY DEF LifeTypeInv
  <2> QED BY <2>1, ObjectLabelCases
<1>5. FileInv /\ Truthful(p) /\ TablesInv(p) /\ EarlyInv(p) /\ ContextsInv(p) /\ Leads(p) /\ LeaderInv(p)
  BY <1>1, <1>4, OwnInv DEF Leads
<1>6. l \in NeededLabels /\ l \notin Subject
  BY <1>1, NeededFacts
<1>7. /\ hash'[p][n[p]] = hashId'[p][l]
      /\ \A o \in Object : o # n[p] => hash'[p][o] = hash[p][o]
  <2>1. hashId'[p][l] \in 0..MaxId
    BY <1>1 DEF LifeTypeInv, TypeOK
  <2> QED BY <2>1, <1>1, SetHash
<1>8. n[p] \in Nat /\ \A o \in 1..(n[p] - 1) : o \in Object /\ o # n[p] /\ ObjectLabels[o] \in Label
  BY <1>1, FileFacts
<1>9. TablesInv(p)' /\ EarlyInv(p)' /\ ContextsInv(p)' /\ LoadedInv(p)' /\ OpenInv(p)'
  BY <1>1, <1>2, <1>5 DEF TablesInv, EarlyInv, ContextsInv, LoadedInv, OpenInv
<1>10. \A q \in Proc : Leads(q)' => q = p
  BY <1>3, <1>5 DEF LeaderInv, Others, Same, Leads
<1>11. CASE hashId[p][l] # 0 /\ UNCHANGED <<ids, last, hashId, slipped>>
  <2>1. Truthful(p)'
    BY <1>5, <1>11 DEF Truthful
  <2>2. \A o \in 1..(n[p] - 1) : Stored(p, o)'
    BY <1>1, <1>5, <1>7, <1>8, <1>11 DEF LeaderInv, Stored, Labelled
  <2>3. hash'[p][n'[p]] = hashId'[p][ObjectLabels[n'[p]]] /\ hashId'[p][ObjectLabels[n'[p]]] # 0
    BY <1>1, <1>7, <1>11
  <2>4. ~Done'
    BY <1>5, <1>11 DEF LeaderInv, Done
  <2>5. /\ \A m \in Rows(ids)' : hashId'[p][m] # 0
        /\ FirstLabel \in Rows(ids)' /\ stamped' /\ \A m \in Rows(TupleLabels) : hashId'[p][m] # 0
    BY <1>1, <1>5, <1>11 DEF LeaderInv
  <2>6. LeaderInv(p)'
    BY <1>1, <1>2, <1>10, <2>2, <2>3, <2>4, <2>5 DEF LeaderInv, Labelled
  <2>7. ProcInv(p)'
    BY <1>9, <2>1, <2>6 DEF ProcInv
  <2> QED BY <1>3, <1>4, <1>5, <1>11, <2>7, Quiet
<1>12. CASE /\ hashId[p][l] = 0 /\ Inserted(p, l)
            /\ hashId' = [hashId EXCEPT ![p][l] = last'[p]]
  <2>1. /\ l \notin Rows(ids) /\ Rows(ids') = Rows(ids) \cup {l}
        /\ Len(ids) + 1 \in DOMAIN ids' /\ ids'[Len(ids) + 1] = l
        /\ last'[p] = Len(ids) + 1 /\ last'[p] \in 1..MaxId
    BY <1>1, <1>12, InsertedIds
  <2>2. /\ hashId'[p][l] = last'[p] /\ hashId'[p][l] # 0
        /\ \A m \in Label : m # l => hashId'[p][m] = hashId[p][m]
    <3>1. last'[p] \in 0..MaxId /\ last'[p] # 0
      BY <2>1
    <3> QED BY <1>1, <1>12, <3>1, HashIdType
  <2>3. \A m \in Label : hashId[p][m] # 0 => hashId'[p][m] = hashId[p][m]
    BY <1>12, <2>2
  <2>4. ~Done'
    BY <1>5, <1>6, <2>1 DEF LeaderInv, Done
  <2>5. FileInv'
    BY <1>1, <1>3, <1>5, <1>12, <2>4, FileInsert DEF LeaderInv
  <2>6. Truthful(p)'
    BY <1>3, <1>5, <2>1, <2>2 DEF Truthful, Grow
  <2>7. \A o \in 1..(n[p] - 1) : Stored(p, o)'
    BY <1>1, <1>5, <1>7, <1>8, <2>3 DEF LeaderInv, Stored, Labelled
  <2>8. hash'[p][n'[p]] = hashId'[p][ObjectLabels[n'[p]]] /\ hashId'[p][ObjectLabels[n'[p]]] # 0
    BY <1>1, <1>7, <2>2
  <2>9. \A m \in Rows(ids) : m \in Label
    BY DEF LifeTypeInv, TypeOK, Rows
  <2>10. \A m \in Rows(TupleLabels) : m \in Label
    BY FileFacts DEF Rows
  <2>11. /\ \A m \in Rows(ids)' : hashId'[p][m] # 0
         /\ FirstLabel \in Rows(ids)' /\ stamped' /\ \A m \in Rows(TupleLabels) : hashId'[p][m] # 0
    BY <1>1, <1>5, <2>1, <2>2, <2>3, <2>9, <2>10 DEF LeaderInv
  <2>12. LeaderInv(p)'
    BY <1>1, <1>2, <1>10, <2>4, <2>7, <2>8, <2>11 DEF LeaderInv, Labelled
  <2>13. ProcInv(p)'
    BY <1>9, <2>6, <2>12 DEF ProcInv
  <2>14. \A q \in Proc : q # p => ProcInv(q)'
    <3>1. \A q \in Proc : ProcInv(q)
      BY <1>4 DEF InitInv
    <3>2. \A q \in Proc : q # p => ~Leads(q)
      BY <1>5 DEF LeaderInv
    <3> QED BY <3>1, <3>2, <1>3, <1>5, InitOthers
  <2> QED BY <2>5, <2>13, <2>14 DEF InitInv
<1>13. CASE hashId[p][l] = 0 /\ slipped' = (slipped \/ l \notin Rows(ids))
  <2>1. l \in Rows(ids)
    BY <1>13
  <2> QED BY <1>5, <1>13, <2>1 DEF LeaderInv
<1> QED BY <1>11, <1>12, <1>13, ObjectLabelCases

LEMMA InitObjectRow ==
  ASSUME LifeTypeInv, InitInv, NEW p \in Proc, ~slipped', ObjectRow(p)
  PROVE  InitInv'
<1>1. /\ UNCHANGED <<hasContext, hasId, reserved, ids, stamped,
                     reopen, scon, contexts, hashId, hash, knew, slipped>>
      /\ pc[p] = "objectRow"
  BY DEF ObjectRow
<1>2. Others(p) /\ Grow
  BY OthersObjectRow
<1>3. /\ FileInv /\ Truthful(p) /\ TablesInv(p) /\ EarlyInv(p) /\ ContextsInv(p) /\ Leads(p)
      /\ LeaderInv(p) /\ ~slipped
  BY <1>1, OwnInv DEF Leads
<1>4. CASE /\ objects' = [objects EXCEPT ![n[p]] = hash[p][n[p]]]
           /\ n' = [n EXCEPT ![p] = n[p] + 1] /\ Goto(p, "objectLabel")
  <2>1. n[p] \in Object /\ n[p] \in Nat
    BY <1>1, FileFacts DEF LifeTypeInv, CountersOK
  <2>2. pc'[p] = "objectLabel" /\ n'[p] = n[p] + 1
    BY <1>4, GotoOne DEF LifeTypeInv, TypeOK
  <2>3. objects'[n[p]] = hash[p][n[p]] /\ \A o \in Object : o # n[p] => objects'[o] = objects[o]
    BY <1>4, <2>1 DEF LifeTypeInv, TypeOK
  <2>4. ASSUME NEW o \in 1..(n'[p] - 1) PROVE Stored(p, o)'
    <3>1. o = n[p] \/ (o \in 1..(n[p] - 1) /\ o \in Object /\ o # n[p])
      BY <2>1, <2>2, FileFacts
    <3>2. CASE o = n[p]
      BY <3>2, <1>1, <1>3, <2>3 DEF LeaderInv, Stored, Labelled
    <3>3. CASE o \in 1..(n[p] - 1) /\ o \in Object /\ o # n[p]
      BY <3>3, <1>1, <1>3, <2>3 DEF LeaderInv, Stored, Labelled
    <3> QED BY <3>1, <3>2, <3>3
  <2>5. ~Done' /\ ~Done
    BY <1>1, <1>3 DEF LeaderInv, Done
  <2>6. \A q \in Proc : Leads(q)' => q = p
    BY <1>2, <1>3 DEF LeaderInv, Others, Same, Leads
  <2>7. /\ \A m \in Rows(ids)' : hashId'[p][m] # 0
        /\ FirstLabel \in Rows(ids)' /\ stamped' /\ \A m \in Rows(TupleLabels) : hashId'[p][m] # 0
    BY <1>1, <1>3 DEF LeaderInv
  <2>8. LeaderInv(p)'
    BY <2>2, <2>4, <2>5, <2>6, <2>7 DEF LeaderInv
  <2>9. /\ Truthful(p)' /\ TablesInv(p)' /\ EarlyInv(p)' /\ ContextsInv(p)'
        /\ LoadedInv(p)' /\ OpenInv(p)'
    BY <1>1, <1>3, <2>2 DEF Truthful, TablesInv, EarlyInv, ContextsInv, LoadedInv, OpenInv
  <2>10. ProcInv(p)'
    BY <2>8, <2>9 DEF ProcInv
  <2>11. \A q \in Proc : q # p => ProcInv(q)'
    <3>1. \A q \in Proc : ProcInv(q)
      BY <1>3 DEF InitInv
    <3>2. \A q \in Proc : q # p => ~Leads(q)
      BY <1>3 DEF LeaderInv
    <3> QED BY <3>1, <3>2, <1>2, <1>3, <2>5, InitOthers
  <2>12. FileInv'
    BY <1>1, <1>3, <2>5 DEF FileInv, Rows
  <2> QED BY <2>10, <2>11, <2>12 DEF InitInv
<1>5. CASE Goto(p, "aborted") /\ UNCHANGED <<objects, n, last>>
  <2>1. pc'[p] = "aborted"
    BY <1>5, GotoOne
  <2> QED BY <1>1, <1>2, <1>3, <1>5, <2>1, InitAborts
<1> QED BY <1>4, <1>5 DEF ObjectRow

(* The first open is complete when the leader registers its own label. *)
LEMMA LeaderComplete ==
  ASSUME LifeTypeInv, NEW p \in Proc, pc[p] = "scon", Truthful(p), TablesInv(p), LeaderInv(p)
  PROVE  /\ Complete /\ hash[p] = objects
         /\ \A l \in NeededLabels : hashId[p][l] # 0
<1>1. \A o \in Object : Stored(p, o)
  BY DEF LeaderInv
<1>2. hash[p] = objects
  <2>1. hash[p] = [o \in Object |-> hash[p][o]] /\ objects = [o \in Object |-> objects[o]]
    BY DEF LifeTypeInv, TypeOK
  <2>2. \A o \in Object : hash[p][o] = objects[o]
    BY <1>1 DEF Stored
  <2> QED BY <2>1, <2>2
<1>3. \A l \in Rows(TupleLabels) : hashId[p][l] # 0 /\ l \in Label
  BY FileFacts DEF LeaderInv, Rows
<1>4. \A l \in Rows(TupleLabels) : l \in Rows(ids)
  BY <1>3 DEF Truthful, Rows
<1>5. ASSUME NEW o \in Object
      PROVE  objects[o] \in DOMAIN ids /\ ids[objects[o]] = ObjectLabels[o]
  <2>1. objects[o] = hashId[p][ObjectLabels[o]] /\ hashId[p][ObjectLabels[o]] # 0
    BY <1>1 DEF Stored, Labelled
  <2>2. ObjectLabels[o] \in Label
    BY FileFacts
  <2> QED BY <2>1, <2>2 DEF Truthful
<1>6. Complete
  BY <1>4, <1>5 DEF Complete, LeaderInv, TablesInv
<1>7. \A l \in Rows(ObjectLabels) : hashId[p][l] # 0
  BY <1>1 DEF Rows, Object, Stored, Labelled
<1> QED BY <1>2, <1>3, <1>6, <1>7 DEF NeededLabels

LEMMA InitRegister ==
  ASSUME LifeTypeInv, InitInv, NEW p \in Proc, ~slipped', RegisterSubject(p)
  PROVE  InitInv'
<1> DEFINE l == scon[p]
<1>1. /\ pc[p] = "scon" /\ l \in Label /\ l \in Subject
      /\ UNCHANGED <<hasContext, hasId, reserved, stamped, objects,
                     reopen, n, scon, contexts, hash, knew>>
  BY RegisterCases
<1>2. Others(p) /\ Grow /\ objects' = objects
  BY OthersRegister
<1>3. ~slipped
  <2>1. slipped \in BOOLEAN
    BY DEF LifeTypeInv
  <2> QED BY <2>1, RegisterCases
<1>4. /\ FileInv /\ Truthful(p) /\ TablesInv(p) /\ EarlyInv(p) /\ ContextsInv(p)
      /\ LoadedInv(p) /\ (Leads(p) => LeaderInv(p))
  BY <1>3, OwnInv
<1>5. Leads(p) <=> ~reopen[p]
  BY <1>1 DEF Leads
<1>6. Done => reopen[p]
  BY <1>4, <1>5 DEF LeaderInv
<1>7. CASE hashId[p][l] # 0 /\ Goto(p, "open") /\ UNCHANGED <<ids, last, hashId, slipped>>
  <2>1. pc'[p] = "open"
    BY <1>7, GotoOne
  <2>2. Done /\ reopen[p]
    BY <1>1, <1>4, <1>6, <1>7, KnownDone
  <2>3. Done'
    BY <1>7, <2>2 DEF Done
  <2>4. (\A m \in NeededLabels : hashId[p][m] # 0) /\ hash[p] = objects
    BY <1>1, <1>4, <1>7, <2>2 DEF LoadedInv
  <2>5. Truthful(p)' /\ TablesInv(p)' /\ EarlyInv(p)' /\ ContextsInv(p)' /\ OpenInv(p)'
    BY <1>1, <1>4, <1>7, <2>1, <2>3 DEF Truthful, TablesInv, EarlyInv, ContextsInv, OpenInv
  <2>6. LoadedInv(p)'
    BY <1>1, <1>7, <2>4 DEF LoadedInv
  <2>7. ~Leads(p)'
    BY <2>1 DEF Leads
  <2>8. ProcInv(p)'
    BY <2>5, <2>6, <2>7 DEF ProcInv
  <2> QED BY <1>2, <1>3, <1>7, <2>7, <2>8, Quiet
<1>8. CASE Goto(p, "aborted") /\ UNCHANGED <<ids, last, hashId, slipped>>
  <2>1. pc'[p] = "aborted"
    BY <1>8, GotoOne
  <2> QED BY <1>2, <1>3, <1>8, <2>1, InitAborts
<1>9. CASE /\ hashId[p][l] = 0 /\ contexts[p] /\ Inserted(p, l)
           /\ hashId' = [hashId EXCEPT ![p][l] = last'[p]] /\ Goto(p, "open")
  <2>1. pc'[p] = "open"
    BY <1>9, GotoOne
  <2>2. /\ l \notin Rows(ids) /\ Rows(ids') = Rows(ids) \cup {l}
        /\ Len(ids) + 1 \in DOMAIN ids' /\ ids'[Len(ids) + 1] = l
        /\ last'[p] = Len(ids) + 1 /\ last'[p] \in 1..MaxId
    BY <1>1, <1>9, InsertedIds
  <2>3. /\ hashId'[p][l] = last'[p] /\ hashId'[p][l] # 0
        /\ \A m \in Label : m # l => hashId'[p][m] = hashId[p][m]
    <3>1. last'[p] \in 0..MaxId /\ last'[p] # 0
      BY <2>2
    <3> QED BY <1>1, <1>9, <3>1, HashIdType
  <2>4. Done'
    BY <1>1, <2>2 DEF Done
  <2>5. /\ Complete /\ hash[p] = objects /\ (\A m \in NeededLabels : hashId[p][m] # 0)
        /\ \A q \in Proc : q # p => ~Leads(q)
    <3>1. CASE Leads(p)
      <4>1. Complete /\ hash[p] = objects /\ \A m \in NeededLabels : hashId[p][m] # 0
        BY <3>1, <1>1, <1>4, LeaderComplete
      <4>2. \A q \in Proc : q # p => ~Leads(q)
        BY <3>1, <1>3, OnlyLeader
      <4> QED BY <4>1, <4>2
    <3>2. CASE ~Leads(p)
      <4>1. Done
        BY <3>2, <1>1, <1>4, <1>5, <1>9 DEF ContextsInv
      <4>2. Complete
        BY <4>1, <1>4 DEF FileInv
      <4>3. hash[p] = objects /\ \A m \in NeededLabels : hashId[p][m] # 0
        BY <3>2, <1>1, <1>4, <1>5, <1>9 DEF LoadedInv
      <4>4. \A q \in Proc : ~Leads(q)
        BY <4>1, <1>3 DEF InitInv, ProcInv, LeaderInv
      <4> QED BY <4>2, <4>3, <4>4
    <3> QED BY <3>1, <3>2
  <2>6. FileInv'
    <3>1. FirstLabel \in Rows(ids)
      BY <2>5, FileFacts DEF Complete, FirstLabel, Rows
    <3> QED BY <3>1, <1>1, <1>2, <1>4, <1>9, <2>5, FileInsert
  <2>7. Truthful(p)'
    BY <1>2, <1>4, <2>2, <2>3 DEF Truthful, Grow
  <2>8. TablesInv(p)' /\ EarlyInv(p)' /\ ContextsInv(p)' /\ OpenInv(p)' /\ ~Leads(p)'
    BY <1>1, <1>4, <2>1, <2>3, <2>4 DEF TablesInv, EarlyInv, ContextsInv, OpenInv, Leads
  <2>9. LoadedInv(p)'
    <3>1. \A m \in NeededLabels : hashId'[p][m] # 0
      BY <2>3, <2>5, NeededFacts
    <3> QED BY <3>1, <1>1, <2>5 DEF LoadedInv
  <2>10. ProcInv(p)'
    BY <2>7, <2>8, <2>9 DEF ProcInv
  <2>11. \A q \in Proc : q # p => ProcInv(q)'
    <3>1. \A q \in Proc : ProcInv(q)
      BY <1>3 DEF InitInv
    <3> QED BY <3>1, <1>2, <1>4, <2>5, InitOthers
  <2> QED BY <2>6, <2>10, <2>11 DEF InitInv
<1>10. CASE /\ hashId[p][l] = 0 /\ contexts[p] /\ UNCHANGED <<ids, last>>
            /\ hashId' = [hashId EXCEPT ![p][l] = last'[p]]
            /\ Goto(p, IF last'[p] = 0 THEN "aborted" ELSE "open")
            /\ slipped' = (slipped \/ l \notin Rows(ids))
  <2>1. l \in Rows(ids)
    BY <1>10
  <2>2. Done /\ reopen[p]
    BY <1>1, <1>6, <2>1 DEF Done
  <2>3. last'[p] = 0
    BY <1>1, <1>4, <1>10, <2>2 DEF EarlyInv
  <2>4. Goto(p, "aborted")
    BY <1>10, <2>3
  <2>5. pc'[p] = "aborted"
    BY <2>4, GotoOne
  <2>6. hashId' = hashId
    <3>1. hashId \in [Proc -> [Label -> 0..MaxId]]
      BY DEF LifeTypeInv, TypeOK
    <3> QED BY <3>1, <1>1, <1>10, <2>3
  <2> QED BY <1>2, <1>3, <1>10, <2>5, <2>6, InitAborts
<1> QED BY <1>7, <1>8, <1>9, <1>10, RegisterCases

LEMMA InitStep ==
  ASSUME LifeTypeInv, LifeTypeInv', InitInv, NEW p \in Proc,
         Step(p) \/ Open(p) \/ Crash(p) \/ CreateReserved(p)
  PROVE  InitInv'
<1>1. CASE slipped'
  BY <1>1 DEF InitInv
<1>2. CASE ~slipped'
  BY <1>2, InitTables, InitReserved, InitLoadIds, InitLoadObjects, InitReadFile, InitOpenCrash,
     InitObjectsDone, InitUpdate, InitMapping, InitObjectLabel, InitObjectRow, InitRegister DEF Step
<1> QED BY <1>1, <1>2

LEMMA InitInit == Init => InitInv
<1> SUFFICES ASSUME Init PROVE InitInv
  OBVIOUS
<1>1. ids = << >> /\ Rows(ids) = {} /\ DOMAIN ids = {}
  BY DEF Init, Rows
<1>2. ~Done
  BY <1>1 DEF Done
<1>3. FileInv
  BY <1>1, <1>2 DEF FileInv
<1>4. ASSUME NEW p \in Proc PROVE ProcInv(p)
  <2>1. pc[p] = "down" /\ ~contexts[p] /\ hashId[p] = NoHashId
    BY DEF Init
  <2>2. Truthful(p)
    BY <2>1 DEF Truthful, NoHashId
  <2> QED BY <2>1, <2>2 DEF ProcInv, TablesInv, EarlyInv, ContextsInv, LoadedInv, OpenInv, Leads
<1> QED BY <1>3, <1>4 DEF InitInv

LEMMA InitInvariant == Spec => [](LifeTypeInv /\ InitInv)
<1>1. Spec => []LifeTypeInv
  BY TypesInit, TypesStep, PTL DEF Spec
<1>2. LifeTypeInv /\ InitInv /\ LifeTypeInv' /\ [Next]_vars => InitInv'
  <2> SUFFICES ASSUME LifeTypeInv, InitInv, LifeTypeInv', [Next]_vars PROVE InitInv'
    OBVIOUS
  <2>1. CASE UNCHANGED vars
    BY <2>1 DEF vars, disk, procs, InitInv, FileInv, ProcInv, Truthful, TablesInv, EarlyInv,
                ContextsInv, LoadedInv, OpenInv, Leads, LeaderInv, Done, Complete, Stored, Labelled
  <2> QED BY <2>1, InitStep DEF Next
<1> QED BY <1>1, <1>2, InitInit, PTL DEF Spec

(* sqlite3SelinuxInit never succeeds on a half-initialised database: although *)
(* nothing records that the initialisation ended, the tuple labels asserted   *)
(* first and the subject's row written last let no open through in between.   *)
THEOREM OpensAreComplete == Spec => []OpenComplete
<1>1. ASSUME LifeTypeInv, InitInv PROVE OpenComplete
  <2> SUFFICES ASSUME NEW p \in Proc, pc[p] = "open", ~slipped PROVE Complete
    BY DEF OpenComplete
  <2>1. FileInv /\ Truthful(p) /\ OpenInv(p)
    BY <1>1, OwnInv
  <2>2. scon[p] \in Subject
    BY <1>1 DEF LifeTypeInv, TypeOK
  <2>3. Done
    BY <1>1, <2>1, <2>2, KnownDone DEF OpenInv
  <2> QED BY <2>1, <2>3 DEF FileInv
<1> QED BY <1>1, InitInvariant, PTL

(* A process that opened the database has in hash and hash_id what is on disk. *)
THEOREM OpensMirrorDisk == Spec => []OpenMirrors
<1>1. ASSUME LifeTypeInv, InitInv PROVE OpenMirrors
  <2> SUFFICES ASSUME NEW p \in Proc, pc[p] = "open", ~slipped
               PROVE  /\ \A l \in NeededLabels \cup {scon[p]} : hashId[p][l] # 0
                      /\ Truthful(p) /\ hash[p] = objects
    BY DEF OpenMirrors, NeededLabels, Truthful
  <2>1. Truthful(p) /\ OpenInv(p) /\ LoadedInv(p)
    BY <1>1, OwnInv
  <2>2. scon[p] \in Subject /\ hashId[p][scon[p]] # 0
    BY <1>1, <2>1 DEF LifeTypeInv, TypeOK, OpenInv
  <2> QED BY <2>1, <2>2 DEF LoadedInv
<1> QED BY <1>1, InitInvariant, PTL

===============================================================================
