----------------------------- MODULE CatalogProofs -----------------------------
(***************************************************************************)
(* For any tables, labels, versions of the contexts file and policy, and   *)
(* any number of statements: selinux_context describes the schema, the     *)
(* authorizer's labels are the stored ones except where the code writes    *)
(* one side only, and a table is dropped as its stored label allows.       *)
(***************************************************************************)
EXTENDS Catalog, FiniteSetTheorems, TLAPS

IsRows(r) ==
  /\ r \in [DOMAIN r -> Entry]
  /\ LastId(r) \in Nat /\ DOMAIN r \subseteq 1..LastId(r)

(* What selinux_context says of the schema T: no row of a table that does not *)
(* exist, rows for what has labels, no primary key twice, and a row under the *)
(* name or the definition of the column ALTER TABLE adds only once it is      *)
(* there (else adding it could meet an older row).                            *)
NamesExist(T, r)  == \A i \in DOMAIN r : r[i].name = "" \/ T[r[i].name] # Absent
Labelled(T, r)    == \A t \in Table : "security_context" \in T[t] =>
                       RowsOf(r, TableKey(t)) # {} /\ RowsOf(r, <<t, "a">>) # {}
UniqueRows(r)     == \A i, j \in DOMAIN r :
                       r[i].name = r[j].name /\ r[i].column = r[j].column => i = j
AddedExist(T, r)  == \A i \in DOMAIN r :
                       r[i].column \in {"b", "b INT"} => r[i].name \in Table /\ "b" \in T[r[i].name]
Describes(T, r)   == NamesExist(T, r) /\ Labelled(T, r) /\ UniqueRows(r) /\ AddedExist(T, r)

(* What hash says of the rows r: the stored label, whatever hash also has. *)
Mirrors(h, r, S) ==
  \A k \in Key \ S : Stored(r)[k] # NoLabel => h[k] = Stored(r)[k]

(* What a compiled statement relies on when it runs, the schema being T and   *)
(* hash h: the tables it names are there or not, as when it was compiled, and *)
(* unless a PRAGMA has come between, the labels it was compiled with are the  *)
(* ones hash has.                                                             *)
CreateReady(s, T, h) ==
  /\ T[s.t] = Absent
  /\ \/ s.new = << >>
     \/ \E l, m \in Label :
          /\ s.new = << [name |-> s.t, column |-> "NULL", label |-> l],
                       [name |-> s.t, column |-> "a", label |-> m] >>
          /\ ~s.stale => h[TableKey(s.t)] = l /\ h[<<s.t, "a">>] = m
DropReady(s, T, h) ==
  /\ T[s.t] # Absent
  /\ ~s.stale => h[TableKey(s.t)] # NoLabel /\ <<h[TableKey(s.t)], "drop">> \in Granted
RenameReady(s, T) == s.to \in Table /\ T[s.t] # Absent /\ T[s.to] = Absent
AddReady(s, T) ==
  /\ T[s.t] # Absent /\ "b" \notin T[s.t]
  /\ \E e \in Entry : s.new = <<e>> /\ e.name = s.t /\ e.column \in {"b", "b INT"}
Ready(s, T, h) ==
  /\ s.op = "create" => CreateReady(s, T, h)
  /\ s.op = "drop" => DropReady(s, T, h)
  /\ s.op = "rename" => RenameReady(s, T)
  /\ s.op = "add" => AddReady(s, T)

(* Statements survive a rollback only if it gives back the schema they know. *)
Statements ==
  /\ prepared \subseteq Statement /\ internChanges \in BOOLEAN
  /\ \A s \in prepared : Ready(s, db.tables, hash)
  /\ ~up => prepared = {}
  /\ saved # << >> /\ ~internChanges => saved[1].tables = db.tables

CatalogInv ==
  /\ TypeOK
  /\ Describes(db.tables, db.rows)
  /\ saved # << >> => Describes(saved[1].tables, saved[1].rows)
  /\ up => Mirrors(hash, db.rows, oneSided)
  /\ Statements

-------------------------------------------------------------------------------
(* Rowids *)

LEMMA NatMin ==
  ASSUME NEW T \in SUBSET Nat, T # {}
  PROVE  \E x \in T : \A y \in T : x <= y
<1> DEFINE R == {ss \in Nat \X Nat : ss[1] < ss[2]}
<1>1. IsWellFoundedOn(R, Nat)
  BY NatLessThanWellFounded DEF OpToRel
<1>2. \A x, y \in Nat : y < x => <<y, x>> \in R
  OBVIOUS
<1> HIDE DEF R
<1>3. PICK x \in T : \A y \in T : ~(<<y, x>> \in R)
  BY <1>1, WFMin
<1>4. \A y \in T : x \in Nat /\ y \in Nat /\ ~(y < x)
  BY <1>2, <1>3
<1>5. \A y \in T : x <= y
  BY <1>4
<1> QED BY <1>5

(* A bounded set of rowids has a largest one. *)
LEMMA MaxIn ==
  ASSUME NEW n \in Nat, NEW T \in SUBSET (0..n), T # {}
  PROVE  Max(T) \in T /\ \A y \in T : Max(T) >= y
<1> DEFINE U == {n - x : x \in T}
<1>1. \A x \in T : x \in 0..n
  OBVIOUS
<1>2. U \in SUBSET Nat /\ U # {}
  BY <1>1
<1>3. PICK u \in U : \A y \in U : u <= y
  BY <1>2, NatMin
<1>4. PICK x \in T : u = n - x
  BY <1>3
<1>5. ASSUME NEW y \in T PROVE x >= y
  <2>1. n - y \in U
    OBVIOUS
  <2>2. n - x <= n - y
    BY <1>3, <1>4, <2>1
  <2> QED BY <1>1, <2>2
<1> QED BY <1>5 DEF Max

(* Rows with a bounded rowid are a table. *)
LEMMA BoundedRows ==
  ASSUME NEW r, r \in [DOMAIN r -> Entry], NEW n \in Nat, DOMAIN r \subseteq 1..n
  PROVE  IsRows(r)
<1>1. {0} \cup DOMAIN r \in SUBSET (0..n) /\ {0} \cup DOMAIN r # {}
  OBVIOUS
<1>2. LastId(r) \in {0} \cup DOMAIN r /\ \A y \in {0} \cup DOMAIN r : LastId(r) >= y
  BY <1>1, MaxIn DEF LastId
<1>3. LastId(r) \in Nat
  BY <1>1, <1>2
<1>4. ASSUME NEW i \in DOMAIN r PROVE i \in 1..LastId(r)
  <2>1. i \in 1..n /\ LastId(r) >= i
    BY <1>2
  <2> QED BY <1>3, <2>1
<1> QED BY <1>3, <1>4 DEF IsRows

(* A reload leaves the label of the last row in hash. *)
LEMMA StoredLast ==
  ASSUME NEW r, IsRows(r), NEW k \in Key, NEW i \in RowsOf(r, k),
         \A j \in RowsOf(r, k) : j <= i
  PROVE  Stored(r)[k] = r[i].label
<1>1. RowsOf(r, k) \in SUBSET (0..LastId(r)) /\ RowsOf(r, k) # {}
  BY DEF IsRows, RowsOf
<1>2. Max(RowsOf(r, k)) \in RowsOf(r, k) /\ \A y \in RowsOf(r, k) : Max(RowsOf(r, k)) >= y
  BY <1>1, MaxIn DEF IsRows
<1>3. Max(RowsOf(r, k)) = i
  <2>1. Max(RowsOf(r, k)) \in 0..LastId(r) /\ i \in 0..LastId(r) /\ LastId(r) \in Nat
    BY <1>1, <1>2 DEF IsRows
  <2>2. Max(RowsOf(r, k)) <= i /\ Max(RowsOf(r, k)) >= i
    BY <1>2
  <2> QED BY <2>1, <2>2
<1> QED BY <1>1, <1>3 DEF Stored

LEMMA StoredIsLast ==
  ASSUME NEW r, IsRows(r), NEW k \in Key, RowsOf(r, k) # {}
  PROVE  \E i \in RowsOf(r, k) : Stored(r)[k] = r[i].label
<1>1. RowsOf(r, k) \in SUBSET (0..LastId(r))
  BY DEF IsRows, RowsOf
<1>2. Max(RowsOf(r, k)) \in RowsOf(r, k)
  BY <1>1, MaxIn DEF IsRows
<1> QED BY <1>2 DEF Stored

(* There is a label if and only if there is a row. *)
LEMMA StoredNone ==
  ASSUME NEW r, IsRows(r), NEW k \in Key
  PROVE  /\ RowsOf(r, k) = {} => Stored(r)[k] = NoLabel
         /\ RowsOf(r, k) # {} => Stored(r)[k] \in Label /\ Stored(r)[k] # NoLabel
<1>1. CASE RowsOf(r, k) = {}
  BY <1>1 DEF Stored
<1>2. CASE RowsOf(r, k) # {}
  <2>1. PICK i \in RowsOf(r, k) : Stored(r)[k] = r[i].label
    BY <1>2, StoredIsLast
  <2>2. r[i] \in Entry
    BY <2>1 DEF IsRows, RowsOf
  <2> QED BY <1>2, <2>1, <2>2, LabelAssumption DEF Entry
<1> QED BY <1>1, <1>2

(* Tables that have the same rows for an object have the same label for it. *)
LEMMA StoredSame ==
  ASSUME NEW r, NEW s, NEW k \in Key, IsRows(r),
         RowsOf(r, k) = RowsOf(s, k), \A i \in RowsOf(r, k) : r[i] = s[i]
  PROVE  Stored(r)[k] = Stored(s)[k]
<1>1. CASE RowsOf(r, k) = {}
  BY <1>1 DEF Stored
<1>2. CASE RowsOf(r, k) # {}
  <2>1. RowsOf(r, k) \in SUBSET (0..LastId(r))
    BY DEF IsRows, RowsOf
  <2>2. Max(RowsOf(r, k)) \in RowsOf(r, k)
    BY <1>2, <2>1, MaxIn DEF IsRows
  <2> QED BY <1>2, <2>2 DEF Stored
<1> QED BY <1>1, <1>2

(* What adding rows does. *)
LEMMA AppendedRows ==
  ASSUME NEW r, IsRows(r), NEW new \in Seq(Entry)
  PROVE  /\ IsRows(Appended(r, new))
         /\ DOMAIN Appended(r, new) = DOMAIN r \cup (LastId(r) + 1 .. LastId(r) + Len(new))
         /\ \A i \in DOMAIN r : Appended(r, new)[i] = r[i] /\ i <= LastId(r)
         /\ \A i \in LastId(r) + 1 .. LastId(r) + Len(new) :
              /\ i - LastId(r) \in 1..Len(new) /\ i \notin DOMAIN r
              /\ Appended(r, new)[i] = new[i - LastId(r)]
<1> DEFINE n == LastId(r)  A == Appended(r, new)  N == (n + 1 .. n + Len(new))
<1>1. n \in Nat /\ Len(new) \in Nat /\ DOMAIN r \subseteq 1..n
  BY DEF IsRows
<1>2. DOMAIN A = DOMAIN r \cup N
  BY DEF Appended
<1>3. \A i \in DOMAIN r : A[i] = r[i] /\ i <= n
  BY <1>1 DEF Appended
<1>4. \A i \in N : i - n \in 1..Len(new) /\ i \notin DOMAIN r
  BY <1>1
<1>5. \A i \in N : A[i] = new[i - n]
  BY <1>4 DEF Appended
<1>6. \A i \in N : new[i - n] \in Entry
  BY <1>4
<1>7. \A i \in DOMAIN r : r[i] \in Entry
  BY DEF IsRows
<1>8. A \in [DOMAIN A -> Entry]
  <2>1. A = [i \in DOMAIN A |-> A[i]]
    BY DEF Appended
  <2>2. \A i \in DOMAIN A : A[i] \in Entry
    BY <1>2, <1>3, <1>5, <1>6, <1>7
  <2> HIDE DEF A
  <2> QED BY <2>1, <2>2
<1>9. DOMAIN A \subseteq 1..(n + Len(new)) /\ n + Len(new) \in Nat
  <2> SUFFICES ASSUME NEW i \in DOMAIN A PROVE i \in 1..(n + Len(new))
    BY <1>1
  <2> QED BY <1>1, <1>2
<1>10. IsRows(A)
  BY <1>8, <1>9, BoundedRows
<1> QED BY <1>2, <1>3, <1>4, <1>5, <1>10

LEMMA AppendedNone ==
  ASSUME NEW r, IsRows(r) PROVE Appended(r, << >>) = r
<1> DEFINE A == Appended(r, << >>)
<1>1. << >> \in Seq(Entry) /\ Len(<< >>) = 0
  OBVIOUS
<1>2. LastId(r) \in Nat
  BY DEF IsRows
<1>3. DOMAIN A = DOMAIN r /\ \A i \in DOMAIN r : A[i] = r[i]
  <2>1. /\ DOMAIN A = DOMAIN r \cup (LastId(r) + 1 .. LastId(r) + 0)
        /\ \A i \in DOMAIN r : A[i] = r[i]
    BY <1>1, AppendedRows
  <2>2. LastId(r) + 1 .. LastId(r) + 0 = {}
    BY <1>2
  <2> QED BY <2>1, <2>2
<1>4. A = [i \in DOMAIN A |-> A[i]] /\ r = [i \in DOMAIN r |-> r[i]]
  BY DEF Appended, IsRows
<1> HIDE DEF A
<1>5. A = r
  BY <1>3, <1>4
<1> QED BY <1>5 DEF A

LEMMA WithoutRows ==
  ASSUME NEW r, IsRows(r), NEW ids
  PROVE  /\ IsRows(Without(r, ids))
         /\ DOMAIN Without(r, ids) = DOMAIN r \ ids
         /\ \A i \in DOMAIN r \ ids : Without(r, ids)[i] = r[i]
<1> DEFINE W == Without(r, ids)
<1>1. DOMAIN W = DOMAIN r \ ids /\ \A i \in DOMAIN r \ ids : W[i] = r[i]
  BY DEF Without, Restrict
<1>2. W \in [DOMAIN W -> Entry]
  BY DEF Without, Restrict, IsRows
<1>3. DOMAIN W \subseteq 1..LastId(r) /\ LastId(r) \in Nat
  BY <1>1 DEF IsRows
<1>4. IsRows(W)
  BY <1>2, <1>3, BoundedRows
<1> QED BY <1>1, <1>4

(* Rows for other objects do not change a label. *)
LEMMA AppendedOther ==
  ASSUME NEW r, IsRows(r), NEW new \in Seq(Entry), NEW k \in Key,
         \A j \in 1..Len(new) : EntryKey(new[j]) # k
  PROVE  RowsOf(Appended(r, new), k) = RowsOf(r, k) /\ Stored(Appended(r, new))[k] = Stored(r)[k]
<1> DEFINE A == Appended(r, new)
<1>1. /\ DOMAIN A = DOMAIN r \cup (LastId(r) + 1 .. LastId(r) + Len(new))
      /\ \A i \in DOMAIN r : A[i] = r[i]
      /\ \A i \in LastId(r) + 1 .. LastId(r) + Len(new) :
           i - LastId(r) \in 1..Len(new) /\ A[i] = new[i - LastId(r)]
  BY AppendedRows
<1> HIDE DEF A
<1>2. \A i \in LastId(r) + 1 .. LastId(r) + Len(new) : EntryKey(A[i]) # k
  BY <1>1
<1>3. RowsOf(A, k) = RowsOf(r, k)
  BY <1>1, <1>2 DEF RowsOf
<1>4. \A i \in RowsOf(r, k) : r[i] = A[i]
  BY <1>1 DEF RowsOf
<1>5. Stored(r)[k] = Stored(A)[k]
  BY <1>3, <1>4, StoredSame
<1> QED BY <1>3, <1>5 DEF A

(* The label of an object is that of the last row added for it. *)
LEMMA AppendedHere ==
  ASSUME NEW r, IsRows(r), NEW new \in Seq(Entry), NEW k \in Key,
         NEW j \in 1..Len(new), EntryKey(new[j]) = k,
         \A i \in 1..Len(new) : EntryKey(new[i]) = k => i = j
  PROVE  RowsOf(Appended(r, new), k) # {} /\ Stored(Appended(r, new))[k] = new[j].label
<1> DEFINE A == Appended(r, new)  n == LastId(r)  x == n + j
<1>1. /\ IsRows(A)
      /\ DOMAIN A = DOMAIN r \cup (LastId(r) + 1 .. LastId(r) + Len(new))
      /\ \A i \in DOMAIN r : A[i] = r[i] /\ i <= LastId(r)
      /\ \A i \in LastId(r) + 1 .. LastId(r) + Len(new) :
           i - LastId(r) \in 1..Len(new) /\ A[i] = new[i - LastId(r)]
  BY AppendedRows
<1>2. n \in Nat /\ Len(new) \in Nat /\ DOMAIN r \subseteq 1..n
  BY DEF IsRows
<1> HIDE DEF A
<1>3. x \in LastId(r) + 1 .. LastId(r) + Len(new) /\ x - n = j
  BY <1>2
<1>4. A[x] = new[j]
  BY <1>1, <1>3
<1>5. x \in RowsOf(A, k)
  BY <1>1, <1>3, <1>4 DEF RowsOf
<1>6. ASSUME NEW i \in RowsOf(A, k) PROVE i <= x
  <2>1. i \in DOMAIN A /\ EntryKey(A[i]) = k
    BY DEF RowsOf
  <2>2. CASE i \in DOMAIN r
    BY <1>1, <1>2, <2>2
  <2>3. CASE i \in LastId(r) + 1 .. LastId(r) + Len(new)
    <3>1. i - n = j
      BY <1>1, <2>1, <2>3
    <3> QED BY <1>2, <2>3, <3>1
  <2> QED BY <1>1, <2>1, <2>2, <2>3
<1>7. Stored(A)[k] = A[x].label
  BY <1>1, <1>5, <1>6, StoredLast
<1> QED BY <1>4, <1>5, <1>7 DEF A

LEMMA WithoutOther ==
  ASSUME NEW r, IsRows(r), NEW ids, NEW k \in Key, \A i \in RowsOf(r, k) : i \notin ids
  PROVE  RowsOf(Without(r, ids), k) = RowsOf(r, k) /\ Stored(Without(r, ids))[k] = Stored(r)[k]
<1> DEFINE W == Without(r, ids)
<1>1. DOMAIN W = DOMAIN r \ ids /\ \A i \in DOMAIN r \ ids : W[i] = r[i]
  BY WithoutRows
<1> HIDE DEF W
<1>2. RowsOf(W, k) = RowsOf(r, k) /\ \A i \in RowsOf(r, k) : r[i] = W[i]
  BY <1>1 DEF RowsOf
<1>3. Stored(r)[k] = Stored(W)[k]
  BY <1>2, StoredSame
<1> QED BY <1>2, <1>3 DEF W

(* Deleting rows breaks nothing but what they were there for. *)
LEMMA WithoutDescribes ==
  ASSUME NEW r, IsRows(r), NEW ids, NEW T,
         NamesExist(T, r), UniqueRows(r), AddedExist(T, r)
  PROVE  /\ NamesExist(T, Without(r, ids)) /\ UniqueRows(Without(r, ids))
         /\ AddedExist(T, Without(r, ids))
<1> DEFINE W == Without(r, ids)
<1>1. DOMAIN W = DOMAIN r \ ids /\ \A i \in DOMAIN r \ ids : W[i] = r[i]
  BY WithoutRows
<1> HIDE DEF W
<1>2. NamesExist(T, W)
  BY <1>1 DEF NamesExist
<1>3. UniqueRows(W)
  BY <1>1 DEF UniqueRows
<1>4. AddedExist(T, W)
  BY <1>1 DEF AddedExist
<1> QED BY <1>2, <1>3, <1>4 DEF W

(* Adding rows breaks nothing if the new ones fit the schema and have new     *)
(* primary keys.                                                              *)
Fits(T, e) ==
  /\ e.name = "" \/ T[e.name] # Absent
  /\ e.column \in {"b", "b INT"} => e.name \in Table /\ "b" \in T[e.name]
SameColumns(e, f) == e.name = f.name /\ e.column = f.column

LEMMA AppendedDescribes ==
  ASSUME NEW r, IsRows(r), NEW new \in Seq(Entry), NEW T,
         NamesExist(T, r), UniqueRows(r), AddedExist(T, r),
         \A j \in 1..Len(new) : Fits(T, new[j]),
         \A j \in 1..Len(new), i \in DOMAIN r : ~SameColumns(r[i], new[j]),
         \A i, j \in 1..Len(new) : SameColumns(new[i], new[j]) => i = j
  PROVE  /\ NamesExist(T, Appended(r, new)) /\ UniqueRows(Appended(r, new))
         /\ AddedExist(T, Appended(r, new))
<1> DEFINE A == Appended(r, new)  n == LastId(r)  N == (n + 1 .. n + Len(new))
<1>1. /\ DOMAIN A = DOMAIN r \cup N
      /\ \A i \in DOMAIN r : A[i] = r[i]
      /\ \A i \in N : i - n \in 1..Len(new) /\ A[i] = new[i - n]
  BY AppendedRows
<1>2. \A i, j \in N : i - n = j - n => i = j
  BY DEF IsRows
<1> HIDE DEF A, N, n
<1>3. \A i \in N : Fits(T, A[i])
  BY <1>1
<1>4. NamesExist(T, A)
  BY <1>1, <1>3 DEF NamesExist, Fits
<1>5. AddedExist(T, A)
  BY <1>1, <1>3 DEF AddedExist, Fits
<1>6. \A i \in DOMAIN r, j \in N : ~SameColumns(A[i], A[j]) /\ ~SameColumns(A[j], A[i])
  BY <1>1 DEF SameColumns
<1>7. \A i, j \in N : SameColumns(A[i], A[j]) => i = j
  BY <1>1, <1>2
<1>8. \A i, j \in DOMAIN r : SameColumns(A[i], A[j]) => i = j
  BY <1>1 DEF UniqueRows, SameColumns
<1>9. UniqueRows(A)
  BY <1>1, <1>6, <1>7, <1>8 DEF UniqueRows, SameColumns
<1> QED BY <1>4, <1>5, <1>9 DEF A

(* What a table's objects are. *)
LEMMA KeyParts ==
  /\ DbKey \in Key /\ \A t \in Table : KeysOf(t) \subseteq Key
  /\ \A t \in Table : TableKey(t) \in KeysOf(t) /\ <<t, "a">> \in KeysOf(t)
  /\ \A t \in Table, c \in Column : <<t, c>> \in KeysOf(t)
  /\ \A t \in Table, k \in Key : k[1] = t <=> k \in KeysOf(t)
  /\ \A k \in Key : /\ k = <<k[1], k[2]>> /\ (k[1] = "" \/ k[1] \in Table)
                    /\ k[2] # "NULL" /\ k[2] \in Column \cup {""}
<1>1. /\ DbKey \in Key /\ \A t \in Table : KeysOf(t) \subseteq Key
      /\ \A t \in Table : TableKey(t) \in KeysOf(t)
      /\ \A t \in Table, c \in Column : <<t, c>> \in KeysOf(t)
  BY DEF Key, KeysOf
<1>2. \A t \in Table : <<t, "a">> \in KeysOf(t)
  BY DEF KeysOf, Column
<1>3. \A t \in Table : \A k \in KeysOf(t) : k = <<k[1], k[2]>> /\ k[1] = t /\ k[2] # "NULL" /\ k[2] \in Column \cup {""}
  <2> SUFFICES ASSUME NEW t \in Table, NEW k \in KeysOf(t)
               PROVE  k = <<k[1], k[2]>> /\ k[1] = t /\ k[2] # "NULL" /\ k[2] \in Column \cup {""}
    OBVIOUS
  <2>1. CASE k = <<t, "">>
    BY <2>1
  <2>2. CASE k # <<t, "">>
    <3>1. PICK c \in Column : k = <<t, c>>
      BY <2>2 DEF KeysOf, TableKey
    <3> QED BY <3>1 DEF Column
  <2> QED BY <2>1, <2>2
<1>4. DbKey = <<DbKey[1], DbKey[2]>> /\ DbKey[1] = "" /\ DbKey[2] # "NULL" /\ DbKey[2] = ""
  BY DEF DbKey
<1>5. \A k \in Key : k = DbKey \/ \E t \in Table : k \in KeysOf(t)
  BY DEF Key
<1>6. \A t \in Table, k \in Key : k[1] = t <=> k \in KeysOf(t)
  <2>1. DbKey[1] \notin Table
    BY <1>4, TableAssumption
  <2> SUFFICES ASSUME NEW t \in Table, NEW k \in Key PROVE k[1] = t <=> k \in KeysOf(t)
    OBVIOUS
  <2>2. k \in KeysOf(t) => k[1] = t
    BY <1>3
  <2>3. ASSUME k[1] = t PROVE k \in KeysOf(t)
    <3>1. PICK u \in Table : k \in KeysOf(u)
      BY <1>5, <2>1, <2>3
    <3>2. k[1] = u
      BY <1>3, <3>1
    <3> QED BY <2>3, <3>1, <3>2
  <2> QED BY <2>2, <2>3
<1>7. \A k \in Key : /\ k = <<k[1], k[2]>> /\ (k[1] = "" \/ k[1] \in Table)
                      /\ k[2] # "NULL" /\ k[2] \in Column \cup {""}
  BY <1>3, <1>4, <1>5
<1> QED BY <1>1, <1>2, <1>6, <1>7

LEMMA ColumnKey ==
  ASSUME NEW t \in Table, NEW c \in Column PROVE <<t, c>> \in Key
  BY KeyParts

LEMMA LabelledKeys ==
  ASSUME NEW t \in Table PROVE TableKey(t) \in Key /\ <<t, "a">> \in Key
  BY KeyParts

(* The object a row is about. *)
LEMMA RowName ==
  ASSUME NEW r, NEW k, NEW i \in RowsOf(r, k)
  PROVE  i \in DOMAIN r /\ r[i].name = k[1]
<1>1. i \in DOMAIN r /\ EntryKey(r[i]) = k
  BY DEF RowsOf
<1>2. \A a, b : <<a, b>>[1] = a
  OBVIOUS
<1>3. EntryKey(r[i])[1] = r[i].name
  BY <1>2 DEF EntryKey
<1> QED BY <1>1, <1>3

(* A table that does not exist has no rows. *)
LEMMA NoRowsOf ==
  ASSUME NEW T, NEW r, IsRows(r), NamesExist(T, r), NEW t \in Table, T[t] = Absent
  PROVE  /\ \A i \in DOMAIN r : r[i].name # t
         /\ \A k \in KeysOf(t) : RowsOf(r, k) = {} /\ Stored(r)[k] = NoLabel
<1>1. \A i \in DOMAIN r : r[i].name # t
  BY TableAssumption DEF NamesExist
<1>2. ASSUME NEW k \in KeysOf(t) PROVE RowsOf(r, k) = {} /\ Stored(r)[k] = NoLabel
  <2>1. k \in Key /\ k[1] = t
    BY KeyParts
  <2>2. RowsOf(r, k) = {}
    BY <1>1, <2>1, RowName DEF RowsOf
  <2> QED BY <2>1, <2>2, StoredNone
<1> QED BY <1>1, <1>2

-------------------------------------------------------------------------------
(* What each statement does to schema and rows. *)

TablesT == [Table -> SUBSET {"a", "b", "security_context"}]

(* CREATE TABLE: t is new, so its rows have no predecessors. *)
CreatedTables(T, t) == [T EXCEPT ![t] = {"a", "security_context"}]

LEMMA CreatedDescribes ==
  ASSUME NEW T \in TablesT, NEW r, IsRows(r), Describes(T, r), NEW t \in Table, T[t] = Absent,
         NEW l \in Label, NEW m \in Label, NEW new,
         new = << [name |-> t, column |-> "NULL", label |-> l],
                  [name |-> t, column |-> "a", label |-> m] >>
  PROVE  /\ CreatedTables(T, t) \in TablesT
         /\ IsRows(Appended(r, new))
         /\ Describes(CreatedTables(T, t), Appended(r, new))
         /\ Stored(Appended(r, new))[TableKey(t)] = l
         /\ Stored(Appended(r, new))[<<t, "a">>] = m
         /\ \A k \in Key \ {TableKey(t), <<t, "a">>} : Stored(Appended(r, new))[k] = Stored(r)[k]
<1> DEFINE U == CreatedTables(T, t)  A == Appended(r, new)
<1>1. /\ new \in Seq(Entry) /\ Len(new) = 2
      /\ new[1].name = t /\ new[1].column = "NULL" /\ new[1].label = l
      /\ new[2].name = t /\ new[2].column = "a" /\ new[2].label = m
  <2> DEFINE e == [name |-> t, column |-> "NULL", label |-> l]
             f == [name |-> t, column |-> "a", label |-> m]
  <2>1. e \in Entry /\ e.name = t /\ e.column = "NULL" /\ e.label = l
    BY DEF Entry
  <2>2. f \in Entry /\ f.name = t /\ f.column = "a" /\ f.label = m
    BY DEF Entry, Column
  <2>3. new = <<e, f>>
    OBVIOUS
  <2> HIDE DEF e, f
  <2>4. new \in Seq(Entry) /\ Len(new) = 2 /\ new[1] = e /\ new[2] = f
    BY <2>1, <2>2, <2>3
  <2> QED BY <2>1, <2>2, <2>4
<1>2. EntryKey(new[1]) = TableKey(t) /\ EntryKey(new[2]) = <<t, "a">>
  BY <1>1 DEF EntryKey, TableKey
<1>3. TableKey(t) # <<t, "a">> /\ TableKey(t) \in Key /\ <<t, "a">> \in Key
  BY KeyParts DEF TableKey
<1>4. U \in TablesT /\ U[t] # Absent /\ \A u \in Table : u # t => U[u] = T[u]
  BY DEF CreatedTables, TablesT, Absent
<1>5. \A i \in DOMAIN r : r[i].name # t /\ r[i] \in Entry
  BY NoRowsOf DEF Describes, IsRows
<1>6. NamesExist(U, r) /\ AddedExist(U, r)
  <2>1. NamesExist(T, r) /\ AddedExist(T, r)
    BY DEF Describes
  <2>2. \A i \in DOMAIN r : r[i].name \in Table => U[r[i].name] = T[r[i].name]
    BY <1>4, <1>5
  <2>3. \A i \in DOMAIN r : r[i].name \in Table \cup {""}
    BY <1>5 DEF Entry
  <2> HIDE DEF U
  <2> QED BY <2>1, <2>2, <2>3 DEF NamesExist, AddedExist
<1> HIDE DEF U
<1>7. \A j \in 1..Len(new) : j = 1 \/ j = 2
  BY <1>1
<1>8. \A j \in 1..Len(new) : Fits(U, new[j])
  BY <1>1, <1>4, <1>7 DEF Fits
<1>9. \A j \in 1..Len(new), i \in DOMAIN r : ~SameColumns(r[i], new[j])
  BY <1>1, <1>5, <1>7 DEF SameColumns
<1>10. \A i, j \in 1..Len(new) : SameColumns(new[i], new[j]) => i = j
  BY <1>1, <1>7 DEF SameColumns
<1>11. NamesExist(U, A) /\ UniqueRows(A) /\ AddedExist(U, A)
  BY <1>1, <1>6, <1>8, <1>9, <1>10, AppendedDescribes DEF Describes
<1>12. 1 \in 1..Len(new) /\ 2 \in 1..Len(new)
  BY <1>1
<1>13. RowsOf(A, TableKey(t)) # {} /\ Stored(A)[TableKey(t)] = l
  <2>1. \A i \in 1..Len(new) : EntryKey(new[i]) = TableKey(t) => i = 1
    BY <1>2, <1>3, <1>7
  <2>2. RowsOf(A, TableKey(t)) # {} /\ Stored(A)[TableKey(t)] = new[1].label
    <3>1. IsRows(r)
      OBVIOUS
    <3> QED BY ONLY <3>1, <1>1, <1>2, <1>3, <1>12, <2>1, AppendedHere
  <2> QED BY <1>1, <2>2
<1>14. RowsOf(A, <<t, "a">>) # {} /\ Stored(A)[<<t, "a">>] = m
  <2>1. \A i \in 1..Len(new) : EntryKey(new[i]) = <<t, "a">> => i = 2
    BY <1>2, <1>3, <1>7
  <2>2. RowsOf(A, <<t, "a">>) # {} /\ Stored(A)[<<t, "a">>] = new[2].label
    <3> DEFINE ka == <<t, "a">>
    <3>1. /\ IsRows(r) /\ ka \in Key /\ EntryKey(new[2]) = ka
          /\ \A i \in 1..Len(new) : EntryKey(new[i]) = ka => i = 2
      BY <1>2, <1>3, <2>1
    <3> HIDE DEF ka
    <3>2. RowsOf(A, ka) # {} /\ Stored(A)[ka] = new[2].label
      BY ONLY <3>1, <1>1, <1>12, AppendedHere
    <3> QED BY <3>2 DEF ka
  <2> QED BY <1>1, <2>2
<1>15. ASSUME NEW k \in Key \ {TableKey(t), <<t, "a">>}
       PROVE  RowsOf(A, k) = RowsOf(r, k) /\ Stored(A)[k] = Stored(r)[k]
  <2>1. \A j \in 1..Len(new) : EntryKey(new[j]) # k
    BY <1>2, <1>7
  <2> QED BY <1>1, <2>1, AppendedOther
<1> HIDE DEF A
<1>16. Labelled(U, A)
  <2> SUFFICES ASSUME NEW u \in Table, "security_context" \in U[u]
               PROVE  RowsOf(A, TableKey(u)) # {} /\ RowsOf(A, <<u, "a">>) # {}
    BY DEF Labelled
  <2>1. CASE u = t
    BY <2>1, <1>13, <1>14
  <2>2. CASE u # t
    <3>1. RowsOf(r, TableKey(u)) # {} /\ RowsOf(r, <<u, "a">>) # {}
      BY <2>2, <1>4 DEF Describes, Labelled
    <3>2. TableKey(u) \in Key \ {TableKey(t), <<t, "a">>} /\ <<u, "a">> \in Key \ {TableKey(t), <<t, "a">>}
      BY <2>2, KeyParts DEF TableKey
    <3> QED BY <1>15, <3>1, <3>2
  <2> QED BY <2>1, <2>2
<1>17. IsRows(A)
  BY <1>1, AppendedRows DEF A
<1> QED BY <1>4, <1>11, <1>13, <1>14, <1>15, <1>16, <1>17 DEF Describes, U, A

(* CREATE TABLE while vacuum is set: no labels. *)
LEMMA BareDescribes ==
  ASSUME NEW T \in TablesT, NEW r, IsRows(r), Describes(T, r), NEW t \in Table, T[t] = Absent
  PROVE  [T EXCEPT ![t] = {"a"}] \in TablesT /\ Describes([T EXCEPT ![t] = {"a"}], r)
<1> DEFINE U == [T EXCEPT ![t] = {"a"}]
<1>1. U \in TablesT /\ U[t] = {"a"} /\ \A u \in Table : u # t => U[u] = T[u]
  BY DEF TablesT
<1>2. \A i \in DOMAIN r : r[i].name # t /\ r[i].name \in Table \cup {""}
  <2>1. \A i \in DOMAIN r : r[i].name # t
    BY NoRowsOf DEF Describes
  <2> QED BY <2>1 DEF IsRows, Entry
<1> HIDE DEF U
<1>4. \A i \in DOMAIN r : r[i].name \in Table => U[r[i].name] = T[r[i].name]
  BY <1>1, <1>2
<1>5. Labelled(U, r)
  <2>1. \A u \in Table : "security_context" \in U[u] => "security_context" \in T[u]
    BY <1>1
  <2> QED BY <2>1 DEF Describes, Labelled
<1>6. NamesExist(U, r) /\ AddedExist(U, r)
  BY <1>2, <1>4 DEF Describes, NamesExist, AddedExist
<1> QED BY <1>1, <1>5, <1>6 DEF Describes, U

(* DROP TABLE. *)
LEMMA DroppedDescribes ==
  ASSUME NEW T \in TablesT, NEW r, IsRows(r), Describes(T, r), NEW t \in Table, NEW ids,
         ids = {i \in DOMAIN r : r[i].name = t}
  PROVE  /\ [T EXCEPT ![t] = Absent] \in TablesT
         /\ IsRows(Without(r, ids))
         /\ Describes([T EXCEPT ![t] = Absent], Without(r, ids))
         /\ \A k \in Key : Stored(Without(r, ids))[k] = NoLabel \/ Stored(Without(r, ids))[k] = Stored(r)[k]
<1> DEFINE U == [T EXCEPT ![t] = Absent]  W == Without(r, ids)
<1>1. U \in TablesT /\ U[t] = Absent /\ \A u \in Table : u # t => U[u] = T[u]
  BY DEF TablesT, Absent
<1>2. IsRows(W) /\ DOMAIN W = DOMAIN r \ ids /\ \A i \in DOMAIN r \ ids : W[i] = r[i]
  <2>1. IsRows(r)
    OBVIOUS
  <2> QED BY ONLY <2>1, WithoutRows
<1>3. NamesExist(T, W) /\ UniqueRows(W) /\ AddedExist(T, W)
  BY WithoutDescribes DEF Describes
<1>5. ASSUME NEW k \in Key, k[1] # t
      PROVE  RowsOf(W, k) = RowsOf(r, k) /\ Stored(W)[k] = Stored(r)[k]
  <2>1. \A i \in RowsOf(r, k) : i \notin ids
    BY <1>5, RowName
  <2> QED BY <2>1, WithoutOther
<1> HIDE DEF U, W
<1>6. \A i \in DOMAIN W : W[i].name # t /\ W[i].name \in Table \cup {""}
  BY <1>2 DEF IsRows, Entry
<1>7. \A i \in DOMAIN W : W[i].name \in Table => U[W[i].name] = T[W[i].name]
  BY <1>1, <1>6
<1>8. NamesExist(U, W) /\ AddedExist(U, W)
  BY <1>3, <1>6, <1>7 DEF NamesExist, AddedExist
<1>9. Labelled(U, W)
  <2> SUFFICES ASSUME NEW u \in Table, "security_context" \in U[u]
               PROVE  RowsOf(W, TableKey(u)) # {} /\ RowsOf(W, <<u, "a">>) # {}
    BY DEF Labelled
  <2>1. u # t
    BY <1>1 DEF Absent
  <2>2. RowsOf(r, TableKey(u)) # {} /\ RowsOf(r, <<u, "a">>) # {}
    BY <1>1, <2>1 DEF Describes, Labelled
  <2>3. TableKey(u) \in Key /\ <<u, "a">> \in Key /\ TableKey(u)[1] = u /\ <<u, "a">>[1] = u
    BY KeyParts DEF TableKey
  <2> QED BY <1>5, <2>1, <2>2, <2>3
<1>10. ASSUME NEW k \in Key, k[1] = t PROVE Stored(W)[k] = NoLabel
  <2>1. RowsOf(W, k) = {}
    BY <1>6, <1>10, RowName DEF RowsOf
  <2> QED BY <1>2, <2>1, StoredNone
<1> QED BY <1>1, <1>2, <1>3, <1>5, <1>8, <1>9, <1>10 DEF Describes, U, W

(* ALTER TABLE ... RENAME: u is new, so no row of it stands in the way. *)
RenamedTables(T, t, u) == [T EXCEPT ![u] = T[t], ![t] = Absent]

LEMMA RenamedDescribes ==
  ASSUME NEW T \in TablesT, NEW r, IsRows(r), Describes(T, r),
         NEW t \in Table, NEW u \in Table, T[t] # Absent, T[u] = Absent
  PROVE  /\ RenamedTables(T, t, u) \in TablesT
         /\ IsRows(Renamed(r, t, u))
         /\ Describes(RenamedTables(T, t, u), Renamed(r, t, u))
         /\ \A k \in Key \ KeysOf(u) : Stored(Renamed(r, t, u))[k] = NoLabel
                                       \/ Stored(Renamed(r, t, u))[k] = Stored(r)[k]
<1> DEFINE U == RenamedTables(T, t, u)  R == Renamed(r, t, u)
<1>1. t # u
  OBVIOUS
<1>2. U \in TablesT /\ U[t] = Absent /\ U[u] = T[t] /\ \A w \in Table : w # t /\ w # u => U[w] = T[w]
  BY <1>1 DEF RenamedTables, TablesT, Absent
<1>4. \A i \in DOMAIN r : r[i] \in Entry /\ r[i].name # u
  BY NoRowsOf DEF Describes, IsRows
<1>5. DOMAIN R = DOMAIN r
  BY DEF Renamed
<1>6. \A i \in DOMAIN r : /\ r[i].name = t => R[i] = [r[i] EXCEPT !.name = u]
                          /\ r[i].name # t => R[i] = r[i]
  BY DEF Renamed
<1>7. \A i \in DOMAIN r : /\ R[i] \in Entry /\ R[i].column = r[i].column
                          /\ r[i].name = t => R[i].name = u
                          /\ r[i].name # t => R[i] = r[i]
  <2> SUFFICES ASSUME NEW i \in DOMAIN r
               PROVE  /\ R[i] \in Entry /\ R[i].column = r[i].column
                      /\ r[i].name = t => R[i].name = u
                      /\ r[i].name # t => R[i] = r[i]
    OBVIOUS
  <2> HIDE DEF R
  <2>1. r[i] \in Entry
    BY <1>4
  <2>2. CASE r[i].name = t
    <3> DEFINE e == r[i]
    <3>1. R[i] = [e EXCEPT !.name = u] /\ e \in Entry
      BY <1>6, <2>1, <2>2
    <3> HIDE DEF e
    <3>2. R[i] \in Entry /\ R[i].column = e.column /\ R[i].name = u
      BY <3>1 DEF Entry
    <3> QED BY <2>2, <3>2 DEF e
  <2>3. CASE r[i].name # t
    BY <1>6, <2>1, <2>3
  <2> QED BY <2>2, <2>3
<1>8. R = [i \in DOMAIN R |-> R[i]]
  BY DEF Renamed
<1> HIDE DEF U, R
<1>9. R \in [DOMAIN R -> Entry]
  BY <1>5, <1>7, <1>8
<1>10. IsRows(R)
  BY <1>5, <1>9, BoundedRows DEF IsRows
<1>11. \A i \in DOMAIN r : r[i].name \in Table \cup {""}
  BY <1>4 DEF Entry
<1>12. \A i \in DOMAIN r : r[i].name \in Table =>
         R[i].name \in Table /\ U[R[i].name] = T[r[i].name]
  BY <1>2, <1>4, <1>7
<1>13. \A i \in DOMAIN r : R[i].name = "" <=> r[i].name = ""
  BY <1>7, TableAssumption
<1>14. NamesExist(U, R) /\ AddedExist(U, R)
  BY <1>5, <1>7, <1>11, <1>12, <1>13 DEF Describes, NamesExist, AddedExist
<1>15. UniqueRows(R)
  <2>1. \A i, j \in DOMAIN r : R[i].name = R[j].name => r[i].name = r[j].name
    BY <1>4, <1>7
  <2> QED BY <1>5, <1>7, <2>1 DEF Describes, UniqueRows
<1>16. ASSUME NEW k \in Key, k[1] # t, k[1] # u
       PROVE  RowsOf(R, k) = RowsOf(r, k) /\ Stored(R)[k] = Stored(r)[k]
  <2>1. \A i \in RowsOf(R, k) : i \in RowsOf(r, k)
    <3> SUFFICES ASSUME NEW i \in RowsOf(R, k) PROVE i \in RowsOf(r, k)
      OBVIOUS
    <3>1. i \in DOMAIN r /\ R[i].name = k[1]
      BY <1>5, RowName
    <3>2. R[i] = r[i]
      BY <1>7, <1>16, <3>1
    <3> QED BY <3>1, <3>2 DEF RowsOf
  <2>2. \A i \in RowsOf(r, k) : i \in RowsOf(R, k) /\ r[i] = R[i]
    <3> SUFFICES ASSUME NEW i \in RowsOf(r, k) PROVE i \in RowsOf(R, k) /\ r[i] = R[i]
      OBVIOUS
    <3>1. i \in DOMAIN r /\ r[i].name = k[1]
      BY RowName
    <3>2. R[i] = r[i]
      BY <1>7, <1>16, <3>1
    <3> QED BY <1>5, <3>1, <3>2 DEF RowsOf
  <2>3. RowsOf(r, k) = RowsOf(R, k)
    BY <2>1, <2>2
  <2>4. Stored(r)[k] = Stored(R)[k]
    BY <2>2, <2>3, StoredSame
  <2> QED BY <2>3, <2>4
<1>17. ASSUME NEW k \in Key, k[1] = t PROVE Stored(R)[k] = NoLabel
  <2>1. \A i \in DOMAIN R : R[i].name # t
    BY <1>1, <1>5, <1>7
  <2>2. RowsOf(R, k) = {}
    BY <1>17, <2>1, RowName DEF RowsOf
  <2> QED BY <1>10, <2>2, StoredNone
<1>18. \A k \in Key \ KeysOf(u) : k[1] # u
  BY KeyParts
<1>19. Labelled(U, R)
  <2> SUFFICES ASSUME NEW w \in Table, "security_context" \in U[w],
                      NEW c \in {"", "a"}
               PROVE  RowsOf(R, <<w, c>>) # {}
    BY DEF Labelled, TableKey
  <2>1. w # t
    BY <1>2 DEF Absent
  <2>2. CASE w = u
    <3>1. RowsOf(r, <<t, c>>) # {}
      BY <1>2, <2>2 DEF Describes, Labelled, TableKey
    <3>2. PICK i \in RowsOf(r, <<t, c>>) : TRUE
      BY <3>1
    <3>3. i \in DOMAIN r /\ r[i].name = t
      BY <3>2, RowName
    <3>4. EntryKey(r[i]) = <<t, c>>
      BY <3>2 DEF RowsOf
    <3>5. R[i].name = u /\ R[i].column = r[i].column
      BY <1>7, <3>3
    <3>6. EntryKey(R[i]) = <<u, c>>
      BY <3>4, <3>5 DEF EntryKey
    <3> QED BY <1>5, <2>2, <3>3, <3>6 DEF RowsOf
  <2>3. CASE w # u
    <3>1. <<w, c>> \in Key /\ <<w, c>>[1] = w
      BY KeyParts DEF TableKey
    <3>2. RowsOf(r, <<w, c>>) # {}
      BY <1>2, <2>1, <2>3 DEF Describes, Labelled, TableKey
    <3> QED BY <1>16, <2>1, <2>3, <3>1, <3>2
  <2> QED BY <2>2, <2>3
<1> QED BY <1>2, <1>10, <1>14, <1>15, <1>16, <1>17, <1>18, <1>19 DEF Describes, U, R

(* ALTER TABLE ... ADD: the column is new, so no row has its name or its text. *)
AddedTables(T, t) == [T EXCEPT ![t] = @ \cup {"b"}]

LEMMA OneRow ==
  ASSUME NEW e \in Entry
  PROVE  <<e>> \in Seq(Entry) /\ Len(<<e>>) = 1 /\ <<e>>[1] = e
  OBVIOUS

LEMMA OneIndex == \A j \in 1..1 : j = 1
  OBVIOUS

LEMMA AddedDescribes ==
  ASSUME NEW T \in TablesT, NEW r, IsRows(r), Describes(T, r), NEW e \in Entry,
         e.name \in Table, T[e.name] # Absent, "b" \notin T[e.name], e.column \in {"b", "b INT"}
  PROVE  /\ AddedTables(T, e.name) \in TablesT
         /\ IsRows(Appended(r, <<e>>))
         /\ Describes(AddedTables(T, e.name), Appended(r, <<e>>))
         /\ \A k \in Key : k # EntryKey(e) => Stored(Appended(r, <<e>>))[k] = Stored(r)[k]
<1> DEFINE U == AddedTables(T, e.name)  new == <<e>>  A == Appended(r, new)
<1>1. new \in Seq(Entry) /\ Len(new) = 1 /\ new[1] = e
  BY OneRow
<1> HIDE DEF new
<1>2. EntryKey(e) = <<e.name, e.column>>
  BY DEF EntryKey
<1>3. U \in TablesT /\ U[e.name] # Absent /\ "b" \in U[e.name] /\ \A u \in Table : u # e.name => U[u] = T[u]
  BY DEF AddedTables, TablesT, Absent
<1>4. \A u \in Table : T[u] \subseteq U[u]
  BY DEF AddedTables, TablesT
<1>5. \A u \in Table : "security_context" \in U[u] => "security_context" \in T[u]
  BY DEF AddedTables, TablesT
<1> HIDE DEF U
<1>6. \A i \in DOMAIN r : r[i].name \in Table \cup {""}
  BY DEF IsRows, Entry
<1>7. NamesExist(U, r) /\ AddedExist(U, r)
  <2>1. NamesExist(T, r) /\ AddedExist(T, r)
    BY DEF Describes
  <2>2. \A i \in DOMAIN r : r[i].name \in Table => T[r[i].name] \subseteq U[r[i].name]
    BY <1>4
  <2>3. NamesExist(U, r)
    BY <1>6, <2>1, <2>2 DEF NamesExist, Absent
  <2> QED BY <2>1, <2>2, <2>3 DEF AddedExist
<1>8. \A i \in DOMAIN r : ~SameColumns(r[i], e)
  BY DEF Describes, AddedExist, SameColumns
<1>9. \A j \in 1..Len(new) : j = 1
  <2>1. Len(new) = 1
    BY <1>1
  <2> QED BY ONLY <2>1, OneIndex
<1>10. Fits(U, e)
  BY <1>3 DEF Fits
<1>11. \A j \in 1..Len(new) : Fits(U, new[j])
  BY <1>1, <1>9, <1>10
<1>12. \A j \in 1..Len(new), i \in DOMAIN r : ~SameColumns(r[i], new[j])
  BY <1>1, <1>8, <1>9
<1>13. \A i, j \in 1..Len(new) : SameColumns(new[i], new[j]) => i = j
  BY <1>9
<1>14. NamesExist(U, A) /\ UniqueRows(A) /\ AddedExist(U, A)
  BY <1>1, <1>7, <1>11, <1>12, <1>13, AppendedDescribes DEF Describes
<1>15. IsRows(A)
  BY <1>1, AppendedRows
<1>16. ASSUME NEW k \in Key, k # EntryKey(e)
       PROVE  RowsOf(A, k) = RowsOf(r, k) /\ Stored(A)[k] = Stored(r)[k]
  <2>1. \A j \in 1..Len(new) : EntryKey(new[j]) # k
    BY <1>1, <1>9, <1>16
  <2> QED BY <1>1, <2>1, AppendedOther
<1> HIDE DEF A
<1>17. Labelled(U, A)
  <2> SUFFICES ASSUME NEW w \in Table, "security_context" \in U[w], NEW c \in {"", "a"}
               PROVE  RowsOf(A, <<w, c>>) # {}
    BY DEF Labelled, TableKey
  <2>1. RowsOf(r, <<w, c>>) # {}
    BY <1>5 DEF Describes, Labelled, TableKey
  <2>2. <<w, c>> \in Key
    BY KeyParts DEF TableKey
  <2>3. <<w, c>> # EntryKey(e)
    <3>1. c # e.column
      OBVIOUS
    <3>2. \A a, b, x, y : <<a, b>> = <<x, y>> => b = y
      OBVIOUS
    <3> QED BY <1>2, <3>1, <3>2
  <2> QED BY <1>16, <2>1, <2>2, <2>3
<1> QED BY <1>3, <1>14, <1>15, <1>16, <1>17 DEF Describes, U, A, new

-------------------------------------------------------------------------------
(* restorecon *)

(* The order in which the objects are visited names each once. *)
LEMMA OrderOfKeys ==
  ASSUME NEW S, IsFiniteSet(S)
  PROVE  /\ SetToSeq(S) \in Seq(S)
         /\ \A i, j \in DOMAIN SetToSeq(S) : SetToSeq(S)[i] = SetToSeq(S)[j] => i = j
         /\ \A x \in S : \E i \in DOMAIN SetToSeq(S) : SetToSeq(S)[i] = x
<1> DEFINE n == Cardinality(S)  f == SetToSeq(S)
<1>1. n \in Nat /\ ExistsBijection(1..n, S)
  BY FS_CardinalityType
<1>2. \E g \in [1..n -> S] : IsInjective(g)
  BY <1>1 DEF ExistsBijection, Bijection, Injection
<1>3. f \in [1..n -> S] /\ IsInjective(f)
  BY <1>2 DEF SetToSeq
<1> HIDE DEF f
<1>4. f \in Injection(1..n, S)
  BY <1>3 DEF Injection
<1>5. Cardinality(1..n) = n
  BY <1>1, FS_Interval
<1>6. f \in Surjection(1..n, S)
  BY <1>4, <1>5, FS_Injection
<1> HIDE DEF n
<1>7. f \in Seq(S) /\ DOMAIN f = 1..n
  BY <1>1, <1>3
<1>8. \A x \in S : \E i \in DOMAIN f : f[i] = x
  BY <1>6, <1>7 DEF Surjection
<1>9. \A i, j \in DOMAIN f : f[i] = f[j] => i = j
  BY <1>3 DEF IsInjective
<1> QED BY <1>7, <1>8, <1>9 DEF f

(* The objects of a schema are finitely many. *)
LEMMA KeysFinite == IsFiniteSet(Key)
<1> DEFINE N == Table \cup {""}  C == Column \cup {""}
<1>1. IsFiniteSet({""}) /\ IsFiniteSet({"a"}) /\ IsFiniteSet({"b"}) /\ IsFiniteSet({"b INT"})
  BY FS_Singleton
<1>2. IsFiniteSet(N)
  BY <1>1, TableAssumption, FS_Union
<1>3. IsFiniteSet({"a"} \cup {"b"}) /\ Column = ({"a"} \cup {"b"}) \cup {"b INT"}
  BY <1>1, FS_Union DEF Column
<1>4. IsFiniteSet(C)
  <2>1. IsFiniteSet(({"a"} \cup {"b"}) \cup {"b INT"})
    BY <1>1, <1>3, FS_Union
  <2> QED BY <1>1, <1>3, <2>1, FS_Union
<1>5. IsFiniteSet(N \X C)
  BY <1>2, <1>4, FS_Product
<1>6. Key \subseteq N \X C
  <2> SUFFICES ASSUME NEW k \in Key PROVE k \in N \X C
    OBVIOUS
  <2>1. k = <<k[1], k[2]>> /\ k[1] \in N /\ k[2] \in C
    BY KeyParts
  <2> HIDE DEF N, C
  <2> QED BY <2>1
<1> QED BY <1>5, <1>6, FS_Subset

(* What the reload writes. *)
ReloadRows(keys, v) ==
  [n \in DOMAIN SetToSeq(keys) |-> ReloadedEntry(SetToSeq(keys)[n], v)]

LEMMA ReloadRowsAre ==
  ASSUME NEW keys \in SUBSET Key, NEW v \in Version
  PROVE  /\ ReloadRows(keys, v) \in Seq(Entry)
         /\ \A j \in 1..Len(ReloadRows(keys, v)) :
              /\ EntryKey(ReloadRows(keys, v)[j]) \in keys
              /\ ReloadRows(keys, v)[j] = ReloadedEntry(EntryKey(ReloadRows(keys, v)[j]), v)
         /\ \A i, j \in 1..Len(ReloadRows(keys, v)) :
              EntryKey(ReloadRows(keys, v)[i]) = EntryKey(ReloadRows(keys, v)[j]) => i = j
         /\ \A k \in keys : \E j \in 1..Len(ReloadRows(keys, v)) : EntryKey(ReloadRows(keys, v)[j]) = k
<1> DEFINE f == SetToSeq(keys)  new == ReloadRows(keys, v)
<1>1. IsFiniteSet(keys)
  BY KeysFinite, FS_Subset
<1>2. /\ f \in Seq(keys)
      /\ \A i, j \in DOMAIN f : f[i] = f[j] => i = j
      /\ \A x \in keys : \E i \in DOMAIN f : f[i] = x
  BY <1>1, OrderOfKeys
<1>3. new = [n \in DOMAIN f |-> ReloadedEntry(f[n], v)]
  BY DEF ReloadRows
<1> HIDE DEF f, new
<1>4. \A k \in keys : ReloadedEntry(k, v) \in Entry /\ EntryKey(ReloadedEntry(k, v)) = k
  <2> SUFFICES ASSUME NEW k \in Key
               PROVE  ReloadedEntry(k, v) \in Entry /\ EntryKey(ReloadedEntry(k, v)) = k
    OBVIOUS
  <2>1. k = <<k[1], k[2]>> /\ k[1] \in Table \cup {""} /\ k[2] # "NULL"
    BY KeyParts
  <2>2. k[2] \in Column \cup {""}
    BY KeyParts
  <2>3. Default(v, k) \in Label
    BY DefaultAssumption
  <2>4. ReloadedEntry(k, v) \in Entry
    BY <2>1, <2>2, <2>3 DEF ReloadedEntry, Entry
  <2>5. EntryKey(ReloadedEntry(k, v)) = <<k[1], k[2]>>
    BY <2>1 DEF EntryKey, ReloadedEntry
  <2> QED BY <2>1, <2>4, <2>5
<1>5. DOMAIN f = 1..Len(f) /\ Len(f) \in Nat /\ \A i \in DOMAIN f : f[i] \in keys
  BY <1>2
<1>6. new \in Seq(Entry) /\ Len(new) = Len(f)
  <2>1. \A i \in 1..Len(f) : ReloadedEntry(f[i], v) \in Entry
    BY <1>4, <1>5
  <2>2. new = [n \in 1..Len(f) |-> ReloadedEntry(f[n], v)]
    BY <1>3, <1>5
  <2> QED BY <1>5, <2>1, <2>2
<1>7. \A j \in 1..Len(new) : j \in DOMAIN f /\ new[j] = ReloadedEntry(f[j], v) /\ EntryKey(new[j]) = f[j]
  <2> SUFFICES ASSUME NEW j \in 1..Len(new)
               PROVE  j \in DOMAIN f /\ new[j] = ReloadedEntry(f[j], v) /\ EntryKey(new[j]) = f[j]
    OBVIOUS
  <2>1. j \in DOMAIN f
    BY <1>5, <1>6
  <2>2. new[j] = ReloadedEntry(f[j], v)
    BY <1>3, <2>1
  <2> QED BY <1>4, <1>5, <2>1, <2>2
<1>8. \A j \in 1..Len(new) : EntryKey(new[j]) \in keys /\ new[j] = ReloadedEntry(EntryKey(new[j]), v)
  BY <1>5, <1>7
<1>9. \A i, j \in 1..Len(new) : EntryKey(new[i]) = EntryKey(new[j]) => i = j
  BY <1>2, <1>7
<1>10. \A k \in keys : \E j \in 1..Len(new) : EntryKey(new[j]) = k
  BY <1>2, <1>5, <1>6, <1>7
<1> QED BY <1>6, <1>8, <1>9, <1>10 DEF new

LEMMA NewIds ==
  ASSUME NEW n \in Nat, NEW m \in Nat
  PROVE  /\ \A j \in 1..m : n + j \in n + 1 .. n + m /\ (n + j) - n = j
         /\ \A i, j \in n + 1 .. n + m : i - n = j - n => i = j
         /\ \A j \in 1..m, i \in 1..n : i <= n + j
         /\ \A j \in 1..m : n + j <= n + j
  OBVIOUS

(* The objects are those of the schema T. *)
InSchema(T, keys) ==
  /\ \A k \in keys : k[1] = "" \/ T[k[1]] # Absent
  /\ \A k \in keys : k[2] \in {"b", "b INT"} => k[1] \in Table /\ "b" \in T[k[1]]

LEMMA ReloadedDescribes ==
  ASSUME NEW T \in TablesT, NEW r, IsRows(r), Describes(T, r),
         NEW keys \in SUBSET Key, NEW v \in Version, InSchema(T, keys)
  PROVE  /\ IsRows(Reloaded(r, keys, v))
         /\ Describes(T, Reloaded(r, keys, v))
         /\ \A k \in keys : Stored(Reloaded(r, keys, v))[k] = Default(v, k)
         /\ \A k \in Key \ keys : Stored(Reloaded(r, keys, v))[k] = Stored(r)[k]
<1> DEFINE new == ReloadRows(keys, v)
           A == Appended(r, new)
           old == {i \in DOMAIN r : <<r[i].name, r[i].column>> \in keys}
           R == Without(A, old)
           n == LastId(r)
           N == (n + 1 .. n + Len(new))
<1>1. Reloaded(r, keys, v) = R
  BY DEF Reloaded, ReloadRows
<1>2. /\ new \in Seq(Entry)
      /\ \A j \in 1..Len(new) : /\ EntryKey(new[j]) \in keys
                                /\ new[j] = ReloadedEntry(EntryKey(new[j]), v)
      /\ \A i, j \in 1..Len(new) : EntryKey(new[i]) = EntryKey(new[j]) => i = j
      /\ \A k \in keys : \E j \in 1..Len(new) : EntryKey(new[j]) = k
  BY ReloadRowsAre
<1> HIDE DEF new
<1>3. /\ IsRows(A)
      /\ DOMAIN A = DOMAIN r \cup N
      /\ \A i \in DOMAIN r : A[i] = r[i] /\ i <= n
      /\ \A i \in N : i - n \in 1..Len(new) /\ i \notin DOMAIN r /\ A[i] = new[i - n]
  BY <1>2, AppendedRows
<1>4. n \in Nat /\ Len(new) \in Nat /\ DOMAIN r \subseteq 1..n
  <2>1. Len(new) \in Nat
    BY ONLY <1>2
  <2> QED BY <2>1 DEF IsRows
<1>19. /\ \A j \in 1..Len(new) : n + j \in N /\ (n + j) - n = j
       /\ \A i, j \in N : i - n = j - n => i = j
       /\ \A j \in 1..Len(new), i \in 1..n : i <= n + j
       /\ \A j \in 1..Len(new) : n + j <= n + j
  BY ONLY <1>4, NewIds
<1> HIDE DEF A
<1>5. /\ IsRows(R) /\ DOMAIN R = DOMAIN A \ old
      /\ \A i \in DOMAIN A \ old : R[i] = A[i]
  BY <1>3, WithoutRows
<1> HIDE DEF R
<1>6. \A i \in DOMAIN R : i \in DOMAIN r \/ i \in N
  BY <1>3, <1>5
<1>7. \A i \in DOMAIN R : i \in DOMAIN r => R[i] = r[i] /\ <<r[i].name, r[i].column>> \notin keys
  BY <1>3, <1>5
<1>8. \A i \in N : i \in DOMAIN R /\ R[i] = new[i - n] /\ i - n \in 1..Len(new)
  BY <1>3, <1>5
<1> HIDE DEF old, N, n
<1>9. \A i \in N : /\ EntryKey(R[i]) \in keys /\ EntryKey(R[i]) \in Key
                   /\ R[i] = ReloadedEntry(EntryKey(R[i]), v)
  BY <1>2, <1>8
<1>10. \A i \in N : /\ R[i].name = EntryKey(R[i])[1] /\ R[i].column = EntryKey(R[i])[2]
                    /\ R[i].label = Default(v, EntryKey(R[i]))
                    /\ <<R[i].name, R[i].column>> = EntryKey(R[i])
  <2>1. \A k : /\ ReloadedEntry(k, v).name = k[1] /\ ReloadedEntry(k, v).column = k[2]
               /\ ReloadedEntry(k, v).label = Default(v, k)
    BY DEF ReloadedEntry
  <2>2. \A k \in Key : k = <<k[1], k[2]>>
    BY KeyParts
  <2> SUFFICES ASSUME NEW i \in N
               PROVE  /\ R[i].name = EntryKey(R[i])[1] /\ R[i].column = EntryKey(R[i])[2]
                      /\ R[i].label = Default(v, EntryKey(R[i]))
                      /\ <<R[i].name, R[i].column>> = EntryKey(R[i])
    OBVIOUS
  <2> DEFINE k == EntryKey(R[i])
  <2>3. R[i] = ReloadedEntry(k, v) /\ k \in Key
    BY <1>9
  <2> HIDE DEF k
  <2>4. R[i].name = k[1] /\ R[i].column = k[2] /\ R[i].label = Default(v, k)
    BY <2>1, <2>3
  <2> QED BY <2>2, <2>3, <2>4 DEF k
<1>11. \A i, j \in N : EntryKey(R[i]) = EntryKey(R[j]) => i = j
  <2> SUFFICES ASSUME NEW i \in N, NEW j \in N, EntryKey(R[i]) = EntryKey(R[j]) PROVE i = j
    OBVIOUS
  <2>1. R[i] = new[i - n] /\ R[j] = new[j - n] /\ i - n \in 1..Len(new) /\ j - n \in 1..Len(new)
    BY <1>8
  <2>2. EntryKey(new[i - n]) = EntryKey(new[j - n])
    BY <2>1
  <2>3. i - n = j - n
    BY ONLY <1>2, <2>1, <2>2
  <2> QED BY <1>19, <2>3
<1>12. NamesExist(T, R)
  <2>1. NamesExist(T, r)
    BY DEF Describes
  <2>2. \A i \in N : R[i].name = "" \/ T[R[i].name] # Absent
    BY <1>9, <1>10 DEF InSchema
  <2> QED BY <1>6, <1>7, <2>1, <2>2 DEF NamesExist
<1>13. AddedExist(T, R)
  <2>1. AddedExist(T, r)
    BY DEF Describes
  <2>2. \A i \in N : R[i].column \in {"b", "b INT"} => R[i].name \in Table /\ "b" \in T[R[i].name]
    BY <1>9, <1>10 DEF InSchema
  <2> QED BY <1>6, <1>7, <2>1, <2>2 DEF AddedExist
<1>14. UniqueRows(R)
  <2>1. UniqueRows(r)
    BY DEF Describes
  <2> SUFFICES ASSUME NEW i \in DOMAIN R, NEW j \in DOMAIN R,
                      R[i].name = R[j].name, R[i].column = R[j].column
               PROVE  i = j
    BY DEF UniqueRows
  <2>2. CASE i \in DOMAIN r /\ j \in DOMAIN r
    BY <1>7, <2>1, <2>2 DEF UniqueRows
  <2>3. CASE i \in N /\ j \in N
    <3>1. EntryKey(R[i]) = EntryKey(R[j])
      BY <1>10, <2>3
    <3> QED BY <1>11, <2>3, <3>1
  <2>4. CASE i \in DOMAIN r /\ j \in N
    <3>1. <<r[i].name, r[i].column>> \notin keys /\ R[i] = r[i]
      BY <1>7, <2>4
    <3>2. <<R[j].name, R[j].column>> \in keys
      BY <1>9, <1>10, <2>4
    <3> QED BY <3>1, <3>2
  <2>5. CASE i \in N /\ j \in DOMAIN r
    <3>1. <<r[j].name, r[j].column>> \notin keys /\ R[j] = r[j]
      BY <1>7, <2>5
    <3>2. <<R[i].name, R[i].column>> \in keys
      BY <1>9, <1>10, <2>5
    <3> QED BY <3>1, <3>2
  <2> QED BY <1>6, <2>2, <2>3, <2>4, <2>5
<1>15. ASSUME NEW k \in keys
       PROVE  RowsOf(R, k) # {} /\ Stored(R)[k] = Default(v, k)
  <2>1. PICK j \in 1..Len(new) : EntryKey(new[j]) = k
    BY <1>2
  <2>2. n + j \in N /\ (n + j) - n = j
    BY <1>19
  <2>3. R[n + j] = new[j] /\ EntryKey(R[n + j]) = k /\ n + j \in DOMAIN R
    BY <1>8, <2>1, <2>2
  <2>4. n + j \in RowsOf(R, k)
    BY <2>3 DEF RowsOf
  <2>5. ASSUME NEW i \in RowsOf(R, k) PROVE i <= n + j
    <3>1. i \in DOMAIN R /\ EntryKey(R[i]) = k
      BY DEF RowsOf
    <3>2. CASE i \in DOMAIN r
      <4>1. i \in 1..n
        BY <1>4, <3>2
      <4> QED BY <1>19, <4>1
    <3>3. CASE i \in N
      <4>1. i = n + j
        BY <1>11, <2>2, <2>3, <3>1, <3>3
      <4> QED BY <1>19, <4>1
    <3> QED BY <1>6, <3>1, <3>2, <3>3
  <2>6. Stored(R)[k] = R[n + j].label
    BY <1>5, <2>4, <2>5, StoredLast
  <2> QED BY <1>10, <2>2, <2>3, <2>4, <2>6
<1>16. ASSUME NEW k \in Key \ keys
       PROVE  RowsOf(R, k) = RowsOf(r, k) /\ Stored(R)[k] = Stored(r)[k]
  <2>1. ASSUME NEW i \in RowsOf(r, k) PROVE i \in RowsOf(R, k) /\ r[i] = R[i]
    <3>1. i \in DOMAIN r /\ EntryKey(r[i]) = k
      BY DEF RowsOf
    <3>2. <<r[i].name, r[i].column>> \notin keys
      <4>1. CASE r[i].column = "NULL"
        <5>1. \A q \in keys : q[2] # "NULL"
          BY KeyParts
        <5>2. <<r[i].name, r[i].column>>[2] = "NULL"
          BY <4>1
        <5> QED BY <5>1, <5>2
      <4>2. CASE r[i].column # "NULL"
        BY <3>1, <4>2 DEF EntryKey
      <4> QED BY <4>1, <4>2
    <3>3. i \in DOMAIN A \ old
      BY <1>3, <3>1, <3>2 DEF old
    <3>4. R[i] = r[i] /\ i \in DOMAIN R
      BY <1>3, <1>5, <3>1, <3>3
    <3> QED BY <3>1, <3>4 DEF RowsOf
  <2>2. ASSUME NEW i \in RowsOf(R, k) PROVE i \in RowsOf(r, k)
    <3>1. i \in DOMAIN R /\ EntryKey(R[i]) = k
      BY DEF RowsOf
    <3>2. i \notin N
      BY <1>9, <3>1
    <3>3. i \in DOMAIN r /\ R[i] = r[i]
      BY <1>6, <1>7, <3>1, <3>2
    <3> QED BY <3>1, <3>3 DEF RowsOf
  <2>3. RowsOf(r, k) = RowsOf(R, k)
    BY <2>1, <2>2
  <2>4. \A i \in RowsOf(r, k) : r[i] = R[i]
    BY <2>1
  <2>5. Stored(r)[k] = Stored(R)[k]
    BY ONLY <2>3, <2>4, IsRows(r), k \in Key, StoredSame
  <2> QED BY <2>3, <2>5
<1>17. Labelled(T, R)
  <2> SUFFICES ASSUME NEW w \in Table, "security_context" \in T[w], NEW c \in {"", "a"}
               PROVE  RowsOf(R, <<w, c>>) # {}
    BY DEF Labelled, TableKey
  <2>1. RowsOf(r, <<w, c>>) # {}
    BY DEF Describes, Labelled, TableKey
  <2>2. <<w, c>> \in Key
    BY KeyParts DEF TableKey
  <2> QED BY <1>15, <1>16, <2>1, <2>2
<1> HIDE DEF R
<1>18. Describes(T, R)
  BY <1>12, <1>13, <1>14, <1>17 DEF Describes
<1> QED BY <1>1, <1>5, <1>15, <1>16, <1>18

(* The first opening: the row of the database. *)
LEMMA FirstDescribes ==
  ASSUME NEW T \in TablesT, NEW r, IsRows(r), Describes(T, r), DOMAIN r = {},
         NEW e \in Entry, e.name = "", e.column = ""
  PROVE  /\ IsRows(Appended(r, <<e>>))
         /\ Describes(T, Appended(r, <<e>>))
         /\ Stored(Appended(r, <<e>>))[DbKey] = e.label
         /\ \A k \in Key \ {DbKey} : Stored(Appended(r, <<e>>))[k] = NoLabel
<1> DEFINE new == <<e>>  A == Appended(r, new)
<1>1. new \in Seq(Entry) /\ Len(new) = 1 /\ new[1] = e
  BY OneRow
<1> HIDE DEF new
<1>2. EntryKey(e) = DbKey /\ DbKey \in Key
  BY KeyParts DEF EntryKey, DbKey
<1>3. \A j \in 1..Len(new) : j = 1
  <2>1. Len(new) = 1
    BY <1>1
  <2> QED BY ONLY <2>1, OneIndex
<1>4. 1 \in 1..Len(new)
  BY ONLY <1>1
<1>5. NamesExist(T, A) /\ UniqueRows(A) /\ AddedExist(T, A)
  <2>1. \A j \in 1..Len(new) : Fits(T, new[j])
    BY <1>1, <1>3 DEF Fits
  <2>2. \A j \in 1..Len(new), i \in DOMAIN r : ~SameColumns(r[i], new[j])
    OBVIOUS
  <2>3. \A i, j \in 1..Len(new) : SameColumns(new[i], new[j]) => i = j
    BY <1>3
  <2>4. NamesExist(T, r) /\ UniqueRows(r) /\ AddedExist(T, r)
    BY DEF Describes
  <2> QED BY ONLY <1>1, <2>1, <2>2, <2>3, <2>4, IsRows(r), AppendedDescribes
<1>6. IsRows(A)
  BY <1>1, AppendedRows
<1>7. \A u \in Table : "security_context" \notin T[u]
  BY DEF Describes, Labelled, RowsOf
<1>8. Stored(A)[DbKey] = e.label
  <2>1. EntryKey(new[1]) = DbKey /\ \A i \in 1..Len(new) : EntryKey(new[i]) = DbKey => i = 1
    BY <1>1, <1>2, <1>3
  <2>2. Stored(A)[DbKey] = new[1].label
    BY ONLY <1>1, <1>2, <1>4, <2>1, IsRows(r), AppendedHere
  <2> QED BY <1>1, <2>2
<1>9. ASSUME NEW k \in Key \ {DbKey} PROVE Stored(A)[k] = NoLabel
  <2>1. \A j \in 1..Len(new) : EntryKey(new[j]) # k
    BY <1>1, <1>2, <1>3
  <2>2. Stored(A)[k] = Stored(r)[k]
    BY ONLY <1>1, <2>1, k \in Key, IsRows(r), AppendedOther
  <2>3. RowsOf(r, k) = {}
    BY DEF RowsOf
  <2> QED BY <2>2, <2>3, StoredNone
<1>10. Labelled(T, A)
  BY <1>7 DEF Labelled
<1> QED BY <1>5, <1>6, <1>8, <1>9, <1>10 DEF Describes, new, A

-------------------------------------------------------------------------------
(* The inductive invariant *)

LEMMA IsDbParts ==
  ASSUME NEW d
  PROVE  IsDb(d) <=> /\ d = [tables |-> d.tables, rows |-> d.rows]
                     /\ d.tables \in TablesT /\ IsRows(d.rows)
  BY DEF IsDb, TablesT, IsRows

LEMMA DbOf ==
  ASSUME NEW T \in TablesT, NEW r, IsRows(r), NEW d, d = [tables |-> T, rows |-> r]
  PROVE  IsDb(d) /\ d.tables = T /\ d.rows = r
<1>1. d.tables = T /\ d.rows = r
  OBVIOUS
<1> QED BY <1>1, IsDbParts

(* The parts of the invariant that are about one database. *)
GoodDb(d) == IsDb(d) /\ Describes(d.tables, d.rows)

Memory == up => Mirrors(hash, db.rows, oneSided)

Globals ==
  /\ hash \in [Key -> Label \cup {NoLabel}]
  /\ contexts \in Version \cup {None} /\ file \in Version
  /\ up \in BOOLEAN /\ vacuum \in BOOLEAN /\ oneSided \subseteq Key /\ ops \in 0..MaxOps

GoodSaved == saved = << >> \/ (saved = <<saved[1]>> /\ GoodDb(saved[1]))

LEMMA InvParts == CatalogInv <=> GoodDb(db) /\ GoodSaved /\ Globals /\ Memory /\ Statements
<1>1. Statements => prepared \subseteq Statement /\ internChanges \in BOOLEAN
  BY DEF Statements
<1> QED BY <1>1 DEF CatalogInv, TypeOK, GoodDb, GoodSaved, Globals, Memory

LEMMA NextInvParts ==
  GoodDb(db)' /\ GoodSaved' /\ Globals' /\ Memory' /\ Statements' => CatalogInv'
<1>1. Statements' => prepared' \subseteq Statement /\ internChanges' \in BOOLEAN
  BY DEF Statements
<1> QED BY <1>1 DEF CatalogInv, TypeOK, GoodDb, GoodSaved, Globals, Memory

(* The schema stays and hash only gains entries: compiled statements stay ready. *)
LEMMA ReadyStays ==
  ASSUME NEW s \in Statement, NEW T, NEW h, NEW g, Ready(s, T, h),
         \A k \in {TableKey(s.t), <<s.t, "a">>} : g[k] = h[k] \/ h[k] = NoLabel
  PROVE  Ready(s, T, g)
<1>1. CreateReady(s, T, h) => CreateReady(s, T, g)
  BY LabelAssumption DEF CreateReady
<1>2. DropReady(s, T, h) => DropReady(s, T, g)
  BY DEF DropReady
<1> QED BY <1>1, <1>2 DEF Ready

LEMMA StatementsKept ==
  ASSUME Statements, UNCHANGED <<prepared, internChanges, saved, up>>, db'.tables = db.tables,
         \A k \in Key : hash'[k] = hash[k] \/ hash[k] = NoLabel
  PROVE  Statements'
<1>1. ASSUME NEW s \in prepared PROVE Ready(s, db'.tables, hash')
  <2>1. s \in Statement /\ Ready(s, db.tables, hash)
    BY DEF Statements
  <2>2. s.t \in Table
    BY <2>1 DEF Statement
  <2>3. TableKey(s.t) \in Key /\ <<s.t, "a">> \in Key
    BY <2>2, LabelledKeys
  <2> QED BY <2>1, <2>3, ReadyStays
<1> QED BY <1>1 DEF Statements

LEMMA StatementsGone ==
  ASSUME prepared' = {}, internChanges' \in BOOLEAN,
         saved' # << >> /\ ~internChanges' => saved'[1].tables = db'.tables
  PROVE  Statements'
  BY DEF Statements

(* A statement that has run leaves no other behind. *)
LEMMA StatementsRun == SchemaChanged /\ saved' = saved => Statements'
  BY StatementsGone DEF SchemaChanged

NewStatement(op, t, to, new) == [op |-> op, t |-> t, to |-> to, new |-> new, stale |-> FALSE]

LEMMA StatementsMore ==
  ASSUME Statements, NEW n \in Statement, prepared' = prepared \cup {n},
         up, UNCHANGED <<internChanges, saved, up, db>>,
         \A k \in Key : hash'[k] = hash[k] \/ hash[k] = NoLabel,
         Ready(n, db.tables, hash')
  PROVE  Statements'
<1>1. ASSUME NEW s \in prepared PROVE Ready(s, db.tables, hash')
  <2>1. s \in Statement /\ Ready(s, db.tables, hash)
    BY DEF Statements
  <2>2. s.t \in Table
    BY <2>1 DEF Statement
  <2>3. TableKey(s.t) \in Key /\ <<s.t, "a">> \in Key
    BY <2>2, LabelledKeys
  <2> QED BY <2>1, <2>3, ReadyStays
<1> QED BY <1>1 DEF Statements

(* A PRAGMA marks the statements about the objects it relabels. *)
LEMMA StatementsMarked ==
  ASSUME Statements, NEW keys, Relabelled(keys), UNCHANGED <<internChanges, saved, up>>,
         db'.tables = db.tables, \A k \in Key \ keys : hash'[k] = hash[k], up
  PROVE  Statements'
<1>1. ASSUME NEW m \in prepared' PROVE m \in Statement /\ Ready(m, db.tables, hash')
  <2>1. PICK s \in prepared : m = [s EXCEPT !.stale = @ \/ KeysOf(s.t) \cap keys # {}]
    BY DEF Relabelled
  <2>2. s \in Statement /\ Ready(s, db.tables, hash)
    BY DEF Statements
  <2>3. /\ m \in Statement /\ m.op = s.op /\ m.t = s.t /\ m.to = s.to /\ m.new = s.new
        /\ m.stale = (s.stale \/ KeysOf(s.t) \cap keys # {})
    BY <2>1, <2>2 DEF Statement
  <2>4. Ready(m, db.tables, hash)
    <3>1. CreateReady(s, db.tables, hash) => CreateReady(m, db.tables, hash)
      BY <2>3 DEF CreateReady
    <3>2. DropReady(s, db.tables, hash) => DropReady(m, db.tables, hash)
      BY <2>3 DEF DropReady
    <3>3. RenameReady(s, db.tables) => RenameReady(m, db.tables)
      BY <2>3 DEF RenameReady
    <3>4. AddReady(s, db.tables) => AddReady(m, db.tables)
      BY <2>3 DEF AddReady
    <3> QED BY <2>2, <2>3, <3>1, <3>2, <3>3, <3>4 DEF Ready
  <2>5. CASE m.stale
    <3>1. CreateReady(m, db.tables, hash) => CreateReady(m, db.tables, hash')
      BY <2>5 DEF CreateReady
    <3>2. DropReady(m, db.tables, hash) => DropReady(m, db.tables, hash')
      BY <2>5 DEF DropReady
    <3> QED BY <2>3, <2>4, <3>1, <3>2 DEF Ready
  <2>6. CASE ~m.stale
    <3>3. m.t \in Table
      BY <2>3 DEF Statement
    <3>1. \A k \in {TableKey(m.t), <<m.t, "a">>} : k \in KeysOf(m.t) /\ k \in Key
      <4>1. TableKey(m.t) \in KeysOf(m.t) /\ <<m.t, "a">> \in KeysOf(m.t)
        BY <3>3, KeyParts
      <4>2. TableKey(m.t) \in Key /\ <<m.t, "a">> \in Key
        BY <3>3, LabelledKeys
      <4> QED BY <4>1, <4>2
    <3>2. \A k \in {TableKey(m.t), <<m.t, "a">>} : hash'[k] = hash[k]
      BY <2>3, <2>6, <3>1
    <3> QED BY <2>3, <2>4, <3>2, ReadyStays
  <2> QED BY <2>3, <2>5, <2>6
<1> QED BY <1>1 DEF Statements

LEMMA InitInv == Init => CatalogInv
<1> SUFFICES ASSUME Init PROVE CatalogInv
  OBVIOUS
<1> DEFINE T == [t \in Table |-> Absent]  r == [i \in {} |-> 0]
<1>1. T \in TablesT
  BY DEF TablesT, Absent
<1>2. DOMAIN r = {} /\ r \in [DOMAIN r -> Entry]
  OBVIOUS
<1> HIDE DEF r
<1>3. IsRows(r)
  BY <1>2, BoundedRows
<1>4. Describes(T, r)
  BY <1>2 DEF Describes, NamesExist, Labelled, UniqueRows, AddedExist, Absent
<1>5. GoodDb(db)
  <2>1. db = [tables |-> T, rows |-> r]
    BY DEF Init, r
  <2> HIDE DEF T
  <2>2. IsDb(db) /\ db.tables = T /\ db.rows = r
    BY <1>1, <1>3, <2>1, DbOf
  <2> QED BY <1>4, <2>2 DEF GoodDb
<1>6. GoodSaved /\ Memory
  BY DEF Init, GoodSaved, Memory
<1>7. Globals
  <2>1. hash \in [Key -> Label \cup {NoLabel}]
    BY DEF Init, NoHash
  <2>2. ops \in 0..MaxOps
    BY BoundAssumption DEF Init
  <2> QED BY <2>1, <2>2 DEF Init, Globals
<1>8. Statements
  BY DEF Init, Statements
<1> QED BY <1>5, <1>6, <1>7, <1>8, InvParts

(* Counting statements. *)
LEMMA CountStep == ops \in 0..MaxOps /\ Count => ops' \in 0..MaxOps
  BY BoundAssumption DEF Count

(* A label that hash does not have can be entered: the object has no row. *)
LEMMA MirrorsMore ==
  ASSUME NEW h, NEW g, NEW r, NEW S, Mirrors(h, r, S),
         \A k \in Key : g[k] = h[k] \/ h[k] = NoLabel
  PROVE  Mirrors(g, r, S)
  BY DEF Mirrors

(* Other rows, the same labels or none. *)
LEMMA MirrorsLess ==
  ASSUME NEW h, NEW r, NEW q, NEW S, NEW U, Mirrors(h, r, S), S \subseteq U,
         \A k \in Key \ U : Stored(q)[k] = NoLabel \/ Stored(q)[k] = Stored(r)[k]
  PROVE  Mirrors(h, q, U)
<1> SUFFICES ASSUME NEW k \in Key \ U, Stored(q)[k] # NoLabel PROVE h[k] = Stored(q)[k]
  BY DEF Mirrors
<1>1. k \in Key \ S /\ Stored(q)[k] = Stored(r)[k]
  OBVIOUS
<1> QED BY <1>1 DEF Mirrors

LEMMA OpenInv == CatalogInv /\ Open => CatalogInv'
<1> SUFFICES ASSUME CatalogInv, Open PROVE CatalogInv'
  OBVIOUS
<1>1. GoodDb(db) /\ GoodSaved /\ Globals /\ Memory /\ Statements
  BY InvParts
<1>2. IsRows(db.rows) /\ db.tables \in TablesT /\ Describes(db.tables, db.rows)
      /\ db = [tables |-> db.tables, rows |-> db.rows]
  BY <1>1, IsDbParts DEF GoodDb
<1>3. GoodSaved'
  BY <1>1 DEF GoodSaved, Open
<1>6. db'.tables = db.tables => Statements'
  <2>1. prepared' = {} /\ UNCHANGED <<internChanges, saved>>
    BY <1>1 DEF Open, Statements
  <2> QED BY <1>1, <2>1 DEF Statements
<1>4. CASE DOMAIN db.rows = {}
  <2> DEFINE e == [name |-> "", column |-> "", label |-> Default(file, DbKey)]
             A == Appended(db.rows, <<e>>)
  <2>1. Default(file, DbKey) \in Label
    BY <1>1, KeyParts, DefaultAssumption DEF Globals
  <2>2. e \in Entry /\ e.name = "" /\ e.column = "" /\ e.label = Default(file, DbKey)
    BY <2>1 DEF Entry
  <2>3. db' = [tables |-> db.tables, rows |-> A]
    BY <1>2, <1>4 DEF Open
  <2>4. hash' = [NoHash EXCEPT ![DbKey] = Default(file, DbKey)] /\ contexts' = file
    BY <1>4 DEF Open
  <2> HIDE DEF e
  <2>5. /\ IsRows(A) /\ Describes(db.tables, A)
        /\ Stored(A)[DbKey] = e.label
        /\ \A k \in Key \ {DbKey} : Stored(A)[k] = NoLabel
    BY <1>2, <1>4, <2>2, FirstDescribes
  <2> HIDE DEF A
  <2>6. IsDb(db') /\ db'.tables = db.tables /\ db'.rows = A
    BY <1>2, <2>3, <2>5, DbOf
  <2>7. GoodDb(db)'
    BY <2>5, <2>6 DEF GoodDb
  <2>8. DbKey \in Key
    BY KeyParts
  <2>9. Globals'
    <3>1. hash' \in [Key -> Label \cup {NoLabel}]
      BY <2>1, <2>4 DEF NoHash
    <3> QED BY <1>1, <2>4, <3>1 DEF Globals, Open
  <2>10. hash'[DbKey] = Default(file, DbKey)
    BY <2>4, <2>8 DEF NoHash
  <2>11. Memory'
    BY <2>2, <2>5, <2>6, <2>10 DEF Memory, Mirrors
  <2> QED BY <1>3, <1>6, <2>6, <2>7, <2>9, <2>11, NextInvParts
<1>5. CASE DOMAIN db.rows # {}
  <2>1. hash' = Stored(db.rows) /\ db' = db /\ contexts' = contexts
    BY <1>5 DEF Open
  <2>2. GoodDb(db)'
    BY <1>1, <2>1
  <2>3. Memory'
    BY <2>1 DEF Memory, Mirrors
  <2>4. hash' \in [Key -> Label \cup {NoLabel}]
    <3>1. \A k \in Key : Stored(db.rows)[k] \in Label \cup {NoLabel}
      BY <1>2, StoredNone
    <3>2. Stored(db.rows) = [k \in Key |-> Stored(db.rows)[k]]
      BY DEF Stored
    <3> QED BY <2>1, <3>1, <3>2
  <2>5. Globals'
    BY <1>1, <2>1, <2>4 DEF Globals, Open
  <2> QED BY <1>3, <1>6, <2>1, <2>2, <2>3, <2>5, NextInvParts
<1> QED BY <1>4, <1>5

LEMMA GetContextInv ==
  ASSUME NEW k \in Key, CatalogInv, GetContext(k) PROVE CatalogInv'
<1>1. GoodDb(db) /\ GoodSaved /\ Globals /\ Memory /\ Statements
  BY InvParts
<1>2. /\ db' = db /\ saved' = saved /\ up /\ up' = up /\ oneSided' = oneSided /\ contexts # None
      /\ hash[k] = NoLabel /\ hash' = [hash EXCEPT ![k] = Default(contexts, k)]
  BY DEF GetContext
<1>3. Default(contexts, k) \in Label
  BY <1>1, <1>2, DefaultAssumption DEF Globals
<1>4. hash' \in [Key -> Label \cup {NoLabel}] /\ \A j \in Key : hash'[j] = hash[j] \/ hash[j] = NoLabel
  BY <1>1, <1>2, <1>3 DEF Globals
<1>5. Globals'
  BY <1>1, <1>4 DEF Globals, GetContext
<1>6. Mirrors(hash', db.rows, oneSided)
  BY <1>1, <1>2, <1>4, MirrorsMore DEF Memory
<1>7. Memory'
  BY <1>2, <1>6 DEF Memory
<1>8. GoodDb(db)' /\ GoodSaved'
  BY <1>1, <1>2 DEF GoodSaved
<1>9. Statements'
  <2>1. UNCHANGED <<prepared, internChanges, saved, up>> /\ db'.tables = db.tables
    BY DEF GetContext
  <2> QED BY <1>1, <1>4, <2>1, StatementsKept
<1> QED BY <1>5, <1>7, <1>8, <1>9, NextInvParts

-------------------------------------------------------------------------------
(* Compiling *)

(* What the compiling of a statement leaves alone. *)
LEMMA CompiledInv ==
  ASSUME CatalogInv, up, Count, Statements',
         UNCHANGED <<db, saved, contexts, file, up, vacuum, oneSided>>,
         hash' \in [Key -> Label \cup {NoLabel}],
         \A k \in Key : hash'[k] = hash[k] \/ hash[k] = NoLabel
  PROVE  CatalogInv'
<1>1. GoodDb(db) /\ GoodSaved /\ Globals /\ Memory /\ Statements
  BY InvParts
<1>2. GoodDb(db)' /\ GoodSaved'
  BY <1>1 DEF GoodSaved
<1>3. ops' \in 0..MaxOps
  BY <1>1, CountStep DEF Globals
<1>4. Globals'
  BY <1>1, <1>3 DEF Globals
<1>5. Mirrors(hash', db.rows, oneSided)
  BY <1>1, MirrorsMore DEF Memory
<1>6. Memory'
  BY <1>5 DEF Memory
<1> QED BY <1>2, <1>4, <1>6, NextInvParts

LEMMA CompileCreateInv ==
  ASSUME NEW t \in Table, CatalogInv, CompileCreate(t) PROVE CatalogInv'
<1>1. GoodDb(db) /\ GoodSaved /\ Globals /\ Memory /\ Statements
  BY InvParts
<1>2. /\ up /\ Count /\ UNCHANGED <<db, saved, contexts, file, up, vacuum, internChanges, oneSided>>
      /\ contexts # None /\ db.tables[t] = Absent /\ Compiled("create", t, "", NewEntries(t))
      /\ hash' = [k \in Key |-> IF k \in {TableKey(t), <<t, "a">>} THEN NewLabel(k) ELSE hash[k]]
  BY DEF CompileCreate, Exists
<1>3. \A k \in Key : NewLabel(k) \in Label /\ (NewLabel(k) = hash[k] \/ hash[k] = NoLabel)
  <2>1. contexts \in Version
    BY <1>1, <1>2 DEF Globals
  <2>2. \A k \in Key : Default(contexts, k) \in Label /\ hash[k] \in Label \cup {NoLabel}
    BY <1>1, <2>1, DefaultAssumption DEF Globals
  <2> QED BY <2>2 DEF NewLabel
<1>4. TableKey(t) \in Key /\ <<t, "a">> \in Key
  BY KeyParts
<1>5. \A k \in Key : hash'[k] \in Label \cup {NoLabel} /\ (hash'[k] = hash[k] \/ hash[k] = NoLabel)
  BY <1>1, <1>2, <1>3 DEF Globals
<1>6. hash' \in [Key -> Label \cup {NoLabel}]
  BY <1>2, <1>5
<1>7. Statements'
  <2>1. PICK l \in Label, m \in Label : l = NewLabel(TableKey(t)) /\ m = NewLabel(<<t, "a">>)
    BY <1>3, <1>4
  <2>2. hash'[TableKey(t)] = l /\ hash'[<<t, "a">>] = m
    BY <1>2, <1>4, <2>1
  <2>3. NewEntries(t) = << [name |-> t, column |-> "NULL", label |-> l],
                           [name |-> t, column |-> "a", label |-> m] >>
    BY <2>1 DEF NewEntries
  <2>4. NewEntries(t) \in Seq(Entry)
    <3>1. [name |-> t, column |-> "NULL", label |-> l] \in Entry
          /\ [name |-> t, column |-> "a", label |-> m] \in Entry
      BY DEF Entry, Column
    <3> QED BY <2>3, <3>1
  <2>8. PICK new \in Seq(Entry) : new = NewEntries(t)
    BY <2>4
  <2>9. PICK n : n = NewStatement("create", t, "", new)
    OBVIOUS
  <2>5. n \in Statement /\ n.op = "create" /\ n.t = t /\ n.new = NewEntries(t) /\ prepared' = prepared \cup {n}
    <3>1. n \in Statement /\ n.op = "create" /\ n.t = t /\ n.new = new
      BY <2>9 DEF NewStatement, Statement
    <3>2. prepared' = prepared \cup {n}
      BY <1>2, <2>8, <2>9 DEF Compiled, NewStatement
    <3> QED BY <2>8, <3>1, <3>2
  <2>6. CreateReady(n, db.tables, hash')
    BY <1>2, <2>2, <2>3, <2>5 DEF CreateReady
  <2>7. Ready(n, db.tables, hash')
    BY <2>5, <2>6 DEF Ready
  <2> QED BY <1>1, <1>2, <1>5, <2>5, <2>7, StatementsMore
<1> QED BY <1>2, <1>5, <1>6, <1>7, CompiledInv

(* The statements that are compiled with the labels that are there. *)
LEMMA CompiledAsIs ==
  ASSUME CatalogInv, NEW n \in Statement, prepared' = prepared \cup {n}, up, Count,
         UNCHANGED <<db, saved, hash, contexts, file, up, vacuum, internChanges, oneSided>>,
         Ready(n, db.tables, hash)
  PROVE  CatalogInv'
<1>1. Globals /\ Statements
  BY InvParts
<1>2. hash' \in [Key -> Label \cup {NoLabel}] /\ \A k \in Key : hash'[k] = hash[k]
  BY <1>1 DEF Globals
<1>3. Statements'
  BY <1>1, <1>2, StatementsMore
<1> QED BY <1>2, <1>3, CompiledInv

LEMMA NoRows == << >> \in Seq(Entry)
  OBVIOUS

LEMMA CompileInVacuumInv ==
  ASSUME NEW t \in Table, CatalogInv, CompileInVacuum(t) PROVE CatalogInv'
<1>1. /\ up /\ Count /\ Compiled("create", t, "", << >>) /\ db.tables[t] = Absent
      /\ UNCHANGED <<db, saved, hash, contexts, file, up, vacuum, internChanges, oneSided>>
  BY DEF CompileInVacuum, Exists
<1>20. PICK n : n = NewStatement("create", t, "", << >>)
  OBVIOUS
<1>2. n \in Statement /\ n.op = "create" /\ n.t = t /\ n.new = << >> /\ prepared' = prepared \cup {n}
  <2>1. n \in Statement /\ n.op = "create" /\ n.t = t /\ n.new = << >>
    BY <1>20, NoRows DEF NewStatement, Statement
  <2>2. prepared' = prepared \cup {n}
    BY <1>1, <1>20 DEF Compiled, NewStatement
  <2> QED BY <2>1, <2>2
<1>3. Ready(n, db.tables, hash)
  BY <1>1, <1>2 DEF Ready, CreateReady
<1> QED BY <1>1, <1>2, <1>3, CompiledAsIs

(* DROP TABLE asks the policy for "drop" on the label that hash has. *)
LEMMA DropAsked ==
  ASSUME NEW t \in Table, Allowed("DROP_TABLE", t, "")
  PROVE  hash[TableKey(t)] # NoLabel /\ <<hash[TableKey(t)], "drop">> \in Granted
<1> DEFINE chk == <<TableKey(t), "drop">>
<1>1. TablePerm("DROP_TABLE") = "drop"
  BY DEF TablePerm
<1>2. chk \in Checks("DROP_TABLE", t, "", Columns(t))
  BY <1>1 DEF Checks, TableKey
<1>3. chk[1] = TableKey(t) /\ chk[2] = "drop"
  OBVIOUS
<1> HIDE DEF chk
<1> QED BY <1>2, <1>3 DEF Allowed, Answer

LEMMA CompileDropInv ==
  ASSUME NEW t \in Table, CatalogInv, CompileDrop(t) PROVE CatalogInv'
<1>1. /\ up /\ Count /\ Compiled("drop", t, "", << >>) /\ db.tables[t] # Absent
      /\ UNCHANGED <<db, saved, hash, contexts, file, up, vacuum, internChanges, oneSided>>
      /\ Allowed("DROP_TABLE", t, "")
  BY DEF CompileDrop, Exists
<1>2. hash[TableKey(t)] # NoLabel /\ <<hash[TableKey(t)], "drop">> \in Granted
  BY <1>1, DropAsked
<1>30. PICK n : n = NewStatement("drop", t, "", << >>)
  OBVIOUS
<1>3. n \in Statement /\ n.op = "drop" /\ n.t = t /\ prepared' = prepared \cup {n}
  <2>1. n \in Statement /\ n.op = "drop" /\ n.t = t
    BY <1>30, NoRows DEF NewStatement, Statement
  <2>2. prepared' = prepared \cup {n}
    BY <1>1, <1>30 DEF Compiled, NewStatement
  <2> QED BY <2>1, <2>2
<1>4. Ready(n, db.tables, hash)
  BY <1>1, <1>2, <1>3 DEF Ready, DropReady
<1> QED BY <1>1, <1>3, <1>4, CompiledAsIs

LEMMA CompileRenameInv ==
  ASSUME NEW t \in Table, NEW u \in Table, CatalogInv, CompileRename(t, u) PROVE CatalogInv'
<1>1. /\ up /\ Count /\ Compiled("rename", t, u, << >>)
      /\ db.tables[t] # Absent /\ db.tables[u] = Absent
      /\ UNCHANGED <<db, saved, hash, contexts, file, up, vacuum, internChanges, oneSided>>
  BY DEF CompileRename, Exists
<1>20. PICK n : n = NewStatement("rename", t, u, << >>)
  OBVIOUS
<1>2. n \in Statement /\ n.op = "rename" /\ n.t = t /\ n.to = u /\ prepared' = prepared \cup {n}
  <2>1. n \in Statement /\ n.op = "rename" /\ n.t = t /\ n.to = u
    BY <1>20, NoRows DEF NewStatement, Statement
  <2>2. prepared' = prepared \cup {n}
    BY <1>1, <1>20 DEF Compiled, NewStatement
  <2> QED BY <2>1, <2>2
<1>3. Ready(n, db.tables, hash)
  BY <1>1, <1>2 DEF Ready, RenameReady
<1> QED BY <1>1, <1>2, <1>3, CompiledAsIs

LEMMA CompileAddInv ==
  ASSUME NEW t \in Table, NEW def \in {"b", "b INT"}, CatalogInv, CompileAdd(t, def)
  PROVE  CatalogInv'
<1>1. GoodDb(db) /\ GoodSaved /\ Globals /\ Memory /\ Statements
  BY InvParts
<1> DEFINE d == [name |-> t, column |-> def, label |-> Default(contexts, <<t, def>>)]
<1>2. /\ up /\ Count /\ Compiled("add", t, "", <<d>>)
      /\ db.tables[t] # Absent /\ "b" \notin db.tables[t] /\ contexts # None
      /\ UNCHANGED <<db, saved, hash, contexts, file, up, vacuum, internChanges, oneSided>>
  BY DEF CompileAdd, Exists
<1>3. def \in Column /\ <<t, def>> \in Key
  BY KeyParts DEF Column
<1>4. Default(contexts, <<t, def>>) \in Label
  BY <1>1, <1>2, <1>3, DefaultAssumption DEF Globals
<1>5. d \in Entry /\ d.name = t /\ d.column \in {"b", "b INT"}
  BY <1>3, <1>4 DEF Entry
<1> HIDE DEF d
<1>6. PICK e \in Entry : e = d
  BY <1>5
<1>7. Compiled("add", t, "", <<e>>)
  BY <1>2, <1>6
<1>8. <<e>> \in Seq(Entry)
  BY OneRow
<1>90. PICK n : n = NewStatement("add", t, "", <<e>>)
  OBVIOUS
<1>9. n \in Statement /\ n.op = "add" /\ n.t = t /\ n.new = <<e>> /\ prepared' = prepared \cup {n}
  <2>1. n \in Statement /\ n.op = "add" /\ n.t = t /\ n.new = <<e>>
    BY <1>90, <1>8 DEF NewStatement, Statement
  <2>2. prepared' = prepared \cup {n}
    BY <1>7, <1>90 DEF Compiled, NewStatement
  <2> QED BY <2>1, <2>2
<1>10. Ready(n, db.tables, hash)
  BY <1>2, <1>5, <1>6, <1>9 DEF Ready, AddReady
<1> QED BY <1>2, <1>9, <1>10, CompiledAsIs

-------------------------------------------------------------------------------
(* Running *)

(* What a statement that runs leaves alone, and what is left to show of it. *)
LEMMA RunInv ==
  ASSUME CatalogInv, SchemaChanged, UNCHANGED <<saved, hash, contexts, file, up, vacuum, ops>>,
         NEW T \in TablesT, NEW r, db' = [tables |-> T, rows |-> r], IsRows(r), Describes(T, r),
         oneSided' \subseteq Key, Mirrors(hash, r, oneSided')
  PROVE  CatalogInv'
<1>1. GoodSaved /\ Globals
  BY InvParts
<1>2. IsDb(db') /\ db'.tables = T /\ db'.rows = r
  BY DbOf
<1>3. GoodDb(db)' /\ GoodSaved'
  BY <1>1, <1>2 DEF GoodDb, GoodSaved
<1>4. Globals' /\ Memory'
  BY <1>1, <1>2 DEF Globals, Memory
<1>5. Statements'
  BY StatementsRun
<1> QED BY <1>3, <1>4, <1>5, NextInvParts

(* A statement that can run: the database is open, and what the statement knows. *)
LEMMA RunsReady ==
  ASSUME CatalogInv, NEW s \in prepared
  PROVE  /\ s \in Statement /\ s.t \in Table /\ s.stale \in BOOLEAN /\ up
         /\ Ready(s, db.tables, hash)
         /\ IsRows(db.rows) /\ db.tables \in TablesT /\ Describes(db.tables, db.rows)
         /\ Mirrors(hash, db.rows, oneSided) /\ oneSided \subseteq Key
<1>1. GoodDb(db) /\ GoodSaved /\ Globals /\ Memory /\ Statements
  BY InvParts
<1>2. s \in Statement /\ up /\ Ready(s, db.tables, hash)
  BY <1>1 DEF Statements, Globals
<1>3. s.t \in Table /\ s.stale \in BOOLEAN
  BY <1>2 DEF Statement
<1> QED BY <1>1, <1>2, <1>3, IsDbParts DEF GoodDb, Memory, Globals

LEMMA CreateTableInv ==
  ASSUME CatalogInv, NEW s \in prepared, CreateTable(s) PROVE CatalogInv'
<1>1. PICK t \in Table : t = s.t
  BY RunsReady
<1>2. /\ IsRows(db.rows) /\ db.tables \in TablesT /\ Describes(db.tables, db.rows)
      /\ Mirrors(hash, db.rows, oneSided) /\ oneSided \subseteq Key /\ s.stale \in BOOLEAN
      /\ CreateReady(s, db.tables, hash)
  BY RunsReady DEF Ready, CreateTable
<1>3. /\ SchemaChanged /\ UNCHANGED <<saved, hash, contexts, file, up, vacuum, ops>>
      /\ oneSided' = IF s.stale THEN oneSided \cup KeysOf(t) ELSE oneSided \ KeysOf(t)
      /\ db.tables[t] = Absent
  BY <1>1, <1>2 DEF CreateTable, CreateReady
<1>4. oneSided' \subseteq Key
  BY <1>2, <1>3, KeyParts
<1>5. \A k \in KeysOf(t) : k \in Key /\ Stored(db.rows)[k] = NoLabel
  <2>1. \A k \in KeysOf(t) : Stored(db.rows)[k] = NoLabel
    BY <1>2, <1>3, NoRowsOf DEF Describes
  <2> QED BY <2>1, KeyParts
<1>6. CASE s.new = << >>
  <2> DEFINE U == [db.tables EXCEPT ![t] = {"a"}]
  <2>1. U \in TablesT /\ Describes(U, db.rows)
    BY <1>2, <1>3, BareDescribes
  <2>2. db' = [tables |-> U, rows |-> Appended(db.rows, << >>)]
    BY <1>1, <1>6 DEF CreateTable
  <2> HIDE DEF U
  <2>3. Appended(db.rows, << >>) = db.rows
    BY <1>2, AppendedNone
  <2>4. Mirrors(hash, db.rows, oneSided')
    <3> SUFFICES ASSUME NEW k \in Key \ oneSided', Stored(db.rows)[k] # NoLabel
                 PROVE  hash[k] = Stored(db.rows)[k]
      BY DEF Mirrors
    <3>1. k \notin oneSided
      BY <1>3, <1>5
    <3> QED BY <1>2, <3>1 DEF Mirrors
  <2> QED BY <1>2, <1>3, <1>4, <2>1, <2>2, <2>3, <2>4, RunInv
<1>7. CASE s.new # << >>
  <2>1. PICK l \in Label, m \in Label :
          /\ s.new = << [name |-> t, column |-> "NULL", label |-> l],
                        [name |-> t, column |-> "a", label |-> m] >>
          /\ ~s.stale => hash[TableKey(t)] = l /\ hash[<<t, "a">>] = m
    BY <1>1, <1>2, <1>7 DEF CreateReady
  <2> DEFINE U == CreatedTables(db.tables, t)  A == Appended(db.rows, s.new)
  <2>2. /\ U \in TablesT /\ IsRows(A) /\ Describes(U, A)
        /\ Stored(A)[TableKey(t)] = l /\ Stored(A)[<<t, "a">>] = m
        /\ \A k \in Key \ {TableKey(t), <<t, "a">>} : Stored(A)[k] = Stored(db.rows)[k]
    <3> DEFINE q == s.new  r == db.rows  T == db.tables
    <3>1. IsRows(r) /\ T \in TablesT /\ Describes(T, r) /\ T[t] = Absent
      BY <1>2, <1>3
    <3>2. q = << [name |-> t, column |-> "NULL", label |-> l],
                 [name |-> t, column |-> "a", label |-> m] >>
      BY <2>1
    <3> HIDE DEF q, r, T
    <3>3. /\ CreatedTables(T, t) \in TablesT
          /\ IsRows(Appended(r, q))
          /\ Describes(CreatedTables(T, t), Appended(r, q))
          /\ Stored(Appended(r, q))[TableKey(t)] = l
          /\ Stored(Appended(r, q))[<<t, "a">>] = m
          /\ \A k \in Key \ {TableKey(t), <<t, "a">>} : Stored(Appended(r, q))[k] = Stored(r)[k]
      BY ONLY <3>1, <3>2, t \in Table, l \in Label, m \in Label, CreatedDescribes
    <3> QED BY <3>3 DEF q, r, T
  <2>3. db' = [tables |-> U, rows |-> A]
    BY <1>1, <1>7 DEF CreateTable, CreatedTables
  <2> HIDE DEF U, A
  <2>4. Mirrors(hash, A, oneSided')
    <3> SUFFICES ASSUME NEW k \in Key \ oneSided', Stored(A)[k] # NoLabel
                 PROVE  hash[k] = Stored(A)[k]
      BY DEF Mirrors
    <3>1. CASE k \in {TableKey(t), <<t, "a">>}
      <4>1. k \in KeysOf(t)
        BY <3>1, KeyParts
      <4>2. ~s.stale
        BY <1>2, <1>3, <4>1
      <4> QED BY <2>1, <2>2, <3>1, <4>2
    <3>2. CASE k \notin {TableKey(t), <<t, "a">>}
      <4>1. Stored(A)[k] = Stored(db.rows)[k]
        BY <2>2, <3>2
      <4>2. k \notin KeysOf(t)
        BY <1>5, <4>1
      <4>3. k \notin oneSided
        BY <1>2, <1>3, <4>2
      <4> QED BY <1>2, <4>1, <4>3 DEF Mirrors
    <3> QED BY <3>1, <3>2
  <2> QED BY <1>3, <1>4, <2>2, <2>3, <2>4, RunInv
<1> QED BY <1>6, <1>7

LEMMA DropTableInv ==
  ASSUME CatalogInv, NEW s \in prepared, DropTable(s) PROVE CatalogInv'
<1>1. PICK t \in Table : t = s.t
  BY RunsReady
<1>2. /\ IsRows(db.rows) /\ db.tables \in TablesT /\ Describes(db.tables, db.rows)
      /\ Mirrors(hash, db.rows, oneSided) /\ oneSided \subseteq Key
  BY RunsReady
<1> DEFINE U == [db.tables EXCEPT ![t] = Absent]
           ids == {i \in DOMAIN db.rows : db.rows[i].name = t}
           W == Without(db.rows, ids)
<1>3. /\ SchemaChanged /\ UNCHANGED <<saved, hash, contexts, file, up, vacuum, ops, oneSided>>
      /\ db' = [tables |-> U, rows |-> W]
  BY <1>1 DEF DropTable
<1>4. /\ U \in TablesT /\ IsRows(W) /\ Describes(U, W)
      /\ \A k \in Key : Stored(W)[k] = NoLabel \/ Stored(W)[k] = Stored(db.rows)[k]
  <2> DEFINE T == db.tables  r == db.rows  q == ids
  <2>1. T \in TablesT /\ IsRows(r) /\ Describes(T, r) /\ q = {i \in DOMAIN r : r[i].name = t}
    BY <1>2
  <2> HIDE DEF T, r, q
  <2>2. /\ [T EXCEPT ![t] = Absent] \in TablesT /\ IsRows(Without(r, q))
        /\ Describes([T EXCEPT ![t] = Absent], Without(r, q))
        /\ \A k \in Key : Stored(Without(r, q))[k] = NoLabel \/ Stored(Without(r, q))[k] = Stored(r)[k]
    BY ONLY <2>1, t \in Table, DroppedDescribes
  <2> QED BY <2>2 DEF T, r, q
<1> HIDE DEF U, W
<1>5. Mirrors(hash, W, oneSided)
  BY <1>2, <1>4, MirrorsLess
<1> QED BY <1>2, <1>3, <1>4, <1>5, RunInv

LEMMA RenameTableInv ==
  ASSUME CatalogInv, NEW s \in prepared, RenameTable(s) PROVE CatalogInv'
<1>1. RenameReady(s, db.tables)
  BY RunsReady DEF Ready, RenameTable
<1>2. PICK t \in Table, u \in Table :
        t = s.t /\ u = s.to /\ db.tables[t] # Absent /\ db.tables[u] = Absent
  BY <1>1, RunsReady DEF RenameReady
<1>3. /\ IsRows(db.rows) /\ db.tables \in TablesT /\ Describes(db.tables, db.rows)
      /\ Mirrors(hash, db.rows, oneSided) /\ oneSided \subseteq Key
  BY RunsReady
<1> DEFINE U == RenamedTables(db.tables, t, u)
           R == Renamed(db.rows, t, u)
<1>4. /\ SchemaChanged /\ UNCHANGED <<saved, hash, contexts, file, up, vacuum, ops>>
      /\ oneSided' = oneSided \cup KeysOf(u)
      /\ db' = [tables |-> U, rows |-> R]
  BY <1>2 DEF RenameTable, RenamedTables
<1>5. /\ U \in TablesT /\ IsRows(R) /\ Describes(U, R)
      /\ \A k \in Key \ KeysOf(u) : Stored(R)[k] = NoLabel \/ Stored(R)[k] = Stored(db.rows)[k]
  BY <1>2, <1>3, RenamedDescribes
<1> HIDE DEF U, R
<1>6. Mirrors(hash, R, oneSided \cup KeysOf(u))
  BY <1>3, <1>5, MirrorsLess
<1>7. oneSided' \subseteq Key
  BY <1>3, <1>4, KeyParts
<1> QED BY <1>4, <1>5, <1>6, <1>7, RunInv

LEMMA AddColumnInv ==
  ASSUME CatalogInv, NEW s \in prepared, AddColumn(s) PROVE CatalogInv'
<1>1. AddReady(s, db.tables) /\ s.t \in Table
  BY RunsReady DEF Ready, AddColumn
<1>2. PICK e \in Entry : s.new = <<e>> /\ e.name = s.t /\ e.column \in {"b", "b INT"}
  BY <1>1 DEF AddReady
<1>3. /\ IsRows(db.rows) /\ db.tables \in TablesT /\ Describes(db.tables, db.rows)
      /\ Mirrors(hash, db.rows, oneSided) /\ oneSided \subseteq Key
  BY RunsReady
<1> DEFINE U == AddedTables(db.tables, e.name)
           A == Appended(db.rows, <<e>>)
           Z == oneSided \cup {<<e.name, e.column>>}
<1>4. /\ SchemaChanged /\ UNCHANGED <<saved, hash, contexts, file, up, vacuum, ops>>
      /\ oneSided' = Z
      /\ db' = [tables |-> U, rows |-> A]
  <2>1. s.new[1] = e
    BY <1>2, OneRow
  <2> QED BY <1>2, <2>1 DEF AddColumn, AddedTables
<1>5. e.name \in Table /\ e.column \in Column /\ EntryKey(e) = <<e.name, e.column>>
  BY <1>1, <1>2 DEF EntryKey, Column
<1>6. /\ U \in TablesT /\ IsRows(A) /\ Describes(U, A)
      /\ \A k \in Key : k # EntryKey(e) => Stored(A)[k] = Stored(db.rows)[k]
  <2> DEFINE T == db.tables  r == db.rows
  <2>1. /\ T \in TablesT /\ IsRows(r) /\ Describes(T, r)
        /\ e.name \in Table /\ T[e.name] # Absent /\ "b" \notin T[e.name]
    BY <1>1, <1>2, <1>3 DEF AddReady
  <2> HIDE DEF T, r
  <2>2. /\ AddedTables(T, e.name) \in TablesT /\ IsRows(Appended(r, <<e>>))
        /\ Describes(AddedTables(T, e.name), Appended(r, <<e>>))
        /\ \A k \in Key : k # EntryKey(e) => Stored(Appended(r, <<e>>))[k] = Stored(r)[k]
    BY ONLY <2>1, <1>2, e \in Entry, AddedDescribes
  <2> QED BY <2>2 DEF T, r
<1> HIDE DEF U, A
<1>7. Mirrors(hash, A, Z)
  <2>1. oneSided \subseteq Z
    OBVIOUS
  <2>2. \A k \in Key \ Z : Stored(A)[k] = NoLabel \/ Stored(A)[k] = Stored(db.rows)[k]
    BY <1>5, <1>6
  <2> HIDE DEF Z
  <2> QED BY ONLY <1>3, <2>1, <2>2, MirrorsLess
<1>8. Z \subseteq Key
  BY <1>3, <1>5, ColumnKey
<1> HIDE DEF Z
<1> QED BY <1>4, <1>6, <1>7, <1>8, RunInv

-------------------------------------------------------------------------------
(* PRAGMAs, transactions and the rest *)

LEMMA ChconInv ==
  ASSUME NEW k \in Key, NEW l \in Label, CatalogInv, Chcon(k, l) PROVE CatalogInv'
<1>1. GoodDb(db) /\ GoodSaved /\ Globals /\ Memory /\ Statements
  BY InvParts
<1>2. /\ up /\ up' = up /\ saved' = saved /\ contexts' = contexts /\ file' = file
      /\ vacuum' = vacuum /\ Count /\ db' = db
      /\ hash' = [hash EXCEPT ![k] = l] /\ oneSided' = oneSided \cup {k}
  BY DEF Chcon
<1>3. hash' \in [Key -> Label \cup {NoLabel}] /\ \A j \in Key : j # k => hash'[j] = hash[j]
  BY <1>1, <1>2 DEF Globals
<1>4. GoodDb(db)' /\ GoodSaved'
  BY <1>1, <1>2 DEF GoodSaved
<1>5. Memory'
  BY <1>1, <1>2, <1>3 DEF Memory, Mirrors
<1>6. ops' \in 0..MaxOps /\ oneSided' \subseteq Key
  BY <1>1, <1>2, CountStep DEF Globals
<1>7. Globals'
  BY <1>1, <1>2, <1>3, <1>6 DEF Globals
<1>8. Statements'
  <2>1. Relabelled({k}) /\ internChanges' = internChanges
    BY DEF Chcon
  <2>2. \A j \in Key \ {k} : hash'[j] = hash[j]
    BY <1>3
  <2> QED BY <1>1, <1>2, <2>1, <2>2, StatementsMarked
<1> QED BY <1>4, <1>5, <1>7, <1>8, NextInvParts

(* restorecon visits objects of the schema only. *)
LEMMA ScannedKeys ==
  ASSUME NEW tf, NEW cf, db.tables \in TablesT
  PROVE  /\ Scanned(tf, cf) \in SUBSET Key
         /\ InSchema(db.tables, Scanned(tf, cf))
<1> SUFFICES ASSUME NEW k \in Scanned(tf, cf)
             PROVE  /\ k \in Key /\ (k[1] = "" \/ db.tables[k[1]] # Absent)
                    /\ k[2] \in {"b", "b INT"} => k[1] \in Table /\ "b" \in db.tables[k[1]]
  BY DEF InSchema
<1> DEFINE S == {t \in Table : Exists(t) /\ FilterAccepts(tf, t)}
<1>1. \/ k = DbKey \/ (\E t \in S : k = TableKey(t))
      \/ (k \in S \X Column /\ k[2] \in db.tables[k[1]])
  BY DEF Scanned
<1>2. \A t \in S : t \in Table /\ db.tables[t] # Absent
  BY DEF Exists
<1> HIDE DEF S
<1>3. CASE k = DbKey
  BY <1>3, KeyParts DEF DbKey
<1>4. CASE \E t \in S : k = TableKey(t)
  <2>1. PICK t \in S : k = TableKey(t)
    BY <1>4
  <2>2. k[1] = t /\ k[2] = "" /\ k \in Key
    BY <1>2, <2>1, KeyParts DEF TableKey
  <2> QED BY <1>2, <2>2
<1>5. CASE k \in S \X Column /\ k[2] \in db.tables[k[1]]
  <2>1. k[1] \in S /\ k[2] \in Column /\ k = <<k[1], k[2]>>
    BY <1>5
  <2>2. k \in Key
    <3>1. k[1] \in Table
      BY <1>2, <2>1
    <3>2. <<k[1], k[2]>> \in Key
      BY <2>1, <3>1, ColumnKey
    <3> QED BY <2>1, <3>2
  <2>3. k[2] # "b INT"
    BY <1>2, <1>5, <2>1 DEF TablesT
  <2>4. k[2] \in {"b", "b INT"} => k[2] = "b"
    BY <2>3
  <2> QED BY <1>2, <1>5, <2>1, <2>2, <2>4
<1> QED BY <1>1, <1>3, <1>4, <1>5

LEMMA RestoreconInv ==
  ASSUME NEW tf, NEW cf, CatalogInv, Restorecon(tf, cf) PROVE CatalogInv'
<1>1. GoodDb(db) /\ GoodSaved /\ Globals /\ Memory /\ Statements
  BY InvParts
<1>2. IsRows(db.rows) /\ db.tables \in TablesT /\ Describes(db.tables, db.rows)
      /\ db = [tables |-> db.tables, rows |-> db.rows]
  BY <1>1, IsDbParts DEF GoodDb
<1> DEFINE keys == Scanned(tf, cf)
           R == Reloaded(db.rows, keys, file)
<1>3. /\ up /\ up' = up /\ saved' = saved /\ contexts' = file /\ file' = file
      /\ vacuum' = vacuum /\ Count /\ oneSided' = oneSided \ keys
      /\ hash' = [k \in Key |-> IF k \in keys THEN Default(file, k) ELSE hash[k]]
      /\ db' = [db EXCEPT !.rows = R] /\ Relabelled(keys) /\ internChanges' = internChanges
  BY DEF Restorecon
<1>4. db' = [tables |-> db.tables, rows |-> R]
  BY <1>2, <1>3
<1>5. /\ keys \in SUBSET Key
      /\ InSchema(db.tables, keys)
  BY <1>2, ScannedKeys
<1>6. file \in Version
  BY <1>1 DEF Globals
<1> HIDE DEF keys
<1>7. /\ IsRows(R) /\ Describes(db.tables, R)
      /\ \A k \in keys : Stored(R)[k] = Default(file, k)
      /\ \A k \in Key \ keys : Stored(R)[k] = Stored(db.rows)[k]
  <2> DEFINE T == db.tables  r == db.rows  v == file
  <2>1. /\ T \in TablesT /\ IsRows(r) /\ Describes(T, r) /\ keys \in SUBSET Key /\ v \in Version
        /\ InSchema(T, keys)
    BY <1>2, <1>5, <1>6
  <2> HIDE DEF T, r, v
  <2>2. /\ IsRows(Reloaded(r, keys, v)) /\ Describes(T, Reloaded(r, keys, v))
        /\ \A k \in keys : Stored(Reloaded(r, keys, v))[k] = Default(v, k)
        /\ \A k \in Key \ keys : Stored(Reloaded(r, keys, v))[k] = Stored(r)[k]
    BY ONLY <2>1, ReloadedDescribes
  <2> QED BY <2>2 DEF T, r, v
<1> HIDE DEF R
<1>8. IsDb(db') /\ db'.tables = db.tables /\ db'.rows = R
  BY <1>2, <1>4, <1>7, DbOf
<1>9. GoodDb(db)' /\ GoodSaved'
  BY <1>1, <1>3, <1>7, <1>8 DEF GoodDb, GoodSaved
<1>10. \A k \in Key : /\ k \in keys => hash'[k] = Default(file, k)
                      /\ k \notin keys => hash'[k] = hash[k]
                      /\ hash'[k] \in Label \cup {NoLabel}
  BY <1>1, <1>3, <1>6, DefaultAssumption DEF Globals
<1>11. hash' \in [Key -> Label \cup {NoLabel}]
  BY <1>3, <1>10
<1>12. Mirrors(hash', R, oneSided \ keys)
  <2> SUFFICES ASSUME NEW k \in Key \ (oneSided \ keys), Stored(R)[k] # NoLabel
               PROVE  hash'[k] = Stored(R)[k]
    BY DEF Mirrors
  <2>1. CASE k \in keys
    BY <1>7, <1>10, <2>1
  <2>2. CASE k \notin keys
    <3>1. Stored(R)[k] = Stored(db.rows)[k] /\ hash'[k] = hash[k] /\ k \in Key \ oneSided
      BY <1>7, <1>10, <2>2
    <3> QED BY <1>1, <1>3, <3>1 DEF Memory, Mirrors
  <2> QED BY <2>1, <2>2
<1>13. Memory'
  BY <1>3, <1>8, <1>12 DEF Memory
<1>14. ops' \in 0..MaxOps
  BY <1>1, <1>3, CountStep DEF Globals
<1>15. Globals'
  BY <1>1, <1>3, <1>6, <1>11, <1>14 DEF Globals
<1>16. Statements'
  <2>1. \A k \in Key \ keys : hash'[k] = hash[k]
    BY <1>10
  <2> QED BY <1>1, <1>3, <1>8, <2>1, StatementsMarked
<1> QED BY <1>9, <1>13, <1>15, <1>16, NextInvParts

LEMMA RollbackInv == CatalogInv /\ Rollback => CatalogInv'
<1> SUFFICES ASSUME CatalogInv, Rollback PROVE CatalogInv'
  OBVIOUS
<1>1. GoodDb(db) /\ GoodSaved /\ Globals /\ Memory /\ Statements
  BY InvParts
<1> DEFINE D == {k \in Key : Stored(db.rows)[k] # Stored(saved[1].rows)[k]}
<1>2. /\ up /\ up' = up /\ saved # << >> /\ db' = saved[1] /\ saved' = << >>
      /\ oneSided' = oneSided \cup D
      /\ UNCHANGED <<hash, contexts, file, vacuum, ops>>
  BY DEF Rollback
<1>3. GoodDb(db)' /\ GoodSaved'
  BY <1>1, <1>2 DEF GoodSaved
<1>4. Mirrors(hash, saved[1].rows, oneSided \cup D)
  <2>1. Mirrors(hash, db.rows, oneSided)
    BY <1>1, <1>2 DEF Memory
  <2>2. \A k \in Key \ (oneSided \cup D) : Stored(saved[1].rows)[k] = Stored(db.rows)[k]
    OBVIOUS
  <2> HIDE DEF D
  <2> QED BY <2>1, <2>2, MirrorsLess
<1>5. Memory'
  BY <1>2, <1>4 DEF Memory
<1>6. D \subseteq Key
  OBVIOUS
<1> HIDE DEF D
<1>7. Globals'
  BY <1>1, <1>2, <1>6 DEF Globals
<1>8. Statements'
  <2>1. prepared' = (IF internChanges THEN {} ELSE prepared) /\ internChanges' = FALSE
    BY DEF Rollback
  <2>2. CASE internChanges
    BY <1>2, <2>1, <2>2, StatementsGone
  <2>3. CASE ~internChanges
    <3>1. db'.tables = db.tables /\ prepared' = prepared
      BY <1>1, <1>2, <2>1, <2>3 DEF Statements
    <3> QED BY <1>1, <1>2, <2>1, <3>1 DEF Statements
  <2> QED BY <1>1, <2>2, <2>3 DEF Statements
<1> QED BY <1>3, <1>5, <1>7, <1>8, NextInvParts

LEMMA CrashInv == CatalogInv /\ Crash => CatalogInv'
<1> SUFFICES ASSUME CatalogInv, Crash PROVE CatalogInv'
  OBVIOUS
<1>1. GoodDb(db) /\ GoodSaved /\ Globals /\ Memory /\ Statements
  BY InvParts
<1>2. GoodDb(db)'
  <2>1. CASE saved = << >>
    BY <1>1, <2>1 DEF Crash
  <2>2. CASE saved # << >>
    <3>1. db' = saved[1]
      BY <2>2 DEF Crash
    <3> QED BY <1>1, <2>2, <3>1 DEF GoodSaved
  <2> QED BY <2>1, <2>2
<1>3. GoodSaved' /\ Memory'
  BY DEF GoodSaved, Memory, Crash
<1>4. hash' \in [Key -> Label \cup {NoLabel}]
  BY DEF Crash, NoHash
<1>5. Globals'
  BY <1>1, <1>4 DEF Globals, Crash
<1>6. Statements'
  BY StatementsGone DEF Crash
<1> QED BY <1>2, <1>3, <1>5, <1>6, NextInvParts

LEMMA BeginInv == CatalogInv /\ Begin => CatalogInv'
<1> SUFFICES ASSUME CatalogInv, Begin PROVE CatalogInv'
  OBVIOUS
<1>1. GoodDb(db) /\ GoodSaved /\ Globals /\ Memory /\ Statements
  BY InvParts
<1>2. /\ saved' = <<db>> /\ db' = db
      /\ UNCHANGED <<hash, contexts, file, up, vacuum, prepared, internChanges, oneSided, ops>>
  BY DEF Begin
<1>3. saved'[1] = db
  BY <1>2
<1>4. GoodDb(db)' /\ GoodSaved'
  BY <1>1, <1>2, <1>3 DEF GoodSaved
<1>5. Globals' /\ Memory'
  BY <1>1, <1>2 DEF Globals, Memory
<1>6. Statements'
  BY <1>1, <1>2, <1>3 DEF Statements
<1> QED BY <1>4, <1>5, <1>6, NextInvParts

(* Statements that touch neither the database nor its labels. *)
LEMMA OtherInv ==
  CatalogInv /\ (Commit \/ Close \/ Vacuum \/ (\E v \in Version : Install(v))
                 \/ UNCHANGED vars) => CatalogInv'
<1> SUFFICES ASSUME CatalogInv,
                    Commit \/ Close \/ Vacuum \/ (\E v \in Version : Install(v)) \/ UNCHANGED vars
             PROVE CatalogInv'
  OBVIOUS
<1>1. GoodDb(db) /\ GoodSaved /\ Globals /\ Memory /\ Statements
  BY InvParts
<1>2. /\ UNCHANGED <<db, hash, oneSided>> /\ contexts' = contexts
      /\ saved' = saved \/ saved' = << >>
      /\ up' = up \/ up' = FALSE
      /\ file' \in Version /\ vacuum' \in BOOLEAN
  BY <1>1 DEF Commit, Close, Vacuum, Install, vars, Globals
<1>3. ops' \in 0..MaxOps
  <2>1. Count \/ ops' = ops
    BY DEF Commit, Close, Vacuum, Install, vars
  <2> QED BY <1>1, <2>1, CountStep DEF Globals
<1>4. GoodDb(db)' /\ Memory'
  BY <1>1, <1>2 DEF Memory
<1>5. GoodSaved'
  BY <1>1, <1>2 DEF GoodSaved
<1>6. Globals'
  BY <1>1, <1>2, <1>3 DEF Globals
<1>7. Statements'
  <2>1. CASE Commit
    BY <1>1, <2>1 DEF Commit, Statements
  <2>2. CASE Close
    BY <1>1, <2>2 DEF Close, Statements
  <2>3. CASE Vacuum
    BY <1>1, <2>3 DEF Vacuum, Statements
  <2>4. CASE (\E v \in Version : Install(v)) \/ UNCHANGED vars
    <3>1. UNCHANGED <<prepared, internChanges, saved, up, db, hash>>
      BY <2>4 DEF Install, vars
    <3> QED BY <1>1, <3>1 DEF Statements
  <2> QED BY <2>1, <2>2, <2>3, <2>4
<1> QED BY <1>4, <1>5, <1>6, <1>7, NextInvParts

LEMMA NextInv == CatalogInv /\ [Next]_vars => CatalogInv'
<1> SUFFICES ASSUME CatalogInv, [Next]_vars PROVE CatalogInv'
  OBVIOUS
<1>1. CASE Open
  BY <1>1, OpenInv
<1>2. CASE Crash
  BY <1>2, CrashInv
<1>3. CASE Begin
  BY <1>3, BeginInv
<1>4. CASE Rollback
  BY <1>4, RollbackInv
<1>5. CASE \E k \in Key : GetContext(k)
  BY <1>5, GetContextInv
<1>6. CASE \E k \in Key, l \in Label : Chcon(k, l)
  BY <1>6, ChconInv
<1>7. CASE \E t \in Table : CompileCreate(t) \/ CompileInVacuum(t) \/ CompileDrop(t)
  BY <1>7, CompileCreateInv, CompileInVacuumInv, CompileDropInv
<1>8. CASE \/ \E t, u \in Table : CompileRename(t, u)
           \/ \E t \in Table, def \in {"b", "b INT"} : CompileAdd(t, def)
  BY <1>8, CompileRenameInv, CompileAddInv
<1>9. CASE \E s \in prepared : CreateTable(s) \/ DropTable(s) \/ RenameTable(s) \/ AddColumn(s)
  BY <1>9, CreateTableInv, DropTableInv, RenameTableInv, AddColumnInv
<1>10. CASE \E tf \in Table \cup {"NULL", "*"}, cf \in {"NULL", "a", "b", "*"} : Restorecon(tf, cf)
  BY <1>10, RestoreconInv
<1>11. CASE Commit \/ Close \/ Vacuum \/ (\E v \in Version : Install(v)) \/ UNCHANGED vars
  BY <1>11, OtherInv
<1> QED BY <1>1, <1>2, <1>3, <1>4, <1>5, <1>6, <1>7, <1>8, <1>9, <1>10, <1>11 DEF Next

LEMMA Invariant == Spec => []CatalogInv
<1> QED BY InitInv, NextInv, PTL DEF Spec

-------------------------------------------------------------------------------
(* Theorems *)

(* Schema, catalog and memory have their types. *)
THEOREM CatalogTypes == Spec => []TypeOK
<1>1. CatalogInv => TypeOK
  BY DEF CatalogInv
<1> QED BY <1>1, Invariant, PTL

(* For any set of tables and any sequence of CREATE, DROP and ALTER TABLE,   *)
(* restorecon, rollbacks and crashes: no row of selinux_context is left of a  *)
(* table that is gone, no primary key is held twice, and what has labels has  *)
(* its rows.                                                                  *)
THEOREM RowsDescribeSchema == Spec => []CatalogMatchesSchema
<1>1. CatalogInv => CatalogMatchesSchema
  <2> SUFFICES ASSUME CatalogInv PROVE CatalogMatchesSchema
    OBVIOUS
  <2>1. IsRows(db.rows) /\ Describes(db.tables, db.rows)
    BY InvParts, IsDbParts DEF GoodDb
  <2>2. ASSUME NEW t \in Table, "security_context" \in db.tables[t],
               NEW k \in {TableKey(t), <<t, "a">>}
        PROVE  Stored(db.rows)[k] # NoLabel
    <3>1. RowsOf(db.rows, k) # {}
      BY <2>1, <2>2 DEF Describes, Labelled
    <3>2. k \in Key
      BY <2>2, LabelledKeys
    <3> QED BY <2>1, <3>1, <3>2, StoredNone
  <2>3. \A i \in DOMAIN db.rows : db.rows[i].name = "" \/ Exists(db.rows[i].name)
    BY <2>1 DEF Describes, NamesExist, Exists
  <2>4. UniqueRows(db.rows)
    BY <2>1 DEF Describes
  <2> QED BY <2>2, <2>3, <2>4 DEF CatalogMatchesSchema, UniqueRows
<1> QED BY <1>1, Invariant, PTL

(* For any policy and any sequence of statements: the authorizer's label of   *)
(* an object is the stored one, unless chcon, ALTER TABLE, a CREATE TABLE     *)
(* compiled before a chcon, or a rollback wrote one side of it only.          *)
THEOREM LabelsMirrored == Spec => []MemoryAgrees
<1>1. CatalogInv => MemoryAgrees
  BY DEF CatalogInv, Mirrors, MemoryAgrees
<1> QED BY <1>1, Invariant, PTL

(* For any policy, and any time between the compiling of a DROP TABLE and its *)
(* run: a table that selinux_context protects is not dropped, unless its      *)
(* label was written on one side only or by a PRAGMA after the statement was  *)
(* compiled.                                                                  *)
THEOREM DropsAreGranted == Spec => DropAsStored
<1> DEFINE Step == \A t \in Table :
       LET l == Stored(db.rows)[TableKey(t)] IN
       /\ Exists(t) /\ db'.tables[t] = Absent
       /\ saved' = saved /\ up'
       /\ \A u \in Table : db'.tables[u] \in {Absent, db.tables[u]}
       /\ TableKey(t) \notin oneSided /\ l # NoLabel
       /\ \A s \in prepared : s.op = "drop" /\ s.t = t => ~s.stale
       => <<l, "drop">> \in Granted
<1>1. CatalogInv /\ [Next]_vars => [Step]_vars
  <2> SUFFICES ASSUME CatalogInv, Next, NEW t \in Table,
                      db.tables[t] # Absent, db'.tables[t] = Absent, saved' = saved, up',
                      \A u \in Table : db'.tables[u] \in {Absent, db.tables[u]},
                      TableKey(t) \notin oneSided, Stored(db.rows)[TableKey(t)] # NoLabel,
                      \A s \in prepared : s.op = "drop" /\ s.t = t => ~s.stale
               PROVE  <<Stored(db.rows)[TableKey(t)], "drop">> \in Granted
    BY DEF Exists
  <2>1. GoodDb(db) /\ Memory /\ db.tables \in TablesT /\ db = [tables |-> db.tables, rows |-> db.rows]
    BY InvParts, IsDbParts DEF GoodDb
  <2>2. ASSUME NEW s \in prepared, DropTable(s) PROVE <<Stored(db.rows)[TableKey(t)], "drop">> \in Granted
    <3>1. db'.tables = [db.tables EXCEPT ![s.t] = Absent]
      <4> DEFINE U == [db.tables EXCEPT ![s.t] = Absent]
                 W == Without(db.rows, {i \in DOMAIN db.rows : db.rows[i].name = s.t})
      <4>1. db' = [tables |-> U, rows |-> W]
        BY <2>2 DEF DropTable
      <4> HIDE DEF U, W
      <4>2. db'.tables = U
        BY <4>1
      <4> QED BY <4>2 DEF U
    <3>2. s.t = t
      BY <2>1, <3>1 DEF TablesT
    <3>3. DropReady(s, db.tables, hash) /\ up
      BY <2>2, RunsReady DEF Ready, DropTable
    <3>4. <<hash[TableKey(t)], "drop">> \in Granted
      BY <2>2, <3>2, <3>3 DEF DropReady, DropTable
    <3>5. hash[TableKey(t)] = Stored(db.rows)[TableKey(t)]
      BY <2>1, <3>3, KeyParts DEF Memory, Mirrors
    <3> QED BY <3>4, <3>5
  <2>3. ASSUME NEW s \in prepared, CreateTable(s) PROVE FALSE
    <3>1. PICK new : new # Absent /\ db'.tables = [db.tables EXCEPT ![s.t] = new]
      <4> DEFINE new == IF s.new = << >> THEN {"a"} ELSE {"a", "security_context"}
                 U == [db.tables EXCEPT ![s.t] = new]
                 A == Appended(db.rows, s.new)
      <4>1. db' = [tables |-> U, rows |-> A]
        BY <2>3 DEF CreateTable
      <4>2. new # Absent
        BY DEF Absent
      <4> HIDE DEF A
      <4>3. db'.tables = U
        BY <4>1
      <4> QED BY <4>2, <4>3
    <3> QED BY <2>1, <3>1 DEF TablesT
  <2>5. ASSUME NEW s \in prepared, RenameTable(s) PROVE FALSE
    <3>1. RenameReady(s, db.tables) /\ s.t \in Table
      BY <2>5, RunsReady DEF Ready, RenameTable
    <3>2. db'.tables = RenamedTables(db.tables, s.t, s.to)
      <4> DEFINE U == RenamedTables(db.tables, s.t, s.to)  R == Renamed(db.rows, s.t, s.to)
      <4>1. db' = [tables |-> U, rows |-> R]
        BY <2>5 DEF RenameTable, RenamedTables
      <4> HIDE DEF U, R
      <4>2. db'.tables = U
        BY <4>1
      <4> QED BY <4>2 DEF U
    <3>3. db'.tables[s.to] = db.tables[s.t] /\ s.to \in Table
      BY <2>1, <3>1, <3>2 DEF RenamedTables, RenameReady, TablesT
    <3> QED BY <3>1, <3>3 DEF RenameReady
  <2>6. ASSUME NEW s \in prepared, AddColumn(s) PROVE FALSE
    <3>1. db'.tables = AddedTables(db.tables, s.t)
      BY <2>6 DEF AddColumn, AddedTables
    <3> QED BY <2>1, <3>1 DEF TablesT, Absent, AddedTables
  <2>7. ASSUME db'.tables = db.tables PROVE FALSE
    BY <2>7
  <2>8. CASE Open
    BY <2>1, <2>7, <2>8 DEF Open
  <2>9. CASE \E tf \in Table \cup {"NULL", "*"}, cf \in {"NULL", "a", "b", "*"} : Restorecon(tf, cf)
    BY <2>1, <2>7, <2>9 DEF Restorecon
  <2>10. CASE Rollback \/ Crash
    BY <2>10 DEF Rollback, Crash
  <2>11. CASE \/ Close \/ Begin \/ Commit \/ Vacuum \/ (\E k \in Key : GetContext(k))
              \/ (\E k \in Key, l \in Label : Chcon(k, l)) \/ (\E v \in Version : Install(v))
    BY <2>7, <2>11 DEF Close, Begin, Commit, Vacuum, GetContext, Chcon, Install
  <2>12. CASE \/ \E u \in Table : CompileCreate(u) \/ CompileInVacuum(u) \/ CompileDrop(u)
              \/ \E u, w \in Table : CompileRename(u, w)
              \/ \E u \in Table, def \in {"b", "b INT"} : CompileAdd(u, def)
    BY <2>7, <2>12 DEF CompileCreate, CompileInVacuum, CompileDrop, CompileRename, CompileAdd
  <2> QED BY <2>2, <2>3, <2>5, <2>6, <2>8, <2>9, <2>10, <2>11, <2>12 DEF Next
<1>2. Spec => [][Step]_vars
  BY <1>1, Invariant, PTL DEF Spec
<1> QED BY <1>2 DEF DropAsStored

===============================================================================
