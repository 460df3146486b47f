---------------------------- MODULE ContextsProofs ----------------------------
(***************************************************************************)
(* For a contexts file of any length over any set of names: every list is  *)
(* in descending order, holds the lines of its class and no other, and its *)
(* first match is the line an administrator expects.                       *)
(***************************************************************************)
EXTENDS Contexts, FiniteSetTheorems, FunctionTheorems, SequenceTheorems,
        WellFoundedInduction, TLAPS

Path(c) == [1..Width[c] -> Name \cup {Star}]

(* The lines of a file that belong into list c. *)
LinesOf(file, c) == {i \in DOMAIN file : file[i].class = c}

InOrder(list) ==
  \A i, j \in DOMAIN list : i < j => ~After(list[j].path, list[i].path)

(* src tells for each element of a list from which line it comes; of two     *)
(* elements with the same pattern the later line is in front.                *)
Comes(list, file, c, src) ==
  /\ src \in [DOMAIN list -> LinesOf(file, c)]
  /\ \A i, j \in DOMAIN list : src[i] = src[j] => i = j
  /\ \A k \in LinesOf(file, c) : \E i \in DOMAIN list : src[i] = k
  /\ \A i \in DOMAIN list : list[i] = file[src[i]]
  /\ \A i, j \in DOMAIN list : i < j /\ list[i].path = list[j].path => src[i] > src[j]

(* The inductive invariant.  That a list is sorted is not enough: which of   *)
(* two equal patterns is in front depends on the order of the file.          *)
ListInv ==
  /\ TypeOK
  /\ \A c \in Class : InOrder(lists[c])
  /\ \A c \in Class : \E src : Comes(lists[c], read, c, src)

-------------------------------------------------------------------------------
(* The order on patterns. *)

LEMMA NatMin ==
  ASSUME NEW T \in SUBSET Nat, T # {}
  PROVE  \E x \in T : \A y \in T : x <= y
<1> DEFINE R == {ss \in Nat \X Nat : ss[1] < ss[2]}
<1>1. IsWellFoundedOn(R, Nat)
  BY NatLessThanWellFounded DEF OpToRel
<1>2. \A x, y \in Nat : y < x => <<y, x>> \in R
  OBVIOUS
<1> HIDE DEF R
<1>3. PICK x \in T : \A y \in T : ~(<<y, x>> \in R)
  BY <1>1, WFMin
<1>4. \A y \in T : x \in Nat /\ y \in Nat /\ ~(y < x)
  BY <1>2, <1>3
<1>5. \A y \in T : x <= y
  BY <1>4
<1> QED BY <1>5

LEMMA FunEqual ==
  ASSUME NEW S, NEW T, NEW f \in [S -> T], NEW g \in [S -> T], \A x \in S : f[x] = g[x]
  PROVE  f = g
OBVIOUS

LEMMA WidthNat == \A c \in Class : Width[c] \in Nat /\ Width[c] >= 1
BY DEF Class, Width

LEMMA PathNat ==
  ASSUME NEW c \in Class, NEW a \in Path(c)
  PROVE  DOMAIN a = 1..Width[c] /\ \A i \in 1..Width[c] : a[i] \in Nat
<1>1. a \in [1..Width[c] -> Name \cup {0}]
  BY DEF Path, Star
<1>2. Name \cup {0} \subseteq Nat
  BY NameAssumption
<1> HIDE DEF Width
<1> QED BY <1>1, <1>2

(* Patterns of one class are totally ordered. *)
LEMMA AfterTotal ==
  ASSUME NEW c \in Class, NEW a \in Path(c), NEW b \in Path(c), a # b
  PROVE  After(a, b) \/ After(b, a)
<1> DEFINE D == {i \in 1..Width[c] : a[i] # b[i]}
<1>1. D # {}
  <2> SUFFICES ASSUME D = {} PROVE FALSE
    OBVIOUS
  <2> DEFINE I == 1..Width[c]
             V == Name \cup {Star}
  <2>1. \A i \in I : a[i] = b[i]
    OBVIOUS
  <2>2. a \in [I -> V] /\ b \in [I -> V]
    BY DEF Path
  <2> HIDE DEF I, V, D
  <2> QED BY <2>1, <2>2, FunEqual
<1>2. D \in SUBSET Nat
  BY WidthNat
<1>3. PICK x \in D : \A y \in D : x <= y
  BY <1>1, <1>2, NatMin
<1>4. \A j \in 1..(x - 1) : a[j] = b[j]
  BY <1>3, WidthNat
<1>5. a[x] > b[x] \/ b[x] > a[x]
  BY <1>3, PathNat
<1> QED BY <1>3, <1>4, <1>5, PathNat DEF After

LEMMA AfterAsym ==
  ASSUME NEW c \in Class, NEW a \in Path(c), NEW b \in Path(c), After(a, b)
  PROVE  ~After(b, a) /\ a # b
<1>1. PICK i \in 1..Width[c] : a[i] > b[i] /\ \A j \in 1..(i - 1) : a[j] = b[j]
  BY PathNat DEF After
<1>2. a # b
  BY <1>1, PathNat
<1>3. SUFFICES ASSUME NEW k \in 1..Width[c], b[k] > a[k], \A j \in 1..(k - 1) : b[j] = a[j]
               PROVE  FALSE
  BY <1>2, PathNat DEF After
<1>4. i < k \/ k < i \/ i = k
  BY WidthNat
<1>5. CASE i < k
  <2>1. i \in 1..(k - 1)
    BY <1>5, WidthNat
  <2> QED BY <2>1, <1>1, <1>3, PathNat
<1>6. CASE k < i
  <2>1. k \in 1..(i - 1)
    BY <1>6, WidthNat
  <2> QED BY <2>1, <1>1, <1>3, PathNat
<1>7. CASE i = k
  BY <1>7, <1>1, <1>3, PathNat
<1> QED BY <1>4, <1>5, <1>6, <1>7

LEMMA AfterTrans ==
  ASSUME NEW c \in Class, NEW x \in Path(c), NEW y \in Path(c), NEW z \in Path(c),
         After(x, y), After(y, z)
  PROVE  After(x, z)
<1>1. PICK i \in 1..Width[c] : x[i] > y[i] /\ \A j \in 1..(i - 1) : x[j] = y[j]
  BY PathNat DEF After
<1>2. PICK k \in 1..Width[c] : y[k] > z[k] /\ \A j \in 1..(k - 1) : y[j] = z[j]
  BY PathNat DEF After
<1>3. CASE i <= k
  <2>1. x[i] > z[i]
    BY <1>1, <1>2, <1>3, PathNat, WidthNat
  <2>2. \A j \in 1..(i - 1) : x[j] = z[j]
    BY <1>1, <1>2, <1>3, WidthNat
  <2> QED BY <2>1, <2>2, PathNat DEF After
<1>4. CASE k < i
  <2>1. x[k] > z[k]
    BY <1>1, <1>2, <1>4, PathNat, WidthNat
  <2>2. \A j \in 1..(k - 1) : x[j] = z[j]
    BY <1>1, <1>2, <1>4, WidthNat
  <2> QED BY <2>1, <2>2, PathNat DEF After
<1> QED BY <1>3, <1>4, WidthNat

LEMMA NotAfterTrans ==
  ASSUME NEW c \in Class, NEW x \in Path(c), NEW y \in Path(c), NEW z \in Path(c),
         ~After(x, y), ~After(y, z)
  PROVE  ~After(x, z)
<1>1. x = y \/ After(y, x)
  BY AfterTotal
<1>2. y = z \/ After(z, y)
  BY AfterTotal
<1>3. CASE x = y \/ y = z
  BY <1>3
<1>4. CASE After(y, x) /\ After(z, y)
  BY <1>4, AfterTrans, AfterAsym
<1> QED BY <1>1, <1>2, <1>3, <1>4

-------------------------------------------------------------------------------
(* sorted_insert. *)

LEMMA EntryPath ==
  ASSUME NEW e \in Entry
  PROVE  e \in Line /\ e.class \in Class /\ e.path \in Path(e.class)
BY LineAssumption DEF Entry, Path

LEMMA PositionIn ==
  ASSUME NEW list \in Seq(Entry), NEW e \in Entry
  PROVE  /\ Position(list, e) \in 1..(Len(list) + 1)
         /\ \A j \in 1..(Position(list, e) - 1) : After(list[j].path, e.path)
         /\ Position(list, e) <= Len(list) => ~After(list[Position(list, e)].path, e.path)
<1> DEFINE S == {i \in 1..(Len(list) + 1) : i <= Len(list) => ~After(list[i].path, e.path)}
<1>1. Len(list) \in Nat
  OBVIOUS
<1>2. S \in SUBSET Nat /\ Len(list) + 1 \in S
  BY <1>1
<1>3. PICK x \in S : \A y \in S : x <= y
  BY <1>2, NatMin
<1>4. ASSUME NEW j \in 1..(x - 1)
      PROVE  After(list[j].path, e.path)
  <2>1. j \in 1..(Len(list) + 1) /\ j < x /\ j <= Len(list)
    BY <1>1, <1>3
  <2>2. j \notin S
    BY <2>1, <1>3, <1>1
  <2> QED BY <2>1, <2>2
<1>5. \E i \in 1..(Len(list) + 1) :
         /\ \A j \in 1..(i - 1) : After(list[j].path, e.path)
         /\ i <= Len(list) => ~After(list[i].path, e.path)
  BY <1>3, <1>4
<1> QED BY <1>5 DEF Position

LEMMA InsertedSeq ==
  ASSUME NEW list \in Seq(Entry), NEW e \in Entry, NEW p \in 1..(Len(list) + 1),
         p = Position(list, e)
  PROVE  /\ SortedInsert(list, e) \in Seq(Entry)
         /\ Len(SortedInsert(list, e)) = Len(list) + 1
         /\ DOMAIN SortedInsert(list, e) = 1..(Len(list) + 1)
         /\ \A i \in 1..(Len(list) + 1) :
              /\ i < p => i \in DOMAIN list /\ SortedInsert(list, e)[i] = list[i]
              /\ i = p => SortedInsert(list, e)[i] = e
              /\ i > p => i - 1 \in DOMAIN list /\ SortedInsert(list, e)[i] = list[i - 1]
<1> DEFINE n == Len(list) + 1
           f == SortedInsert(list, e)
<1>1. Len(list) \in Nat /\ DOMAIN list = 1..Len(list) /\ \A i \in 1..Len(list) : list[i] \in Entry
  OBVIOUS
<1>2. f = [i \in 1..n |-> IF i < p THEN list[i] ELSE IF i = p THEN e ELSE list[i - 1]]
  BY DEF SortedInsert
<1>3. \A i \in 1..n : /\ i < p => i \in 1..Len(list)
                      /\ i > p => i - 1 \in 1..Len(list)
  BY <1>1
<1>4. \A i \in 1..n : /\ i < p => f[i] = list[i]
                      /\ i = p => f[i] = e
                      /\ i > p => f[i] = list[i - 1]
  BY <1>1, <1>2
<1>5. ASSUME NEW i \in 1..n PROVE f[i] \in Entry
  <2> HIDE DEF f
  <2>1. i < p \/ i = p \/ i > p
    BY <1>1
  <2>2. CASE i < p
    <3>1. i \in 1..Len(list) /\ f[i] = list[i]
      BY <1>3, <1>4, <2>2
    <3> QED BY <3>1, <1>1
  <2>3. CASE i = p
    BY <1>4, <2>3
  <2>4. CASE i > p
    <3>1. i - 1 \in 1..Len(list) /\ f[i] = list[i - 1]
      BY <1>3, <1>4, <2>4
    <3> QED BY <3>1, <1>1
  <2> QED BY <2>1, <2>2, <2>3, <2>4
<1>6. f \in [1..n -> Entry]
  <2>1. DOMAIN f = 1..n /\ f = [i \in DOMAIN f |-> f[i]]
    BY <1>2
  <2> HIDE DEF f, n
  <2> QED BY <2>1, <1>5
<1>7. n \in Nat
  BY <1>1
<1>8. f \in Seq(Entry) /\ Len(f) = n
  <2> HIDE DEF f, n
  <2>1. f \in Seq(Entry)
    BY <1>6, <1>7, SeqDef
  <2>2. DOMAIN f = 1..n
    BY <1>6
  <2> QED BY <2>1, <2>2, <1>7, LenProperties
<1>9. DOMAIN f = 1..n
  BY <1>2
<1> HIDE DEF f
<1>10. \A i \in 1..n :
          /\ i < p => i \in DOMAIN list /\ f[i] = list[i]
          /\ i = p => f[i] = e
          /\ i > p => i - 1 \in DOMAIN list /\ f[i] = list[i - 1]
  <2>1. DOMAIN list = 1..Len(list)
    BY <1>1
  <2> HIDE DEF n
  <2> QED BY <2>1, <1>3, <1>4
<1> QED BY <1>8, <1>9, <1>10 DEF f

LEMMA InsertOrder ==
  ASSUME NEW c \in Class, NEW list \in Seq(Entry), \A i \in DOMAIN list : list[i].class = c,
         InOrder(list), NEW e \in Entry, e.class = c
  PROVE  InOrder(SortedInsert(list, e))
<1> DEFINE f == SortedInsert(list, e)
           p == Position(list, e)
<1> HIDE DEF f, p
<1>1. Len(list) \in Nat /\ DOMAIN list = 1..Len(list)
  OBVIOUS
<1>2. /\ p \in 1..(Len(list) + 1)
      /\ \A j \in 1..(p - 1) : After(list[j].path, e.path)
      /\ p <= Len(list) => ~After(list[p].path, e.path)
  BY PositionIn DEF p
<1>3. /\ DOMAIN f = 1..(Len(list) + 1)
      /\ \A i \in 1..(Len(list) + 1) :
              /\ i < p => i \in DOMAIN list /\ f[i] = list[i]
              /\ i = p => f[i] = e
              /\ i > p => i - 1 \in DOMAIN list /\ f[i] = list[i - 1]
  <2>1. p = Position(list, e)
    BY DEF p
  <2> QED BY <1>2, <2>1, InsertedSeq DEF f
<1>4. \A i \in DOMAIN list : list[i].path \in Path(c)
  <2>1. \A i \in DOMAIN list : list[i] \in Entry
    OBVIOUS
  <2> QED BY <2>1, EntryPath
<1>5. e.path \in Path(c)
  BY EntryPath
<1> SUFFICES ASSUME NEW i \in 1..(Len(list) + 1), NEW j \in 1..(Len(list) + 1), i < j
             PROVE  ~After(f[j].path, f[i].path)
  BY <1>3 DEF InOrder, f
<1>6. CASE j < p
  <2>1. i < p
    BY <1>6, <1>2, <1>1
  <2>2. i \in DOMAIN list /\ j \in DOMAIN list /\ f[i] = list[i] /\ f[j] = list[j]
    BY <1>3, <1>6, <2>1
  <2> QED BY <2>2 DEF InOrder
<1>7. CASE j = p
  <2>1. i < p /\ i \in 1..(p - 1)
    BY <1>7, <1>2, <1>1
  <2>2. i \in DOMAIN list /\ f[i] = list[i] /\ f[j] = e
    BY <1>3, <1>7, <2>1
  <2>3. After(list[i].path, e.path)
    BY <1>2, <2>1
  <2> QED BY <2>2, <2>3, <1>4, <1>5, AfterAsym
<1>8. CASE j > p
  <2>1. j - 1 \in DOMAIN list /\ f[j] = list[j - 1]
    BY <1>3, <1>8
  <2>2. CASE i < p
    <3>1. i \in DOMAIN list /\ f[i] = list[i] /\ i < j - 1
      BY <1>3, <2>2, <1>8, <1>2, <1>1
    <3> QED BY <3>1, <2>1 DEF InOrder
  <2>3. CASE i = p
    <3>1. f[i] = e
      BY <1>3, <2>3
    <3>2. p <= Len(list) /\ p \in DOMAIN list /\ p <= j - 1
      BY <1>8, <1>1, <1>2
    <3>3. ~After(list[p].path, e.path)
      BY <1>2, <3>2
    <3>4. CASE p = j - 1
      BY <3>4, <3>3, <3>1, <2>1
    <3>5. CASE p < j - 1
      <4>1. ~After(list[j - 1].path, list[p].path)
        BY <3>5, <3>2, <2>1 DEF InOrder
      <4>2. ~After(list[j - 1].path, e.path)
        BY <4>1, <3>3, <3>2, <2>1, <1>4, <1>5, NotAfterTrans
      <4> QED BY <4>2, <3>1, <2>1
    <3> QED BY <3>2, <3>4, <3>5, <1>1, <1>2
  <2>4. CASE i > p
    <3>1. i - 1 \in DOMAIN list /\ f[i] = list[i - 1]
      BY <1>3, <2>4
    <3>2. i - 1 < j - 1
      BY <1>1
    <3> QED BY <3>1, <3>2, <2>1 DEF InOrder
  <2> QED BY <2>2, <2>3, <2>4, <1>1, <1>2
<1> QED BY <1>6, <1>7, <1>8, <1>1, <1>2

LEMMA InsertComes ==
  ASSUME NEW c \in Class, NEW list \in Seq(Entry), NEW file \in Seq(Line),
         NEW src, Comes(list, file, c, src), NEW e \in Entry, e.class = c
  PROVE  \E s : Comes(SortedInsert(list, e), Append(file, e), c, s)
<1> DEFINE f == SortedInsert(list, e)
           p == Position(list, e)
           m == Len(file) + 1
           n == Len(list) + 1
           g == Append(file, e)
           s == [i \in 1..n |-> IF i < p THEN src[i] ELSE IF i = p THEN m ELSE src[i - 1]]
<1>1. Len(list) \in Nat /\ DOMAIN list = 1..Len(list) /\ n \in Nat
  OBVIOUS
<1>2. /\ p \in 1..n
      /\ \A j \in 1..(p - 1) : After(list[j].path, e.path)
  BY PositionIn
<1>3. /\ DOMAIN f = 1..n
      /\ \A i \in 1..n :
              /\ i < p => i \in DOMAIN list /\ f[i] = list[i]
              /\ i = p => f[i] = e
              /\ i > p => i - 1 \in DOMAIN list /\ f[i] = list[i - 1]
  <2> HIDE DEF p
  <2>1. p = Position(list, e)
    BY DEF p
  <2> QED BY <1>2, <2>1, InsertedSeq
<1>4. /\ Len(file) \in Nat /\ m \in Nat /\ DOMAIN file = 1..Len(file)
      /\ DOMAIN g = 1..m /\ g[m] = e /\ \A k \in 1..Len(file) : g[k] = file[k]
  BY EntryPath
<1>5. \A i \in DOMAIN list : src[i] \in LinesOf(file, c)
  BY DEF Comes
<1>6. LinesOf(g, c) = LinesOf(file, c) \cup {m}
  <2> HIDE DEF g
  <2> QED BY <1>4 DEF LinesOf
<1>7. \A i \in DOMAIN list : src[i] \in 1..Len(file) /\ src[i] < m
  BY <1>5, <1>4 DEF LinesOf
<1>8. \A i \in 1..n : /\ i < p => s[i] = src[i]
                      /\ i = p => s[i] = m
                      /\ i > p => s[i] = src[i - 1]
  BY <1>1, <1>2
<1>9. DOMAIN s = 1..n /\ s = [i \in 1..n |-> s[i]]
  OBVIOUS
<1> HIDE DEF f, p, m, n, g, s
<1>10. \A i \in 1..n : i < p \/ i = p \/ i > p
  BY <1>1, <1>2
<1>11. \A i \in 1..n : s[i] \in LinesOf(g, c)
  BY <1>10, <1>8, <1>3, <1>5, <1>6
<1>12. s \in [1..n -> LinesOf(g, c)]
  BY <1>11, <1>9
<1>13. ASSUME NEW i \in 1..n, NEW j \in 1..n, s[i] = s[j]
       PROVE  i = j
  <2>0. \A a, b \in DOMAIN list : src[a] = src[b] => a = b
    BY DEF Comes
  <2>1. CASE i < p /\ j < p
    BY <2>1, <1>13, <1>8, <1>3, <2>0
  <2>2. CASE i > p /\ j > p
    <3>1. i - 1 = j - 1
      BY <2>2, <1>13, <1>8, <1>3, <2>0
    <3> QED BY <3>1, <1>1
  <2>3. CASE i < p /\ j > p
    <3>1. src[i] = src[j - 1] /\ i \in DOMAIN list /\ j - 1 \in DOMAIN list
      BY <2>3, <1>13, <1>8, <1>3
    <3>2. i = j - 1
      BY <3>1, <2>0
    <3> QED BY <3>2, <2>3, <1>1, <1>2
  <2>4. CASE j < p /\ i > p
    <3>1. src[j] = src[i - 1] /\ j \in DOMAIN list /\ i - 1 \in DOMAIN list
      BY <2>4, <1>13, <1>8, <1>3
    <3>2. j = i - 1
      BY <3>1, <2>0
    <3> QED BY <3>2, <2>4, <1>1, <1>2
  <2>5. CASE i = p /\ j # p
    <3>1. s[i] = m
      BY <2>5, <1>8
    <3>2. j < p \/ j > p
      BY <2>5, <1>10
    <3>3. s[j] < m
      BY <3>2, <1>8, <1>3, <1>7
    <3> QED BY <3>1, <3>3, <1>13, <1>4
  <2>6. CASE j = p /\ i # p
    <3>1. s[j] = m
      BY <2>6, <1>8
    <3>2. i < p \/ i > p
      BY <2>6, <1>10
    <3>3. s[i] < m
      BY <3>2, <1>8, <1>3, <1>7
    <3> QED BY <3>1, <3>3, <1>13, <1>4
  <2> QED BY <2>1, <2>2, <2>3, <2>4, <2>5, <2>6, <1>10
<1>14. ASSUME NEW k \in LinesOf(g, c)
       PROVE  \E i \in 1..n : s[i] = k
  <2>1. CASE k = m
    BY <2>1, <1>2, <1>8
  <2>2. CASE k \in LinesOf(file, c)
    <3>1. PICK i \in DOMAIN list : src[i] = k
      BY <2>2 DEF Comes
    <3>2. CASE i < p
      <4>1. i \in 1..n
        BY <1>1 DEF n
      <4> QED BY <4>1, <3>2, <3>1, <1>8
    <3>3. CASE i >= p
      <4>1. i + 1 \in 1..n /\ i + 1 > p /\ (i + 1) - 1 = i
        BY <1>1, <1>2, <3>3 DEF n
      <4> QED BY <4>1, <3>1, <1>8
    <3> QED BY <3>2, <3>3, <1>1, <1>2
  <2> QED BY <2>1, <2>2, <1>6
<1>15. ASSUME NEW i \in 1..n
       PROVE  f[i] = g[s[i]]
  <2>0. \A a \in DOMAIN list : list[a] = file[src[a]] /\ g[src[a]] = file[src[a]]
    BY <1>4, <1>7 DEF Comes
  <2>1. CASE i < p
    BY <2>1, <2>0, <1>3, <1>8
  <2>2. CASE i = p
    BY <2>2, <1>3, <1>8, <1>4
  <2>3. CASE i > p
    BY <2>3, <2>0, <1>3, <1>8
  <2> QED BY <2>1, <2>2, <2>3, <1>10
<1>16. ASSUME NEW i \in 1..n, NEW j \in 1..n, i < j, f[i].path = f[j].path
       PROVE  s[i] > s[j]
  <2>0. \A a, b \in DOMAIN list : a < b /\ list[a].path = list[b].path => src[a] > src[b]
    BY DEF Comes
  <2>1. CASE j < p
    <3>1. i < p
      BY <2>1, <1>16, <1>1, <1>2
    <3> QED BY <3>1, <2>1, <2>0, <1>3, <1>8, <1>16
  <2>2. CASE j = p
    <3>1. i < p /\ i \in 1..(p - 1)
      BY <2>2, <1>16, <1>1, <1>2
    <3>2. f[i] = list[i] /\ f[j] = e /\ i \in DOMAIN list
      BY <3>1, <2>2, <1>3
    <3>3. After(list[i].path, e.path) /\ list[i].path = e.path
      BY <3>1, <3>2, <1>2, <1>16
    <3>4. e.path \in Path(c)
      BY EntryPath
    <3> QED BY <3>3, <3>4, AfterAsym
  <2>3. CASE j > p
    <3>0. j - 1 \in DOMAIN list /\ f[j] = list[j - 1] /\ s[j] = src[j - 1]
      BY <2>3, <1>3, <1>8
    <3>1. CASE i = p
      BY <3>0, <3>1, <1>7, <1>8, <1>4
    <3>2. CASE i < p
      <4>1. i \in DOMAIN list /\ i < j - 1 /\ f[i] = list[i] /\ s[i] = src[i]
        BY <3>2, <2>3, <1>3, <1>8, <1>1, <1>2
      <4> QED BY <4>1, <3>0, <2>0, <1>16
    <3>3. CASE i > p
      <4>1. i - 1 \in DOMAIN list /\ i - 1 < j - 1 /\ f[i] = list[i - 1] /\ s[i] = src[i - 1]
        BY <3>3, <1>16, <1>3, <1>8, <1>1, <1>2
      <4> QED BY <4>1, <3>0, <2>0, <1>16
    <3> QED BY <3>1, <3>2, <3>3, <1>10
  <2> QED BY <2>1, <2>2, <2>3, <1>10
<1>17. Comes(f, g, c, s)
  BY <1>3, <1>12, <1>13, <1>14, <1>15, <1>16 DEF Comes
<1> QED BY <1>17 DEF f, g

LEMMA SkipComes ==
  ASSUME NEW c \in Class, NEW list \in Seq(Entry), NEW file \in Seq(Line),
         NEW src, Comes(list, file, c, src), NEW l \in Line, l.class # c
  PROVE  Comes(list, Append(file, l), c, src)
<1> DEFINE g == Append(file, l)
           m == Len(file) + 1
<1>1. /\ Len(file) \in Nat /\ m \in Nat /\ DOMAIN file = 1..Len(file)
      /\ DOMAIN g = 1..m /\ g[m] = l /\ \A k \in 1..Len(file) : g[k] = file[k]
  OBVIOUS
<1>2. DOMAIN g = DOMAIN file \cup {m}
  BY <1>1
<1> HIDE DEF g, m
<1>3. LinesOf(g, c) = LinesOf(file, c)
  BY <1>1, <1>2 DEF LinesOf
<1>4. \A i \in DOMAIN list : g[src[i]] = file[src[i]]
  BY <1>1 DEF Comes, LinesOf
<1> QED BY <1>3, <1>4 DEF Comes, g

-------------------------------------------------------------------------------
(* The invariant is inductive. *)

LEMMA ListInit == Init => ListInv
<1> SUFFICES ASSUME Init PROVE ListInv
  OBVIOUS
<1>1. TypeOK
  <2>1. read \in Seq(Line) /\ Len(read) <= MaxLines
    BY LineAssumption DEF Init
  <2>2. lists \in [Class -> Seq(Entry)]
    BY DEF Init
  <2> QED BY <2>1, <2>2 DEF TypeOK, Init
<1>2. ASSUME NEW c \in Class
      PROVE  InOrder(lists[c]) /\ Comes(lists[c], read, c, << >>)
  <2>1. lists[c] = << >> /\ read = << >>
    BY DEF Init
  <2>2. DOMAIN << >> = {} /\ << >> \in [{} -> LinesOf(<< >>, c)]
    OBVIOUS
  <2>3. LinesOf(<< >>, c) = {}
    BY <2>2 DEF LinesOf
  <2> QED BY <2>1, <2>2, <2>3 DEF InOrder, Comes
<1> QED BY <1>1, <1>2 DEF ListInv

LEMMA ListReadEntry ==
  ASSUME ListInv, NEW l \in Line, ReadEntry(l)
  PROVE  ListInv'
<1>1. /\ l \in Entry /\ l.class \in Class
      /\ read \in Seq(Line) /\ Len(read) < MaxLines
      /\ lists \in [Class -> Seq(Entry)] /\ lists[l.class] \in Seq(Entry)
      /\ read' = Append(read, l) /\ status' = status
      /\ lists' = [lists EXCEPT ![l.class] = SortedInsert(lists[l.class], l)]
  BY DEF ReadEntry, ListInv, TypeOK, Entry
<1> DEFINE f == SortedInsert(lists[l.class], l)
           p == Position(lists[l.class], l)
<1>2. f \in Seq(Entry)
  <2> HIDE DEF p
  <2>1. p \in 1..(Len(lists[l.class]) + 1)
    BY <1>1, PositionIn DEF p
  <2>2. p = Position(lists[l.class], l)
    BY DEF p
  <2> QED BY <1>1, <2>1, <2>2, InsertedSeq
<1>3. lists' \in [Class -> Seq(Entry)] /\ lists'[l.class] = f
      /\ \A c \in Class : c # l.class => lists'[c] = lists[c]
  <2> HIDE DEF f
  <2>1. lists' = [lists EXCEPT ![l.class] = f]
    BY <1>1 DEF f
  <2> QED BY <2>1, <1>1, <1>2
<1>4. read' \in Seq(Line) /\ Len(read') <= MaxLines
  BY <1>1, LineAssumption
<1>5. TypeOK'
  BY <1>1, <1>3, <1>4 DEF TypeOK, ListInv
<1>6. ASSUME NEW c \in Class PROVE InOrder(lists'[c])
  <2>1. CASE c # l.class
    BY <2>1, <1>3 DEF ListInv
  <2>2. CASE c = l.class
    <3>1. PICK src : Comes(lists[c], read, c, src)
      BY DEF ListInv
    <3>2. \A i \in DOMAIN lists[c] : lists[c][i].class = c
      BY <3>1 DEF Comes, LinesOf
    <3>3. InOrder(lists[c])
      BY DEF ListInv
    <3>4. InOrder(SortedInsert(lists[c], l))
      BY <3>2, <3>3, <1>1, <2>2, InsertOrder
    <3> QED BY <3>4, <2>2, <1>3
  <2> QED BY <2>1, <2>2
<1>7. ASSUME NEW c \in Class PROVE \E src : Comes(lists'[c], read', c, src)
  <2>1. PICK src : Comes(lists[c], read, c, src)
    BY DEF ListInv
  <2>2. lists[c] \in Seq(Entry)
    BY <1>1
  <2>3. CASE c # l.class
    <3>1. Comes(lists[c], Append(read, l), c, src)
      BY <2>1, <2>2, <2>3, <1>1, SkipComes
    <3> QED BY <3>1, <2>3, <1>1, <1>3
  <2>4. CASE c = l.class
    <3>1. \E s : Comes(SortedInsert(lists[c], l), Append(read, l), c, s)
      BY <2>1, <2>2, <2>4, <1>1, InsertComes
    <3> QED BY <3>1, <2>4, <1>1, <1>3
  <2> QED BY <2>3, <2>4
<1> QED BY <1>5, <1>6, <1>7 DEF ListInv

LEMMA ListSkipLine ==
  ASSUME ListInv, NEW l \in Line, SkipLine(l)
  PROVE  ListInv'
<1>1. /\ l.class \notin Class
      /\ read \in Seq(Line) /\ Len(read) < MaxLines
      /\ lists \in [Class -> Seq(Entry)]
      /\ read' = Append(read, l) /\ status' = status /\ lists' = lists
  BY DEF SkipLine, ListInv, TypeOK
<1>2. TypeOK'
  BY <1>1, LineAssumption DEF TypeOK, ListInv
<1>3. ASSUME NEW c \in Class PROVE \E src : Comes(lists'[c], read', c, src)
  <2>1. PICK src : Comes(lists[c], read, c, src)
    BY DEF ListInv
  <2>2. lists[c] \in Seq(Entry) /\ l.class # c
    BY <1>1
  <2>3. Comes(lists[c], Append(read, l), c, src)
    BY <2>1, <2>2, <1>1, SkipComes
  <2> QED BY <2>3, <1>1
<1> QED BY <1>1, <1>2, <1>3 DEF ListInv

LEMMA ListSame ==
  ASSUME ListInv, UNCHANGED <<read, lists>>,
         status' \in {"closed", "reading", "loaded", "missing"}
  PROVE  ListInv'
<1>1. read' = read /\ lists' = lists
  OBVIOUS
<1> QED BY <1>1 DEF ListInv, TypeOK

LEMMA ListInvariant == Spec => []ListInv
<1>1. ListInv /\ [Next]_vars => ListInv'
  <2> SUFFICES ASSUME ListInv, [Next]_vars PROVE ListInv'
    OBVIOUS
  <2>0. status \in {"closed", "reading", "loaded", "missing"}
    BY DEF ListInv, TypeOK
  <2>1. CASE OpenFile
    BY <2>1, ListSame DEF OpenFile
  <2>2. CASE EndOfFile
    BY <2>2, ListSame DEF EndOfFile
  <2>3. CASE \E l \in Line : ReadEntry(l)
    BY <2>3, ListReadEntry
  <2>4. CASE \E l \in Line : SkipLine(l)
    BY <2>4, ListSkipLine
  <2>5. CASE UNCHANGED vars
    BY <2>5, <2>0, ListSame DEF vars
  <2> QED BY <2>1, <2>2, <2>3, <2>4, <2>5 DEF Next
<1> QED BY <1>1, ListInit, PTL DEF Spec

-------------------------------------------------------------------------------
(* What follows from it. *)

(* read_sesqlite_context keeps every list well formed and in descending      *)
(* order of the patterns, for a file of any length.                          *)
THEOREM ListsSorted == Spec => [](TypeOK /\ Sorted)
<1>1. ListInv => TypeOK /\ Sorted
  BY DEF ListInv, InOrder, Sorted
<1> QED BY <1>1, ListInvariant, PTL

(* sorted_insert drops, doubles and misfiles no line: every list holds each  *)
(* entry exactly as often as the file does.                                  *)
THEOREM EntriesKept == Spec => []NothingLost
<1>1. ASSUME ListInv, NEW c \in Class, NEW l \in Line, l.class = c
      PROVE  Cardinality({i \in DOMAIN lists[c] : lists[c][i] = l})
               = Cardinality({i \in DOMAIN read : read[i] = l})
  <2>1. PICK src : Comes(lists[c], read, c, src)
    BY <1>1 DEF ListInv
  <2> DEFINE A == {i \in DOMAIN lists[c] : lists[c][i] = l}
             B == {i \in DOMAIN read : read[i] = l}
             h == [i \in A |-> src[i]]
  <2>2. \A i \in A : src[i] \in B
    BY <2>1 DEF Comes, LinesOf
  <2>3. h \in [A -> B] /\ \A i \in A : h[i] = src[i]
    BY <2>2
  <2>4. \A i, j \in A : h[i] = h[j] => i = j
    BY <2>1, <2>3 DEF Comes
  <2>5. \A k \in B : \E i \in A : h[i] = k
    <3> SUFFICES ASSUME NEW k \in B PROVE \E i \in A : h[i] = k
      OBVIOUS
    <3>1. k \in LinesOf(read, c)
      BY <1>1 DEF LinesOf
    <3>2. PICK i \in DOMAIN lists[c] : src[i] = k
      BY <2>1, <3>1 DEF Comes
    <3>3. lists[c][i] = l
      BY <3>2, <2>1 DEF Comes
    <3> QED BY <3>2, <3>3, <2>3
  <2>6. IsFiniteSet(A)
    <3>1. lists[c] \in Seq(Entry)
      BY <1>1 DEF ListInv, TypeOK
    <3>2. Len(lists[c]) \in Nat /\ DOMAIN lists[c] = 1..Len(lists[c])
      BY <3>1
    <3>3. IsFiniteSet(1..Len(lists[c]))
      BY <3>2, FS_Interval
    <3> QED BY <3>2, <3>3, FS_Subset
  <2> HIDE DEF A, B, h
  <2>7. h \in Bijection(A, B)
    BY <2>3, <2>4, <2>5, Fun_IsBij
  <2>8. ExistsBijection(A, B)
    BY <2>7 DEF ExistsBijection
  <2>9. Cardinality(B) = Cardinality(A)
    BY <2>6, <2>8, FS_Bijection
  <2> QED BY <2>9 DEF A, B
<1>2. ASSUME ListInv, NEW c \in Class, NEW l \in Line, l.class # c
      PROVE  Cardinality({i \in DOMAIN lists[c] : lists[c][i] = l}) = 0
  <2>1. PICK src : Comes(lists[c], read, c, src)
    BY <1>2 DEF ListInv
  <2>2. \A i \in DOMAIN lists[c] : lists[c][i].class = c
    BY <2>1 DEF Comes, LinesOf
  <2>3. {i \in DOMAIN lists[c] : lists[c][i] = l} = {}
    BY <2>2, <1>2
  <2> QED BY <2>3, FS_EmptySet
<1>3. ListInv => NothingLost
  BY <1>1, <1>2 DEF NothingLost
<1> QED BY <1>3, ListInvariant, PTL

(* Of two lines that match an object only one can be preferred. *)
LEMMA PreferredOnce ==
  ASSUME NEW c \in Class, NEW i \in Nat, NEW j \in Nat,
         read[i].path \in Path(c), read[j].path \in Path(c),
         Preferred(i, j), Preferred(j, i)
  PROVE  i = j
<1> DEFINE a == read[i].path
           b == read[j].path
<1>0. DOMAIN a = 1..Width[c] /\ DOMAIN b = 1..Width[c] /\ Width[c] \in Nat
  BY PathNat, WidthNat
<1>1. \/ \E k \in 1..Width[c] : a[k] # Star /\ b[k] = Star /\ \A m \in 1..(k - 1) : a[m] = b[m]
      \/ a = b /\ i >= j
  BY <1>0 DEF Preferred
<1>2. \/ \E k \in 1..Width[c] : b[k] # Star /\ a[k] = Star /\ \A m \in 1..(k - 1) : b[m] = a[m]
      \/ b = a /\ j >= i
  BY <1>0 DEF Preferred
<1> HIDE DEF a, b
<1>3. CASE a = b
  BY <1>3, <1>1, <1>2
<1>4. CASE a # b
  <2>1. PICK k \in 1..Width[c] : a[k] # Star /\ b[k] = Star /\ \A m \in 1..(k - 1) : a[m] = b[m]
    BY <1>4, <1>1
  <2>2. PICK h \in 1..Width[c] : b[h] # Star /\ a[h] = Star /\ \A m \in 1..(h - 1) : b[m] = a[m]
    BY <1>4, <1>2
  <2>3. CASE k < h
    <3>1. k \in 1..(h - 1)
      BY <2>3, <1>0
    <3> QED BY <3>1, <2>1, <2>2
  <2>4. CASE h < k
    <3>1. h \in 1..(k - 1)
      BY <2>4, <1>0
    <3> QED BY <3>1, <2>1, <2>2
  <2>5. CASE h = k
    BY <2>5, <2>1, <2>2
  <2> QED BY <2>3, <2>4, <2>5, <1>0
<1> QED BY <1>3, <1>4

(* compute_sql_context answers with the label of the most specific line of   *)
(* the file that matches, whatever the order of the lines, although nothing  *)
(* in the code compares how specific two patterns are.                       *)
THEOREM FirstMatchIsBest == Spec => []MostSpecificWins
<1>1. ASSUME ListInv, NEW c \in Class, NEW obj \in [1..Width[c] -> Name]
      PROVE  ComputeSqlContext(lists[c], obj) = ReferenceLabel(c, obj)
  <2>1. PICK src : Comes(lists[c], read, c, src)
    BY <1>1 DEF ListInv
  <2> DEFINE list  == lists[c]
             hits  == {i \in DOMAIN list : Matches(list[i], obj)}
             lines == {i \in DOMAIN read : read[i].class = c /\ Matches(read[i], obj)}
  <2>2. /\ list \in Seq(Entry) /\ read \in Seq(Line)
        /\ DOMAIN list = 1..Len(list) /\ Len(list) \in Nat
        /\ DOMAIN read = 1..Len(read) /\ Len(read) \in Nat
    BY <1>1 DEF ListInv, TypeOK
  <2>3. \A i \in hits : src[i] \in lines
    BY <2>1 DEF Comes, LinesOf
  <2>4. \A k \in lines : \E i \in hits : src[i] = k
    BY <2>1 DEF Comes, LinesOf
  <2>5. CASE hits = {}
    <3>1. lines = {}
      BY <2>5, <2>4
    <3> QED BY <3>1, <2>5 DEF ComputeSqlContext, ReferenceLabel
  <2>6. CASE hits # {}
    <3>1. hits \in SUBSET Nat
      BY <2>2
    <3>2. PICK i0 \in hits : \A j \in hits : i0 <= j
      BY <3>1, <2>6, NatMin
    <3>3. \A i \in hits : (\A j \in hits : i <= j) => i = i0
      BY <3>1, <3>2
    <3>4. ComputeSqlContext(list, obj) = list[i0].label
      BY <3>2, <3>3, <2>6 DEF ComputeSqlContext
    <3>5. src[i0] \in lines /\ list[i0] = read[src[i0]]
      BY <2>1, <2>3, <3>2 DEF Comes
    <3>6. \A i \in DOMAIN list : list[i].path \in Path(c) /\ list[i].class = c
      <4>1. \A i \in DOMAIN list : list[i] \in Entry
        BY <2>2
      <4>2. \A i \in DOMAIN list : list[i].class = c
        BY <2>1 DEF Comes, LinesOf
      <4> QED BY <4>1, <4>2, EntryPath
    <3>7. ASSUME NEW k \in lines PROVE Preferred(src[i0], k) /\ read[k].path \in Path(c)
      <4>1. PICK i \in hits : src[i] = k
        BY <2>4
      <4>2. read[k] = list[i]
        BY <4>1, <2>1 DEF Comes
      <4> DEFINE a == list[i0].path
                 b == list[i].path
      <4>3. a \in Path(c) /\ b \in Path(c)
        BY <3>6, <3>2, <4>1
      <4>4. CASE a = b
        <5>1. i0 <= i /\ i0 \in Nat /\ i \in Nat
          BY <3>1, <3>2, <4>1
        <5>2. src[i0] \in Nat /\ src[i] \in Nat
          BY <2>2, <3>5, <2>3, <4>1
        <5>3. src[i0] >= src[i]
          BY <5>1, <5>2, <4>4, <2>1, <3>2, <4>1 DEF Comes
        <5> QED BY <5>3, <4>1, <4>2, <4>3, <4>4, <3>5 DEF Preferred
      <4>5. CASE a # b
        <5>1. i0 < i /\ i0 \in DOMAIN list /\ i \in DOMAIN list
          BY <4>5, <3>1, <3>2, <4>1
        <5>2. ~After(b, a)
          BY <5>1, <1>1 DEF ListInv, InOrder
        <5>3. After(a, b)
          BY <5>2, <4>5, <4>3, AfterTotal
        <5>4. PICK m \in 1..Width[c] : a[m] > b[m] /\ \A j \in 1..(m - 1) : a[j] = b[j]
          BY <5>3, <4>3, PathNat DEF After
        <5>5. a[m] \in {obj[m], Star} /\ b[m] \in {obj[m], Star} /\ obj[m] \in Nat
          BY <3>2, <4>1, NameAssumption DEF Matches
        <5>6. a[m] # Star /\ b[m] = Star
          BY <5>4, <5>5 DEF Star
        <5>7. DOMAIN a = 1..Width[c]
          BY <4>3, PathNat
        <5> QED BY <5>4, <5>6, <5>7, <3>5, <4>2, <4>3 DEF Preferred
      <4> QED BY <4>4, <4>5, <4>3, <4>2
    <3>8. \A k \in lines : (\A j \in lines : Preferred(k, j)) => k = src[i0]
      <4> SUFFICES ASSUME NEW k \in lines, \A j \in lines : Preferred(k, j) PROVE k = src[i0]
        OBVIOUS
      <4>1. Preferred(k, src[i0]) /\ Preferred(src[i0], k)
        BY <3>5, <3>7
      <4>2. read[k].path \in Path(c) /\ read[src[i0]].path \in Path(c)
        BY <3>5, <3>7
      <4>3. k \in Nat /\ src[i0] \in Nat
        BY <2>2, <3>5
      <4> QED BY <4>1, <4>2, <4>3, PreferredOnce
    <3>9. ReferenceLabel(c, obj) = read[src[i0]].label
      <4>1. (CHOOSE k \in lines : \A j \in lines : Preferred(k, j)) = src[i0]
        BY <3>5, <3>7, <3>8
      <4>2. lines # {}
        BY <3>5
      <4> QED BY <4>1, <4>2 DEF ReferenceLabel
    <3> QED BY <3>4, <3>5, <3>9
  <2> QED BY <2>5, <2>6
<1>2. ListInv => MostSpecificWins
  BY <1>1 DEF MostSpecificWins
<1> QED BY <1>2, ListInvariant, PTL

===============================================================================
