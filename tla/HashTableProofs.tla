---------------------------- MODULE HashTableProofs ---------------------------
(***************************************************************************)
(* For any keys, any hash function and any number of elements: the buckets *)
(* stay runs of the list, and the table implements a map.                  *)
(***************************************************************************)
EXTENDS HashTable, FiniteSetTheorems, SequenceTheorems, NaturalsInduction,
        WellFoundedInduction, TLAPS

Cells(n) == [0..(n - 1) -> [chain : Key \cup {Null}, count : Nat]]

Once(s)  == \A i, j \in 1..Len(s) : s[i] = s[j] => i = j
Elems(s) == {s[i] : i \in 1..Len(s)}

(* The elements of bucket b are the c elements from f on. *)
RunAt(s, n, b, f, c) == \A i \in 1..Len(s) : Bucket(s[i], n) = b <=> f <= i /\ i < f + c

(* What a bucket remembers of its run. *)
Run(s, n, b, e) ==
  \/ e.count = 0 /\ e.chain = Null /\ \A i \in 1..Len(s) : Bucket(s[i], n) # b
  \/ /\ e.count > 0
     /\ \E f \in 1..Len(s) : /\ e.chain = s[f] /\ f + e.count <= Len(s) + 1
                             /\ RunAt(s, n, b, f, e.count)

(* A table of n buckets over the list s. *)
Good(s, h, n) ==
  /\ s \in Seq(Key) /\ n \in Nat \ {0} /\ h \in Cells(n) /\ Once(s)
  /\ \A b \in 0..(n - 1) : Run(s, n, b, h[b])

(* No table at all, or one over a list that is not empty. *)
Table(s, h, n) ==
  \/ n = 0 /\ s = << >> /\ h = << >>
  \/ s # << >> /\ Good(s, h, n)

(* The inductive invariant.  Runs says the same with cardinalities; here the  *)
(* length of a run is what its bucket counts.                                 *)
TableInv ==
  /\ data \in [Key -> Value \cup {Null}] /\ freed \subseteq Key
  /\ Table(list, ht, htsize)

-------------------------------------------------------------------------------
(* Induction along the list, in a first-order form. *)

LEMMA NatMin ==
  ASSUME NEW T \in SUBSET Nat, T # {}
  PROVE  \E x \in T : \A y \in T : x <= y
<1> DEFINE R == {ss \in Nat \X Nat : ss[1] < ss[2]}
<1>1. IsWellFoundedOn(R, Nat)
  BY NatLessThanWellFounded DEF OpToRel
<1>2. \A x, y \in Nat : y < x => <<y, x>> \in R
  OBVIOUS
<1> HIDE DEF R
<1>3. PICK x \in T : \A y \in T : ~(<<y, x>> \in R)
  BY <1>1, WFMin
<1>4. \A y \in T : x \in Nat /\ y \in Nat /\ ~(y < x)
  BY <1>2, <1>3
<1>5. \A y \in T : x <= y
  BY <1>4
<1> QED BY <1>5

LEMMA UpTo ==
  ASSUME NEW a \in Nat, NEW b \in Nat, NEW T,
         a \in T, \A i \in a..b : i \in T /\ i + 1 \in a..b => i + 1 \in T
  PROVE  \A i \in a..b : i \in T
<1>1. SUFFICES ASSUME NEW k \in a..b, k \notin T
               PROVE  FALSE
  OBVIOUS
<1> DEFINE U == {i \in a..b : i \notin T}
<1>2. U \in SUBSET Nat /\ U # {}
  BY <1>1
<1>3. PICK x \in U : \A y \in U : x <= y
  BY <1>2, NatMin
<1>4. x \in a..b /\ x \notin T /\ x # a
  BY <1>3
<1>5. x - 1 \in a..b /\ ~(x <= x - 1)
  BY <1>4
<1>6. x - 1 \notin U
  BY <1>3, <1>5
<1>7. x - 1 \in T
  BY <1>5, <1>6
<1>8. (x - 1) + 1 = x
  BY <1>4
<1> QED BY <1>4, <1>5, <1>7, <1>8


-------------------------------------------------------------------------------
(* An element enters or leaves the list. *)

LEMMA BucketIn ==
  ASSUME NEW k \in Key, NEW n \in Nat \ {0}
  PROVE  Bucket(k, n) \in 0..(n - 1)
<1>1. HashOf[k] \in Int
  BY HashAssumption
<1> QED BY <1>1 DEF Bucket

LEMMA ListFacts ==
  ASSUME NEW s \in Seq(Key)
  PROVE  Len(s) \in Nat /\ DOMAIN s = 1..Len(s) /\ \A i \in 1..Len(s) : s[i] \in Key
OBVIOUS

(* t is s with k put in at position at. *)
Grown(s, t, at, k) ==
  /\ t \in Seq(Key) /\ Len(t) = Len(s) + 1 /\ t[at] = k
  /\ \A i \in 1..(at - 1) : t[i] = s[i]
  /\ \A i \in (at + 1)..(Len(s) + 1) : t[i] = s[i - 1]

(* t is s without position at. *)
Shrunk(s, t, at) ==
  /\ t \in Seq(Key) /\ Len(t) = Len(s) - 1
  /\ \A i \in 1..(at - 1) : t[i] = s[i]
  /\ \A i \in at..(Len(s) - 1) : t[i] = s[i + 1]

LEMMA PutIn ==
  ASSUME NEW s \in Seq(Key), NEW k \in Key, NEW at \in 1..(Len(s) + 1)
  PROVE  Grown(s, SubSeq(s, 1, at - 1) \o <<k>> \o SubSeq(s, at, Len(s)), at, k)
<1> DEFINE a == SubSeq(s, 1, at - 1)
           b == SubSeq(s, at, Len(s))
           u == a \o <<k>>
           t == u \o b
<1>1. Len(s) \in Nat /\ \A i \in 1..Len(s) : s[i] \in Key
  BY ListFacts
<1>2. at \in Nat /\ 1 <= at /\ at <= Len(s) + 1
  BY <1>1
<1>3. a \in Seq(Key) /\ Len(a) = at - 1 /\ \A i \in 1..(at - 1) : a[i] = s[i]
  BY <1>1, <1>2
<1>4. b \in Seq(Key) /\ Len(b) = Len(s) - at + 1 /\ \A i \in 1..(Len(s) - at + 1) : b[i] = s[at + i - 1]
  <2>1. \A i \in at..Len(s) : s[i] \in Key
    BY <1>1, <1>2
  <2>2. at \in Int /\ Len(s) \in Int
    BY <1>1, <1>2
  <2>3. /\ b \in Seq(Key) /\ Len(b) = IF at <= Len(s) THEN Len(s) - at + 1 ELSE 0
        /\ \A i \in 1..(Len(s) - at + 1) : b[i] = s[at + i - 1]
    BY <2>1, <2>2, SubSeqProperties
  <2> HIDE DEF b
  <2> QED BY <1>1, <1>2, <2>3
<1>5. <<k>> \in Seq(Key) /\ Len(<<k>>) = 1 /\ <<k>>[1] = k
  OBVIOUS
<1> HIDE DEF a, b
<1>6. /\ u \in Seq(Key) /\ Len(u) = at
      /\ \A i \in 1..at : u[i] = IF i <= at - 1 THEN a[i] ELSE <<k>>[i - (at - 1)]
  <2>1. /\ u \in Seq(Key) /\ Len(u) = Len(a) + 1
        /\ \A i \in 1..(Len(a) + 1) : u[i] = IF i <= Len(a) THEN a[i] ELSE <<k>>[i - Len(a)]
    BY <1>3, <1>5, ConcatProperties
  <2> HIDE DEF u
  <2>2. Len(a) + 1 = at
    BY <1>2, <1>3
  <2> QED BY <1>3, <2>1, <2>2
<1>7. u[at] = k /\ \A i \in 1..(at - 1) : u[i] = s[i]
  <2> HIDE DEF u
  <2>1. at \in 1..at /\ ~(at <= at - 1) /\ at - (at - 1) = 1
    BY <1>2
  <2>2. u[at] = k
    BY <1>5, <1>6, <2>1
  <2>3. \A i \in 1..(at - 1) : i \in 1..at /\ i <= at - 1
    BY <1>2
  <2> QED BY <1>3, <1>6, <2>2, <2>3
<1> HIDE DEF u
<1>8. /\ t \in Seq(Key) /\ Len(t) = Len(s) + 1
      /\ \A i \in 1..(Len(s) + 1) : t[i] = IF i <= at THEN u[i] ELSE b[i - at]
  <2>1. /\ t \in Seq(Key) /\ Len(t) = Len(u) + Len(b)
        /\ \A i \in 1..(Len(u) + Len(b)) : t[i] = IF i <= Len(u) THEN u[i] ELSE b[i - Len(u)]
    BY <1>4, <1>6, ConcatProperties
  <2> HIDE DEF t
  <2>2. Len(u) + Len(b) = Len(s) + 1
    BY <1>1, <1>2, <1>4, <1>6
  <2> QED BY <1>6, <2>1, <2>2
<1> HIDE DEF t
<1>9. t[at] = k /\ \A i \in 1..(at - 1) : t[i] = s[i]
  <2>1. at \in 1..(Len(s) + 1) /\ \A i \in 1..(at - 1) : i \in 1..(Len(s) + 1) /\ i <= at
    BY <1>1, <1>2
  <2> QED BY <1>7, <1>8, <2>1, <1>2
<1>10. ASSUME NEW i \in (at + 1)..(Len(s) + 1)
       PROVE  t[i] = s[i - 1]
  <2>1. i \in 1..(Len(s) + 1) /\ ~(i <= at) /\ i - at \in 1..(Len(s) - at + 1) /\ at + (i - at) - 1 = i - 1
    BY <1>1, <1>2
  <2>2. t[i] = b[i - at]
    BY <1>8, <2>1
  <2> QED BY <1>4, <2>1, <2>2
<1>11. t = SubSeq(s, 1, at - 1) \o <<k>> \o SubSeq(s, at, Len(s))
  BY DEF t, u, a, b
<1> QED BY <1>8, <1>9, <1>10, <1>11 DEF Grown

LEMMA TakenOut ==
  ASSUME NEW s \in Seq(Key), NEW at \in 1..Len(s)
  PROVE  Shrunk(s, SubSeq(s, 1, at - 1) \o SubSeq(s, at + 1, Len(s)), at)
<1> DEFINE a == SubSeq(s, 1, at - 1)
           b == SubSeq(s, at + 1, Len(s))
           t == a \o b
<1>1. Len(s) \in Nat /\ \A i \in 1..Len(s) : s[i] \in Key
  BY ListFacts
<1>2. at \in Nat /\ 1 <= at /\ at <= Len(s)
  BY <1>1
<1>3. a \in Seq(Key) /\ Len(a) = at - 1 /\ \A i \in 1..(at - 1) : a[i] = s[i]
  BY <1>1, <1>2
<1>4. b \in Seq(Key) /\ Len(b) = Len(s) - at /\ \A i \in 1..(Len(s) - at) : b[i] = s[at + i]
  <2>1. \A i \in (at + 1)..Len(s) : s[i] \in Key
    BY <1>1, <1>2
  <2>2. at + 1 \in Int /\ Len(s) \in Int
    BY <1>1, <1>2
  <2>3. /\ b \in Seq(Key) /\ Len(b) = IF at + 1 <= Len(s) THEN Len(s) - (at + 1) + 1 ELSE 0
        /\ \A i \in 1..(Len(s) - (at + 1) + 1) : b[i] = s[(at + 1) + i - 1]
    BY <2>1, <2>2, SubSeqProperties
  <2> HIDE DEF b
  <2>4. Len(b) = Len(s) - at /\ Len(s) - (at + 1) + 1 = Len(s) - at
    BY <1>1, <1>2, <2>3
  <2>5. \A i \in 1..(Len(s) - at) : (at + 1) + i - 1 = at + i
    BY <1>1, <1>2
  <2> QED BY <2>3, <2>4, <2>5
<1> HIDE DEF a, b
<1>5. /\ t \in Seq(Key) /\ Len(t) = Len(s) - 1
      /\ \A i \in 1..(Len(s) - 1) : t[i] = IF i <= at - 1 THEN a[i] ELSE b[i - (at - 1)]
  <2>1. /\ t \in Seq(Key) /\ Len(t) = Len(a) + Len(b)
        /\ \A i \in 1..(Len(a) + Len(b)) : t[i] = IF i <= Len(a) THEN a[i] ELSE b[i - Len(a)]
    BY <1>3, <1>4, ConcatProperties
  <2> HIDE DEF t
  <2>2. Len(a) + Len(b) = Len(s) - 1
    BY <1>1, <1>2, <1>3, <1>4
  <2> QED BY <1>3, <2>1, <2>2
<1> HIDE DEF t
<1>6. ASSUME NEW i \in 1..(at - 1) PROVE t[i] = s[i]
  <2>1. i \in 1..(Len(s) - 1) /\ i <= at - 1
    BY <1>1, <1>2
  <2> QED BY <1>3, <1>5, <2>1
<1>7. ASSUME NEW i \in at..(Len(s) - 1) PROVE t[i] = s[i + 1]
  <2>1. i \in 1..(Len(s) - 1) /\ ~(i <= at - 1) /\ i - (at - 1) \in 1..(Len(s) - at) /\ at + (i - (at - 1)) = i + 1
    BY <1>1, <1>2
  <2>2. t[i] = b[i - (at - 1)]
    BY <1>5, <2>1
  <2> QED BY <1>4, <2>1, <2>2
<1>8. t = SubSeq(s, 1, at - 1) \o SubSeq(s, at + 1, Len(s))
  BY DEF t, a, b
<1> QED BY <1>5, <1>6, <1>7, <1>8 DEF Shrunk

LEMMA GrownAt ==
  ASSUME NEW s \in Seq(Key), NEW t, NEW k \in Key, NEW at \in 1..(Len(s) + 1), Grown(s, t, at, k),
         NEW j \in 1..Len(t)
  PROVE  \/ j = at /\ t[j] = k
         \/ j < at /\ j \in 1..Len(s) /\ t[j] = s[j]
         \/ j > at /\ j - 1 \in 1..Len(s) /\ t[j] = s[j - 1]
<1>1. Len(s) \in Nat
  BY ListFacts
<1>2. j \in 1..(Len(s) + 1)
  BY DEF Grown
<1>3. CASE j = at
  BY <1>3 DEF Grown
<1>4. CASE j < at
  <2>1. j \in 1..(at - 1) /\ j \in 1..Len(s)
    BY <1>1, <1>2, <1>4
  <2> QED BY <1>4, <2>1 DEF Grown
<1>5. CASE j > at
  <2>1. j \in (at + 1)..(Len(s) + 1) /\ j - 1 \in 1..Len(s)
    BY <1>1, <1>2, <1>5
  <2> QED BY <1>5, <2>1 DEF Grown
<1> QED BY <1>1, <1>2, <1>3, <1>4, <1>5

(* Where position i of the old list is in the new one. *)
LEMMA GrownFrom ==
  ASSUME NEW s \in Seq(Key), NEW t, NEW k \in Key, NEW at \in 1..(Len(s) + 1), Grown(s, t, at, k),
         NEW i \in 1..Len(s)
  PROVE  /\ i < at => i \in 1..Len(t) /\ t[i] = s[i]
         /\ i >= at => i + 1 \in 1..Len(t) /\ t[i + 1] = s[i]
<1>1. Len(s) \in Nat /\ Len(t) = Len(s) + 1
  BY ListFacts DEF Grown
<1>2. ASSUME i < at PROVE i \in 1..Len(t) /\ t[i] = s[i]
  <2>1. i \in 1..(at - 1) /\ i \in 1..Len(t)
    BY <1>1, <1>2
  <2> QED BY <2>1 DEF Grown
<1>3. ASSUME i >= at PROVE i + 1 \in 1..Len(t) /\ t[i + 1] = s[i]
  <2>1. i + 1 \in (at + 1)..(Len(s) + 1) /\ i + 1 \in 1..Len(t) /\ (i + 1) - 1 = i
    BY <1>1, <1>3
  <2>2. t[i + 1] = s[(i + 1) - 1]
    BY <2>1 DEF Grown
  <2> QED BY <2>1, <2>2
<1> QED BY <1>2, <1>3

LEMMA GrownElems ==
  ASSUME NEW s \in Seq(Key), NEW t, NEW k \in Key, NEW at \in 1..(Len(s) + 1), Grown(s, t, at, k)
  PROVE  \A x : x \in Elems(t) <=> x = k \/ x \in Elems(s)
<1>1. Len(s) \in Nat /\ Len(t) = Len(s) + 1 /\ t[at] = k
  BY ListFacts DEF Grown
<1>2. ASSUME NEW x, x \in Elems(t) PROVE x = k \/ x \in Elems(s)
  <2>1. PICK j \in 1..Len(t) : x = t[j]
    BY <1>2 DEF Elems
  <2>2. t[j] = k \/ \E i \in 1..Len(s) : t[j] = s[i]
    BY GrownAt
  <2> QED BY <2>1, <2>2 DEF Elems
<1>3. k \in Elems(t)
  BY <1>1 DEF Elems
<1>4. ASSUME NEW x, x \in Elems(s) PROVE x \in Elems(t)
  <2>1. PICK i \in 1..Len(s) : x = s[i]
    BY <1>4 DEF Elems
  <2>2. i < at \/ i >= at
    BY <1>1
  <2>3. \E j \in 1..Len(t) : t[j] = s[i]
    BY <2>2, GrownFrom
  <2> QED BY <2>1, <2>3 DEF Elems
<1> QED BY <1>2, <1>3, <1>4

LEMMA GrownOnce ==
  ASSUME NEW s \in Seq(Key), NEW t, NEW k \in Key, NEW at \in 1..(Len(s) + 1), Grown(s, t, at, k),
         Once(s), k \notin Elems(s)
  PROVE  Once(t)
<1>1. Len(s) \in Nat /\ Len(t) \in Nat /\ at \in Nat
  BY ListFacts DEF Grown
<1>2. \A i \in 1..Len(s) : s[i] # k
  BY DEF Elems
<1>3. SUFFICES ASSUME NEW i \in 1..Len(t), NEW j \in 1..Len(t), t[i] = t[j] PROVE i = j
  BY DEF Once
<1>4. \/ i = at /\ t[i] = k
      \/ i < at /\ i \in 1..Len(s) /\ t[i] = s[i]
      \/ i > at /\ i - 1 \in 1..Len(s) /\ t[i] = s[i - 1]
  BY GrownAt
<1>5. \/ j = at /\ t[j] = k
      \/ j < at /\ j \in 1..Len(s) /\ t[j] = s[j]
      \/ j > at /\ j - 1 \in 1..Len(s) /\ t[j] = s[j - 1]
  BY GrownAt
<1>6. CASE i = at /\ t[i] = k
  BY <1>1, <1>2, <1>3, <1>5, <1>6
<1>7. CASE i < at /\ i \in 1..Len(s) /\ t[i] = s[i]
  <2>1. CASE j < at /\ j \in 1..Len(s) /\ t[j] = s[j]
    BY <1>3, <1>7, <2>1 DEF Once
  <2>2. CASE j > at /\ j - 1 \in 1..Len(s) /\ t[j] = s[j - 1]
    <3>1. i = j - 1
      BY <1>3, <1>7, <2>2 DEF Once
    <3> QED BY <1>1, <1>7, <2>2, <3>1
  <2> QED BY <1>2, <1>3, <1>5, <1>7, <2>1, <2>2
<1>8. CASE i > at /\ i - 1 \in 1..Len(s) /\ t[i] = s[i - 1]
  <2>1. CASE j < at /\ j \in 1..Len(s) /\ t[j] = s[j]
    <3>1. i - 1 = j
      BY <1>3, <1>8, <2>1 DEF Once
    <3> QED BY <1>1, <1>8, <2>1, <3>1
  <2>2. CASE j > at /\ j - 1 \in 1..Len(s) /\ t[j] = s[j - 1]
    <3>1. i - 1 = j - 1
      BY <1>3, <1>8, <2>2 DEF Once
    <3> QED BY <1>1, <3>1
  <2> QED BY <1>2, <1>3, <1>5, <1>8, <2>1, <2>2
<1> QED BY <1>4, <1>6, <1>7, <1>8

(* The run of another bucket stays one: nothing is put inside it. *)
LEMMA GrownOther ==
  ASSUME NEW s \in Seq(Key), NEW t, NEW k \in Key, NEW at \in 1..(Len(s) + 1), Grown(s, t, at, k),
         NEW n \in Nat \ {0}, NEW b, NEW e, e.count \in Nat, Run(s, n, b, e),
         Bucket(k, n) # b, at = 1 \/ (at \in 1..Len(s) /\ Bucket(s[at], n) # b)
  PROVE  Run(t, n, b, e)
<1>1. Len(s) \in Nat /\ Len(t) = Len(s) + 1 /\ at \in Nat
  BY ListFacts DEF Grown
<1>2. CASE e.count = 0 /\ e.chain = Null /\ \A i \in 1..Len(s) : Bucket(s[i], n) # b
  <2>1. ASSUME NEW j \in 1..Len(t) PROVE Bucket(t[j], n) # b
    <3>1. t[j] = k \/ \E i \in 1..Len(s) : t[j] = s[i]
      BY GrownAt
    <3> QED BY <1>2, <3>1
  <2> QED BY <1>2, <2>1 DEF Run
<1>3. ASSUME NEW f \in 1..Len(s), e.count > 0, e.chain = s[f], f + e.count <= Len(s) + 1,
             RunAt(s, n, b, f, e.count)
      PROVE  Run(t, n, b, e)
  <2> DEFINE g == IF at <= f THEN f + 1 ELSE f
             c == e.count
  <2>1. g \in 1..Len(t) /\ t[g] = s[f] /\ g + c <= Len(t) + 1 /\ c \in Nat /\ c > 0
    <3>1. CASE at <= f
      <4>1. f >= at /\ g = f + 1
        BY <1>1, <3>1
      <4>2. f + 1 \in 1..Len(t) /\ t[f + 1] = s[f]
        BY <4>1, GrownFrom
      <4> QED BY <1>1, <1>3, <4>1, <4>2
    <3>2. CASE ~(at <= f)
      <4>1. f < at /\ g = f
        BY <1>1, <3>2
      <4>2. f \in 1..Len(t) /\ t[f] = s[f]
        BY <4>1, GrownFrom
      <4> QED BY <1>1, <1>3, <4>1, <4>2
    <3> QED BY <3>1, <3>2
  <2>2. at <= f \/ at >= f + c
    <3>1. CASE at = 1
      BY <3>1, <1>1
    <3>2. CASE at \in 1..Len(s) /\ Bucket(s[at], n) # b
      <4>1. ~(f <= at /\ at < f + c)
        BY <1>3, <3>2 DEF RunAt
      <4> QED BY <1>1, <1>3, <4>1
    <3> QED BY <3>1, <3>2
  <2>3. ASSUME NEW j \in 1..Len(t) PROVE Bucket(t[j], n) = b <=> g <= j /\ j < g + c
    <3>1. CASE j = at /\ t[j] = k
      <4>1. ~(g <= j /\ j < g + c)
        BY <1>1, <1>3, <2>2, <3>1
      <4> QED BY <3>1, <4>1
    <3>2. CASE j < at /\ j \in 1..Len(s) /\ t[j] = s[j]
      <4>1. Bucket(s[j], n) = b <=> f <= j /\ j < f + c
        BY <1>3, <3>2 DEF RunAt
      <4>2. (f <= j /\ j < f + c) <=> (g <= j /\ j < g + c)
        BY <1>1, <1>3, <2>2, <3>2
      <4> HIDE DEF g, c
      <4> QED BY <3>2, <4>1, <4>2
    <3>3. CASE j > at /\ j - 1 \in 1..Len(s) /\ t[j] = s[j - 1]
      <4>1. Bucket(s[j - 1], n) = b <=> f <= j - 1 /\ j - 1 < f + c
        BY <1>3, <3>3 DEF RunAt
      <4>2. (f <= j - 1 /\ j - 1 < f + c) <=> (g <= j /\ j < g + c)
        BY <1>1, <1>3, <2>2, <3>3
      <4> HIDE DEF g, c
      <4> QED BY <3>3, <4>1, <4>2
    <3> QED BY <3>1, <3>2, <3>3, GrownAt
  <2> HIDE DEF g
  <2>4. RunAt(t, n, b, g, c)
    BY <2>3 DEF RunAt
  <2> QED BY <1>3, <2>1, <2>4 DEF Run
<1> QED BY <1>2, <1>3 DEF Run

(* The element's own bucket grows at its front. *)
LEMMA GrownOwn ==
  ASSUME NEW s \in Seq(Key), NEW t, NEW k \in Key, NEW at \in 1..(Len(s) + 1), Grown(s, t, at, k),
         NEW n \in Nat \ {0}, NEW c \in Nat,
         IF c = 0 THEN \A i \in 1..Len(s) : Bucket(s[i], n) # Bucket(k, n)
         ELSE at + c <= Len(s) + 1 /\ RunAt(s, n, Bucket(k, n), at, c)
  PROVE  Run(t, n, Bucket(k, n), [chain |-> k, count |-> c + 1])
<1> DEFINE b == Bucket(k, n)
           e == [chain |-> k, count |-> c + 1]
<1> HIDE DEF b
<1>1. Len(s) \in Nat /\ Len(t) = Len(s) + 1 /\ at \in Nat /\ t[at] = k /\ at \in 1..Len(t)
  BY ListFacts DEF Grown
<1>2. e.chain = k /\ e.count = c + 1 /\ e.count > 0
  OBVIOUS
<1>3. at + (c + 1) <= Len(t) + 1
  BY <1>1
<1>4. ASSUME NEW j \in 1..Len(t) PROVE Bucket(t[j], n) = b <=> at <= j /\ j < at + (c + 1)
  <2>1. CASE j = at /\ t[j] = k
    BY <2>1, <1>1 DEF b
  <2>2. CASE j < at /\ j \in 1..Len(s) /\ t[j] = s[j]
    <3>1. CASE c = 0
      BY <1>1, <2>2, <3>1 DEF b
    <3>2. CASE c # 0
      BY <1>1, <2>2, <3>2 DEF b, RunAt
    <3> QED BY <3>1, <3>2
  <2>3. CASE j > at /\ j - 1 \in 1..Len(s) /\ t[j] = s[j - 1]
    <3>1. CASE c = 0
      BY <1>1, <2>3, <3>1 DEF b
    <3>2. CASE c # 0
      <4>1. Bucket(s[j - 1], n) = b <=> at <= j - 1 /\ j - 1 < at + c
        BY <2>3, <3>2 DEF b, RunAt
      <4>2. (at <= j - 1 /\ j - 1 < at + c) <=> (at <= j /\ j < at + (c + 1))
        BY <1>1, <2>3
      <4> QED BY <2>3, <4>1, <4>2
    <3> QED BY <3>1, <3>2
  <2> QED BY <2>1, <2>2, <2>3, GrownAt
<1> HIDE DEF e
<1>5. RunAt(t, n, b, at, e.count)
  BY <1>2, <1>4 DEF RunAt
<1>6. Run(t, n, b, e)
  BY <1>1, <1>2, <1>3, <1>5 DEF Run
<1> QED BY <1>6 DEF b, e

LEMMA IndexOf ==
  ASSUME NEW s \in Seq(Key), Once(s), NEW f \in 1..Len(s)
  PROVE  IndexIn(s, s[f]) = f
<1>1. f \in DOMAIN s /\ DOMAIN s = 1..Len(s)
  BY ListFacts
<1>2. \A i \in DOMAIN s : s[i] = s[f] => i = f
  BY <1>1 DEF Once
<1> QED BY <1>1, <1>2 DEF IndexIn

LEMMA CellFacts ==
  ASSUME NEW n \in Nat \ {0}, NEW h \in Cells(n), NEW b \in 0..(n - 1)
  PROVE  h[b].chain \in Key \cup {Null} /\ h[b].count \in Nat
BY DEF Cells

SetCell(h, b, c, m) == [h EXCEPT ![b] = [chain |-> c, count |-> m]]

LEMMA CellSet ==
  ASSUME NEW n \in Nat \ {0}, NEW h \in Cells(n), NEW b \in 0..(n - 1),
         NEW c \in Key \cup {Null}, NEW m \in Nat
  PROVE  /\ SetCell(h, b, c, m) \in Cells(n)
         /\ SetCell(h, b, c, m)[b].chain = c /\ SetCell(h, b, c, m)[b].count = m
         /\ SetCell(h, b, c, m)[b] = [chain |-> c, count |-> m]
         /\ \A d \in 0..(n - 1) : d # b => SetCell(h, b, c, m)[d] = h[d]
<1> DEFINE e == [chain |-> c, count |-> m]
<1>1. e \in [chain : Key \cup {Null}, count : Nat] /\ e.chain = c /\ e.count = m
  OBVIOUS
<1>2. SetCell(h, b, c, m) = [h EXCEPT ![b] = e]
  BY DEF SetCell
<1> HIDE DEF e
<1>3. SetCell(h, b, c, m) \in Cells(n) /\ SetCell(h, b, c, m)[b] = e
  BY <1>1, <1>2 DEF Cells
<1>4. \A d \in 0..(n - 1) : d # b => SetCell(h, b, c, m)[d] = h[d]
  BY <1>2 DEF Cells
<1> QED BY <1>1, <1>3, <1>4 DEF e

(* A non-empty run begins where the chain points, and chain is not Null. *)
LEMMA RunStart ==
  ASSUME NEW s \in Seq(Key), Once(s), NEW n \in Nat \ {0}, NEW b, NEW e,
         e.count \in Nat, Run(s, n, b, e)
  PROVE  IF e.count = 0
         THEN e.chain = Null /\ \A i \in 1..Len(s) : Bucket(s[i], n) # b
         ELSE /\ e.chain # Null /\ IndexIn(s, e.chain) \in 1..Len(s)
              /\ e.chain = s[IndexIn(s, e.chain)]
              /\ IndexIn(s, e.chain) + e.count <= Len(s) + 1
              /\ RunAt(s, n, b, IndexIn(s, e.chain), e.count)
<1>1. CASE e.count = 0
  BY <1>1 DEF Run
<1>2. CASE e.count # 0
  <2>1. PICK f \in 1..Len(s) : /\ e.chain = s[f] /\ f + e.count <= Len(s) + 1
                               /\ RunAt(s, n, b, f, e.count)
    BY <1>2 DEF Run
  <2>2. IndexIn(s, s[f]) = f
    BY IndexOf
  <2>3. s[f] # Null
    BY ListFacts, NullAssumption
  <2> QED BY <1>2, <2>1, <2>2, <2>3
<1> QED BY <1>1, <1>2

LEMMA InsertGood ==
  ASSUME NEW u, NEW n, Good(u.list, u.ht, n), NEW k \in Key, k \notin Elems(u.list)
  PROVE  /\ Good(InsertElement(u, Bucket(k, n), k).list, InsertElement(u, Bucket(k, n), k).ht, n)
         /\ InsertElement(u, Bucket(k, n), k).list # << >>
         /\ \A x : x \in Elems(InsertElement(u, Bucket(k, n), k).list) <=> x = k \/ x \in Elems(u.list)
<1> DEFINE s == u.list
           h == u.ht
           b == Bucket(k, n)
           at == IF h[b].chain = Null THEN 1 ELSE IndexIn(s, h[b].chain)
           t == SubSeq(s, 1, at - 1) \o <<k>> \o SubSeq(s, at, Len(s))
           g == SetCell(h, b, k, h[b].count + 1)
<1>0. InsertElement(u, b, k).list = t /\ InsertElement(u, b, k).ht = g
  BY DEF InsertElement, SetCell
<1>1. s \in Seq(Key) /\ n \in Nat \ {0} /\ h \in Cells(n) /\ Once(s) /\ \A d \in 0..(n - 1) : Run(s, n, d, h[d])
  BY DEF Good
<1>2. b \in 0..(n - 1)
  BY <1>1, BucketIn
<1>3. h[b].count \in Nat /\ Len(s) \in Nat
  BY <1>1, <1>2, CellFacts, ListFacts
<1>4. g \in Cells(n) /\ g[b] = [chain |-> k, count |-> h[b].count + 1] /\ \A d \in 0..(n - 1) : d # b => g[d] = h[d]
  <2>1. h[b].count + 1 \in Nat /\ k \in Key \cup {Null}
    BY <1>3
  <2> DEFINE m == h[b].count + 1
  <2>2. h \in Cells(n) /\ n \in Nat \ {0} /\ b \in 0..(n - 1) /\ k \in Key \cup {Null} /\ m \in Nat
    BY <1>1, <1>2, <2>1
  <2> HIDE DEF b, h, g, m
  <2>3. /\ SetCell(h, b, k, m) \in Cells(n)
        /\ SetCell(h, b, k, m)[b].chain = k /\ SetCell(h, b, k, m)[b].count = m
        /\ SetCell(h, b, k, m)[b] = [chain |-> k, count |-> m]
        /\ \A d \in 0..(n - 1) : d # b => SetCell(h, b, k, m)[d] = h[d]
    BY ONLY <2>2, CellSet
  <2>4. g = SetCell(h, b, k, m)
    BY DEF g, m
  <2> QED BY <2>3, <2>4 DEF m
<1> HIDE DEF g, t, s, h
<1>5. IF h[b].count = 0
      THEN h[b].chain = Null /\ \A i \in 1..Len(s) : Bucket(s[i], n) # b
      ELSE /\ h[b].chain # Null /\ IndexIn(s, h[b].chain) \in 1..Len(s)
           /\ h[b].chain = s[IndexIn(s, h[b].chain)]
           /\ IndexIn(s, h[b].chain) + h[b].count <= Len(s) + 1
           /\ RunAt(s, n, b, IndexIn(s, h[b].chain), h[b].count)
  <2>1. Run(s, n, b, h[b])
    BY <1>1, <1>2
  <2> HIDE DEF b
  <2> QED BY <1>1, <1>3, <2>1, RunStart
<1>6. /\ at \in 1..(Len(s) + 1)
      /\ IF h[b].count = 0 THEN at = 1 /\ \A i \in 1..Len(s) : Bucket(s[i], n) # b
         ELSE at \in 1..Len(s) /\ at + h[b].count <= Len(s) + 1 /\ RunAt(s, n, b, at, h[b].count)
  <2>1. CASE h[b].count = 0
    BY <1>3, <1>5, <2>1
  <2>2. CASE h[b].count # 0
    <3>1. at = IndexIn(s, h[b].chain) /\ IndexIn(s, h[b].chain) \in 1..Len(s)
      BY <1>5, <2>2
    <3>2. IndexIn(s, h[b].chain) \in 1..(Len(s) + 1)
      BY <1>3, <3>1
    <3> QED BY <1>5, <2>2, <3>1, <3>2
  <2> QED BY <2>1, <2>2
<1> HIDE DEF at
<1>7. Grown(s, t, at, k)
  BY <1>1, <1>6, PutIn DEF t
<1>8. t \in Seq(Key) /\ Len(t) = Len(s) + 1
  BY <1>7 DEF Grown
<1>9. Once(t)
  <2>1. k \notin Elems(s)
    BY DEF s
  <2> QED BY <1>1, <1>6, <1>7, <2>1, GrownOnce
<1>10. ASSUME NEW d \in 0..(n - 1) PROVE Run(t, n, d, g[d])
  <2>1. CASE d = b
    <3>1. IF h[b].count = 0 THEN \A i \in 1..Len(s) : Bucket(s[i], n) # Bucket(k, n)
          ELSE at + h[b].count <= Len(s) + 1 /\ RunAt(s, n, Bucket(k, n), at, h[b].count)
      BY <1>6
    <3>2. Run(t, n, Bucket(k, n), [chain |-> k, count |-> h[b].count + 1])
      <4> DEFINE c == h[b].count
      <4>1. c \in Nat /\ IF c = 0 THEN \A i \in 1..Len(s) : Bucket(s[i], n) # Bucket(k, n)
                         ELSE at + c <= Len(s) + 1 /\ RunAt(s, n, Bucket(k, n), at, c)
        BY <1>3, <3>1
      <4> HIDE DEF c
      <4>2. Run(t, n, Bucket(k, n), [chain |-> k, count |-> c + 1])
        BY <1>1, <1>6, <1>7, <4>1, GrownOwn
      <4> QED BY <4>2 DEF c
    <3> QED BY <1>4, <2>1, <3>2
  <2>2. CASE d # b
    <3>1. g[d] = h[d] /\ Run(s, n, d, h[d]) /\ h[d].count \in Nat
      BY <1>1, <1>4, <2>2, CellFacts
    <3>2. at = 1 \/ (at \in 1..Len(s) /\ Bucket(s[at], n) # d)
      <4>1. CASE h[b].count = 0
        <5>1. at = 1
          BY <1>6, <4>1
        <5> QED BY <5>1
      <4>2. CASE h[b].count # 0
        <5>1. at \in 1..Len(s) /\ RunAt(s, n, b, at, h[b].count) /\ at <= at /\ at < at + h[b].count
          BY <1>3, <1>6, <4>2
        <5>2. Bucket(s[at], n) = b
          BY <5>1 DEF RunAt
        <5> QED BY <2>2, <5>1, <5>2
      <4> QED BY <4>1, <4>2
    <3>3. Bucket(k, n) # d
      BY <2>2
    <3>4. Run(t, n, d, h[d])
      BY <1>1, <1>6, <1>7, <3>1, <3>2, <3>3, GrownOther
    <3> QED BY <3>1, <3>4
  <2> QED BY <2>1, <2>2
<1>11. Good(t, g, n)
  BY <1>1, <1>4, <1>8, <1>9, <1>10 DEF Good
<1>12. t # << >>
  <2>1. Len(t) # 0
    BY <1>3, <1>8
  <2> QED BY <2>1
<1>13. \A x : x \in Elems(t) <=> x = k \/ x \in Elems(s)
  BY <1>1, <1>6, <1>7, GrownElems
<1> QED BY <1>0, <1>11, <1>12, <1>13 DEF s

LEMMA ShrunkAt ==
  ASSUME NEW s \in Seq(Key), NEW t, NEW at \in 1..Len(s), Shrunk(s, t, at), NEW j \in 1..Len(t)
  PROVE  \/ j < at /\ j \in 1..Len(s) /\ t[j] = s[j]
         \/ j >= at /\ j + 1 \in 1..Len(s) /\ t[j] = s[j + 1]
<1>1. Len(s) \in Nat /\ j \in 1..(Len(s) - 1)
  BY ListFacts DEF Shrunk
<1>2. CASE j < at
  <2>1. j \in 1..(at - 1) /\ j \in 1..Len(s)
    BY <1>1, <1>2
  <2> QED BY <1>2, <2>1 DEF Shrunk
<1>3. CASE j >= at
  <2>1. j \in at..(Len(s) - 1) /\ j + 1 \in 1..Len(s)
    BY <1>1, <1>3
  <2> QED BY <1>3, <2>1 DEF Shrunk
<1> QED BY <1>1, <1>2, <1>3

LEMMA ShrunkFrom ==
  ASSUME NEW s \in Seq(Key), NEW t, NEW at \in 1..Len(s), Shrunk(s, t, at), NEW i \in 1..Len(s)
  PROVE  /\ i < at => i \in 1..Len(t) /\ t[i] = s[i]
         /\ i > at => i - 1 \in 1..Len(t) /\ t[i - 1] = s[i]
<1>1. Len(s) \in Nat /\ Len(t) = Len(s) - 1
  BY ListFacts DEF Shrunk
<1>2. ASSUME i < at PROVE i \in 1..Len(t) /\ t[i] = s[i]
  <2>1. i \in 1..(at - 1) /\ i \in 1..Len(t)
    BY <1>1, <1>2
  <2> QED BY <2>1 DEF Shrunk
<1>3. ASSUME i > at PROVE i - 1 \in 1..Len(t) /\ t[i - 1] = s[i]
  <2>1. i - 1 \in at..(Len(s) - 1) /\ i - 1 \in 1..Len(t) /\ (i - 1) + 1 = i
    BY <1>1, <1>3
  <2>2. t[i - 1] = s[(i - 1) + 1]
    BY <2>1 DEF Shrunk
  <2> QED BY <2>1, <2>2
<1> QED BY <1>2, <1>3

LEMMA ShrunkElems ==
  ASSUME NEW s \in Seq(Key), NEW t, NEW at \in 1..Len(s), Shrunk(s, t, at), Once(s)
  PROVE  \A x : x \in Elems(t) <=> x # s[at] /\ x \in Elems(s)
<1>1. Len(s) \in Nat /\ at \in Nat
  BY ListFacts
<1>2. ASSUME NEW x, x \in Elems(t) PROVE x # s[at] /\ x \in Elems(s)
  <2>1. PICK j \in 1..Len(t) : x = t[j]
    BY <1>2 DEF Elems
  <2>2. \E i \in 1..Len(s) : i # at /\ t[j] = s[i]
    <3>1. CASE j < at /\ j \in 1..Len(s) /\ t[j] = s[j]
      BY <3>1, <1>1
    <3>2. CASE j >= at /\ j + 1 \in 1..Len(s) /\ t[j] = s[j + 1]
      <4>1. j + 1 # at
        BY <3>2, <1>1
      <4> QED BY <3>2, <4>1
    <3> QED BY <3>1, <3>2, ShrunkAt
  <2> QED BY <2>1, <2>2 DEF Elems, Once
<1>3. ASSUME NEW x, x # s[at], x \in Elems(s) PROVE x \in Elems(t)
  <2>1. PICK i \in 1..Len(s) : x = s[i]
    BY <1>3 DEF Elems
  <2>2. i < at \/ i > at
    BY <1>1, <1>3, <2>1
  <2>3. \E j \in 1..Len(t) : t[j] = s[i]
    BY <2>2, ShrunkFrom
  <2> QED BY <2>1, <2>3 DEF Elems
<1> QED BY <1>2, <1>3

LEMMA ShrunkOnce ==
  ASSUME NEW s \in Seq(Key), NEW t, NEW at \in 1..Len(s), Shrunk(s, t, at), Once(s)
  PROVE  Once(t)
<1>1. Len(s) \in Nat /\ Len(t) \in Nat /\ at \in Nat
  BY ListFacts DEF Shrunk
<1>2. SUFFICES ASSUME NEW i \in 1..Len(t), NEW j \in 1..Len(t), t[i] = t[j] PROVE i = j
  BY DEF Once
<1>3. \/ i < at /\ i \in 1..Len(s) /\ t[i] = s[i]
      \/ i >= at /\ i + 1 \in 1..Len(s) /\ t[i] = s[i + 1]
  BY ShrunkAt
<1>4. \/ j < at /\ j \in 1..Len(s) /\ t[j] = s[j]
      \/ j >= at /\ j + 1 \in 1..Len(s) /\ t[j] = s[j + 1]
  BY ShrunkAt
<1>5. CASE i < at /\ i \in 1..Len(s) /\ t[i] = s[i]
  <2>1. CASE j < at /\ j \in 1..Len(s) /\ t[j] = s[j]
    BY <1>2, <1>5, <2>1 DEF Once
  <2>2. CASE j >= at /\ j + 1 \in 1..Len(s) /\ t[j] = s[j + 1]
    <3>1. i = j + 1
      BY <1>2, <1>5, <2>2 DEF Once
    <3> QED BY <1>1, <1>5, <2>2, <3>1
  <2> QED BY <1>4, <2>1, <2>2
<1>6. CASE i >= at /\ i + 1 \in 1..Len(s) /\ t[i] = s[i + 1]
  <2>1. CASE j < at /\ j \in 1..Len(s) /\ t[j] = s[j]
    <3>1. i + 1 = j
      BY <1>2, <1>6, <2>1 DEF Once
    <3> QED BY <1>1, <1>6, <2>1, <3>1
  <2>2. CASE j >= at /\ j + 1 \in 1..Len(s) /\ t[j] = s[j + 1]
    <3>1. i + 1 = j + 1
      BY <1>2, <1>6, <2>2 DEF Once
    <3> QED BY <1>1, <3>1
  <2> QED BY <1>4, <2>1, <2>2
<1> QED BY <1>3, <1>5, <1>6

LEMMA ShrunkOther ==
  ASSUME NEW s \in Seq(Key), NEW t, NEW at \in 1..Len(s), Shrunk(s, t, at),
         NEW n \in Nat \ {0}, NEW b, NEW e, e.count \in Nat, Run(s, n, b, e),
         Bucket(s[at], n) # b
  PROVE  Run(t, n, b, e)
<1>1. Len(s) \in Nat /\ Len(t) = Len(s) - 1 /\ at \in Nat
  BY ListFacts DEF Shrunk
<1>2. CASE e.count = 0 /\ e.chain = Null /\ \A i \in 1..Len(s) : Bucket(s[i], n) # b
  <2>1. ASSUME NEW j \in 1..Len(t) PROVE Bucket(t[j], n) # b
    <3>1. \/ j \in 1..Len(s) /\ t[j] = s[j]
          \/ j + 1 \in 1..Len(s) /\ t[j] = s[j + 1]
      BY ShrunkAt
    <3> QED BY <1>2, <3>1
  <2> QED BY <1>2, <2>1 DEF Run
<1>3. ASSUME NEW f \in 1..Len(s), e.count > 0, e.chain = s[f], f + e.count <= Len(s) + 1,
             RunAt(s, n, b, f, e.count)
      PROVE  Run(t, n, b, e)
  <2> DEFINE g == IF at < f THEN f - 1 ELSE f
             c == e.count
  <2>1. at < f \/ at >= f + c
    <3>1. ~(f <= at /\ at < f + c)
      BY <1>3 DEF RunAt
    <3> QED BY <1>1, <1>3, <3>1
  <2>2. g \in 1..Len(t) /\ t[g] = s[f] /\ g + c <= Len(t) + 1 /\ c \in Nat /\ c > 0
    <3>1. CASE at < f
      <4>1. f > at /\ g = f - 1
        BY <1>1, <3>1
      <4>2. f - 1 \in 1..Len(t) /\ t[f - 1] = s[f]
        BY <4>1, ShrunkFrom
      <4> QED BY <1>1, <1>3, <4>1, <4>2
    <3>2. CASE at >= f + c
      <4>1. f < at /\ g = f
        BY <1>1, <1>3, <3>2
      <4>2. f \in 1..Len(t) /\ t[f] = s[f]
        BY <4>1, ShrunkFrom
      <4> QED BY <1>1, <1>3, <3>2, <4>1, <4>2
    <3> QED BY <2>1, <3>1, <3>2
  <2>3. ASSUME NEW j \in 1..Len(t) PROVE Bucket(t[j], n) = b <=> g <= j /\ j < g + c
    <3>1. CASE j < at /\ j \in 1..Len(s) /\ t[j] = s[j]
      <4>1. Bucket(s[j], n) = b <=> f <= j /\ j < f + c
        BY <1>3, <3>1 DEF RunAt
      <4>2. (f <= j /\ j < f + c) <=> (g <= j /\ j < g + c)
        BY <1>1, <1>3, <2>1, <3>1
      <4> HIDE DEF g, c
      <4> QED BY <3>1, <4>1, <4>2
    <3>2. CASE j >= at /\ j + 1 \in 1..Len(s) /\ t[j] = s[j + 1]
      <4>1. Bucket(s[j + 1], n) = b <=> f <= j + 1 /\ j + 1 < f + c
        BY <1>3, <3>2 DEF RunAt
      <4>2. (f <= j + 1 /\ j + 1 < f + c) <=> (g <= j /\ j < g + c)
        BY <1>1, <1>3, <2>1, <3>2
      <4> HIDE DEF g, c
      <4> QED BY <3>2, <4>1, <4>2
    <3> QED BY <3>1, <3>2, ShrunkAt
  <2> HIDE DEF g
  <2>4. RunAt(t, n, b, g, c)
    BY <2>3 DEF RunAt
  <2> QED BY <1>3, <2>2, <2>4 DEF Run
<1> QED BY <1>2, <1>3 DEF Run

(* The bucket the element leaves: its run is one shorter and begins at the    *)
(* same position, at the next element if it was the first that left.          *)
LEMMA ShrunkOwn ==
  ASSUME NEW s \in Seq(Key), NEW t, NEW at \in 1..Len(s), Shrunk(s, t, at),
         NEW n \in Nat \ {0}, NEW f \in 1..Len(s), NEW c \in Nat \ {0}, f + c <= Len(s) + 1,
         RunAt(s, n, Bucket(s[at], n), f, c), NEW e, e.count = c - 1,
         e.chain = IF c - 1 <= 0 THEN Null ELSE IF f = at THEN s[f + 1] ELSE s[f]
  PROVE  Run(t, n, Bucket(s[at], n), e)
<1> DEFINE b == Bucket(s[at], n)
<1> HIDE DEF b
<1>1. Len(s) \in Nat /\ Len(t) = Len(s) - 1 /\ at \in Nat /\ f \in Nat
  BY ListFacts DEF Shrunk
<1>2. f <= at /\ at < f + c
  BY DEF RunAt
<1>3. ASSUME NEW j \in 1..Len(t) PROVE Bucket(t[j], n) = b <=> f <= j /\ j < f + (c - 1)
  <2>1. CASE j < at /\ j \in 1..Len(s) /\ t[j] = s[j]
    <3>1. Bucket(s[j], n) = b <=> f <= j /\ j < f + c
      BY <2>1 DEF RunAt, b
    <3>2. (f <= j /\ j < f + c) <=> (f <= j /\ j < f + (c - 1))
      BY <1>1, <1>2, <2>1
    <3> QED BY <2>1, <3>1, <3>2
  <2>2. CASE j >= at /\ j + 1 \in 1..Len(s) /\ t[j] = s[j + 1]
    <3>1. Bucket(s[j + 1], n) = b <=> f <= j + 1 /\ j + 1 < f + c
      BY <2>2 DEF RunAt, b
    <3>2. (f <= j + 1 /\ j + 1 < f + c) <=> (f <= j /\ j < f + (c - 1))
      BY <1>1, <1>2, <2>2
    <3> QED BY <2>2, <3>1, <3>2
  <2> QED BY <2>1, <2>2, ShrunkAt
<1>4. CASE c = 1
  <2>1. e.count = 0 /\ e.chain = Null
    BY <1>4
  <2>2. \A j \in 1..Len(t) : Bucket(t[j], n) # b
    <3>1. ASSUME NEW j \in 1..Len(t) PROVE ~(f <= j /\ j < f + (c - 1))
      BY <1>1, <1>4
    <3> QED BY <1>3, <3>1
  <2> QED BY <2>1, <2>2 DEF Run, b
<1>5. CASE c # 1
  <2>1. e.count > 0 /\ ~(c - 1 <= 0) /\ f \in 1..Len(t) /\ f + (c - 1) <= Len(t) + 1
    BY <1>1, <1>5
  <2>2. e.chain = t[f]
    <3>1. CASE f = at
      <4>1. f + 1 \in 1..Len(s) /\ f + 1 > at /\ (f + 1) - 1 = f
        BY <1>1, <2>1, <3>1
      <4>2. t[(f + 1) - 1] = s[f + 1]
        BY <4>1, ShrunkFrom
      <4> QED BY <2>1, <3>1, <4>1, <4>2
    <3>2. CASE f # at
      <4>1. f < at
        BY <1>1, <1>2, <3>2
      <4>2. t[f] = s[f]
        BY <4>1, ShrunkFrom
      <4> QED BY <2>1, <3>2, <4>2
    <3> QED BY <3>1, <3>2
  <2>3. RunAt(t, n, b, f, e.count)
    BY <1>3 DEF RunAt
  <2>4. Run(t, n, b, e)
    BY <2>1, <2>2, <2>3 DEF Run
  <2> QED BY <2>4 DEF b
<1> QED BY <1>4, <1>5

WithoutAt(s, at) == SubSeq(s, 1, at - 1) \o SubSeq(s, at + 1, Len(s))

(* Where chain points once the element at position at has left bucket b. *)
ChainAfter(s, h, b, at) ==
  IF h[b].count - 1 <= 0 THEN Null
  ELSE IF h[b].chain # s[at] THEN h[b].chain
  ELSE IF at < Len(s) THEN s[at + 1] ELSE Null

(* The buckets after the element at position at has been removed. *)
CellsAfter(s, h, n, at) ==
  LET b == Bucket(s[at], n) IN SetCell(h, b, ChainAfter(s, h, b, at), h[b].count - 1)

LEMMA RemoveGood ==
  ASSUME NEW s, NEW h, NEW n, Good(s, h, n), NEW at \in 1..Len(s)
  PROVE  /\ Good(WithoutAt(s, at), CellsAfter(s, h, n, at), n)
         /\ Len(WithoutAt(s, at)) = Len(s) - 1
         /\ \A x : x \in Elems(WithoutAt(s, at)) <=> x # s[at] /\ x \in Elems(s)
<1> DEFINE b == Bucket(s[at], n)
           left == h[b].count - 1
           next == IF at < Len(s) THEN s[at + 1] ELSE Null
           chain == ChainAfter(s, h, b, at)
           t == WithoutAt(s, at)
<1>0. /\ b = Bucket(s[at], n) /\ left = h[b].count - 1
      /\ next = IF at < Len(s) THEN s[at + 1] ELSE Null
      /\ chain = IF left <= 0 THEN Null ELSE IF h[b].chain = s[at] THEN next ELSE h[b].chain
      /\ t = SubSeq(s, 1, at - 1) \o SubSeq(s, at + 1, Len(s))
  BY DEF ChainAfter, WithoutAt
<1> HIDE DEF b, left, next, chain, t
<1> USE <1>0
<1> DEFINE g == SetCell(h, b, chain, left)
           c == h[b].count
           f == IndexIn(s, h[b].chain)
<1>1. s \in Seq(Key) /\ n \in Nat \ {0} /\ h \in Cells(n) /\ Once(s) /\ \A d \in 0..(n - 1) : Run(s, n, d, h[d])
  BY DEF Good
<1>2. s[at] \in Key /\ b \in 0..(n - 1) /\ Len(s) \in Nat
  BY <1>1, BucketIn, ListFacts
<1>3. c \in Nat
  BY <1>1, <1>2, CellFacts
<1>4. /\ c # 0 /\ h[b].chain # Null /\ f \in 1..Len(s) /\ h[b].chain = s[f]
      /\ f + c <= Len(s) + 1 /\ RunAt(s, n, b, f, c)
  <2>1. Run(s, n, b, h[b])
    BY <1>1, <1>2
  <2>2. IF h[b].count = 0
        THEN h[b].chain = Null /\ \A i \in 1..Len(s) : Bucket(s[i], n) # b
        ELSE /\ h[b].chain # Null /\ IndexIn(s, h[b].chain) \in 1..Len(s)
             /\ h[b].chain = s[IndexIn(s, h[b].chain)]
             /\ IndexIn(s, h[b].chain) + h[b].count <= Len(s) + 1
             /\ RunAt(s, n, b, IndexIn(s, h[b].chain), h[b].count)
    BY <1>1, <1>3, <2>1, RunStart
  <2> QED BY <2>2
<1> HIDE DEF f
<1>5. h[b].chain = s[at] <=> f = at
  BY <1>1, <1>4 DEF Once
<1>6. f = at /\ c # 1 => next = s[f + 1] /\ s[f + 1] \in Key
  <2>1. SUFFICES ASSUME f = at, c # 1 PROVE next = s[f + 1] /\ s[f + 1] \in Key
    OBVIOUS
  <2>2. at < Len(s) /\ f + 1 \in 1..Len(s)
    BY <1>2, <1>3, <1>4, <2>1
  <2> QED BY <1>1, <2>1, <2>2, ListFacts
<1>7. left \in Nat /\ left = c - 1 /\ chain = IF c - 1 <= 0 THEN Null ELSE IF f = at THEN s[f + 1] ELSE s[f]
  <2>1. left \in Nat /\ left = c - 1
    BY <1>3, <1>4
  <2>2. CASE c = 1
    BY <2>1, <2>2
  <2>3. CASE c # 1
    <3>1. ~(c - 1 <= 0) /\ ~(left <= 0)
      BY <1>3, <1>4, <2>1, <2>3
    <3> HIDE DEF c
    <3> QED BY <1>4, <1>5, <1>6, <2>1, <2>3, <3>1
  <2> QED BY <2>2, <2>3
<1>8. chain \in Key \cup {Null}
  <2>1. CASE c = 1
    BY <1>7, <2>1
  <2>2. CASE c # 1
    <3>1. s[f] \in Key
      BY <1>1, <1>4, ListFacts
    <3> QED BY <1>6, <1>7, <2>2, <3>1
  <2> QED BY <2>1, <2>2
<1>9. /\ g \in Cells(n) /\ g[b].chain = chain /\ g[b].count = left
      /\ \A d \in 0..(n - 1) : d # b => g[d] = h[d]
  <2>1. h \in Cells(n) /\ n \in Nat \ {0} /\ b \in 0..(n - 1) /\ chain \in Key \cup {Null} /\ left \in Nat
    BY <1>1, <1>2, <1>7, <1>8
  <2>2. /\ SetCell(h, b, chain, left) \in Cells(n)
        /\ SetCell(h, b, chain, left)[b].chain = chain /\ SetCell(h, b, chain, left)[b].count = left
        /\ SetCell(h, b, chain, left)[b] = [chain |-> chain, count |-> left]
        /\ \A d \in 0..(n - 1) : d # b => SetCell(h, b, chain, left)[d] = h[d]
    BY ONLY <2>1, CellSet
  <2> QED BY <2>2
<1> HIDE DEF g
<1>10. Shrunk(s, t, at)
  BY <1>1, TakenOut
<1>11. t \in Seq(Key) /\ Len(t) = Len(s) - 1
  BY <1>10 DEF Shrunk
<1>12. Once(t)
  BY <1>1, <1>10, ShrunkOnce
<1>13. ASSUME NEW d \in 0..(n - 1) PROVE Run(t, n, d, g[d])
  <2>1. CASE d = b
    <3>1. c \in Nat \ {0}
      BY <1>3, <1>4
    <3> DEFINE e == g[b]
    <3>2. e.count = c - 1 /\ e.chain = IF c - 1 <= 0 THEN Null ELSE IF f = at THEN s[f + 1] ELSE s[f]
      BY <1>7, <1>9
    <3>3. RunAt(s, n, Bucket(s[at], n), f, c) /\ f + c <= Len(s) + 1 /\ f \in 1..Len(s)
      BY <1>4
    <3> HIDE DEF e, c
    <3>4. Run(t, n, Bucket(s[at], n), e)
      BY <1>1, <1>10, <3>1, <3>2, <3>3, ShrunkOwn
    <3> QED BY <2>1, <3>4 DEF e
  <2>2. CASE d # b
    <3>1. g[d] = h[d] /\ Run(s, n, d, h[d]) /\ h[d].count \in Nat
      BY <1>1, <1>9, <2>2, CellFacts
    <3>2. Bucket(s[at], n) # d
      BY <2>2
    <3>3. Run(t, n, d, h[d])
      BY <1>1, <1>10, <3>1, <3>2, ShrunkOther
    <3> QED BY <3>1, <3>3
  <2> QED BY <2>1, <2>2
<1>14. Good(t, g, n)
  BY <1>1, <1>9, <1>11, <1>12, <1>13 DEF Good
<1>15. \A x : x \in Elems(t) <=> x # s[at] /\ x \in Elems(s)
  BY <1>1, <1>10, ShrunkElems
<1>16. g = CellsAfter(s, h, n, at)
  BY DEF g, CellsAfter, b, left, chain
<1> QED BY <1>11, <1>14, <1>15, <1>16 DEF t

-------------------------------------------------------------------------------
(* Growing: the elements are inserted into an empty table one by one. *)

NoElements(size) == [list |-> << >>, ht |-> NoBuckets(size)]
MoveOne(u, s, size, i) == InsertElement(u, Bucket(s[i], size), s[i])

IsMoved(f, s, size) ==
  f = [i \in 0..Len(s) |-> IF i = 0 THEN NoElements(size) ELSE MoveOne(f[i - 1], s, size, i)]

LEMMA MovedExist ==
  ASSUME NEW s \in Seq(Key), NEW size
  PROVE  \E f : IsMoved(f, s, size)
<1> DEFINE Fits(f, n) == f = [i \in 0..n |->
                               IF i = 0 THEN NoElements(size) ELSE MoveOne(f[i - 1], s, size, i)]
           T == {n \in 0..Len(s) : \E f : Fits(f, n)}
<1>0. Len(s) \in Nat
  BY ListFacts
<1>1. 0 \in T
  <2> DEFINE f == [i \in 0..0 |-> NoElements(size)]
  <2>1. f = [i \in 0..0 |-> IF i = 0 THEN NoElements(size) ELSE MoveOne(f[i - 1], s, size, i)]
    OBVIOUS
  <2>2. Fits(f, 0)
    BY <2>1
  <2>3. 0 \in 0..Len(s)
    BY <1>0
  <2> HIDE DEF f, Fits
  <2> QED BY <2>2, <2>3
<1>2. ASSUME NEW n \in 0..Len(s), n \in T, n + 1 \in 0..Len(s)
      PROVE  n + 1 \in T
  <2>1. PICK f : Fits(f, n)
    BY <1>2
  <2> DEFINE g == [i \in 0..(n + 1) |-> IF i <= n THEN f[i] ELSE MoveOne(f[n], s, size, n + 1)]
  <2>2. ASSUME NEW i \in 0..(n + 1)
        PROVE  g[i] = IF i = 0 THEN NoElements(size) ELSE MoveOne(g[i - 1], s, size, i)
    <3>1. CASE i = 0
      <4>1. 0 \in 0..n /\ g[0] = f[0]
        BY <1>2
      <4>2. f[0] = NoElements(size)
        BY <4>1, <2>1
      <4> QED BY <3>1, <4>1, <4>2
    <3>2. CASE i \in 1..n
      <4>1. i \in 0..n /\ i - 1 \in 0..(n + 1) /\ i <= n /\ i - 1 <= n /\ i # 0
        BY <3>2, <1>2
      <4>2. g[i] = f[i] /\ g[i - 1] = f[i - 1]
        BY <4>1
      <4>3. f[i] = MoveOne(f[i - 1], s, size, i)
        BY <4>1, <2>1
      <4> QED BY <4>1, <4>2, <4>3
    <3>3. CASE i = n + 1
      <4>1. n \in 0..(n + 1) /\ n + 1 # 0 /\ ~(n + 1 <= n) /\ n <= n /\ (n + 1) - 1 = n
        BY <1>2
      <4>2. g[n] = f[n] /\ g[n + 1] = MoveOne(f[n], s, size, n + 1)
        BY <4>1, <1>2
      <4> QED BY <3>3, <4>1, <4>2
    <3> QED BY <1>2, <3>1, <3>2, <3>3
  <2>3. g = [i \in 0..(n + 1) |-> g[i]]
    OBVIOUS
  <2>4. g = [i \in 0..(n + 1) |-> IF i = 0 THEN NoElements(size) ELSE MoveOne(g[i - 1], s, size, i)]
    <3> HIDE DEF g
    <3> QED BY <2>2, <2>3
  <2>5. Fits(g, n + 1)
    BY <2>4
  <2> QED BY <2>5, <1>2
<1>3. \A n \in 0..Len(s) : n \in T
  <2> HIDE DEF T
  <2> QED BY <1>0, <1>1, <1>2, UpTo
<1>4. Len(s) \in T
  BY <1>3, <1>0
<1>5. PICK f : Fits(f, Len(s))
  BY <1>4
<1>6. IsMoved(f, s, size)
  BY <1>5 DEF IsMoved
<1> QED BY <1>6

LEMMA MovedDef ==
  ASSUME NEW s \in Seq(Key), NEW size
  PROVE  /\ Moved(s, size)[0] = NoElements(size)
         /\ \A i \in 1..Len(s) : Moved(s, size)[i] = MoveOne(Moved(s, size)[i - 1], s, size, i)
<1> DEFINE R == Moved(s, size)
<1>0. Len(s) \in Nat
  BY ListFacts
<1>a. \E f : IsMoved(f, s, size)
  BY MovedExist
<1>b. R = CHOOSE f : IsMoved(f, s, size)
  BY DEF Moved, IsMoved, NoElements, MoveOne
<1>c. IsMoved(R, s, size)
  BY <1>a, <1>b
<1>1. R = [i \in 0..Len(s) |-> IF i = 0 THEN NoElements(size) ELSE MoveOne(R[i - 1], s, size, i)]
  BY <1>c DEF IsMoved
<1>2. R[0] = NoElements(size)
  BY <1>0, <1>1
<1>3. ASSUME NEW i \in 1..Len(s)
      PROVE  R[i] = MoveOne(R[i - 1], s, size, i)
  <2>1. i \in 0..Len(s) /\ i # 0
    BY <1>0
  <2> HIDE DEF R
  <2> QED BY <2>1, <1>1
<1> QED BY <1>2, <1>3

LEMMA NoElementsGood ==
  ASSUME NEW n \in Nat \ {0}
  PROVE  Good(NoElements(n).list, NoElements(n).ht, n) /\ NoElements(n).list = << >>
<1>1. NoElements(n).list = << >> /\ NoElements(n).ht = NoBuckets(n)
  BY DEF NoElements
<1>2. << >> \in Seq(Key) /\ Len(<< >>) = 0
  OBVIOUS
<1>3. Once(<< >>)
  BY <1>2 DEF Once
<1>4. NoBuckets(n) \in Cells(n)
  BY DEF NoBuckets, Cells
<1>5. ASSUME NEW b \in 0..(n - 1) PROVE Run(<< >>, n, b, NoBuckets(n)[b])
  <2>1. NoBuckets(n)[b].chain = Null /\ NoBuckets(n)[b].count = 0
    BY DEF NoBuckets
  <2>2. \A i \in 1..Len(<< >>) : Bucket(<< >>[i], n) # b
    BY <1>2
  <2> QED BY <2>1, <2>2 DEF Run
<1> QED BY <1>1, <1>2, <1>3, <1>4, <1>5 DEF Good

(* The first i elements of s, moved. *)
MovedGood(u, s, n, i) ==
  /\ Good(u.list, u.ht, n)
  /\ \A x : x \in Elems(u.list) <=> \E j \in 1..i : x = s[j]

LEMMA MovedStep ==
  ASSUME NEW s \in Seq(Key), Once(s), NEW n \in Nat \ {0}, NEW i \in 0..Len(s), i + 1 \in 0..Len(s),
         NEW u, MovedGood(u, s, n, i)
  PROVE  MovedGood(MoveOne(u, s, n, i + 1), s, n, i + 1)
<1>1. Len(s) \in Nat /\ i + 1 \in 1..Len(s) /\ s[i + 1] \in Key
  BY ListFacts
<1> DEFINE k == s[i + 1]
           v == InsertElement(u, Bucket(k, n), k)
<1>2. k \notin Elems(u.list)
  <2>1. ASSUME NEW j \in 1..i PROVE s[i + 1] # s[j]
    <3>1. j \in 1..Len(s) /\ j # i + 1
      BY <1>1
    <3> QED BY <1>1, <3>1 DEF Once
  <2> QED BY <2>1 DEF MovedGood
<1> HIDE DEF k
<1>3. /\ Good(v.list, v.ht, n)
      /\ \A x : x \in Elems(v.list) <=> x = k \/ x \in Elems(u.list)
  <2>1. Good(u.list, u.ht, n) /\ k \in Key
    BY <1>1 DEF MovedGood, k
  <2> QED BY <1>2, <2>1, InsertGood
<1> HIDE DEF v
<1>4. ASSUME NEW x PROVE x \in Elems(v.list) <=> \E j \in 1..(i + 1) : x = s[j]
  <2>1. x \in Elems(v.list) <=> x = k \/ \E j \in 1..i : x = s[j]
    BY <1>3 DEF MovedGood
  <2>2. \A j : j \in 1..(i + 1) <=> j = i + 1 \/ j \in 1..i
    BY <1>1
  <2> QED BY <2>1, <2>2 DEF k
<1>5. MovedGood(v, s, n, i + 1)
  BY <1>3, <1>4 DEF MovedGood
<1>6. MoveOne(u, s, n, i + 1) = v
  BY DEF MoveOne, v, k
<1> QED BY <1>5, <1>6

LEMMA RehashGood ==
  ASSUME list \in Seq(Key), Once(list), NEW n \in Nat \ {0}
  PROVE  /\ Good(Rehash(n).list, Rehash(n).ht, n)
         /\ \A x : x \in Elems(Rehash(n).list) <=> x \in Elems(list)
<1> DEFINE M(i) == Moved(list, n)[i]
           T == {i \in 0..Len(list) : MovedGood(M(i), list, n, i)}
<1>0. Len(list) \in Nat
  BY ListFacts
<1>1. /\ M(0) = NoElements(n)
      /\ \A i \in 1..Len(list) : M(i) = MoveOne(M(i - 1), list, n, i)
  BY MovedDef
<1> HIDE DEF M
<1>2. 0 \in T
  <2>1. Good(NoElements(n).list, NoElements(n).ht, n) /\ NoElements(n).list = << >>
    BY NoElementsGood
  <2>2. \A x : x \notin Elems(<< >>)
    BY DEF Elems
  <2>3. \A j \in 1..0 : FALSE
    OBVIOUS
  <2>4. MovedGood(NoElements(n), list, n, 0)
    BY <2>1, <2>2, <2>3 DEF MovedGood
  <2> QED BY <1>0, <1>1, <2>4
<1>3. ASSUME NEW i \in 0..Len(list), i \in T, i + 1 \in 0..Len(list) PROVE i + 1 \in T
  <2>1. MovedGood(M(i), list, n, i)
    BY <1>3
  <2>2. MovedGood(MoveOne(M(i), list, n, i + 1), list, n, i + 1)
    BY <1>3, <2>1, MovedStep
  <2>3. i + 1 \in 1..Len(list) /\ (i + 1) - 1 = i
    BY <1>0, <1>3
  <2>4. M(i + 1) = MoveOne(M(i), list, n, i + 1)
    BY <1>1, <2>3
  <2> QED BY <1>3, <2>2, <2>4
<1>4. \A i \in 0..Len(list) : i \in T
  <2> HIDE DEF T
  <2> QED BY <1>0, <1>2, <1>3, UpTo
<1>5. MovedGood(M(Len(list)), list, n, Len(list))
  BY <1>0, <1>4
<1>6. M(Len(list)) = Rehash(n)
  BY DEF M, Rehash
<1> QED BY <1>5, <1>6 DEF MovedGood, Elems

-------------------------------------------------------------------------------
(* Looking up. *)

FoundIn(s, h, n, k) ==
  /\ n > 0
  /\ h[Bucket(k, n)].chain # Null
  /\ \E i \in 0..(h[Bucket(k, n)].count - 1) :
       /\ IndexIn(s, h[Bucket(k, n)].chain) + i <= Len(s)
       /\ s[IndexIn(s, h[Bucket(k, n)].chain) + i] = k

LEMMA FoundIff ==
  ASSUME NEW s, NEW h, NEW n, Table(s, h, n), NEW k \in Key
  PROVE  FoundIn(s, h, n, k) <=> k \in Elems(s)
<1>1. CASE n = 0 /\ s = << >>
  <2>1. k \notin Elems(s)
    BY <1>1 DEF Elems
  <2> QED BY <1>1, <2>1 DEF FoundIn
<1>2. CASE Good(s, h, n)
  <2> DEFINE b == Bucket(k, n)
             e == h[b]
             c == e.count
             f == IndexIn(s, e.chain)
  <2>1. s \in Seq(Key) /\ n \in Nat \ {0} /\ h \in Cells(n) /\ Once(s) /\ \A d \in 0..(n - 1) : Run(s, n, d, h[d])
    BY <1>2 DEF Good
  <2>2. b \in 0..(n - 1) /\ Len(s) \in Nat
    BY <2>1, BucketIn, ListFacts
  <2>3. c \in Nat /\ Run(s, n, b, e)
    BY <2>1, <2>2, CellFacts
  <2> HIDE DEF b, e
  <2>4. IF e.count = 0
        THEN e.chain = Null /\ \A i \in 1..Len(s) : Bucket(s[i], n) # b
        ELSE /\ e.chain # Null /\ IndexIn(s, e.chain) \in 1..Len(s)
             /\ e.chain = s[IndexIn(s, e.chain)]
             /\ IndexIn(s, e.chain) + e.count <= Len(s) + 1
             /\ RunAt(s, n, b, IndexIn(s, e.chain), e.count)
    BY <2>1, <2>3, RunStart
  <2>5. FoundIn(s, h, n, k) <=> e.chain # Null /\ \E i \in 0..(c - 1) : f + i <= Len(s) /\ s[f + i] = k
    BY <2>1 DEF FoundIn, b, e
  <2>6. CASE c = 0
    <3>1. ~FoundIn(s, h, n, k)
      BY <2>4, <2>5, <2>6
    <3>2. \A i \in 1..Len(s) : s[i] # k
      BY <2>4, <2>6 DEF b
    <3> QED BY <3>1, <3>2 DEF Elems
  <2>7. CASE c # 0
    <3>1. e.chain # Null /\ f \in 1..Len(s) /\ f + c <= Len(s) + 1 /\ RunAt(s, n, b, f, c)
      BY <2>4, <2>7
    <3> HIDE DEF f, c
    <3>2. ASSUME NEW i \in 0..(c - 1), f + i <= Len(s), s[f + i] = k PROVE k \in Elems(s)
      <4>1. f + i \in 1..Len(s)
        BY <2>2, <2>3, <3>1, <3>2
      <4> QED BY <3>2, <4>1 DEF Elems
    <3>3. ASSUME NEW j \in 1..Len(s), k = s[j] PROVE \E i \in 0..(c - 1) : f + i <= Len(s) /\ s[f + i] = k
      <4>1. Bucket(s[j], n) = b
        BY <3>3 DEF b
      <4>2. f <= j /\ j < f + c
        BY <3>1, <4>1 DEF RunAt
      <4>3. j - f \in 0..(c - 1) /\ f + (j - f) = j /\ j <= Len(s)
        BY <2>2, <2>3, <3>1, <4>2
      <4> QED BY <3>3, <4>3
    <3> QED BY <2>5, <3>1, <3>2, <3>3 DEF Elems
  <2> QED BY <2>6, <2>7
<1> QED BY <1>1, <1>2 DEF Table

LEMMA AnswerIs ==
  ASSUME TableInv, NEW k \in Key
  PROVE  /\ Found(k) <=> k \in Elems(list)
         /\ Answers[k] = IF k \in Elems(list) THEN data[k] ELSE Null
<1>1. Found(k) <=> FoundIn(list, ht, htsize, k)
  BY DEF Found, FoundIn
<1>2. FoundIn(list, ht, htsize, k) <=> k \in Elems(list)
  BY FoundIff DEF TableInv
<1>3. Answers[k] = Find(k)
  BY DEF Answers
<1> QED BY <1>1, <1>2, <1>3 DEF Find

LEMMA NextAnswerIs ==
  ASSUME TableInv', NEW k \in Key
  PROVE  Answers'[k] = IF k \in Elems(list') THEN data'[k] ELSE Null
<1>1. Found(k)' <=> FoundIn(list', ht', htsize', k)
  BY DEF Found, FoundIn
<1>2. Table(list', ht', htsize')
  BY DEF TableInv
<1>3. FoundIn(list', ht', htsize', k) <=> k \in Elems(list')
  BY <1>2, FoundIff
<1>4. Answers'[k] = Find(k)'
  BY DEF Answers
<1> QED BY <1>1, <1>3, <1>4 DEF Find

-------------------------------------------------------------------------------
(* Each operation keeps the table and changes one element of it. *)

(* The table an element goes into holds what the old one held. *)
LEMMA TablesGood ==
  ASSUME TableInv, NEW w \in Tables
  PROVE  /\ Good(w.t.list, w.t.ht, w.size)
         /\ \A x : x \in Elems(w.t.list) <=> x \in Elems(list)
<1>1. CASE htsize = 0
  <2>1. list = << >>
    BY <1>1 DEF TableInv, Table, Good
  <2>2. list \in Seq(Key) /\ Once(list)
    BY <2>1 DEF Once
  <2>3. w = [size |-> InitSize, t |-> Rehash(InitSize)]
    BY <1>1 DEF Tables
  <2>4. w.size = InitSize /\ w.t = Rehash(InitSize) /\ InitSize \in Nat \ {0}
    BY <2>3, SizeAssumption
  <2>5. /\ Good(Rehash(InitSize).list, Rehash(InitSize).ht, InitSize)
        /\ \A x : x \in Elems(Rehash(InitSize).list) <=> x \in Elems(list)
    BY <2>2, <2>4, RehashGood
  <2> QED BY <2>4, <2>5
<1>2. CASE htsize # 0
  <2>1. Good(list, ht, htsize) /\ list \in Seq(Key) /\ Once(list) /\ htsize \in Nat \ {0}
    BY <1>2 DEF TableInv, Table, Good
  <2> DEFINE m == htsize * 2
  <2>2. \/ w = [size |-> m, t |-> Rehash(m)]
        \/ w = [size |-> htsize, t |-> [list |-> list, ht |-> ht]]
    BY <1>2 DEF Tables
  <2>3. m \in Nat \ {0}
    BY <2>1
  <2> HIDE DEF m
  <2>4. CASE w = [size |-> m, t |-> Rehash(m)]
    <3>1. w.size = m /\ w.t = Rehash(m)
      BY <2>4
    <3>2. /\ Good(Rehash(m).list, Rehash(m).ht, m)
          /\ \A x : x \in Elems(Rehash(m).list) <=> x \in Elems(list)
      BY <2>1, <2>3, RehashGood
    <3> QED BY <3>1, <3>2
  <2>5. CASE w = [size |-> htsize, t |-> [list |-> list, ht |-> ht]]
    <3>1. w.size = htsize /\ w.t.list = list /\ w.t.ht = ht
      BY <2>5
    <3> QED BY <2>1, <3>1
  <2> QED BY <2>2, <2>4, <2>5
<1> QED BY <1>1, <1>2

LEMMA InsertKeeps ==
  ASSUME TableInv, NEW k \in Key, NEW v \in Value, Insert(k, v)
  PROVE  /\ TableInv' /\ data' = [data EXCEPT ![k] = v]
         /\ \A x : x \in Elems(list') <=> x = k \/ x \in Elems(list)
<1>1. PICK w \in Tables :
        /\ htsize' = w.size
        /\ list' = InsertElement(w.t, Bucket(k, w.size), k).list
        /\ ht' = InsertElement(w.t, Bucket(k, w.size), k).ht
  BY DEF Insert
<1>2. data' = [data EXCEPT ![k] = v] /\ freed' = freed
  BY DEF Insert
<1>3. Good(w.t.list, w.t.ht, w.size) /\ \A x : x \in Elems(w.t.list) <=> x \in Elems(list)
  BY TablesGood
<1>4. k \notin Elems(w.t.list)
  BY <1>3, AnswerIs DEF Insert
<1> DEFINE u == w.t
           n == w.size
<1> HIDE DEF u, n
<1>5. Good(u.list, u.ht, n) /\ k \notin Elems(u.list)
  BY <1>3, <1>4 DEF u, n
<1>6. /\ Good(InsertElement(u, Bucket(k, n), k).list, InsertElement(u, Bucket(k, n), k).ht, n)
      /\ InsertElement(u, Bucket(k, n), k).list # << >>
      /\ \A x : x \in Elems(InsertElement(u, Bucket(k, n), k).list) <=> x = k \/ x \in Elems(u.list)
  BY <1>5, InsertGood
<1>7. Good(list', ht', htsize') /\ list' # << >> /\ \A x : x \in Elems(list') <=> x = k \/ x \in Elems(u.list)
  BY <1>1, <1>6 DEF u, n
<1>8. Table(list', ht', htsize')
  BY <1>7 DEF Table
<1>9. data' \in [Key -> Value \cup {Null}] /\ freed' \subseteq Key
  BY <1>2 DEF TableInv
<1>10. \A x : x \in Elems(list') <=> x = k \/ x \in Elems(list)
  BY <1>3, <1>7 DEF u
<1> QED BY <1>2, <1>8, <1>9, <1>10 DEF TableInv

LEMMA EmptyKeeps ==
  ASSUME Empty
  PROVE  /\ data' = [x \in Key |-> Null] /\ data' \in [Key -> Value \cup {Null}]
         /\ Table(list', ht', htsize') /\ \A x : x \notin Elems(list')
<1>1. list' = << >> /\ htsize' = 0 /\ ht' = << >> /\ data' = [x \in Key |-> Null]
  BY DEF Empty
<1>2. \A x : x \notin Elems(list')
  BY <1>1 DEF Elems
<1> QED BY <1>1, <1>2 DEF Table

LEMMA RemoveKeeps ==
  ASSUME TableInv, NEW k \in Key, Remove(k)
  PROVE  /\ TableInv' /\ \A x \in Key : x # k /\ x \in Elems(list') => data'[x] = data[x]
         /\ \A x : x \in Elems(list') <=> x # k /\ x \in Elems(list)
<1>0. freed' = freed /\ freed' \subseteq Key /\ data \in [Key -> Value \cup {Null}]
  BY DEF Remove, TableInv
<1>1. k \in Elems(list)
  BY AnswerIs DEF Remove
<1>2. Good(list, ht, htsize) /\ list \in Seq(Key) /\ Once(list) /\ Len(list) \in Nat
  <2>1. list # << >>
    BY <1>1 DEF Elems
  <2>2. Good(list, ht, htsize) /\ list \in Seq(Key) /\ Once(list)
    BY <2>1 DEF TableInv, Table, Good
  <2> QED BY <2>2, ListFacts
<1>3. PICK at \in 1..Len(list) : k = list[at]
  BY <1>1 DEF Elems
<1>4. IndexIn(list, k) = at
  BY <1>2, <1>3, IndexOf
<1>5. CASE Len(list) = 1
  <2>1. Empty
    BY <1>5 DEF Remove
  <2>2. /\ data' = [x \in Key |-> Null] /\ data' \in [Key -> Value \cup {Null}]
        /\ Table(list', ht', htsize') /\ \A x : x \notin Elems(list')
    BY <2>1, EmptyKeeps
  <2>3. \A x : x \in Elems(list) => x = k
    <3>1. at = 1 /\ \A i \in 1..Len(list) : i = 1
      BY <1>5, <1>2
    <3> QED BY <1>3, <3>1 DEF Elems
  <2> QED BY <1>0, <2>2, <2>3 DEF TableInv
<1>6. CASE Len(list) # 1
  <2> DEFINE t == WithoutAt(list, at)
  <2>1. list' = t /\ ht' = CellsAfter(list, ht, htsize, at) /\ htsize' = htsize /\ data' = [data EXCEPT ![k] = Null]
    BY <1>3, <1>4, <1>6 DEF Remove, SetCell, CellsAfter, ChainAfter, WithoutAt
  <2> HIDE DEF t
  <2>3. /\ Good(t, CellsAfter(list, ht, htsize, at), htsize)
        /\ Len(t) = Len(list) - 1
        /\ \A x : x \in Elems(t) <=> x # list[at] /\ x \in Elems(list)
    BY <1>2, RemoveGood DEF t
  <2>4. t # << >>
    <3>1. Len(t) # 0
      BY <1>2, <1>6, <2>3
    <3> QED BY <3>1
  <2>5. Table(list', ht', htsize')
    BY <2>1, <2>3, <2>4 DEF Table
  <2>6. data' \in [Key -> Value \cup {Null}] /\ \A x \in Key : x # k => data'[x] = data[x]
    BY <1>0, <2>1
  <2>7. \A x : x \in Elems(list') <=> x # k /\ x \in Elems(list)
    BY <1>3, <2>1, <2>3
  <2> QED BY <1>0, <2>5, <2>6, <2>7 DEF TableInv
<1> QED BY <1>5, <1>6

-------------------------------------------------------------------------------
(* The theorems. *)

LEMMA InitTable == Init => TableInv
BY DEF Init, TableInv, Table

LEMMA NextTable ==
  ASSUME TableInv, [Next]_vars
  PROVE  TableInv'
<1>1. CASE UNCHANGED vars
  BY <1>1 DEF vars, TableInv
<1>2. CASE Clear
  <2>1. Table(list', ht', htsize') /\ data' \in [Key -> Value \cup {Null}] /\ freed' = freed
    BY <1>2, EmptyKeeps DEF Clear
  <2> QED BY <2>1 DEF TableInv
<1>3. ASSUME NEW k \in Key, InsertFails(k) PROVE TableInv'
  BY <1>3 DEF InsertFails, vars, TableInv
<1>4. ASSUME NEW k \in Key, ReplaceFails(k) PROVE TableInv'
  BY <1>4 DEF ReplaceFails, TableInv
<1>5. ASSUME NEW k \in Key, Remove(k) PROVE TableInv'
  BY <1>5, RemoveKeeps
<1>6. ASSUME NEW k \in Key, NEW v \in Value, Insert(k, v) PROVE TableInv'
  BY <1>6, InsertKeeps
<1>7. ASSUME NEW k \in Key, NEW v \in Value, Replace(k, v) PROVE TableInv'
  BY <1>7 DEF Replace, TableInv
<1> QED BY <1>1, <1>2, <1>3, <1>4, <1>5, <1>6, <1>7 DEF Next

(* The inductive invariant holds in every reachable state. *)
THEOREM TableInvariant == Spec => []TableInv
BY InitTable, NextTable, PTL DEF Spec

(* The fields of the table and of its elements always have their types: a    *)
(* sequence of keys, htsize buckets with a chain and a count, and the data.  *)
THEOREM HashTableTypes == Spec => []TypeOK
<1>1. TableInv => TypeOK
  <2> SUFFICES ASSUME TableInv PROVE TypeOK
    OBVIOUS
  <2>1. data \in [Key -> Value \cup {Null}] /\ freed \subseteq Key
    BY DEF TableInv
  <2>2. CASE htsize = 0 /\ list = << >> /\ ht = << >>
    <3>1. 0..(htsize - 1) = {}
      BY <2>2
    <3>2. ht \in [{} -> [chain : Key \cup {Null}, count : Nat]]
      BY <2>2
    <3> QED BY <2>1, <2>2, <3>1, <3>2 DEF TypeOK
  <2>3. CASE Good(list, ht, htsize)
    BY <2>1, <2>3 DEF Good, Cells, TypeOK
  <2> QED BY <2>2, <2>3 DEF TableInv, Table
<1> QED BY <1>1, TableInvariant, PTL

(* The run of a bucket, with its length as a cardinality. *)
Here(s, n, b) == {i \in 1..Len(s) : Bucket(s[i], n) = b}

Describes(e, s, here) ==
  /\ e.count = Cardinality(here)
  /\ IF here = {} THEN e.chain = Null
     ELSE \E first \in here : /\ e.chain = s[first]
                              /\ here = first..(first + Cardinality(here) - 1)

LEMMA RunSize ==
  ASSUME NEW s \in Seq(Key), NEW n \in Nat \ {0}, NEW b, NEW e, e.count \in Nat, Run(s, n, b, e)
  PROVE  Describes(e, s, Here(s, n, b))
<1> DEFINE here == Here(s, n, b)
<1>a. here = {i \in 1..Len(s) : Bucket(s[i], n) = b}
  BY DEF Here
<1>b. SUFFICES Describes(e, s, here)
  OBVIOUS
<1> HIDE DEF here
<1>0. Len(s) \in Nat
  BY ListFacts
<1>1. CASE e.count = 0 /\ e.chain = Null /\ \A i \in 1..Len(s) : Bucket(s[i], n) # b
  <2>1. here = {}
    BY <1>1, <1>a
  <2>2. Cardinality(here) = 0
    BY <2>1, FS_EmptySet
  <2> QED BY <1>1, <2>1, <2>2 DEF Describes
<1>2. ASSUME NEW f \in 1..Len(s), e.count > 0, e.chain = s[f], f + e.count <= Len(s) + 1,
             RunAt(s, n, b, f, e.count)
      PROVE  Describes(e, s, here)
  <2> DEFINE c == e.count
             last == f + c - 1
  <2>1. c \in Nat /\ f \in Nat /\ f <= last /\ last <= Len(s) /\ last \in Int
    BY <1>0, <1>2
  <2>2. \A i : i \in here <=> i \in f..last
    <3>1. \A i : i \in f..last <=> i \in 1..Len(s) /\ f <= i /\ i < f + c
      BY <1>0, <1>2, <2>1
    <3> HIDE DEF c, last
    <3>2. \A i \in 1..Len(s) : Bucket(s[i], n) = b <=> f <= i /\ i < f + c
      BY <1>2 DEF RunAt, c
    <3> QED BY <1>a, <3>1, <3>2
  <2> HIDE DEF last, c
  <2>3. here = f..last
    BY <2>2
  <2>4. Cardinality(f..last) = IF f > last THEN 0 ELSE last - f + 1
    BY <2>1, FS_Interval
  <2>5. Cardinality(f..last) = c
    BY <2>1, <2>4 DEF last
  <2>6. f \in here
    BY <2>1, <2>3
  <2>7. here = f..(f + c - 1)
    BY <2>3 DEF last
  <2>8. Cardinality(here) = c
    BY <2>3, <2>5
  <2>9. here = f..(f + Cardinality(here) - 1)
    BY <2>7, <2>8
  <2>10. here # {} /\ e.count = Cardinality(here)
    BY <2>6, <2>8 DEF c
  <2> QED BY <1>2, <2>6, <2>9, <2>10 DEF Describes
<1> QED BY <1>1, <1>2 DEF Run

(* The elements of a bucket are one run of the list that chain and count     *)
(* describe, no key is linked twice, and there is a table exactly when there *)
(* is an element (sqliteInsertElement, sqliteRehash,                         *)
(* sqliteRemoveElementGivenHash), for any keys and any xHash.                *)
THEOREM BucketsAreRuns == Spec => []Runs
<1>1. TableInv => Runs
  <2> SUFFICES ASSUME TableInv PROVE Runs
    OBVIOUS
  <2>1. CASE htsize = 0 /\ list = << >>
    <3>1. DOMAIN list = {} /\ 0..(htsize - 1) = {}
      BY <2>1
    <3> QED BY <2>1, <3>1 DEF Runs
  <2>2. CASE list # << >> /\ Good(list, ht, htsize)
    <3>1. /\ list \in Seq(Key) /\ htsize \in Nat \ {0} /\ ht \in Cells(htsize) /\ Once(list)
          /\ \A b \in 0..(htsize - 1) : Run(list, htsize, b, ht[b])
      BY <2>2 DEF Good
    <3>2. DOMAIN list = 1..Len(list)
      BY <3>1
    <3>3. htsize = 0 <=> list = << >>
      BY <2>2, <3>1
    <3>4. \A i, j \in DOMAIN list : list[i] = list[j] => i = j
      BY <3>1, <3>2 DEF Once
    <3>5. ASSUME NEW b \in 0..(htsize - 1)
          PROVE  LET here == {i \in DOMAIN list : Bucket(list[i], htsize) = b} IN
                 /\ ht[b].count = Cardinality(here)
                 /\ IF here = {} THEN ht[b].chain = Null
                    ELSE \E first \in here : /\ ht[b].chain = list[first]
                                             /\ here = first..(first + Cardinality(here) - 1)
      <4> DEFINE here == {i \in DOMAIN list : Bucket(list[i], htsize) = b}
                 e == ht[b]
      <4>1. here = Here(list, htsize, b)
        BY <3>2 DEF Here
      <4>2. e.count \in Nat /\ Run(list, htsize, b, e)
        BY <3>1, CellFacts
      <4> HIDE DEF here, e
      <4>3. Describes(e, list, Here(list, htsize, b))
        BY <3>1, <4>2, RunSize
      <4>4. Describes(e, list, here)
        BY <4>1, <4>3
      <4> QED BY <4>4 DEF here, e, Describes
    <3> QED BY <3>3, <3>4, <3>5 DEF Runs
  <2> QED BY <2>1, <2>2 DEF TableInv, Table
<1> QED BY <1>1, TableInvariant, PTL

LEMMA AnswersFun ==
  /\ Answers = [x \in Key |-> Answers[x]]
  /\ Answers' = [x \in Key |-> Answers'[x]]
BY DEF Answers

(* What a step does to the answers. *)
LEMMA NextAnswers ==
  ASSUME TableInv, TableInv', [Next]_vars
  PROVE  [Content!Next]_Answers
<1>0. data \in [Key -> Value \cup {Null}]
  BY DEF TableInv
<1> DEFINE A(x) == IF x \in Elems(list) THEN data[x] ELSE Null
           B(x) == IF x \in Elems(list') THEN data'[x] ELSE Null
<1>1. \A x \in Key : Answers[x] = A(x) /\ Answers'[x] = B(x) /\ (Found(x) <=> x \in Elems(list))
  BY AnswerIs, NextAnswerIs
<1>2. ASSUME NEW k \in Key, NEW v, B(k) = v, \A x \in Key : x # k => B(x) = A(x)
      PROVE  Answers' = [Answers EXCEPT ![k] = v]
  <2> HIDE DEF A, B
  <2>1. Answers' = [x \in Key |-> IF x = k THEN v ELSE Answers[x]]
    BY <1>1, <1>2, AnswersFun
  <2>2. [Answers EXCEPT ![k] = v] = [x \in Key |-> IF x = k THEN v ELSE Answers[x]]
    BY AnswersFun
  <2> QED BY <2>1, <2>2
<1>3. CASE UNCHANGED vars
  BY <1>3 DEF vars, Answers, Find, Found
<1>4. CASE Clear
  <2>1. \A x : x \notin Elems(list')
    BY <1>4, EmptyKeeps DEF Clear
  <2>2. \A x \in Key : Answers'[x] = Null
    BY <1>1, <2>1
  <2>3. Answers' = [x \in Key |-> Null]
    BY <2>2, AnswersFun
  <2>4. Content!Clear
    BY <2>3 DEF Content!Clear
  <2> QED BY <2>4 DEF Content!Next
<1>5. ASSUME NEW k \in Key, InsertFails(k) PROVE UNCHANGED Answers
  BY <1>5 DEF InsertFails, vars, Answers, Find, Found
<1>6. ASSUME NEW k \in Key, ReplaceFails(k) PROVE Content!Delete(k)
  <2>1. data' = [data EXCEPT ![k] = Null] /\ list' = list
    BY <1>6 DEF ReplaceFails
  <2>2. B(k) = Null /\ \A x \in Key : x # k => B(x) = A(x)
    BY <1>0, <2>1
  <2> HIDE DEF A, B
  <2> QED BY <1>2, <2>2 DEF Content!Delete
<1>7. ASSUME NEW k \in Key, Remove(k) PROVE Content!Delete(k)
  <2>1. /\ \A x \in Key : x # k /\ x \in Elems(list') => data'[x] = data[x]
        /\ \A x : x \in Elems(list') <=> x # k /\ x \in Elems(list)
    BY <1>7, RemoveKeeps
  <2>2. B(k) = Null /\ \A x \in Key : x # k => B(x) = A(x)
    BY <2>1
  <2> HIDE DEF A, B
  <2> QED BY <1>2, <2>2 DEF Content!Delete
<1>8. ASSUME NEW k \in Key, NEW v \in Value, Insert(k, v) PROVE Content!Put(k, v)
  <2>1. data' = [data EXCEPT ![k] = v] /\ \A x : x \in Elems(list') <=> x = k \/ x \in Elems(list)
    BY <1>8, InsertKeeps
  <2>2. B(k) = v /\ \A x \in Key : x # k => B(x) = A(x)
    BY <1>0, <2>1
  <2> HIDE DEF A, B
  <2> QED BY <1>2, <2>2 DEF Content!Put
<1>9. ASSUME NEW k \in Key, NEW v \in Value, Replace(k, v) PROVE Content!Put(k, v)
  <2>1. data' = [data EXCEPT ![k] = v] /\ list' = list /\ k \in Elems(list)
    BY <1>1, <1>9 DEF Replace
  <2>2. B(k) = v /\ \A x \in Key : x # k => B(x) = A(x)
    BY <1>0, <2>1
  <2> HIDE DEF A, B
  <2> QED BY <1>2, <2>2 DEF Content!Put
<1> QED BY <1>3, <1>4, <1>5, <1>6, <1>7, <1>8, <1>9 DEF Next, Content!Next

(* The hash table implements the map its users take it for: an insertion, a  *)
(* replacement or a removal changes what sqliteHashFind answers for its own  *)
(* key and for no other, and growth or a failed allocation changes nothing   *)
(* else, for any keys, any xHash and any number of elements.                 *)
THEOREM TableIsMap == Spec => IsMap
<1>1. Init => Content!Init
  <2> SUFFICES ASSUME Init PROVE Content!Init
    OBVIOUS
  <2>1. TableInv /\ list = << >>
    BY InitTable DEF Init
  <2>2. \A x : x \notin Elems(list)
    BY <2>1 DEF Elems
  <2>3. \A x \in Key : Answers[x] = Null
    BY <2>1, <2>2, AnswerIs
  <2>4. Answers = [x \in Key |-> Null]
    BY <2>3, AnswersFun
  <2> QED BY <2>4 DEF Content!Init
<1> QED BY <1>1, NextAnswers, TableInvariant, PTL DEF Spec, IsMap, Content!Spec

===============================================================================
