------------------------------ MODULE HashTable ------------------------------
(***************************************************************************)
(* The hash table under hash, hash_id and avc (sesqlite_hash_impl.c).       *)
(* All elements are on one doubly linked list; a bucket does not own a list *)
(* of its own but remembers where in the list its elements begin (chain)    *)
(* and how many they are (count).  The table works only as long as the      *)
(* elements of a bucket stay together on the list.                          *)
(*                                                                         *)
(* The list is modelled as the sequence of its keys; prev and next are the  *)
(* neighbours in it.  The code's first table has 8 buckets; InitSize is     *)
(* that number, so that a small instance can grow.                          *)
(***************************************************************************)
EXTENDS Integers, Sequences, FiniteSets

CONSTANTS
  Key, Value, Null,
  HashOf,           \* key -> what xHash returns
  InitSize,         \* buckets of the first table (8)
  NewMayFail        \* xMalloc may fail

ASSUME NullAssumption == Null \notin Value /\ Null \notin Key
ASSUME SizeAssumption == InitSize \in Nat \ {0}
ASSUME HashAssumption == HashOf \in [Key -> Int]
ASSUME FaultAssumption == NewMayFail \in BOOLEAN

VARIABLES
  list,      \* the keys of the elements, from pH->first on
  htsize,    \* pH->htsize, 0 when there is no table
  ht,        \* bucket -> [chain, count]
  data,      \* key -> pData of its element
  freed      \* keys of elements that are linked and have been freed

vars == <<list, htsize, ht, data, freed>>

Elements == {list[i] : i \in DOMAIN list}
Bucket(k, size) == HashOf[k] % size
NoBuckets(size) == [b \in 0..(size - 1) |-> [chain |-> Null, count |-> 0]]
IndexIn(s, k) == CHOOSE i \in DOMAIN s : s[i] = k

Empty ==
  /\ list' = << >> /\ htsize' = 0 /\ ht' = << >>
  /\ data' = [k \in Key |-> Null]

Init ==
  /\ list = << >> /\ htsize = 0 /\ ht = << >>
  /\ data = [k \in Key |-> Null]
  /\ freed = {}

-------------------------------------------------------------------------------
(* sqliteFindElementGivenHash: walk count elements from chain. *)

Found(k) ==
  /\ htsize > 0
  /\ LET e == ht[Bucket(k, htsize)]
     IN e.chain # Null /\ \E i \in 0..(e.count - 1) :
          /\ IndexIn(list, e.chain) + i <= Len(list)
          /\ list[IndexIn(list, e.chain) + i] = k

(* sqliteHashFind *)
Find(k) == IF Found(k) THEN data[k] ELSE Null

(* Mutation: always in front of the whole list. *)
InsertElement_Front(t, b, k) ==
  [list |-> <<k>> \o t.list,
   ht   |-> [t.ht EXCEPT ![b] = [chain |-> k, count |-> t.ht[b].count + 1]]]

(* sqliteInsertElement, on a list and its buckets: in front of the bucket's  *)
(* first element, or of the whole list if the bucket is empty.               *)
InsertElement(t, b, k) ==
  LET at == IF t.ht[b].chain = Null THEN 1 ELSE IndexIn(t.list, t.ht[b].chain)
  IN [list |-> SubSeq(t.list, 1, at - 1) \o <<k>> \o SubSeq(t.list, at, Len(t.list)),
      ht   |-> [t.ht EXCEPT ![b] = [chain |-> k, count |-> t.ht[b].count + 1]]]

(* sqliteRehash: the elements are taken from the old list one by one; after  *)
(* i of them the new list and its buckets are the i-th of these.             *)
Moved(s, size) ==
  LET moved[i \in 0..Len(s)] ==
        IF i = 0 THEN [list |-> << >>, ht |-> NoBuckets(size)]
        ELSE InsertElement(moved[i - 1], Bucket(s[i], size), s[i])
  IN moved

Rehash(size) == Moved(list, size)[Len(list)]

-------------------------------------------------------------------------------
(* sqliteHashInsert.  Once a freed element is linked, anything may happen:   *)
(* the model stops there.                                                    *)

(* The table the new element goes into.  The first table must be allocated;  *)
(* a table that cannot grow is used as it is.                                *)
Tables ==
  IF htsize = 0 THEN {[size |-> InitSize, t |-> Rehash(InitSize)]}
  ELSE LET same == [size |-> htsize, t |-> [list |-> list, ht |-> ht]] IN
    IF Len(list) + 1 > htsize
    THEN {[size |-> htsize * 2, t |-> Rehash(htsize * 2)]}
           \cup (IF NewMayFail THEN {same} ELSE {})
    ELSE {same}

Insert(k, v) ==
  /\ freed = {} /\ ~Found(k)
  /\ \E w \in Tables :
       LET t == InsertElement(w.t, Bucket(k, w.size), k)
       IN /\ htsize' = w.size /\ list' = t.list /\ ht' = t.ht
          /\ data' = [data EXCEPT ![k] = v]
  /\ UNCHANGED freed

(* The element, its copies of key and value or the first table cannot be     *)
(* allocated: nothing is inserted.                                           *)
InsertFails(k) == NewMayFail /\ freed = {} /\ ~Found(k) /\ UNCHANGED vars

Replace(k, v) ==
  /\ freed = {} /\ Found(k)
  /\ data' = [data EXCEPT ![k] = v]
  /\ UNCHANGED <<list, htsize, ht, freed>>

(* xMalloc fails for the new value: the old one is gone, the element is      *)
(* freed and stays linked.                                                   *)
ReplaceFails(k) ==
  /\ NewMayFail /\ freed = {} /\ Found(k)
  /\ data' = [data EXCEPT ![k] = Null]
  /\ freed' = freed \cup {k}
  /\ UNCHANGED <<list, htsize, ht>>

(* Mutation: chain is not moved. *)
Remove_KeepsChain(k) ==
  LET b == Bucket(k, htsize)
      left == ht[b].count - 1
      i == IndexIn(list, k)
  IN
  /\ freed = {} /\ Found(k)
  /\ IF Len(list) = 1 THEN Empty
     ELSE /\ list' = SubSeq(list, 1, i - 1) \o SubSeq(list, i + 1, Len(list))
          /\ ht' = [ht EXCEPT ![b] =
                      [chain |-> IF left <= 0 \/ ht[b].chain = k THEN Null ELSE ht[b].chain,
                       count |-> left]]
          /\ data' = [data EXCEPT ![k] = Null]
          /\ UNCHANGED htsize
  /\ UNCHANGED freed

(* Mutation: the bucket's count is decremented twice. *)
Remove_CountsTwice(k) ==
  LET b == Bucket(k, htsize)
      left == ht[b].count - 2
      i == IndexIn(list, k)
  IN
  /\ freed = {} /\ Found(k)
  /\ IF Len(list) = 1 THEN Empty
     ELSE /\ list' = SubSeq(list, 1, i - 1) \o SubSeq(list, i + 1, Len(list))
          /\ ht' = [ht EXCEPT ![b].count = left]
          /\ data' = [data EXCEPT ![k] = Null]
          /\ UNCHANGED htsize
  /\ UNCHANGED freed

(* sqliteRemoveElementGivenHash: chain moves to the next element of the      *)
(* list, whichever bucket that is in; the last element takes the table along.*)
Remove(k) ==
  LET b == Bucket(k, htsize)
      left == ht[b].count - 1
      i == IndexIn(list, k)
      next == IF i < Len(list) THEN list[i + 1] ELSE Null
  IN
  /\ freed = {} /\ Found(k)
  /\ IF Len(list) = 1 THEN Empty
     ELSE /\ list' = SubSeq(list, 1, i - 1) \o SubSeq(list, i + 1, Len(list))
          /\ ht' = [ht EXCEPT ![b] =
                      [chain |-> IF left <= 0 THEN Null
                                 ELSE IF ht[b].chain = k THEN next ELSE ht[b].chain,
                       count |-> left]]
          /\ data' = [data EXCEPT ![k] = Null]
          /\ UNCHANGED htsize
  /\ UNCHANGED freed

(* sqliteHashClear *)
Clear == freed = {} /\ list # << >> /\ Empty /\ UNCHANGED freed

Next ==
  \/ Clear
  \/ \E k \in Key : InsertFails(k) \/ ReplaceFails(k) \/ Remove(k)
  \/ \E k \in Key, v \in Value : Insert(k, v) \/ Replace(k, v)

Spec == Init /\ [][Next]_vars

-------------------------------------------------------------------------------
(* Properties *)

(* The list is of keys, every bucket of the table has a chain and a count.  *)
TypeOK ==
  /\ list \in Seq(Key)
  /\ htsize \in Nat
  /\ ht \in [0..(htsize - 1) -> [chain : Key \cup {Null}, count : Nat]]
  /\ data \in [Key -> Value \cup {Null}]
  /\ freed \subseteq Key

(* The elements of a bucket are one run of the list, chain is its first and  *)
(* count its length; the runs are the whole list, no key is in it twice, and *)
(* there is a table exactly when there is an element.                        *)
Runs ==
  /\ htsize = 0 <=> list = << >>
  /\ \A i, j \in DOMAIN list : list[i] = list[j] => i = j
  /\ \A b \in 0..(htsize - 1) :
       LET here == {i \in DOMAIN list : Bucket(list[i], htsize) = b} IN
       /\ ht[b].count = Cardinality(here)
       /\ IF here = {} THEN ht[b].chain = Null
          ELSE \E first \in here : /\ ht[b].chain = list[first]
                                   /\ here = first..(first + Cardinality(here) - 1)

(* After any history of insertions, removals, growth and failed allocations  *)
(* the table is a map: each operation changes what HASH_FIND answers for its *)
(* own key and for no other, and growing changes nothing.                    *)
Answers == [k \in Key |-> Find(k)]
Content == INSTANCE Map WITH map <- Answers
IsMap == Content!Spec

===============================================================================
