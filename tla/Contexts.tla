------------------------------- MODULE Contexts -------------------------------
(***************************************************************************)
(* The contexts file and the default label of an object.                    *)
(* read_sesqlite_context puts each line of the file into the list of its    *)
(* class; sorted_insert keeps a list in descending order of the patterns as *)
(* strings.  compute_sql_context answers with the first entry that matches. *)
(* Nothing in the code compares how specific two patterns are: that the     *)
(* more specific one wins rests on '*' sorting before the letters.          *)
(*                                                                         *)
(* A pattern db.table.column is a tuple of numbers that order as the        *)
(* (case-folded) components do; two patterns that match the same object     *)
(* differ only where one of them has '*', so comparing them component by    *)
(* component is comparing the strings.                                      *)
(***************************************************************************)
EXTENDS Integers, Sequences, FiniteSets

CONSTANTS
  Name,          \* the names of databases, tables and columns
  Line,          \* the lines a file is made of: [class, path, label]
  DefaultLabel,  \* what SELinux computes for an object no line matches
  MaxLines       \* bound: length of the file

Star  == 0
Class == {"db_database", "db_table", "db_view", "db_column", "db_tuple"}
Width == [db_database |-> 1, db_table |-> 2, db_view |-> 2, db_column |-> 3, db_tuple |-> 2]

(* A line whose class is none of the five is a comment or is not recognised. *)
Entry == {l \in Line : l.class \in Class}

ASSUME NameAssumption == Name \subseteq Nat \ {0}       \* no name sorts before '*'
ASSUME LineAssumption ==
  /\ \A e \in Entry : e.path \in [1..Width[e.class] -> Name \cup {Star}]
  /\ MaxLines \in Nat

VARIABLES
  read,      \* the lines read so far, the file's first ones
  lists,     \* class -> the list db_context, table_context, ...
  status     \* "closed" (before fopen), "reading", "loaded" or "missing"

vars == <<read, lists, status>>

-------------------------------------------------------------------------------
(* strcasecmp(a, b) > 0 for the origins a and b of two entries of a class. *)
After(a, b) ==
  \E i \in DOMAIN a : a[i] > b[i] /\ \A j \in 1..(i - 1) : a[j] = b[j]

(* Mutation: the list is walked past equal origins as well. *)
Position_AfterEqual(list, e) ==
  CHOOSE i \in 1..(Len(list) + 1) :
    /\ \A j \in 1..(i - 1) : ~After(e.path, list[j].path)
    /\ i <= Len(list) => After(e.path, list[i].path)

(* Mutation: the head is not compared. *)
Position_Front(list, e) == 1

(* sorted_insert goes in front of the first element that is not after it. *)
Position(list, e) ==
  CHOOSE i \in 1..(Len(list) + 1) :
    /\ \A j \in 1..(i - 1) : After(list[j].path, e.path)
    /\ i <= Len(list) => ~After(list[i].path, e.path)

(* Mutation: the rest of the list is not linked behind the new node. *)
SortedInsert_CutsTail(list, e) ==
  [i \in 1..Position(list, e) |-> IF i < Position(list, e) THEN list[i] ELSE e]

SortedInsert(list, e) ==
  LET p == Position(list, e) IN
  [i \in 1..(Len(list) + 1) |-> IF i < p THEN list[i] ELSE IF i = p THEN e ELSE list[i - 1]]

(* compute_sql_context: as many components of the object are compared as it  *)
(* has; the answer for no match is the default SELinux computes.             *)
Matches(e, obj) == \A i \in DOMAIN obj : e.path[i] \in {obj[i], Star}

ComputeSqlContext(list, obj) ==
  LET hits == {i \in DOMAIN list : Matches(list[i], obj)} IN
  IF hits = {} THEN DefaultLabel
  ELSE list[CHOOSE i \in hits : \A j \in hits : i <= j].label

-------------------------------------------------------------------------------
(* read_sesqlite_context *)

Init == read = << >> /\ lists = [c \in Class |-> << >>] /\ status = "closed"

OpenFile ==
  /\ status = "closed"
  /\ status' \in {"reading", "missing"}
  /\ UNCHANGED <<read, lists>>

ReadEntry(l) ==
  /\ status = "reading" /\ Len(read) < MaxLines
  /\ l.class \in Class
  /\ read' = Append(read, l)
  /\ lists' = [lists EXCEPT ![l.class] = SortedInsert(@, l)]
  /\ UNCHANGED status

(* Mutation: a line of an unknown class is taken for a table. *)
SkipLine_Kept(l) ==
  /\ status = "reading" /\ Len(read) < MaxLines
  /\ l.class \notin Class
  /\ read' = Append(read, l)
  /\ lists' = [lists EXCEPT !["db_table"] = SortedInsert(@, l)]
  /\ UNCHANGED status

SkipLine(l) ==
  /\ status = "reading" /\ Len(read) < MaxLines
  /\ l.class \notin Class
  /\ read' = Append(read, l)
  /\ UNCHANGED <<lists, status>>

EndOfFile ==
  /\ status = "reading"
  /\ status' = "loaded"
  /\ UNCHANGED <<read, lists>>

Next ==
  \/ OpenFile \/ EndOfFile
  \/ \E l \in Line : ReadEntry(l) \/ SkipLine(l)

Spec == Init /\ [][Next]_vars

-------------------------------------------------------------------------------
(* Properties *)

(* Each list holds entries of the five classes, never a comment line. *)
TypeOK ==
  /\ read \in Seq(Line) /\ Len(read) <= MaxLines
  /\ lists \in [Class -> Seq(Entry)]
  /\ status \in {"closed", "reading", "loaded", "missing"}

(* Every list is in descending order of the origins. *)
Sorted ==
  \A c \in Class : \A i, j \in DOMAIN lists[c] :
    i < j => ~After(lists[c][j].path, lists[c][i].path)

(* sorted_insert loses and invents no entry: a list holds an entry as often  *)
(* as the file does, and only entries of its own class.                      *)
NothingLost ==
  \A c \in Class, l \in Line :
    Cardinality({i \in DOMAIN lists[c] : lists[c][i] = l})
      = IF l.class = c THEN Cardinality({i \in DOMAIN read : read[i] = l}) ELSE 0

(* What an administrator expects of the file, said without any order on      *)
(* strings: a line with a name where the other has '*', in the first         *)
(* component in which they differ, is preferred, and the later of two lines  *)
(* with the same pattern.                                                    *)
Preferred(i, j) ==
  LET a == read[i].path
      b == read[j].path
  IN \/ \E k \in DOMAIN a : /\ a[k] # Star /\ b[k] = Star
                            /\ \A m \in 1..(k - 1) : a[m] = b[m]
     \/ a = b /\ i >= j

ReferenceLabel(c, obj) ==
  LET lines == {i \in DOMAIN read : read[i].class = c /\ Matches(read[i], obj)} IN
  IF lines = {} THEN DefaultLabel
  ELSE read[CHOOSE i \in lines : \A j \in lines : Preferred(i, j)].label

(* The first match in the list is the most specific line of the file, for    *)
(* every object and whatever the order of the lines.                         *)
MostSpecificWins ==
  \A c \in Class : \A obj \in [1..Width[c] -> Name] :
    ComputeSqlContext(lists[c], obj) = ReferenceLabel(c, obj)

===============================================================================
