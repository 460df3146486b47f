---------------------------- MODULE LabelRegistry ----------------------------
(***************************************************************************)
(* What the table selinux_id promises to everything that stores one of its *)
(* rowids: an append-only list of pairwise different labels.  The id of a  *)
(* label is its position; a position once on disk never changes meaning.   *)
(***************************************************************************)
EXTENDS Naturals, Sequences

CONSTANT Label

VARIABLE registry    \* the labels on disk, in rowid order

Distinct(s) == \A i, j \in DOMAIN s : s[i] = s[j] => i = j

Init == registry = << >>

(* Several labels become durable at once when a transaction commits. *)
Publish ==
  /\ registry' \in Seq(Label)
  /\ Len(registry) <= Len(registry')
  /\ \A i \in DOMAIN registry : registry'[i] = registry[i]
  /\ Distinct(registry')

Next == Publish

Spec == Init /\ [][Next]_registry

=============================================================================
