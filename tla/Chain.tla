-------------------------------- MODULE Chain --------------------------------
(***************************************************************************)
(* What a list of src/demo/inlupp2/linked_list.c amounts to: the values    *)
(* along its links, and a size that says how many of them, from the first, *)
(* the list shows.  The two differ because ioopm_linked_list_remove takes  *)
(* the last of several elements away by lowering the size alone: the link  *)
(* stays behind, hidden, and the next append goes behind it.               *)
(*                                                                         *)
(* Indices are the program's and begin at 0.                               *)
(***************************************************************************)
EXTENDS Naturals, Sequences

Chained(values, n) == [links |-> values, size |-> n]

Empty == Chained(<< >>, 0)

Shown(c) == SubSeq(c.links, 1, c.size)

Hidden(c) == Len(c.links) > c.size

(* ioopm_linked_list_append and _prepend forget whatever was hidden in a   *)
(* list of size 0.                                                         *)
Appended(c, v) ==
  Chained(IF c.size = 0 THEN <<v>> ELSE Append(c.links, v), c.size + 1)

Prepended(c, v) ==
  Chained(IF c.size = 0 THEN <<v>> ELSE <<v>> \o c.links, c.size + 1)

(* The list without the value at position p. *)
Without(values, p) ==
  SubSeq(values, 1, p - 1) \o SubSeq(values, p + 1, Len(values))

(* ioopm_linked_list_remove of an element the list shows. *)
Removed(c, i) ==
  Chained(IF i = 0 \/ i + 1 < Len(c.links) THEN Without(c.links, i + 1) ELSE c.links,
          c.size - 1)

(* An iterator at position p inserts behind it and removes what is behind. *)
InsertedBehind(c, p, v) ==
  Chained(SubSeq(c.links, 1, p) \o <<v>> \o SubSeq(c.links, p + 1, Len(c.links)),
          c.size + 1)

RemovedBehind(c, p) == Chained(Without(c.links, p + 1), c.size - 1)
=============================================================================
