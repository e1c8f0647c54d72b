---------------------------- MODULE ListPromise -----------------------------
(***************************************************************************)
(* What src/demo/inlupp2/linked_list.h promises of a list: its elements in *)
(* order, and nothing else.  The positions are those of the header, from 0 *)
(* on.  The operations are written from the header's words, not from       *)
(* linked_list.c, and a user of the list who reads only the header expects *)
(* every one of them to do just this.                                      *)
(***************************************************************************)
EXTENDS Naturals, Sequences

VARIABLES
  elems,   \* the elements of the list, in order
  ret      \* the value the last operation returned, or Nothing

Nothing == "nothing"

Init == elems = << >> /\ ret = Nothing

Positions == 0 .. Len(elems) - 1

(* "Insert at the end of a linked list". *)
Add(v) == elems' = Append(elems, v) /\ ret' = Nothing

(* "Insert at the front of a linked list". *)
Prepend(v) == elems' = <<v>> \o elems /\ ret' = Nothing

(* "0 means before the first element and n means after the last element". *)
Insert(index, v) ==
  /\ elems' = SubSeq(elems, 1, index) \o <<v>> \o SubSeq(elems, index + 1, Len(elems))
  /\ ret' = Nothing

(* "Remove an element from a linked list [...] return the value removed". *)
Remove(index) ==
  /\ index \in Positions
  /\ elems' = SubSeq(elems, 1, index) \o SubSeq(elems, index + 2, Len(elems))
  /\ ret' = elems[index + 1]

Get(index) == index \in Positions /\ ret' = elems[index + 1] /\ UNCHANGED elems

Clear == elems' = << >> /\ ret' = Nothing

(* With a function that stores v. *)
ApplyToAll(v) == elems' = [i \in DOMAIN elems |-> v] /\ ret' = Nothing

(* An iterator is made, or set back: the list is as it was. *)
LookOnly == ret' = Nothing /\ UNCHANGED elems
=============================================================================
