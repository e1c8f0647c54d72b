---------------------------- MODULE MCLinkedList ----------------------------
(***************************************************************************)
(* LinkedList for TLC.                                                     *)
(***************************************************************************)
EXTENDS LinkedList, TLC

(* Values are only stored and handed back; the properties are safety.      *)
Symmetry == Permutations(Values)

(* linked_list.h:36, "Insert at the end of a linked list in O(1) time":    *)
(* the new value is the last element, behind those that were there.        *)
AppendsAtEnd ==
  [][\A v \in Values : ioopm_linked_list_append(v) => elems' = Append(elems, v)]_listVars
=============================================================================
