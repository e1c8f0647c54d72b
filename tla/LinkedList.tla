----------------------------- MODULE LinkedList -----------------------------
(***************************************************************************)
(* The list of src/demo/inlupp2/linked_list.c as it lies in memory: links, *)
(* first, last and size, and one iterator.  A pointer is the position of a *)
(* link in the order of allocation.  The store never collects, so a link   *)
(* comes from memory nobody has written to, and its next is NULL until     *)
(* somebody sets it -- linked_list.c never clears it.                      *)
(***************************************************************************)
EXTENDS Integers, Sequences

CONSTANTS
  Values,    \* what the list holds
  MaxLinks   \* bound: links ever allocated

ASSUME ListAssumption == MaxLinks \in Nat

VARIABLES
  link,    \* the links allocated so far
  first, last, size,
  cur,     \* current of the iterator, or NoIter
  ret,     \* what the last operation returned
  fault,   \* NULL was followed: the program is dead
  sound    \* history: no element was asked of an empty list, no iterator used
           \* on a link the list does not have, nor the last link removed by one

listVars == <<link, first, last, size, cur, ret, fault, sound>>

NULL == 0
NoIter == -1
Nothing == "nothing"
Pointers == 0 .. MaxLinks

NextOf(p) == link[p].next

(* The walk of find_link, stopped by NULL. *)
find_link[index \in 0 .. MaxLinks + 1] ==
  IF index = 0 THEN first
  ELSE IF find_link[index - 1] = NULL THEN NULL ELSE NextOf(find_link[index - 1])

(* The links between first and NULL, in order. *)
Length == CHOOSE n \in Pointers : find_link[n] = NULL /\ (n = 0 \/ find_link[n - 1] # NULL)
Linked == {find_link[i] : i \in 0 .. Length - 1}

NewLink(v) == Len(link) + 1
WithNew(v, next) == Append(link, [value |-> v, next |-> next])

(* No property speaks of a list that has been misused: its behaviours are  *)
(* not followed any further.                                               *)
Alive == ~fault /\ sound
Fault == fault' = TRUE /\ UNCHANGED <<link, first, last, size, cur, ret, sound>>
Return(v) == ret' = v /\ UNCHANGED fault

-----------------------------------------------------------------------------
Only(v) == link' = WithNew(v, NULL) /\ first' = NewLink(v) /\ last' = NewLink(v)

ioopm_linked_list_append(v) ==
  /\ Alive /\ Len(link) < MaxLinks
  /\ \/ size = 0 /\ Only(v)
     \/ /\ size # 0
        /\ link' = [WithNew(v, NULL) EXCEPT ![last].next = NewLink(v)]
        /\ last' = NewLink(v)
        /\ UNCHANGED first
  /\ size' = size + 1
  /\ Return(Nothing) /\ UNCHANGED <<cur, sound>>

ioopm_linked_list_prepend(v) ==
  /\ Alive /\ Len(link) < MaxLinks
  /\ \/ size = 0 /\ Only(v)
     \/ /\ size # 0
        /\ link' = WithNew(v, first)
        /\ first' = NewLink(v)
        /\ UNCHANGED last
  /\ size' = size + 1
  /\ Return(Nothing) /\ UNCHANGED <<cur, sound>>

(* An index before the list names its first element, one behind it the     *)
(* link last.                                                              *)
Named(index) ==
  IF index < 0 THEN first ELSE IF index > size - 1 THEN last ELSE find_link[index]

(* Three ways to get it wrong: the predecessor is looked for one too far;  *)
(* the last link is unlinked, too, and last forgotten; the test is about   *)
(* the index instead of the link.                                          *)
Unlink_WrongPrev(index, p) ==
  IF index = 0
    THEN first' = NextOf(p) /\ UNCHANGED link
    ELSE link' = [link EXCEPT ![p].next = NextOf(p)] /\ UNCHANGED first

Unlink_LastToo(index, p) ==
  IF index = 0
    THEN first' = NextOf(p) /\ UNCHANGED link
    ELSE link' = [link EXCEPT ![find_link[index - 1]].next = NextOf(p)] /\ UNCHANGED first

Unlink_ByIndex(index, p) ==
  IF index = 0
    THEN first' = NextOf(p) /\ UNCHANGED link
    ELSE /\ link' = IF index = size - 1 THEN link
                    ELSE [link EXCEPT ![find_link[index - 1]].next = NextOf(p)]
         /\ UNCHANGED first

(* The last of several is not unlinked, and last is not touched. *)
Unlink(index, p) ==
  \/ index = 0 /\ first' = NextOf(p) /\ UNCHANGED link
  \/ /\ index # 0 /\ NextOf(p) # NULL
     /\ link' = [link EXCEPT ![find_link[index - 1]].next = NextOf(p)]
     /\ UNCHANGED first
  \/ index # 0 /\ NextOf(p) = NULL /\ UNCHANGED <<link, first>>

ioopm_linked_list_remove(index) ==
  /\ Alive
  /\ LET p == Named(index) IN
     \/ p = NULL /\ Fault
     \/ /\ p # NULL
        /\ \/ /\ index \in 0 .. size - 1
              /\ Unlink(index, p)
              /\ size' = size - 1
           \/ index \notin 0 .. size - 1 /\ UNCHANGED <<link, first, size>>
        /\ Return(link[p].value) /\ sound' = (sound /\ size # 0)
        /\ UNCHANGED <<last, cur>>

ioopm_linked_list_get(index) ==
  /\ Alive
  /\ LET p == Named(index) IN
     \/ p = NULL /\ Fault
     \/ /\ p # NULL
        /\ Return(link[p].value) /\ sound' = (sound /\ size # 0)
        /\ UNCHANGED <<link, first, last, size, cur>>

ioopm_linked_list_clear_SizeOnly ==
  /\ Alive
  /\ size' = 0
  /\ Return(Nothing) /\ UNCHANGED <<link, first, last, cur, sound>>

ioopm_linked_list_clear ==
  /\ Alive
  /\ first' = NULL /\ last' = NULL /\ size' = 0
  /\ Return(Nothing) /\ UNCHANGED <<link, cur, sound>>

(* With a function that stores v.  The loops of _contains, _all and _any   *)
(* take the same walk, and change nothing.  WalksStayInside says that it   *)
(* does not meet NULL.                                                     *)
ioopm_linked_list_apply_to_all(v) ==
  /\ Alive
  /\ link' = [p \in DOMAIN link |->
               IF \E i \in 0 .. size - 1 : find_link[i] = p
                 THEN [link[p] EXCEPT !.value = v] ELSE link[p]]
  /\ Return(Nothing) /\ UNCHANGED <<first, last, size, cur, sound>>

-----------------------------------------------------------------------------
SameList == UNCHANGED <<link, first, last, size>>

(* ioopm_list_iterator, and ioopm_iterator_reset. *)
ioopm_list_iterator ==
  /\ Alive
  /\ cur' = first
  /\ Return(Nothing) /\ SameList /\ UNCHANGED sound

ioopm_iterator_current ==
  /\ Alive /\ cur # NoIter
  /\ \/ cur = NULL /\ Fault
     \/ /\ cur # NULL
        /\ Return(link[cur].value) /\ sound' = (sound /\ cur \in Linked)
        /\ SameList /\ UNCHANGED cur

(* At the last link the iterator stays where it is. *)
ioopm_iterator_next ==
  /\ Alive /\ cur # NoIter
  /\ \/ cur = NULL /\ Fault
     \/ /\ cur # NULL
        /\ cur' = IF NextOf(cur) # NULL THEN NextOf(cur) ELSE cur
        /\ Return(link[cur'].value) /\ sound' = (sound /\ cur' \in Linked)
        /\ SameList

ioopm_iterator_insert(v) ==
  /\ Alive /\ cur # NoIter /\ Len(link) < MaxLinks
  /\ \/ size # 0 /\ cur = NULL /\ Fault
     \/ /\ size = 0 /\ Only(v)
        /\ cur' = NewLink(v) /\ size' = 1
        /\ Return(Nothing) /\ UNCHANGED sound
     \/ /\ size # 0 /\ cur # NULL
        /\ \/ cur = last /\ link' = [WithNew(v, NULL) EXCEPT ![cur].next = NewLink(v)]
                         /\ last' = NewLink(v)
           \/ cur # last /\ link' = [WithNew(v, NextOf(cur)) EXCEPT ![cur].next = NewLink(v)]
                         /\ UNCHANGED last
        /\ cur' = NewLink(v) /\ size' = size + 1
        /\ Return(Nothing) /\ sound' = (sound /\ cur \in Linked) /\ UNCHANGED first

(* The element behind the current one goes; last is not touched, and the   *)
(* size goes down also when the list does not show that element.           *)
ioopm_iterator_remove ==
  /\ Alive /\ cur # NoIter
  /\ \/ cur = NULL /\ Fault
     \/ cur # NULL /\ NextOf(cur) = NULL /\ Fault
     \/ /\ cur # NULL /\ NextOf(cur) # NULL
        /\ link' = [link EXCEPT ![cur].next = NextOf(NextOf(cur))]
        /\ size' = size - 1
        /\ Return(link[NextOf(cur)].value)
        /\ sound' = (sound /\ cur \in Linked /\ NextOf(cur) # last)
        /\ UNCHANGED <<first, last, cur>>

-----------------------------------------------------------------------------
ListInit ==   \* ioopm_linked_list_create
  /\ link = << >>
  /\ first = NULL /\ last = NULL /\ size = 0
  /\ cur = NoIter
  /\ ret = Nothing /\ fault = FALSE /\ sound = TRUE

ListNext ==
  \/ \E v \in Values : \/ ioopm_linked_list_append(v)
                       \/ ioopm_linked_list_prepend(v)
                       \/ ioopm_linked_list_apply_to_all(v)
                       \/ ioopm_iterator_insert(v)
  \/ \E index \in -1 .. size : \/ ioopm_linked_list_remove(index)
                               \/ ioopm_linked_list_get(index)
  \/ ioopm_linked_list_clear
  \/ ioopm_list_iterator
  \/ ioopm_iterator_current
  \/ ioopm_iterator_next
  \/ ioopm_iterator_remove

ListSpec == ListInit /\ [][ListNext]_listVars
-----------------------------------------------------------------------------
(* Pointers are pointers, and size, an int, does not go below zero while   *)
(* the list is used soundly.                                               *)
ListTypeOK ==
  /\ link \in Seq([value : Values, next : Pointers])
  /\ first \in Pointers /\ last \in Pointers /\ cur \in Pointers \cup {NoIter}
  /\ size \in Int /\ (sound => size >= 0)
  /\ ret \in Values \cup {Nothing}
  /\ fault \in BOOLEAN /\ sound \in BOOLEAN

(* The values along the links, and the size: what Chain is about, and the  *)
(* elements the list shows, which is what linked_list.h is about.          *)
chain ==
  [links |-> [i \in 1 .. Length |-> link[find_link[i - 1]].value], size |-> size]

C == INSTANCE Chain
elems == C!Shown(chain)

P == INSTANCE ListPromise

(* The iterator is at the link with this index. *)
At(index) == find_link[index] = cur

(* Operation by operation, what a list does that is used soundly.  Two     *)
(* things are left open, for there the code does not do what its headers   *)
(* say (README, findings).  A removed last element stays behind, hidden,   *)
(* and an append then shows it again in place of the new one               *)
(* (linked_list.c:149; AppendsAtEnd).  And an iterator inserts and removes *)
(* behind its element, where iterator.h:24-30 says before and at it; of an *)
(* iterator that has gone on to a hidden link nothing is said.             *)
KeepsPromise ==
  /\ \A v \in Values :
       /\ ioopm_linked_list_append(v) /\ (size = 0 \/ ~C!Hidden(chain)) => P!Add(v)
       /\ ioopm_linked_list_prepend(v) => P!Prepend(v)
       /\ ioopm_linked_list_apply_to_all(v) => P!ApplyToAll(v)
       /\ ioopm_iterator_insert(v) =>
            /\ size = 0 => P!Insert(0, v)
            /\ \A index \in 0 .. size - 1 : At(index) => P!Insert(index + 1, v)
  /\ \A index \in -1 .. size :
       /\ ioopm_linked_list_remove(index) =>
            IF index \in P!Positions THEN P!Remove(index) ELSE UNCHANGED elems
       /\ ioopm_linked_list_get(index) =>
            IF index \in P!Positions THEN P!Get(index) ELSE UNCHANGED elems
  /\ ioopm_linked_list_clear => P!Clear
  /\ ioopm_list_iterator => P!LookOnly
  /\ ioopm_iterator_current \/ ioopm_iterator_next =>
       /\ UNCHANGED elems
       /\ \A index \in 0 .. size - 1 : At(index)' => P!Get(index)
  /\ ioopm_iterator_remove =>
       \E index \in 0 .. size - 2 : At(index) /\ P!Remove(index + 1)

(* Used soundly, the list with its links and pointers keeps the promises   *)
(* of linked_list.h, each operation its own, except where KeepsPromise     *)
(* says otherwise (linked_list.c:20-163, 213-219).                         *)
ImplementsList == P!Init /\ [][sound' /\ ~fault' => KeepsPromise]_listVars

(* The loops that run to size never leave the links, and the pointer last  *)
(* is where the next append belongs -- whatever elements were removed and  *)
(* wherever an iterator put new ones.                                      *)
WalksStayInside ==
  sound => /\ size <= Length
           /\ size # 0 => last = find_link[Length - 1]

(* However often the last element is removed, one link at most is hidden   *)
(* behind those the list shows: the next removal at the end does unlink    *)
(* (linked_list.c:142-149).                                                *)
OneHiddenAtMost == sound => Length - size <= 1
=============================================================================
