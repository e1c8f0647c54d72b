------------------------------- MODULE Arena --------------------------------
(***************************************************************************)
(* What gc.h:27-28 and gc.h:106-136 promise of the heap between two        *)
(* collections: every object gets bytes of its own inside the heap, the    *)
(* returned pointer points into them, and a request that cannot be served  *)
(* returns NULL and changes nothing.  A collection gives all bytes back.   *)
(***************************************************************************)
EXTENDS Integers

CONSTANTS
  Size,   \* bytes of the heap
  Null    \* the answer to a refused request

VARIABLES
  taken,   \* the regions in use, records of a first byte and the byte after
  answer   \* what the last request returned

arena == <<taken, answer>>

Disjoint(r, s) == r.hi <= s.lo \/ s.hi <= r.lo

Init == taken = {} /\ answer = Null

(* A region that overlaps no other is taken.  The new region is looked for *)
(* in the new value of taken, so that TLC need not try every region.       *)
Take ==
  \E r \in taken' :
    /\ taken' = taken \cup {r} /\ r \notin taken
    /\ 0 <= r.lo /\ r.lo < r.hi /\ r.hi <= Size
    /\ \A s \in taken : Disjoint(r, s)
    /\ r.lo < answer' /\ answer' < r.hi

Decline == answer' = Null /\ UNCHANGED taken

GiveBack == taken' = {} /\ UNCHANGED answer

Next == Take \/ Decline \/ GiveBack

Spec == Init /\ [][Next]_arena
=============================================================================
