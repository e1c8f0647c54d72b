------------------------------- MODULE MCHeap -------------------------------
(***************************************************************************)
(* Heap for TLC: what the documentation and the tests say of it.           *)
(***************************************************************************)
EXTENDS Heap, SequencesExt

(* gc.h:27-28: alloc_front "pekar alltid pa nasta lediga byte i den aktiva *)
(* arean" (always points to the next free byte of the active area): it is  *)
(* not inside a block.                                                     *)
FrontIsFree ==
  \A i \in 1 .. Len(objs) : ~(objs[i].hdr <= front /\ front < EndOf(objs[i]))

(* traverse_stack_test.c:151: validate_ptr accepts the pointer a struct    *)
(* allocation has just returned.                                           *)
FreshPointerIsValid ==
  \A i \in 1 .. Len(objs) : objs[i].kind = "struct" => validate_ptr(DataOf(objs[i]))

(* The bytes of the blocks placed since the last reset, each with its      *)
(* header and footer.                                                      *)
Taken == FoldLeft(LAMBDA sum, b : sum + Footprint(b.size), 0, objs)

(* gc.h:141-142: a collection "is otherwise run when an allocation is      *)
(* impossible in the available consecutive free memory", and the tests     *)
(* (gc_test.c:310-312, 384-387, 452-455) count each block once, with       *)
(* header and footer, in h_used and h_avail.  A raw request, which is cut  *)
(* off by no space, is then refused only when the heap has no bytes for it.*)
RefusedOnlyWhenFull ==
  [][\A bytes \in RawSizes :
       h_alloc_raw(bytes) /\ bytes > 0 /\ ret' = NULL
         => Taken + Footprint(bytes) > HeapSize]_vars
=============================================================================
