----------------------------- MODULE MCCollector -----------------------------
(***************************************************************************)
(* Collector for TLC, and what one of its assertions says.                 *)
(***************************************************************************)
EXTENDS Collector

(* gc.c:415 asserts that the copy of an object has a new address.          *)
NewObjectElsewhere == pc # "not moved"
=============================================================================
