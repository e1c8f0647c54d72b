---------------------------- MODULE MCHashTable ----------------------------
(***************************************************************************)
(* HashTable for TLC.                                                      *)
(***************************************************************************)
EXTENDS HashTable

(* Two buckets with several keys, a negative key, and keys that a grown    *)
(* table has room for or not.                                              *)
MCKeys == {0, 5, 17, 34, -4, -34}
=============================================================================
