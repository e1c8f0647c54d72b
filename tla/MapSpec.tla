------------------------------- MODULE MapSpec -------------------------------
(***************************************************************************)
(* What src/demo/inlupp2/hash_table-dynamic.h promises of a hash table: a  *)
(* map from its keys to their values.  The operations are written from the *)
(* header's words, not from hash_table-dynamic.c.                          *)
(***************************************************************************)
CONSTANTS NULL

VARIABLES
  map,   \* function from the keys present to their values
  ret    \* the value the last operation returned

At(key) == IF key \in DOMAIN map THEN map[key] ELSE NULL

Init == map = << >> /\ ret = NULL

(* "Add key => value entry". *)
Insert(key, value) ==
  /\ map' = [k \in DOMAIN map \cup {key} |-> IF k = key THEN value ELSE map[k]]
  /\ ret' = NULL

Lookup(key) == ret' = At(key) /\ UNCHANGED map

(* "Remove any mapping from key to a value", "return the value mapped to". *)
Remove(key) == ret' = At(key) /\ map' = [k \in DOMAIN map \ {key} |-> map[k]]

Clear == map' = << >> /\ ret' = NULL

(* With a function that stores value. *)
Overwrite(value) == map' = [k \in DOMAIN map |-> value] /\ ret' = NULL
=============================================================================
