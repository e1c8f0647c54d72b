----------------------------- MODULE HashTable -----------------------------
(***************************************************************************)
(* The hash table of src/demo/inlupp2/hash_table-dynamic.c, with hash_int  *)
(* and compare_int.  An entry belongs to one bucket, so a bucket is the    *)
(* sequence of its entries and a pointer to an entry is its place there.   *)
(* Memory is disjoint and zero when it is allocated (see README.md).       *)
(*                                                                         *)
(* A grown table has memory for three buckets, however many it counts.     *)
(* Once one of the others is touched, any word of the heap may have been   *)
(* taken for an entry, or overwritten: the model stops there (wild).       *)
(***************************************************************************)
EXTENDS Integers, SequencesExt

CONSTANTS
  Keys,              \* integers
  Values,            \* what is stored, NULL among it
  NULL,
  InitialCapacity    \* the capacity ioopm_hash_table_create_dynamic is given

ASSUME TableAssumption ==
  Keys \subseteq Int /\ NULL \in Values /\ InitialCapacity \in 1 .. 17

VARIABLES
  buckets,    \* 0 .. capacity - 1 -> entries, the first one first
  words,      \* the buckets there is memory for
  capacity,
  size,
  ret,        \* the value the last operation returned
  wild        \* a bucket outside the memory was touched

tableVars == <<buckets, words, capacity, size, ret, wild>>

entry == [key : Keys, value : Values]

-----------------------------------------------------------------------------
(* The remainder of C has the sign of key. *)
Remainder(key, n) == IF key >= 0 THEN key % n ELSE -((-key) % n)

hash_int(key, n) ==
  LET index == Remainder(key, n)
  IN  IF index < 0 THEN index + n ELSE index

primes == <<17, 31, 67, 127, 257, 509, 1021, 2053, 4099, 8191, 16381>>

find_next_capacity(n) ==
  IF n >= Last(primes) THEN Last(primes)
  ELSE primes[CHOOSE i \in DOMAIN primes :
                primes[i] > n /\ \A j \in 1 .. i - 1 : primes[j] <= n]

Bucket(key) == buckets[hash_int(key, capacity)]

(* Only the first entry is compared. *)
find_previous_entry_for_key_First(chain, key) == 0

(* The place before the first entry with the key.  0 stands for NULL, which *)
(* the code returns both when that is the head and when there is none.     *)
find_previous_entry_for_key(chain, key) ==
  LET hits == {i \in DOMAIN chain : chain[i].key = key}
  IN  IF hits = {} THEN 0 ELSE (CHOOSE i \in hits : \A j \in hits : i <= j) - 1

(* The entry behind the previous one is looked at once more. *)
Found(chain, key) ==
  LET current == find_previous_entry_for_key(chain, key) + 1
  IN  current \in DOMAIN chain /\ chain[current].key = key

lookup(key) ==
  IF Found(Bucket(key), key)
    THEN Bucket(key)[find_previous_entry_for_key(Bucket(key), key) + 1].value
    ELSE NULL

(* The walk over all buckets, which _keys, _values, _any and _all take. *)
Places == UNION {{b} \X DOMAIN buckets[b] : b \in DOMAIN buckets}
EntryAt(p) == buckets[p[1]][p[2]]

ioopm_hash_table_keys == {EntryAt(p).key : p \in Places}
ioopm_hash_table_has_key(key) == \E p \in Places : EntryAt(p).key = key

-----------------------------------------------------------------------------
GrownWords == 3

(* The entries are chained as they were, not by their new index. *)
Rehashed_OldIndex(n) ==
  [b \in 0 .. n - 1 |-> IF b < capacity THEN Reverse(buckets[b]) ELSE << >>]

Chained(table, e, n) == [table EXCEPT ![hash_int(e.key, n)] = <<e>> \o @]

(* The inner loop: a chain is taken apart from its front. *)
PushAll(table, chain, n) ==
  LET moved[k \in 0 .. Len(chain)] ==
        IF k = 0 THEN table ELSE Chained(moved[k - 1], chain[k], n)
  IN  moved[Len(chain)]

(* In the order of the walk each entry goes to the front of its new bucket. *)
Rehashed(n) ==
  LET grown[i \in 0 .. capacity] ==
        IF i = 0 THEN [b \in 0 .. n - 1 |-> << >>]
        ELSE PushAll(grown[i - 1], buckets[i - 1], n)
  IN  grown[capacity]

Put(table, n, key, value) ==
  LET b == hash_int(key, n)
      chain == table[b]
      prev == find_previous_entry_for_key(chain, key)
  IN  [table EXCEPT ![b] =
         IF Found(chain, key) THEN [chain EXCEPT ![prev + 1].value = value]
         ELSE <<[key |-> key, value |-> value]>> \o chain]

(* An update is counted, too. *)
Counted_Update(table, n, key) == size + 1

Counted(table, n, key) ==
  IF Found(table[hash_int(key, n)], key) THEN size ELSE size + 1

(* The table grows also before an update. *)
hash_table_grow ==
  LET n == find_next_capacity(capacity)
  IN  [capacity |-> n, words |-> GrownWords, buckets |-> Rehashed(n),
       wild |-> capacity > words \/ \E e \in Places : hash_int(EntryAt(e).key, n) >= GrownWords]

Ready ==
  IF 4 * (size + 1) >= 3 * capacity THEN hash_table_grow
  ELSE [capacity |-> capacity, words |-> words, buckets |-> buckets, wild |-> FALSE]

ioopm_hash_table_insert(key, value) ==
  /\ ~wild
  /\ LET table == Ready IN
     /\ capacity' = table.capacity /\ words' = table.words
     /\ buckets' = Put(table.buckets, table.capacity, key, value)
     /\ size' = Counted(table.buckets, table.capacity, key)
     /\ wild' = (table.wild \/ hash_int(key, table.capacity) >= table.words)
  /\ ret' = NULL

Read(key) == wild' = (hash_int(key, capacity) >= words)
ReadAll == wild' = (capacity > words)

ioopm_hash_table_lookup(key) ==
  /\ ~wild
  /\ ret' = lookup(key) /\ Read(key)
  /\ UNCHANGED <<buckets, words, capacity, size>>

(* size is lowered before the look up. *)
ioopm_hash_table_remove_Eager(key) ==
  /\ ~wild
  /\ ret' = lookup(key) /\ Read(key)
  /\ size' = size - 1
  /\ buckets' = [buckets EXCEPT ![hash_int(key, capacity)] =
                   SelectSeq(@, LAMBDA e : e.key # key)]
  /\ UNCHANGED <<words, capacity>>

ioopm_hash_table_remove(key) ==
  /\ ~wild
  /\ ret' = lookup(key) /\ Read(key)
  /\ \/ /\ lookup(key) # NULL
        /\ size' = size - 1
        /\ buckets' = [buckets EXCEPT ![hash_int(key, capacity)] =
                         RemoveAt(@, find_previous_entry_for_key(@, key) + 1)]
     \/ lookup(key) = NULL /\ UNCHANGED <<buckets, size>>
  /\ UNCHANGED <<words, capacity>>

ioopm_hash_table_clear ==
  /\ ~wild
  /\ buckets' = [b \in DOMAIN buckets |-> << >>]
  /\ size' = 0
  /\ ret' = NULL /\ ReadAll
  /\ UNCHANGED <<words, capacity>>

(* With a function that stores value.  ioopm_hash_table_any, _all, _keys   *)
(* and _values take the same walk and change nothing.                      *)
ioopm_hash_table_apply_to_all(value) ==
  /\ ~wild
  /\ buckets' = [b \in DOMAIN buckets |->
                   [i \in DOMAIN buckets[b] |-> [buckets[b][i] EXCEPT !.value = value]]]
  /\ ret' = NULL /\ ReadAll
  /\ UNCHANGED <<words, capacity, size>>

-----------------------------------------------------------------------------
(* Whatever the capacity, 17 buckets are allocated. *)
TableInit ==   \* ioopm_hash_table_create_dynamic
  /\ capacity = InitialCapacity /\ words = 17
  /\ buckets = [b \in 0 .. InitialCapacity - 1 |-> << >>]
  /\ size = 0 /\ ret = NULL /\ wild = FALSE

TableNext ==
  \/ \E key \in Keys : \/ ioopm_hash_table_lookup(key)
                       \/ ioopm_hash_table_remove(key)
                       \/ \E v \in Values : ioopm_hash_table_insert(key, v)
  \/ ioopm_hash_table_clear
  \/ \E v \in Values : ioopm_hash_table_apply_to_all(v)

TableSpec == TableInit /\ [][TableNext]_tableVars
-----------------------------------------------------------------------------
(* One sequence of entries for each bucket; the capacity is the first one  *)
(* or a prime of find_next_capacity; size, a size_t, never wraps.          *)
TableTypeOK ==
  /\ capacity \in {InitialCapacity} \cup ToSet(primes)
  /\ words \in {17, GrownWords}
  /\ buckets \in [0 .. capacity - 1 -> Seq(entry)]
  /\ size \in Nat
  /\ ret \in Values /\ wild \in BOOLEAN

(* Through updates, growth and removals that find nothing, size is the     *)
(* number of entries, and no key has two (hash_table-dynamic.c:116-173).   *)
SizeCounts ==
  ~wild => /\ size = Cardinality(Places)
           /\ size = Cardinality(ioopm_hash_table_keys)

(* The search of one bucket finds what a walk over all of them finds,      *)
(* whatever the sign of the key and however the table has grown            *)
(* (hash_table-dynamic.c:57-72, 96-114, 175-198; common.c:26-32).          *)
LookupFinds ==
  ~wild => \A key \in Keys :
             /\ Found(Bucket(key), key) = ioopm_hash_table_has_key(key)
             /\ \A p \in Places : EntryAt(p).key = key => lookup(key) = EntryAt(p).value

(* The keys and values in the table. *)
contents == [key \in ioopm_hash_table_keys |-> lookup(key)]

M == INSTANCE MapSpec WITH map <- contents

(* The code takes a key whose value is NULL for one that is not there: it  *)
(* is not removed (hash_table-dynamic.c:144).                              *)
NullStays(key) ==
  /\ key \in DOMAIN contents /\ contents[key] = NULL
  /\ ret' = NULL /\ UNCHANGED contents

(* Each operation on buckets, and the one of the map it has to be. *)
KeepsMap ==
  /\ \A key \in Keys :
       /\ ioopm_hash_table_lookup(key) => M!Lookup(key)
       /\ ioopm_hash_table_remove(key) => M!Remove(key) \/ NullStays(key)
       /\ \A v \in Values : ioopm_hash_table_insert(key, v) => M!Insert(key, v)
  /\ ioopm_hash_table_clear => M!Clear
  /\ \A v \in Values : ioopm_hash_table_apply_to_all(v) => M!Overwrite(v)

(* As long as no bucket outside the memory was touched, every operation    *)
(* does to the keys and values in the table what hash_table-dynamic.h says *)
(* of it, growth included: no entry is lost, none appears, and none of the *)
(* others changes (hash_table-dynamic.c:96-213, 276-284).  One promise is  *)
(* not kept, and named here: "remove any mapping from key to a value"      *)
(* (hash_table-dynamic.h:60) when the value is NULL.                       *)
ImplementsMap == M!Init /\ [][~wild' => KeepsMap]_tableVars
=============================================================================
