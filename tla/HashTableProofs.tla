-------------------------- MODULE HashTableProofs --------------------------
(***************************************************************************)
(* Proofs about HashTable: the table holds one entry for each key of a     *)
(* finite map, in the bucket of that key, through every operation and      *)
(* through growth; so its size counts, its search finds, and it            *)
(* implements MapSpec with any keys and values.                            *)
(***************************************************************************)
EXTENDS HashTable, InductionProofs, FiniteSetTheorems

(* The n chains of table hold each key of the map m once, with its value   *)
(* and in its bucket, and nothing else.                                    *)
Chains(table, n) ==
  /\ n \in Nat \ {0}
  /\ table \in [0 .. n - 1 -> Seq(entry)]

InPlace(table, n, m) ==
  \A b \in 0 .. n - 1 : \A i \in 1 .. Len(table[b]) :
    /\ table[b][i].key \in DOMAIN m
    /\ table[b][i].value = m[table[b][i].key]
    /\ hash_int(table[b][i].key, n) = b

Present(table, n, m) ==
  \A k \in DOMAIN m : \E i \in 1 .. Len(table[hash_int(k, n)]) :
    table[hash_int(k, n)][i].key = k

(* No chain has a key twice. *)
Distinct(chain) ==
  \A i, j \in 1 .. Len(chain) : chain[i].key = chain[j].key => i = j

MapOfKeys(m) == m \in [DOMAIN m -> Values] /\ DOMAIN m \subseteq Keys

Holds(table, n, m) ==
  /\ Chains(table, n)
  /\ MapOfKeys(m)
  /\ InPlace(table, n, m)
  /\ Present(table, n, m)
  /\ \A b \in 0 .. n - 1 : Distinct(table[b])

TableInv ==
  /\ TableTypeOK
  /\ Holds(buckets, capacity, contents)
  /\ IsFiniteSet(DOMAIN contents)
  /\ size = Cardinality(DOMAIN contents)
-----------------------------------------------------------------------------
(* hash_int leads into the table, also for a negative key.                 *)
LEMMA HashInTable ==
  ASSUME NEW key \in Int, NEW n \in Nat \ {0}
  PROVE  hash_int(key, n) \in 0 .. n - 1
<1>1. CASE key >= 0
  <2>1. key % n \in 0 .. n - 1
    BY <1>1
  <2>2. Remainder(key, n) = key % n
    BY <1>1 DEF Remainder
  <2> QED BY <2>1, <2>2 DEF hash_int
<1>2. CASE key < 0
  <2>1. (-key) % n \in 0 .. n - 1
    BY <1>2
  <2>2. Remainder(key, n) = -((-key) % n)
    BY <1>2 DEF Remainder
  <2> QED BY <2>1, <2>2 DEF hash_int
<1> QED BY <1>1, <1>2

(* The search of a chain stops before the entry with the key.              *)
LEMMA SearchFinds ==
  ASSUME NEW chain \in Seq(entry), Distinct(chain), NEW i \in 1 .. Len(chain)
  PROVE  /\ find_previous_entry_for_key(chain, chain[i].key) = i - 1
         /\ Found(chain, chain[i].key)
<1> DEFINE key == chain[i].key
           hits == {j \in DOMAIN chain : chain[j].key = key}
<1>1. DOMAIN chain = 1 .. Len(chain)
  OBVIOUS
<1>2. hits = {i}
  BY <1>1 DEF Distinct
<1>3. (CHOOSE j \in hits : \A k \in hits : j <= k) = i
  <2>1. \A k \in hits : i <= k
    BY <1>2
  <2> HIDE DEF hits
  <2> QED BY <1>2, <2>1
<1>4. find_previous_entry_for_key(chain, key) = i - 1
  BY <1>2, <1>3 DEF find_previous_entry_for_key
<1> HIDE DEF key
<1>5. Found(chain, key)
  <2>1. (i - 1) + 1 = i
    OBVIOUS
  <2> QED BY <1>1, <1>4, <2>1 DEF Found, key
<1> QED BY <1>4, <1>5 DEF key

(* It finds nothing where no entry has the key.                            *)
LEMMA SearchMisses ==
  ASSUME NEW chain \in Seq(entry), NEW key, \A i \in 1 .. Len(chain) : chain[i].key # key
  PROVE  ~Found(chain, key)
BY DEF Found
-----------------------------------------------------------------------------
(* The keys and values that the walk and the search see in a table.        *)
KeysIn(table) == {table[p[1]][p[2]].key : p \in UNION {{b} \X DOMAIN table[b] : b \in DOMAIN table}}
ValueIn(table, n, key) ==
  LET chain == table[hash_int(key, n)]
  IN  IF Found(chain, key) THEN chain[find_previous_entry_for_key(chain, key) + 1].value ELSE NULL

(* What an entry of the table is. *)
LEMMA EntryFacts ==
  ASSUME NEW table, NEW n, NEW m, Holds(table, n, m), NEW b \in 0 .. n - 1,
         NEW i \in 1 .. Len(table[b])
  PROVE  /\ table[b] \in Seq(entry) /\ table[b][i] \in entry
         /\ table[b][i].key \in DOMAIN m /\ table[b][i].value = m[table[b][i].key]
         /\ hash_int(table[b][i].key, n) = b
<1>1. table[b] \in Seq(entry)
  BY DEF Holds, Chains
<1>2. table[b][i] \in entry
  BY <1>1
<1>3. InPlace(table, n, m)
  BY DEF Holds
<1> QED BY <1>1, <1>2, <1>3 DEF InPlace

(* A key of the map is found in its chain. *)
LEMMA KeyFound ==
  ASSUME NEW table, NEW n, NEW m, Holds(table, n, m), NEW key \in DOMAIN m
  PROVE  /\ key \in Keys /\ hash_int(key, n) \in 0 .. n - 1
         /\ \E i \in 1 .. Len(table[hash_int(key, n)]) :
              /\ table[hash_int(key, n)][i].key = key
              /\ find_previous_entry_for_key(table[hash_int(key, n)], key) = i - 1
         /\ Found(table[hash_int(key, n)], key)
         /\ ValueIn(table, n, key) = m[key]
<1> DEFINE b == hash_int(key, n)
           chain == table[b]
<1>1. key \in Keys /\ b \in 0 .. n - 1
  BY TableAssumption, HashInTable DEF Holds, MapOfKeys, Chains
<1>2. chain \in Seq(entry) /\ Distinct(chain)
  BY <1>1 DEF Holds, Chains
<1>3. PICK i \in 1 .. Len(chain) : chain[i].key = key
  BY DEF Holds, Present
<1>4. chain[i].value = m[key]
  <2>1. chain[i].value = m[chain[i].key]
    BY <1>1, <1>3, EntryFacts
  <2> QED BY <1>3, <2>1
<1> HIDE DEF chain
<1>5. find_previous_entry_for_key(chain, key) = i - 1 /\ Found(chain, key)
  BY <1>2, <1>3, SearchFinds
<1>6. (i - 1) + 1 = i
  OBVIOUS
<1>7. ValueIn(table, n, key) = m[key]
  BY <1>4, <1>5, <1>6 DEF ValueIn, chain
<1> QED BY <1>1, <1>3, <1>5, <1>7 DEF chain

(* Another key is not. *)
LEMMA KeyMissing ==
  ASSUME NEW table, NEW n, NEW m, Holds(table, n, m), NEW key \in Keys, key \notin DOMAIN m
  PROVE  /\ hash_int(key, n) \in 0 .. n - 1
         /\ \A i \in 1 .. Len(table[hash_int(key, n)]) : table[hash_int(key, n)][i].key # key
         /\ ~Found(table[hash_int(key, n)], key)
         /\ ValueIn(table, n, key) = NULL
<1> DEFINE b == hash_int(key, n)
<1>1. b \in 0 .. n - 1
  BY TableAssumption, HashInTable DEF Holds, Chains
<1> HIDE DEF b
<1>2. table[b] \in Seq(entry)
  BY <1>1 DEF Holds, Chains
<1>3. \A i \in 1 .. Len(table[b]) : table[b][i].key # key
  BY <1>1, EntryFacts
<1>4. ~Found(table[b], key)
  BY <1>2, <1>3, SearchMisses
<1> QED BY <1>1, <1>3, <1>4 DEF ValueIn, b

(* The walk sees the keys of the map. *)
LEMMA KeysAre ==
  ASSUME NEW table, NEW n, NEW m, Holds(table, n, m)
  PROVE  KeysIn(table) = DOMAIN m
<1>1. DOMAIN table = 0 .. n - 1 /\ \A b \in 0 .. n - 1 : DOMAIN table[b] = 1 .. Len(table[b])
  BY DEF Holds, Chains
<1>2. ASSUME NEW key \in KeysIn(table) PROVE key \in DOMAIN m
  <2>1. PICK b \in 0 .. n - 1 : \E i \in 1 .. Len(table[b]) : key = table[b][i].key
    BY <1>1 DEF KeysIn
  <2> QED BY <2>1, EntryFacts
<1>3. ASSUME NEW key \in DOMAIN m PROVE key \in KeysIn(table)
  <2> DEFINE b == hash_int(key, n)
  <2>1. b \in 0 .. n - 1 /\ \E i \in 1 .. Len(table[b]) : table[b][i].key = key
    BY KeyFound
  <2> HIDE DEF b
  <2>2. PICK i \in 1 .. Len(table[b]) : table[b][i].key = key
    BY <2>1
  <2> DEFINE p == <<b, i>>
  <2>3. p \in UNION {{c} \X DOMAIN table[c] : c \in DOMAIN table}
    BY <1>1, <2>1
  <2>4. p[1] = b /\ p[2] = i
    OBVIOUS
  <2> HIDE DEF p
  <2> QED BY <2>2, <2>3, <2>4 DEF KeysIn
<1> QED BY <1>2, <1>3

(* So contents is the map that the buckets hold. *)
LEMMA ContentsAre ==
  ASSUME NEW table, NEW n, NEW m, Holds(table, n, m)
  PROVE  [key \in KeysIn(table) |-> ValueIn(table, n, key)] = m
<1>1. m = [key \in DOMAIN m |-> m[key]]
  BY DEF Holds, MapOfKeys
<1>2. \A key \in DOMAIN m : ValueIn(table, n, key) = m[key]
  BY KeyFound
<1>3. KeysIn(table) = DOMAIN m
  BY KeysAre
<1> QED BY <1>1, <1>2, <1>3
-----------------------------------------------------------------------------
(* The map with one key set, and without one.                              *)
Set(m, key, value) ==
  [k \in DOMAIN m \cup {key} |-> IF k = key THEN value ELSE m[k]]
Unset(m, key) == [k \in DOMAIN m \ {key} |-> m[k]]

(* An entry with a new key goes to the front of its bucket.                *)
LEMMA PushHolds ==
  ASSUME NEW table, NEW n, NEW m, Holds(table, n, m),
         NEW e \in entry, e.key \notin DOMAIN m
  PROVE  Holds(Chained(table, e, n), n, Set(m, e.key, e.value))
<1> DEFINE key == e.key
           c == hash_int(key, n)
           old == table[c]
           new == <<e>> \o old
           t == Chained(table, e, n)
           q == Set(m, key, e.value)
<1>1. key \in Keys /\ e.value \in Values
  BY DEF entry
<1>2. /\ c \in 0 .. n - 1
      /\ \A i \in 1 .. Len(old) : old[i].key # key
  BY <1>1, KeyMissing
<1>3. /\ \A b \in 0 .. n - 1 : table[b] \in Seq(entry)
      /\ table \in [0 .. n - 1 -> Seq(entry)]
      /\ Chains(table, n) /\ MapOfKeys(m)
      /\ \A b \in 0 .. n - 1 : Distinct(table[b])
  BY DEF Holds, Chains
<1>4. t = [table EXCEPT ![c] = new]
  BY DEF Chained
<1>5. old \in Seq(entry) /\ Len(old) \in Nat
  BY <1>2, <1>3
<1> HIDE DEF old, t
<1>6. /\ new \in Seq(entry) /\ Len(new) = Len(old) + 1 /\ new[1] = e
      /\ \A i \in 2 .. Len(old) + 1 : new[i] = old[i - 1] /\ i - 1 \in 1 .. Len(old)
  <2>1. new = Inserted(old, 0, e)
    BY <1>5, PrependInserts
  <2>2. 0 \in 0 .. Len(old)
    BY <1>5
  <2>3. new \in Seq(entry) /\ Len(new) = Len(old) + 1
    BY <1>5, <2>1, <2>2, InsertedFacts
  <2> HIDE DEF new
  <2>4. new[1] = e
    BY <1>5, <2>1 DEF Inserted
  <2>5. \A i \in 2 .. Len(old) + 1 : new[i] = old[i - 1] /\ i - 1 \in 1 .. Len(old)
    BY <1>5, <2>1 DEF Inserted
  <2> QED BY <2>3, <2>4, <2>5
<1> HIDE DEF new
<1>7. t \in [0 .. n - 1 -> Seq(entry)] /\ t[c] = new
      /\ \A b \in 0 .. n - 1 : b # c => t[b] = table[b]
  BY <1>2, <1>3, <1>4, <1>6
<1>8. DOMAIN q = DOMAIN m \cup {key} /\ q[key] = e.value
      /\ \A k \in DOMAIN m : k # key /\ q[k] = m[k]
  BY DEF Set
<1>9. MapOfKeys(q)
  <2>1. \A k \in DOMAIN m : m[k] \in Values
    BY <1>3 DEF MapOfKeys
  <2>2. q \in [DOMAIN q -> Values]
    BY <1>1, <2>1 DEF Set
  <2> QED BY <1>1, <1>3, <1>8, <2>2 DEF MapOfKeys
<1> HIDE DEF q, c, key
<1>10. InPlace(t, n, q)
  <2>1. ASSUME NEW b \in 0 .. n - 1, NEW i \in 1 .. Len(t[b])
        PROVE  /\ t[b][i].key \in DOMAIN q
               /\ t[b][i].value = q[t[b][i].key]
               /\ hash_int(t[b][i].key, n) = b
    <3>1. CASE b # c
      BY <1>7, <1>8, <3>1, EntryFacts
    <3>2. CASE b = c /\ i = 1
      BY <1>6, <1>7, <1>8, <3>2 DEF c, key
    <3>3. CASE b = c /\ i # 1
      <4>1. i \in 2 .. Len(old) + 1
        BY <1>5, <1>6, <1>7, <3>3
      <4>2. t[b][i] = table[c][i - 1] /\ i - 1 \in 1 .. Len(table[c])
        BY <1>6, <1>7, <3>3, <4>1 DEF old
      <4>3. /\ table[c][i - 1].key \in DOMAIN m
            /\ table[c][i - 1].value = m[table[c][i - 1].key]
            /\ hash_int(table[c][i - 1].key, n) = c
        BY <1>2, <4>2, EntryFacts
      <4> QED BY <1>8, <3>3, <4>2, <4>3
    <3> QED BY <3>1, <3>2, <3>3
  <2> QED BY <2>1 DEF InPlace
<1>11. Present(t, n, q)
  <2>1. ASSUME NEW k \in DOMAIN q
        PROVE  \E i \in 1 .. Len(t[hash_int(k, n)]) : t[hash_int(k, n)][i].key = k
    <3> DEFINE b == hash_int(k, n)
    <3>1. CASE k = key
      <4>1. b = c /\ 1 \in 1 .. Len(t[c]) /\ t[c][1].key = k
        BY <1>5, <1>6, <1>7, <3>1 DEF c, key
      <4> QED BY <4>1
    <3>2. CASE k # key
      <4>1. k \in DOMAIN m
        BY <1>8, <3>2
      <4>2. b \in 0 .. n - 1 /\ \E i \in 1 .. Len(table[b]) : table[b][i].key = k
        BY <4>1, KeyFound
      <4> HIDE DEF b
      <4>3. CASE b # c
        BY <1>7, <4>2, <4>3 DEF b
      <4>4. CASE b = c
        <5>1. PICK i \in 1 .. Len(old) : old[i].key = k
          BY <4>2, <4>4 DEF old
        <5>2. i + 1 \in 2 .. Len(old) + 1 /\ (i + 1) - 1 = i /\ i + 1 \in 1 .. Len(t[c])
          BY <1>5, <1>6, <1>7
        <5>3. t[c][i + 1].key = k
          BY <1>6, <1>7, <5>1, <5>2
        <5> QED BY <4>4, <5>2, <5>3 DEF b
      <4> QED BY <4>3, <4>4
    <3> QED BY <3>1, <3>2
  <2> QED BY <2>1 DEF Present
<1>12. ASSUME NEW b \in 0 .. n - 1 PROVE Distinct(t[b])
  <2>1. CASE b # c
    BY <1>3, <1>7, <2>1
  <2>2. CASE b = c
    <3>1. ASSUME NEW i \in 1 .. Len(new), NEW j \in 1 .. Len(new), new[i].key = new[j].key
          PROVE  i = j
      <4>1. \A k \in 1 .. Len(new) : k = 1 \/ k \in 2 .. Len(old) + 1
        BY <1>5, <1>6
      <4>2. \A k \in 2 .. Len(old) + 1 : new[k].key # key
        BY <1>2, <1>6 DEF old, c
      <4>3. new[1].key = key
        BY <1>6 DEF key
      <4>4. CASE i \in 2 .. Len(old) + 1 /\ j \in 2 .. Len(old) + 1
        <5>1. old[i - 1].key = old[j - 1].key /\ i - 1 \in 1 .. Len(old) /\ j - 1 \in 1 .. Len(old)
          BY <1>6, <3>1, <4>4
        <5>2. Distinct(old)
          BY <1>2, <1>3 DEF old
        <5>3. i - 1 = j - 1
          BY <5>1, <5>2 DEF Distinct
        <5> QED BY <4>4, <5>3
      <4> QED BY <3>1, <4>1, <4>2, <4>3, <4>4
    <3> QED BY <1>7, <2>2, <3>1 DEF Distinct
  <2> QED BY <2>1, <2>2
<1>13. Chains(t, n)
  BY <1>3, <1>7 DEF Chains
<1>14. Holds(t, n, q)
  BY <1>9, <1>10, <1>11, <1>12, <1>13 DEF Holds
<1> QED BY <1>14 DEF t, q, key

(* An entry whose key is there already gets the new value.                 *)
LEMMA WriteHolds ==
  ASSUME NEW table, NEW n, NEW m, Holds(table, n, m),
         NEW key \in DOMAIN m, NEW value \in Values
  PROVE  Holds(Put(table, n, key, value), n, Set(m, key, value))
<1> DEFINE c == hash_int(key, n)
           old == table[c]
           t == Put(table, n, key, value)
           q == Set(m, key, value)
<1>1. /\ key \in Keys /\ c \in 0 .. n - 1 /\ Found(old, key)
      /\ \E i \in 1 .. Len(old) :
           old[i].key = key /\ find_previous_entry_for_key(old, key) = i - 1
  BY KeyFound
<1>2. /\ \A b \in 0 .. n - 1 : table[b] \in Seq(entry)
      /\ table \in [0 .. n - 1 -> Seq(entry)]
      /\ Chains(table, n) /\ MapOfKeys(m)
      /\ \A b \in 0 .. n - 1 : Distinct(table[b])
  BY DEF Holds, Chains
<1>3. old \in Seq(entry) /\ Len(old) \in Nat
  BY <1>1, <1>2
<1> HIDE DEF old, c
<1>4. PICK p \in 1 .. Len(old) :
        old[p].key = key /\ find_previous_entry_for_key(old, key) = p - 1
  BY <1>1
<1> DEFINE new == [old EXCEPT ![p].value = value]
<1>5. t = [table EXCEPT ![c] = new]
  <2>1. (p - 1) + 1 = p
    OBVIOUS
  <2> QED BY <1>1, <1>4, <2>1 DEF Put, c, old
<1>6. /\ new \in Seq(entry) /\ Len(new) = Len(old)
      /\ \A i \in 1 .. Len(old) :
           /\ new[i].key = old[i].key
           /\ new[i].value = IF i = p THEN value ELSE old[i].value
  <2>1. \A i \in 1 .. Len(old) : old[i] \in [key : Keys, value : Values]
    <3>1. \A i \in 1 .. Len(old) : old[i] \in entry
      BY <1>3
    <3> QED BY <3>1 DEF entry
  <2>2. DOMAIN old = 1 .. Len(old)
    BY <1>3
  <2>3. ASSUME NEW i \in 1 .. Len(old)
        PROVE  /\ new[i] \in [key : Keys, value : Values]
               /\ new[i].key = old[i].key
               /\ new[i].value = IF i = p THEN value ELSE old[i].value
    <3>1. CASE i = p
      BY <2>1, <2>2, <3>1
    <3>2. CASE i # p
      BY <2>1, <2>2, <3>2
    <3> QED BY <3>1, <3>2
  <2>4. new \in [1 .. Len(old) -> entry]
    BY <2>2, <2>3 DEF entry
  <2> HIDE DEF new
  <2>5. new \in Seq(entry) /\ Len(new) = Len(old)
    BY <1>3, <2>4, FunctionIsSeq
  <2> QED BY <2>3, <2>5
<1> HIDE DEF new, t
<1>7. t \in [0 .. n - 1 -> Seq(entry)] /\ t[c] = new
      /\ \A b \in 0 .. n - 1 : b # c => t[b] = table[b]
  BY <1>1, <1>2, <1>5, <1>6
<1>8. DOMAIN q = DOMAIN m /\ q[key] = value
      /\ \A k \in DOMAIN m : k # key => q[k] = m[k]
  BY DEF Set
<1>9. MapOfKeys(q)
  <2>1. \A k \in DOMAIN m : m[k] \in Values
    BY <1>2 DEF MapOfKeys
  <2>2. q \in [DOMAIN q -> Values]
    BY <2>1 DEF Set
  <2> QED BY <1>2, <1>8, <2>2 DEF MapOfKeys
<1> HIDE DEF q
<1>10. InPlace(t, n, q)
  <2>1. ASSUME NEW b \in 0 .. n - 1, NEW i \in 1 .. Len(t[b])
        PROVE  /\ t[b][i].key \in DOMAIN q
               /\ t[b][i].value = q[t[b][i].key]
               /\ hash_int(t[b][i].key, n) = b
    <3>1. i \in 1 .. Len(table[b]) /\ t[b][i].key = table[b][i].key
      BY <1>6, <1>7 DEF old
    <3>2. /\ table[b][i].key \in DOMAIN m /\ hash_int(table[b][i].key, n) = b
          /\ table[b][i].value = m[table[b][i].key]
      BY <3>1, EntryFacts
    <3>3. CASE b # c
      <4>1. table[b][i].key # key
        BY <3>2, <3>3 DEF c
      <4> QED BY <1>7, <1>8, <3>2, <3>3, <4>1
    <3>4. CASE b = c /\ i = p
      BY <1>4, <1>6, <1>7, <1>8, <3>1, <3>2, <3>4
    <3>5. CASE b = c /\ i # p
      <4>1. table[b][i].key # key
        BY <1>2, <1>4, <3>1, <3>5 DEF Distinct, old
      <4>2. t[b][i].value = table[b][i].value
        BY <1>6, <1>7, <3>1, <3>5 DEF old
      <4> QED BY <1>8, <3>1, <3>2, <4>1, <4>2
    <3> QED BY <3>3, <3>4, <3>5
  <2> QED BY <2>1 DEF InPlace
<1>11. Present(t, n, q)
  <2>1. ASSUME NEW k \in DOMAIN q
        PROVE  \E i \in 1 .. Len(t[hash_int(k, n)]) : t[hash_int(k, n)][i].key = k
    <3> DEFINE b == hash_int(k, n)
    <3>1. b \in 0 .. n - 1 /\ \E i \in 1 .. Len(table[b]) : table[b][i].key = k
      BY <1>8, KeyFound
    <3> HIDE DEF b
    <3>2. \A i \in 1 .. Len(table[b]) : i \in 1 .. Len(t[b]) /\ t[b][i].key = table[b][i].key
      BY <1>6, <1>7, <3>1 DEF old
    <3> QED BY <3>1, <3>2 DEF b
  <2> QED BY <2>1 DEF Present
<1>12. ASSUME NEW b \in 0 .. n - 1 PROVE Distinct(t[b])
  <2>1. \A i \in 1 .. Len(t[b]) : i \in 1 .. Len(table[b]) /\ t[b][i].key = table[b][i].key
    BY <1>6, <1>7 DEF old
  <2> QED BY <1>2, <2>1 DEF Distinct
<1>13. Chains(t, n)
  BY <1>2, <1>7 DEF Chains
<1>14. Holds(t, n, q)
  BY <1>9, <1>10, <1>11, <1>12, <1>13 DEF Holds
<1> QED BY <1>14 DEF t, q

(* The insertion sets the key, whether it is there or not.                 *)
LEMMA PutHolds ==
  ASSUME NEW table, NEW n, NEW m, Holds(table, n, m),
         NEW key \in Keys, NEW value \in Values
  PROVE  Holds(Put(table, n, key, value), n, Set(m, key, value))
<1>1. CASE key \in DOMAIN m
  BY <1>1, WriteHolds
<1>2. CASE key \notin DOMAIN m
  <2> DEFINE e == [key |-> key, value |-> value]
             c == hash_int(key, n)
  <2>1. e \in entry /\ e.key = key /\ e.value = value
    BY DEF entry
  <2>2. c \in 0 .. n - 1 /\ ~Found(table[c], key)
    BY <1>2, KeyMissing
  <2>3. Put(table, n, key, value) = [table EXCEPT ![c] = <<e>> \o table[c]]
    BY <2>2 DEF Put
  <2>4. Chained(table, e, n) = [table EXCEPT ![c] = <<e>> \o table[c]]
    BY DEF Chained
  <2> HIDE DEF e, c
  <2>5. Holds(Chained(table, e, n), n, Set(m, e.key, e.value))
    BY <1>2, <2>1, PushHolds
  <2> QED BY <2>1, <2>3, <2>4, <2>5
<1> QED BY <1>1, <1>2

(* The removal of a key that is there, as the code unlinks its entry.      *)
Dropping(table, n, key) ==
  [table EXCEPT ![hash_int(key, n)] =
     RemoveAt(@, find_previous_entry_for_key(@, key) + 1)]

(* It leaves all other entries, and none with the key.                     *)
LEMMA DropHolds ==
  ASSUME NEW table, NEW n, NEW m, Holds(table, n, m), NEW key \in DOMAIN m
  PROVE  Holds(Dropping(table, n, key), n, Unset(m, key))
<1> DEFINE c == hash_int(key, n)
           old == table[c]
           t == Dropping(table, n, key)
           q == Unset(m, key)
<1>1. /\ c \in 0 .. n - 1
      /\ \E i \in 1 .. Len(old) :
           old[i].key = key /\ find_previous_entry_for_key(old, key) = i - 1
  BY KeyFound
<1>2. /\ \A b \in 0 .. n - 1 : table[b] \in Seq(entry)
      /\ table \in [0 .. n - 1 -> Seq(entry)]
      /\ Chains(table, n) /\ MapOfKeys(m)
      /\ \A b \in 0 .. n - 1 : Distinct(table[b])
  BY DEF Holds, Chains
<1>3. old \in Seq(entry) /\ Len(old) \in Nat
  BY <1>1, <1>2
<1> HIDE DEF old, c
<1>4. PICK p \in 1 .. Len(old) :
        old[p].key = key /\ find_previous_entry_for_key(old, key) = p - 1
  BY <1>1
<1> DEFINE new == RemoveAt(old, p)
           At(i) == IF i < p THEN i ELSE i + 1
<1>5. t = [table EXCEPT ![c] = new]
  <2>1. (p - 1) + 1 = p
    OBVIOUS
  <2>2. t = [table EXCEPT ![c] = RemoveAt(old, find_previous_entry_for_key(old, key) + 1)]
    BY DEF Dropping, c, old
  <2> QED BY <1>4, <2>1, <2>2
<1>6. /\ new \in Seq(entry) /\ Len(new) = Len(old) - 1
      /\ \A i \in 1 .. Len(old) - 1 : At(i) \in 1 .. Len(old) /\ new[i] = old[At(i)]
  <2>1. new = Dropped(old, p)
    BY <1>3, SubSeqsDrop DEF RemoveAt
  <2>2. new \in Seq(entry) /\ Len(new) = Len(old) - 1
    BY <1>3, <2>1, DroppedFacts
  <2> HIDE DEF new
  <2>3. \A i \in 1 .. Len(old) - 1 : At(i) \in 1 .. Len(old) /\ new[i] = old[At(i)]
    BY <1>3, <2>1 DEF Dropped
  <2> QED BY <2>2, <2>3
<1> HIDE DEF new, t
<1>7. t \in [0 .. n - 1 -> Seq(entry)] /\ t[c] = new
      /\ \A b \in 0 .. n - 1 : b # c => t[b] = table[b]
  BY <1>1, <1>2, <1>5, <1>6
<1>8. DOMAIN q = DOMAIN m \ {key} /\ \A k \in DOMAIN q : q[k] = m[k]
  BY DEF Unset
<1>9. MapOfKeys(q)
  <2>1. \A k \in DOMAIN m : m[k] \in Values
    BY <1>2 DEF MapOfKeys
  <2>2. q \in [DOMAIN q -> Values]
    BY <2>1 DEF Unset
  <2> QED BY <1>2, <1>8, <2>2 DEF MapOfKeys
<1> HIDE DEF q
<1>10. \A i \in 1 .. Len(new) : old[At(i)].key # key /\ At(i) # p
  <2>1. \A i \in 1 .. Len(new) : At(i) # p /\ At(i) \in 1 .. Len(old)
    BY <1>3, <1>6
  <2> HIDE DEF At
  <2> QED BY <1>1, <1>2, <1>4, <2>1 DEF Distinct, old
<1>11. InPlace(t, n, q)
  <2>1. ASSUME NEW b \in 0 .. n - 1, NEW i \in 1 .. Len(t[b])
        PROVE  /\ t[b][i].key \in DOMAIN q
               /\ t[b][i].value = q[t[b][i].key]
               /\ hash_int(t[b][i].key, n) = b
    <3>1. CASE b # c
      <4>1. /\ t[b][i].key \in DOMAIN m /\ hash_int(t[b][i].key, n) = b
            /\ t[b][i].value = m[t[b][i].key]
        BY <1>7, <3>1, EntryFacts
      <4>2. t[b][i].key # key
        BY <3>1, <4>1 DEF c
      <4> QED BY <1>8, <4>1, <4>2
    <3>2. CASE b = c
      <4> DEFINE j == At(i)
      <4>1. j \in 1 .. Len(table[c]) /\ t[b][i] = table[c][j] /\ table[c][j].key # key
        BY <1>6, <1>7, <1>10, <3>2 DEF old
      <4> HIDE DEF j, At
      <4>2. /\ table[c][j].key \in DOMAIN m /\ hash_int(table[c][j].key, n) = c
            /\ table[c][j].value = m[table[c][j].key]
        BY <1>1, <4>1, EntryFacts
      <4> QED BY <1>8, <3>2, <4>1, <4>2
    <3> QED BY <3>1, <3>2
  <2> QED BY <2>1 DEF InPlace
<1>12. Present(t, n, q)
  <2>1. ASSUME NEW k \in DOMAIN q
        PROVE  \E i \in 1 .. Len(t[hash_int(k, n)]) : t[hash_int(k, n)][i].key = k
    <3> DEFINE b == hash_int(k, n)
    <3>1. b \in 0 .. n - 1 /\ \E i \in 1 .. Len(table[b]) : table[b][i].key = k
      BY <1>8, KeyFound
    <3> HIDE DEF b
    <3>2. CASE b # c
      BY <1>7, <3>1, <3>2 DEF b
    <3>3. CASE b = c
      <4>1. PICK j \in 1 .. Len(old) : old[j].key = k
        BY <3>1, <3>3 DEF old
      <4>2. j # p
        BY <1>4, <1>8, <4>1
      <4> DEFINE i == IF j < p THEN j ELSE j - 1
      <4>3. i \in 1 .. Len(old) - 1 /\ At(i) = j
        BY <1>3, <4>2
      <4> HIDE DEF i, At
      <4>4. i \in 1 .. Len(t[c]) /\ t[c][i].key = k
        BY <1>6, <1>7, <4>1, <4>3
      <4> QED BY <3>3, <4>4 DEF b
    <3> QED BY <3>2, <3>3
  <2> QED BY <2>1 DEF Present
<1>13. ASSUME NEW b \in 0 .. n - 1 PROVE Distinct(t[b])
  <2>1. CASE b # c
    BY <1>2, <1>7, <2>1
  <2>2. CASE b = c
    <3>1. ASSUME NEW i \in 1 .. Len(new), NEW j \in 1 .. Len(new), new[i].key = new[j].key
          PROVE  i = j
      <4>1. At(i) \in 1 .. Len(old) /\ At(j) \in 1 .. Len(old) /\ old[At(i)].key = old[At(j)].key
        BY <1>6, <3>1
      <4>2. At(i) = At(j)
        <5> HIDE DEF At
        <5> QED BY <1>1, <1>2, <4>1 DEF Distinct, old
      <4> QED BY <1>3, <1>6, <4>2
    <3> QED BY <1>7, <2>2, <3>1 DEF Distinct
  <2> QED BY <2>1, <2>2
<1>14. Chains(t, n)
  BY <1>2, <1>7 DEF Chains
<1>15. Holds(t, n, q)
  BY <1>9, <1>11, <1>12, <1>13, <1>14 DEF Holds
<1> QED BY <1>15 DEF t, q

(* Empty chains hold no keys.                                              *)
LEMMA EmptyHolds ==
  ASSUME NEW n \in Nat \ {0}, NEW m, m \in [{} -> Values]
  PROVE  Holds([b \in 0 .. n - 1 |-> << >>], n, m)
<1> DEFINE t == [b \in 0 .. n - 1 |-> << >>]
<1>1. \A b \in 0 .. n - 1 : t[b] = << >> /\ t[b] \in Seq(entry) /\ Len(t[b]) = 0
  OBVIOUS
<1>2. t \in [0 .. n - 1 -> Seq(entry)]
  OBVIOUS
<1> HIDE DEF t
<1>3. Chains(t, n) /\ MapOfKeys(m)
  BY <1>2 DEF Chains, MapOfKeys
<1>4. InPlace(t, n, m) /\ Present(t, n, m)
  BY <1>1 DEF InPlace, Present
<1>5. \A b \in 0 .. n - 1 : Distinct(t[b])
  BY <1>1 DEF Distinct
<1>6. Holds(t, n, m)
  BY <1>3, <1>4, <1>5 DEF Holds
<1> QED BY <1>6 DEF t

(* All entries get the same value.                                         *)
Filling(table, value) ==
  [b \in DOMAIN table |-> [i \in DOMAIN table[b] |-> [table[b][i] EXCEPT !.value = value]]]
Filled(m, value) == [k \in DOMAIN m |-> value]

(* No entry changes its place or its key.                                  *)
LEMMA FillHolds ==
  ASSUME NEW table, NEW n, NEW m, Holds(table, n, m), NEW value \in Values
  PROVE  Holds(Filling(table, value), n, Filled(m, value))
<1> DEFINE t == Filling(table, value)
           q == Filled(m, value)
<1>1. /\ \A b \in 0 .. n - 1 : table[b] \in Seq(entry)
      /\ DOMAIN table = 0 .. n - 1
      /\ Chains(table, n) /\ MapOfKeys(m)
      /\ \A b \in 0 .. n - 1 : Distinct(table[b])
  BY DEF Holds, Chains
<1>2. ASSUME NEW b \in 0 .. n - 1
      PROVE  /\ t[b] \in Seq(entry) /\ Len(t[b]) = Len(table[b])
             /\ \A i \in 1 .. Len(table[b]) : t[b][i].key = table[b][i].key /\ t[b][i].value = value
  <2> DEFINE old == table[b]
             new == [i \in DOMAIN old |-> [old[i] EXCEPT !.value = value]]
  <2>1. t[b] = new
    BY <1>1 DEF Filling
  <2>2. old \in Seq(entry) /\ Len(old) \in Nat /\ DOMAIN old = 1 .. Len(old)
    BY <1>1
  <2> HIDE DEF old
  <2>3. \A i \in 1 .. Len(old) : old[i] \in [key : Keys, value : Values]
    <3>1. \A i \in 1 .. Len(old) : old[i] \in entry
      BY <2>2
    <3> QED BY <3>1 DEF entry
  <2>4. ASSUME NEW i \in 1 .. Len(old)
        PROVE  new[i] \in entry /\ new[i].key = old[i].key /\ new[i].value = value
    BY <2>2, <2>3 DEF entry
  <2>5. new \in [1 .. Len(old) -> entry]
    BY <2>2, <2>4
  <2> HIDE DEF new
  <2>6. new \in Seq(entry) /\ Len(new) = Len(old)
    BY <2>2, <2>5, FunctionIsSeq
  <2> QED BY <2>1, <2>4, <2>6 DEF old
<1>3. t \in [0 .. n - 1 -> Seq(entry)]
  <2>1. DOMAIN t = 0 .. n - 1 /\ t = [b \in DOMAIN t |-> t[b]]
    BY <1>1 DEF Filling
  <2> HIDE DEF t
  <2> QED BY <1>2, <2>1
<1> HIDE DEF t
<1>4. DOMAIN q = DOMAIN m /\ \A k \in DOMAIN m : q[k] = value
  BY DEF Filled
<1>5. q \in [DOMAIN q -> Values]
  BY DEF Filled
<1> HIDE DEF q
<1>6. Chains(t, n) /\ MapOfKeys(q)
  BY <1>1, <1>3, <1>4, <1>5 DEF Chains, MapOfKeys
<1>7. InPlace(t, n, q)
  <2>1. ASSUME NEW b \in 0 .. n - 1, NEW i \in 1 .. Len(t[b])
        PROVE  /\ t[b][i].key \in DOMAIN q
               /\ t[b][i].value = q[t[b][i].key]
               /\ hash_int(t[b][i].key, n) = b
    <3>1. /\ i \in 1 .. Len(table[b]) /\ t[b][i].key = table[b][i].key
          /\ t[b][i].value = value
      BY <1>2
    <3>2. table[b][i].key \in DOMAIN m /\ hash_int(table[b][i].key, n) = b
      BY <3>1, EntryFacts
    <3> QED BY <1>4, <3>1, <3>2
  <2> QED BY <2>1 DEF InPlace
<1>8. Present(t, n, q)
  <2>1. ASSUME NEW k \in DOMAIN q
        PROVE  \E i \in 1 .. Len(t[hash_int(k, n)]) : t[hash_int(k, n)][i].key = k
    <3> DEFINE b == hash_int(k, n)
    <3>1. b \in 0 .. n - 1 /\ \E i \in 1 .. Len(table[b]) : table[b][i].key = k
      BY <1>4, KeyFound
    <3> HIDE DEF b
    <3> QED BY <1>2, <3>1 DEF b
  <2> QED BY <2>1 DEF Present
<1>9. ASSUME NEW b \in 0 .. n - 1 PROVE Distinct(t[b])
  BY <1>1, <1>2 DEF Distinct
<1>10. Holds(t, n, q)
  BY <1>6, <1>7, <1>8, <1>9 DEF Holds
<1> QED BY <1>10 DEF t, q
-----------------------------------------------------------------------------
(* Growth.  Table(n) are the tables with n chains, and Part(g, D) is the   *)
(* part of a map that was moved to the new one.                            *)
Table(n) == [0 .. n - 1 -> Seq(entry)]
Part(g, D) == [k \in D |-> g[k]]

(* A walk over the chain, which moves its entries.                         *)
Moving(moved, table, chain, n) ==
  /\ moved[0] = table
  /\ \A k \in 1 .. Len(chain) : moved[k] = Chained(moved[k - 1], chain[k], n)

(* A table with an entry chained into it is a table. *)
LEMMA ChainedType ==
  ASSUME NEW n \in Nat \ {0}, NEW t \in Table(n), NEW e \in entry
  PROVE  Chained(t, e, n) \in Table(n)
<1> DEFINE c == hash_int(e.key, n)
<1>1. c \in 0 .. n - 1
  <2>1. e.key \in Int
    BY TableAssumption DEF entry
  <2> QED BY <2>1, HashInTable
<1>2. t[c] \in Seq(entry)
  BY <1>1 DEF Table
<1>3. <<e>> \o t[c] \in Seq(entry)
  BY <1>2
<1> HIDE DEF c
<1>4. [t EXCEPT ![c] = <<e>> \o t[c]] \in Table(n)
  BY <1>1, <1>3 DEF Table
<1> QED BY <1>4 DEF Chained, c

(* PushAll is what such a walk ends with. *)
LEMMA PushAllWalks ==
  ASSUME NEW n \in Nat \ {0}, NEW table \in Table(n), NEW chain \in Seq(entry)
  PROVE  \E moved : /\ Moving(moved, table, chain, n)
                    /\ PushAll(table, chain, n) = moved[Len(chain)]
<1> DEFINE z == Len(chain)
           step == [v \in Table(n) \X (1 .. z) |-> Chained(v[1], chain[v[2]], n)]
           Walk(f) == f = [k \in 0 .. z |-> IF k = 0 THEN table
                                            ELSE Chained(f[k - 1], chain[k], n)]
           s == CHOOSE f : Walk(f)
<1>1. z \in Nat /\ \A i \in 1 .. z : chain[i] \in entry
  OBVIOUS
<1>2. step \in [Table(n) \X (1 .. z) -> Table(n)]
  <2>1. ASSUME NEW v \in Table(n) \X (1 .. z) PROVE Chained(v[1], chain[v[2]], n) \in Table(n)
    <3>1. v[1] \in Table(n) /\ chain[v[2]] \in entry
      BY <1>1
    <3> QED BY <3>1, ChainedType
  <2> QED BY <2>1
<1>3. PICK f \in [0 .. z -> Table(n)] : Loop(f, table, step, z)
  <2> HIDE DEF step, z
  <2> QED BY <1>1, <1>2, LoopExists
<1>4. ASSUME NEW k \in 0 .. z
      PROVE  f[k] = IF k = 0 THEN table ELSE Chained(f[k - 1], chain[k], n)
  <2>1. CASE k = 0
    BY <1>3, <2>1 DEF Loop
  <2>2. CASE k # 0
    <3>1. k \in 1 .. z /\ k - 1 \in 0 .. z /\ f[k - 1] \in Table(n)
      BY <2>2
    <3>2. f[k] = step[<<f[k - 1], k>>]
      <4> HIDE DEF step
      <4> QED BY <1>3, <3>1 DEF Loop
    <3>3. step[<<f[k - 1], k>>] = Chained(f[k - 1], chain[k], n)
      BY <3>1
    <3> QED BY <2>2, <3>2, <3>3
  <2> QED BY <2>1, <2>2
<1>5. Walk(f)
  BY <1>4, Zenon
<1>6. Walk(s)
  BY <1>5, Zenon
<1>7. \A k \in 0 .. z : s[k] = IF k = 0 THEN table ELSE Chained(s[k - 1], chain[k], n)
  BY <1>6, Zenon
<1>8. PushAll(table, chain, n) = s[z]
  BY Zenon DEF PushAll
<1> HIDE DEF s
<1>9. Moving(s, table, chain, n)
  BY <1>1, <1>7 DEF Moving
<1> QED BY <1>8, <1>9

(* The result is a table. *)
LEMMA PushAllType ==
  ASSUME NEW n \in Nat \ {0}, NEW table \in Table(n), NEW chain \in Seq(entry)
  PROVE  PushAll(table, chain, n) \in Table(n)
<1>1. PICK moved : Moving(moved, table, chain, n) /\ PushAll(table, chain, n) = moved[Len(chain)]
  BY PushAllWalks
<1> DEFINE z == Len(chain)
           T == {k \in 0 .. z : moved[k] \in Table(n)}
<1>2. z \in Nat /\ \A i \in 1 .. z : chain[i] \in entry
  OBVIOUS
<1>3. ASSUME NEW k \in 1 .. z, k - 1 \in T PROVE k \in T
  <2>1. moved[k] = Chained(moved[k - 1], chain[k], n)
    BY <1>1 DEF Moving
  <2>2. moved[k] \in Table(n)
    BY <1>2, <1>3, <2>1, ChainedType
  <2> QED BY <2>2
<1>4. Inductive(T, z)
  BY <1>1, <1>2, <1>3 DEF Inductive, Moving
<1>5. z \in T
  <2> HIDE DEF T, z
  <2> QED BY <1>2, <1>4, UpTo
<1> QED BY <1>1, <1>5

(* Keys of the first k entries. *)
KeysOf(chain, k) == {chain[i].key : i \in 1 .. k}

(* The keys of a chain join those that were moved before.                  *)
LEMMA PushAllHolds ==
  ASSUME NEW n, NEW table, NEW g, NEW D, Holds(table, n, Part(g, D)),
         NEW chain \in Seq(entry), Distinct(chain),
         \A i \in 1 .. Len(chain) :
           chain[i].key \notin D /\ chain[i].value = g[chain[i].key]
  PROVE  Holds(PushAll(table, chain, n), n, Part(g, D \cup KeysOf(chain, Len(chain))))
<1>1. n \in Nat \ {0} /\ table \in Table(n)
  BY DEF Holds, Chains, Table
<1>2. PICK moved : Moving(moved, table, chain, n) /\ PushAll(table, chain, n) = moved[Len(chain)]
  BY <1>1, PushAllWalks
<1> DEFINE z == Len(chain)
           Now(k) == Part(g, D \cup KeysOf(chain, k))
           T == {k \in 0 .. z : Holds(moved[k], n, Now(k))}
<1>3. z \in Nat /\ \A i \in 1 .. z : chain[i] \in entry
  OBVIOUS
<1>4. 0 \in T
  <2>1. KeysOf(chain, 0) = {}
    BY DEF KeysOf
  <2>2. Now(0) = Part(g, D) /\ moved[0] = table
    BY <1>2, <2>1 DEF Moving
  <2> QED BY <1>3, <2>2
<1>5. ASSUME NEW k \in 1 .. z, k - 1 \in T PROVE k \in T
  <2> DEFINE e == chain[k]
             K == D \cup KeysOf(chain, k - 1)
             m == Now(k - 1)
  <2>1. e \in entry /\ moved[k] = Chained(moved[k - 1], e, n)
    BY <1>2, <1>3 DEF Moving
  <2>2. Holds(moved[k - 1], n, m)
    BY <1>5
  <2>3. DOMAIN m = K /\ \A x \in K : m[x] = g[x]
    BY DEF Part
  <2>4. e.key \notin K
    <3>1. ASSUME NEW i \in 1 .. k - 1 PROVE chain[i].key # e.key
      <4>1. i \in 1 .. z /\ i # k
        BY <1>3
      <4> QED BY <1>3, <4>1 DEF Distinct
    <3> QED BY <1>3, <3>1 DEF KeysOf
  <2>5. e.value = g[e.key]
    BY <1>3
  <2>6. KeysOf(chain, k) = KeysOf(chain, k - 1) \cup {e.key}
    <3>1. \A i \in 1 .. k : i \in 1 .. k - 1 \/ i = k
      BY <1>3
    <3>2. \A i \in 1 .. k - 1 : i \in 1 .. k
      BY <1>3
    <3>3. k \in 1 .. k
      BY <1>3
    <3> QED BY <3>1, <3>2, <3>3 DEF KeysOf
  <2> HIDE DEF e
  <2>7. Now(k) = Set(m, e.key, e.value)
    <3>1. DOMAIN m \cup {e.key} = D \cup KeysOf(chain, k)
      BY <2>3, <2>6
    <3>2. ASSUME NEW x \in D \cup KeysOf(chain, k)
          PROVE  g[x] = IF x = e.key THEN e.value ELSE m[x]
      BY <2>3, <2>5, <2>6
    <3> HIDE DEF m
    <3> QED BY <3>1, <3>2 DEF Set, Part
  <2> HIDE DEF m, K, Now
  <2>8. Holds(Chained(moved[k - 1], e, n), n, Set(m, e.key, e.value))
    BY <2>1, <2>2, <2>3, <2>4, PushHolds
  <2>9. Holds(moved[k], n, Now(k)) /\ k \in 0 .. z
    BY <1>3, <2>1, <2>7, <2>8
  <2> QED BY <2>9
<1>6. Inductive(T, z)
  <2> HIDE DEF T
  <2> QED BY <1>4, <1>5 DEF Inductive
<1>7. z \in T
  <2> HIDE DEF T, z
  <2> QED BY <1>3, <1>6, UpTo
<1> QED BY <1>2, <1>7

(* The walk over all buckets, which fills the new ones.                    *)
Growing(grown, n) ==
  /\ grown[0] = [b \in 0 .. n - 1 |-> << >>]
  /\ \A i \in 1 .. capacity : grown[i] = PushAll(grown[i - 1], buckets[i - 1], n)

(* Rehashed is what it ends with. *)
LEMMA RehashedWalks ==
  ASSUME NEW n \in Nat \ {0}, Chains(buckets, capacity)
  PROVE  \E grown : Growing(grown, n) /\ Rehashed(n) = grown[capacity]
<1> DEFINE none == [b \in 0 .. n - 1 |-> << >>]
           z == capacity
           step == [v \in Table(n) \X (1 .. z) |-> PushAll(v[1], buckets[v[2] - 1], n)]
           Walk(f) == f = [i \in 0 .. z |-> IF i = 0 THEN none
                                            ELSE PushAll(f[i - 1], buckets[i - 1], n)]
           s == CHOOSE f : Walk(f)
<1>1. z \in Nat /\ \A i \in 1 .. z : buckets[i - 1] \in Seq(entry)
  BY DEF Chains
<1>2. none \in Table(n)
  BY DEF Table
<1> HIDE DEF none
<1>3. step \in [Table(n) \X (1 .. z) -> Table(n)]
  <2>1. ASSUME NEW v \in Table(n) \X (1 .. z)
        PROVE  PushAll(v[1], buckets[v[2] - 1], n) \in Table(n)
    <3>1. v[1] \in Table(n) /\ buckets[v[2] - 1] \in Seq(entry)
      BY <1>1
    <3> QED BY <3>1, PushAllType
  <2> QED BY <2>1
<1>4. PICK f \in [0 .. z -> Table(n)] : Loop(f, none, step, z)
  <2> HIDE DEF step, z
  <2> QED BY <1>1, <1>2, <1>3, LoopExists
<1>5. ASSUME NEW i \in 0 .. z
      PROVE  f[i] = IF i = 0 THEN none ELSE PushAll(f[i - 1], buckets[i - 1], n)
  <2>1. CASE i = 0
    BY <1>4, <2>1 DEF Loop
  <2>2. CASE i # 0
    <3>1. i \in 1 .. z /\ i - 1 \in 0 .. z /\ f[i - 1] \in Table(n)
      BY <1>1, <2>2
    <3>2. f[i] = step[<<f[i - 1], i>>]
      <4> HIDE DEF step
      <4> QED BY <1>4, <3>1 DEF Loop
    <3>3. step[<<f[i - 1], i>>] = PushAll(f[i - 1], buckets[i - 1], n)
      BY <3>1
    <3> QED BY <2>2, <3>2, <3>3
  <2> QED BY <2>1, <2>2
<1>6. Walk(f)
  BY <1>5, Zenon
<1>7. Walk(s)
  BY <1>6, Zenon
<1>8. \A i \in 0 .. z : s[i] = IF i = 0 THEN none ELSE PushAll(s[i - 1], buckets[i - 1], n)
  BY <1>7, Zenon
<1>9. Rehashed(n) = s[z]
  BY Zenon DEF Rehashed, none
<1> HIDE DEF s
<1>10. Growing(s, n)
  BY <1>1, <1>8 DEF Growing, none
<1> QED BY <1>9, <1>10

(* Growth keeps the map: every entry is moved to the bucket of its key.    *)
LEMMA RehashedHolds ==
  ASSUME NEW n \in Nat \ {0}, NEW g, Holds(buckets, capacity, g)
  PROVE  Holds(Rehashed(n), n, g)
<1>1. Chains(buckets, capacity) /\ MapOfKeys(g)
  BY DEF Holds
<1>2. PICK grown : Growing(grown, n) /\ Rehashed(n) = grown[capacity]
  BY <1>1, RehashedWalks
<1> DEFINE Home(k) == hash_int(k, capacity)
           D(i) == {k \in DOMAIN g : Home(k) < i}
           T == {i \in 0 .. capacity : Holds(grown[i], n, Part(g, D(i)))}
<1>3. /\ capacity \in Nat \ {0}
      /\ \A k \in DOMAIN g : Home(k) \in 0 .. capacity - 1
  BY <1>1, KeyFound DEF Chains
<1>4. 0 \in T
  <2>1. D(0) = {}
    BY <1>3
  <2>2. Part(g, D(0)) \in [{} -> Values]
    BY <2>1 DEF Part
  <2>3. grown[0] = [b \in 0 .. n - 1 |-> << >>]
    BY <1>2 DEF Growing
  <2> HIDE DEF D
  <2>4. Holds(grown[0], n, Part(g, D(0)))
    BY <2>2, <2>3, EmptyHolds
  <2> QED BY <1>3, <2>4
<1>5. ASSUME NEW i \in 1 .. capacity, i - 1 \in T PROVE i \in T
  <2> DEFINE b == i - 1
             chain == buckets[b]
             E == D(b)
  <2>1. b \in 0 .. capacity - 1 /\ chain \in Seq(entry) /\ Distinct(chain)
    BY <1>3 DEF Holds, Chains
  <2>2. Holds(grown[b], n, Part(g, E)) /\ grown[i] = PushAll(grown[b], chain, n)
    BY <1>2, <1>5 DEF Growing
  <2> HIDE DEF b
  <2>3. ASSUME NEW j \in 1 .. Len(chain)
        PROVE  /\ chain[j].key \in DOMAIN g /\ Home(chain[j].key) = b
               /\ chain[j].value = g[chain[j].key]
    BY <2>1, EntryFacts
  <2>4. \A j \in 1 .. Len(chain) : chain[j].key \notin E
    <3>1. \A k \in E : Home(k) \in Int /\ Home(k) < b
      BY <1>3
    <3> HIDE DEF E, Home, chain
    <3>2. b \in Int
      BY <2>1
    <3> QED BY <2>3, <3>1, <3>2
  <2>5. E \cup KeysOf(chain, Len(chain)) = D(i)
    <3>1. \A k \in DOMAIN g : Home(k) < i <=> Home(k) < b \/ Home(k) = b
      <4> HIDE DEF Home
      <4> QED BY <1>3 DEF b
    <3>2. ASSUME NEW k \in DOMAIN g, Home(k) = b PROVE k \in KeysOf(chain, Len(chain))
      <4>1. \E j \in 1 .. Len(buckets[Home(k)]) : buckets[Home(k)][j].key = k
        BY KeyFound
      <4> HIDE DEF Home
      <4> QED BY <3>2, <4>1 DEF KeysOf
    <3>3. \A k \in KeysOf(chain, Len(chain)) : k \in DOMAIN g /\ Home(k) = b
      <4> HIDE DEF Home, chain
      <4> QED BY <2>3 DEF KeysOf
    <3> HIDE DEF chain, Home
    <3> QED BY <3>1, <3>2, <3>3
  <2> HIDE DEF E, D, chain, Home
  <2>6. Holds(PushAll(grown[b], chain, n), n, Part(g, E \cup KeysOf(chain, Len(chain))))
    BY <2>1, <2>2, <2>3, <2>4, PushAllHolds
  <2>7. i \in 0 .. capacity
    BY <1>3
  <2>8. grown[i] = PushAll(grown[b], chain, n)
    BY <2>2
  <2>9. Holds(grown[i], n, Part(g, D(i)))
    BY <2>5, <2>6, <2>8, Zenon
  <2> QED BY <2>7, <2>9
<1>6. Inductive(T, capacity)
  <2> HIDE DEF T
  <2> QED BY <1>4, <1>5 DEF Inductive
<1>7. capacity \in T
  <2> HIDE DEF T
  <2> QED BY <1>3, <1>6, UpTo
<1>8. Part(g, D(capacity)) = g
  <2>1. D(capacity) = DOMAIN g
    BY <1>3
  <2>2. g = [k \in DOMAIN g |-> g[k]]
    BY <1>1 DEF MapOfKeys
  <2> HIDE DEF D
  <2> QED BY <2>1, <2>2 DEF Part
<1> QED BY <1>2, <1>7, <1>8
-----------------------------------------------------------------------------
(* The next capacity is one of the primes, and so are all later ones.      *)
LEMMA NextCapacity ==
  ASSUME NEW n \in Nat
  PROVE  find_next_capacity(n) \in ToSet(primes) /\ find_next_capacity(n) \in Nat \ {0}
<1>1. /\ primes \in Seq(Nat \ {0}) /\ Len(primes) = 11 /\ DOMAIN primes = 1 .. 11
      /\ primes[11] = 16381
  BY DEF primes
<1>2. Last(primes) = primes[11]
  BY <1>1 DEF Last
<1> HIDE DEF primes
<1>3. \A i \in 1 .. 11 : primes[i] \in Nat \ {0}
  <2>1. primes \in Seq(Nat \ {0})
    BY <1>1
  <2>2. \A i \in 1 .. Len(primes) : primes[i] \in Nat \ {0}
    BY <2>1, ElementOfSeq
  <2>3. Len(primes) = 11
    BY <1>1
  <2> QED BY <2>2, <2>3, Zenon
<1> DEFINE P(i) == primes[i] > n /\ \A j \in 1 .. i - 1 : primes[j] <= n
<1>4. \E i \in 1 .. 11 : find_next_capacity(n) = primes[i]
  <2>1. CASE n >= Last(primes)
    BY <1>2, <2>1 DEF find_next_capacity
  <2>2. CASE ~(n >= Last(primes))
    <3> DEFINE Greater == {i \in 1 .. 11 : primes[i] > n}
    <3>1. 11 \in Greater /\ Greater \subseteq Nat
      BY <1>1, <1>2, <2>2
    <3>2. PICK i \in Greater : \A j \in Greater : i <= j
      <4> HIDE DEF Greater
      <4> QED BY <3>1, LeastNatural
    <3>3. i \in DOMAIN primes /\ P(i)
      <4>1. i \in 1 .. 11 /\ primes[i] > n
        BY <3>2
      <4>2. ASSUME NEW j \in 1 .. i - 1 PROVE primes[j] <= n
        <5>1. j \in 1 .. 11 /\ j < i /\ j \notin Greater
          BY <3>2, <4>1
        <5>2. primes[j] \in Nat
          BY <1>3, <5>1
        <5> QED BY <5>1, <5>2
      <4> QED BY <1>1, <4>1, <4>2
    <3> HIDE DEF P
    <3>4. (CHOOSE k \in DOMAIN primes : P(k)) \in DOMAIN primes
      BY <3>3
    <3>5. find_next_capacity(n) = primes[CHOOSE k \in DOMAIN primes : P(k)]
      BY <2>2, Zenon DEF find_next_capacity, P
    <3> DEFINE c == CHOOSE k \in DOMAIN primes : P(k)
    <3> HIDE DEF c
    <3>6. c \in 1 .. 11 /\ find_next_capacity(n) = primes[c]
      BY <1>1, <3>4, <3>5 DEF c
    <3> QED BY <3>6
  <2> QED BY <2>1, <2>2
<1>5. \A i \in 1 .. 11 : primes[i] \in ToSet(primes) /\ primes[i] \in Nat \ {0}
  <2>1. ToSet(primes) = {primes[i] : i \in 1 .. 11}
    BY <1>1 DEF ToSet
  <2> QED BY <1>3, <2>1
<1> QED BY <1>4, <1>5

(* The capacities are not zero. *)
LEMMA CapacityFacts ==
  ASSUME capacity \in {InitialCapacity} \cup ToSet(primes)
  PROVE  capacity \in Nat \ {0}
<1>1. CASE capacity = InitialCapacity
  BY <1>1, TableAssumption
<1>2. CASE capacity \in ToSet(primes)
  <2>1. primes \in Seq(Nat \ {0})
    BY DEF primes
  <2>2. \A i \in DOMAIN primes : primes[i] \in Nat \ {0}
    <3> HIDE DEF primes
    <3> QED BY <2>1
  <2> HIDE DEF primes
  <2> QED BY <1>2, <2>2 DEF ToSet
<1> QED BY <1>1, <1>2

-----------------------------------------------------------------------------
(* What the invariant says of the walk and of the search.                  *)
LEMMA ContentsIs ==
  contents = [key \in KeysIn(buckets) |-> ValueIn(buckets, capacity, key)]
<1>1. ioopm_hash_table_keys = KeysIn(buckets)
  BY DEF ioopm_hash_table_keys, KeysIn, Places, EntryAt
<1>2. \A key : lookup(key) = ValueIn(buckets, capacity, key)
  BY DEF lookup, ValueIn, Bucket
<1> QED BY <1>1, <1>2 DEF contents

(* After a step as well. *)
LEMMA ContentsNext ==
  contents' = [key \in KeysIn(buckets') |-> ValueIn(buckets', capacity', key)]
<1>1. ioopm_hash_table_keys' = KeysIn(buckets')
  BY DEF ioopm_hash_table_keys, KeysIn, Places, EntryAt
<1>2. \A key : lookup(key)' = ValueIn(buckets', capacity', key)
  BY DEF lookup, ValueIn, Bucket
<1> QED BY <1>1, <1>2 DEF contents

(* A step that leaves the buckets with the map m makes m the contents.     *)
LEMMA Becomes ==
  ASSUME NEW m, Holds(buckets', capacity', m), IsFiniteSet(DOMAIN m),
         size' = Cardinality(DOMAIN m), TableTypeOK'
  PROVE  contents' = m /\ TableInv'
<1>1. contents' = m
  BY ContentsAre, ContentsNext
<1> QED BY <1>1 DEF TableInv

(* What a look up returns. *)
LEMMA LookupIs ==
  ASSUME TableInv, NEW key \in Keys
  PROVE  lookup(key) = IF key \in DOMAIN contents THEN contents[key] ELSE NULL
<1>1. Holds(buckets, capacity, contents)
  BY DEF TableInv
<1>2. lookup(key) = ValueIn(buckets, capacity, key)
  BY DEF lookup, ValueIn, Bucket
<1> HIDE DEF contents
<1> QED BY <1>1, <1>2, KeyFound, KeyMissing

(* What it can return. *)
LEMMA LookupType ==
  ASSUME TableInv, NEW key \in Keys
  PROVE  lookup(key) \in Values
<1>1. contents \in [DOMAIN contents -> Values]
  BY DEF TableInv, Holds, MapOfKeys
<1> HIDE DEF contents
<1> QED BY <1>1, LookupIs, TableAssumption

(* The table that an insertion goes to, grown or not, holds the same map.  *)
LEMMA ReadyFacts ==
  ASSUME TableInv
  PROVE  /\ Ready.capacity \in {InitialCapacity} \cup ToSet(primes)
         /\ Ready.words \in {17, GrownWords}
         /\ Ready.wild \in BOOLEAN
         /\ Holds(Ready.buckets, Ready.capacity, contents)
<1>1. /\ Holds(buckets, capacity, contents)
      /\ capacity \in {InitialCapacity} \cup ToSet(primes) /\ words \in {17, GrownWords}
  BY DEF TableInv, TableTypeOK
<1> DEFINE n == find_next_capacity(capacity)
           w == capacity > words \/ \E e \in Places : hash_int(EntryAt(e).key, n) >= GrownWords
<1>2. n \in ToSet(primes) /\ n \in Nat \ {0}
  BY <1>1, CapacityFacts, NextCapacity
<1>3. w \in BOOLEAN
  BY Zenon
<1> HIDE DEF n
<1>4. Holds(Rehashed(n), n, contents)
  <2> HIDE DEF contents
  <2> QED BY <1>1, <1>2, RehashedHolds
<1>5. CASE 4 * (size + 1) >= 3 * capacity
  <2> HIDE DEF w
  <2>1. Ready = [capacity |-> n, words |-> GrownWords, buckets |-> Rehashed(n), wild |-> w]
    BY <1>5, Zenon DEF Ready, hash_table_grow, n, w
  <2>2. /\ Ready.capacity = n /\ Ready.words = GrownWords
        /\ Ready.buckets = Rehashed(n) /\ Ready.wild = w
    BY <2>1
  <2> QED BY <1>2, <1>3, <1>4, <2>2, Zenon
<1>6. CASE ~(4 * (size + 1) >= 3 * capacity)
  <2>1. Ready = [capacity |-> capacity, words |-> words, buckets |-> buckets, wild |-> FALSE]
    BY <1>6, Zenon DEF Ready
  <2>2. /\ Ready.capacity = capacity /\ Ready.words = words
        /\ Ready.buckets = buckets /\ Ready.wild = FALSE
    BY <2>1
  <2> QED BY <1>1, <2>2, Zenon
<1> QED BY <1>5, <1>6

-----------------------------------------------------------------------------
(* The operations keep the invariant and do what MapSpec says.             *)
LEMMA InsertStep ==
  ASSUME TableInv, NEW key \in Keys, NEW value \in Values, ioopm_hash_table_insert(key, value)
  PROVE  TableInv' /\ M!Insert(key, value)
<1> DEFINE m == contents
           q == Set(m, key, value)
           n == Ready.capacity
           b == Ready.buckets
<1>1. /\ n \in {InitialCapacity} \cup ToSet(primes)
      /\ Ready.words \in {17, GrownWords} /\ Ready.wild \in BOOLEAN
      /\ Holds(b, n, m)
  BY ReadyFacts
<1>2. /\ capacity' = n /\ words' = Ready.words
      /\ buckets' = Put(b, n, key, value)
      /\ size' = Counted(b, n, key)
      /\ wild' = (Ready.wild \/ hash_int(key, n) >= Ready.words)
      /\ ret' = NULL
  BY Zenon DEF ioopm_hash_table_insert
<1>3. IsFiniteSet(DOMAIN m) /\ size = Cardinality(DOMAIN m) /\ size \in Nat
  BY DEF TableInv, TableTypeOK
<1> HIDE DEF m, n, b
<1>4. Holds(buckets', capacity', q)
  BY <1>1, <1>2, PutHolds
<1>5. DOMAIN q = DOMAIN m \cup {key}
  BY DEF Set
<1>6. Found(b[hash_int(key, n)], key) <=> key \in DOMAIN m
  BY <1>1, KeyFound, KeyMissing
<1>7. IsFiniteSet(DOMAIN q) /\ size' = Cardinality(DOMAIN q) /\ size' \in Nat
  <2>1. size' = IF key \in DOMAIN m THEN size ELSE size + 1
    BY <1>2, <1>6 DEF Counted
  <2> QED BY <1>3, <1>5, <2>1, FS_AddElement
<1>8. TableTypeOK'
  <2>1. buckets' \in [0 .. capacity' - 1 -> Seq(entry)]
    BY <1>4 DEF Holds, Chains
  <2>2. ret' \in Values /\ wild' \in BOOLEAN
    BY <1>1, <1>2, TableAssumption, Zenon
  <2> QED BY <1>1, <1>2, <1>7, <2>1, <2>2 DEF TableTypeOK
<1> HIDE DEF q
<1>9. contents' = q /\ TableInv'
  BY <1>4, <1>7, <1>8, Becomes
<1>10. M!Insert(key, value)
  BY <1>2, <1>9 DEF M!Insert, q, Set, m
<1> QED BY <1>9, <1>10

(* The search for a value. *)
LEMMA LookupStep ==
  ASSUME TableInv, NEW key \in Keys, ioopm_hash_table_lookup(key)
  PROVE  TableInv' /\ M!Lookup(key)
<1> DEFINE m == contents
<1>1. /\ Holds(buckets, capacity, m) /\ IsFiniteSet(DOMAIN m)
      /\ size = Cardinality(DOMAIN m) /\ TableTypeOK
  BY DEF TableInv
<1>2. /\ ret' = lookup(key) /\ wild' \in BOOLEAN
      /\ UNCHANGED <<buckets, words, capacity, size>>
  BY DEF ioopm_hash_table_lookup, Read
<1> HIDE DEF m
<1>3. TableTypeOK'
  <2>1. ret' \in Values
    BY <1>2, LookupType
  <2> QED BY <1>1, <1>2, <2>1 DEF TableTypeOK
<1>4. contents' = m /\ TableInv'
  BY <1>1, <1>2, <1>3, Becomes
<1>5. M!Lookup(key)
  BY <1>2, <1>4, LookupIs DEF M!Lookup, M!At, m
<1> QED BY <1>4, <1>5

(* The removal of an entry. *)
LEMMA RemoveStep ==
  ASSUME TableInv, NEW key \in Keys, ioopm_hash_table_remove(key)
  PROVE  TableInv' /\ (M!Remove(key) \/ NullStays(key))
<1> DEFINE m == contents
<1>1. /\ Holds(buckets, capacity, m) /\ IsFiniteSet(DOMAIN m)
      /\ size = Cardinality(DOMAIN m) /\ TableTypeOK
  BY DEF TableInv
<1>2. /\ ret' = lookup(key) /\ wild' \in BOOLEAN
      /\ UNCHANGED <<words, capacity>>
      /\ \/ /\ lookup(key) # NULL /\ size' = size - 1
            /\ buckets' = Dropping(buckets, capacity, key)
         \/ lookup(key) = NULL /\ UNCHANGED <<buckets, size>>
  BY DEF ioopm_hash_table_remove, Read, Dropping
<1>3. ret' \in Values
  BY <1>2, LookupType
<1>4. M!At(key) = lookup(key)
  BY LookupIs DEF M!At
<1> HIDE DEF m
<1>5. CASE lookup(key) = NULL
  <2>1. UNCHANGED <<buckets, size>>
    BY <1>2, <1>5
  <2>2. TableTypeOK'
    BY <1>1, <1>2, <1>3, <2>1 DEF TableTypeOK
  <2>3. contents' = m /\ TableInv'
    BY <1>1, <1>2, <2>1, <2>2, Becomes
  <2>4. CASE key \in DOMAIN contents
    <3>1. contents[key] = NULL /\ ret' = NULL
      BY <1>2, <1>4, <1>5, <2>4 DEF M!At
    <3> QED BY <2>3, <2>4, <3>1 DEF NullStays, m
  <2>5. CASE key \notin DOMAIN contents
    <3>1. contents = [k \in DOMAIN contents \ {key} |-> contents[k]]
      <4>1. contents = [k \in DOMAIN contents |-> contents[k]]
        BY DEF contents
      <4>2. DOMAIN contents \ {key} = DOMAIN contents
        BY <2>5
      <4> QED BY <4>1, <4>2
    <3>2. M!Remove(key)
      BY <1>2, <1>4, <2>3, <3>1 DEF M!Remove, m
    <3> QED BY <2>3, <3>2
  <2> QED BY <2>4, <2>5
<1>6. CASE lookup(key) # NULL
  <2> DEFINE q == Unset(m, key)
  <2>1. size' = size - 1 /\ buckets' = Dropping(buckets, capacity, key)
    BY <1>2, <1>6
  <2>2. key \in DOMAIN m
    BY <1>6, LookupIs DEF m
  <2>3. Holds(buckets', capacity', q)
    BY <1>1, <1>2, <2>1, <2>2, DropHolds
  <2>4. DOMAIN q = DOMAIN m \ {key}
    BY DEF Unset
  <2>5. IsFiniteSet(DOMAIN q) /\ size' = Cardinality(DOMAIN q) /\ size' \in Nat
    <3>1. IsFiniteSet(DOMAIN q) /\ Cardinality(DOMAIN q) = Cardinality(DOMAIN m) - 1
      BY <1>1, <2>2, <2>4, FS_RemoveElement
    <3>2. Cardinality(DOMAIN q) \in Nat
      BY <3>1, FS_CardinalityType
    <3> QED BY <1>1, <2>1, <3>1, <3>2
  <2>6. TableTypeOK'
    <3>1. buckets' \in [0 .. capacity' - 1 -> Seq(entry)]
      BY <2>3 DEF Holds, Chains
    <3> QED BY <1>1, <1>2, <1>3, <2>5, <3>1 DEF TableTypeOK
  <2> HIDE DEF q
  <2>7. contents' = q /\ TableInv'
    BY <2>3, <2>5, <2>6, Becomes
  <2>8. M!Remove(key)
    BY <1>2, <1>4, <1>6, <2>7 DEF M!Remove, q, Unset, m
  <2> QED BY <2>7, <2>8
<1> QED BY <1>5, <1>6

(* No map but the empty one has no keys. *)
LEMMA EmptyMap == << >> \in [{} -> Values] /\ DOMAIN << >> = {}
OBVIOUS

(* The table is emptied. *)
LEMMA ClearStep ==
  ASSUME TableInv, ioopm_hash_table_clear
  PROVE  TableInv' /\ M!Clear
<1> DEFINE q == << >>
<1>1. /\ capacity \in {InitialCapacity} \cup ToSet(primes) /\ words \in {17, GrownWords}
      /\ capacity \in Nat \ {0} /\ DOMAIN buckets = 0 .. capacity - 1
  BY CapacityFacts DEF TableInv, TableTypeOK
<1>2. /\ buckets' = [b \in 0 .. capacity - 1 |-> << >>] /\ size' = 0
      /\ ret' = NULL /\ wild' \in BOOLEAN /\ UNCHANGED <<words, capacity>>
  BY <1>1 DEF ioopm_hash_table_clear, ReadAll
<1>3. q \in [{} -> Values] /\ DOMAIN q = {}
  BY EmptyMap
<1> HIDE DEF q
<1>4. Holds(buckets', capacity', q)
  BY <1>1, <1>2, <1>3, EmptyHolds
<1>5. IsFiniteSet(DOMAIN q) /\ size' = Cardinality(DOMAIN q)
  BY <1>2, <1>3, FS_EmptySet
<1>6. TableTypeOK'
  <2>1. buckets' \in [0 .. capacity' - 1 -> Seq(entry)]
    BY <1>4 DEF Holds, Chains
  <2> QED BY <1>1, <1>2, <2>1, TableAssumption DEF TableTypeOK
<1>7. contents' = q /\ TableInv'
  BY <1>4, <1>5, <1>6, Becomes
<1>8. M!Clear
  BY <1>2, <1>7 DEF M!Clear, q
<1> QED BY <1>7, <1>8

(* Every value is changed in its place. *)
LEMMA ApplyStep ==
  ASSUME TableInv, NEW value \in Values, ioopm_hash_table_apply_to_all(value)
  PROVE  TableInv' /\ M!Overwrite(value)
<1> DEFINE m == contents
           q == Filled(m, value)
<1>1. /\ Holds(buckets, capacity, m) /\ IsFiniteSet(DOMAIN m)
      /\ size = Cardinality(DOMAIN m) /\ TableTypeOK
  BY DEF TableInv
<1>2. /\ buckets' = Filling(buckets, value)
      /\ ret' = NULL /\ wild' \in BOOLEAN /\ UNCHANGED <<words, capacity, size>>
  BY DEF ioopm_hash_table_apply_to_all, ReadAll, Filling
<1> HIDE DEF m
<1>3. Holds(buckets', capacity', q)
  BY <1>1, <1>2, FillHolds
<1>4. DOMAIN q = DOMAIN m
  BY DEF Filled
<1>5. IsFiniteSet(DOMAIN q) /\ size' = Cardinality(DOMAIN q)
  BY <1>1, <1>2, <1>4
<1>6. TableTypeOK'
  <2>1. buckets' \in [0 .. capacity' - 1 -> Seq(entry)]
    BY <1>3 DEF Holds, Chains
  <2> QED BY <1>1, <1>2, <2>1, TableAssumption DEF TableTypeOK
<1> HIDE DEF q
<1>7. contents' = q /\ TableInv'
  BY <1>3, <1>5, <1>6, Becomes
<1>8. M!Overwrite(value)
  BY <1>2, <1>7 DEF M!Overwrite, q, Filled, m
<1> QED BY <1>7, <1>8

-----------------------------------------------------------------------------
(* A new table is empty. *)
LEMMA TableInitInv ==
  ASSUME TableInit
  PROVE  TableInv /\ M!Init
<1> DEFINE q == << >>
<1>1. /\ capacity = InitialCapacity /\ words = 17
      /\ buckets = [b \in 0 .. capacity - 1 |-> << >>]
      /\ size = 0 /\ ret = NULL /\ wild = FALSE
  BY DEF TableInit
<1>2. capacity \in Nat \ {0}
  BY <1>1, TableAssumption
<1>3. q \in [{} -> Values] /\ DOMAIN q = {}
  BY EmptyMap
<1> HIDE DEF q
<1>4. Holds(buckets, capacity, q)
  BY <1>1, <1>2, <1>3, EmptyHolds
<1>5. contents = q
  BY <1>4, ContentsAre, ContentsIs
<1>6. TableTypeOK
  <2>1. buckets \in [0 .. capacity - 1 -> Seq(entry)]
    BY <1>4 DEF Holds, Chains
  <2> QED BY <1>1, <2>1, TableAssumption DEF TableTypeOK
<1>7. IsFiniteSet(DOMAIN q) /\ size = Cardinality(DOMAIN q)
  BY <1>1, <1>3, FS_EmptySet
<1> QED BY <1>1, <1>4, <1>5, <1>6, <1>7 DEF TableInv, M!Init, q

(* Every step keeps the invariant. *)
LEMMA TableNextInv ==
  ASSUME TableInv, TableNext
  PROVE  TableInv'
<1>1. ASSUME NEW key \in Keys, ioopm_hash_table_lookup(key) PROVE TableInv'
  BY <1>1, LookupStep
<1>2. ASSUME NEW key \in Keys, ioopm_hash_table_remove(key) PROVE TableInv'
  BY <1>2, RemoveStep
<1>3. ASSUME NEW key \in Keys, NEW v \in Values, ioopm_hash_table_insert(key, v)
      PROVE  TableInv'
  BY <1>3, InsertStep
<1>4. CASE ioopm_hash_table_clear
  BY <1>4, ClearStep
<1>5. ASSUME NEW v \in Values, ioopm_hash_table_apply_to_all(v) PROVE TableInv'
  BY <1>5, ApplyStep
<1> QED BY <1>1, <1>2, <1>3, <1>4, <1>5 DEF TableNext

(* The invariant names the variables only. *)
LEMMA TableStutter ==
  ASSUME TableInv, UNCHANGED tableVars
  PROVE  TableInv'
<1> DEFINE m == contents
<1>1. /\ Holds(buckets, capacity, m) /\ IsFiniteSet(DOMAIN m)
      /\ size = Cardinality(DOMAIN m) /\ TableTypeOK
  BY DEF TableInv
<1>2. UNCHANGED <<buckets, capacity, size>> /\ TableTypeOK'
  BY <1>1 DEF tableVars, TableTypeOK
<1> HIDE DEF m
<1> QED BY <1>1, <1>2, Becomes

(* The inductive invariant: the buckets hold a finite map, each key once   *)
(* and in its bucket, and size counts its keys                             *)
(* (hash_table-dynamic.c:96-213, 276-284).                                 *)
THEOREM TableInvariance == TableSpec => []TableInv
<1>1. TableInit => TableInv
  BY TableInitInv
<1>2. TableInv /\ [TableNext]_tableVars => TableInv'
  BY TableNextInv, TableStutter
<1> QED BY <1>1, <1>2, PTL DEF TableSpec

(* The capacity is the first one or a prime of the list, every bucket a    *)
(* chain of entries, and size never falls below zero.                      *)
THEOREM TableTypeCorrect == TableSpec => []TableTypeOK
<1>1. TableInv => TableTypeOK
  BY DEF TableInv
<1> QED BY <1>1, TableInvariance, PTL

(* size is the number of entries and of keys, after updates, removals of   *)
(* keys that are not there, and growth (hash_table-dynamic.c:116-173).     *)
THEOREM SizeAlwaysCounts == TableSpec => []SizeCounts
<1>1. TableInv => SizeCounts
  <2>1. SUFFICES ASSUME TableInv
                 PROVE  /\ size = Cardinality(Places)
                        /\ size = Cardinality(ioopm_hash_table_keys)
    BY DEF SizeCounts
  <2> DEFINE m == contents
             D == DOMAIN m
             f == [p \in Places |-> EntryAt(p).key]
  <2>2. Holds(buckets, capacity, m) /\ IsFiniteSet(D) /\ size = Cardinality(D)
    BY <2>1 DEF TableInv
  <2>3. ioopm_hash_table_keys = KeysIn(buckets)
    BY DEF ioopm_hash_table_keys, KeysIn, Places, EntryAt
  <2> HIDE DEF m
  <2>4. ioopm_hash_table_keys = D
    BY <2>2, <2>3, KeysAre
  <2>5. \A p \in Places : /\ p[1] \in 0 .. capacity - 1
                          /\ p[2] \in 1 .. Len(buckets[p[1]]) /\ p = <<p[1], p[2]>>
    <3>1. /\ DOMAIN buckets = 0 .. capacity - 1
          /\ \A b \in 0 .. capacity - 1 : DOMAIN buckets[b] = 1 .. Len(buckets[b])
      BY <2>2 DEF Holds, Chains
    <3> QED BY <3>1 DEF Places
  <2>6. f \in Injection(Places, D)
    <3>1. \A p \in Places : f[p] \in D
      BY <2>4 DEF ioopm_hash_table_keys
    <3>2. ASSUME NEW p \in Places, NEW r \in Places, f[p] = f[r] PROVE p = r
      <4>1. f[p] = buckets[p[1]][p[2]].key /\ f[r] = buckets[r[1]][r[2]].key
        BY DEF EntryAt
      <4>2. hash_int(f[p], capacity) = p[1] /\ hash_int(f[r], capacity) = r[1]
        BY <2>2, <2>5, <4>1, EntryFacts
      <4>3. p[1] = r[1]
        BY <3>2, <4>2
      <4>4. Distinct(buckets[p[1]])
        BY <2>2, <2>5 DEF Holds
      <4>5. p[2] = r[2]
        BY <2>5, <3>2, <4>1, <4>3, <4>4 DEF Distinct
      <4> QED BY <2>5, <4>3, <4>5
    <3> QED BY <3>1, <3>2 DEF Injection, IsInjective
  <2>7. f \in Surjection(Places, D)
    <3>1. f \in [Places -> D]
      BY <2>4 DEF ioopm_hash_table_keys
    <3>2. \A key \in D : \E p \in Places : f[p] = key
      BY <2>4 DEF ioopm_hash_table_keys
    <3> QED BY <3>1, <3>2 DEF Surjection
  <2> HIDE DEF f, D
  <2>8. Cardinality(Places) = Cardinality(D)
    BY <2>2, <2>6, <2>7, FS_Injection
  <2> QED BY <2>2, <2>4, <2>8
<1> QED BY <1>1, TableInvariance, PTL

(* The search of one bucket finds a key exactly if the table has an entry  *)
(* with it, and then the value of that entry                               *)
(* (hash_table-dynamic.c:57-72, 96-114, 175-198; common.c:26-32).          *)
THEOREM LookupAlwaysFinds == TableSpec => []LookupFinds
<1>1. TableInv => LookupFinds
  <2>1. SUFFICES ASSUME TableInv, NEW key \in Keys
                 PROVE  /\ Found(Bucket(key), key) = ioopm_hash_table_has_key(key)
                        /\ \A p \in Places : EntryAt(p).key = key
                                               => lookup(key) = EntryAt(p).value
    BY DEF LookupFinds
  <2> DEFINE m == contents
  <2>2. Holds(buckets, capacity, m)
    BY <2>1 DEF TableInv
  <2>3. ioopm_hash_table_keys = KeysIn(buckets)
    BY DEF ioopm_hash_table_keys, KeysIn, Places, EntryAt
  <2>4. lookup(key) = ValueIn(buckets, capacity, key)
    BY DEF lookup, ValueIn, Bucket
  <2> HIDE DEF m
  <2>5. ioopm_hash_table_keys = DOMAIN m
    BY <2>2, <2>3, KeysAre
  <2>6. ioopm_hash_table_has_key(key) <=> key \in DOMAIN m
    BY <2>5 DEF ioopm_hash_table_has_key, ioopm_hash_table_keys
  <2>7. Found(Bucket(key), key) <=> key \in DOMAIN m
    BY <2>1, <2>2, KeyFound, KeyMissing DEF Bucket
  <2>8. Found(Bucket(key), key) \in BOOLEAN /\ ioopm_hash_table_has_key(key) \in BOOLEAN
    BY Zenon DEF Found, ioopm_hash_table_has_key
  <2>9. ASSUME NEW p \in Places, EntryAt(p).key = key
        PROVE  lookup(key) = EntryAt(p).value
    <3> DEFINE b == p[1]
               i == p[2]
    <3>1. /\ DOMAIN buckets = 0 .. capacity - 1
          /\ \A c \in 0 .. capacity - 1 : DOMAIN buckets[c] = 1 .. Len(buckets[c])
      BY <2>2 DEF Holds, Chains
    <3>2. b \in 0 .. capacity - 1 /\ i \in 1 .. Len(buckets[b])
      BY <3>1 DEF Places
    <3>3. EntryAt(p) = buckets[b][i]
      BY DEF EntryAt
    <3> HIDE DEF b, i
    <3>4. key \in DOMAIN m /\ EntryAt(p).value = m[key]
      BY <2>2, <2>9, <3>2, <3>3, EntryFacts
    <3> QED BY <2>2, <2>4, <3>4, KeyFound
  <2> QED BY <2>6, <2>7, <2>8, <2>9
<1> QED BY <1>1, TableInvariance, PTL

(* The table keeps the promises of its header: until a bucket outside the *)
(* memory is touched, every operation does to the keys and values in the   *)
(* table what hash_table-dynamic.h says of it, but for the removal of a    *)
(* key whose value is NULL.                                                *)
THEOREM TableImplementsMap == TableSpec => ImplementsMap
<1>1. TableInit => M!Init
  BY TableInitInv
<1>2. TableInv => KeepsMap
  BY LookupStep, RemoveStep, InsertStep, ClearStep, ApplyStep DEF KeepsMap
<1>3. TableInv /\ [TableNext]_tableVars => [~wild' => KeepsMap]_tableVars
  BY <1>2
<1> QED BY <1>1, <1>3, TableInvariance, PTL DEF TableSpec, ImplementsMap
=============================================================================
