-------------------------- MODULE LinkedListProofs --------------------------
(***************************************************************************)
(* The list is a path: proofs of ListTypeOK, WalksStayInside and           *)
(* OneHiddenAtMost, and that LinkedList keeps the promises of ListPromise. *)
(***************************************************************************)
EXTENDS LinkedList, InductionProofs

(* The positions s of the links from first f on, in the memory l.  No link *)
(* is met twice, and the last one points nowhere.                          *)
Path(s, l, f) ==
  /\ s \in Seq(1 .. Len(l)) /\ Len(s) <= Len(l)
  /\ f = IF Len(s) = 0 THEN NULL ELSE s[1]
  /\ \A i \in 1 .. Len(s) : l[s[i]].next = IF i = Len(s) THEN NULL ELSE s[i + 1]
  /\ \A i, j \in 1 .. Len(s) : s[i] = s[j] => i = j

(* The list shows all links of the path but at most one, and the pointer   *)
(* last is at its end.                                                     *)
Shows(s, n, p) == n \in Nat /\ n \in {Len(s), Len(s) - 1} /\ (n # 0 => p = s[Len(s)])

Block(n) == [value : Values, next : 0 .. n]

(* Pointers lead to links that were allocated. *)
ListTyped ==
  /\ link \in Seq(Block(Len(link))) /\ Len(link) <= MaxLinks
  /\ first \in 0 .. Len(link) /\ last \in 0 .. Len(link)
  /\ cur \in 0 .. Len(link) \cup {NoIter}
  /\ size \in Int
  /\ ret \in Values \cup {Nothing}
  /\ fault \in BOOLEAN /\ sound \in BOOLEAN

Links == [i \in 1 .. Length |-> find_link[i - 1]]

(* The inductive invariant: while the list is used soundly its links are a *)
(* path, which it shows.                                                   *)
ListInv ==
  ListTyped /\ (sound => Path(Links, link, first) /\ Shows(Links, size, last))
-----------------------------------------------------------------------------
(* The walk of find_link from first f in the memory l, as a function.      *)
Walking(w, l, f) ==
  w = [index \in 0 .. MaxLinks + 1 |->
        IF index = 0 THEN f ELSE IF w[index - 1] = NULL THEN NULL ELSE l[w[index - 1]].next]

Ends(w, n) == w[n] = NULL /\ (n = 0 \/ w[n - 1] # NULL)

(* find_link is such a walk, before and after a step. *)
LEMMA FindLinkIs ==
  /\ find_link = CHOOSE w : Walking(w, link, first)
  /\ find_link' = CHOOSE w : Walking(w, link', first')
BY Zenon DEF find_link, NextOf, Walking

(* Length is where it ends. *)
LEMMA LengthIs ==
  /\ Length = CHOOSE n \in Pointers : Ends(find_link, n)
  /\ Length' = CHOOSE n \in Pointers : Ends(find_link', n)
BY Zenon DEF Length, Ends

(* The walk along a path meets its links, then NULL. *)
LEMMA WalkAlongPath ==
  ASSUME NEW s, NEW l, NEW f, Path(s, l, f), Len(l) <= MaxLinks, Len(l) \in Nat,
         NEW w, w = CHOOSE u : Walking(u, l, f)
  PROVE  /\ \A i \in 1 .. Len(s) : w[i - 1] = s[i]
         /\ (CHOOSE n \in Pointers : Ends(w, n)) = Len(s)
<1> DEFINE t == [i \in 0 .. MaxLinks + 1 |-> IF i < Len(s) THEN s[i + 1] ELSE NULL]
<1>1. MaxLinks \in Nat
  BY ListAssumption
<1>2. s \in Seq(1 .. Len(l)) /\ Len(s) \in Nat /\ Len(s) <= MaxLinks
  <2>1. s \in Seq(1 .. Len(l)) /\ Len(s) <= Len(l)
    BY DEF Path
  <2>2. Len(s) \in Nat
    BY <2>1
  <2> QED BY <1>1, <2>1, <2>2
<1>3. \A i \in 1 .. Len(s) : s[i] \in 1 .. Len(l)
  BY <1>2
<1>4. Walking(t, l, f)
  <2>1. ASSUME NEW i \in 0 .. MaxLinks + 1
        PROVE  t[i] = IF i = 0 THEN f
                      ELSE IF t[i - 1] = NULL THEN NULL ELSE l[t[i - 1]].next
    <3>1. CASE i = 0
      BY <1>1, <1>2, <3>1 DEF Path
    <3>2. CASE i # 0 /\ i <= Len(s)
      <4>1. i \in 1 .. Len(s) /\ i - 1 \in 0 .. MaxLinks + 1 /\ t[i - 1] = s[i]
        BY <1>1, <1>2, <3>2
      <4>2. l[s[i]].next = (IF i = Len(s) THEN NULL ELSE s[i + 1]) /\ s[i] # NULL
        BY <1>3, <4>1 DEF Path, NULL
      <4>3. t[i] = IF i = Len(s) THEN NULL ELSE s[i + 1]
        BY <1>1, <1>2, <3>2
      <4> HIDE DEF t
      <4> QED BY <3>2, <4>1, <4>2, <4>3
    <3>3. CASE i # 0 /\ i > Len(s)
      BY <1>1, <1>2, <3>3
    <3> QED BY <1>2, <3>1, <3>2, <3>3
  <2> QED BY <2>1, Zenon DEF Walking
<1>5. Walking(w, l, f)
  BY <1>4, Zenon
<1>6. \A i \in 0 .. MaxLinks + 1 :
        w[i] = IF i = 0 THEN f ELSE IF w[i - 1] = NULL THEN NULL ELSE l[w[i - 1]].next
  BY <1>5, Zenon DEF Walking
<1>7. \A i \in 0 .. MaxLinks + 1 :
        t[i] = IF i = 0 THEN f ELSE IF t[i - 1] = NULL THEN NULL ELSE l[t[i - 1]].next
  BY <1>4, Zenon DEF Walking
<1>8. \A i \in 0 .. MaxLinks + 1 : w[i] = t[i]
  <2> DEFINE T == {i \in 0 .. MaxLinks + 1 : w[i] = t[i]}
  <2> HIDE DEF t
  <2>1. Inductive(T, MaxLinks + 1)
    <3>1. 0 \in T
      BY <1>1, <1>6, <1>7
    <3>2. ASSUME NEW m \in 1 .. MaxLinks + 1, m - 1 \in T PROVE m \in T
      <4>1. m \in 0 .. MaxLinks + 1 /\ m # 0 /\ w[m - 1] = t[m - 1]
        BY <1>1, <3>2
      <4>2. w[m] = t[m]
        BY <1>6, <1>7, <4>1
      <4> QED BY <4>1, <4>2
    <3> QED BY <3>1, <3>2 DEF Inductive
  <2>2. MaxLinks + 1 \in Nat
    BY <1>1
  <2> HIDE DEF T
  <2>3. \A i \in 0 .. MaxLinks + 1 : i \in T
    BY <2>1, <2>2, UpTo
  <2> QED BY <2>3 DEF T
<1>9. \A i \in 0 .. MaxLinks + 1 : w[i] = IF i < Len(s) THEN s[i + 1] ELSE NULL
  BY <1>8
<1>10. \A i \in 1 .. Len(s) : w[i - 1] = s[i]
  BY <1>1, <1>2, <1>9
<1>11. Ends(w, Len(s)) /\ Len(s) \in Pointers
  <2>1. w[Len(s)] = NULL
    BY <1>1, <1>2, <1>9
  <2>2. CASE Len(s) = 0
    BY <1>1, <1>2, <2>1, <2>2 DEF Ends, Pointers
  <2>3. CASE Len(s) # 0
    <3>1. w[Len(s) - 1] = s[Len(s)] /\ s[Len(s)] # NULL
      BY <1>2, <1>3, <1>10, <2>3 DEF NULL
    <3> QED BY <1>1, <1>2, <2>1, <3>1 DEF Ends, Pointers
  <2> QED BY <2>2, <2>3
<1>12. ASSUME NEW n \in Pointers, Ends(w, n) PROVE n = Len(s)
  <2>1. n \in Nat /\ n <= MaxLinks
    BY <1>1 DEF Pointers
  <2>2. ~(n < Len(s))
    <3>1. SUFFICES ASSUME n < Len(s) PROVE FALSE
      OBVIOUS
    <3>2. n \in 0 .. MaxLinks + 1 /\ n + 1 \in 1 .. Len(s)
      BY <1>1, <1>2, <2>1, <3>1
    <3>3. w[n] = s[n + 1] /\ s[n + 1] \in 1 .. Len(l)
      BY <1>3, <1>9, <3>1, <3>2
    <3>4. w[n] # NULL
      BY <3>3 DEF NULL
    <3> QED BY <1>12, <3>4 DEF Ends
  <2>3. ~(n > Len(s))
    <3>1. SUFFICES ASSUME n > Len(s) PROVE FALSE
      OBVIOUS
    <3>2. n # 0 /\ w[n - 1] = NULL
      BY <1>1, <1>2, <1>9, <2>1, <3>1
    <3> QED BY <1>12, <3>2 DEF Ends
  <2> QED BY <1>2, <2>1, <2>2, <2>3
<1>13. (CHOOSE n \in Pointers : Ends(w, n)) = Len(s)
  BY <1>11, <1>12, Zenon
<1> QED BY <1>10, <1>13

(* Links and Length of a state that has a path. *)
LEMMA PathIsLinks ==
  /\ \A s : /\ Path(s, link, first) /\ Len(link) <= MaxLinks /\ Len(link) \in Nat
            => /\ Links = s /\ Length = Len(s)
               /\ \A i \in 1 .. Len(s) : find_link[i - 1] = s[i]
  /\ \A s : /\ Path(s, link', first') /\ Len(link') <= MaxLinks /\ Len(link') \in Nat
            => /\ Links' = s /\ Length' = Len(s)
               /\ \A i \in 1 .. Len(s) : find_link'[i - 1] = s[i]
<1>1. ASSUME NEW s, Path(s, link, first), Len(link) <= MaxLinks, Len(link) \in Nat
      PROVE  /\ Links = s /\ Length = Len(s)
             /\ \A i \in 1 .. Len(s) : find_link[i - 1] = s[i]
  <2>1. /\ \A i \in 1 .. Len(s) : find_link[i - 1] = s[i]
        /\ Length = Len(s)
    <3>1. find_link = CHOOSE w : Walking(w, link, first)
      BY FindLinkIs
    <3>2. /\ \A i \in 1 .. Len(s) : find_link[i - 1] = s[i]
          /\ (CHOOSE n \in Pointers : Ends(find_link, n)) = Len(s)
      BY <1>1, <3>1, WalkAlongPath
    <3> QED BY <3>2, LengthIs
  <2>2. s \in Seq(1 .. Len(link))
    BY <1>1 DEF Path
  <2>3. Links = s
    BY <2>1, <2>2 DEF Links
  <2> QED BY <2>1, <2>3
<1>2. ASSUME NEW s, Path(s, link', first'), Len(link') <= MaxLinks, Len(link') \in Nat
      PROVE  /\ Links' = s /\ Length' = Len(s)
             /\ \A i \in 1 .. Len(s) : find_link'[i - 1] = s[i]
  <2>1. /\ \A i \in 1 .. Len(s) : find_link'[i - 1] = s[i]
        /\ Length' = Len(s)
    <3>1. find_link' = CHOOSE w : Walking(w, link', first')
      BY FindLinkIs
    <3>2. /\ \A i \in 1 .. Len(s) : find_link'[i - 1] = s[i]
          /\ (CHOOSE n \in Pointers : Ends(find_link', n)) = Len(s)
      BY <1>2, <3>1, WalkAlongPath
    <3> QED BY <3>2, LengthIs
  <2>2. s \in Seq(1 .. Len(link'))
    BY <1>2 DEF Path
  <2>3. Links' = s
    BY <2>1, <2>2 DEF Links
  <2> QED BY <2>1, <2>3
<1> QED BY <1>1, <1>2
-----------------------------------------------------------------------------
(* The values along a path. *)
ValuesOf(s, l) == [i \in 1 .. Len(s) |-> l[s[i]].value]

(* A path of positions: what the lemmas below use of it. *)
LEMMA PathFacts ==
  ASSUME NEW s, NEW l, NEW f, Path(s, l, f)
  PROVE  /\ Len(s) \in Nat /\ DOMAIN s = 1 .. Len(s)
         /\ \A i \in 1 .. Len(s) : s[i] \in 1 .. Len(l)
<1>1. s \in Seq(1 .. Len(l))
  BY DEF Path
<1> QED BY <1>1

(* The list of one new link, in a memory that has one more. *)
LEMMA PathOfOne ==
  ASSUME NEW n \in Nat, NEW l, Len(l) = n + 1, l[n + 1].next = NULL
  PROVE  Path(<<n + 1>>, l, n + 1)
<1> DEFINE s == <<n + 1>>
<1>1. s \in Seq(1 .. Len(l)) /\ Len(s) = 1 /\ s[1] = n + 1
  OBVIOUS
<1> HIDE DEF s
<1>2. Path(s, l, n + 1)
  BY <1>1 DEF Path
<1> QED BY <1>2 DEF s

(* The memory m has a link more than l, behind link q. *)
LinkBehind(m, l, q) ==
  /\ Len(m) = Len(l) + 1
  /\ m[Len(l) + 1].next = l[q].next /\ m[q].next = Len(l) + 1
  /\ \A i \in 1 .. Len(l) : i # q => m[i].next = l[i].next

(* A new link behind position p. *)
LEMMA PathInserted ==
  ASSUME NEW s, NEW l, NEW f, Path(s, l, f), NEW p \in 1 .. Len(s), Len(l) \in Nat,
         NEW m, LinkBehind(m, l, s[p])
  PROVE  Path(Inserted(s, p, Len(l) + 1), m, f)
<1> DEFINE new == Len(l) + 1
           t == Inserted(s, p, new)
<1>1. /\ Len(s) \in Nat /\ p \in Nat /\ 1 <= p /\ p <= Len(s)
      /\ \A i \in 1 .. Len(s) : s[i] \in 1 .. Len(l)
  BY PathFacts
<1>2. new \in Nat /\ new \in 1 .. Len(m) /\ Len(m) = new /\ \A i \in 1 .. Len(s) : s[i] # new
  BY <1>1 DEF LinkBehind
<1>3. /\ \A i \in 1 .. Len(s) : l[s[i]].next = IF i = Len(s) THEN NULL ELSE s[i + 1]
      /\ \A i, j \in 1 .. Len(s) : s[i] = s[j] => i = j
      /\ f = IF Len(s) = 0 THEN NULL ELSE s[1]
      /\ s \in Seq(1 .. Len(l)) /\ Len(s) <= Len(l)
  BY DEF Path
<1>4. /\ m[new].next = l[s[p]].next /\ m[s[p]].next = new
      /\ \A i \in 1 .. Len(l) : i # s[p] => m[i].next = l[i].next
  BY DEF LinkBehind
<1> HIDE DEF new
<1>5. t \in Seq(1 .. Len(m)) /\ Len(t) = Len(s) + 1
  <2>1. s \in Seq(1 .. Len(m))
    <3>1. 1 .. Len(l) \subseteq 1 .. Len(m)
      BY <1>2 DEF new
    <3> QED BY <1>3, <3>1, SeqWidens
  <2>2. p \in 0 .. Len(s) /\ new \in 1 .. Len(m)
    BY <1>1, <1>2
  <2> DEFINE S == 1 .. Len(m)
  <2>3. s \in Seq(S) /\ new \in S
    BY <2>1, <2>2
  <2> HIDE DEF t, S
  <2>4. Inserted(s, p, new) \in Seq(S) /\ Len(Inserted(s, p, new)) = Len(s) + 1
    BY <2>2, <2>3, InsertedFacts
  <2> QED BY <2>4 DEF t, S
<1>6. /\ \A i \in 1 .. p : t[i] = s[i]
      /\ t[p + 1] = new
      /\ \A i \in p + 1 .. Len(s) : t[i + 1] = s[i]
  <2>1. ASSUME NEW i \in p + 1 .. Len(s) PROVE t[i + 1] = s[i]
    <3>1. i + 1 \in 1 .. Len(s) + 1 /\ ~(i + 1 <= p) /\ i + 1 # p + 1 /\ (i + 1) - 1 = i
      BY <1>1
    <3> QED BY <3>1 DEF Inserted
  <2> QED BY <1>1, <2>1 DEF Inserted
<1> HIDE DEF t
<1>7. ASSUME NEW i \in 1 .. Len(t)
      PROVE  m[t[i]].next = IF i = Len(t) THEN NULL ELSE t[i + 1]
  <2>1. CASE i < p
    <3>1. i \in 1 .. Len(s) /\ i # Len(s) /\ i # p /\ i + 1 \in 1 .. p /\ i \in 1 .. p
      BY <1>1, <1>5, <2>1
    <3>2. s[i] # s[p] /\ s[i] \in 1 .. Len(l)
      BY <1>1, <1>3, <3>1
    <3>3. m[s[i]].next = s[i + 1]
      BY <1>3, <1>4, <3>1, <3>2
    <3>4. t[i] = s[i] /\ t[i + 1] = s[i + 1]
      BY <1>6, <3>1
    <3>5. i # Len(t)
      BY <1>1, <1>5, <2>1
    <3> QED BY <3>3, <3>4, <3>5
  <2>2. CASE i = p
    <3>1. p \in 1 .. p /\ p # Len(t)
      BY <1>1, <1>5
    <3> QED BY <1>4, <1>6, <2>2, <3>1
  <2>3. CASE i = p + 1
    <3>1. l[s[p]].next = IF p = Len(s) THEN NULL ELSE s[p + 1]
      BY <1>3
    <3>2. p # Len(s) => t[i + 1] = s[p + 1]
      <4>1. SUFFICES ASSUME p # Len(s) PROVE t[(p + 1) + 1] = s[p + 1]
        BY <2>3
      <4>2. p + 1 \in p + 1 .. Len(s)
        BY <1>1, <4>1
      <4> QED BY <1>6, <4>2
    <3> QED BY <1>1, <1>4, <1>5, <1>6, <2>3, <3>1, <3>2
  <2>4. CASE i > p + 1
    <3>1. PICK j \in p + 1 .. Len(s) : i = j + 1
      <4>1. i \in Nat /\ i - 1 \in p + 1 .. Len(s) /\ i = (i - 1) + 1
        BY <1>1, <1>5, <2>4
      <4> QED BY <4>1
    <3>2. j \in 1 .. Len(s) /\ j # p /\ j + 1 \in Nat
      BY <1>1, <3>1
    <3>3. s[j] # s[p] /\ s[j] \in 1 .. Len(l)
      BY <1>1, <1>3, <3>2
    <3>4. m[s[j]].next = IF j = Len(s) THEN NULL ELSE s[j + 1]
      BY <1>3, <1>4, <3>2, <3>3
    <3>5. t[i] = s[j]
      BY <1>6, <3>1
    <3>6. j # Len(s) => t[i + 1] = s[j + 1]
      <4>1. SUFFICES ASSUME j # Len(s) PROVE t[i + 1] = s[j + 1]
        OBVIOUS
      <4>2. j + 1 \in p + 1 .. Len(s)
        BY <1>1, <3>1, <3>2, <4>1
      <4> QED BY <1>6, <3>1, <4>2
    <3>7. i = Len(t) <=> j = Len(s)
      <4>1. j \in Nat /\ Len(s) \in Nat
        BY <1>1, <3>1
      <4>2. j + 1 = Len(s) + 1 <=> j = Len(s)
        BY <4>1
      <4> QED BY <1>5, <3>1, <4>2
    <3> QED BY <3>4, <3>5, <3>6, <3>7
  <2>5. i < p \/ i = p \/ i = p + 1 \/ i > p + 1
    BY <1>1, <1>5
  <2> QED BY <2>1, <2>2, <2>3, <2>4, <2>5
<1>8. ASSUME NEW i \in 1 .. Len(t), NEW j \in 1 .. Len(t), t[i] = t[j]
      PROVE  i = j
  <2>1. \A k \in 1 .. Len(t) :
           \/ k = p + 1 /\ t[k] = new
           \/ k # p + 1 /\ (\E h \in 1 .. Len(s) : t[k] = s[h] /\ k = IF h <= p THEN h ELSE h + 1)
    <3>1. SUFFICES ASSUME NEW k \in 1 .. Len(t), k # p + 1
                   PROVE  \E h \in 1 .. Len(s) : t[k] = s[h] /\ k = IF h <= p THEN h ELSE h + 1
      BY <1>6
    <3>2. CASE k <= p
      <4>1. k \in 1 .. p /\ k \in 1 .. Len(s)
        BY <1>1, <1>5, <3>2
      <4> QED BY <1>6, <3>2, <4>1
    <3>3. CASE k > p
      <4>1. k \in Nat /\ k - 1 \in p + 1 .. Len(s) /\ k = (k - 1) + 1
        BY <1>1, <1>5, <3>1, <3>3
      <4>2. PICK h \in p + 1 .. Len(s) : k = h + 1
        BY <4>1
      <4>3. h \in 1 .. Len(s) /\ ~(h <= p)
        BY <1>1, <4>2
      <4>4. t[k] = s[h]
        BY <1>6, <4>2
      <4>5. k = IF h <= p THEN h ELSE h + 1
        BY <4>2, <4>3
      <4> QED BY <4>3, <4>4, <4>5
    <3>4. k <= p \/ k > p
      BY <1>1, <1>5
    <3> QED BY <3>2, <3>3, <3>4
  <2>2. CASE i = p + 1 \/ j = p + 1
    BY <1>2, <1>6, <1>8, <2>1, <2>2
  <2>3. CASE i # p + 1 /\ j # p + 1
    <3>1. PICK h \in 1 .. Len(s) : t[i] = s[h] /\ i = IF h <= p THEN h ELSE h + 1
      BY <2>1, <2>3
    <3>2. PICK g \in 1 .. Len(s) : t[j] = s[g] /\ j = IF g <= p THEN g ELSE g + 1
      BY <2>1, <2>3
    <3>3. h = g
      BY <1>3, <1>8, <3>1, <3>2
    <3> QED BY <3>1, <3>2, <3>3
  <2> QED BY <2>2, <2>3
<1>9. f = IF Len(t) = 0 THEN NULL ELSE t[1]
  <2>1. 1 \in 1 .. p /\ Len(t) # 0 /\ Len(s) # 0
    BY <1>1, <1>5
  <2> QED BY <1>3, <1>6, <2>1
<1>10. Len(t) <= Len(m)
  BY <1>2, <1>3, <1>5 DEF new
<1>11. Path(t, m, f)
  BY <1>5, <1>7, <1>8, <1>9, <1>10 DEF Path
<1> QED BY <1>11 DEF t, new

(* The memory m has a link more than l, in front of f. *)
LinkBefore(m, l, f) ==
  /\ Len(m) = Len(l) + 1 /\ m[Len(l) + 1].next = f
  /\ \A i \in 1 .. Len(l) : m[i].next = l[i].next

(* A new first link. *)
LEMMA PathPrepended ==
  ASSUME NEW s, NEW l, NEW f, Path(s, l, f), Len(l) \in Nat,
         NEW m, LinkBefore(m, l, f)
  PROVE  Path(Inserted(s, 0, Len(l) + 1), m, Len(l) + 1)
<1> DEFINE new == Len(l) + 1
           t == Inserted(s, 0, new)
<1>1. /\ Len(s) \in Nat
      /\ \A i \in 1 .. Len(s) : s[i] \in 1 .. Len(l)
  BY PathFacts
<1>2. new \in Nat /\ new \in 1 .. Len(m) /\ Len(m) = new /\ \A i \in 1 .. Len(s) : s[i] # new
  BY <1>1 DEF LinkBefore
<1>3. /\ \A i \in 1 .. Len(s) : l[s[i]].next = IF i = Len(s) THEN NULL ELSE s[i + 1]
      /\ \A i, j \in 1 .. Len(s) : s[i] = s[j] => i = j
      /\ f = IF Len(s) = 0 THEN NULL ELSE s[1]
      /\ s \in Seq(1 .. Len(l)) /\ Len(s) <= Len(l)
  BY DEF Path
<1>4. /\ m[new].next = f
      /\ \A i \in 1 .. Len(l) : m[i].next = l[i].next
  BY DEF LinkBefore
<1> HIDE DEF new
<1>5. t \in Seq(1 .. Len(m)) /\ Len(t) = Len(s) + 1
  <2>1. s \in Seq(1 .. Len(m)) /\ 0 \in 0 .. Len(s)
    <3>1. 1 .. Len(l) \subseteq 1 .. Len(m)
      BY <1>2 DEF new
    <3>2. s \in Seq(1 .. Len(m))
      BY <1>3, <3>1, SeqWidens
    <3> QED BY <1>1, <3>2
  <2> DEFINE S == 1 .. Len(m)
  <2>2. s \in Seq(S) /\ new \in S
    BY <1>2, <2>1
  <2> HIDE DEF t, S
  <2>3. Inserted(s, 0, new) \in Seq(S) /\ Len(Inserted(s, 0, new)) = Len(s) + 1
    BY <2>1, <2>2, InsertedFacts
  <2> QED BY <2>3 DEF t, S
<1>6. t[1] = new /\ \A i \in 1 .. Len(s) : t[i + 1] = s[i]
  <2>1. ASSUME NEW i \in 1 .. Len(s) PROVE t[i + 1] = s[i]
    <3>1. i + 1 \in 1 .. Len(s) + 1 /\ ~(i + 1 <= 0) /\ i + 1 # 0 + 1 /\ (i + 1) - 1 = i
      BY <1>1
    <3> QED BY <3>1 DEF Inserted
  <2> QED BY <1>1, <2>1 DEF Inserted
<1> HIDE DEF t
<1>7. ASSUME NEW i \in 1 .. Len(t)
      PROVE  m[t[i]].next = IF i = Len(t) THEN NULL ELSE t[i + 1]
  <2>1. CASE i = 1
    BY <1>1, <1>3, <1>4, <1>5, <1>6, <2>1
  <2>2. CASE i # 1
    <3>1. PICK j \in 1 .. Len(s) : i = j + 1
      <4>1. i \in Nat /\ i - 1 \in 1 .. Len(s) /\ i = (i - 1) + 1
        BY <1>1, <1>5, <2>2
      <4> QED BY <4>1
    <3>2. s[j] \in 1 .. Len(l) /\ t[i] = s[j]
      BY <1>1, <1>6, <3>1
    <3>3. m[s[j]].next = IF j = Len(s) THEN NULL ELSE s[j + 1]
      BY <1>3, <1>4, <3>2
    <3>4. j # Len(s) => t[i + 1] = s[j + 1]
      <4>1. SUFFICES ASSUME j # Len(s) PROVE t[i + 1] = s[j + 1]
        OBVIOUS
      <4>2. j + 1 \in 1 .. Len(s)
        BY <1>1, <4>1
      <4> QED BY <1>6, <3>1, <4>2
    <3>5. i = Len(t) <=> j = Len(s)
      BY <1>1, <1>5, <3>1
    <3> QED BY <3>2, <3>3, <3>4, <3>5
  <2> QED BY <2>1, <2>2
<1>8. ASSUME NEW i \in 1 .. Len(t), NEW j \in 1 .. Len(t), t[i] = t[j]
      PROVE  i = j
  <2>1. ASSUME NEW k \in 1 .. Len(t), k # 1
        PROVE  \E h \in 1 .. Len(s) : t[k] = s[h] /\ k = h + 1
    <3>1. k \in Nat /\ k - 1 \in 1 .. Len(s) /\ k = (k - 1) + 1
      BY <1>1, <1>5, <2>1
    <3> QED BY <1>6, <3>1
  <2>2. CASE i = 1 \/ j = 1
    <3>1. \A k \in 1 .. Len(t) : k # 1 => t[k] # new
      BY <1>2, <2>1
    <3> QED BY <1>6, <1>8, <2>2, <3>1
  <2>3. CASE i # 1 /\ j # 1
    <3>1. PICK h \in 1 .. Len(s) : t[i] = s[h] /\ i = h + 1
      BY <2>1, <2>3
    <3>2. PICK g \in 1 .. Len(s) : t[j] = s[g] /\ j = g + 1
      BY <2>1, <2>3
    <3>3. h = g
      BY <1>3, <1>8, <3>1, <3>2
    <3> QED BY <3>1, <3>2, <3>3
  <2> QED BY <2>2, <2>3
<1>9. new = IF Len(t) = 0 THEN NULL ELSE t[1]
  BY <1>1, <1>5, <1>6
<1>10. Len(t) <= Len(m)
  BY <1>1, <1>2, <1>3, <1>5 DEF new
<1>11. Path(t, m, new)
  BY <1>5, <1>7, <1>8, <1>9, <1>10 DEF Path
<1> QED BY <1>11 DEF t, new
(* Without the first link. *)
LEMMA PathTail ==
  ASSUME NEW s, NEW l, NEW f, Path(s, l, f), Len(s) # 0, Len(l) \in Nat
  PROVE  Path(Dropped(s, 1), l, l[s[1]].next)
<1> DEFINE t == Dropped(s, 1)
           g == l[s[1]].next
<1>1. /\ Len(s) \in Nat /\ 1 \in 1 .. Len(s)
      /\ \A i \in 1 .. Len(s) : s[i] \in 1 .. Len(l)
  BY PathFacts
<1>2. /\ \A i \in 1 .. Len(s) : l[s[i]].next = IF i = Len(s) THEN NULL ELSE s[i + 1]
      /\ \A i, j \in 1 .. Len(s) : s[i] = s[j] => i = j
      /\ s \in Seq(1 .. Len(l)) /\ Len(s) <= Len(l)
  BY DEF Path
<1>3. t \in Seq(1 .. Len(l)) /\ Len(t) = Len(s) - 1
  BY <1>1, <1>2, DroppedFacts
<1>4. \A i \in 1 .. Len(t) : t[i] = s[i + 1]
  BY <1>1, <1>3 DEF Dropped
<1>5. g = IF 1 = Len(s) THEN NULL ELSE s[1 + 1]
  BY <1>1, <1>2
<1> HIDE DEF t, g
<1>6. ASSUME NEW i \in 1 .. Len(t)
      PROVE  l[t[i]].next = IF i = Len(t) THEN NULL ELSE t[i + 1]
  <2>1. i + 1 \in 1 .. Len(s) /\ i \in Nat
    BY <1>1, <1>3
  <2>2. t[i] = s[i + 1] /\ l[s[i + 1]].next = IF i + 1 = Len(s) THEN NULL ELSE s[(i + 1) + 1]
    BY <1>2, <1>4, <2>1
  <2>3. i # Len(t) => t[i + 1] = s[(i + 1) + 1]
    <3>1. SUFFICES ASSUME i # Len(t) PROVE t[i + 1] = s[(i + 1) + 1]
      OBVIOUS
    <3>2. i + 1 \in 1 .. Len(t)
      BY <1>1, <1>3, <3>1
    <3> QED BY <1>4, <3>2
  <2>4. i = Len(t) <=> i + 1 = Len(s)
    BY <1>1, <1>3, <2>1
  <2> QED BY <2>2, <2>3, <2>4
<1>7. ASSUME NEW i \in 1 .. Len(t), NEW j \in 1 .. Len(t), t[i] = t[j]
      PROVE  i = j
  <2>1. i + 1 \in 1 .. Len(s) /\ j + 1 \in 1 .. Len(s) /\ i \in Nat /\ j \in Nat
    BY <1>1, <1>3
  <2>2. i + 1 = j + 1
    BY <1>2, <1>4, <1>7, <2>1
  <2> QED BY <2>1, <2>2
<1>8. g = IF Len(t) = 0 THEN NULL ELSE t[1]
  <2>1. Len(t) = 0 <=> 1 = Len(s)
    BY <1>1, <1>3
  <2>2. Len(t) # 0 => t[1] = s[1 + 1]
    <3>1. SUFFICES ASSUME Len(t) # 0 PROVE t[1] = s[1 + 1]
      OBVIOUS
    <3>2. 1 \in 1 .. Len(t)
      BY <1>1, <1>3, <3>1
    <3> QED BY <1>4, <3>2
  <2> QED BY <1>5, <2>1, <2>2
<1>9. Len(t) <= Len(l)
  BY <1>1, <1>2, <1>3
<1>10. Path(t, l, g)
  BY <1>3, <1>6, <1>7, <1>8, <1>9 DEF Path
<1> QED BY <1>10 DEF t, g

(* The memory m lacks the link that l has behind link q. *)
LinkSkipped(m, l, q) ==
  /\ Len(m) = Len(l) /\ m[q].next = l[l[q].next].next
  /\ \A i \in 1 .. Len(l) : i # q => m[i].next = l[i].next

(* Without the link behind position p. *)
LEMMA PathShortened ==
  ASSUME NEW s, NEW l, NEW f, Path(s, l, f), NEW p \in 1 .. Len(s) - 1, Len(l) \in Nat,
         NEW m, LinkSkipped(m, l, s[p])
  PROVE  Path(Dropped(s, p + 1), m, f)
<1> DEFINE t == Dropped(s, p + 1)
<1>1. /\ Len(s) \in Nat /\ p \in Nat /\ 1 <= p /\ p < Len(s)
      /\ \A i \in 1 .. Len(s) : s[i] \in 1 .. Len(l)
  BY PathFacts
<1>2. /\ \A i \in 1 .. Len(s) : l[s[i]].next = IF i = Len(s) THEN NULL ELSE s[i + 1]
      /\ \A i, j \in 1 .. Len(s) : s[i] = s[j] => i = j
      /\ f = IF Len(s) = 0 THEN NULL ELSE s[1]
      /\ s \in Seq(1 .. Len(l)) /\ Len(s) <= Len(l)
  BY DEF Path
<1>3. /\ m[s[p]].next = l[s[p + 1]].next /\ Len(m) = Len(l)
      /\ \A i \in 1 .. Len(l) : i # s[p] => m[i].next = l[i].next
  <2>1. p \in 1 .. Len(s) /\ p # Len(s)
    BY <1>1
  <2>2. l[s[p]].next = s[p + 1]
    BY <1>2, <2>1
  <2> QED BY <2>2 DEF LinkSkipped
<1>4. t \in Seq(1 .. Len(m)) /\ Len(t) = Len(s) - 1
  <2>1. p + 1 \in 1 .. Len(s)
    BY <1>1
  <2> QED BY <1>2, <1>3, <2>1, DroppedFacts
<1>5. /\ \A i \in 1 .. p : t[i] = s[i]
      /\ \A i \in p + 1 .. Len(t) : t[i] = s[i + 1]
  BY <1>1, <1>4 DEF Dropped
<1> HIDE DEF t
<1>6. ASSUME NEW i \in 1 .. Len(t)
      PROVE  m[t[i]].next = IF i = Len(t) THEN NULL ELSE t[i + 1]
  <2>1. CASE i < p
    <3>1. i \in 1 .. Len(s) /\ i # Len(s) /\ i # p /\ i + 1 \in 1 .. p /\ i \in 1 .. p
      BY <1>1, <1>4, <2>1
    <3>2. s[i] # s[p] /\ s[i] \in 1 .. Len(l)
      BY <1>1, <1>2, <3>1
    <3>3. m[s[i]].next = s[i + 1]
      BY <1>2, <1>3, <3>1, <3>2
    <3>4. t[i] = s[i] /\ t[i + 1] = s[i + 1]
      BY <1>5, <3>1
    <3>5. i # Len(t)
      BY <1>1, <1>4, <2>1
    <3> QED BY <3>3, <3>4, <3>5
  <2>2. CASE i = p
    <3>1. p \in 1 .. p /\ p + 1 \in 1 .. Len(s)
      BY <1>1
    <3>2. t[p] = s[p] /\ m[s[p]].next = IF p + 1 = Len(s) THEN NULL ELSE s[(p + 1) + 1]
      BY <1>2, <1>3, <1>5, <3>1
    <3>3. p # Len(t) => t[p + 1] = s[(p + 1) + 1]
      <4>1. SUFFICES ASSUME p # Len(t) PROVE t[p + 1] = s[(p + 1) + 1]
        OBVIOUS
      <4>2. p + 1 \in p + 1 .. Len(t)
        BY <1>1, <1>4, <4>1
      <4> QED BY <1>5, <4>2
    <3>4. p = Len(t) <=> p + 1 = Len(s)
      BY <1>1, <1>4
    <3> QED BY <2>2, <3>2, <3>3, <3>4
  <2>3. CASE i > p
    <3>1. i \in Nat /\ i \in p + 1 .. Len(t) /\ i + 1 \in 1 .. Len(s) /\ i + 1 # p /\ p \in 1 .. Len(s)
      BY <1>1, <1>4, <2>3
    <3>2. s[i + 1] # s[p] /\ s[i + 1] \in 1 .. Len(l)
      BY <1>1, <1>2, <3>1
    <3>3. t[i] = s[i + 1] /\ m[s[i + 1]].next = IF i + 1 = Len(s) THEN NULL ELSE s[(i + 1) + 1]
      BY <1>2, <1>3, <1>5, <3>1, <3>2
    <3>4. i # Len(t) => t[i + 1] = s[(i + 1) + 1]
      <4>1. SUFFICES ASSUME i # Len(t) PROVE t[i + 1] = s[(i + 1) + 1]
        OBVIOUS
      <4>2. i + 1 \in p + 1 .. Len(t)
        <5>1. i \in Nat /\ Len(t) \in Nat /\ p + 1 <= i /\ i <= Len(t)
          BY <1>1, <1>4, <3>1
        <5> QED BY <1>1, <4>1, <5>1
      <4> QED BY <1>5, <4>2
    <3>5. i = Len(t) <=> i + 1 = Len(s)
      BY <1>1, <1>4, <3>1
    <3> QED BY <3>3, <3>4, <3>5
  <2> QED BY <1>1, <1>4, <2>1, <2>2, <2>3
<1>7. ASSUME NEW i \in 1 .. Len(t), NEW j \in 1 .. Len(t), t[i] = t[j]
      PROVE  i = j
  <2>1. \A k \in 1 .. Len(t) :
          \E h \in 1 .. Len(s) : t[k] = s[h] /\ h = IF k <= p THEN k ELSE k + 1
    <3>1. SUFFICES ASSUME NEW k \in 1 .. Len(t)
                   PROVE  \E h \in 1 .. Len(s) : t[k] = s[h] /\ h = IF k <= p THEN k ELSE k + 1
      OBVIOUS
    <3>2. CASE k <= p
      <4>1. k \in 1 .. p /\ k \in 1 .. Len(s)
        BY <1>1, <1>4, <3>2
      <4> QED BY <1>5, <3>2, <4>1
    <3>3. CASE k > p
      <4>1. k \in p + 1 .. Len(t) /\ k + 1 \in 1 .. Len(s) /\ ~(k <= p)
        BY <1>1, <1>4, <3>3
      <4>2. t[k] = s[k + 1]
        BY <1>5, <4>1
      <4> QED BY <4>1, <4>2
    <3> QED BY <1>1, <1>4, <3>2, <3>3
  <2>2. PICK h \in 1 .. Len(s) : t[i] = s[h] /\ h = IF i <= p THEN i ELSE i + 1
    BY <2>1
  <2>3. PICK g \in 1 .. Len(s) : t[j] = s[g] /\ g = IF j <= p THEN j ELSE j + 1
    BY <2>1
  <2>4. h = g
    BY <1>2, <1>7, <2>2, <2>3
  <2>5. i \in Nat /\ j \in Nat
    BY <1>1, <1>4
  <2> QED BY <1>1, <2>2, <2>3, <2>4, <2>5
<1>8. f = IF Len(t) = 0 THEN NULL ELSE t[1]
  <2>1. 1 \in 1 .. p /\ Len(t) # 0 /\ Len(s) # 0
    BY <1>1, <1>4
  <2> QED BY <1>2, <1>5, <2>1
<1>9. Len(t) <= Len(m)
  BY <1>1, <1>2, <1>3, <1>4
<1>10. Path(t, m, f)
  BY <1>4, <1>6, <1>7, <1>8, <1>9 DEF Path
<1> QED BY <1>10 DEF t

(* A memory with the same links. *)
LEMMA PathKept ==
  ASSUME NEW s, NEW l, NEW f, Path(s, l, f),
         NEW m, Len(m) = Len(l), \A i \in 1 .. Len(l) : m[i].next = l[i].next
  PROVE  Path(s, m, f)
<1>1. \A i \in 1 .. Len(s) : m[s[i]].next = l[s[i]].next
  BY PathFacts
<1> QED BY <1>1 DEF Path
(* The values along a longer and a shorter path. *)
SameValues(m, l) == \A i \in 1 .. Len(l) : m[i].value = l[i].value
NewValue(m, l, v) == m[Len(l) + 1].value = v /\ SameValues(m, l)

(* A new link at a place of the path is a new value at this place. *)
LEMMA ValuesInserted ==
  ASSUME NEW s, NEW l, NEW f, Path(s, l, f), Len(l) \in Nat, NEW p \in 0 .. Len(s),
         NEW m, NEW v, NewValue(m, l, v)
  PROVE  ValuesOf(Inserted(s, p, Len(l) + 1), m) = Inserted(ValuesOf(s, l), p, v)
<1> DEFINE new == Len(l) + 1
           t == Inserted(s, p, new)
           a == ValuesOf(t, m)
           u == ValuesOf(s, l)
           b == Inserted(u, p, v)
<1>1. /\ Len(s) \in Nat /\ p \in Nat /\ 0 <= p /\ p <= Len(s)
      /\ \A i \in 1 .. Len(s) : s[i] \in 1 .. Len(l)
  BY PathFacts
<1>2. \A i \in 1 .. Len(s) : m[s[i]].value = l[s[i]].value
  BY <1>1 DEF NewValue, SameValues
<1>3. m[new].value = v
  BY DEF NewValue
<1> HIDE DEF new
<1>4. Len(t) = Len(s) + 1 /\ DOMAIN t = 1 .. Len(s) + 1
  <2>1. t \in [1 .. Len(s) + 1 -> {t[i] : i \in 1 .. Len(s) + 1}] /\ Len(s) + 1 \in Nat
    BY <1>1 DEF Inserted
  <2>2. Len(t) = Len(s) + 1
    <3> HIDE DEF t
    <3> QED BY <2>1, FunctionIsSeq
  <2> QED BY <2>1, <2>2
<1>5. Len(u) = Len(s)
  <2>1. u \in [1 .. Len(s) -> {u[i] : i \in 1 .. Len(s)}]
    BY DEF ValuesOf
  <2> HIDE DEF u
  <2> QED BY <1>1, <2>1, FunctionIsSeq
<1>6. ASSUME NEW i \in 1 .. Len(s) + 1 PROVE m[t[i]].value = b[i]
  <2>1. b[i] = IF i <= p THEN u[i] ELSE IF i = p + 1 THEN v ELSE u[i - 1]
    <3> HIDE DEF u
    <3> QED BY <1>5 DEF Inserted
  <2>2. t[i] = IF i <= p THEN s[i] ELSE IF i = p + 1 THEN new ELSE s[i - 1]
    BY DEF Inserted
  <2>3. \A j \in 1 .. Len(s) : u[j] = l[s[j]].value
    BY DEF ValuesOf
  <2>4. i <= p => i \in 1 .. Len(s)
    BY <1>1
  <2>5. i > p /\ i # p + 1 => i - 1 \in 1 .. Len(s)
    BY <1>1
  <2>6. i \in Int /\ p \in Int
    BY <1>1
  <2> HIDE DEF t, u, b
  <2> QED BY <1>2, <1>3, <2>1, <2>2, <2>3, <2>4, <2>5, <2>6
<1>7. a = [i \in 1 .. Len(s) + 1 |-> m[t[i]].value]
  <2> HIDE DEF t
  <2> QED BY <1>4 DEF ValuesOf
<1>8. b = [i \in 1 .. Len(s) + 1 |-> b[i]]
  <2> HIDE DEF u
  <2> QED BY <1>5 DEF Inserted
<1>9. a = b
  <2> HIDE DEF a, b, t, u
  <2> QED BY <1>6, <1>7, <1>8
<1> QED BY <1>9 DEF new

(* A link left out of the path is a value left out. *)
LEMMA ValuesDropped ==
  ASSUME NEW s, NEW l, NEW f, Path(s, l, f), NEW q \in 1 .. Len(s),
         NEW m, SameValues(m, l)
  PROVE  ValuesOf(Dropped(s, q), m) = Dropped(ValuesOf(s, l), q)
<1> DEFINE t == Dropped(s, q)
           a == ValuesOf(t, m)
           u == ValuesOf(s, l)
           b == Dropped(u, q)
<1>1. /\ Len(s) \in Nat /\ q \in Nat /\ 1 <= q /\ q <= Len(s) /\ Len(s) - 1 \in Nat
      /\ \A i \in 1 .. Len(s) : s[i] \in 1 .. Len(l)
  BY PathFacts
<1>2. \A i \in 1 .. Len(s) : m[s[i]].value = l[s[i]].value
  BY <1>1 DEF SameValues
<1>4. Len(t) = Len(s) - 1
  <2>1. t \in [1 .. Len(s) - 1 -> {t[i] : i \in 1 .. Len(s) - 1}]
    BY DEF Dropped
  <2> HIDE DEF t
  <2> QED BY <1>1, <2>1, FunctionIsSeq
<1>5. Len(u) = Len(s)
  <2>1. u \in [1 .. Len(s) -> {u[i] : i \in 1 .. Len(s)}]
    BY DEF ValuesOf
  <2> HIDE DEF u
  <2> QED BY <1>1, <2>1, FunctionIsSeq
<1>6. ASSUME NEW i \in 1 .. Len(s) - 1 PROVE m[t[i]].value = b[i]
  <2>1. b[i] = IF i < q THEN u[i] ELSE u[i + 1]
    <3> HIDE DEF u
    <3> QED BY <1>5 DEF Dropped
  <2>2. t[i] = IF i < q THEN s[i] ELSE s[i + 1]
    BY DEF Dropped
  <2>3. \A j \in 1 .. Len(s) : u[j] = l[s[j]].value
    BY DEF ValuesOf
  <2>4. i \in 1 .. Len(s) /\ i + 1 \in 1 .. Len(s)
    BY <1>1
  <2> HIDE DEF t, u, b
  <2> QED BY <1>2, <2>1, <2>2, <2>3, <2>4
<1>7. a = [i \in 1 .. Len(s) - 1 |-> m[t[i]].value]
  <2> HIDE DEF t
  <2> QED BY <1>4 DEF ValuesOf
<1>8. b = [i \in 1 .. Len(s) - 1 |-> b[i]]
  <2> HIDE DEF u
  <2> QED BY <1>5 DEF Dropped
<1>9. a = b
  <2> HIDE DEF a, b, t, u
  <2> QED BY <1>6, <1>7, <1>8
<1> QED BY <1>9

-----------------------------------------------------------------------------
Chained(u, n) == [links |-> u, size |-> n]

(* What is so when the links are a path. *)
LEMMA AlongPath ==
  ASSUME ListTyped, NEW s, Path(s, link, first)
  PROVE  /\ Len(s) \in Nat /\ Len(s) <= Len(link)
         /\ \A i \in 1 .. Len(s) : s[i] \in 1 .. Len(link)
         /\ Length = Len(s) /\ \A i \in 1 .. Len(s) : find_link[i - 1] = s[i]
         /\ chain = Chained(ValuesOf(s, link), size)
         /\ ValuesOf(s, link) \in Seq(Values) /\ Len(ValuesOf(s, link)) = Len(s)
<1>1. Len(link) \in Nat /\ Len(link) <= MaxLinks
  BY DEF ListTyped
<1>2. Length = Len(s) /\ \A i \in 1 .. Len(s) : find_link[i - 1] = s[i]
  BY <1>1, PathIsLinks
<1>3. /\ Len(s) \in Nat
      /\ \A i \in 1 .. Len(s) : s[i] \in 1 .. Len(link)
  BY PathFacts
<1>4. Len(s) <= Len(link)
  BY DEF Path
<1>5. chain = Chained(ValuesOf(s, link), size)
  BY <1>2 DEF chain, Chained, ValuesOf
<1>6. \A i \in 1 .. Len(s) : link[s[i]].value \in Values
  <2>1. SUFFICES ASSUME NEW j \in 1 .. Len(link) PROVE link[j].value \in Values
    BY <1>3
  <2>2. link \in Seq(Block(Len(link)))
    BY DEF ListTyped
  <2>3. link[j] \in Block(Len(link))
    BY <2>2
  <2> QED BY <2>3 DEF Block
<1>7. ValuesOf(s, link) \in Seq(Values) /\ Len(ValuesOf(s, link)) = Len(s)
  <2> DEFINE u == ValuesOf(s, link)
  <2>1. u \in [1 .. Len(s) -> Values]
    BY <1>6 DEF ValuesOf
  <2> HIDE DEF u
  <2>2. u \in Seq(Values) /\ Len(u) = Len(s)
    BY <1>3, <2>1, FunctionIsSeq
  <2> QED BY <2>2 DEF u
<1> QED BY <1>2, <1>3, <1>4, <1>5, <1>7

(* And what is to be shown after it. *)
LEMMA After ==
  ASSUME ListTyped', NEW t, Path(t, link', first'), Shows(t, size', last')
  PROVE  ListInv' /\ chain' = Chained(ValuesOf(t, link'), size')
<1>1. Len(link') \in Nat /\ Len(link') <= MaxLinks
  BY DEF ListTyped
<1>2. /\ Links' = t /\ Length' = Len(t)
      /\ \A i \in 1 .. Len(t) : find_link'[i - 1] = t[i]
  BY <1>1, PathIsLinks
<1>3. chain' = Chained(ValuesOf(t, link'), size')
  BY <1>2 DEF chain, Chained, ValuesOf
<1>4. ListInv'
  BY <1>2 DEF ListInv
<1> QED BY <1>3, <1>4
-----------------------------------------------------------------------------
(* The memory with one more link, and with a pointer redirected. *)
Longer(m, l, v, x) == m = Append(l, [value |-> v, next |-> x])
Redirected(m, l, p, x) == m = [l EXCEPT ![p].next = x]
Memory(l, n) == n \in Nat /\ l \in Seq(Block(n)) /\ Len(l) = n

LinkAdded(m, l, n, v, x) ==
  /\ m[n + 1].value = v /\ m[n + 1].next = x
  /\ \A i \in 1 .. n : m[i].value = l[i].value /\ m[i].next = l[i].next

(* The memory after a new link has been allocated and set. *)
LEMMA WithNewFacts ==
  ASSUME NEW l, NEW n, Memory(l, n), NEW v \in Values,
         NEW x \in 0 .. n, NEW m, Longer(m, l, v, x)
  PROVE  Memory(m, n + 1) /\ LinkAdded(m, l, n, v, x)
<1> DEFINE B == Block(n + 1)
           b == [value |-> v, next |-> x]
<1>1. Block(n) \subseteq B
  BY DEF Block, Memory
<1>2. l \in Seq(B) /\ n \in Nat /\ Len(l) = n /\ n + 1 \in Nat
  BY <1>1 DEF Memory
<1>3. b \in B /\ b.value = v /\ b.next = x
  BY DEF Block, Memory
<1> HIDE DEF B, b
<1>4. /\ Append(l, b) \in Seq(B) /\ Len(Append(l, b)) = n + 1
      /\ Append(l, b)[n + 1] = b /\ \A i \in 1 .. n : Append(l, b)[i] = l[i]
  BY <1>2, <1>3, AppendProperties
<1>5. m = Append(l, b)
  BY DEF b, Longer
<1> QED BY <1>2, <1>3, <1>4, <1>5 DEF B, Memory, LinkAdded

LinkChanged(m, l, n, p, x) ==
  /\ m[p].next = x
  /\ \A i \in 1 .. n : m[i].value = l[i].value /\ (i # p => m[i].next = l[i].next)

(* The memory after one link has been made to point elsewhere. *)
LEMMA RedirectFacts ==
  ASSUME NEW l, NEW n, Memory(l, n), NEW p \in 1 .. n, NEW x \in 0 .. n,
         NEW m, Redirected(m, l, p, x)
  PROVE  Memory(m, n) /\ LinkChanged(m, l, n, p, x)
<1> DEFINE B == Block(n)
<1>1. l \in [1 .. n -> B] /\ n \in Nat
  BY DEF Memory
<1>2. ASSUME NEW i \in 1 .. n
      PROVE  /\ m[i] \in B /\ m[i].value = l[i].value
             /\ i # p => m[i].next = l[i].next
             /\ i = p => m[i].next = x
  <2>1. l[i] \in B
    BY <1>1
  <2>2. CASE i # p
    BY <1>1, <2>1, <2>2 DEF Redirected
  <2>3. CASE i = p
    <3>1. m[i] = [l[p] EXCEPT !.next = x]
      BY <1>1, <2>3 DEF Redirected
    <3> QED BY <2>1, <2>3, <3>1 DEF Block
  <2> QED BY <2>2, <2>3
<1>3. m \in [1 .. n -> B]
  <2>1. DOMAIN m = 1 .. n /\ m = [i \in 1 .. n |-> m[i]]
    BY <1>1 DEF Redirected
  <2> HIDE DEF B
  <2> QED BY <1>2, <2>1
<1>4. m \in Seq(B) /\ Len(m) = n
  <2> HIDE DEF B
  <2> QED BY <1>1, <1>3, FunctionIsSeq
<1> QED BY <1>1, <1>2, <1>4 DEF Memory, LinkChanged

Spliced(m, l, v, q) ==
  m = [Append(l, [value |-> v, next |-> l[q].next]) EXCEPT ![q].next = Len(l) + 1]

(* The memory after a new link has been put behind link q. *)
LEMMA SplicedFacts ==
  ASSUME NEW l, NEW n, Memory(l, n), NEW v \in Values, NEW q \in 1 .. n,
         NEW m, Spliced(m, l, v, q)
  PROVE  Memory(m, n + 1) /\ NewValue(m, l, v) /\ LinkBehind(m, l, q)
<1> DEFINE x == l[q].next
           k == Append(l, [value |-> v, next |-> x])
           new == n + 1
<1>1. n \in Nat /\ Len(l) = n /\ x \in 0 .. n
  <2>1. n \in Nat /\ Len(l) = n /\ l \in Seq(Block(n))
    BY DEF Memory
  <2>2. l[q] \in Block(n)
    BY <2>1
  <2> QED BY <2>1, <2>2 DEF Block
<1>2. Longer(k, l, v, x) /\ Redirected(m, k, q, new)
  BY <1>1 DEF Longer, Redirected, Spliced
<1> HIDE DEF k, x
<1>3. /\ Memory(k, new) /\ k[new].value = v /\ k[new].next = x
      /\ \A i \in 1 .. n : k[i].value = l[i].value /\ k[i].next = l[i].next
  <2>1. Memory(k, n + 1) /\ LinkAdded(k, l, n, v, x)
    BY <1>1, <1>2, WithNewFacts
  <2> QED BY <2>1 DEF LinkAdded
<1>4. q \in 1 .. new /\ new \in 0 .. new /\ q # new /\ new \in 1 .. new
      /\ \A i \in 1 .. n : i \in 1 .. new
  BY <1>1
<1> HIDE DEF new
<1>5. /\ Memory(m, new) /\ m[q].next = new
      /\ \A i \in 1 .. new : m[i].value = k[i].value /\ (i # q => m[i].next = k[i].next)
  <2>1. Memory(m, new) /\ LinkChanged(m, k, new, q, new)
    BY <1>2, <1>3, <1>4, RedirectFacts
  <2> QED BY <2>1 DEF LinkChanged
<1>6. /\ m[new].value = v /\ m[new].next = x
      /\ \A i \in 1 .. n : m[i].value = l[i].value /\ (i # q => m[i].next = l[i].next)
  BY <1>3, <1>4, <1>5
<1>7. Len(m) = new
  BY <1>5 DEF Memory
<1> QED BY <1>1, <1>5, <1>6, <1>7 DEF new, x, NewValue, SameValues, LinkBehind

(* A link of the memory. *)
LEMMA LinkFacts ==
  ASSUME ListTyped, NEW p \in 1 .. Len(link)
  PROVE  link[p].value \in Values /\ link[p].next \in 0 .. Len(link)
<1>1. link \in Seq(Block(Len(link)))
  BY DEF ListTyped
<1>2. link[p] \in Block(Len(link))
  BY <1>1
<1> QED BY <1>2 DEF Block

(* What each operation does to the chain, on a list that is used soundly.  *)
(* This is the code, with the link that a removal at the end leaves behind *)
(* and not what linked_list.h says; it is what Store builds on.            *)
Honest == sound' /\ ~fault'

AppendsTo(v) == Honest => chain' = C!Appended(chain, v) /\ ret' = Nothing
PrependsTo(v) == Honest => chain' = C!Prepended(chain, v) /\ ret' = Nothing
Overwrites(v) ==
  Honest => /\ chain' = [chain EXCEPT !.links =
                           [k \in DOMAIN @ |-> IF k <= chain.size THEN v ELSE @[k]]]
            /\ ret' = Nothing
RemovesAt(index) ==
  Honest => IF index \in 0 .. size - 1
              THEN chain' = C!Removed(chain, index) /\ ret' = chain.links[index + 1]
              ELSE chain' = chain
ReadsAt(index) ==
  Honest => /\ chain' = chain
            /\ index \in 0 .. size - 1 => ret' = chain.links[index + 1]
Clears == Honest => chain' = C!Empty /\ ret' = Nothing
Starts == Honest => chain' = chain /\ ret' = Nothing
ReadsCurrent ==
  Honest => /\ chain' = chain /\ find_link' = find_link
            /\ \A i \in 0 .. Length - 1 : find_link[i] = cur' => ret' = chain.links[i + 1]
InsertsBehind(v) ==
  Honest => /\ ret' = Nothing
            /\ size = 0 => chain' = C!Chained(<<v>>, 1)
            /\ size # 0 => \E q \in 1 .. Length : /\ find_link[q - 1] = cur
                                                  /\ chain' = C!InsertedBehind(chain, q, v)
RemovesBehind ==
  Honest => \E q \in 1 .. Length - 2 : /\ find_link[q - 1] = cur
                                        /\ chain' = C!RemovedBehind(chain, q)
                                        /\ ret' = chain.links[q + 1]

(* The chain of a list that is used soundly.                               *)
LEMMA ChainFacts ==
  ASSUME ListInv, Alive
  PROVE  /\ size \in Nat /\ Length \in Nat /\ size \in {Length, Length - 1}
         /\ chain = C!Chained(chain.links, size)
         /\ chain.links \in Seq(Values) /\ Len(chain.links) = Length
         /\ \A i \in 0 .. Length - 1 : chain.links[i + 1] = link[find_link[i]].value
         /\ \A i, j \in 0 .. Length - 1 : find_link[i] = find_link[j] => i = j
<1>1. PICK s : Path(s, link, first) /\ Shows(s, size, last)
  BY DEF ListInv, Alive
<1>2. /\ Len(s) \in Nat /\ Length = Len(s) /\ \A i \in 1 .. Len(s) : find_link[i - 1] = s[i]
      /\ chain = Chained(ValuesOf(s, link), size)
      /\ ValuesOf(s, link) \in Seq(Values) /\ Len(ValuesOf(s, link)) = Len(s)
  BY <1>1, AlongPath DEF ListInv
<1>3. size \in Nat /\ size \in {Length, Length - 1}
  BY <1>1, <1>2 DEF Shows
<1>4. chain = C!Chained(chain.links, size) /\ chain.links = ValuesOf(s, link)
  BY <1>2 DEF C!Chained, Chained
<1>5. ASSUME NEW i \in 0 .. Length - 1
      PROVE  find_link[i] = s[i + 1] /\ chain.links[i + 1] = link[find_link[i]].value
  <2>1. i + 1 \in 1 .. Len(s) /\ (i + 1) - 1 = i
    BY <1>2
  <2>2. find_link[(i + 1) - 1] = s[i + 1]
    BY <1>2, <2>1
  <2> QED BY <1>4, <2>1, <2>2 DEF ValuesOf
<1>6. ASSUME NEW i \in 0 .. Length - 1, NEW j \in 0 .. Length - 1, find_link[i] = find_link[j]
      PROVE  i = j
  <2>1. s[i + 1] = s[j + 1] /\ i + 1 \in 1 .. Len(s) /\ j + 1 \in 1 .. Len(s)
    BY <1>2, <1>5, <1>6
  <2>2. i + 1 = j + 1
    BY <1>1, <2>1 DEF Path
  <2> QED BY <2>2
<1> QED BY <1>2, <1>3, <1>4, <1>5, <1>6

(* The first element of a list that shows none. *)
LEMMA OnlyStep ==
  ASSUME ListInv, Alive, Len(link) < MaxLinks, NEW v \in Values, size = 0, Only(v), size' = 1,
         ret' = Nothing, fault' = fault, sound' = sound, cur' \in {cur, NewLink(v)}
  PROVE  ListInv' /\ chain' = C!Chained(<<v>>, 1)
<1> DEFINE n == Len(link)
<1>1. /\ ListTyped /\ n \in Nat /\ link \in Seq(Block(n))
      /\ MaxLinks \in Nat /\ n < MaxLinks
  BY ListAssumption DEF ListInv, ListTyped
<1>2. /\ link' = Append(link, [value |-> v, next |-> NULL])
      /\ first' = n + 1 /\ last' = n + 1 /\ NULL \in 0 .. n
  BY <1>1 DEF Only, WithNew, NewLink, NULL
<1> HIDE DEF n
<1>3. /\ Memory(link', n + 1)
      /\ link'[n + 1].value = v /\ link'[n + 1].next = NULL
  <2>1. Longer(link', link, v, NULL) /\ Memory(link, n) /\ NULL \in 0 .. n
    BY <1>1, <1>2 DEF Longer, Memory, n
  <2>2. Memory(link', n + 1) /\ LinkAdded(link', link, n, v, NULL)
    BY <2>1, WithNewFacts
  <2> QED BY <2>2 DEF LinkAdded
<1>4. cur' \in 0 .. n + 1 \cup {NoIter}
  BY <1>1 DEF NewLink, ListTyped, n
<1>5. ListTyped'
  <2>1. /\ link' \in Seq(Block(Len(link'))) /\ Len(link') <= MaxLinks
        /\ cur' \in 0 .. Len(link') \cup {NoIter}
    BY <1>1, <1>3, <1>4 DEF Memory
  <2>2. /\ first' \in 0 .. Len(link') /\ last' \in 0 .. Len(link') /\ size' \in Int
    BY <1>1, <1>2, <1>3 DEF Memory
  <2>3. /\ ret' \in Values \cup {Nothing} /\ fault' \in BOOLEAN /\ sound' \in BOOLEAN
    BY <1>1 DEF ListTyped
  <2> QED BY <2>1, <2>2, <2>3 DEF ListTyped
<1>6. Path(<<n + 1>>, link', first')
  BY <1>1, <1>2, <1>3, PathOfOne DEF Memory
<1>7. Shows(<<n + 1>>, size', last')
  BY <1>2 DEF Shows
<1>8. ListInv' /\ chain' = Chained(ValuesOf(<<n + 1>>, link'), size')
  BY <1>5, <1>6, <1>7, After
<1>9. ValuesOf(<<n + 1>>, link') = <<v>>
  BY <1>3 DEF ValuesOf
<1> QED BY <1>8, <1>9 DEF Chained, C!Chained

(* One more element, behind position p: an append, when p is the end.      *)
LEMMA BehindStep ==
  ASSUME ListInv, Alive, Len(link) < MaxLinks, NEW v \in Values, size # 0,
         NEW s, Path(s, link, first), Shows(s, size, last), NEW p \in 1 .. Len(s),
         link' = [WithNew(v, NextOf(s[p])) EXCEPT ![s[p]].next = NewLink(v)],
         last' = (IF p = Len(s) THEN NewLink(v) ELSE last),
         first' = first, size' = size + 1,
         cur' \in {cur, NewLink(v)}, ret' = Nothing, fault' = fault, sound' = sound
  PROVE  ListInv' /\ chain' = C!InsertedBehind(chain, p, v)
<1> DEFINE n == Len(link)
           t == Inserted(s, p, n + 1)
           u == ValuesOf(s, link)
<1>1. /\ ListTyped /\ n \in Nat /\ link \in Seq(Block(n))
      /\ MaxLinks \in Nat /\ n < MaxLinks
  BY ListAssumption DEF ListInv, ListTyped
<1>2. /\ Len(s) \in Nat /\ p \in Nat /\ 1 <= p /\ p <= Len(s)
      /\ \A i \in 1 .. Len(s) : s[i] \in 1 .. n
  BY PathFacts
<1>3. Memory(link, n) /\ Spliced(link', link, v, s[p]) /\ s[p] \in 1 .. n
  BY <1>1, <1>2 DEF Memory, Spliced, WithNew, NewLink, NextOf
<1>4. Memory(link', n + 1) /\ NewValue(link', link, v) /\ LinkBehind(link', link, s[p])
  <2> HIDE DEF n
  <2> QED BY <1>3, SplicedFacts
<1>7. Len(link') = n + 1 /\ Len(link) \in Nat
  BY <1>1, <1>4 DEF Memory
<1>8. Path(t, link', first')
  <2> HIDE DEF t
  <2>1. Path(Inserted(s, p, Len(link) + 1), link', first)
    BY <1>4, <1>7, PathInserted
  <2> QED BY <2>1 DEF t
<1>9. Len(t) = Len(s) + 1 /\ t[Len(s) + 1] = IF p = Len(s) THEN n + 1 ELSE s[Len(s)]
  <2>1. s \in Seq(1 .. n + 1) /\ n + 1 \in 1 .. n + 1 /\ p \in 0 .. Len(s)
    <3>1. s \in Seq(1 .. n) /\ 1 .. n \subseteq 1 .. n + 1
      BY <1>1 DEF Path
    <3> QED BY <1>1, <1>2, <3>1
  <2>2. Len(t) = Len(s) + 1
    BY <2>1, InsertedFacts
  <2>3. t[Len(s) + 1] = IF p = Len(s) THEN n + 1 ELSE s[Len(s)]
    <3>1. Len(s) + 1 \in 1 .. Len(s) + 1 /\ ~(Len(s) + 1 <= p) /\ (Len(s) + 1) - 1 = Len(s)
      BY <1>2
    <3>2. Len(s) + 1 = p + 1 <=> p = Len(s)
      BY <1>2
    <3> QED BY <3>1, <3>2 DEF Inserted
  <2> QED BY <2>2, <2>3
<1>10. Shows(t, size', last')
  <2>1. size \in Nat /\ size \in {Len(s), Len(s) - 1} /\ last = s[Len(s)]
    BY DEF Shows
  <2>2. size' \in Nat /\ size' \in {Len(t), Len(t) - 1} /\ size' # 0
    <3> HIDE DEF t
    <3> QED BY <1>2, <1>9, <2>1
  <2>3. last' = t[Len(t)]
    <3> HIDE DEF t
    <3> QED BY <1>9, <2>1 DEF NewLink, n
  <2> QED BY <2>2, <2>3 DEF Shows
<1>11. ListTyped'
  <2>1. /\ link' \in Seq(Block(Len(link'))) /\ Len(link') <= MaxLinks
    BY <1>1, <1>4 DEF Memory
  <2>2. first' \in 0 .. n + 1 /\ last' \in 0 .. n + 1 /\ cur' \in 0 .. n + 1 \cup {NoIter}
    BY <1>1 DEF NewLink, ListTyped, n
  <2>3. /\ ret' \in Values \cup {Nothing} /\ fault' \in BOOLEAN /\ sound' \in BOOLEAN
        /\ size' \in Int
    BY <1>1 DEF ListTyped
  <2> QED BY <1>7, <2>1, <2>2, <2>3 DEF ListTyped
<1>12. ListInv' /\ chain' = Chained(ValuesOf(t, link'), size')
  <2> HIDE DEF t
  <2> QED BY <1>8, <1>10, <1>11, After
<1>13. ValuesOf(t, link') = Inserted(u, p, v)
  <2>1. p \in 0 .. Len(s)
    BY <1>2
  <2> QED BY <1>4, <1>7, <2>1, ValuesInserted
<1>14. /\ chain = Chained(u, size)
       /\ u \in Seq(Values) /\ Len(u) = Len(s)
  BY <1>1, AlongPath
<1> HIDE DEF t, u
<1>15. chain' = C!InsertedBehind(chain, p, v)
  <2>1. SubSeq(u, 1, p) \o <<v>> \o SubSeq(u, p + 1, Len(u)) = Inserted(u, p, v)
    BY <1>14, SubSeqsInsert
  <2> QED BY <1>12, <1>13, <1>14, <2>1 DEF C!InsertedBehind, C!Chained, Chained
<1> QED BY <1>12, <1>15

(* A new first element, of a list that shows some. *)
LEMMA InFrontStep ==
  ASSUME ListInv, Alive, Len(link) < MaxLinks, NEW v \in Values, size # 0,
         NEW s, Path(s, link, first), Shows(s, size, last),
         link' = WithNew(v, first), first' = NewLink(v), last' = last, size' = size + 1,
         cur' = cur, ret' = Nothing, fault' = fault, sound' = sound
  PROVE  ListInv' /\ chain' = C!Prepended(chain, v)
<1> DEFINE n == Len(link)
           t == Inserted(s, 0, n + 1)
           u == ValuesOf(s, link)
<1>1. /\ ListTyped /\ n \in Nat /\ link \in Seq(Block(n)) /\ first \in 0 .. n
      /\ MaxLinks \in Nat /\ n < MaxLinks
  BY ListAssumption DEF ListInv, ListTyped
<1>2. /\ Len(s) \in Nat
      /\ \A i \in 1 .. Len(s) : s[i] \in 1 .. n
  BY PathFacts
<1>3. Memory(link, n) /\ Longer(link', link, v, first)
  BY <1>1 DEF Memory, Longer, WithNew
<1>4. /\ Memory(link', n + 1)
      /\ link'[n + 1].value = v /\ link'[n + 1].next = first
      /\ \A i \in 1 .. n : link'[i].value = link[i].value /\ link'[i].next = link[i].next
  <2> HIDE DEF n
  <2>1. first \in 0 .. n
    BY <1>1
  <2>2. Memory(link', n + 1) /\ LinkAdded(link', link, n, v, first)
    BY <1>3, <2>1, WithNewFacts
  <2> QED BY <2>2 DEF LinkAdded
<1>5. /\ Len(link') = n + 1 /\ Len(link) \in Nat
      /\ LinkBefore(link', link, first) /\ NewValue(link', link, v)
  BY <1>1, <1>4 DEF Memory, LinkBefore, NewValue, SameValues
<1>6. Path(t, link', first')
  <2> HIDE DEF t
  <2>1. Path(Inserted(s, 0, Len(link) + 1), link', Len(link) + 1)
    BY <1>5, PathPrepended
  <2> QED BY <2>1 DEF t, NewLink
<1>7. Shows(t, size', last')
  <2>1. size \in Nat /\ size \in {Len(s), Len(s) - 1} /\ last = s[Len(s)] /\ Len(s) # 0
    BY <1>2 DEF Shows
  <2>2. s \in Seq(1 .. n) /\ 1 .. n \subseteq 1 .. n + 1
    BY <1>1 DEF Path
  <2>3. s \in Seq(1 .. n + 1) /\ 0 \in 0 .. Len(s) /\ n + 1 \in 1 .. n + 1
    BY <1>1, <1>2, <2>2, SeqWidens
  <2>4. Len(t) = Len(s) + 1
    BY <2>3, InsertedFacts
  <2>5. t[Len(s) + 1] = s[Len(s)]
    <3>1. Len(s) + 1 \in 1 .. Len(s) + 1 /\ ~(Len(s) + 1 <= 0) /\ (Len(s) + 1) - 1 = Len(s)
          /\ Len(s) + 1 # 0 + 1
      BY <1>2, <2>1
    <3> QED BY <3>1 DEF Inserted
  <2> HIDE DEF t
  <2>6. size' \in Nat /\ size' \in {Len(t), Len(t) - 1} /\ last' = t[Len(t)]
    BY <1>2, <2>1, <2>4, <2>5
  <2> QED BY <2>6 DEF Shows
<1>8. ListTyped'
  <2>1. /\ link' \in Seq(Block(Len(link'))) /\ Len(link') <= MaxLinks
    BY <1>1, <1>4 DEF Memory
  <2>2. first' \in 0 .. n + 1 /\ last' \in 0 .. n + 1 /\ cur' \in 0 .. n + 1 \cup {NoIter}
    BY <1>1 DEF NewLink, ListTyped, n
  <2>3. /\ ret' \in Values \cup {Nothing} /\ fault' \in BOOLEAN /\ sound' \in BOOLEAN
        /\ size' \in Int
    BY <1>1 DEF ListTyped
  <2> QED BY <1>5, <2>1, <2>2, <2>3 DEF ListTyped
<1>9. ListInv' /\ chain' = Chained(ValuesOf(t, link'), size')
  <2> HIDE DEF t
  <2> QED BY <1>6, <1>7, <1>8, After
<1>10. ValuesOf(t, link') = Inserted(u, 0, v)
  <2>1. 0 \in 0 .. Len(s)
    BY <1>2
  <2> QED BY <1>5, <2>1, ValuesInserted
<1>11. /\ chain = Chained(u, size)
       /\ u \in Seq(Values) /\ Len(u) = Len(s)
  BY <1>1, AlongPath
<1> HIDE DEF t, u
<1>12. chain' = C!Prepended(chain, v)
  <2>1. <<v>> \o u = Inserted(u, 0, v)
    BY <1>11, PrependInserts
  <2> QED BY <1>9, <1>10, <1>11, <2>1 DEF C!Prepended, C!Chained, Chained
<1> QED BY <1>9, <1>12

(* The link behind position p goes. *)
LEMMA SkipStep ==
  ASSUME ListInv, Alive, size # 0,
         NEW s, Path(s, link, first), Shows(s, size, last), NEW p \in 1 .. Len(s) - 2,
         link' = [link EXCEPT ![s[p]].next = NextOf(s[p + 1])],
         first' = first, last' = last, cur' = cur, size' = size - 1,
         ret' = link[s[p + 1]].value, fault' = fault, sound' = sound
  PROVE  /\ ListInv'
         /\ chain' = Chained(Dropped(ValuesOf(s, link), p + 1), size - 1)
<1> DEFINE n == Len(link)
           t == Dropped(s, p + 1)
           u == ValuesOf(s, link)
<1>1. /\ ListTyped /\ n \in Nat /\ link \in Seq(Block(n))
      /\ MaxLinks \in Nat /\ n <= MaxLinks
  BY ListAssumption DEF ListInv, ListTyped
<1>2. /\ Len(s) \in Nat /\ p \in Nat /\ 1 <= p /\ p + 2 <= Len(s) /\ p + 1 \in 1 .. Len(s)
      /\ p \in 1 .. Len(s) - 1 /\ p \in 1 .. Len(s) /\ p # Len(s)
      /\ \A i \in 1 .. Len(s) : s[i] \in 1 .. n
  BY PathFacts
<1>3. /\ link[s[p + 1]].value \in Values /\ NextOf(s[p + 1]) \in 0 .. n
      /\ link[s[p]].next = s[p + 1]
  BY <1>1, <1>2, LinkFacts DEF NextOf, Path
<1>4. Memory(link, n) /\ Redirected(link', link, s[p], NextOf(s[p + 1])) /\ s[p] \in 1 .. n
  BY <1>1, <1>2 DEF Memory, Redirected
<1>5. /\ Memory(link', n) /\ link'[s[p]].next = NextOf(s[p + 1])
      /\ \A i \in 1 .. n : link'[i].value = link[i].value /\ (i # s[p] => link'[i].next = link[i].next)
  <2> HIDE DEF n
  <2>1. Memory(link', n) /\ LinkChanged(link', link, n, s[p], NextOf(s[p + 1]))
    BY <1>3, <1>4, RedirectFacts
  <2> QED BY <2>1 DEF LinkChanged
<1>6. /\ Len(link') = n /\ Len(link) \in Nat
      /\ LinkSkipped(link', link, s[p]) /\ SameValues(link', link)
  BY <1>1, <1>3, <1>5 DEF Memory, LinkSkipped, SameValues, NextOf
<1>7. Path(t, link', first')
  <2> HIDE DEF t
  <2>1. Path(Dropped(s, p + 1), link', first)
    BY <1>2, <1>6, PathShortened
  <2> QED BY <2>1 DEF t
<1>8. Shows(t, size', last')
  <2>1. size \in Nat /\ size \in {Len(s), Len(s) - 1} /\ last = s[Len(s)]
    BY DEF Shows
  <2>2. Len(t) = Len(s) - 1
    BY <1>2, DroppedFacts DEF Path
  <2>3. t[Len(s) - 1] = s[Len(s)]
    <3>1. Len(s) - 1 \in 1 .. Len(s) - 1 /\ ~(Len(s) - 1 < p + 1) /\ (Len(s) - 1) + 1 = Len(s)
      BY <1>2
    <3> QED BY <3>1 DEF Dropped
  <2> HIDE DEF t
  <2>4. size' \in Nat /\ size' \in {Len(t), Len(t) - 1}
    <3>1. size - 1 \in Nat /\ size' = size - 1
      BY <2>1
    <3>2. size - 1 = Len(s) - 1 \/ size - 1 = (Len(s) - 1) - 1
      BY <2>1
    <3> QED BY <2>2, <3>1, <3>2
  <2>5. last' = t[Len(t)]
    BY <2>1, <2>2, <2>3
  <2> QED BY <2>4, <2>5 DEF Shows
<1>9. ListTyped'
  <2>1. /\ link' \in Seq(Block(Len(link'))) /\ Len(link') <= MaxLinks
    BY <1>1, <1>5 DEF Memory
  <2>2. /\ ret' \in Values \cup {Nothing} /\ fault' \in BOOLEAN /\ sound' \in BOOLEAN
        /\ size' \in Int
    BY <1>1, <1>3 DEF ListTyped
  <2> QED BY <1>1, <1>6, <2>1, <2>2 DEF ListTyped
<1>10. ListInv' /\ chain' = Chained(ValuesOf(t, link'), size')
  <2> HIDE DEF t
  <2> QED BY <1>7, <1>8, <1>9, After
<1>11. ValuesOf(t, link') = Dropped(u, p + 1)
  BY <1>2, <1>6, ValuesDropped
<1> QED BY <1>10, <1>11

(* A step that leaves the list alone. *)
LEMMA SameListStep ==
  ASSUME ListInv, SameList, ListTyped', sound' => sound
  PROVE  ListInv' /\ chain' = chain /\ find_link' = find_link
<1>1. Path(Links, link, first) => Path(Links, link', first')
  BY DEF SameList
<1>2. Shows(Links, size, last) => Shows(Links, size', last')
  BY DEF SameList
<1>3. Links' = Links /\ chain' = chain /\ find_link' = find_link
  <2>1. find_link' = find_link
    BY Zenon DEF find_link, NextOf, SameList
  <2>2. Length' = Length
    BY <2>1, Zenon DEF Length
  <2> QED BY <2>1, <2>2 DEF Links, chain, SameList
<1> QED BY <1>1, <1>2, <1>3 DEF ListInv
-----------------------------------------------------------------------------
(* Each operation keeps the invariant and does to the chain what it does.  *)
LEMMA FaultStep ==
  ASSUME ListInv, Fault
  PROVE  ListInv' /\ ~Honest
<1>1. ListTyped' /\ SameList /\ (sound' => sound)
  BY DEF ListInv, ListTyped, Fault, SameList
<1>2. ~Honest
  BY DEF Fault, Honest
<1> QED BY <1>1, <1>2, SameListStep

(* An append: into an empty list, or behind the last link, hidden or not. *)
LEMMA AppendStep ==
  ASSUME ListInv, NEW v \in Values, ioopm_linked_list_append(v)
  PROVE  ListInv' /\ AppendsTo(v)
<1>1. /\ Alive /\ Len(link) < MaxLinks
      /\ size' = size + 1 /\ ret' = Nothing /\ fault' = fault /\ cur' = cur /\ sound' = sound
  BY DEF ioopm_linked_list_append, Return
<1>0. chain.size = size
  BY DEF chain
<1>2. CASE size = 0 /\ Only(v)
  <2>1. ListInv' /\ chain' = C!Chained(<<v>>, 1)
    BY <1>1, <1>2, OnlyStep
  <2> QED BY <1>0, <1>1, <1>2, <2>1 DEF AppendsTo, C!Appended
<1>3. CASE /\ size # 0
           /\ link' = [WithNew(v, NULL) EXCEPT ![last].next = NewLink(v)]
           /\ last' = NewLink(v)
           /\ first' = first
  <2>1. PICK s : Path(s, link, first) /\ Shows(s, size, last)
    BY <1>1 DEF ListInv, Alive
  <2>2. Len(s) \in Nat /\ size \in Nat /\ size <= Len(s) /\ last = s[Len(s)]
    BY <1>3, <2>1, PathFacts DEF Shows
  <2>3. Len(s) \in 1 .. Len(s)
    BY <1>3, <2>2
  <2>4. NextOf(s[Len(s)]) = NULL
    BY <2>1, <2>3 DEF NextOf, Path
  <2>5. /\ link' = [WithNew(v, NextOf(s[Len(s)])) EXCEPT ![s[Len(s)]].next = NewLink(v)]
        /\ last' = (IF Len(s) = Len(s) THEN NewLink(v) ELSE last)
    BY <1>3, <2>2, <2>4
  <2>6. ListInv' /\ chain' = C!InsertedBehind(chain, Len(s), v)
    BY <1>1, <1>3, <2>1, <2>3, <2>5, BehindStep
  <2> DEFINE u == chain.links
  <2>7. u \in Seq(Values) /\ Len(u) = Len(s)
    BY <1>1, <2>1, ChainFacts, AlongPath DEF ListInv
  <2> HIDE DEF u
  <2>8. SubSeq(u, 1, Len(u)) \o <<v>> \o SubSeq(u, Len(u) + 1, Len(u)) = Append(u, v)
    BY <2>3, <2>7, SubSeqsInsert, AppendInserts
  <2>9. chain' = C!Appended(chain, v)
    BY <1>0, <1>3, <2>6, <2>7, <2>8 DEF u, C!InsertedBehind, C!Appended
  <2> QED BY <1>1, <2>6, <2>9 DEF AppendsTo
<1> QED BY <1>2, <1>3 DEF ioopm_linked_list_append

(* A new first link. *)
LEMMA PrependStep ==
  ASSUME ListInv, NEW v \in Values, ioopm_linked_list_prepend(v)
  PROVE  ListInv' /\ PrependsTo(v)
<1>1. /\ Alive /\ Len(link) < MaxLinks
      /\ size' = size + 1 /\ ret' = Nothing /\ fault' = fault /\ cur' = cur /\ sound' = sound
  BY DEF ioopm_linked_list_prepend, Return
<1>0. chain.size = size
  BY DEF chain
<1>2. CASE size = 0 /\ Only(v)
  <2>1. ListInv' /\ chain' = C!Chained(<<v>>, 1)
    BY <1>1, <1>2, OnlyStep
  <2> QED BY <1>0, <1>1, <1>2, <2>1 DEF PrependsTo, C!Prepended
<1>3. CASE /\ size # 0
           /\ link' = WithNew(v, first)
           /\ first' = NewLink(v)
           /\ last' = last
  <2>1. PICK s : Path(s, link, first) /\ Shows(s, size, last)
    BY <1>1 DEF ListInv, Alive
  <2>2. ListInv' /\ chain' = C!Prepended(chain, v)
    BY <1>1, <1>3, <2>1, InFrontStep
  <2> QED BY <1>1, <2>2 DEF PrependsTo
<1> QED BY <1>2, <1>3 DEF ioopm_linked_list_prepend

(* A pointer that find_link or the iterator hands out is that of a link.   *)
LEMMA PointerFacts ==
  ASSUME ListTyped, NEW p \in 0 .. Len(link), p # NULL
  PROVE  /\ p \in 1 .. Len(link)
         /\ link[p].value \in Values /\ NextOf(p) \in 0 .. Len(link)
<1>1. p \in 1 .. Len(link)
  BY DEF ListTyped, NULL
<1> QED BY <1>1, LinkFacts DEF NextOf

(* What an index names is a link or NULL. *)
LEMMA NamedFacts ==
  ASSUME ListInv, Alive, NEW index \in -1 .. size
  PROVE  Named(index) \in 0 .. Len(link)
<1>1. PICK s : Path(s, link, first) /\ Shows(s, size, last)
  BY DEF ListInv, Alive
<1>2. ListTyped /\ first \in 0 .. Len(link) /\ last \in 0 .. Len(link) /\ size \in Int
  BY DEF ListInv, ListTyped
<1>3. CASE index \in 0 .. size - 1
  <2>1. Len(s) \in Nat /\ size <= Len(s) /\ size \in Nat
    BY <1>1, PathFacts DEF Shows
  <2>2. index + 1 \in 1 .. Len(s) /\ (index + 1) - 1 = index
    BY <1>3, <2>1
  <2>3. find_link[index] = s[index + 1] /\ s[index + 1] \in 1 .. Len(link)
    <3>1. find_link[(index + 1) - 1] = s[index + 1] /\ s[index + 1] \in 1 .. Len(link)
      BY <1>1, <1>2, <2>2, AlongPath
    <3> QED BY <2>2, <3>1
  <2>4. Len(link) \in Nat
    BY <1>2 DEF ListTyped
  <2>5. ~(index < 0) /\ ~(index > size - 1)
    BY <1>3, <2>1
  <2> QED BY <2>3, <2>4, <2>5 DEF Named
<1>4. CASE index \notin 0 .. size - 1
  <2>1. index < 0 \/ index > size - 1
    BY <1>2, <1>4
  <2> QED BY <1>2, <2>1 DEF Named
<1> QED BY <1>3, <1>4

(* The value of a link is read.                                            *)
LEMMA ReadStep ==
  ASSUME ListInv, Alive, SameList, ListTyped', sound' => sound,
         NEW p, ret' = link[p].value
  PROVE  /\ ListInv' /\ chain' = chain /\ find_link' = find_link
         /\ \A i \in 0 .. Length - 1 : find_link[i] = p => ret' = chain.links[i + 1]
BY SameListStep, ChainFacts

(* An index the list shows names its link. *)
LEMMA NamedShown ==
  ASSUME ListInv, Alive, NEW index \in 0 .. size - 1
  PROVE  Named(index) = find_link[index] /\ index \in 0 .. Length - 1
<1>1. size \in Nat /\ Length \in Nat /\ size \in {Length, Length - 1}
  BY ChainFacts
<1>2. ~(index < 0) /\ ~(index > size - 1) /\ index \in 0 .. Length - 1
  BY <1>1
<1> QED BY <1>2 DEF Named

(* A value is read. *)
LEMMA GetStep ==
  ASSUME ListInv, NEW index \in -1 .. size, ioopm_linked_list_get(index)
  PROVE  ListInv' /\ ReadsAt(index)
<1> DEFINE p == Named(index)
<1>1. Alive
  BY DEF ioopm_linked_list_get
<1>2. p \in 0 .. Len(link)
  BY <1>1, NamedFacts
<1>3. CASE Fault
  BY <1>3, FaultStep DEF ReadsAt
<1>4. CASE /\ p # NULL /\ ret' = link[p].value /\ fault' = fault
           /\ sound' = (sound /\ size # 0)
           /\ UNCHANGED <<link, first, last, size, cur>>
  <2> HIDE DEF p
  <2>1. ListTyped /\ link[p].value \in Values
    BY <1>2, <1>4, PointerFacts DEF ListInv
  <2>2. ListTyped' /\ SameList /\ (sound' => sound)
    BY <1>4, <2>1 DEF ListTyped, SameList
  <2>3. /\ ListInv' /\ chain' = chain
        /\ \A i \in 0 .. Length - 1 : find_link[i] = p => ret' = chain.links[i + 1]
    BY <1>1, <1>4, <2>2, ReadStep
  <2>4. index \in 0 .. size - 1 => ret' = chain.links[index + 1]
    BY <1>1, <2>3, NamedShown DEF p
  <2> QED BY <2>3, <2>4 DEF ReadsAt
<1> QED BY <1>3, <1>4 DEF ioopm_linked_list_get, Return

(* The iterator reads the value of its link. *)
LEMMA CurrentStep ==
  ASSUME ListInv, ioopm_iterator_current
  PROVE  ListInv' /\ ReadsCurrent
<1>1. Alive /\ cur \in 0 .. Len(link)
  BY DEF ioopm_iterator_current, ListInv, ListTyped
<1>2. CASE Fault
  BY <1>2, FaultStep DEF ReadsCurrent
<1>3. CASE /\ cur # NULL /\ ret' = link[cur].value /\ fault' = fault
           /\ sound' = (sound /\ cur \in Linked)
           /\ SameList /\ cur' = cur
  <2>1. ListTyped /\ link[cur].value \in Values
    BY <1>1, <1>3, PointerFacts DEF ListInv
  <2>2. ListTyped' /\ (sound' => sound)
    BY <1>3, <2>1 DEF ListTyped, SameList
  <2>3. /\ ListInv' /\ chain' = chain /\ find_link' = find_link
        /\ \A i \in 0 .. Length - 1 : find_link[i] = cur => ret' = chain.links[i + 1]
    BY <1>1, <1>3, <2>2, ReadStep
  <2> QED BY <1>3, <2>3 DEF ReadsCurrent
<1> QED BY <1>2, <1>3 DEF ioopm_iterator_current, Return

(* The iterator goes on by one link. *)
LEMMA IteratorNextStep ==
  ASSUME ListInv, ioopm_iterator_next
  PROVE  ListInv' /\ ReadsCurrent
<1>1. Alive /\ cur \in 0 .. Len(link)
  BY DEF ioopm_iterator_next, ListInv, ListTyped
<1>2. CASE Fault
  BY <1>2, FaultStep DEF ReadsCurrent
<1>3. CASE /\ cur # NULL
           /\ cur' = IF NextOf(cur) # NULL THEN NextOf(cur) ELSE cur
           /\ ret' = link[cur'].value /\ fault' = fault
           /\ sound' = (sound /\ cur' \in Linked)
           /\ SameList
  <2>1. ListTyped /\ NextOf(cur) \in 0 .. Len(link)
    BY <1>1, <1>3, PointerFacts DEF ListInv
  <2>2. cur' \in 0 .. Len(link) /\ cur' # NULL
    BY <1>1, <1>3, <2>1
  <2> DEFINE c == cur'
  <2>3. link[cur'].value \in Values
    <3> HIDE DEF c
    <3>1. c \in 0 .. Len(link) /\ c # NULL
      BY <2>2 DEF c
    <3>2. link[c].value \in Values
      BY <2>1, <3>1, PointerFacts
    <3> QED BY <3>2 DEF c
  <2>4. ListTyped' /\ (sound' => sound)
    BY <1>3, <2>1, <2>2, <2>3 DEF ListTyped, SameList
  <2>5. /\ ListInv' /\ chain' = chain /\ find_link' = find_link
        /\ \A i \in 0 .. Length - 1 : find_link[i] = c => ret' = chain.links[i + 1]
    <3>1. ret' = link[c].value
      BY <1>3
    <3> HIDE DEF c
    <3> QED BY <1>1, <1>3, <2>4, <3>1, ReadStep
  <2> QED BY <2>5 DEF ReadsCurrent
<1> QED BY <1>2, <1>3 DEF ioopm_iterator_next, Return

(* An iterator is made. *)
LEMMA IteratorStep ==
  ASSUME ListInv, ioopm_list_iterator
  PROVE  ListInv' /\ Starts
<1>1. Alive /\ SameList /\ ListTyped' /\ (sound' => sound) /\ ret' = Nothing
  BY DEF ioopm_list_iterator, Return, SameList, ListInv, ListTyped
<1>2. ListInv' /\ chain' = chain
  BY <1>1, SameListStep
<1> QED BY <1>1, <1>2 DEF Starts

(* The list is emptied. *)
LEMMA ClearStep ==
  ASSUME ListInv, ioopm_linked_list_clear
  PROVE  ListInv' /\ Clears
<1>1. /\ first' = NULL /\ last' = NULL /\ size' = 0 /\ ret' = Nothing
      /\ UNCHANGED <<fault, link, cur, sound>>
  BY DEF ioopm_linked_list_clear, Return
<1>2. ListTyped'
  BY <1>1 DEF ListInv, ListTyped, NULL
<1>3. Path(<< >>, link', first')
  BY <1>1 DEF Path, ListInv, ListTyped
<1>4. Shows(<< >>, size', last')
  BY <1>1 DEF Shows
<1>5. ListInv' /\ chain' = Chained(ValuesOf(<< >>, link'), size')
  BY <1>2, <1>3, <1>4, After
<1>6. ValuesOf(<< >>, link') = << >>
  BY DEF ValuesOf
<1>7. chain' = C!Empty
  BY <1>1, <1>5, <1>6 DEF C!Empty, C!Chained, Chained
<1> QED BY <1>1, <1>5, <1>7 DEF Clears

(* A removal: the first link, one further on, or the last, which is only   *)
(* hidden.                                                                 *)
LEMMA RemoveStep ==
  ASSUME ListInv, NEW index \in -1 .. size, ioopm_linked_list_remove(index)
  PROVE  ListInv' /\ RemovesAt(index)
<1> DEFINE p == Named(index)
<1>1. Alive /\ ListTyped
  BY DEF ioopm_linked_list_remove, ListInv
<1>2. p \in 0 .. Len(link)
  BY <1>1, NamedFacts
<1>3. CASE Fault
  BY <1>3, FaultStep DEF RemovesAt
<1>4. CASE /\ p # NULL
           /\ index \notin 0 .. size - 1 /\ UNCHANGED <<link, first, size>>
           /\ ret' = link[p].value /\ fault' = fault
           /\ sound' = (sound /\ size # 0) /\ UNCHANGED <<last, cur>>
  <2> HIDE DEF p
  <2>1. link[p].value \in Values
    BY <1>1, <1>2, <1>4, PointerFacts
  <2>2. ListTyped' /\ SameList /\ (sound' => sound)
    BY <1>1, <1>4, <2>1 DEF ListTyped, SameList
  <2>3. ListInv' /\ chain' = chain
    BY <2>2, SameListStep
  <2> QED BY <1>4, <2>3 DEF RemovesAt
<1>5. CASE /\ p # NULL
           /\ index \in 0 .. size - 1 /\ Unlink(index, p) /\ size' = size - 1
           /\ ret' = link[p].value /\ fault' = fault
           /\ sound' = (sound /\ size # 0) /\ UNCHANGED <<last, cur>>
  <2>1. PICK s : Path(s, link, first) /\ Shows(s, size, last)
    BY <1>1 DEF ListInv, Alive
  <2> DEFINE u == ValuesOf(s, link)
  <2>2. /\ Len(s) \in Nat /\ size \in Nat /\ size \in {Len(s), Len(s) - 1}
        /\ Length = Len(s) /\ \A i \in 1 .. Len(s) : find_link[i - 1] = s[i]
        /\ \A i \in 1 .. Len(s) : s[i] \in 1 .. Len(link)
        /\ chain = Chained(u, size) /\ u \in Seq(Values) /\ Len(u) = Len(s)
    BY <1>1, <2>1, AlongPath DEF Shows
  <2>3. size # 0 /\ last = s[Len(s)] /\ index \in Nat /\ sound' = sound
    <3>1. size # 0 /\ index \in Nat
      BY <1>5, <2>2
    <3> QED BY <1>1, <1>5, <2>1, <3>1 DEF Shows, Alive
  <2>4. index + 1 \in 1 .. Len(s) /\ index + 1 <= size
    BY <1>5, <2>2
  <2>5. p = s[index + 1]
    <3>1. find_link[(index + 1) - 1] = s[index + 1] /\ (index + 1) - 1 = index
      BY <2>2, <2>3, <2>4
    <3>2. ~(index < 0) /\ ~(index > size - 1)
      BY <1>5, <2>2
    <3> QED BY <3>1, <3>2 DEF Named
  <2>6. link[p].value \in Values
    BY <1>1, <2>2, <2>4, <2>5, LinkFacts
  <2>7. NextOf(p) = IF index + 1 = Len(s) THEN NULL ELSE s[(index + 1) + 1]
    BY <2>1, <2>4, <2>5 DEF NextOf, Path
  <2>8. ret' = u[index + 1] /\ index \in 0 .. chain.size - 1
    BY <1>5, <2>2, <2>4, <2>5 DEF ValuesOf, Chained
  <2>9. /\ ret' \in Values \cup {Nothing} /\ fault' \in BOOLEAN /\ sound' \in BOOLEAN
        /\ size' \in Int
    BY <1>1, <1>5, <2>2, <2>6 DEF ListTyped
  <2> HIDE DEF p, u
  <2>10. CASE index = 0 /\ first' = NextOf(p) /\ link' = link
    <3> DEFINE t == Dropped(s, 1)
    <3>1. Path(t, link', first')
      <4>1. Len(link) \in Nat /\ Len(s) # 0
        BY <1>1, <2>2, <2>4 DEF ListTyped
      <4>2. Path(Dropped(s, 1), link, link[s[1]].next)
        BY <2>1, <4>1, PathTail
      <4> QED BY <2>5, <2>10, <4>2 DEF NextOf
    <3>2. Len(t) = Len(s) - 1 /\ 1 \in 1 .. Len(s)
      <4>1. 1 \in 1 .. Len(s)
        BY <2>4, <2>10
      <4> QED BY <2>1, <4>1, DroppedFacts DEF Path
    <3>3. Shows(t, size', last')
      <4>1. Len(s) # 1 => t[Len(s) - 1] = s[Len(s)]
        <5>1. SUFFICES ASSUME Len(s) # 1 PROVE t[Len(s) - 1] = s[Len(s)]
          OBVIOUS
        <5>2. Len(s) - 1 \in 1 .. Len(s) - 1 /\ ~(Len(s) - 1 < 1) /\ (Len(s) - 1) + 1 = Len(s)
          BY <2>2, <2>4, <5>1
        <5> QED BY <5>2 DEF Dropped
      <4> HIDE DEF t
      <4>2. size' \in Nat /\ size' \in {Len(t), Len(t) - 1} /\ (size' # 0 => Len(s) # 1)
        BY <1>5, <2>2, <2>3, <3>2
      <4> QED BY <1>5, <2>3, <3>2, <4>1, <4>2 DEF Shows
    <3>4. ListTyped'
      <4>1. NextOf(p) \in 0 .. Len(link)
        BY <1>1, <2>2, <2>4, <2>5, LinkFacts DEF NextOf
      <4> QED BY <1>1, <1>5, <2>9, <2>10, <4>1 DEF ListTyped
    <3>5. ListInv' /\ chain' = Chained(ValuesOf(t, link'), size')
      <4> HIDE DEF t
      <4> QED BY <3>1, <3>3, <3>4, After
    <3>6. ValuesOf(t, link') = Dropped(u, 1)
      <4>1. SameValues(link', link)
        BY <2>10 DEF SameValues
      <4> QED BY <2>1, <3>2, <4>1, ValuesDropped DEF u
    <3>7. C!Without(u, 1) = Dropped(u, 1)
      BY <2>2, <3>2, SubSeqsDrop DEF C!Without
    <3> HIDE DEF t
    <3>8. chain' = C!Removed(chain, index)
      BY <1>5, <2>2, <2>10, <3>5, <3>6, <3>7 DEF C!Removed, C!Chained, Chained
    <3> QED BY <1>5, <2>2, <2>8, <3>5, <3>8 DEF RemovesAt, Chained
  <2>11. CASE /\ index # 0 /\ NextOf(p) # NULL
              /\ link' = [link EXCEPT ![find_link[index - 1]].next = NextOf(p)]
              /\ first' = first
    <3>1. index + 1 < Len(s) /\ index \in 1 .. Len(s) - 2 /\ index \in 1 .. Len(s)
      <4>1. index + 1 # Len(s)
        BY <2>7, <2>11
      <4>2. Len(s) \in Nat /\ index \in Nat /\ index # 0 /\ index + 1 <= Len(s)
        BY <2>2, <2>3, <2>4, <2>11
      <4> QED BY <4>1, <4>2
    <3>2. find_link[index - 1] = s[index]
      BY <2>2, <3>1
    <3>3. /\ link' = [link EXCEPT ![s[index]].next = NextOf(s[index + 1])]
          /\ ret' = link[s[index + 1]].value
      BY <1>5, <2>5, <2>11, <3>2
    <3>4. ListInv' /\ chain' = Chained(Dropped(u, index + 1), size - 1)
      BY <1>1, <1>5, <2>1, <2>3, <2>11, <3>1, <3>3, SkipStep DEF u
    <3>5. C!Without(u, index + 1) = Dropped(u, index + 1)
      BY <2>2, <2>4, SubSeqsDrop DEF C!Without
    <3>6. chain' = C!Removed(chain, index)
      BY <2>2, <3>1, <3>4, <3>5 DEF C!Removed, C!Chained, Chained
    <3> QED BY <1>5, <2>2, <2>8, <3>4, <3>6 DEF RemovesAt, Chained
  <2>12. CASE index # 0 /\ NextOf(p) = NULL /\ UNCHANGED <<link, first>>
    <3>1. index + 1 = Len(s)
      <4>1. SUFFICES ASSUME index + 1 # Len(s) PROVE FALSE
        OBVIOUS
      <4>2. (index + 1) + 1 \in 1 .. Len(s)
        BY <2>2, <2>3, <2>4, <4>1
      <4>3. s[(index + 1) + 1] # NULL
        BY <2>2, <4>2 DEF NULL
      <4> QED BY <2>7, <2>12, <4>1, <4>3
    <3>2. Path(s, link', first')
      BY <2>1, <2>12
    <3>3. Shows(s, size', last')
      BY <1>5, <2>2, <2>3, <2>4, <3>1 DEF Shows
    <3>4. ListTyped'
      BY <1>1, <1>5, <2>9, <2>12 DEF ListTyped
    <3>5. ListInv' /\ chain' = Chained(ValuesOf(s, link'), size')
      BY <3>2, <3>3, <3>4, After
    <3>6. ValuesOf(s, link') = u
      BY <2>12 DEF u
    <3>7. chain' = C!Removed(chain, index)
      BY <1>5, <2>2, <2>12, <3>1, <3>5, <3>6 DEF C!Removed, C!Chained, Chained
    <3> QED BY <1>5, <2>2, <2>8, <3>5, <3>7 DEF RemovesAt, Chained
  <2> QED BY <1>5, <2>10, <2>11, <2>12 DEF Unlink
<1> QED BY <1>3, <1>4, <1>5 DEF ioopm_linked_list_remove, Return

(* A new link behind that of the iterator. *)
LEMMA IteratorInsertStep ==
  ASSUME ListInv, NEW v \in Values, ioopm_iterator_insert(v)
  PROVE  ListInv' /\ InsertsBehind(v)
<1>1. Alive /\ cur \in 0 .. Len(link) /\ Len(link) < MaxLinks /\ ListTyped
  BY DEF ioopm_iterator_insert, ListInv, ListTyped
<1>2. CASE Fault
  BY <1>2, FaultStep DEF InsertsBehind
<1>3. CASE /\ size = 0 /\ Only(v) /\ cur' = NewLink(v) /\ size' = 1
           /\ ret' = Nothing /\ fault' = fault /\ sound' = sound
  <2>1. ListInv' /\ chain' = C!Chained(<<v>>, 1)
    BY <1>1, <1>3, OnlyStep
  <2> QED BY <1>3, <2>1 DEF InsertsBehind
<1>4. CASE /\ size # 0 /\ cur # NULL
           /\ \/ cur = last /\ link' = [WithNew(v, NULL) EXCEPT ![cur].next = NewLink(v)]
                            /\ last' = NewLink(v)
              \/ cur # last /\ link' = [WithNew(v, NextOf(cur)) EXCEPT ![cur].next = NewLink(v)]
                            /\ UNCHANGED last
           /\ cur' = NewLink(v) /\ size' = size + 1
           /\ ret' = Nothing /\ fault' = fault
           /\ sound' = (sound /\ cur \in Linked) /\ UNCHANGED first
  <2>1. PICK s : Path(s, link, first) /\ Shows(s, size, last)
    BY <1>1 DEF ListInv, Alive
  <2>2. /\ Len(s) \in Nat /\ last = s[Len(s)]
        /\ Length = Len(s) /\ \A i \in 1 .. Len(s) : find_link[i - 1] = s[i]
        /\ \A i, j \in 1 .. Len(s) : s[i] = s[j] => i = j
    BY <1>1, <1>4, <2>1, AlongPath DEF Shows, Path
  <2>3. CASE cur \in Linked
    <3>1. PICK j \in 0 .. Len(s) - 1 : cur = find_link[j]
      BY <2>2, <2>3 DEF Linked
    <3>2. j + 1 \in 1 .. Len(s) /\ (j + 1) - 1 = j
      BY <2>2, <3>1
    <3>3. PICK p \in 1 .. Len(s) : cur = s[p]
      BY <2>2, <3>1, <3>2
    <3>4. Len(s) \in 1 .. Len(s)
      BY <2>2, <3>3
    <3>5. cur = last <=> p = Len(s)
      BY <2>2, <3>3, <3>4
    <3>6. p = Len(s) => NextOf(s[p]) = NULL
      BY <2>1, <3>3 DEF NextOf, Path
    <3>7. link' = [WithNew(v, NextOf(s[p])) EXCEPT ![s[p]].next = NewLink(v)]
      BY <1>4, <3>3, <3>5, <3>6
    <3>8. last' = (IF p = Len(s) THEN NewLink(v) ELSE last)
      BY <1>4, <3>5
    <3>9. sound' = sound /\ cur' \in {cur, NewLink(v)} /\ first' = first
      BY <1>1, <1>4, <2>3 DEF Alive
    <3>10. ListInv' /\ chain' = C!InsertedBehind(chain, p, v)
      BY <1>1, <1>4, <2>1, <3>3, <3>7, <3>8, <3>9, BehindStep
    <3>11. p \in 1 .. Length /\ find_link[p - 1] = cur
      BY <2>2, <3>3
    <3> QED BY <1>4, <3>10, <3>11 DEF InsertsBehind
  <2>4. CASE cur \notin Linked
    <3> DEFINE n == Len(link)
    <3>1. sound' = FALSE
      BY <1>4, <2>4
    <3>2. n \in Nat /\ n < MaxLinks /\ MaxLinks \in Nat /\ cur \in 1 .. n /\ NextOf(cur) \in 0 .. n
      BY <1>1, <1>4, PointerFacts, ListAssumption DEF ListTyped
    <3>3. PICK x \in 0 .. n : link' = [WithNew(v, x) EXCEPT ![cur].next = n + 1]
      BY <1>4, <3>2 DEF NewLink, NULL
    <3> DEFINE m == WithNew(v, x)
    <3>4. Memory(link, n) /\ Longer(m, link, v, x) /\ Redirected(link', m, cur, n + 1)
      BY <1>1, <3>3 DEF Memory, ListTyped, Longer, WithNew, Redirected
    <3> HIDE DEF m, n
    <3>5. Memory(m, n + 1)
      BY <3>4, WithNewFacts
    <3>6. cur \in 1 .. n + 1 /\ n + 1 \in 0 .. n + 1
      BY <3>2
    <3>7. Memory(link', n + 1)
      BY <3>4, <3>5, <3>6, RedirectFacts
    <3>8. /\ link' \in Seq(Block(Len(link'))) /\ Len(link') <= MaxLinks /\ Len(link') = n + 1
      BY <3>2, <3>7 DEF Memory
    <3>9. first' \in 0 .. n + 1 /\ last' \in 0 .. n + 1 /\ cur' \in 0 .. n + 1 \cup {NoIter}
      BY <1>1, <1>4, <3>2 DEF NewLink, ListTyped, n
    <3>10. /\ ret' \in Values \cup {Nothing} /\ fault' \in BOOLEAN /\ sound' \in BOOLEAN
           /\ size' \in Int
      BY <1>1, <1>4 DEF ListTyped
    <3>11. ListTyped'
      BY <3>8, <3>9, <3>10 DEF ListTyped
    <3> QED BY <3>1, <3>11 DEF ListInv, InsertsBehind, Honest
  <2> QED BY <2>3, <2>4
<1> QED BY <1>2, <1>3, <1>4 DEF ioopm_iterator_insert, Return

(* The link behind that of the iterator is left out. *)
LEMMA IteratorRemoveStep ==
  ASSUME ListInv, ioopm_iterator_remove
  PROVE  ListInv' /\ RemovesBehind
<1>1. Alive /\ cur \in 0 .. Len(link) /\ ListTyped
  BY DEF ioopm_iterator_remove, ListInv, ListTyped
<1>2. CASE Fault
  BY <1>2, FaultStep DEF RemovesBehind
<1>3. CASE /\ cur # NULL /\ NextOf(cur) # NULL
           /\ link' = [link EXCEPT ![cur].next = NextOf(NextOf(cur))]
           /\ size' = size - 1
           /\ ret' = link[NextOf(cur)].value /\ fault' = fault
           /\ sound' = (sound /\ cur \in Linked /\ NextOf(cur) # last)
           /\ UNCHANGED <<first, last, cur>>
  <2>1. PICK s : Path(s, link, first) /\ Shows(s, size, last)
    BY <1>1 DEF ListInv, Alive
  <2> DEFINE u == ValuesOf(s, link)
  <2>2. /\ Len(s) \in Nat /\ size \in Nat /\ size \in {Len(s), Len(s) - 1}
        /\ Length = Len(s) /\ \A i \in 1 .. Len(s) : find_link[i - 1] = s[i]
        /\ chain = Chained(u, size) /\ u \in Seq(Values) /\ Len(u) = Len(s)
    BY <1>1, <2>1, AlongPath DEF Shows
  <2> HIDE DEF u
  <2>3. cur \in 1 .. Len(link) /\ NextOf(cur) \in 0 .. Len(link)
    BY <1>1, <1>3, PointerFacts
  <2>4. CASE cur \in Linked /\ NextOf(cur) # last
    <3>1. PICK j \in 0 .. Len(s) - 1 : cur = find_link[j]
      BY <2>2, <2>4 DEF Linked
    <3>2. j + 1 \in 1 .. Len(s) /\ (j + 1) - 1 = j
      BY <2>2, <3>1
    <3>3. PICK p \in 1 .. Len(s) : cur = s[p]
      BY <2>2, <3>1, <3>2
    <3>4. p # Len(s) /\ NextOf(cur) = s[p + 1]
      <4>1. NextOf(cur) = IF p = Len(s) THEN NULL ELSE s[p + 1]
        BY <2>1, <3>3 DEF NextOf, Path
      <4> QED BY <1>3, <4>1
    <3>5. size # 0
      BY <2>2, <3>4
    <3>6. last = s[Len(s)] /\ p + 1 # Len(s)
      BY <2>1, <2>4, <3>4, <3>5 DEF Shows
    <3>7. p \in 1 .. Len(s) - 2 /\ p + 1 \in 1 .. Len(s) /\ p \in 1 .. Len(s) - 1
      BY <2>2, <3>4, <3>6
    <3>8. /\ link' = [link EXCEPT ![s[p]].next = NextOf(s[p + 1])]
          /\ ret' = link[s[p + 1]].value /\ sound' = sound
      BY <1>1, <1>3, <2>4, <3>3, <3>4 DEF Alive
    <3>9. ListInv' /\ chain' = Chained(Dropped(u, p + 1), size - 1)
      BY <1>1, <1>3, <2>1, <3>5, <3>7, <3>8, SkipStep DEF u
    <3>10. C!Without(u, p + 1) = Dropped(u, p + 1)
      BY <2>2, <3>7, SubSeqsDrop DEF C!Without
    <3>11. chain' = C!RemovedBehind(chain, p)
      BY <2>2, <3>9, <3>10 DEF C!RemovedBehind, C!Chained, Chained
    <3>12. ret' = chain.links[p + 1]
      BY <2>2, <3>7, <3>8 DEF u, ValuesOf, Chained
    <3>13. p \in 1 .. Length - 2 /\ find_link[p - 1] = cur
      BY <2>2, <3>3, <3>7
    <3> QED BY <3>9, <3>11, <3>12, <3>13 DEF RemovesBehind
  <2>5. CASE ~(cur \in Linked /\ NextOf(cur) # last)
    <3> DEFINE n == Len(link)
               c == NextOf(cur)
    <3>1. sound' = FALSE
      BY <1>3, <2>5
    <3>2. c \in 1 .. n /\ link[c].value \in Values /\ NextOf(c) \in 0 .. n
      <4> HIDE DEF c
      <4>1. c \in 0 .. Len(link) /\ c # NULL
        BY <1>3, <2>3 DEF c
      <4> QED BY <1>1, <4>1, PointerFacts
    <3>3. Memory(link, n) /\ Redirected(link', link, cur, NextOf(c)) /\ cur \in 1 .. n
      BY <1>1, <1>3, <2>3 DEF Memory, ListTyped, Redirected
    <3> HIDE DEF c, n
    <3>4. Memory(link', n)
      BY <3>2, <3>3, RedirectFacts
    <3>5. /\ ret' \in Values \cup {Nothing} /\ fault' \in BOOLEAN /\ sound' \in BOOLEAN
          /\ size' \in Int
      BY <1>1, <1>3, <3>2 DEF ListTyped, c
    <3>6. ListTyped'
      BY <1>1, <1>3, <3>4, <3>5 DEF ListTyped, Memory, n
    <3> QED BY <3>1, <3>6 DEF ListInv, RemovesBehind, Honest
  <2> QED BY <2>4, <2>5
<1> QED BY <1>2, <1>3 DEF ioopm_iterator_remove, Return

(* Every shown value is changed in its place. *)
LEMMA ApplyStep ==
  ASSUME ListInv, NEW v \in Values, ioopm_linked_list_apply_to_all(v)
  PROVE  ListInv' /\ Overwrites(v)
<1>1. /\ Alive /\ ListTyped
      /\ ret' = Nothing /\ fault' = fault /\ UNCHANGED <<first, last, size, cur, sound>>
  BY DEF ioopm_linked_list_apply_to_all, Return, ListInv
<1>2. PICK s : Path(s, link, first) /\ Shows(s, size, last)
  BY <1>1 DEF ListInv, Alive
<1> DEFINE n == Len(link)
           u == ValuesOf(s, link)
           Met(p) == \E i \in 0 .. size - 1 : find_link[i] = p
<1>3. /\ Len(s) \in Nat /\ size \in Nat /\ size <= Len(s)
      /\ Length = Len(s) /\ \A i \in 1 .. Len(s) : find_link[i - 1] = s[i]
      /\ \A i \in 1 .. Len(s) : s[i] \in 1 .. n
      /\ \A i, j \in 1 .. Len(s) : s[i] = s[j] => i = j
      /\ chain = Chained(u, size) /\ Len(u) = Len(s)
  BY <1>1, <1>2, AlongPath DEF Shows, Path
<1>4. n \in Nat /\ link \in Seq(Block(n)) /\ link \in [1 .. n -> Block(n)]
  BY <1>1 DEF ListTyped
<1>5. link' = [p \in 1 .. n |-> IF Met(p) THEN [link[p] EXCEPT !.value = v] ELSE link[p]]
  BY <1>4 DEF ioopm_linked_list_apply_to_all
<1>6. ASSUME NEW p \in 1 .. n
      PROVE  /\ link'[p] \in Block(n) /\ link'[p].next = link[p].next
             /\ link'[p].value = IF Met(p) THEN v ELSE link[p].value
  <2>1. link[p] \in Block(n) /\ link'[p] = IF Met(p) THEN [link[p] EXCEPT !.value = v] ELSE link[p]
    BY <1>4, <1>5
  <2> HIDE DEF Met, n
  <2> QED BY <2>1 DEF Block
<1>7. Memory(link', n)
  <2>1. link' = [p \in 1 .. n |-> link'[p]]
    BY <1>5
  <2> HIDE DEF n
  <2>2. link' \in [1 .. n -> Block(n)]
    BY <1>6, <2>1
  <2>3. link' \in Seq(Block(n)) /\ Len(link') = n
    BY <1>4, <2>2, FunctionIsSeq
  <2> QED BY <1>4, <2>3 DEF Memory
<1>8. ListTyped'
  BY <1>1, <1>7 DEF ListTyped, Memory
<1>9. Path(s, link', first')
  <2>1. Len(link') = Len(link) /\ \A i \in 1 .. Len(link) : link'[i].next = link[i].next
    BY <1>6, <1>7 DEF Memory
  <2>2. Path(s, link', first)
    BY <1>2, <2>1, PathKept
  <2> QED BY <1>1, <2>2
<1>10. Shows(s, size', last')
  BY <1>1, <1>2
<1>11. ListInv' /\ chain' = Chained(ValuesOf(s, link'), size')
  BY <1>8, <1>9, <1>10, After
<1>12. ASSUME NEW k \in 1 .. Len(s) PROVE Met(s[k]) <=> k <= size
  <2>1. ASSUME k <= size PROVE Met(s[k])
    <3>1. k - 1 \in 0 .. size - 1 /\ find_link[k - 1] = s[k]
      BY <1>3, <2>1
    <3> QED BY <3>1
  <2>2. ASSUME Met(s[k]) PROVE k <= size
    <3>1. PICK i \in 0 .. size - 1 : find_link[i] = s[k]
      BY <2>2
    <3>2. i + 1 \in 1 .. Len(s) /\ (i + 1) - 1 = i /\ i + 1 <= size
      BY <1>3, <3>1
    <3>3. s[i + 1] = s[k]
      BY <1>3, <3>1, <3>2
    <3>4. i + 1 = k
      BY <1>3, <3>2, <3>3
    <3> QED BY <3>2, <3>4
  <2> QED BY <2>1, <2>2
<1>13. \A k \in 1 .. Len(s) : link'[s[k]].value = IF k <= size THEN v ELSE u[k]
  <2>1. SUFFICES ASSUME NEW k \in 1 .. Len(s)
                 PROVE  link'[s[k]].value = IF k <= size THEN v ELSE u[k]
    OBVIOUS
  <2>2. link'[s[k]].value = IF Met(s[k]) THEN v ELSE link[s[k]].value
    BY <1>3, <1>6
  <2>3. u[k] = link[s[k]].value
    BY DEF ValuesOf
  <2> HIDE DEF Met, u
  <2> QED BY <1>12, <2>2, <2>3
<1>14. DOMAIN u = 1 .. Len(s)
  BY DEF ValuesOf
<1> HIDE DEF Met, u, n
<1>15. ValuesOf(s, link') = [k \in DOMAIN u |-> IF k <= size THEN v ELSE u[k]]
  BY <1>13, <1>14 DEF ValuesOf
<1>16. chain' = [chain EXCEPT !.links = [k \in DOMAIN @ |-> IF k <= chain.size THEN v ELSE @[k]]]
  BY <1>1, <1>3, <1>11, <1>15 DEF Chained
<1> QED BY <1>1, <1>11, <1>16 DEF Overwrites

-----------------------------------------------------------------------------
(* ListInv holds of an empty list, and every step keeps it. *)
LEMMA ListInitInv == ListInit => ListInv /\ P!Init
<1>1. SUFFICES ASSUME ListInit PROVE ListInv /\ P!Init
  OBVIOUS
<1>2. ListTyped
  <2>1. Len(link) = 0 /\ link \in Seq(Block(Len(link)))
    BY <1>1 DEF ListInit
  <2>2. first \in 0 .. 0 /\ last \in 0 .. 0 /\ cur = NoIter /\ size = 0
    BY <1>1 DEF ListInit, NULL
  <2>3. ret = Nothing /\ fault \in BOOLEAN /\ sound \in BOOLEAN
    BY <1>1 DEF ListInit
  <2> QED BY <2>1, <2>2, <2>3, ListAssumption DEF ListTyped
<1>3. Path(<< >>, link, first) /\ Len(link) <= MaxLinks /\ Len(link) \in Nat
  BY <1>1, ListAssumption DEF ListInit, Path
<1>4. Links = << >> /\ chain = Chained(ValuesOf(<< >>, link), size)
  BY <1>2, <1>3, PathIsLinks, AlongPath
<1>5. Shows(<< >>, size, last)
  BY <1>1 DEF ListInit, Shows
<1>6. elems = << >> /\ ret = P!Nothing
  BY <1>1, <1>4 DEF ListInit, Chained, ValuesOf, elems, C!Shown, Nothing, P!Nothing
<1>7. ListInv
  BY <1>2, <1>3, <1>4, <1>5 DEF ListInv
<1> QED BY <1>6, <1>7 DEF P!Init

LEMMA ListNextInv == ListInv /\ [ListNext]_listVars => ListInv'
<1> SUFFICES ASSUME ListInv, [ListNext]_listVars PROVE ListInv'
  OBVIOUS
<1>1. CASE UNCHANGED listVars
  <2>1. SameList /\ ListTyped' /\ (sound' => sound)
    BY <1>1 DEF listVars, SameList, ListInv, ListTyped
  <2> QED BY <2>1, SameListStep
<1>2. ASSUME NEW v \in Values, ioopm_linked_list_append(v) PROVE ListInv'
  BY <1>2, AppendStep
<1>3. ASSUME NEW v \in Values, ioopm_linked_list_prepend(v) PROVE ListInv'
  BY <1>3, PrependStep
<1>4. ASSUME NEW v \in Values, ioopm_linked_list_apply_to_all(v) PROVE ListInv'
  BY <1>4, ApplyStep
<1>5. ASSUME NEW v \in Values, ioopm_iterator_insert(v) PROVE ListInv'
  BY <1>5, IteratorInsertStep
<1>6. ASSUME NEW index \in -1 .. size, ioopm_linked_list_remove(index) PROVE ListInv'
  BY <1>6, RemoveStep
<1>7. ASSUME NEW index \in -1 .. size, ioopm_linked_list_get(index) PROVE ListInv'
  BY <1>7, GetStep
<1> QED
  BY <1>1, <1>2, <1>3, <1>4, <1>5, <1>6, <1>7,
     ClearStep, IteratorStep, CurrentStep, IteratorNextStep, IteratorRemoveStep DEF ListNext

-----------------------------------------------------------------------------
(* The elements the list shows, before and after a step.                   *)
LEMMA ElemsFacts ==
  ASSUME ListInv, Alive
  PROVE  /\ elems = SubSeq(chain.links, 1, size)
         /\ elems \in Seq(Values) /\ Len(elems) = size /\ P!Positions = 0 .. size - 1
         /\ \A i \in 1 .. size : elems[i] = chain.links[i]
         /\ size = Length => elems = chain.links
<1> DEFINE u == chain.links
<1>1. u \in Seq(Values) /\ size \in 0 .. Len(u) /\ Len(u) = Length
  BY ChainFacts
<1>2. elems = SubSeq(u, 1, size)
  BY DEF elems, C!Shown, chain
<1> HIDE DEF u
<1>3. /\ elems \in Seq(Values) /\ Len(elems) = size
      /\ \A i \in 1 .. size : elems[i] = u[i]
      /\ size = Len(u) => elems = u
  BY <1>1, <1>2, FrontFacts
<1>4. P!Positions = 0 .. size - 1
  BY <1>3 DEF P!Positions
<1> QED BY <1>1, <1>2, <1>3, <1>4 DEF u

LEMMA ElemsAfter ==
  ASSUME NEW t, NEW n, chain' = C!Chained(t, n)
  PROVE  elems' = SubSeq(t, 1, n)
<1>1. chain'.links = t /\ chain'.size = n
  BY DEF C!Chained
<1> QED BY <1>1 DEF elems, C!Shown

LEMMA ElemsSame == chain' = chain => elems' = elems
BY DEF elems, C!Shown

(* A removal from the chain at a place the list shows. *)
LEMMA RemovedKept ==
  ASSUME ListInv, Alive, NEW index \in 0 .. size - 1, NEW t,
         chain' = C!Chained(t, size - 1), ret' = chain.links[index + 1],
         \/ t = Dropped(chain.links, index + 1)
         \/ t = chain.links /\ index + 1 = Len(chain.links)
  PROVE  P!Remove(index)
<1> DEFINE u == chain.links
<1>1. u \in Seq(Values) /\ size \in 0 .. Len(u) /\ size \in Nat /\ Len(u) \in Nat
  BY ChainFacts
<1>2. /\ elems = SubSeq(u, 1, size) /\ elems \in Seq(Values) /\ Len(elems) = size
      /\ P!Positions = 0 .. size - 1 /\ elems[index + 1] = u[index + 1]
      /\ size = Len(u) => elems = u
  <2>1. index + 1 \in 1 .. size
    BY <1>1
  <2> QED BY <2>1, ElemsFacts, ChainFacts
<1>3. elems' = SubSeq(t, 1, size - 1) /\ ret' = u[index + 1]
  BY ElemsAfter
<1> HIDE DEF u
<1>4. index + 1 \in 1 .. size /\ index + 1 \in 1 .. Len(elems) /\ (index + 1) - 1 = index
      /\ (index + 1) + 1 = index + 2
  BY <1>1, <1>2
<1>5. elems' = Dropped(elems, index + 1)
  <2>1. CASE t = Dropped(u, index + 1)
    BY <1>1, <1>2, <1>3, <1>4, <2>1, FrontDropped
  <2>2. CASE t = u /\ index + 1 = Len(u)
    <3>1. size = Len(u) /\ elems = u /\ Len(u) # 0
      BY <1>1, <1>2, <1>4, <2>2
    <3>2. Dropped(u, Len(u)) = SubSeq(u, 1, Len(u) - 1)
      BY <1>1, <3>1, LastDropped
    <3> QED BY <1>3, <2>2, <3>1, <3>2
  <2> QED BY <2>1, <2>2 DEF u
<1>6. SubSeq(elems, 1, index) \o SubSeq(elems, index + 2, Len(elems)) = Dropped(elems, index + 1)
  <2>1. SubSeq(elems, 1, (index + 1) - 1) \o SubSeq(elems, (index + 1) + 1, Len(elems))
          = Dropped(elems, index + 1)
    BY <1>2, <1>4, SubSeqsDrop
  <2> QED BY <1>4, <2>1
<1> QED BY <1>2, <1>3, <1>5, <1>6 DEF P!Remove

(* A list of one element, all shown.                                       *)
LEMMA OnlyOne ==
  ASSUME NEW v \in Values
  PROVE  SubSeq(<<v>>, 1, 1) = <<v>>
<1> DEFINE one == <<v>>
<1>1. one \in Seq(Values) /\ Len(one) = 1
  OBVIOUS
<1> HIDE DEF one
<1>2. 1 \in 0 .. Len(one)
  BY <1>1
<1>3. SubSeq(one, 1, 1) = one
  BY <1>1, <1>2, FrontFacts
<1> QED BY <1>3 DEF one

(* The list's own operations keep their promises.                          *)
LEMMA AppendKept ==
  ASSUME ListInv, Honest, NEW v \in Values, ioopm_linked_list_append(v),
         size = 0 \/ ~C!Hidden(chain)
  PROVE  P!Add(v)
<1> DEFINE u == chain.links
<1>1. Alive /\ chain.size = size
  BY DEF ioopm_linked_list_append, chain
<1>2. u \in Seq(Values) /\ size \in {Len(u), Len(u) - 1} /\ Len(u) \in Nat /\ size \in Nat
  BY <1>1, ChainFacts
<1>3. chain' = C!Appended(chain, v) /\ ret' = Nothing
  BY AppendStep DEF AppendsTo
<1>4. elems \in Seq(Values) /\ Len(elems) = size /\ (size = Len(u) => elems = u)
  BY <1>1, ElemsFacts, ChainFacts
<1>5. elems' = Append(elems, v)
  <2>1. CASE size = 0
    <3>1. chain' = C!Chained(<<v>>, 1)
      BY <1>1, <1>3, <2>1 DEF C!Appended
    <3>2. elems' = SubSeq(<<v>>, 1, 1)
      BY <3>1, ElemsAfter
    <3>3. elems = << >>
      BY <1>4, <2>1
    <3>4. SubSeq(<<v>>, 1, 1) = <<v>>
      BY OnlyOne
    <3>5. Append(<< >>, v) = <<v>>
      OBVIOUS
    <3> QED BY <3>2, <3>3, <3>4, <3>5
  <2>2. CASE size # 0
    <3>1. size = Len(u)
      BY <1>1, <1>2, <2>2 DEF C!Hidden
    <3>2. chain' = C!Chained(Append(u, v), size + 1)
      BY <1>1, <1>3, <2>2 DEF C!Appended
    <3>3. elems' = SubSeq(Append(u, v), 1, size + 1)
      <4> HIDE DEF u
      <4> QED BY <3>2, ElemsAfter
    <3> HIDE DEF u
    <3>4. Append(u, v) \in Seq(Values) /\ Len(Append(u, v)) = size + 1
      BY <1>2, <3>1
    <3>5. SubSeq(Append(u, v), 1, size + 1) = Append(u, v)
      BY <1>2, <3>4, FrontFacts
    <3> QED BY <1>4, <3>1, <3>3, <3>5
  <2> QED BY <2>1, <2>2
<1> QED BY <1>3, <1>5 DEF P!Add, Nothing, P!Nothing

LEMMA PrependKept ==
  ASSUME ListInv, Honest, NEW v \in Values, ioopm_linked_list_prepend(v)
  PROVE  P!Prepend(v)
<1> DEFINE u == chain.links
<1>1. Alive /\ chain.size = size
  BY DEF ioopm_linked_list_prepend, chain
<1>2. u \in Seq(Values) /\ size \in 0 .. Len(u) /\ Len(u) \in Nat /\ size \in Nat
  BY <1>1, ChainFacts
<1>3. chain' = C!Prepended(chain, v) /\ ret' = Nothing
  BY PrependStep DEF PrependsTo
<1>4. elems \in Seq(Values) /\ Len(elems) = size /\ elems = SubSeq(u, 1, size)
  BY <1>1, ElemsFacts
<1>5. elems' = <<v>> \o elems
  <2>1. CASE size = 0
    <3>1. chain' = C!Chained(<<v>>, 1)
      BY <1>1, <1>3, <2>1 DEF C!Prepended
    <3>2. elems' = SubSeq(<<v>>, 1, 1)
      BY <3>1, ElemsAfter
    <3>3. elems = << >>
      BY <1>4, <2>1
    <3>4. SubSeq(<<v>>, 1, 1) = <<v>>
      BY OnlyOne
    <3>5. <<v>> \o << >> = <<v>>
      OBVIOUS
    <3> QED BY <3>2, <3>3, <3>4, <3>5
  <2>2. CASE size # 0
    <3>1. chain' = C!Chained(<<v>> \o u, size + 1)
      BY <1>1, <1>3, <2>2 DEF C!Prepended
    <3> HIDE DEF u
    <3>2. elems' = SubSeq(<<v>> \o u, 1, size + 1)
      BY <3>1, ElemsAfter
    <3>3. <<v>> \o u = Inserted(u, 0, v) /\ <<v>> \o elems = Inserted(elems, 0, v)
      BY <1>2, <1>4, PrependInserts
    <3>4. 0 \in 0 .. size
      BY <1>2
    <3>5. SubSeq(Inserted(u, 0, v), 1, size + 1) = Inserted(elems, 0, v)
      BY <1>2, <1>4, <3>4, FrontInserted
    <3> QED BY <3>2, <3>3, <3>5
  <2> QED BY <2>1, <2>2
<1> QED BY <1>3, <1>5 DEF P!Prepend, Nothing, P!Nothing

LEMMA ApplyKept ==
  ASSUME ListInv, Honest, NEW v \in Values, ioopm_linked_list_apply_to_all(v)
  PROVE  P!ApplyToAll(v)
<1> DEFINE u == chain.links
           t == [k \in DOMAIN u |-> IF k <= chain.size THEN v ELSE u[k]]
<1>1. Alive /\ chain.size = size
  BY DEF ioopm_linked_list_apply_to_all, chain
<1>2. /\ u \in Seq(Values) /\ size \in 0 .. Len(u) /\ Len(u) \in Nat /\ size \in Nat
      /\ chain = C!Chained(u, size)
  BY <1>1, ChainFacts
<1>3. /\ chain' = [chain EXCEPT !.links = [k \in DOMAIN @ |-> IF k <= chain.size THEN v ELSE @[k]]]
      /\ ret' = Nothing
  BY ApplyStep DEF Overwrites
<1>4. elems \in Seq(Values) /\ Len(elems) = size
  BY <1>1, ElemsFacts
<1>5. chain' = C!Chained(t, size)
  <2>1. chain' = [links |-> t, size |-> chain.size]
    BY <1>3 DEF chain
  <2> HIDE DEF t, u
  <2> QED BY <1>1, <2>1 DEF C!Chained
<1>6. t \in Seq(Values) /\ Len(t) = Len(u) /\ \A k \in 1 .. size : t[k] = v
  <2>1. DOMAIN u = 1 .. Len(u) /\ t \in [1 .. Len(u) -> Values]
    <3> HIDE DEF u
    <3> QED BY <1>2
  <2>2. \A k \in 1 .. size : t[k] = v
    <3> HIDE DEF u
    <3> QED BY <1>1, <1>2, <2>1
  <2> HIDE DEF t, u
  <2> QED BY <1>2, <2>1, <2>2, FunctionIsSeq
<1> HIDE DEF t, u
<1>7. elems' = SubSeq(t, 1, size)
  BY <1>5, ElemsAfter
<1>8. elems' \in Seq(Values) /\ Len(elems') = size /\ \A i \in 1 .. size : elems'[i] = v
  BY <1>2, <1>6, <1>7, FrontFacts
<1>9. DOMAIN elems = 1 .. size /\ DOMAIN elems' = 1 .. size
  BY <1>4, <1>8
<1>10. elems' = [i \in 1 .. size |-> elems'[i]]
  BY <1>8, <1>9
<1>11. elems' = [i \in DOMAIN elems |-> v]
  BY <1>8, <1>9, <1>10
<1> QED BY <1>3, <1>11 DEF P!ApplyToAll, Nothing, P!Nothing

LEMMA RemoveKept ==
  ASSUME ListInv, Honest, NEW index \in -1 .. size, ioopm_linked_list_remove(index)
  PROVE  IF index \in P!Positions THEN P!Remove(index) ELSE UNCHANGED elems
<1> DEFINE u == chain.links
<1>1. Alive /\ chain.size = size
  BY DEF ioopm_linked_list_remove, chain
<1>2. /\ u \in Seq(Values) /\ size \in 0 .. Len(u) /\ Len(u) \in Nat /\ size \in Nat
      /\ P!Positions = 0 .. size - 1
  BY <1>1, ChainFacts, ElemsFacts
<1>3. RemovesAt(index)
  BY RemoveStep
<1>4. CASE index \in 0 .. size - 1
  <2>1. chain' = C!Removed(chain, index) /\ ret' = u[index + 1]
    BY <1>3, <1>4 DEF RemovesAt
  <2>2. index + 1 \in 1 .. Len(u) /\ (index + 1) - 1 = index
    BY <1>2, <1>4
  <2> DEFINE t == IF index = 0 \/ index + 1 < Len(u) THEN C!Without(u, index + 1) ELSE u
  <2>3. chain' = C!Chained(t, size - 1)
    BY <1>1, <2>1 DEF C!Removed
  <2>4. C!Without(u, index + 1) = Dropped(u, index + 1)
    <3> HIDE DEF u
    <3> QED BY <1>2, <2>2, SubSeqsDrop DEF C!Without
  <2>5. t = Dropped(u, index + 1) \/ (t = u /\ index + 1 = Len(u))
    <3> HIDE DEF u
    <3> QED BY <1>2, <2>2, <2>4
  <2> HIDE DEF t
  <2>6. P!Remove(index)
    BY <1>1, <1>4, <2>1, <2>3, <2>5, RemovedKept
  <2> QED BY <1>2, <1>4, <2>6
<1>5. CASE index \notin 0 .. size - 1
  <2>1. chain' = chain
    BY <1>3, <1>5 DEF RemovesAt
  <2> QED BY <1>2, <1>5, <2>1, ElemsSame
<1> QED BY <1>4, <1>5

LEMMA GetKept ==
  ASSUME ListInv, Honest, NEW index \in -1 .. size, ioopm_linked_list_get(index)
  PROVE  IF index \in P!Positions THEN P!Get(index) ELSE UNCHANGED elems
<1>1. Alive
  BY DEF ioopm_linked_list_get
<1>2. ReadsAt(index)
  BY GetStep
<1>3. UNCHANGED elems
  BY <1>2, ElemsSame DEF ReadsAt
<1>4. ASSUME index \in P!Positions PROVE P!Get(index)
  <2>1. /\ index \in 0 .. size - 1 /\ size \in Nat
        /\ \A i \in 1 .. size : elems[i] = chain.links[i]
    BY <1>1, <1>4, ElemsFacts, ChainFacts
  <2>2. ret' = elems[index + 1]
    BY <1>2, <2>1 DEF ReadsAt
  <2> QED BY <1>3, <1>4, <2>2 DEF P!Get
<1> QED BY <1>3, <1>4

LEMMA ClearKept ==
  ASSUME ListInv, Honest, ioopm_linked_list_clear
  PROVE  P!Clear
<1>1. chain' = C!Chained(<< >>, 0) /\ ret' = Nothing
  BY ClearStep DEF Clears, C!Empty
<1>2. elems' = SubSeq(<< >>, 1, 0)
  BY <1>1, ElemsAfter
<1> QED BY <1>1, <1>2 DEF P!Clear, Nothing, P!Nothing

(* And so do those of the iterator.                                        *)
LEMMA IteratorKept ==
  ASSUME ListInv, Honest, ioopm_list_iterator
  PROVE  P!LookOnly
BY IteratorStep, ElemsSame DEF Starts, P!LookOnly, Nothing, P!Nothing

LEMMA CurrentKept ==
  ASSUME ListInv, Honest, ioopm_iterator_current \/ ioopm_iterator_next
  PROVE  /\ UNCHANGED elems
         /\ \A index \in 0 .. size - 1 : At(index)' => P!Get(index)
<1>1. Alive /\ ReadsCurrent
  BY CurrentStep, IteratorNextStep DEF ioopm_iterator_current, ioopm_iterator_next
<1>2. UNCHANGED elems
  BY <1>1, ElemsSame DEF ReadsCurrent
<1>3. ASSUME NEW index \in 0 .. size - 1, At(index)' PROVE P!Get(index)
  <2>1. /\ size \in Nat /\ Length \in Nat /\ size \in {Length, Length - 1}
        /\ index \in P!Positions /\ \A i \in 1 .. size : elems[i] = chain.links[i]
    BY <1>1, ElemsFacts, ChainFacts
  <2>2. find_link[index] = cur'
    <3>1. find_link' = find_link
      BY <1>1 DEF ReadsCurrent
    <3> QED BY <1>3, <3>1 DEF At
  <2>3. ret' = chain.links[index + 1]
    <3>1. index \in 0 .. Length - 1
      BY <2>1
    <3> QED BY <1>1, <2>2, <3>1 DEF ReadsCurrent
  <2> QED BY <1>2, <2>1, <2>3 DEF P!Get
<1> QED BY <1>2, <1>3

LEMMA InsertKept ==
  ASSUME ListInv, Honest, NEW v \in Values, ioopm_iterator_insert(v)
  PROVE  /\ size = 0 => P!Insert(0, v)
         /\ \A index \in 0 .. size - 1 : At(index) => P!Insert(index + 1, v)
<1> DEFINE u == chain.links
<1>1. Alive /\ InsertsBehind(v) /\ chain.size = size
  BY IteratorInsertStep DEF ioopm_iterator_insert, chain
<1>2. /\ u \in Seq(Values) /\ size \in 0 .. Len(u) /\ Len(u) \in Nat /\ size \in Nat
      /\ Length = Len(u)
  BY <1>1, ChainFacts
<1>3. elems \in Seq(Values) /\ Len(elems) = size /\ elems = SubSeq(u, 1, size)
  BY <1>1, ElemsFacts
<1>4. ret' = P!Nothing
  BY <1>1 DEF InsertsBehind, Nothing, P!Nothing
<1>5. ASSUME size = 0 PROVE P!Insert(0, v)
  <2>1. chain' = C!Chained(<<v>>, 1)
    BY <1>1, <1>5 DEF InsertsBehind
  <2>2. elems' = SubSeq(<<v>>, 1, 1)
    BY <2>1, ElemsAfter
  <2>3. elems = << >>
    BY <1>3, <1>5
  <2> QED BY <1>4, <2>2, <2>3 DEF P!Insert
<1>6. ASSUME NEW index \in 0 .. size - 1, At(index) PROVE P!Insert(index + 1, v)
  <2>1. size # 0
    BY <1>2
  <2>2. PICK q \in 1 .. Length : find_link[q - 1] = cur /\ chain' = C!InsertedBehind(chain, q, v)
    BY <1>1, <2>1 DEF InsertsBehind
  <2>3. q = index + 1
    <3>1. q - 1 \in 0 .. Length - 1 /\ index \in 0 .. Length - 1
      BY <1>2, <2>2
    <3>2. q - 1 = index
      BY <1>1, <1>6, <2>2, <3>1, ChainFacts DEF At
    <3> QED BY <3>1, <3>2
  <2>4. q \in 1 .. Len(u) /\ q \in 0 .. size /\ q \in 1 .. Len(elems)
    BY <1>2, <1>3, <2>3
  <2>5. chain' = C!Chained(SubSeq(u, 1, q) \o <<v>> \o SubSeq(u, q + 1, Len(u)), size + 1)
    BY <1>1, <2>2 DEF C!InsertedBehind
  <2> HIDE DEF u
  <2>6. SubSeq(u, 1, q) \o <<v>> \o SubSeq(u, q + 1, Len(u)) = Inserted(u, q, v)
    BY <1>2, <2>4, SubSeqsInsert
  <2>7. elems' = SubSeq(Inserted(u, q, v), 1, size + 1)
    BY <2>5, <2>6, ElemsAfter
  <2>8. elems' = Inserted(elems, q, v)
    BY <1>2, <1>3, <2>4, <2>7, FrontInserted
  <2>9. SubSeq(elems, 1, q) \o <<v>> \o SubSeq(elems, q + 1, Len(elems)) = Inserted(elems, q, v)
    BY <1>3, <2>4, SubSeqsInsert
  <2> QED BY <1>4, <2>3, <2>8, <2>9 DEF P!Insert
<1> QED BY <1>5, <1>6

LEMMA IteratorRemoveKept ==
  ASSUME ListInv, Honest, ioopm_iterator_remove
  PROVE  \E index \in 0 .. size - 2 : At(index) /\ P!Remove(index + 1)
<1> DEFINE u == chain.links
<1>1. Alive /\ RemovesBehind /\ chain.size = size
  BY IteratorRemoveStep DEF ioopm_iterator_remove, chain
<1>2. /\ u \in Seq(Values) /\ Len(u) \in Nat /\ size \in Nat
      /\ Length = Len(u) /\ size \in {Length, Length - 1}
  BY <1>1, ChainFacts
<1>3. PICK q \in 1 .. Length - 2 : /\ find_link[q - 1] = cur
                                   /\ chain' = C!RemovedBehind(chain, q)
                                   /\ ret' = u[q + 1]
  BY <1>1 DEF RemovesBehind
<1>4. /\ q \in 0 .. size - 1 /\ q + 1 \in 1 .. Len(u) /\ q - 1 \in 0 .. size - 2
      /\ (q - 1) + 1 = q /\ (q + 1) - 1 = q
  BY <1>2, <1>3
<1>5. chain' = C!Chained(C!Without(u, q + 1), size - 1)
  BY <1>1, <1>3 DEF C!RemovedBehind
<1>6. C!Without(u, q + 1) = Dropped(u, q + 1)
  <2> HIDE DEF u
  <2> QED BY <1>2, <1>4, SubSeqsDrop DEF C!Without
<1>7. chain' = C!Chained(Dropped(u, q + 1), size - 1)
  BY <1>5, <1>6
<1>8. P!Remove(q)
  BY <1>1, <1>3, <1>4, <1>7, RemovedKept
<1>9. At(q - 1) /\ P!Remove((q - 1) + 1)
  BY <1>3, <1>4, <1>8 DEF At
<1> QED BY <1>4, <1>9

(* The links of a list that is used soundly are always a path from first   *)
(* on that shows all of its links or all but one, with last at its end     *)
(* (linked_list.c).                                                        *)
THEOREM ListInvariance == ListSpec => []ListInv
<1>1. ListInit => ListInv
  BY ListInitInv
<1>2. ListInv /\ [ListNext]_listVars => ListInv'
  BY ListNextInv
<1> QED BY <1>1, <1>2, PTL DEF ListSpec

(* Pointers stay pointers, and the size of a list used soundly is never    *)
(* negative.                                                               *)
THEOREM ListTypeCorrect == ListSpec => []ListTypeOK
<1>1. ListInv => ListTypeOK
  <2>1. SUFFICES ASSUME ListInv PROVE ListTypeOK
    OBVIOUS
  <2>2. ListTyped /\ MaxLinks \in Nat /\ (sound => size >= 0)
    BY <2>1, ListAssumption DEF ListInv, Shows
  <2>3. Len(link) \in Nat /\ 0 .. Len(link) \subseteq Pointers
    BY <2>2 DEF ListTyped, Pointers
  <2>4. Block(Len(link)) \subseteq [value : Values, next : Pointers]
    BY <2>3 DEF Block
  <2>5. link \in Seq([value : Values, next : Pointers])
    BY <2>2, <2>4, SeqWidens DEF ListTyped
  <2> QED BY <2>2, <2>3, <2>5 DEF ListTyped, ListTypeOK
<1> QED BY <1>1, ListInvariance, PTL

(* The loops that run to size never meet NULL, and last is where the next  *)
(* append belongs, whatever was removed and wherever it was inserted.      *)
THEOREM WalksAlwaysStayInside == ListSpec => []WalksStayInside
<1>1. ListInv => WalksStayInside
  <2>1. SUFFICES ASSUME ListInv, sound
                 PROVE  size <= Length /\ (size # 0 => last = find_link[Length - 1])
    BY DEF WalksStayInside
  <2>2. PICK s : Path(s, link, first) /\ Shows(s, size, last)
    BY <2>1 DEF ListInv
  <2>3. /\ Length = Len(s) /\ \A i \in 1 .. Len(s) : find_link[i - 1] = s[i]
        /\ Len(s) \in Nat
    BY <2>1, <2>2, AlongPath DEF ListInv
  <2>4. size \in Nat /\ size <= Len(s) /\ (size # 0 => last = s[Len(s)])
    BY <2>2, <2>3 DEF Shows
  <2>5. size # 0 => Len(s) \in 1 .. Len(s)
    BY <2>3, <2>4
  <2> QED BY <2>3, <2>4, <2>5
<1> QED BY <1>1, ListInvariance, PTL

(* At most one removed link is left behind those the list shows. *)
THEOREM OneHiddenAtMostAlways == ListSpec => []OneHiddenAtMost
<1>1. ListInv => OneHiddenAtMost
  <2>1. SUFFICES ASSUME ListInv, sound PROVE Length - size <= 1
    BY DEF OneHiddenAtMost
  <2>2. PICK s : Path(s, link, first) /\ Shows(s, size, last)
    BY <2>1 DEF ListInv
  <2>3. Length = Len(s) /\ Len(s) \in Nat
    BY <2>1, <2>2, AlongPath DEF ListInv
  <2> QED BY <2>2, <2>3 DEF Shows
<1> QED BY <1>1, ListInvariance, PTL

(* While it is used soundly, every operation of the list on links and      *)
(* pointers does to the elements what linked_list.h promises of it, but    *)
(* for an append behind a hidden link.                                     *)
THEOREM ListKeepsPromise == ListSpec => ImplementsList
<1>1. ListInit => P!Init
  BY ListInitInv
<1>2. ListInv => (sound' /\ ~fault' => KeepsPromise)
  <2> SUFFICES ASSUME ListInv, Honest PROVE KeepsPromise
    BY DEF Honest
  <2> QED
    BY AppendKept, PrependKept, ApplyKept, InsertKept, RemoveKept, GetKept, ClearKept,
       IteratorKept, CurrentKept, IteratorRemoveKept DEF KeepsPromise
<1>3. ListInv /\ [ListNext]_listVars => [sound' /\ ~fault' => KeepsPromise]_listVars
  BY <1>2
<1> QED BY <1>1, <1>3, ListInvariance, PTL DEF ListSpec, ImplementsList

=============================================================================
