--------------------------- MODULE InductionProofs ---------------------------
(***************************************************************************)
(* Induction over natural numbers, and what it says of loops: a function   *)
(* defined by recursion exists, and the sums the other proofs need.  Last, *)
(* sequences in which one place is added or dropped.                       *)
(*                                                                         *)
(* A proof by induction takes the set of numbers that a statement fails    *)
(* for, and its least element.                                             *)
(***************************************************************************)
EXTENDS Integers, SequenceTheorems, WellFoundedInduction, TLAPS

Below == {pair \in Nat \X Nat : pair[1] < pair[2]}

(* No sequence of natural numbers descends for ever. *)
LEMMA BelowWellFounded == IsWellFoundedOn(Below, Nat)
BY NatLessThanWellFounded, Zenon DEF OpToRel, Below

(* A set of natural numbers has a least element. *)
LEMMA LeastNatural ==
  ASSUME NEW T, T \subseteq Nat, T # {}
  PROVE  \E n \in T : \A m \in T : n <= m
<1>1. PICK n \in T : \A m \in T : <<m, n>> \notin Below
  BY BelowWellFounded, WFMin
<1>2. ASSUME NEW m \in T PROVE n <= m
  <2>1. n \in Nat /\ m \in Nat /\ <<m, n>> \notin Below
    BY <1>1
  <2> QED BY <2>1 DEF Below
<1> QED BY <1>1, <1>2

(* Induction up to n, of a statement given as the set of the numbers it    *)
(* holds for.                                                              *)
Inductive(T, n) == 0 \in T /\ \A m \in 1 .. n : m - 1 \in T => m \in T

(* What is inductive holds of every number. *)
LEMMA UpTo ==
  ASSUME NEW n \in Nat, NEW T, Inductive(T, n)
  PROVE  \A m \in 0 .. n : m \in T
<1> DEFINE Bad == {m \in 0 .. n : m \notin T}
<1>1. Bad \subseteq Nat
  OBVIOUS
<1>2. ASSUME NEW m \in Bad, \A k \in Bad : m <= k PROVE FALSE
  <2>1. m \in 1 .. n /\ m - 1 \in 0 .. n /\ m - 1 \notin Bad
    BY <1>2 DEF Inductive
  <2> QED BY <2>1 DEF Inductive
<1>3. Bad = {}
  <2> HIDE DEF Bad
  <2> QED BY <1>1, <1>2, LeastNatural
<1> QED BY <1>3

(* The values f of a loop that starts with x and takes n steps.            *)
Loop(f, x, step, n) == f[0] = x /\ \A i \in 1 .. n : f[i] = step[<<f[i - 1], i>>]

(* Such a loop has a value before and after each step. *)
LEMMA LoopExists ==
  ASSUME NEW n \in Nat, NEW S, NEW x \in S, NEW step \in [S \X (1 .. n) -> S]
  PROVE  \E f \in [0 .. n -> S] : Loop(f, x, step, n)
<1> DEFINE Reached(m) == \E f \in [0 .. m -> S] : Loop(f, x, step, m)
           T == {m \in 0 .. n : Reached(m)}
<1>1. Reached(0)
  <2> DEFINE f == [i \in 0 .. 0 |-> x]
  <2>1. f \in [0 .. 0 -> S] /\ f[0] = x
    OBVIOUS
  <2> HIDE DEF f
  <2>2. Loop(f, x, step, 0)
    BY <2>1 DEF Loop
  <2> QED BY <2>1, <2>2
<1>2. ASSUME NEW m \in 1 .. n, Reached(m - 1) PROVE Reached(m)
  <2>1. PICK g \in [0 .. m - 1 -> S] : Loop(g, x, step, m - 1)
    BY <1>2
  <2> DEFINE f == [i \in 0 .. m |-> IF i = m THEN step[<<g[m - 1], m>>] ELSE g[i]]
  <2>2. step[<<g[m - 1], m>>] \in S
    OBVIOUS
  <2>3. f \in [0 .. m -> S] /\ \A i \in 0 .. m - 1 : f[i] = g[i]
    BY <2>2
  <2>4. f[m] = step[<<g[m - 1], m>>] /\ f[m - 1] = g[m - 1]
    OBVIOUS
  <2> HIDE DEF f
  <2>5. ASSUME NEW i \in 1 .. m PROVE f[i] = step[<<f[i - 1], i>>]
    <3>1. CASE i = m
      BY <2>4, <3>1
    <3>2. CASE i # m
      <4>1. i \in 1 .. m - 1 /\ i - 1 \in 0 .. m - 1 /\ i \in 0 .. m - 1
        BY <3>2
      <4> QED BY <2>1, <2>3, <4>1 DEF Loop
    <3> QED BY <3>1, <3>2
  <2>6. Loop(f, x, step, m)
    BY <2>1, <2>3, <2>5 DEF Loop
  <2> QED BY <2>3, <2>6
<1> HIDE DEF Reached
<1>3. Inductive(T, n)
  BY <1>1, <1>2 DEF Inductive
<1>4. n \in T
  <2> HIDE DEF T
  <2> QED BY <1>3, UpTo
<1> QED BY <1>4 DEF Reached

-----------------------------------------------------------------------------
(* The sum of f[1] to f[n], and the loop that computes it.                 *)
Total(f, n) ==
  LET sum[i \in 0 .. n] == IF i = 0 THEN 0 ELSE sum[i - 1] + f[i] IN sum[n]

Adding(s, f, n) == s[0] = 0 /\ \A i \in 1 .. n : s[i] = s[i - 1] + f[i]

(* The loop has one result. *)
LEMMA SumsAgree ==
  ASSUME NEW n \in Nat, NEW f, NEW s, NEW t, Adding(s, f, n), Adding(t, f, n)
  PROVE  s[n] = t[n]
<1> DEFINE T == {i \in 0 .. n : s[i] = t[i]}
<1>1. Inductive(T, n)
  BY DEF Adding, Inductive
<1>2. n \in T
  <2> HIDE DEF T
  <2> QED BY <1>1, UpTo
<1> QED BY <1>2

(* Total is that result. *)
LEMMA TotalIs ==
  ASSUME NEW n \in Nat, NEW f, NEW t \in [0 .. n -> Int], Adding(t, f, n)
  PROVE  Total(f, n) = t[n]
<1> DEFINE Sum(u) == u = [i \in 0 .. n |-> IF i = 0 THEN 0 ELSE u[i - 1] + f[i]]
           s == CHOOSE u : Sum(u)
<1>1. Sum(t)
  <2>1. ASSUME NEW i \in 0 .. n
        PROVE  t[i] = IF i = 0 THEN 0 ELSE t[i - 1] + f[i]
    BY DEF Adding
  <2> QED BY <2>1, Zenon
<1>2. Sum(s)
  BY <1>1, Zenon
<1>3. Adding(s, f, n)
  <2>1. \A i \in 0 .. n : s[i] = IF i = 0 THEN 0 ELSE s[i - 1] + f[i]
    BY <1>2, Zenon
  <2> HIDE DEF s
  <2> QED BY <2>1 DEF Adding
<1>4. Total(f, n) = s[n]
  BY Zenon DEF Total
<1> HIDE DEF s
<1> QED BY <1>3, <1>4, SumsAgree

(* The values of the sums. *)
LEMMA TotalFacts ==
  ASSUME NEW n \in Nat, NEW f \in [1 .. n -> Int]
  PROVE  /\ \A i \in 0 .. n : Total(f, i) \in Int
         /\ Total(f, 0) = 0
         /\ \A i \in 1 .. n : Total(f, i) = Total(f, i - 1) + f[i]
<1> DEFINE step == [v \in Int \X (1 .. n) |-> v[1] + f[v[2]]]
<1>1. step \in [Int \X (1 .. n) -> Int] /\ 0 \in Int
  OBVIOUS
<1>2. PICK t \in [0 .. n -> Int] : Loop(t, 0, step, n)
  <2> HIDE DEF step
  <2> QED BY <1>1, LoopExists
<1>3. t[0] = 0 /\ \A i \in 1 .. n : t[i] = t[i - 1] + f[i]
  <2>1. ASSUME NEW i \in 1 .. n PROVE t[i] = t[i - 1] + f[i]
    <3>1. t[i - 1] \in Int
      OBVIOUS
    <3> QED BY <1>2, <3>1 DEF Loop
  <2> QED BY <1>2, <2>1 DEF Loop
<1>4. ASSUME NEW i \in 0 .. n PROVE Total(f, i) = t[i]
  <2> DEFINE u == [j \in 0 .. i |-> t[j]]
  <2>1. u \in [0 .. i -> Int] /\ u[0] = 0 /\ u[i] = t[i]
    BY <1>3
  <2>2. \A j \in 1 .. i : u[j] = u[j - 1] + f[j]
    BY <1>3
  <2> HIDE DEF u
  <2>3. Adding(u, f, i)
    BY <2>1, <2>2 DEF Adding
  <2>4. i \in Nat
    OBVIOUS
  <2>5. Total(f, i) = u[i]
    BY <2>1, <2>3, <2>4, TotalIs
  <2> QED BY <2>1, <2>5
<1> QED BY <1>3, <1>4

(* A sum of greater terms is greater. *)
LEMMA TotalMonotone ==
  ASSUME NEW n \in Nat, NEW f \in [1 .. n -> Int], NEW g \in [1 .. n -> Int],
         \A i \in 1 .. n : f[i] <= g[i]
  PROVE  Total(f, n) <= Total(g, n)
<1> DEFINE T == {i \in 0 .. n : Total(f, i) <= Total(g, i)}
<1>1. 0 \in T
  BY TotalFacts
<1>2. ASSUME NEW m \in 1 .. n, m - 1 \in T PROVE m \in T
  <2>1. m - 1 \in 0 .. n /\ m \in 0 .. n
    OBVIOUS
  <2>2. /\ Total(f, m) = Total(f, m - 1) + f[m] /\ Total(f, m - 1) \in Int
        /\ Total(g, m) = Total(g, m - 1) + g[m] /\ Total(g, m - 1) \in Int
    BY <2>1, TotalFacts
  <2>3. Total(f, m - 1) <= Total(g, m - 1)
    BY <1>2
  <2>4. f[m] \in Int /\ g[m] \in Int /\ f[m] <= g[m]
    OBVIOUS
  <2>5. Total(f, m) <= Total(g, m)
    BY <2>2, <2>3, <2>4
  <2> QED BY <2>1, <2>5
<1>3. n \in T
  <2> HIDE DEF T
  <2>1. Inductive(T, n)
    BY <1>1, <1>2 DEF Inductive
  <2> QED BY <2>1, UpTo
<1> QED BY <1>3

(* A sum of equal terms is equal. *)
LEMMA TotalSame ==
  ASSUME NEW n \in Nat, NEW f \in [1 .. n -> Int], NEW g,
         \A i \in 1 .. n : f[i] = g[i]
  PROVE  Total(f, n) = Total(g, n)
<1> DEFINE step == [v \in Int \X (1 .. n) |-> v[1] + f[v[2]]]
<1>1. step \in [Int \X (1 .. n) -> Int] /\ 0 \in Int
  OBVIOUS
<1>2. PICK t \in [0 .. n -> Int] : Loop(t, 0, step, n)
  <2> HIDE DEF step
  <2> QED BY <1>1, LoopExists
<1>3. ASSUME NEW i \in 1 .. n PROVE t[i] = t[i - 1] + f[i]
  <2>1. t[i - 1] \in Int
    OBVIOUS
  <2> QED BY <1>2, <2>1 DEF Loop
<1>4. Adding(t, f, n) /\ Adding(t, g, n)
  BY <1>2, <1>3 DEF Adding, Loop
<1> QED BY <1>4, TotalIs

(* A sum of zeros is zero. *)
LEMMA TotalZero ==
  ASSUME NEW n \in Nat, NEW f \in [1 .. n -> Int], \A i \in 1 .. n : f[i] = 0
  PROVE  Total(f, n) = 0
<1> DEFINE t == [i \in 0 .. n |-> 0]
<1>1. t \in [0 .. n -> Int] /\ Adding(t, f, n) /\ t[n] = 0
  BY DEF Adding
<1> HIDE DEF t
<1> QED BY <1>1, TotalIs

(* One more term adds to the sum. *)
LEMMA TotalExtend ==
  ASSUME NEW n \in Nat, NEW f \in [1 .. n -> Int], NEW g \in [1 .. n + 1 -> Int],
         \A i \in 1 .. n : g[i] = f[i]
  PROVE  Total(g, n + 1) = Total(f, n) + g[n + 1]
<1>1. n + 1 \in Nat /\ n + 1 \in 1 .. n + 1 /\ (n + 1) - 1 = n
  OBVIOUS
<1>2. Total(g, n + 1) = Total(g, n) + g[n + 1]
  BY <1>1, TotalFacts
<1>3. Total(f, n) = Total(g, n)
  BY TotalSame
<1> QED BY <1>2, <1>3

(* A change of one term changes the sum by as much. *)
LEMMA TotalChange ==
  ASSUME NEW n \in Nat, NEW f \in [1 .. n -> Int], NEW g \in [1 .. n -> Int],
         NEW k \in 1 .. n, \A i \in 1 .. n : i # k => g[i] = f[i]
  PROVE  Total(g, n) = Total(f, n) + (g[k] - f[k])
<1> DEFINE d(i) == IF i < k THEN 0 ELSE g[k] - f[k]
           T == {i \in 0 .. n : Total(g, i) = Total(f, i) + d(i)}
<1>1. 0 \in T
  <2>1. Total(f, 0) = 0 /\ Total(g, 0) = 0 /\ 0 \in 0 .. n /\ d(0) = 0
    BY TotalFacts
  <2> HIDE DEF d
  <2> QED BY <2>1
<1>2. ASSUME NEW m \in 1 .. n, m - 1 \in T PROVE m \in T
  <2>1. m - 1 \in 0 .. n /\ m \in 0 .. n
    OBVIOUS
  <2>2. /\ Total(f, m) = Total(f, m - 1) + f[m] /\ Total(f, m - 1) \in Int
        /\ Total(g, m) = Total(g, m - 1) + g[m] /\ Total(g, m - 1) \in Int
    BY <2>1, TotalFacts
  <2>3. Total(g, m - 1) = Total(f, m - 1) + d(m - 1)
    BY <1>2
  <2>4. /\ f[m] \in Int /\ g[m] \in Int /\ f[k] \in Int /\ g[k] \in Int
        /\ m # k => g[m] = f[m]
    OBVIOUS
  <2>5. Total(g, m) = Total(f, m) + d(m)
    BY <2>2, <2>3, <2>4
  <2> QED BY <2>1, <2>5
<1>3. n \in T
  <2> HIDE DEF T
  <2>1. Inductive(T, n)
    BY <1>1, <1>2 DEF Inductive
  <2> QED BY <2>1, UpTo
<1> QED BY <1>3

(* The last terms of a sum of natural numbers add up to no more than all.  *)
LEMMA TotalSuffix ==
  ASSUME NEW n \in Nat, NEW f \in [1 .. n -> Nat], NEW k \in 0 .. n,
         NEW g \in [1 .. n - k -> Nat], \A i \in 1 .. n - k : g[i] = f[k + i]
  PROVE  Total(g, n - k) <= Total(f, n)
<1>1. f \in [1 .. n -> Int] /\ g \in [1 .. n - k -> Int] /\ n - k \in Nat
  OBVIOUS
<1> DEFINE T == {i \in 0 .. n : 0 <= Total(f, i)}
           U == {i \in 0 .. n - k : Total(g, i) <= Total(f, k + i)}
<1>2. Inductive(T, n)
  <2>1. 0 \in T
    BY <1>1, TotalFacts
  <2>2. ASSUME NEW m \in 1 .. n, m - 1 \in T PROVE m \in T
    <3>1. m - 1 \in 0 .. n /\ m \in 0 .. n /\ f[m] \in Nat /\ 0 <= Total(f, m - 1)
      BY <2>2
    <3>2. Total(f, m) = Total(f, m - 1) + f[m] /\ Total(f, m - 1) \in Int
      BY <1>1, <3>1, TotalFacts
    <3>3. 0 <= Total(f, m)
      BY <3>1, <3>2
    <3> QED BY <3>1, <3>3
  <2> QED BY <2>1, <2>2 DEF Inductive
<1>3. k \in T
  <2> HIDE DEF T
  <2> QED BY <1>2, UpTo
<1>4. Inductive(U, n - k)
  <2>1. 0 \in U
    <3>1. Total(g, 0) = 0
      BY <1>1, TotalFacts
    <3>2. 0 <= Total(f, k) /\ k + 0 = k /\ 0 \in 0 .. n - k
      BY <1>3
    <3> QED BY <3>1, <3>2
  <2>2. ASSUME NEW m \in 1 .. n - k, m - 1 \in U PROVE m \in U
    <3> DEFINE j == k + m
    <3>1. /\ m - 1 \in 0 .. n - k /\ m \in 0 .. n - k /\ m \in 1 .. n - k
          /\ j \in 1 .. n /\ j - 1 \in 0 .. n /\ k + (m - 1) = j - 1
      OBVIOUS
    <3>2. Total(g, m) = Total(g, m - 1) + g[m] /\ Total(g, m - 1) \in Int
      BY <1>1, <3>1, TotalFacts
    <3>3. Total(g, m - 1) <= Total(f, j - 1)
      <4> HIDE DEF j
      <4> QED BY <2>2, <3>1
    <3>4. g[m] = f[j] /\ g[m] \in Nat
      OBVIOUS
    <3> HIDE DEF j
    <3>5. Total(f, j) = Total(f, j - 1) + f[j] /\ Total(f, j - 1) \in Int
      BY <1>1, <3>1, TotalFacts
    <3>6. Total(g, m) <= Total(f, j)
      BY <3>2, <3>3, <3>4, <3>5
    <3> QED BY <3>1, <3>6 DEF j
  <2> QED BY <2>1, <2>2 DEF Inductive
<1>5. n - k \in U
  <2> HIDE DEF U
  <2> QED BY <1>1, <1>4, UpTo
<1>6. k + (n - k) = n
  OBVIOUS
<1> QED BY <1>5, <1>6
-----------------------------------------------------------------------------
(* A sequence with v behind position p, and without position q. *)
Inserted(s, p, v) ==
  [i \in 1 .. Len(s) + 1 |-> IF i <= p THEN s[i] ELSE IF i = p + 1 THEN v ELSE s[i - 1]]
Dropped(s, q) == [i \in 1 .. Len(s) - 1 |-> IF i < q THEN s[i] ELSE s[i + 1]]

(* A sequence over fewer values is one over more. *)
LEMMA SeqWidens ==
  ASSUME NEW S, NEW T, S \subseteq T, NEW s \in Seq(S)
  PROVE  s \in Seq(T)
OBVIOUS

(* A function on the first numbers is a sequence. *)
LEMMA FunctionIsSeq ==
  ASSUME NEW S, NEW n \in Nat, NEW t \in [1 .. n -> S]
  PROVE  t \in Seq(S) /\ Len(t) = n
<1>1. t \in Seq(S)
  BY SeqDef
<1> QED BY <1>1, LenProperties

(* Both are sequences. *)
LEMMA InsertedFacts ==
  ASSUME NEW S, NEW s \in Seq(S), NEW p \in 0 .. Len(s), NEW v \in S
  PROVE  Inserted(s, p, v) \in Seq(S) /\ Len(Inserted(s, p, v)) = Len(s) + 1
<1> DEFINE t == Inserted(s, p, v)
<1>1. Len(s) \in Nat /\ p \in Nat /\ p <= Len(s)
  OBVIOUS
<1>2. ASSUME NEW i \in 1 .. Len(s) + 1 PROVE t[i] \in S
  <2>1. i <= p => s[i] \in S
    BY <1>1
  <2>2. i > p + 1 => s[i - 1] \in S
    BY <1>1
  <2> QED BY <1>1, <2>1, <2>2 DEF Inserted
<1>3. t \in [1 .. Len(s) + 1 -> S]
  BY <1>2 DEF Inserted
<1> HIDE DEF t
<1>4. t \in Seq(S) /\ Len(t) = Len(s) + 1
  BY <1>1, <1>3, FunctionIsSeq
<1> QED BY <1>4 DEF t

(* The same of the shorter one. *)
LEMMA DroppedFacts ==
  ASSUME NEW S, NEW s \in Seq(S), NEW q \in 1 .. Len(s)
  PROVE  Dropped(s, q) \in Seq(S) /\ Len(Dropped(s, q)) = Len(s) - 1
<1> DEFINE t == Dropped(s, q)
<1>1. Len(s) \in Nat /\ q \in Nat /\ q <= Len(s) /\ Len(s) - 1 \in Nat
  OBVIOUS
<1>2. ASSUME NEW i \in 1 .. Len(s) - 1 PROVE t[i] \in S
  <2>1. s[i] \in S /\ s[i + 1] \in S
    BY <1>1
  <2> QED BY <2>1 DEF Dropped
<1>3. t \in [1 .. Len(s) - 1 -> S]
  BY <1>2 DEF Dropped
<1> HIDE DEF t
<1>4. t \in Seq(S) /\ Len(t) = Len(s) - 1
  BY <1>1, <1>3, FunctionIsSeq
<1> QED BY <1>4 DEF t

(* A sequence with v behind it is the same as Append. *)
LEMMA AppendInserts ==
  ASSUME NEW S, NEW s \in Seq(S), NEW v \in S
  PROVE  Append(s, v) = Inserted(s, Len(s), v)
<1> DEFINE u == Append(s, v)
<1>1. Len(s) \in Nat /\ Len(s) \in 0 .. Len(s)
  OBVIOUS
<1>2. u \in Seq(S) /\ Len(u) = Len(s) + 1
  OBVIOUS
<1>3. \A i \in 1 .. Len(s) + 1 : u[i] = IF i <= Len(s) THEN s[i] ELSE v
  OBVIOUS
<1> HIDE DEF u
<1>4. ASSUME NEW i \in 1 .. Len(s) + 1
      PROVE  u[i] = Inserted(s, Len(s), v)[i]
  BY <1>1, <1>3 DEF Inserted
<1>5. /\ Inserted(s, Len(s), v) \in Seq(S)
      /\ Len(Inserted(s, Len(s), v)) = Len(s) + 1
  BY <1>1, InsertedFacts
<1>6. u = Inserted(s, Len(s), v)
  BY <1>2, <1>4, <1>5, SeqEqual
<1> QED BY <1>6 DEF u

(* A sequence with v in front. *)
LEMMA PrependInserts ==
  ASSUME NEW S, NEW s \in Seq(S), NEW v \in S
  PROVE  <<v>> \o s = Inserted(s, 0, v)
<1>1. <<v>> \in Seq(S) /\ Len(<<v>>) = 1 /\ <<v>>[1] = v
  OBVIOUS
<1>2. /\ <<v>> \o s \in Seq(S) /\ Len(<<v>> \o s) = Len(s) + 1
      /\ \A i \in 1 .. Len(s) + 1 : (<<v>> \o s)[i] = IF i <= 1 THEN v ELSE s[i - 1]
  BY <1>1
<1> QED BY <1>2 DEF Inserted

(* A sequence cut in two with v between. *)
LEMMA SubSeqsInsert ==
  ASSUME NEW S, NEW s \in Seq(S), NEW v \in S, NEW p \in 1 .. Len(s)
  PROVE  SubSeq(s, 1, p) \o <<v>> \o SubSeq(s, p + 1, Len(s)) = Inserted(s, p, v)
<1> DEFINE a == SubSeq(s, 1, p)
           b == SubSeq(s, p + 1, Len(s))
           t == a \o <<v>>
           u == t \o b
<1>1. Len(s) \in Nat /\ p \in Nat /\ p <= Len(s)
  OBVIOUS
<1>2. a \in Seq(S) /\ Len(a) = p /\ \A i \in 1 .. p : a[i] = s[i]
  BY <1>1, SubSeqProperties
<1>3. b \in Seq(S) /\ Len(b) = Len(s) - p /\ \A i \in 1 .. Len(s) - p : b[i] = s[p + i]
  BY <1>1, SubSeqProperties
<1>4. <<v>> \in Seq(S) /\ Len(<<v>>) = 1 /\ <<v>>[1] = v
  OBVIOUS
<1> HIDE DEF a, b
<1>5. /\ t \in Seq(S) /\ Len(t) = p + 1
      /\ \A i \in 1 .. p + 1 : t[i] = IF i <= p THEN s[i] ELSE v
  BY <1>1, <1>2, <1>4
<1> HIDE DEF t
<1>6. /\ u \in Seq(S) /\ Len(u) = Len(s) + 1
      /\ \A i \in 1 .. Len(s) + 1 : u[i] = IF i <= p + 1 THEN t[i] ELSE b[i - (p + 1)]
  <2>1. /\ u \in Seq(S) /\ Len(u) = Len(t) + Len(b)
        /\ \A i \in 1 .. Len(t) + Len(b) :
             u[i] = IF i <= Len(t) THEN t[i] ELSE b[i - Len(t)]
    BY <1>3, <1>5, ConcatProperties
  <2>2. Len(t) = p + 1 /\ Len(t) + Len(b) = Len(s) + 1
    BY <1>1, <1>3, <1>5
  <2> HIDE DEF u
  <2> QED BY <2>1, <2>2
<1> HIDE DEF u
<1>7. ASSUME NEW i \in 1 .. Len(s) + 1
      PROVE  u[i] = IF i <= p THEN s[i] ELSE IF i = p + 1 THEN v ELSE s[i - 1]
  <2>1. CASE i <= p + 1
    BY <1>1, <1>5, <1>6, <2>1
  <2>2. CASE i > p + 1
    <3>1. u[i] = b[i - (p + 1)]
      BY <1>1, <1>6, <2>2
    <3>2. i - (p + 1) \in 1 .. Len(s) - p /\ p + (i - (p + 1)) = i - 1
      BY <1>1, <2>2
    <3>3. u[i] = s[i - 1]
      BY <1>3, <3>1, <3>2
    <3>4. ~(i <= p) /\ i # p + 1
      BY <1>1, <2>2
    <3> QED BY <3>3, <3>4
  <2> QED BY <1>1, <2>1, <2>2
<1>8. u = Inserted(s, p, v)
  BY <1>6, <1>7 DEF Inserted
<1> QED BY <1>8 DEF u, t, a, b

(* A sequence cut in two without q. *)
LEMMA SubSeqsDrop ==
  ASSUME NEW S, NEW s \in Seq(S), NEW q \in 1 .. Len(s)
  PROVE  SubSeq(s, 1, q - 1) \o SubSeq(s, q + 1, Len(s)) = Dropped(s, q)
<1> DEFINE a == SubSeq(s, 1, q - 1)
           b == SubSeq(s, q + 1, Len(s))
           u == a \o b
<1>1. Len(s) \in Nat /\ q \in Nat /\ 1 <= q /\ q <= Len(s)
  OBVIOUS
<1>2. a \in Seq(S) /\ Len(a) = q - 1 /\ \A i \in 1 .. q - 1 : a[i] = s[i]
  BY <1>1, SubSeqProperties
<1>3. b \in Seq(S) /\ Len(b) = Len(s) - q /\ \A i \in 1 .. Len(s) - q : b[i] = s[q + i]
  BY <1>1, SubSeqProperties
<1> HIDE DEF a, b
<1>4. /\ u \in Seq(S) /\ Len(u) = Len(s) - 1
      /\ \A i \in 1 .. Len(s) - 1 : u[i] = IF i <= q - 1 THEN a[i] ELSE b[i - (q - 1)]
  <2>1. /\ u \in Seq(S) /\ Len(u) = Len(a) + Len(b)
        /\ \A i \in 1 .. Len(a) + Len(b) :
             u[i] = IF i <= Len(a) THEN a[i] ELSE b[i - Len(a)]
    BY <1>2, <1>3, ConcatProperties
  <2>2. Len(a) = q - 1 /\ Len(a) + Len(b) = Len(s) - 1
    BY <1>1, <1>2, <1>3
  <2> HIDE DEF u
  <2> QED BY <2>1, <2>2
<1> HIDE DEF u
<1>5. ASSUME NEW i \in 1 .. Len(s) - 1
      PROVE  u[i] = IF i < q THEN s[i] ELSE s[i + 1]
  <2>1. CASE i < q
    BY <1>1, <1>2, <1>4, <2>1
  <2>2. CASE i >= q
    <3>1. u[i] = b[i - (q - 1)] /\ i - (q - 1) \in 1 .. Len(s) - q
      <4>1. i \in Nat /\ ~(i <= q - 1)
        BY <1>1, <2>2
      <4>2. u[i] = b[i - (q - 1)]
        BY <1>4, <4>1
      <4>3. i - (q - 1) \in 1 .. Len(s) - q
        BY <1>1, <2>2
      <4> QED BY <4>2, <4>3
    <3> QED BY <1>1, <1>3, <2>2, <3>1
  <2> QED BY <1>1, <2>1, <2>2
<1>6. u = Dropped(s, q)
  BY <1>4, <1>5 DEF Dropped
<1> QED BY <1>6 DEF u, a, b

(* The first k of a sequence. *)
LEMMA FrontFacts ==
  ASSUME NEW S, NEW s \in Seq(S), NEW k \in 0 .. Len(s)
  PROVE  /\ SubSeq(s, 1, k) \in Seq(S) /\ Len(SubSeq(s, 1, k)) = k
         /\ \A i \in 1 .. k : SubSeq(s, 1, k)[i] = s[i]
         /\ k = Len(s) => SubSeq(s, 1, k) = s
<1>1. Len(s) \in Nat /\ k \in Nat /\ k <= Len(s)
  OBVIOUS
<1>2. /\ SubSeq(s, 1, k) \in Seq(S) /\ Len(SubSeq(s, 1, k)) = k
      /\ \A i \in 1 .. k : SubSeq(s, 1, k)[i] = s[i]
  BY <1>1, SubSeqProperties
<1>3. k = Len(s) => SubSeq(s, 1, k) = s
  BY <1>2, SeqEqual
<1> QED BY <1>2, <1>3

(* An insertion among the first k shows in the first k + 1. *)
LEMMA FrontInserted ==
  ASSUME NEW S, NEW s \in Seq(S), NEW k \in 0 .. Len(s), NEW v \in S, NEW p \in 0 .. k
  PROVE  SubSeq(Inserted(s, p, v), 1, k + 1) = Inserted(SubSeq(s, 1, k), p, v)
<1> DEFINE e == SubSeq(s, 1, k)
           t == Inserted(s, p, v)
           a == SubSeq(t, 1, k + 1)
           b == Inserted(e, p, v)
<1>1. Len(s) \in Nat /\ k \in Nat /\ k <= Len(s) /\ p \in Nat /\ p <= k /\ p \in 0 .. Len(s)
  OBVIOUS
<1>2. e \in Seq(S) /\ Len(e) = k /\ \A i \in 1 .. k : e[i] = s[i]
  BY FrontFacts
<1>3. t \in Seq(S) /\ Len(t) = Len(s) + 1
  BY <1>1, InsertedFacts
<1>4. \A i \in 1 .. Len(s) + 1 : t[i] = IF i <= p THEN s[i] ELSE IF i = p + 1 THEN v ELSE s[i - 1]
  BY DEF Inserted
<1> HIDE DEF e, t
<1>5. b \in Seq(S) /\ Len(b) = k + 1
  BY <1>1, <1>2, InsertedFacts
<1>6. \A i \in 1 .. k + 1 : b[i] = IF i <= p THEN e[i] ELSE IF i = p + 1 THEN v ELSE e[i - 1]
  BY <1>2 DEF Inserted
<1>7. a \in Seq(S) /\ Len(a) = k + 1 /\ \A i \in 1 .. k + 1 : a[i] = t[i]
  <2>1. k + 1 \in 0 .. Len(t)
    BY <1>1, <1>3
  <2> QED BY <1>3, <2>1, FrontFacts
<1> HIDE DEF a, b
<1>8. ASSUME NEW i \in 1 .. k + 1 PROVE a[i] = b[i]
  <2>1. i \in 1 .. Len(s) + 1 /\ (i <= p => i \in 1 .. k) /\ (~(i <= p) /\ i # p + 1 => i - 1 \in 1 .. k)
    BY <1>1
  <2> QED BY <1>2, <1>4, <1>6, <1>7, <2>1
<1>9. a = b
  BY <1>5, <1>7, <1>8, SeqEqual
<1> QED BY <1>9 DEF a, b, e, t

(* A removal among the first k shows in the first k - 1. *)
LEMMA FrontDropped ==
  ASSUME NEW S, NEW s \in Seq(S), NEW k \in 0 .. Len(s), NEW q \in 1 .. k
  PROVE  SubSeq(Dropped(s, q), 1, k - 1) = Dropped(SubSeq(s, 1, k), q)
<1> DEFINE e == SubSeq(s, 1, k)
           t == Dropped(s, q)
           a == SubSeq(t, 1, k - 1)
           b == Dropped(e, q)
<1>1. /\ Len(s) \in Nat /\ k \in Nat /\ k <= Len(s) /\ q \in Nat /\ 1 <= q /\ q <= k
      /\ q \in 1 .. Len(s) /\ k - 1 \in Nat
  OBVIOUS
<1>2. e \in Seq(S) /\ Len(e) = k /\ \A i \in 1 .. k : e[i] = s[i]
  BY FrontFacts
<1>3. t \in Seq(S) /\ Len(t) = Len(s) - 1
  BY <1>1, DroppedFacts
<1>4. \A i \in 1 .. Len(s) - 1 : t[i] = IF i < q THEN s[i] ELSE s[i + 1]
  BY DEF Dropped
<1> HIDE DEF e, t
<1>5. b \in Seq(S) /\ Len(b) = k - 1
  BY <1>1, <1>2, DroppedFacts
<1>6. \A i \in 1 .. k - 1 : b[i] = IF i < q THEN e[i] ELSE e[i + 1]
  BY <1>2 DEF Dropped
<1>7. a \in Seq(S) /\ Len(a) = k - 1 /\ \A i \in 1 .. k - 1 : a[i] = t[i]
  <2>1. k - 1 \in 0 .. Len(t)
    BY <1>1, <1>3
  <2> QED BY <1>3, <2>1, FrontFacts
<1> HIDE DEF a, b
<1>8. ASSUME NEW i \in 1 .. k - 1 PROVE a[i] = b[i]
  <2>1. i \in 1 .. Len(s) - 1 /\ i \in 1 .. k /\ i + 1 \in 1 .. k
    BY <1>1
  <2> QED BY <1>2, <1>4, <1>6, <1>7, <2>1
<1>9. a = b
  BY <1>5, <1>7, <1>8, SeqEqual
<1> QED BY <1>9 DEF a, b, e, t

(* What is left of a sequence without its last is the sequence one shorter.*)
LEMMA LastDropped ==
  ASSUME NEW S, NEW s \in Seq(S), Len(s) # 0
  PROVE  Dropped(s, Len(s)) = SubSeq(s, 1, Len(s) - 1)
<1>1. Len(s) \in Nat /\ Len(s) \in 1 .. Len(s) /\ Len(s) - 1 \in 0 .. Len(s)
  OBVIOUS
<1> DEFINE b == Dropped(s, Len(s))
           a == SubSeq(s, 1, Len(s) - 1)
<1>2. b \in Seq(S) /\ Len(b) = Len(s) - 1
  BY <1>1, DroppedFacts
<1>3. a \in Seq(S) /\ Len(a) = Len(s) - 1 /\ \A i \in 1 .. Len(s) - 1 : a[i] = s[i]
  BY <1>1, FrontFacts
<1>4. \A i \in 1 .. Len(s) - 1 : b[i] = s[i]
  BY <1>1 DEF Dropped
<1> HIDE DEF a, b
<1>5. a = b
  BY <1>2, <1>3, <1>4, SeqEqual
<1> QED BY <1>5 DEF a, b
=============================================================================
