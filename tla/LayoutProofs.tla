---------------------------- MODULE LayoutProofs ----------------------------
(***************************************************************************)
(* What holds of a moved object for every width of the fields, every       *)
(* layout, every set of addresses and any number of moves.                 *)
(*                                                                         *)
(* The argument about layouts goes through the set of the bits that stand  *)
(* for pointers, StarBits: the word made of a string has just these bits   *)
(* (WordOfString), and the string made of a word has a pointer at each of  *)
(* them (StringOfWord).                                                    *)
(***************************************************************************)
EXTENDS Layout, HeaderWordProofs, InductionProofs, FiniteSetTheorems

-----------------------------------------------------------------------------
(* Words, and the masks they are made with.                                *)

(* The spans of the parts of a word. *)
LEMMA WordFacts ==
  /\ SizeUnit \in Nat \ {0} /\ WordSpan \in Nat \ {0}
  /\ \A s \in 0 .. SizeMod - 1, low \in 0 .. SizeUnit - 1 : s * SizeUnit + low \in Word
  /\ \A a \in Word : set_header_forward_address(a) \in Word
<1> USE HeaderWordAssumption
<1>1. SizeUnit \in Nat \ {0} /\ SizeUnit = 4 * LayoutSpan
  BY DEF SizeUnit
<1>2. WordSpan \in Nat \ {0}
  BY <1>1 DEF WordSpan
<1>3. ASSUME NEW s \in 0 .. SizeMod - 1, NEW low \in 0 .. SizeUnit - 1
      PROVE  s * SizeUnit + low \in Word
  <2> DEFINE u == SizeUnit
             d == SizeMod - 1 - s
  <2>1. u \in Nat /\ d \in Nat /\ low \in 0 .. u - 1 /\ s \in Nat
    BY <1>1
  <2>2. WordSpan = (s + (d + 1)) * u
    BY DEF WordSpan
  <2> HIDE DEF u, d
  <2>3. (s + (d + 1)) * u = s * u + (d * u + u)
    BY <2>1
  <2>4. s * u \in Nat /\ d * u \in Nat
    BY <2>1
  <2>5. s * u + low \in 0 .. WordSpan - 1
    BY <2>1, <2>2, <2>3, <2>4
  <2> QED BY <2>5 DEF Word, u
<1>4. ASSUME NEW a \in Word PROVE set_header_forward_address(a) \in Word
  <2> DEFINE q == SizeMod * LayoutSpan
  <2>1. q \in Nat /\ WordSpan = 4 * q
    BY <1>1 DEF WordSpan
  <2> HIDE DEF q
  <2>2. a \in 0 .. 4 * q - 1
    BY <2>1 DEF Word
  <2>3. 4 * (a \div 4) + 1 \in 0 .. 4 * q - 1
    BY <2>1, <2>2
  <2> QED BY <2>1, <2>3 DEF Word, set_header_forward_address, FORWARDING_ADDRESS
<1> QED BY <1>1, <1>2, <1>3, <1>4

(* The masks: one_bit[i] is 2 ^ i. *)
LEMMA OneBit ==
  /\ one_bit[0] = 1
  /\ \A i \in 0 .. MaxLayoutBits : one_bit[i] \in Nat \ {0}
  /\ \A i \in 1 .. MaxLayoutBits : one_bit[i] = 2 * one_bit[i - 1]
<1> DEFINE M == MaxLayoutBits
           Bits(f) == f = [i \in 0 .. M |-> IF i = 0 THEN 1 ELSE 2 * f[i - 1]]
           step == [v \in (Nat \ {0}) \X (1 .. M) |-> 2 * v[1]]
<1>1. M \in Nat
  BY LayoutAssumption
<1>2. step \in [(Nat \ {0}) \X (1 .. M) -> Nat \ {0}] /\ 1 \in Nat \ {0}
  OBVIOUS
<1>3. PICK f \in [0 .. M -> Nat \ {0}] : Loop(f, 1, step, M)
  <2> HIDE DEF step, M
  <2> QED BY <1>1, <1>2, LoopExists
<1> HIDE DEF M
<1>4. ASSUME NEW i \in 1 .. M PROVE f[i] = 2 * f[i - 1]
  <2>1. f[i] = step[<<f[i - 1], i>>] /\ f[i - 1] \in Nat \ {0}
    <3> HIDE DEF step
    <3>1. i - 1 \in 0 .. M
      BY <1>1
    <3> QED BY <1>3, <3>1 DEF Loop
  <2>2. <<f[i - 1], i>> \in (Nat \ {0}) \X (1 .. M)
    BY <2>1
  <2> QED BY <2>1, <2>2
<1>5. f[0] = 1
  BY <1>3 DEF Loop
<1>6. Bits(f)
  <2>1. ASSUME NEW i \in 0 .. M PROVE f[i] = IF i = 0 THEN 1 ELSE 2 * f[i - 1]
    BY <1>1, <1>4, <1>5
  <2> QED BY <2>1, Zenon
<1>7. one_bit = CHOOSE g : Bits(g)
  BY Zenon DEF one_bit, M
<1>8. Bits(one_bit)
  BY <1>6, <1>7, Zenon
<1> DEFINE P == one_bit
<1>9. \A i \in 0 .. M : P[i] = IF i = 0 THEN 1 ELSE 2 * P[i - 1]
  BY <1>8, Zenon
<1> HIDE DEF P
<1>10. P[0] = 1 /\ \A i \in 1 .. M : P[i] = 2 * P[i - 1]
  <2>1. ASSUME NEW i \in 1 .. M PROVE P[i] = 2 * P[i - 1]
    <3>1. i \in 0 .. M /\ i # 0
      OBVIOUS
    <3> QED BY <1>9, <3>1
  <2>2. 0 \in 0 .. M
    BY <1>1
  <2> QED BY <1>9, <2>1, <2>2
<1> DEFINE T == {i \in 0 .. M : P[i] \in Nat \ {0}}
<1>11. Inductive(T, M)
  <2>1. 0 \in T
    BY <1>1, <1>10
  <2>2. ASSUME NEW m \in 1 .. M, m - 1 \in T PROVE m \in T
    <3>1. P[m] = 2 * P[m - 1] /\ m \in 0 .. M
      BY <1>10
    <3>2. P[m - 1] \in Nat \ {0}
      BY <2>2
    <3>3. P[m] \in Nat \ {0}
      BY <3>1, <3>2
    <3> QED BY <3>1, <3>3
  <2> QED BY <2>1, <2>2 DEF Inductive
<1>12. \A i \in 0 .. M : i \in T
  <2> HIDE DEF T
  <2> QED BY <1>1, <1>11, UpTo
<1> QED BY <1>10, <1>12 DEF P, M

-----------------------------------------------------------------------------
(* Counting.                                                               *)

(* How many of the numbers from a to n are in C.                           *)
Between(a, n, C) == Cardinality({i \in a .. n : i \in C})

(* One more number counts if it has the property. *)
LEMMA CountStep ==
  ASSUME NEW a \in Int, NEW n \in Int, a <= n + 1, NEW C
  PROVE  /\ Between(a, n, C) \in Nat
         /\ Between(a, n + 1, C) = Between(a, n, C) + (IF n + 1 \in C THEN 1 ELSE 0)
<1> USE DEF Between
<1> DEFINE S == {i \in a .. n : i \in C}
           R == {i \in a .. n + 1 : i \in C}
<1>1. IsFiniteSet(S)
  <2>1. IsFiniteSet(a .. n) /\ S \in SUBSET (a .. n)
    BY FS_Interval
  <2> HIDE DEF S
  <2> QED BY <2>1, FS_Subset
<1>2. n + 1 \notin S
  OBVIOUS
<1>3. CASE n + 1 \in C
  <2>1. R = S \cup {n + 1}
    BY <1>3
  <2> HIDE DEF S, R
  <2>2. Cardinality(S \cup {n + 1}) = Cardinality(S) + 1
    BY <1>1, <1>2, FS_AddElement
  <2> QED BY <1>1, <1>3, <2>1, <2>2, FS_CardinalityType DEF S, R
<1>4. CASE n + 1 \notin C
  <2>1. R = S
    BY <1>4
  <2>2. Cardinality(S) \in Nat
    <3> HIDE DEF S
    <3> QED BY <1>1, FS_CardinalityType
  <2>3. Cardinality(R) = Cardinality(S)
    BY <2>1
  <2> HIDE DEF S, R
  <2>4. Cardinality(R) = Cardinality(S) + 0
    BY <2>2, <2>3
  <2> QED BY <1>1, <1>4, <2>2, <2>4 DEF S, R
<1> QED BY <1>3, <1>4

(* Among counts letter by letter. *)
LetterByLetter(str, S) ==
  /\ Among(str, 0, S) = 0
  /\ \A n \in Nat : /\ Among(str, n, S) \in Nat
                    /\ Among(str, n + 1, S)
                         = Among(str, n, S) + (IF str[n + 1] \in S THEN 1 ELSE 0)

(* The letters of a set among the first n + 1 letters.                     *)
LEMMA AmongStep ==
  ASSUME NEW str, NEW S
  PROVE  LetterByLetter(str, S)
<1> USE DEF LetterByLetter
<1>1. Among(str, 0, S) = 0
  <2>1. {i \in 1 .. 0 : str[i] \in S} = {}
    OBVIOUS
  <2> QED BY <2>1, FS_EmptySet DEF Among
<1>2. ASSUME NEW n \in Nat
      PROVE  /\ Among(str, n, S) \in Nat
             /\ Among(str, n + 1, S) = Among(str, n, S) + (IF str[n + 1] \in S THEN 1 ELSE 0)
  <2> DEFINE C == {i \in 1 .. n + 1 : str[i] \in S}
  <2>1. /\ {i \in 1 .. n : i \in C} = {i \in 1 .. n : str[i] \in S}
        /\ {i \in 1 .. n + 1 : i \in C} = {i \in 1 .. n + 1 : str[i] \in S}
        /\ n + 1 \in C <=> str[n + 1] \in S
    OBVIOUS
  <2>2. 1 \in Int /\ n \in Int /\ 1 <= n + 1
    OBVIOUS
  <2> HIDE DEF C
  <2>3. /\ Between(1, n, C) \in Nat
        /\ Between(1, n + 1, C) = Between(1, n, C) + (IF n + 1 \in C THEN 1 ELSE 0)
    BY <2>2, CountStep
  <2>4. Among(str, n, S) = Between(1, n, C)
    BY <2>1, Zenon DEF Among, Between
  <2>5. Among(str, n + 1, S) = Between(1, n + 1, C)
    BY <2>1, Zenon DEF Among, Between
  <2> QED BY <2>1, <2>3, <2>4, <2>5
<1> QED BY <1>1, <1>2

-----------------------------------------------------------------------------
(* The bits of a string.                                                   *)

(* How many bits the first k letters of s take. *)
End(s, k) == k + Among(s, k, {"l", "d"})

(* The bits of its pointers. *)
StarBits(s) == {End(s, k - 1) : k \in {i \in DOMAIN s : s[i] = "*"}}

Stars(s, k) == Among(s, k, {"*"})

(* The bits after one more letter. *)
LEMMA EndStep ==
  ASSUME NEW s
  PROVE  /\ End(s, 0) = 0
         /\ \A k \in Nat : /\ End(s, k) \in Nat
                           /\ End(s, k + 1) = End(s, k) + (IF s[k + 1] \in {"l", "d"} THEN 2 ELSE 1)
<1> DEFINE S == {"l", "d"}
<1> HIDE DEF S
<1>0. LetterByLetter(s, S)
  BY AmongStep
<1>1. Among(s, 0, S) = 0
  BY <1>0 DEF LetterByLetter
<1>2. ASSUME NEW k \in Nat
      PROVE  /\ Among(s, k, S) \in Nat
             /\ Among(s, k + 1, S) = Among(s, k, S) + (IF s[k + 1] \in S THEN 1 ELSE 0)
  BY <1>0 DEF LetterByLetter
<1>3. \A k \in Nat : End(s, k) = k + Among(s, k, S)
  BY DEF End, S
<1>4. ASSUME NEW k \in Nat
      PROVE  /\ End(s, k) \in Nat
             /\ End(s, k + 1) = End(s, k) + (IF s[k + 1] \in S THEN 2 ELSE 1)
  <2>1. k + 1 \in Nat
    OBVIOUS
  <2> QED BY <1>2, <1>3, <2>1
<1> QED BY <1>1, <1>3, <1>4 DEF S

(* Every letter takes a bit, and some take two. *)
LEMMA EndMonotone ==
  ASSUME NEW s, NEW j \in Nat, NEW k \in Nat, j <= k
  PROVE  End(s, k) - End(s, j) >= k - j
<1> DEFINE T == {i \in 0 .. k - j : End(s, j + i) - End(s, j) >= i}
<1>1. End(s, j) \in Nat
  BY EndStep
<1>2. 0 \in T
  BY <1>1
<1>3. ASSUME NEW m \in 1 .. k - j, m - 1 \in T PROVE m \in T
  <2> DEFINE i == j + (m - 1)
  <2>1. i \in Nat /\ i + 1 = j + m
    OBVIOUS
  <2>2. End(s, i) - End(s, j) >= m - 1
    BY <1>3
  <2> HIDE DEF i
  <2>3. End(s, i) \in Nat /\ End(s, i + 1) = End(s, i) + (IF s[i + 1] \in {"l", "d"} THEN 2 ELSE 1)
    BY <2>1, EndStep
  <2>4. End(s, i + 1) >= End(s, i) + 1
    BY <2>3
  <2>5. End(s, i + 1) - End(s, j) >= m
    <3>1. End(s, i + 1) \in Int
      BY <2>3
    <3> QED BY <1>1, <2>2, <2>3, <2>4, <3>1
  <2> QED BY <2>1, <2>5
<1>4. k - j \in T
  <2> HIDE DEF T
  <2>1. Inductive(T, k - j) /\ k - j \in Nat
    BY <1>2, <1>3 DEF Inductive
  <2> QED BY <2>1, UpTo
<1>5. j + (k - j) = k
  OBVIOUS
<1> QED BY <1>4, <1>5

(* A letter's first bit is that of a pointer or not, and its second never. *)
LEMMA StarBitsFacts ==
  ASSUME NEW s, NEW n \in Nat, DOMAIN s = 1 .. n
  PROVE  /\ \A b \in StarBits(s) : b \in 0 .. End(s, n) - 1
         /\ \A k \in Nat : k + 1 \in 1 .. n =>
              /\ End(s, k) \in StarBits(s) <=> s[k + 1] = "*"
              /\ s[k + 1] \in {"l", "d"} => End(s, k) + 1 \notin StarBits(s)
<1>1. ASSUME NEW b \in StarBits(s) PROVE \E i \in Nat : i + 1 \in 1 .. n /\ s[i + 1] = "*" /\ b = End(s, i)
  <2>1. PICK k \in 1 .. n : s[k] = "*" /\ b = End(s, k - 1)
    BY <1>1 DEF StarBits
  <2>2. PICK i \in Nat : k = i + 1 /\ k - 1 = i
    <3>1. k - 1 \in Nat /\ k = (k - 1) + 1
      OBVIOUS
    <3> QED BY <3>1
  <2> QED BY <2>1, <2>2
<1>2. ASSUME NEW i \in Nat, i + 1 \in 1 .. n, s[i + 1] = "*" PROVE End(s, i) \in StarBits(s)
  <2>1. (i + 1) - 1 = i
    OBVIOUS
  <2>2. i + 1 \in {m \in DOMAIN s : s[m] = "*"}
    BY <1>2
  <2> QED BY <2>1, <2>2 DEF StarBits
<1>3. ASSUME NEW b \in StarBits(s) PROVE b \in 0 .. End(s, n) - 1
  <2>1. PICK i \in Nat : i + 1 \in 1 .. n /\ b = End(s, i)
    BY <1>1
  <2>2. i <= n
    BY <2>1
  <2>3. End(s, n) - End(s, i) >= n - i /\ End(s, i) \in Nat /\ End(s, n) \in Nat
    BY <2>2, EndMonotone, EndStep
  <2> QED BY <2>1, <2>3
<1>4. ASSUME NEW k \in Nat, k + 1 \in 1 .. n, s[k + 1] # "*" PROVE End(s, k) \notin StarBits(s)
  <2> SUFFICES ASSUME End(s, k) \in StarBits(s) PROVE FALSE
    OBVIOUS
  <2>1. PICK i \in Nat : i + 1 \in 1 .. n /\ s[i + 1] = "*" /\ End(s, k) = End(s, i)
    BY <1>1
  <2>2. End(s, i) \in Nat /\ End(s, k) \in Nat
    BY EndStep
  <2>3. i <= k => i = k
    BY <2>1, <2>2, EndMonotone
  <2>4. k <= i => i = k
    BY <2>1, <2>2, EndMonotone
  <2> QED BY <1>4, <2>1, <2>3, <2>4
<1>5. ASSUME NEW k \in Nat, k + 1 \in 1 .. n, s[k + 1] \in {"l", "d"}
      PROVE  End(s, k) + 1 \notin StarBits(s)
  <2> SUFFICES ASSUME End(s, k) + 1 \in StarBits(s) PROVE FALSE
    OBVIOUS
  <2>1. PICK i \in Nat : End(s, k) + 1 = End(s, i)
    BY <1>1
  <2>2. End(s, i) \in Nat /\ End(s, k) \in Nat /\ End(s, k + 1) = End(s, k) + 2
    BY <1>5, EndStep
  <2>3. CASE i <= k
    <3>1. End(s, k) - End(s, i) >= k - i
      BY <2>3, EndMonotone
    <3> QED BY <2>1, <2>2, <2>3, <3>1
  <2>4. CASE k + 1 <= i
    <3>1. End(s, i) - End(s, k + 1) >= i - (k + 1)
      <4>1. k + 1 \in Nat
        OBVIOUS
      <4> QED BY <2>4, <4>1, EndMonotone
    <3> QED BY <2>1, <2>2, <2>4, <3>1
  <2> QED BY <2>3, <2>4
<1> QED BY <1>2, <1>3, <1>4, <1>5

(* Of the bits of the first k letters, as many are set as there are        *)
(* pointers among them.                                                    *)
LEMMA StarsAreOnes ==
  ASSUME NEW s, NEW n \in Nat, DOMAIN s = 1 .. n, NEW k \in 0 .. n
  PROVE  Between(0, End(s, k) - 1, StarBits(s)) = Stars(s, k)
<1> DEFINE B == StarBits(s)
           E(i) == End(s, i)
           T == {i \in 0 .. n : Between(0, E(i) - 1, B) = Stars(s, i)}
<1>0. LetterByLetter(s, {"*"})
  BY AmongStep
<1>1. 0 \in T
  <2>1. E(0) = 0 /\ Stars(s, 0) = 0
    BY <1>0, EndStep DEF Stars, LetterByLetter
  <2>2. {i \in 0 .. E(0) - 1 : i \in B} = {}
    BY <2>1
  <2>3. Between(0, E(0) - 1, B) = 0
    BY <2>2, FS_EmptySet DEF Between
  <2> QED BY <2>1, <2>3
<1>2. ASSUME NEW m \in 1 .. n, m - 1 \in T PROVE m \in T
  <2>1. PICK i \in Nat : m = i + 1 /\ m - 1 = i
    <3>1. m - 1 \in Nat /\ m = (m - 1) + 1
      OBVIOUS
    <3> QED BY <3>1
  <2> DEFINE c == s[i + 1]
  <2> HIDE DEF B
  <2>2. Between(0, E(i) - 1, B) = Stars(s, i)
    BY <1>2, <2>1
  <2>3. /\ E(i) \in Nat
        /\ E(i + 1) = E(i) + (IF c \in {"l", "d"} THEN 2 ELSE 1)
        /\ Stars(s, i) \in Nat
        /\ Stars(s, i + 1) = Stars(s, i) + (IF c = "*" THEN 1 ELSE 0)
    <3>1. Stars(s, i + 1) = Stars(s, i) + (IF c \in {"*"} THEN 1 ELSE 0)
      BY <1>0 DEF Stars, LetterByLetter
    <3>2. c \in {"*"} <=> c = "*"
      OBVIOUS
    <3> HIDE DEF c
    <3> QED BY <1>0, <3>1, <3>2, EndStep DEF Stars, c, LetterByLetter
  <2>4. /\ E(i) \in B <=> c = "*"
        /\ c \in {"l", "d"} => E(i) + 1 \notin B
    BY <2>1, StarBitsFacts DEF B
  <2> DEFINE e == End(s, i)
  <2>5. e \in Nat /\ e = E(i)
    BY <2>3
  <2>6. c \in {"l", "d"} => c # "*"
    OBVIOUS
  <2> HIDE DEF e, c
  <2>7. Between(0, e, B) = Stars(s, i) + (IF c = "*" THEN 1 ELSE 0)
    <3>1. 0 \in Int /\ e - 1 \in Int /\ 0 <= (e - 1) + 1 /\ (e - 1) + 1 = e
      BY <2>5
    <3>2. Between(0, (e - 1) + 1, B) = Between(0, e - 1, B) + (IF (e - 1) + 1 \in B THEN 1 ELSE 0)
      BY <3>1, CountStep
    <3>3. Between(0, e, B) = Between(0, e - 1, B) + (IF e \in B THEN 1 ELSE 0)
      BY <3>1, <3>2
    <3>4. Between(0, e - 1, B) = Stars(s, i)
      BY <2>2, <2>5
    <3>5. e \in B <=> c = "*"
      BY <2>4, <2>5
    <3> QED BY <3>3, <3>4, <3>5
  <2>8. Between(0, E(i + 1) - 1, B) = Stars(s, i + 1)
    <3>1. CASE c \in {"l", "d"}
      <4>1. E(i + 1) - 1 = e + 1
        BY <2>3, <2>5, <3>1
      <4>2. 0 \in Int /\ e \in Int /\ 0 <= e + 1
        BY <2>5
      <4>3. Between(0, e + 1, B) = Between(0, e, B) + (IF e + 1 \in B THEN 1 ELSE 0) /\ Between(0, e, B) \in Nat
        BY <4>2, CountStep
      <4>4. e + 1 \notin B
        BY <2>4, <2>5, <3>1
      <4>5. Between(0, e + 1, B) = Between(0, e, B)
        BY <4>3, <4>4
      <4>6. Stars(s, i + 1) = Stars(s, i) /\ Between(0, e, B) = Stars(s, i)
        BY <2>3, <2>6, <2>7, <3>1
      <4> QED BY <4>1, <4>5, <4>6
    <3>2. CASE c \notin {"l", "d"}
      <4>1. E(i + 1) - 1 = e
        BY <2>3, <2>5, <3>2
      <4> QED BY <2>3, <2>7, <4>1
    <3> QED BY <3>1, <3>2
  <2> QED BY <2>1, <2>8
<1>3. k \in T
  <2> HIDE DEF T
  <2>1. Inductive(T, n)
    BY <1>1, <1>2 DEF Inductive
  <2> QED BY <2>1, UpTo
<1> QED BY <1>3

(* Letters of eight bytes are pointers and letters of two bits.            *)
LEMMA EightBytes ==
  ASSUME NEW s, NEW k \in Nat
  PROVE  k + Among(s, k, {"*", "l", "d"}) = End(s, k) + Stars(s, k)
<1> DEFINE A(i) == Among(s, i, {"*", "l", "d"})
           W(i) == Among(s, i, {"l", "d"})
           T == {i \in 0 .. k : A(i) = W(i) + Stars(s, i)}
<1>0. /\ LetterByLetter(s, {"*", "l", "d"})
      /\ LetterByLetter(s, {"l", "d"})
      /\ LetterByLetter(s, {"*"})
  BY AmongStep
<1>1. 0 \in T
  <2>1. A(0) = 0 /\ W(0) = 0 /\ Stars(s, 0) = 0
    BY <1>0 DEF Stars, LetterByLetter
  <2> QED BY <2>1
<1>2. ASSUME NEW m \in 1 .. k, m - 1 \in T PROVE m \in T
  <2>1. PICK i \in Nat : m = i + 1 /\ m - 1 = i
    <3>1. m - 1 \in Nat /\ m = (m - 1) + 1
      OBVIOUS
    <3> QED BY <3>1
  <2> DEFINE c == s[i + 1]
  <2>2. A(i) \in Nat /\ A(i + 1) = A(i) + (IF c \in {"*", "l", "d"} THEN 1 ELSE 0)
    BY <1>0 DEF LetterByLetter
  <2>3. W(i) \in Nat /\ W(i + 1) = W(i) + (IF c \in {"l", "d"} THEN 1 ELSE 0)
    BY <1>0 DEF LetterByLetter
  <2>4. Stars(s, i) \in Nat /\ Stars(s, i + 1) = Stars(s, i) + (IF c \in {"*"} THEN 1 ELSE 0)
    BY <1>0 DEF Stars, LetterByLetter
  <2>5. A(i) = W(i) + Stars(s, i)
    BY <1>2, <2>1
  <2> HIDE DEF c
  <2>6. A(i + 1) = W(i + 1) + Stars(s, i + 1)
    <3> HIDE DEF A, W
    <3>1. CASE c \in {"*"}
      <4>1. c \in {"*", "l", "d"} /\ c \notin {"l", "d"}
        BY <3>1
      <4> QED BY <2>2, <2>3, <2>4, <2>5, <3>1, <4>1
    <3>2. CASE c \in {"l", "d"}
      <4>1. c \in {"*", "l", "d"} /\ c \notin {"*"}
        BY <3>2
      <4> QED BY <2>2, <2>3, <2>4, <2>5, <3>2, <4>1
    <3>3. CASE c \notin {"*", "l", "d"}
      <4>1. c \notin {"*"} /\ c \notin {"l", "d"}
        BY <3>3
      <4> QED BY <2>2, <2>3, <2>4, <2>5, <3>3, <4>1
    <3> QED BY <3>1, <3>2, <3>3
  <2> QED BY <2>1, <2>6
<1>3. k \in T
  <2> HIDE DEF T
  <2>1. Inductive(T, k)
    BY <1>1, <1>2 DEF Inductive
  <2> QED BY <2>1, UpTo
<1>4. W(k) \in Nat /\ Stars(s, k) \in Nat
  BY <1>0 DEF Stars, LetterByLetter
<1> QED BY <1>3, <1>4 DEF End

-----------------------------------------------------------------------------
(* The word of a string.                                                   *)

(* The word whose first i bits from the left are those of B has value v[i]. *)
Horner(v, B) ==
  /\ v \in [0 .. MaxLayoutBits -> Nat]
  /\ v[0] = 0
  /\ \A i \in 1 .. MaxLayoutBits : v[i] = 2 * v[i - 1] + (IF i - 1 \in B THEN 1 ELSE 0)

(* Every set of bits has such words. *)
LEMMA HornerExists == ASSUME NEW B PROVE \E v : Horner(v, B)
<1> DEFINE M == MaxLayoutBits
           step == [p \in Nat \X (1 .. M) |-> 2 * p[1] + (IF p[2] - 1 \in B THEN 1 ELSE 0)]
<1>1. M \in Nat /\ 0 \in Nat
  BY LayoutAssumption
<1>2. step \in [Nat \X (1 .. M) -> Nat]
  OBVIOUS
<1>3. PICK v \in [0 .. M -> Nat] : Loop(v, 0, step, M)
  <2> HIDE DEF step, M
  <2> QED BY <1>1, <1>2, LoopExists
<1>4. ASSUME NEW i \in 1 .. M PROVE v[i] = 2 * v[i - 1] + (IF i - 1 \in B THEN 1 ELSE 0)
  <2>1. v[i] = step[<<v[i - 1], i>>] /\ v[i - 1] \in Nat
    <3> HIDE DEF step, M
    <3>1. i - 1 \in 0 .. M
      BY <1>1
    <3> QED BY <1>3, <3>1 DEF Loop
  <2>2. <<v[i - 1], i>> \in Nat \X (1 .. M)
    BY <2>1
  <2> QED BY <2>1, <2>2
<1>5. v[0] = 0
  <2> HIDE DEF step
  <2> QED BY <1>3 DEF Loop
<1> QED BY <1>4, <1>5 DEF Horner

(* The word's bits are read as those of B, and it has no others.           *)
LEMMA HornerBits ==
  ASSUME NEW B, NEW v, Horner(v, B)
  PROVE  /\ v[MaxLayoutBits] \in 0 .. LayoutSpan - 1
         /\ \A i \in 0 .. MaxLayoutBits - 1 :
              get_bit_at_index_from_msb(v[MaxLayoutBits], i) = IF i \in B THEN 1 ELSE 0
<1> DEFINE M == MaxLayoutBits
           P == one_bit
           V == v[M]
           Splits(d) == \E r \in 0 .. P[d] - 1 : V = v[M - d] * P[d] + r
           T == {d \in 0 .. M : Splits(d)}
<1>0. M \in Nat \ {0} /\ LayoutSpan = P[M]
  BY LayoutAssumption
<1>1. /\ P[0] = 1
      /\ \A i \in 0 .. M : P[i] \in Nat \ {0}
      /\ \A i \in 1 .. M : P[i] = 2 * P[i - 1]
  BY OneBit
<1>2. /\ v \in [0 .. M -> Nat]
      /\ v[0] = 0
      /\ \A i \in 1 .. M : v[i] = 2 * v[i - 1] + (IF i - 1 \in B THEN 1 ELSE 0)
  BY DEF Horner
<1> HIDE DEF M, P
<1>3. 0 \in T
  <2>1. M - 0 = M /\ 0 \in 0 .. M /\ V \in Nat /\ 0 \in 0 .. P[0] - 1
    BY <1>0, <1>1, <1>2
  <2>2. V = v[M - 0] * P[0] + 0
    BY <1>1, <2>1
  <2> QED BY <2>1, <2>2
<1>4. ASSUME NEW m \in 1 .. M, m - 1 \in T PROVE m \in T
  <2>1. PICK d \in Nat : m = d + 1 /\ m - 1 = d
    <3>1. m - 1 \in Nat /\ m = (m - 1) + 1
      OBVIOUS
    <3> QED BY <3>1
  <2>2. PICK r \in 0 .. P[d] - 1 : V = v[M - d] * P[d] + r
    BY <1>4, <2>1
  <2> DEFINE j == M - d
             p == P[d]
             u == v[j - 1]
             b == IF j - 1 \in B THEN 1 ELSE 0
  <2>3. j \in 1 .. M /\ j - 1 \in 0 .. M /\ d \in 0 .. M /\ m \in 0 .. M /\ j - 1 = M - m
    BY <1>0, <2>1
  <2>4. p \in Nat \ {0} /\ P[m] = 2 * p
    BY <1>1, <2>1, <2>3
  <2>5. v[j] = 2 * u + b /\ u \in Nat /\ b \in {0, 1}
    BY <1>2, <2>3
  <2>6. V = v[j] * p + r /\ r \in 0 .. p - 1
    BY <2>2
  <2> HIDE DEF p, u, b, j, V
  <2>7. (2 * u + b) * p = u * (2 * p) + b * p
    BY <2>4, <2>5
  <2>8. b * p + r \in 0 .. 2 * p - 1
    <3>1. CASE b = 0
      <4>1. b * p = 0
        BY <2>4, <3>1
      <4> QED BY <2>4, <2>6, <4>1
    <3>2. CASE b = 1
      <4>1. b * p = p
        BY <2>4, <3>2
      <4> QED BY <2>4, <2>6, <4>1
    <3> QED BY <2>5, <3>1, <3>2
  <2>9. u * (2 * p) \in Nat /\ b * p \in Nat
    BY <2>4, <2>5
  <2>10. V = u * (2 * p) + (b * p + r)
    BY <2>5, <2>6, <2>7, <2>8, <2>9
  <2>11. u = v[M - m]
    BY <2>3 DEF u
  <2>12. Splits(m)
    BY <2>4, <2>8, <2>10, <2>11
  <2> QED BY <2>3, <2>12
<1>5. \A d \in 0 .. M : Splits(d)
  <2> HIDE DEF Splits
  <2>1. Inductive(T, M)
    BY <1>3, <1>4 DEF Inductive
  <2>2. \A d \in 0 .. M : d \in T
    <3> HIDE DEF T
    <3> QED BY <1>0, <2>1, UpTo
  <2> QED BY <2>2
<1>6. V \in 0 .. P[M] - 1
  <2>1. PICK r \in 0 .. P[M] - 1 : V = v[M - M] * P[M] + r
    BY <1>0, <1>5
  <2>2. v[M - M] = 0 /\ P[M] \in Nat
    BY <1>0, <1>1, <1>2
  <2>3. v[M - M] * P[M] = 0
    BY <2>2
  <2> QED BY <2>1, <2>2, <2>3
<1>7. ASSUME NEW i \in 0 .. M - 1
      PROVE  get_bit_at_index_from_msb(V, i) = IF i \in B THEN 1 ELSE 0
  <2> DEFINE d == M - 1 - i
             p == P[d]
             u == v[i]
             b == IF i \in B THEN 1 ELSE 0
             h == v[i + 1]
  <2>1. d \in 0 .. M /\ M - d = i + 1 /\ i + 1 \in 1 .. M /\ (i + 1) - 1 = i /\ i \in 0 .. M /\ i + 1 \in 0 .. M
    BY <1>0
  <2>2. PICK r \in 0 .. p - 1 : V = h * p + r
    BY <1>5, <2>1
  <2>3. h = 2 * u + b /\ u \in Nat /\ b \in {0, 1} /\ h \in Nat
    BY <1>2, <2>1
  <2>4. p \in Nat \ {0}
    BY <1>1, <2>1
  <2>5. get_bit_at_index_from_msb(V, i) = (V \div p) % 2
    BY DEF get_bit_at_index_from_msb, P, M
  <2> HIDE DEF p, u, b, h, V
  <2>6. (h * p + r) \div p = h
    BY <2>3, <2>4, Fields
  <2>7. h % 2 = b
    BY <2>3
  <2>8. get_bit_at_index_from_msb(V, i) = b
    BY <2>2, <2>5, <2>6, <2>7
  <2> QED BY <2>8 DEF b
<1> QED BY <1>0, <1>6, <1>7 DEF M, P

(* What the loop of get_layout_bits adds for the letters of s.             *)
LayoutLoop(f, s, n) ==
  /\ f[0] = 0
  /\ \A k \in 1 .. n : f[k] = IF s[k] = "*"
                                THEN set_bit_at_index_from_msb(f[k - 1], bit_index(s, k))
                                ELSE f[k - 1]

(* A letter's first bit. *)
LEMMA BitIndexIsEnd ==
  ASSUME NEW s, NEW k \in Nat PROVE bit_index(s, k + 1) = End(s, k)
<1>1. (k + 1) - 1 = k
  OBVIOUS
<1> QED BY <1>1 DEF bit_index, End

(* The loop runs to its end. *)
LEMMA LayoutLoopRuns ==
  ASSUME NEW s, NEW n \in Nat, Len(s) = n, End(s, n) <= MaxLayoutBits
  PROVE  \E f \in [0 .. n -> Int] : LayoutLoop(f, s, n) /\ get_layout_bits(s) = f[n]
<1> DEFINE M == MaxLayoutBits
           bit(k) == IF s[k] = "*" THEN one_bit[M - 1 - bit_index(s, k)] ELSE 0
           step == [p \in Int \X (1 .. n) |-> p[1] + bit(p[2])]
           Next_(f, k) == IF s[k] = "*"
                            THEN set_bit_at_index_from_msb(f[k - 1], bit_index(s, k))
                            ELSE f[k - 1]
           Runs(f) == f = [k \in 0 .. n |-> IF k = 0 THEN 0 ELSE Next_(f, k)]
<1>1. ASSUME NEW k \in 1 .. n PROVE bit(k) \in Int
  <2>1. PICK i \in Nat : k = i + 1
    <3>1. k - 1 \in Nat /\ k = (k - 1) + 1
      OBVIOUS
    <3> QED BY <3>1
  <2>2. bit_index(s, k) = End(s, i)
    BY <2>1, BitIndexIsEnd
  <2>3. End(s, n) - End(s, i) >= n - i /\ End(s, i) \in Nat /\ End(s, n) \in Nat
    <3>1. i <= n
      BY <2>1
    <3> QED BY <3>1, EndMonotone, EndStep
  <2>4. M - 1 - End(s, i) \in 0 .. M
    <3>1. n - i >= 1 /\ M \in Nat
      BY <2>1, LayoutAssumption
    <3> QED BY <2>3, <3>1
  <2>5. one_bit[M - 1 - bit_index(s, k)] \in Int
    BY <2>2, <2>4, OneBit
  <2> QED BY <2>5
<1>2. step \in [Int \X (1 .. n) -> Int] /\ 0 \in Int
  BY <1>1
<1>3. PICK f \in [0 .. n -> Int] : Loop(f, 0, step, n)
  <2> HIDE DEF step
  <2> QED BY <1>2, LoopExists
<1>4. ASSUME NEW k \in 1 .. n PROVE f[k] = Next_(f, k)
  <2>1. f[k] = step[<<f[k - 1], k>>] /\ f[k - 1] \in Int
    <3> HIDE DEF step
    <3>1. k - 1 \in 0 .. n
      OBVIOUS
    <3> QED BY <1>3, <3>1 DEF Loop
  <2>2. f[k] = f[k - 1] + bit(k)
    <3>1. <<f[k - 1], k>> \in Int \X (1 .. n)
      BY <2>1
    <3> HIDE DEF bit
    <3> QED BY <2>1, <3>1
  <2>3. CASE s[k] = "*"
    <3>1. bit(k) = one_bit[M - 1 - bit_index(s, k)]
      BY <2>3
    <3> QED BY <2>2, <2>3, <3>1 DEF set_bit_at_index_from_msb
  <2>4. CASE s[k] # "*"
    <3>1. bit(k) = 0
      BY <2>4
    <3> HIDE DEF bit
    <3> QED BY <2>1, <2>2, <2>4, <3>1
  <2> QED BY <2>3, <2>4
<1>5. f[0] = 0
  <2> HIDE DEF step
  <2> QED BY <1>3 DEF Loop
<1>6. Runs(f)
  <2> HIDE DEF Next_
  <2>1. ASSUME NEW k \in 0 .. n PROVE f[k] = IF k = 0 THEN 0 ELSE Next_(f, k)
    <3>1. CASE k = 0
      BY <1>5, <3>1
    <3>2. CASE k # 0
      <4>1. k \in 1 .. n
        BY <3>2
      <4> QED BY <1>4, <3>2, <4>1
    <3> QED BY <3>1, <3>2
  <2> QED BY <2>1, Zenon
<1> DEFINE g == CHOOSE h : Runs(h)
<1>7. Runs(g)
  BY <1>6, Zenon
<1>8. get_layout_bits(s) = g[n]
  BY Zenon DEF get_layout_bits
<1>9. \A k \in 0 .. n : g[k] = IF k = 0 THEN 0 ELSE Next_(g, k)
  <2> HIDE DEF g, Next_
  <2> QED BY <1>7, Zenon
<1> HIDE DEF g
<1> DEFINE T == {k \in 0 .. n : g[k] = f[k]}
<1>10. Inductive(T, n)
  <2>1. 0 \in T
    BY <1>5, <1>9
  <2>2. ASSUME NEW m \in 1 .. n, m - 1 \in T PROVE m \in T
    <3>1. m \in 0 .. n /\ m # 0
      OBVIOUS
    <3>2. g[m] = Next_(g, m)
      <4> HIDE DEF Next_
      <4> QED BY <1>9, <3>1
    <3>3. f[m] = Next_(f, m) /\ g[m - 1] = f[m - 1]
      BY <1>4, <2>2
    <3> QED BY <3>1, <3>2, <3>3
  <2> QED BY <2>1, <2>2 DEF Inductive
<1>11. n \in T
  <2> HIDE DEF T
  <2> QED BY <1>10, UpTo
<1>12. LayoutLoop(f, s, n)
  BY <1>4, <1>5 DEF LayoutLoop
<1> QED BY <1>8, <1>11, <1>12

(* What the loop makes of a string has just the bits of its pointers.      *)
LEMMA WordOfString ==
  ASSUME NEW s, NEW n \in Nat, Len(s) = n, DOMAIN s = 1 .. n,
         End(s, n) <= MaxLayoutBits
  PROVE  /\ get_layout_bits(s) \in 0 .. LayoutSpan - 1
         /\ \A i \in 0 .. MaxLayoutBits - 1 :
              get_bit_at_index_from_msb(get_layout_bits(s), i)
                = IF i \in StarBits(s) THEN 1 ELSE 0
<1> DEFINE M == MaxLayoutBits
           B == StarBits(s)
           P == one_bit
           E(k) == End(s, k)
<1>0. M \in Nat
  BY LayoutAssumption
<1>1. /\ P[0] = 1
      /\ \A i \in 0 .. M : P[i] \in Nat \ {0}
      /\ \A i \in 1 .. M : P[i] = 2 * P[i - 1]
  BY OneBit
<1>2. PICK f \in [0 .. n -> Int] : LayoutLoop(f, s, n) /\ get_layout_bits(s) = f[n]
  BY LayoutLoopRuns
<1>3. PICK v : Horner(v, B)
  BY HornerExists
<1>4. /\ v \in [0 .. M -> Nat]
      /\ v[0] = 0
      /\ \A i \in 1 .. M : v[i] = 2 * v[i - 1] + (IF i - 1 \in B THEN 1 ELSE 0)
  BY <1>3 DEF Horner
<1>5. \A i \in Nat : i + 1 \in 1 .. n => End(s, i) \in B <=> s[i + 1] = "*"
  BY StarBitsFacts
<1>6. \A i \in Nat : i + 1 \in 1 .. n /\ s[i + 1] \in {"l", "d"} => End(s, i) + 1 \notin B
  BY StarBitsFacts
<1>7. \A b \in B : b \in 0 .. End(s, n) - 1
  BY StarBitsFacts
<1> HIDE DEF M, P, B
(* One more bit doubles the value, and halves what it is multiplied with.  *)
<1>8. ASSUME NEW i \in Nat, i + 1 \in 1 .. M
      PROVE  v[i + 1] * P[M - (i + 1)]
               = v[i] * P[M - i] + (IF i \in B THEN P[M - 1 - i] ELSE 0)
  <2> DEFINE p == P[M - 1 - i]
             u == v[i]
             b == IF i \in B THEN 1 ELSE 0
  <2>1. /\ M - (i + 1) = M - 1 - i /\ M - i \in 1 .. M /\ (M - i) - 1 = M - 1 - i
        /\ M - 1 - i \in 0 .. M /\ i \in 0 .. M /\ (i + 1) - 1 = i
    BY <1>0, <1>8
  <2>2. p \in Nat /\ P[M - i] = 2 * p /\ P[M - (i + 1)] = p
    BY <1>1, <2>1
  <2>3. v[i + 1] = 2 * u + b /\ u \in Nat /\ b \in {0, 1}
    BY <1>4, <1>8, <2>1
  <2> HIDE DEF p, u, b
  <2>4. (2 * u + b) * p = u * (2 * p) + b * p
    BY <2>2, <2>3
  <2>5. b * p = IF i \in B THEN p ELSE 0
    BY <2>2, <2>3 DEF b
  <2>6. v[i + 1] * P[M - (i + 1)] = u * P[M - i] + (IF i \in B THEN p ELSE 0)
    BY <2>2, <2>3, <2>4, <2>5
  <2> QED BY <2>6 DEF p, u
<1> DEFINE T == {k \in 0 .. n : f[k] = v[E(k)] * P[M - E(k)]}
<1>9. 0 \in T
  <2>1. f[0] = 0 /\ E(0) = 0
    BY <1>2, EndStep DEF LayoutLoop
  <2>2. v[0] * P[M - 0] = 0
    <3>1. M - 0 \in 0 .. M
      BY <1>0
    <3>2. P[M - 0] \in Nat
      BY <1>1, <3>1
    <3> QED BY <1>4, <3>2
  <2>3. f[0] = v[E(0)] * P[M - E(0)]
    BY <2>1, <2>2
  <2> QED BY <2>3
<1>10. ASSUME NEW m \in 1 .. n, m - 1 \in T PROVE m \in T
  <2>1. PICK i \in Nat : m = i + 1 /\ m - 1 = i
    <3>1. m - 1 \in Nat /\ m = (m - 1) + 1
      OBVIOUS
    <3> QED BY <3>1
  <2> DEFINE e == End(s, i)
             c == s[i + 1]
  <2>2. f[i] = v[e] * P[M - e]
    BY <1>10, <2>1
  <2>3. /\ e \in Nat /\ E(i + 1) = e + (IF c \in {"l", "d"} THEN 2 ELSE 1)
        /\ E(i + 1) <= M
    <3>1. e \in Nat /\ E(i + 1) = e + (IF c \in {"l", "d"} THEN 2 ELSE 1) /\ E(i + 1) \in Nat
      <4>1. i + 1 \in Nat
        OBVIOUS
      <4> QED BY <4>1, EndStep
    <3>2. E(i + 1) <= E(n) /\ E(n) \in Nat
      <4>1. i + 1 \in Nat /\ i + 1 <= n
        BY <2>1
      <4>2. E(n) - E(i + 1) >= n - (i + 1) /\ E(n) \in Nat
        BY <4>1, EndMonotone, EndStep
      <4> QED BY <2>1, <3>1, <4>2
    <3>3. E(n) <= M
      BY DEF M
    <3> QED BY <1>0, <3>1, <3>2, <3>3
  <2>4. f[i + 1] = IF c = "*" THEN f[i] + P[M - 1 - e] ELSE f[i]
    <3>1. f[m] = IF s[m] = "*"
                   THEN set_bit_at_index_from_msb(f[m - 1], bit_index(s, m)) ELSE f[m - 1]
      BY <1>2 DEF LayoutLoop
    <3>2. bit_index(s, i + 1) = e
      BY BitIndexIsEnd
    <3> QED BY <2>1, <3>1, <3>2 DEF set_bit_at_index_from_msb, P, M
  <2>5. e \in B <=> c = "*"
    BY <1>5, <2>1
  <2>6. c \in {"l", "d"} => e + 1 \notin B /\ c # "*"
    BY <1>6, <2>1
  <2>7. f[i] \in Int
    BY <2>1
  <2> HIDE DEF e, c
  <2>8. e + 1 \in 1 .. M
    <3>1. E(i + 1) >= e + 1 /\ E(i + 1) \in Nat
      BY <2>3
    <3> QED BY <1>0, <2>3, <3>1
  <2>9. v[e + 1] * P[M - (e + 1)] = f[i + 1]
    <3>1. v[e + 1] * P[M - (e + 1)] = f[i] + (IF e \in B THEN P[M - 1 - e] ELSE 0)
      BY <1>8, <2>2, <2>3, <2>8
    <3>2. CASE c = "*"
      BY <2>4, <2>5, <3>1, <3>2
    <3>3. CASE c # "*"
      <4>1. v[e + 1] * P[M - (e + 1)] = f[i] + 0
        BY <2>5, <3>1, <3>3
      <4> QED BY <2>4, <2>7, <3>3, <4>1
    <3> QED BY <3>2, <3>3
  <2>10. f[i + 1] = v[E(i + 1)] * P[M - E(i + 1)]
    <3>1. CASE c \in {"l", "d"}
      <4>1. E(i + 1) = e + 2 /\ (e + 1) + 1 = e + 2 /\ (e + 1) + 1 \in 1 .. M /\ e + 1 \in Nat
        BY <2>3, <3>1
      <4>2. e + 1 \notin B
        BY <2>6, <3>1
      <4>3. v[(e + 1) + 1] * P[M - ((e + 1) + 1)] = v[e + 1] * P[M - (e + 1)] + 0
        BY <1>8, <4>1, <4>2
      <4>4. f[i + 1] \in Int
        BY <2>1
      <4>5. v[(e + 1) + 1] * P[M - ((e + 1) + 1)] = f[i + 1]
        BY <2>9, <4>3, <4>4
      <4> QED BY <4>1, <4>5
    <3>2. CASE c \notin {"l", "d"}
      <4>1. E(i + 1) = e + 1
        BY <2>3, <3>2
      <4> QED BY <2>9, <4>1
    <3> QED BY <3>1, <3>2
  <2> QED BY <2>1, <2>10
<1>11. f[n] = v[E(n)] * P[M - E(n)]
  <2>1. n \in T
    <3> HIDE DEF T
    <3>1. Inductive(T, n)
      BY <1>9, <1>10 DEF Inductive
    <3> QED BY <3>1, UpTo
  <2> QED BY <2>1
(* The bits behind the last letter are not set. *)
<1> DEFINE U == {k \in 0 .. M - E(n) : v[E(n) + k] * P[M - (E(n) + k)] = f[n]}
<1>12. E(n) \in Nat /\ E(n) <= M
  BY EndStep DEF M
<1> DEFINE e == End(s, n)
<1> HIDE DEF e
<1>13. M - e \in U
  <2>1. 0 \in U
    <3>1. E(n) + 0 = E(n) /\ 0 \in 0 .. M - E(n)
      BY <1>0, <1>12
    <3> QED BY <1>11, <3>1
  <2>2. ASSUME NEW m \in 1 .. M - E(n), m - 1 \in U PROVE m \in U
    <3> DEFINE i == E(n) + (m - 1)
    <3>1. i \in Nat /\ i + 1 \in 1 .. M /\ i + 1 = E(n) + m /\ i >= E(n) /\ m \in 0 .. M - E(n)
      BY <1>0, <1>12
    <3>2. v[i] * P[M - i] = f[n]
      BY <2>2
    <3>3. i \notin B
      BY <1>7, <1>12, <3>1
    <3> HIDE DEF i
    <3>4. v[i + 1] * P[M - (i + 1)] = v[i] * P[M - i] + 0
      BY <1>8, <3>1, <3>3
    <3>5. f[n] \in Int
      OBVIOUS
    <3>6. v[i + 1] * P[M - (i + 1)] = f[n]
      BY <3>2, <3>4, <3>5
    <3> QED BY <3>1, <3>6
  <2>3. Inductive(U, M - e) /\ M - e \in Nat
    BY <1>0, <1>12, <2>1, <2>2 DEF Inductive, e
  <2> HIDE DEF U
  <2> QED BY <2>3, UpTo
<1>14. f[n] = v[M]
  <2>1. E(n) + (M - E(n)) = M /\ M - M = 0
    BY <1>0, <1>12
  <2>2. v[M] * P[0] = f[n]
    BY <1>13, <2>1 DEF e
  <2>3. v[M] \in Nat
    BY <1>0, <1>4
  <2> QED BY <1>1, <2>2, <2>3
<1>15. get_layout_bits(s) = v[MaxLayoutBits]
  BY <1>2, <1>14 DEF M
<1> QED BY <1>3, <1>15, HornerBits DEF B

-----------------------------------------------------------------------------
(* The string of a word.                                                   *)

(* The bytes before letter i + 1. *)
Offset(s, i) == 4 * (i + Among(s, i, {"*", "l", "d"}))

(* A string of letters, its length, and that a layout has room for it.     *)
Fits(s, n) ==
  /\ n \in Nat /\ Len(s) = n /\ DOMAIN s = 1 .. n
  /\ enough_bits_for_layout(s)

(* A string that fits has small sizes. *)
LEMMA FittingSizes ==
  ASSUME NEW s, NEW n, Fits(s, n)
  PROVE  /\ format_str_bytes(s) = 4 * (End(s, n) + Stars(s, n))
         /\ format_str_bytes(s) \in 0 .. SizeMod - 1
         /\ End(s, n) \in Nat /\ Stars(s, n) \in Nat
         /\ End(s, n) + Stars(s, n) <= MaxLayoutBits
         /\ n <= End(s, n)
<1>1. n \in Nat /\ Len(s) = n
  BY DEF Fits
<1>2. n + Among(s, n, {"*", "l", "d"}) = End(s, n) + Stars(s, n)
  BY <1>1, EightBytes
<1>3. End(s, n) \in Nat /\ End(s, 0) = 0
  BY <1>1, EndStep
<1>4. Stars(s, n) \in Nat
  <2>1. LetterByLetter(s, {"*"})
    BY AmongStep
  <2> QED BY <1>1, <2>1 DEF LetterByLetter, Stars
<1>5. n <= End(s, n)
  <2>1. End(s, n) - End(s, 0) >= n - 0
    BY <1>1, EndMonotone
  <2> QED BY <1>1, <1>3, <2>1
<1>6. End(s, n) + Stars(s, n) <= MaxLayoutBits
  <2>1. required_bits(s) = n + Among(s, n, {"*", "l", "d"})
    BY <1>1 DEF required_bits
  <2>2. required_bits(s) <= MaxLayoutBits
    BY DEF Fits, enough_bits_for_layout
  <2> QED BY <1>2, <2>1, <2>2
<1>7. format_str_bytes(s) = 4 * (End(s, n) + Stars(s, n))
  BY <1>1, <1>2 DEF format_str_bytes
<1>8. format_str_bytes(s) \in 0 .. SizeMod - 1
  <2>1. MaxLayoutBits \in Nat /\ 4 * MaxLayoutBits < SizeMod /\ SizeMod \in Nat
    BY LayoutAssumption, HeaderWordAssumption
  <2> QED BY <1>3, <1>4, <1>6, <1>7, <2>1
<1> QED BY <1>3, <1>4, <1>5, <1>6, <1>7, <1>8

(* From its header the size of a string is read, and its pointers' bits.   *)
LEMMA HeaderOfString ==
  ASSUME NEW s, NEW n, Fits(s, n)
  PROVE  /\ to_bit_vector(s) \in Word
         /\ get_header_type(to_bit_vector(s)) = BIT_VECTOR
         /\ ~confirm_tag(to_bit_vector(s))
         /\ get_size_bits_field(to_bit_vector(s)) = format_str_bytes(s)
         /\ \A i \in 0 .. MaxLayoutBits - 1 :
              LayoutBit(to_bit_vector(s), i) = 1 <=> i \in StarBits(s)
<1> DEFINE b == format_str_bytes(s)
           l == get_layout_bits(s)
           w == bit_vector(b, l)
<1>1. b \in 0 .. SizeMod - 1 /\ SizeMod \in Nat \ {0}
  BY FittingSizes, HeaderWordAssumption
<1>2. /\ l \in 0 .. LayoutSpan - 1
      /\ \A i \in 0 .. MaxLayoutBits - 1 :
           get_bit_at_index_from_msb(l, i) = IF i \in StarBits(s) THEN 1 ELSE 0
  <2>1. n \in Nat /\ Len(s) = n /\ DOMAIN s = 1 .. n
    BY DEF Fits
  <2>2. End(s, n) <= MaxLayoutBits
    <3>1. End(s, n) \in Nat /\ Stars(s, n) \in Nat /\ End(s, n) + Stars(s, n) <= MaxLayoutBits
      BY FittingSizes
    <3> QED BY <3>1, LayoutAssumption
  <2> QED BY <2>1, <2>2, WordOfString
<1>3. LayoutSpan \in Nat \ {0}
  BY HeaderWordAssumption
<1>4. to_bit_vector(s) = w
  BY DEF to_bit_vector
<1> HIDE DEF b, l
<1>5. b \in Nat /\ l \in Nat /\ b % SizeMod = b /\ l % LayoutSpan = l
  BY <1>1, <1>2, <1>3
<1>6. /\ get_size_bits_field(w) = b
      /\ get_layout_bits_field(w) = l
      /\ get_header_type(w) = BIT_VECTOR
  BY <1>5, BitVectorRead
<1>7. ~confirm_tag(w)
  BY <1>5, NoHeaderIsFooter
<1>8. w \in Word
  <2>1. 4 * l + 3 \in 0 .. SizeUnit - 1
    BY <1>2, <1>3 DEF SizeUnit
  <2>2. b * SizeUnit + (4 * l + 3) \in Word
    BY <1>1, <2>1, WordFacts
  <2>3. w = b * SizeUnit + 4 * l + 3
    BY <1>5 DEF bit_vector, BIT_VECTOR
  <2>4. b * SizeUnit \in Nat
    BY <1>5, WordFacts
  <2> QED BY <1>5, <2>2, <2>3, <2>4
<1>9. ASSUME NEW i \in 0 .. MaxLayoutBits - 1 PROVE LayoutBit(w, i) = 1 <=> i \in StarBits(s)
  <2> HIDE DEF w
  <2>1. LayoutBit(w, i) = get_bit_at_index_from_msb(l, i)
    BY <1>6 DEF LayoutBit
  <2> QED BY <1>2, <2>1
<1> QED BY <1>4, <1>6, <1>7, <1>8, <1>9 DEF b

(* The length of a string made from the header of s: that of the bits of s,*)
(* or one if s has no letters.                                             *)
CopyLen(n, e) == IF n = 0 THEN 1 ELSE e

(* A longer stretch has no fewer of the bits. *)
LEMMA BetweenGrows ==
  ASSUME NEW C, NEW i \in Nat, NEW j \in Nat, i <= j
  PROVE  /\ Between(0, i - 1, C) \in Nat
         /\ Between(0, i - 1, C) <= Between(0, j - 1, C)
<1> DEFINE S == {k \in 0 .. i - 1 : k \in C}
           R == {k \in 0 .. j - 1 : k \in C}
<1>1. S \in SUBSET R /\ R \in SUBSET (0 .. j - 1) /\ IsFiniteSet(0 .. j - 1)
  BY FS_Interval
<1>2. Between(0, i - 1, C) = Cardinality(S) /\ Between(0, j - 1, C) = Cardinality(R)
  BY DEF Between
<1> HIDE DEF S, R
<1>3. IsFiniteSet(R)
  BY <1>1, FS_Subset
<1> QED BY <1>1, <1>2, <1>3, FS_Subset, FS_CardinalityType

(* The loop stops exactly behind the last bit of s. *)
LEMMA StringOfWord ==
  ASSUME NEW s, NEW n, Fits(s, n)
  PROVE  bit_vector_to_format_string(to_bit_vector(s))
           = [i \in 1 .. CopyLen(n, End(s, n)) |-> IF i - 1 \in StarBits(s) THEN "*" ELSE "i"]
<1> DEFINE w == to_bit_vector(s)
           B == StarBits(s)
           M == MaxLayoutBits
           e == End(s, n)
           x == CopyLen(n, e)
           stops == {k \in 1 .. M : Enough(w, k)}
           last == CHOOSE k \in stops : \A m \in stops : k <= m
           bytes == format_str_bytes(s)
<1>1. /\ get_size_bits_field(w) = bytes
      /\ \A i \in 0 .. M - 1 : LayoutBit(w, i) = 1 <=> i \in B
  BY HeaderOfString
<1>2. /\ n \in Nat /\ e \in Nat /\ Stars(s, n) \in Nat /\ n <= e
      /\ e + Stars(s, n) <= M /\ bytes = 4 * (e + Stars(s, n))
  BY FittingSizes DEF Fits
<1>3. M \in Nat \ {0}
  BY LayoutAssumption
<1>4. Between(0, e - 1, B) = Stars(s, n)
  BY <1>2, StarsAreOnes DEF Fits
<1>5. n = 0 => e = 0 /\ Stars(s, n) = 0
  <2>1. LetterByLetter(s, {"*"}) /\ End(s, 0) = 0
    BY AmongStep, EndStep
  <2> QED BY <2>1 DEF LetterByLetter, Stars
<1> HIDE DEF w, B, M, e, bytes
<1>6. ASSUME NEW k \in 0 .. M PROVE Accumulated(w, k) = 4 * (k + Between(0, k - 1, B))
  <2>1. {i \in 0 .. k - 1 : LayoutBit(w, i) = 1} = {i \in 0 .. k - 1 : i \in B}
    BY <1>1, <1>3
  <2> QED BY <2>1 DEF Accumulated, Between
<1>7. x \in 1 .. M
  BY <1>2, <1>3 DEF CopyLen
<1>8. Enough(w, x)
  <2>1. Accumulated(w, x) >= bytes
    <3>1. Accumulated(w, x) = 4 * (x + Between(0, x - 1, B))
      BY <1>6, <1>7
    <3>2. CASE n = 0
      <4>1. 0 \in Nat /\ x \in Nat /\ 0 <= x
        BY <1>7
      <4>2. Between(0, x - 1, B) \in Nat
        BY <4>1, BetweenGrows
      <4>3. bytes = 0
        BY <1>2, <1>5, <3>2
      <4> QED BY <3>1, <4>1, <4>2, <4>3
    <3>3. CASE n # 0
      <4>1. x = e
        BY <3>3 DEF CopyLen
      <4> QED BY <1>2, <1>4, <3>1, <4>1
    <3> QED BY <3>2, <3>3
  <2> QED BY <1>1, <2>1 DEF Enough
<1>9. ASSUME NEW k \in 1 .. M, Enough(w, k) PROVE x <= k
  <2>1. CASE n = 0
    BY <2>1 DEF CopyLen
  <2>2. CASE n # 0
    <3> SUFFICES ASSUME ~(x <= k) PROVE FALSE
      OBVIOUS
    <3>1. x = e /\ k < e /\ k \in Nat
      BY <1>2, <2>2 DEF CopyLen
    <3>2. k # M
      BY <1>2, <1>3, <3>1
    <3>3. Accumulated(w, k) >= bytes
      BY <1>1, <1>9, <3>2 DEF Enough, M
    <3>4. Accumulated(w, k) = 4 * (k + Between(0, k - 1, B))
      BY <1>6
    <3>5. Between(0, k - 1, B) \in Nat /\ Between(0, k - 1, B) <= Stars(s, n)
      <4>1. k <= e
        BY <1>2, <3>1
      <4>2. Between(0, k - 1, B) \in Nat /\ Between(0, k - 1, B) <= Between(0, e - 1, B)
        BY <1>2, <3>1, <4>1, BetweenGrows
      <4> QED BY <1>4, <4>2
    <3> QED BY <1>2, <3>1, <3>3, <3>4, <3>5
  <2> QED BY <2>1, <2>2
<1>10. last = x
  <2>1. x \in stops /\ \A m \in stops : x <= m
    BY <1>7, <1>8, <1>9
  <2>2. last \in stops /\ \A m \in stops : last <= m
    <3> HIDE DEF x, stops
    <3> QED BY <2>1, Zenon
  <2>3. last <= x /\ x <= last /\ last \in Int /\ x \in Int
    <3>1. stops \subseteq Int
      OBVIOUS
    <3> HIDE DEF last, x, stops
    <3> QED BY <2>1, <2>2, <3>1
  <2> HIDE DEF last, x
  <2> QED BY <2>3
<1>11. bit_vector_to_format_string(w)
         = [i \in 1 .. last |-> IF LayoutBit(w, i - 1) = 1 THEN "*" ELSE "i"]
  BY Zenon DEF bit_vector_to_format_string, M
<1>12. ASSUME NEW i \in 1 .. x
       PROVE  (IF LayoutBit(w, i - 1) = 1 THEN "*" ELSE "i") = (IF i - 1 \in B THEN "*" ELSE "i")
  <2>1. i - 1 \in 0 .. M - 1
    <3> HIDE DEF x
    <3> QED BY <1>3, <1>7
  <2>2. LayoutBit(w, i - 1) = 1 <=> i - 1 \in B
    BY <1>1, <2>1
  <2> QED BY <2>2
<1> HIDE DEF last, x
<1>13. bit_vector_to_format_string(w) = [i \in 1 .. x |-> IF i - 1 \in B THEN "*" ELSE "i"]
  BY <1>10, <1>11, <1>12, Zenon
<1> QED BY <1>13 DEF w, x, e, B

-----------------------------------------------------------------------------
(* A layout and its copy.                                                  *)

(* The pointers of a string, by the number of letters before them.         *)
LEMMA PointersAre ==
  ASSUME NEW s, NEW n \in Nat, DOMAIN s = 1 .. n
  PROVE  \A x : x \in PointersOf(s) <=>
           \E i \in Nat : i + 1 \in 1 .. n /\ s[i + 1] = "*" /\ x = Offset(s, i)
<1>1. ASSUME NEW x \in PointersOf(s)
      PROVE  \E i \in Nat : i + 1 \in 1 .. n /\ s[i + 1] = "*" /\ x = Offset(s, i)
  <2>1. PICK k \in 1 .. n : s[k] = "*" /\ x = 4 * (k - 1 + Among(s, k - 1, {"*", "l", "d"}))
    BY DEF PointersOf
  <2>2. PICK i \in Nat : k = i + 1 /\ k - 1 = i
    <3>1. k - 1 \in Nat /\ k = (k - 1) + 1
      OBVIOUS
    <3> QED BY <3>1
  <2> QED BY <2>1, <2>2 DEF Offset
<1>2. ASSUME NEW i \in Nat, i + 1 \in 1 .. n, s[i + 1] = "*"
      PROVE  Offset(s, i) \in PointersOf(s)
  <2>1. (i + 1) - 1 = i
    OBVIOUS
  <2>2. i + 1 \in {m \in DOMAIN s : s[m] = "*"}
    BY <1>2
  <2>3. Offset(s, i) = 4 * ((i + 1) - 1 + Among(s, (i + 1) - 1, {"*", "l", "d"}))
    BY <2>1 DEF Offset
  <2> QED BY <2>2, <2>3 DEF PointersOf
<1> QED BY <1>1, <1>2

(* What a copy is: a pointer for each of the bits, and integers between.   *)
IsCopy(c, B, x) ==
  /\ DOMAIN c = 1 .. x /\ Len(c) = x
  /\ \A i \in 1 .. x : c[i] = IF i - 1 \in B THEN "*" ELSE "i"

(* Each letter of a copy takes one bit. *)
LEMMA CopyCounts ==
  ASSUME NEW c, NEW B, NEW x \in Nat, IsCopy(c, B, x), NEW j \in 0 .. x
  PROVE  End(c, j) = j /\ Stars(c, j) = Between(0, j - 1, B)
<1> DEFINE T == {k \in 0 .. x : End(c, k) = k /\ Stars(c, k) = Between(0, k - 1, B)}
<1>0. LetterByLetter(c, {"*"})
  BY AmongStep
<1>1. 0 \in T
  <2>1. End(c, 0) = 0 /\ Stars(c, 0) = 0
    BY <1>0, EndStep DEF LetterByLetter, Stars
  <2>2. {i \in 0 .. 0 - 1 : i \in B} = {}
    OBVIOUS
  <2>3. Between(0, 0 - 1, B) = 0
    BY <2>2, FS_EmptySet DEF Between
  <2> QED BY <2>1, <2>3
<1>2. ASSUME NEW m \in 1 .. x, m - 1 \in T PROVE m \in T
  <2>1. PICK i \in Nat : m = i + 1 /\ m - 1 = i
    <3>1. m - 1 \in Nat /\ m = (m - 1) + 1
      OBVIOUS
    <3> QED BY <3>1
  <2>2. End(c, i) = i /\ Stars(c, i) = Between(0, i - 1, B)
    BY <1>2, <2>1
  <2> DEFINE l == c[i + 1]
  <2>3. l = IF i \in B THEN "*" ELSE "i"
    BY <2>1 DEF IsCopy
  <2>4. l \notin {"l", "d"} /\ (l = "*" <=> i \in B)
    BY <2>3
  <2>5. End(c, i + 1) = i + 1
    BY <2>2, <2>4, EndStep
  <2>6. Stars(c, i + 1) = Stars(c, i) + (IF l \in {"*"} THEN 1 ELSE 0)
    BY <1>0 DEF LetterByLetter, Stars
  <2>7. 0 \in Int /\ i - 1 \in Int /\ 0 <= (i - 1) + 1 /\ (i - 1) + 1 = i /\ (i + 1) - 1 = i
    OBVIOUS
  <2>8. Between(0, (i - 1) + 1, B) = Between(0, i - 1, B) + (IF (i - 1) + 1 \in B THEN 1 ELSE 0)
    BY <2>7, CountStep
  <2>9. Between(0, i, B) = Between(0, i - 1, B) + (IF i \in B THEN 1 ELSE 0)
    BY <2>7, <2>8
  <2>10. l \in {"*"} <=> i \in B
    BY <2>4
  <2> HIDE DEF l
  <2>11. Stars(c, i + 1) = Between(0, (i + 1) - 1, B)
    <3>1. Stars(c, i + 1) = Between(0, i, B)
      BY <2>2, <2>6, <2>9, <2>10
    <3> QED BY <2>7, <3>1
  <2> QED BY <2>1, <2>5, <2>11
<1>3. j \in T
  <2> HIDE DEF T
  <2>1. Inductive(T, x)
    BY <1>1, <1>2 DEF Inductive
  <2> QED BY <2>1, UpTo
<1> QED BY <1>3

(* The string made from the header of a string has pointers at the same    *)
(* offsets, and its size unless that is zero; it fits the layout, too.     *)
LEMMA CopyKeepsLayout ==
  ASSUME NEW s, NEW n, Fits(s, n), NEW c, NEW x,
         x = CopyLen(n, End(s, n)), IsCopy(c, StarBits(s), x)
  PROVE  /\ Fits(c, x)
         /\ PointersOf(c) = PointersOf(s)
         /\ n > 0 => format_str_bytes(c) = format_str_bytes(s)
<1> DEFINE B == StarBits(s)
           e == End(s, n)
<1>1. /\ n \in Nat /\ e \in Nat /\ Stars(s, n) \in Nat /\ n <= e /\ DOMAIN s = 1 .. n
      /\ e + Stars(s, n) <= MaxLayoutBits
      /\ format_str_bytes(s) = 4 * (e + Stars(s, n))
  BY FittingSizes DEF Fits
<1>2. x \in Nat /\ DOMAIN c = 1 .. x /\ Len(c) = x
  BY <1>1 DEF CopyLen, IsCopy
<1>3. \A j \in 0 .. x : End(c, j) = j /\ Stars(c, j) = Between(0, j - 1, B)
  BY <1>2, CopyCounts
<1>4. /\ \A b \in B : b \in 0 .. e - 1
      /\ \A k \in Nat : k + 1 \in 1 .. n => (End(s, k) \in B <=> s[k + 1] = "*")
  BY <1>1, StarBitsFacts
<1>5. \A k \in 0 .. n : Between(0, End(s, k) - 1, B) = Stars(s, k)
  BY <1>1, StarsAreOnes
<1>6. n = 0 => e = 0 /\ Stars(s, n) = 0 /\ x = 1
  <2>1. LetterByLetter(s, {"*"}) /\ End(s, 0) = 0
    BY AmongStep, EndStep
  <2> QED BY <2>1 DEF LetterByLetter, Stars, CopyLen
<1>7. n # 0 => x = e
  BY DEF CopyLen
<1> HIDE DEF B, e
(* Offsets in copy and string are the same. *)
<1>8. ASSUME NEW i \in 0 .. n, End(s, i) <= x PROVE Offset(c, End(s, i)) = Offset(s, i)
  <2> DEFINE k == End(s, i)
  <2>1. k \in Nat /\ i \in Nat
    <3>1. i \in Nat
      BY <1>1
    <3> QED BY <3>1, EndStep
  <2>2. k + Among(c, k, {"*", "l", "d"}) = End(c, k) + Stars(c, k)
    BY <2>1, EightBytes
  <2>3. i + Among(s, i, {"*", "l", "d"}) = k + Stars(s, i)
    BY <2>1, EightBytes
  <2>4. End(c, k) = k /\ Stars(c, k) = Stars(s, i)
    <3>1. k \in 0 .. x
      BY <1>2, <1>8, <2>1
    <3>2. Between(0, k - 1, B) = Stars(s, i)
      BY <1>5
    <3> HIDE DEF k
    <3> QED BY <1>3, <3>1, <3>2
  <2> HIDE DEF k
  <2>5. Offset(c, k) = Offset(s, i)
    BY <2>2, <2>3, <2>4 DEF Offset
  <2> QED BY <2>5 DEF k
<1>9. ASSUME NEW y \in PointersOf(c) PROVE y \in PointersOf(s)
  <2>1. PICK j \in Nat : j + 1 \in 1 .. x /\ c[j + 1] = "*" /\ y = Offset(c, j)
    BY <1>2, PointersAre
  <2>2. j \in B
    <3>1. (j + 1) - 1 = j
      OBVIOUS
    <3>2. c[j + 1] = IF j \in B THEN "*" ELSE "i"
      BY <2>1, <3>1 DEF IsCopy, B
    <3> QED BY <2>1, <3>2
  <2>3. PICK k \in 1 .. n : s[k] = "*" /\ j = End(s, k - 1)
    BY <1>1, <2>2 DEF StarBits, B
  <2>4. PICK i \in Nat : k = i + 1 /\ k - 1 = i
    <3>1. k - 1 \in Nat /\ k = (k - 1) + 1
      OBVIOUS
    <3> QED BY <3>1
  <2>5. i \in 0 .. n /\ End(s, i) <= x /\ j = End(s, i)
    BY <1>1, <1>2, <2>1, <2>3, <2>4
  <2>6. y = Offset(s, i)
    BY <1>8, <2>1, <2>5
  <2>7. i + 1 \in 1 .. n /\ s[i + 1] = "*"
    BY <2>3, <2>4
  <2> QED BY <1>1, <2>6, <2>7, PointersAre
<1>10. ASSUME NEW y \in PointersOf(s) PROVE y \in PointersOf(c)
  <2>1. PICK i \in Nat : i + 1 \in 1 .. n /\ s[i + 1] = "*" /\ y = Offset(s, i)
    BY <1>1, PointersAre
  <2> DEFINE k == End(s, i)
  <2>2. k \in B
    BY <1>4, <2>1
  <2>3. k \in 0 .. e - 1 /\ n # 0
    BY <1>1, <1>4, <2>1, <2>2
  <2> HIDE DEF k
  <2>4. k \in Nat /\ k + 1 \in 1 .. x /\ (k + 1) - 1 = k
    BY <1>1, <1>7, <2>3
  <2>5. c[k + 1] = "*"
    <3>1. c[k + 1] = IF (k + 1) - 1 \in B THEN "*" ELSE "i"
      BY <2>4 DEF IsCopy, B
    <3> QED BY <2>2, <2>4, <3>1
  <2>6. y = Offset(c, k)
    <3>1. i \in 0 .. n /\ End(s, i) <= x
      BY <1>1, <1>2, <2>1, <2>4 DEF k
    <3> QED BY <1>8, <2>1, <3>1 DEF k
  <2> QED BY <1>2, <2>4, <2>5, <2>6, PointersAre
<1>11. PointersOf(c) = PointersOf(s)
  BY <1>9, <1>10
<1>12. /\ End(c, x) = x /\ Stars(c, x) = Between(0, x - 1, B)
       /\ x + Among(c, x, {"*", "l", "d"}) = End(c, x) + Stars(c, x)
  BY <1>2, <1>3, EightBytes
<1>13. ASSUME n # 0
       PROVE  x + Among(c, x, {"*", "l", "d"}) = e + Stars(s, n)
  <2>1. Between(0, e - 1, B) = Stars(s, n)
    BY <1>1, <1>5 DEF e
  <2> QED BY <1>7, <1>12, <1>13, <2>1
<1>14. enough_bits_for_layout(c)
  <2>1. required_bits(c) = x + Among(c, x, {"*", "l", "d"})
    BY <1>2 DEF required_bits
  <2>2. CASE n = 0
    <3>1. B = {}
      BY <1>4, <1>6, <2>2
    <3>2. {i \in 0 .. 1 - 1 : i \in B} = {}
      BY <3>1
    <3>3. Between(0, 1 - 1, B) = 0
      BY <3>2, FS_EmptySet DEF Between
    <3>4. required_bits(c) = 1
      BY <1>6, <1>12, <2>1, <2>2, <3>3
    <3> QED BY <3>4, LayoutAssumption DEF enough_bits_for_layout
  <2>3. CASE n # 0
    BY <1>1, <1>13, <2>1, <2>3 DEF enough_bits_for_layout
  <2> QED BY <2>2, <2>3
<1>15. n > 0 => format_str_bytes(c) = format_str_bytes(s)
  <2>1. format_str_bytes(c) = 4 * (x + Among(c, x, {"*", "l", "d"}))
    BY <1>2 DEF format_str_bytes
  <2> QED BY <1>1, <1>13, <2>1
<1> QED BY <1>2, <1>11, <1>14, <1>15 DEF Fits

(* A move makes a string of the header that stands for the same layout     *)
(* (bit_vector.c:27-71, 107-136).                                          *)
THEOREM LayoutSurvivesHeader ==
  ASSUME NEW s, NEW n, Fits(s, n)
  PROVE  LET c == bit_vector_to_format_string(to_bit_vector(s)) IN
         /\ \E x : Fits(c, x)
         /\ PointersOf(c) = PointersOf(s)
         /\ n > 0 => format_str_bytes(c) = format_str_bytes(s)
<1> DEFINE B == StarBits(s)
           x == CopyLen(n, End(s, n))
           c == [i \in 1 .. x |-> IF i - 1 \in B THEN "*" ELSE "i"]
<1>1. bit_vector_to_format_string(to_bit_vector(s)) = c
  BY StringOfWord
<1>2. x \in Nat
  BY FittingSizes DEF CopyLen
<1>3. DOMAIN c = 1 .. x /\ \A i \in 1 .. x : c[i] = IF i - 1 \in B THEN "*" ELSE "i"
  <2> HIDE DEF x, B
  <2> QED OBVIOUS
<1>4. Len(c) = x
  <2>1. c \in Seq({"*", "i"})
    <3> HIDE DEF x, B
    <3> QED BY <1>2
  <2> HIDE DEF c, x
  <2> QED BY <1>2, <1>3, <2>1
<1>5. IsCopy(c, B, x)
  <2> HIDE DEF c, x, B
  <2> QED BY <1>3, <1>4 DEF IsCopy
<1> HIDE DEF c, x
<1>6. /\ Fits(c, x)
      /\ PointersOf(c) = PointersOf(s)
      /\ n > 0 => format_str_bytes(c) = format_str_bytes(s)
  BY <1>5, CopyKeepsLayout DEF x, B
<1> QED BY <1>1, <1>6

-----------------------------------------------------------------------------
(* The states of Layout.                                                   *)

(* Sequences put together are a sequence. *)
LEMMA FlattenedIsSeq ==
  ASSUME NEW S, NEW n \in Nat \ {0}, NEW t \in [1 .. n -> Seq(S)]
  PROVE  FlattenSeq(t) \in Seq(S)
<1> DEFINE Flat(f) == f = [i \in 1 .. Len(t) |-> IF i = 1 THEN t[i] ELSE f[i - 1] \o t[i]]
           step == [p \in Seq(S) \X (1 .. n - 1) |-> p[1] \o t[p[2] + 1]]
           g == CHOOSE f : Flat(f)
<1>1. t \in Seq(Seq(S)) /\ Len(t) = n
  OBVIOUS
<1>2. FlattenSeq(t) = g[Len(t)]
  <2>1. Len(t) # 0
    BY <1>1
  <2> QED BY <2>1, Zenon DEF FlattenSeq
<1>3. PICK h \in [0 .. n - 1 -> Seq(S)] : Loop(h, t[1], step, n - 1)
  <2>1. step \in [Seq(S) \X (1 .. n - 1) -> Seq(S)] /\ t[1] \in Seq(S) /\ n - 1 \in Nat
    OBVIOUS
  <2> HIDE DEF step
  <2> QED BY <2>1, LoopExists
<1> DEFINE f == [i \in 1 .. n |-> h[i - 1]]
<1>4. ASSUME NEW i \in 1 .. n PROVE f[i] = IF i = 1 THEN t[i] ELSE f[i - 1] \o t[i]
  <2>1. CASE i = 1
    <3>1. f[i] = h[0]
      BY <2>1
    <3> HIDE DEF step
    <3> QED BY <1>3, <2>1, <3>1 DEF Loop
  <2>2. CASE i # 1
    <3>1. i - 1 \in 1 .. n - 1 /\ (i - 1) + 1 = i /\ i - 1 \in 1 .. n
      BY <2>2
    <3> DEFINE j == i - 1
    <3>2. f[i] = h[j] /\ f[j] = h[j - 1]
      BY <3>1
    <3>3. h[j] = step[<<h[j - 1], j>>]
      <4> HIDE DEF step, j
      <4> QED BY <1>3, <3>1 DEF Loop, j
    <3>4. <<h[j - 1], j>> \in Seq(S) \X (1 .. n - 1)
      <4>1. j \in 1 .. n - 1
        BY <3>1
      <4> HIDE DEF j
      <4>2. j - 1 \in 0 .. n - 1
        BY <4>1
      <4> QED BY <4>1, <4>2
    <3>5. h[j] = h[j - 1] \o t[j + 1]
      BY <3>3, <3>4
    <3> QED BY <2>2, <3>1, <3>2, <3>5
  <2> QED BY <2>1, <2>2
<1>5. Flat(f)
  <2> HIDE DEF f
  <2>1. f = [i \in 1 .. n |-> f[i]]
    BY DEF f
  <2>2. f = [i \in 1 .. n |-> IF i = 1 THEN t[i] ELSE f[i - 1] \o t[i]]
    BY <1>4, <2>1, Zenon
  <2> QED BY <1>1, <2>2, Zenon
<1>6. Flat(g)
  <2> HIDE DEF f
  <2> QED BY <1>5, Zenon
<1>7. \A i \in 1 .. n : g[i] = IF i = 1 THEN t[i] ELSE g[i - 1] \o t[i]
  <2> HIDE DEF g
  <2> QED BY <1>1, <1>6, Zenon
<1> HIDE DEF g
<1> DEFINE T == {i \in 0 .. n : i = 0 \/ g[i] \in Seq(S)}
<1>8. ASSUME NEW m \in 1 .. n, m - 1 \in T PROVE m \in T
  <2>1. t[m] \in Seq(S)
    OBVIOUS
  <2>2. CASE m = 1
    BY <1>7, <2>1, <2>2
  <2>3. CASE m # 1
    <3>1. g[m - 1] \in Seq(S)
      BY <1>8, <2>3
    <3>2. g[m] = g[m - 1] \o t[m]
      BY <1>7, <2>3
    <3>3. g[m] \in Seq(S)
      BY <2>1, <3>1, <3>2
    <3> QED BY <3>3
  <2> QED BY <2>2, <2>3
<1>9. n \in T
  <2>1. Inductive(T, n)
    BY <1>8 DEF Inductive
  <2> HIDE DEF T
  <2> QED BY <2>1, UpTo
<1> QED BY <1>1, <1>2, <1>9

(* An accepted layout string is a sequence of letters that fits.           *)
LEMMA AcceptedFits ==
  ASSUME typed \in Seq(Token), Accepted
  PROVE  Fits(asked, Len(asked))
<1> DEFINE S == Letters \cup {"?", "end"}
           n == Len(typed)
           t == [i \in DOMAIN typed |-> Expand(typed[i])]
<1>1. n \in Nat \ {0} /\ DOMAIN typed = 1 .. n
  BY DEF Accepted
<1>2. ASSUME NEW u \in Token PROVE Expand(u) \in Seq(S)
  <2> DEFINE m == IF u.count = 0 THEN 1 ELSE u.count
             c == u.letter
  <2>1. u.count \in Nat /\ c \in S
    BY LayoutAssumption DEF Token
  <2>2. m \in Nat
    BY <2>1
  <2>3. "c" \in S
    BY DEF Letters
  <2> HIDE DEF m, S
  <2>4. [i \in 1 .. m |-> "c"] \in Seq(S) /\ [i \in 1 .. m |-> c] \in Seq(S) /\ << >> \in Seq(S)
    <3>1. \A y \in S : [i \in 1 .. m |-> y] \in Seq(S)
      BY <2>2
    <3>2. << >> \in Seq(S)
      OBVIOUS
    <3> HIDE DEF c
    <3> QED BY <2>1, <2>3, <3>1, <3>2
  <2>5. Expand(u) = CASE c = "?" -> << >>
                      [] c = "end" -> [i \in 1 .. m |-> "c"]
                      [] OTHER -> [i \in 1 .. m |-> c]
    BY Zenon DEF Expand, m
  <2> HIDE DEF c
  <2>6. CASE c = "?"
    BY <2>4, <2>5, <2>6
  <2>7. CASE c = "end"
    <3>1. c # "?"
      BY <2>7
    <3> QED BY <2>4, <2>5, <2>7, <3>1
  <2>8. CASE c # "?" /\ c # "end"
    BY <2>4, <2>5, <2>8
  <2> QED BY <2>6, <2>7, <2>8
<1>3. t \in [1 .. n -> Seq(S)]
  <2> HIDE DEF S, n
  <2>1. \A i \in 1 .. n : typed[i] \in Token
    BY <1>1 DEF n
  <2> QED BY <1>1, <1>2, <2>1
<1>4. asked \in Seq(S)
  <2>1. asked = FlattenSeq(t)
    BY Zenon DEF asked, interpreted_format_str
  <2> HIDE DEF S, n, t
  <2> QED BY <1>1, <1>3, <2>1, FlattenedIsSeq
<1>5. Len(asked) \in Nat /\ DOMAIN asked = 1 .. Len(asked)
  <2> HIDE DEF S
  <2> QED BY <1>4
<1>6. enough_bits_for_layout(asked)
  BY DEF Accepted, asked
<1> QED BY <1>5, <1>6 DEF Fits

(* What is left of a moved object's header is a forward to where it is.    *)
LeftForwards ==
  left # NoWord => home \in Word /\ left = set_header_forward_address(home)

(* The next move finds room in the layout for the string it makes.         *)
CopyFits == pc = "live" => header # NoWord /\ Fits(copy, Len(copy))

(* The inductive invariant. *)
LayoutInv ==
  TypeOK /\ PointersKept /\ SizeKept /\ NeverLost /\ HeaderIsNoFooter /\ LeftForwards /\ CopyFits

(* What LayoutInv says of an object whose layout is written as s. *)
Carries(w, s) ==
  LET c == bit_vector_to_format_string(w) IN
  /\ w \in Word /\ w # NoWord
  /\ get_header_type(w) = BIT_VECTOR
  /\ ~confirm_tag(w)
  /\ Fits(c, Len(c))
  /\ PointersOf(c) = PointersOf(s)
  /\ format_str_bytes(s) > 0 => /\ get_size_bits_field(w) = format_str_bytes(s)
                                /\ format_str_bytes(c) = format_str_bytes(s)

(* Every header made of a string that fits does so. *)
LEMMA HeaderCarries ==
  ASSUME NEW s, NEW n, Fits(s, n)
  PROVE  Carries(to_bit_vector(s), s)
<1> DEFINE w == to_bit_vector(s)
           c == bit_vector_to_format_string(w)
<1>1. /\ w \in Word
      /\ get_header_type(w) = BIT_VECTOR
      /\ ~confirm_tag(w)
      /\ get_size_bits_field(w) = format_str_bytes(s)
  BY HeaderOfString
<1>2. /\ \E x : Fits(c, x)
      /\ PointersOf(c) = PointersOf(s)
      /\ n > 0 => format_str_bytes(c) = format_str_bytes(s)
  BY LayoutSurvivesHeader
<1>3. format_str_bytes(s) > 0 => n > 0
  <2>1. n \in Nat /\ format_str_bytes(s) = 4 * (End(s, n) + Stars(s, n))
    BY FittingSizes DEF Fits
  <2>2. End(s, 0) = 0 /\ Stars(s, 0) = 0
    <3>1. LetterByLetter(s, {"*"})
      BY AmongStep
    <3> QED BY <3>1, EndStep DEF LetterByLetter, Stars
  <2>3. n = 0 => format_str_bytes(s) = 0
    BY <2>1, <2>2
  <2> QED BY <2>1, <2>3
<1> HIDE DEF w
<1>4. Fits(c, Len(c))
  BY <1>2 DEF Fits
<1>5. w # NoWord
  BY <1>1, WordFacts DEF Word, NoWord
<1>6. Carries(w, s)
  BY <1>1, <1>2, <1>3, <1>4, <1>5 DEF Carries
<1> QED BY <1>6 DEF w

(* A header made of the string of another carries the same layout.         *)
LEMMA HeaderRenewed ==
  ASSUME NEW w, NEW s, Carries(w, s)
  PROVE  /\ enough_bits_for_layout(bit_vector_to_format_string(w))
         /\ Carries(to_bit_vector(bit_vector_to_format_string(w)), s)
<1> DEFINE c == bit_vector_to_format_string(w)
           new == to_bit_vector(c)
<1>1. Fits(c, Len(c))
  BY DEF Carries
<1>2. Carries(new, c)
  BY <1>1, HeaderCarries
<1>3. enough_bits_for_layout(c)
  BY <1>1 DEF Fits
<1>4. PointersOf(c) = PointersOf(s) /\ (format_str_bytes(s) > 0 => format_str_bytes(c) = format_str_bytes(s))
  BY DEF Carries
<1> HIDE DEF c, new
<1>5. Carries(new, s)
  BY <1>2, <1>4 DEF Carries
<1> QED BY <1>3, <1>5 DEF c, new

(* The invariant in these terms. *)
LEMMA LiveCarries ==
  LayoutInv <=> /\ TypeOK /\ NeverLost /\ HeaderIsNoFooter /\ LeftForwards
                /\ pc = "live" => Carries(header, asked)
<1>1. ASSUME pc = "live"
      PROVE  (TypeOK /\ HeaderIsNoFooter /\ PointersKept /\ SizeKept /\ CopyFits)
               => Carries(header, asked)
  BY <1>1 DEF PointersKept, SizeKept, CopyFits, Carries, TypeOK, HeaderIsNoFooter, copy
<1>2. ASSUME pc = "live", Carries(header, asked)
      PROVE  PointersKept /\ SizeKept /\ CopyFits
  BY <1>2 DEF PointersKept, SizeKept, CopyFits, Carries, copy
<1>3. pc # "live" => PointersKept /\ SizeKept /\ CopyFits
  BY DEF PointersKept, SizeKept, CopyFits
<1> QED BY <1>1, <1>2, <1>3 DEF LayoutInv

(* The first state satisfies it. *)
LEMMA LayoutInitInv == Init => LayoutInv
<1> SUFFICES ASSUME Init PROVE LayoutInv
  OBVIOUS
<1>1. typed \in Seq(Token)
  BY DEF Init
<1>2. TypeOK
  BY <1>1, LayoutAssumption DEF Init, TypeOK
<1>3. NeverLost /\ HeaderIsNoFooter /\ LeftForwards /\ pc # "live"
  BY DEF Init, NeverLost, HeaderIsNoFooter, LeftForwards
<1> QED BY <1>2, <1>3, LiveCarries

(* Typing changes no header. *)
LEMMA TypeKeeps ==
  ASSUME LayoutInv, NEW t \in Token, Type(t)
  PROVE  LayoutInv'
<1>1. typed' \in Seq(Token)
  <2>1. typed \in Seq(Token) /\ typed' = Append(typed, t)
    BY DEF LayoutInv, TypeOK, Type
  <2> QED BY <2>1
<1>2. pc' = "typing" /\ UNCHANGED <<header, left, home, pc, moves>>
  BY DEF Type
<1> QED BY <1>1, <1>2, LiveCarries
        DEF LayoutInv, TypeOK, NeverLost, HeaderIsNoFooter, LeftForwards,
            PointersKept, SizeKept, CopyFits

(* The first header carries the layout asked for. *)
LEMMA AllocateKeeps == LayoutInv /\ Allocate => LayoutInv'
<1> SUFFICES ASSUME LayoutInv, Allocate PROVE LayoutInv'
  OBVIOUS
<1>1. typed' = typed /\ UNCHANGED <<left, home, moves>> /\ asked' = asked
  BY DEF Allocate, asked
<1>2. CASE Accepted /\ header' = to_bit_vector(asked) /\ pc' = "live"
  <2>1. Fits(asked, Len(asked))
    BY <1>2, AcceptedFits DEF LayoutInv, TypeOK
  <2>2. Carries(header', asked')
    BY <1>1, <1>2, <2>1, HeaderCarries
  <2>3. header' \in Word /\ get_header_type(header') = BIT_VECTOR /\ ~confirm_tag(header')
    BY <2>2 DEF Carries
  <2> QED BY <1>1, <1>2, <2>2, <2>3
          DEF LayoutInv, TypeOK, NeverLost, HeaderIsNoFooter, LeftForwards,
              PointersKept, SizeKept, CopyFits, Carries, copy
<1>3. CASE pc' = "refused" /\ header' = header
  BY <1>1, <1>3
     DEF LayoutInv, TypeOK, NeverLost, HeaderIsNoFooter, LeftForwards,
         PointersKept, SizeKept, CopyFits
<1> QED BY <1>2, <1>3 DEF Allocate, asked

(* A move hands the layout on, and leaves a forward behind. *)
LEMMA MoveKeeps ==
  ASSUME LayoutInv, NEW a \in Addresses, Move(a)
  PROVE  LayoutInv'
<1>1. Carries(header, asked) /\ typed' = typed /\ asked' = asked /\ pc = "live"
  BY LiveCarries DEF Move, asked
<1>2. enough_bits_for_layout(copy) /\ Carries(to_bit_vector(copy), asked)
  BY <1>1, HeaderRenewed DEF copy
<1>3. /\ header' = to_bit_vector(copy)
      /\ left' = set_header_forward_address(a)
      /\ home' = a /\ moves' = moves + 1 /\ pc' = "live" /\ moves < MaxMoves
  BY <1>1, <1>2 DEF Move, copy
<1>4. Carries(header', asked')
  BY <1>1, <1>2, <1>3
<1>5. header' \in Word /\ get_header_type(header') = BIT_VECTOR /\ ~confirm_tag(header')
  BY <1>4 DEF Carries
<1>6. a \in Word /\ a \in Nat
  BY LayoutAssumption, WordFacts DEF Word
<1>7. left' \in Word /\ ~confirm_tag(left')
  BY <1>3, <1>6, WordFacts, NoHeaderIsFooter
<1>8. moves' \in 0 .. MaxMoves
  <2>1. moves \in 0 .. MaxMoves /\ MaxMoves \in Nat
    BY LayoutAssumption DEF LayoutInv, TypeOK
  <2> QED BY <1>3, <2>1
<1>9. typed' \in Seq(Token)
  BY <1>1 DEF LayoutInv, TypeOK
<1> QED BY <1>3, <1>4, <1>5, <1>6, <1>7, <1>8, <1>9
        DEF LayoutInv, TypeOK, NeverLost, HeaderIsNoFooter, LeftForwards,
            PointersKept, SizeKept, CopyFits, Carries, copy

(* LayoutInv holds in every reachable state. *)
THEOREM LayoutInvariance == Spec => []LayoutInv
<1>1. ASSUME LayoutInv, [Next]_vars PROVE LayoutInv'
  <2>1. CASE \E t \in Token : Type(t)
    BY <1>1, <2>1, TypeKeeps
  <2>2. CASE Allocate
    BY <1>1, <2>2, AllocateKeeps
  <2>3. CASE \E a \in Addresses : Move(a)
    BY <1>1, <2>3, MoveKeeps
  <2>4. CASE UNCHANGED vars
    BY <1>1, <2>4
       DEF vars, LayoutInv, TypeOK, NeverLost, HeaderIsNoFooter, LeftForwards,
           PointersKept, SizeKept, CopyFits, asked, copy
  <2> QED BY <1>1, <2>1, <2>2, <2>3, <2>4 DEF Next
<1> QED BY <1>1, LayoutInitInv, PTL DEF Spec

(* Headers fit their words, in every reachable state and for every width.  *)
THEOREM LayoutTypeCorrect == Spec => []TypeOK
<1>1. LayoutInv => TypeOK
  BY DEF LayoutInv
<1> QED BY <1>1, LayoutInvariance, PTL

(* However often an object is moved, its pointers stay where the program   *)
(* put them (bit_vector.c:27-71, 107-136).                                 *)
THEOREM PointersAlwaysKept == Spec => []PointersKept
<1>1. LayoutInv => PointersKept
  BY DEF LayoutInv
<1> QED BY <1>1, LayoutInvariance, PTL

(* Its size stays that of the layout asked for (bit_vector.c:81-83,        *)
(* 113-131).                                                               *)
THEOREM SizeAlwaysKept == Spec => []SizeKept
<1>1. LayoutInv => SizeKept
  BY DEF LayoutInv
<1> QED BY <1>1, LayoutInvariance, PTL

(* No layout that was accepted once is refused when its object is moved    *)
(* (gc.c:411).                                                             *)
THEOREM LayoutNeverLost == Spec => []NeverLost
<1>1. LayoutInv => NeverLost
  BY DEF LayoutInv
<1> QED BY <1>1, LayoutInvariance, PTL

(* Neither a header nor what a move leaves behind ever ends a search for a *)
(* footer (traverse_stack.c:31-55).                                        *)
THEOREM HeaderIsNeverFooter == Spec => []HeaderIsNoFooter
<1>1. LayoutInv => HeaderIsNoFooter
  BY DEF LayoutInv
<1> QED BY <1>1, LayoutInvariance, PTL

(* The other roots of a moved object find it through the header left at    *)
(* its old place, if its new one is at a multiple of four                  *)
(* (header.c:100-105, gc.c:446-452).                                       *)
THEOREM ForwardAlwaysFound == Spec => []ForwardFound
<1>1. LayoutInv => ForwardFound
  BY ForwardRead, WordFacts DEF LayoutInv, LeftForwards, ForwardFound, Word
<1> QED BY <1>1, LayoutInvariance, PTL
=============================================================================
