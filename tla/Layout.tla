------------------------------- MODULE Layout -------------------------------
(***************************************************************************)
(* From a layout string to the header of a struct, and back whenever the   *)
(* collector moves it: format_str.c and bit_vector.c, as h_alloc_struct    *)
(* and garbage_collection use them.                                        *)
(*                                                                         *)
(* A layout string, without the space around it, is a sequence of tokens,  *)
(* a letter with a repeat count or without one (count 0).  "?" stands for  *)
(* any character with no meaning, the digit 0 included, and "end" for the  *)
(* end of the string directly behind a number.  A blank string parses like *)
(* a number before "?".                                                    *)
(***************************************************************************)
EXTENDS HeaderWord, Sequences, FiniteSets, SequencesExt

CONSTANTS
  MaxLayoutBits,   \* MAX_LAYOUT_BITS
  Counts,          \* the repeat counts programs write, and 0 for none
  MaxTokens,       \* bound: length of a layout string
  MaxMoves,        \* bound: collections the object lives through
  Addresses        \* where the object may be moved to

(* The word whose bit i from the right is the only one set: 1 << i.        *)
one_bit[i \in 0 .. MaxLayoutBits] == IF i = 0 THEN 1 ELSE 2 * one_bit[i - 1]

(* An address is a word. *)
ASSUME LayoutAssumption ==
  /\ MaxLayoutBits \in Nat \ {0}
  /\ LayoutSpan = one_bit[MaxLayoutBits]
  /\ 4 * MaxLayoutBits < SizeMod
  /\ Counts \subseteq Nat
  /\ Addresses \subseteq Word
  /\ MaxTokens \in Nat /\ MaxMoves \in Nat

VARIABLES
  typed,     \* the layout string the program has put together
  header,    \* the header of the object, NoWord before it has one
  left,      \* what is left of the header at the place it was moved from
  home,      \* the address of the header
  pc,        \* "typing", "live", "refused" or "lost" (the copy was refused)
  moves      \* history: how often the object has been moved

vars == <<typed, header, left, home, pc, moves>>

NoWord == -1
Letters == {"*", "c", "i", "l", "f", "d"}
Token == [count : Counts, letter : Letters \cup {"?", "end"}]

-----------------------------------------------------------------------------
(* A number in front of a character with no meaning makes it harmless.     *)
Understood(tokens) ==
  \A i \in DOMAIN tokens : tokens[i].count > 0 \/ tokens[i].letter \in Letters

Expand(t) ==
  LET n == IF t.count = 0 THEN 1 ELSE t.count IN
  CASE t.letter = "?"   -> << >>
    [] t.letter = "end" -> [i \in 1 .. n |-> "c"]
    [] OTHER            -> [i \in 1 .. n |-> t.letter]

interpreted_format_str(tokens) == FlattenSeq([i \in DOMAIN tokens |-> Expand(tokens[i])])

(* How many of the first n letters are in S. *)
Among(str, n, S) == Cardinality({i \in 1 .. n : str[i] \in S})

format_str_bytes(str) == 4 * (Len(str) + Among(str, Len(str), {"*", "l", "d"}))

(* A pointer is counted as the one bit it takes in the layout. *)
required_bits_One(str) == Len(str) + Among(str, Len(str), {"l", "d"})
required_bits(str) == Len(str) + Among(str, Len(str), {"*", "l", "d"})
enough_bits_for_layout(str) == required_bits(str) <= MaxLayoutBits

(* The bit of letter k, from the most significant on.  A pointer takes one *)
(* bit, eight bytes of anything else two.                                  *)
bit_index_Words(str, k) == (k - 1) + Among(str, k - 1, {"*", "l", "d"})
bit_index(str, k) == (k - 1) + Among(str, k - 1, {"l", "d"})

(* Bit i from the left of the layout, which is not set yet. *)
set_bit_at_index_from_msb(bits, i) == bits + one_bit[MaxLayoutBits - 1 - i]
get_bit_at_index_from_msb(bits, i) == (bits \div one_bit[MaxLayoutBits - 1 - i]) % 2

(* Letter by letter: the bits of other letters are zero already.           *)
get_layout_bits(str) ==
  LET layout_bits[k \in 0 .. Len(str)] ==
        IF k = 0 THEN 0
        ELSE IF str[k] = "*"
               THEN set_bit_at_index_from_msb(layout_bits[k - 1], bit_index(str, k))
               ELSE layout_bits[k - 1]
  IN  layout_bits[Len(str)]

to_bit_vector(str) == bit_vector(format_str_bytes(str), get_layout_bits(str))

-----------------------------------------------------------------------------
LayoutBit(w, i) == get_bit_at_index_from_msb(get_layout_bits_field(w), i)

(* The bytes the first n bits of the layout stand for. *)
Accumulated(w, n) == 4 * (n + Cardinality({i \in 0 .. n - 1 : LayoutBit(w, i) = 1}))

(* The loop goes on until the sum is above the size. *)
Enough_Above(w, n) == Accumulated(w, n) > get_size_bits_field(w) \/ n = MaxLayoutBits
Enough(w, n) == Accumulated(w, n) >= get_size_bits_field(w) \/ n = MaxLayoutBits

(* At least one letter, and as many as it takes to reach the size. *)
bit_vector_to_format_string(w) ==
  LET stops == {n \in 1 .. MaxLayoutBits : Enough(w, n)}
      last == CHOOSE n \in stops : \A m \in stops : n <= m
  IN  [i \in 1 .. last |-> IF LayoutBit(w, i - 1) = 1 THEN "*" ELSE "i"]

-----------------------------------------------------------------------------
Init ==
  /\ typed = << >> /\ pc = "typing" /\ moves = 0
  /\ header = NoWord /\ left = NoWord /\ home = 0

Type(t) ==
  /\ pc = "typing" /\ Len(typed) < MaxTokens
  /\ \A i \in DOMAIN typed : typed[i].letter # "end"
  /\ t.letter = "end" => t.count > 0
  /\ typed' = Append(typed, t)
  /\ UNCHANGED <<header, left, home, pc, moves>>

(* h_alloc_struct with the layout, on a heap that has room: an empty       *)
(* string is refused, one that expands to nothing is not.                  *)
Accepted ==
  /\ typed # << >> /\ Understood(typed)
  /\ enough_bits_for_layout(interpreted_format_str(typed))

Allocate ==
  /\ pc = "typing"
  /\ \/ /\ Accepted
        /\ header' = to_bit_vector(interpreted_format_str(typed))
        /\ pc' = "live"
     \/ ~Accepted /\ pc' = "refused" /\ header' = header
  /\ UNCHANGED <<typed, left, home, moves>>

(* garbage_collection gives the object a new header from the string that   *)
(* it makes of the old one, and turns the old one into a forward.          *)
Move(a) ==
  LET str == bit_vector_to_format_string(header) IN
  /\ pc = "live" /\ moves < MaxMoves
  /\ get_header_type(header) = BIT_VECTOR
  /\ \/ /\ enough_bits_for_layout(str)
        /\ header' = to_bit_vector(str)
        /\ left' = set_header_forward_address(a)
        /\ home' = a /\ moves' = moves + 1 /\ pc' = pc
     \/ ~enough_bits_for_layout(str) /\ pc' = "lost"
        /\ UNCHANGED <<header, left, home, moves>>
  /\ UNCHANGED typed

Next ==
  \/ \E t \in Token : Type(t)
  \/ Allocate
  \/ \E a \in Addresses : Move(a)

Spec == Init /\ [][Next]_vars
-----------------------------------------------------------------------------
asked == interpreted_format_str(typed)
copy == bit_vector_to_format_string(header)

(* The byte offsets of the pointers in an object with layout str. *)
PointersOf(str) ==
  {4 * (k - 1 + Among(str, k - 1, {"*", "l", "d"})) : k \in {i \in DOMAIN str : str[i] = "*"}}

(* Every variable has its type: a header fits its word, and stays a bit    *)
(* vector for as long as the object is live (bit_vector.c:73-94).          *)
TypeOK ==
  /\ typed \in Seq(Token)
  /\ header \in Word \cup {NoWord} /\ left \in Word \cup {NoWord}
  /\ pc \in {"typing", "live", "refused", "lost"}
  /\ pc = "live" => get_header_type(header) = BIT_VECTOR
  /\ home \in Addresses \cup {0} /\ moves \in 0 .. MaxMoves

(* However often an object is moved, its header tells pointers from other  *)
(* data at the very offsets the program asked for, though the string made  *)
(* from the header spells the layout in other letters (bit_vector.c:27-71, *)
(* 107-136).                                                               *)
PointersKept == pc = "live" => PointersOf(copy) = PointersOf(asked)

(* The size in the header is that of the layout asked for and that of the  *)
(* string the next move will allocate with, unless there are no bytes at   *)
(* all (format_str.c:156-190, bit_vector.c:81-83, 113-131).                *)
SizeKept ==
  (pc = "live" /\ format_str_bytes(asked) > 0) =>
    /\ get_size_bits_field(header) = format_str_bytes(asked)
    /\ format_str_bytes(copy) = format_str_bytes(asked)

(* A layout that was accepted once is accepted again from its header, so   *)
(* the assertion that the copy was allocated (gc.c:411) can only fail for  *)
(* want of room.                                                           *)
NeverLost == pc # "lost"

(* Neither the header of an object nor what is left at its old place is    *)
(* ever taken for a footer by the search of traverse_stack.c:31-55.        *)
HeaderIsNoFooter ==
  /\ header # NoWord => ~confirm_tag(header)
  /\ left # NoWord => ~confirm_tag(left)

(* Other roots find the object through the header left at its old place,   *)
(* if the new one is at a multiple of four (header.c:100-105, gc.c:449).   *)
ForwardFound ==
  (left # NoWord /\ home % 4 = 0) =>
    /\ get_header_type(left) = FORWARDING_ADDRESS
    /\ forward_address(left) = home
=============================================================================
