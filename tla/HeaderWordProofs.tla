-------------------------- MODULE HeaderWordProofs --------------------------
(***************************************************************************)
(* Theorems about headers and footers for every width of their fields, the *)
(* code's 8, 54 and 2 bits among them.                                     *)
(***************************************************************************)
EXTENDS HeaderWord, TLAPS

(* A word made of a field above a unit and a rest below it gives both back *)
(* (bit_vector.c:80-91).                                                   *)
LEMMA Fields ==
  ASSUME NEW high \in Nat, NEW unit \in Nat \ {0}, NEW low \in 0 .. unit - 1
  PROVE  /\ (high * unit + low) \div unit = high
         /\ (high * unit + low) % unit = low
<1> DEFINE w == high * unit + low
<1>1. high * unit \in Nat /\ w \in Nat
  OBVIOUS
<1>2. /\ w \div unit \in Nat
      /\ w % unit \in 0 .. unit - 1
      /\ w = (w \div unit) * unit + (w % unit)
  BY <1>1
<1>3. ASSUME NEW q \in Nat, NEW r \in 0 .. unit - 1, w = q * unit + r
      PROVE  q = high
  <2>1. CASE q >= high + 1
    <3>1. q * unit >= (high + 1) * unit
      BY <2>1
    <3>2. (high + 1) * unit = high * unit + unit
      OBVIOUS
    <3> QED BY <3>1, <3>2, <1>3, <1>1
  <2>2. CASE high >= q + 1
    <3>1. high * unit >= (q + 1) * unit
      BY <2>2
    <3>2. (q + 1) * unit = q * unit + unit
      OBVIOUS
    <3>3. q * unit \in Nat
      OBVIOUS
    <3> QED BY <3>1, <3>2, <3>3, <1>3, <1>1
  <2> QED BY <2>1, <2>2, <1>3
<1>4. w \div unit = high
  BY <1>2, <1>3
<1> QED BY <1>1, <1>2, <1>4

(* The last two bits of a word are those of its lower part, since a size   *)
(* unit is a multiple of four (header.c:65-75).                            *)
LEMMA TypeOfFields ==
  ASSUME NEW high \in Nat, NEW low \in Nat
  PROVE  (high * SizeUnit + low) % 4 = low % 4
<1> USE HeaderWordAssumption DEF SizeUnit
<1> DEFINE n == high * LayoutSpan
<1>1. n \in Nat /\ high * SizeUnit = 4 * n
  OBVIOUS
<1> HIDE DEF n
<1>2. (4 * n + low) % 4 = low % 4
  BY <1>1
<1> QED BY <1>1, <1>2

(* The search of traverse_stack.c:31-55 recognises every footer, and reads *)
(* from it the size it was made with, cut to a byte (footer.c:7-21).       *)
THEOREM FooterRecognised ==
  ASSUME NEW bytes \in Nat
  PROVE  /\ confirm_tag(create_footer(bytes))
         /\ get_size_bits_field(create_footer(bytes)) = bytes % SizeMod
<1> USE HeaderWordAssumption
<1>1. bytes % SizeMod \in Nat /\ SizeUnit \in Nat \ {0} /\ FooterTag \in 0 .. SizeUnit - 1
  BY DEF SizeUnit
<1> QED BY <1>1, Fields DEF confirm_tag, create_footer, get_size_bits_field

(* A bit vector header gives back size and layout as long as they fit      *)
(* their fields, and its type always (bit_vector.c:73-105).                *)
THEOREM BitVectorRead ==
  ASSUME NEW bytes \in Nat, NEW layout \in Nat
  PROVE  LET w == bit_vector(bytes, layout) IN
         /\ get_size_bits_field(w) = bytes % SizeMod
         /\ get_layout_bits_field(w) = layout % LayoutSpan
         /\ get_header_type(w) = BIT_VECTOR
<1> USE HeaderWordAssumption
<1> DEFINE s == bytes % SizeMod
           l == layout % LayoutSpan
           low == 4 * l + BIT_VECTOR
<1>1. s \in Nat /\ l \in 0 .. LayoutSpan - 1
  OBVIOUS
<1> HIDE DEF s, l
<1>2. SizeUnit \in Nat \ {0} /\ low \in 0 .. SizeUnit - 1
  BY <1>1 DEF SizeUnit, BIT_VECTOR
<1>3. bit_vector(bytes, layout) = s * SizeUnit + low
  <2>1. s * SizeUnit \in Nat
    BY <1>1, <1>2
  <2> QED BY <1>1, <2>1 DEF bit_vector, s, l, BIT_VECTOR
<1>4. low \div 4 = l /\ low % 4 = BIT_VECTOR
  BY <1>1 DEF BIT_VECTOR
<1>5. low \in Nat
  BY <1>2
<1> HIDE DEF low
<1>6. /\ (s * SizeUnit + low) \div SizeUnit = s
      /\ (s * SizeUnit + low) % SizeUnit = low
  BY <1>1, <1>2, Fields
<1>7. (s * SizeUnit + low) % 4 = BIT_VECTOR
  BY <1>1, <1>4, <1>5, TypeOfFields
<1> QED BY <1>3, <1>4, <1>6, <1>7
        DEF get_size_bits_field, get_layout_bits_field, get_header_type, s, l

(* The size of a block in the heap is not cut off by the word              *)
(* (raw_layout.c:16-27).                                                   *)
LEMMA RawHeaderWord ==
  ASSUME NEW bytes \in 0 .. MaxBytes
  PROVE  create_raw_header(bytes) = 4 * bytes + 2
<1> USE HeaderWordAssumption
<1>1. SizeUnit \in Nat /\ WordSpan \in Nat /\ WordSpan >= SizeUnit
  BY DEF WordSpan, SizeUnit
<1>2. 4 * bytes < SizeUnit
  BY DEF SizeUnit
<1>3. (4 * bytes) % WordSpan = 4 * bytes
  BY <1>1, <1>2
<1> QED BY <1>3 DEF create_raw_header, RAW_LAYOUT

(* A raw header gives back the size of every block a heap can hold         *)
(* (raw_layout.c:16-27, header.c:30-34).                                   *)
THEOREM RawHeaderRead ==
  ASSUME NEW bytes \in 0 .. MaxBytes
  PROVE  /\ get_header_type(create_raw_header(bytes)) = RAW_LAYOUT
         /\ raw_layout_get_size(create_raw_header(bytes)) = bytes
BY RawHeaderWord DEF get_header_type, raw_layout_get_size, RAW_LAYOUT

(* The address in a forwarding header is found again if it is a multiple   *)
(* of four, and the header is recognised as one (header.c:100-105,         *)
(* gc.c:446-450).                                                          *)
THEOREM ForwardRead ==
  ASSUME NEW a \in Nat
  PROVE  /\ get_header_type(set_header_forward_address(a)) = FORWARDING_ADDRESS
         /\ a % 4 = 0 => forward_address(set_header_forward_address(a)) = a
BY DEF get_header_type, set_header_forward_address, forward_address, FORWARDING_ADDRESS

(* No header is taken for a footer: neither a bit vector, nor what a move  *)
(* leaves behind, nor the header of a raw block (footer.c:17-21).          *)
THEOREM NoHeaderIsFooter ==
  /\ \A bytes, layout \in Nat : ~confirm_tag(bit_vector(bytes, layout))
  /\ \A a \in Nat : ~confirm_tag(set_header_forward_address(a))
  /\ \A bytes \in 0 .. MaxBytes : ~confirm_tag(create_raw_header(bytes))
<1> USE HeaderWordAssumption
<1>0. SizeUnit \in Nat \ {0} /\ SizeUnit % 4 = 0
  BY DEF SizeUnit
<1>1. ASSUME NEW w \in Nat, confirm_tag(w) PROVE w % 4 = 2
  <2> DEFINE q == w \div SizeUnit
  <2>1. q \in Nat /\ w = q * SizeUnit + FooterTag
    BY <1>0, <1>1 DEF confirm_tag
  <2> HIDE DEF q
  <2>2. (q * SizeUnit + FooterTag) % 4 = FooterTag % 4
    BY <2>1, TypeOfFields
  <2> QED BY <2>1, <2>2
<1>2. ASSUME NEW bytes \in Nat, NEW layout \in Nat
      PROVE  ~confirm_tag(bit_vector(bytes, layout))
  <2>1. bit_vector(bytes, layout) % 4 = 3
    BY BitVectorRead DEF get_header_type, BIT_VECTOR
  <2>2. bit_vector(bytes, layout) \in Nat
    <3>1. bytes % SizeMod \in Nat /\ layout % LayoutSpan \in Nat
      OBVIOUS
    <3>2. (bytes % SizeMod) * SizeUnit \in Nat
      BY <1>0, <3>1
    <3> QED BY <3>1, <3>2 DEF bit_vector, BIT_VECTOR
  <2> QED BY <1>1, <2>1, <2>2
<1>3. ASSUME NEW a \in Nat PROVE ~confirm_tag(set_header_forward_address(a))
  <2>1. /\ set_header_forward_address(a) \in Nat
        /\ set_header_forward_address(a) % 4 = 1
    BY DEF set_header_forward_address, FORWARDING_ADDRESS
  <2> QED BY <1>1, <2>1
<1>4. ASSUME NEW bytes \in 0 .. MaxBytes PROVE ~confirm_tag(create_raw_header(bytes))
  <2>1. create_raw_header(bytes) = 4 * bytes + 2
    BY RawHeaderWord
  <2>2. 4 * bytes + 2 < FooterTag /\ FooterTag < SizeUnit
    BY DEF SizeUnit
  <2>3. (4 * bytes + 2) % SizeUnit = 4 * bytes + 2
    BY <1>0, <2>2
  <2> QED BY <2>1, <2>2, <2>3 DEF confirm_tag
<1> QED BY <1>2, <1>3, <1>4
=============================================================================
