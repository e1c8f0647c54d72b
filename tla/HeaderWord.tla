----------------------------- MODULE HeaderWord -----------------------------
(***************************************************************************)
(* The 64 bit words the collector steers by: the header before an object   *)
(* and the footer behind it (src/src/header).  From the top, a word is     *)
(*      size (1 byte) | layout (54 bits) | type (2 bits)                   *)
(* for a bit vector, and the parts are cut elsewhere for the other types.  *)
(* The widths are parameters, so that TLC can work with small words.       *)
(***************************************************************************)
EXTENDS Integers

CONSTANTS
  SizeMod,       \* values of the size field: 2^8
  LayoutSpan,    \* values of the layout field: 2^54
  FooterTag,     \* FOOTER_IDENTIFIER, whose last two bits are 10
  MaxBytes       \* no block is larger than the heap

ASSUME HeaderWordAssumption ==
  /\ SizeMod \in Nat \ {0}
  /\ LayoutSpan \in Nat \ {0}
  /\ FooterTag \in 0 .. 4 * LayoutSpan - 1
  /\ FooterTag % 4 = 2
  /\ MaxBytes \in Nat /\ 4 * MaxBytes + 2 < FooterTag

SizeUnit == 4 * LayoutSpan
WordSpan == SizeMod * SizeUnit
Word == 0 .. WordSpan - 1

(* get_header_type, in the order of the enumeration of common.h. *)
PTR_TO_FORMAT_STRING == 0
FORWARDING_ADDRESS == 1
RAW_LAYOUT == 2

(* Named X_Y: variants of X with a plausible mistake, as in Heap.  This one *)
(* has the type of another header.                                         *)
BIT_VECTOR_Raw == 2
BIT_VECTOR == 3

get_header_type(w) == w % 4

get_size_bits_field(w) == w \div SizeUnit
get_layout_bits_field(w) == (w % SizeUnit) \div 4

(* The type is never set. *)
bit_vector_NoType(bytes, layout) ==
  (bytes % SizeMod) * SizeUnit + 4 * (layout % LayoutSpan)

(* Type and layout are laid over a word that holds the size alone: "size   *)
(* << 56" loses what does not fit the byte.                                *)
bit_vector(bytes, layout) ==
  (bytes % SizeMod) * SizeUnit + 4 * (layout % LayoutSpan) + BIT_VECTOR

create_raw_header(bytes) == ((4 * bytes) % WordSpan) + RAW_LAYOUT
raw_layout_get_size(w) == w \div 4

(* The last two bits of the address make room for the type.                *)
set_header_forward_address(a) == 4 * (a \div 4) + FORWARDING_ADDRESS

(* The type bits are left in. *)
forward_address_Kept(w) == w

(* The collector's way back: it clears the lowest bit, twice (gc.c:449-450).*)
forward_address(w) == 2 * (w \div 2)

(* The size argument is one byte. *)
create_footer(bytes) == (bytes % SizeMod) * SizeUnit + FooterTag

(* All of the word but its size field is compared. *)
confirm_tag(w) == w % SizeUnit = FooterTag
=============================================================================
