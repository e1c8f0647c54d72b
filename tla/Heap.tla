-------------------------------- MODULE Heap --------------------------------
(***************************************************************************)
(* The allocator of src/src/gc.c: the bump pointer alloc_front, the table  *)
(* of active spaces, the byte counter used_bytes and the allocation map,   *)
(* with the two allocation entry points and the part of h_gc_dbg that      *)
(* prepares the heap for copying.                                          *)
(*                                                                         *)
(* Addresses are byte offsets from spaces[0].  A layout string is reduced  *)
(* to the number of data bytes format_str_bytes computes for it.  The      *)
(* sizes of spaces, segments and headers are parameters, so that TLC can   *)
(* work on small ones; the code has 2048, 16 and 8.                        *)
(***************************************************************************)
EXTENDS Integers, Sequences

CONSTANTS
  SpaceSize,     \* SPACE_SIZE, bytes of one space
  SegSize,       \* MIN_OBJ_SIZE, bytes one bit of alloc_map stands for
  HeaderSize,    \* HEADER_SIZE_BYTES, of a header and of a footer
  NumSpaces,     \* number_of_spaces
  StructSizes,   \* data bytes of the layouts the program allocates
  RawSizes       \* byte counts the program passes to h_alloc_raw

(* What h_init demands (gc.c:30-51) and what the layouts guarantee: at     *)
(* most 54 words of 4 bytes, far less than a space.                        *)
ASSUME HeapAssumption ==
  /\ HeaderSize \in Nat \ {0}
  /\ SegSize \in Nat \ {0}
  /\ SpaceSize \in Nat \ {0}
  /\ NumSpaces \in Nat /\ NumSpaces >= 4 /\ NumSpaces % 2 = 0
  /\ StructSizes \subseteq Nat
  /\ \A s \in StructSizes : s + 2 * HeaderSize <= SpaceSize
  /\ RawSizes \subseteq Nat

(* MIN_OBJ_SIZE is two headers (common.h:19-20), and a space is a whole    *)
(* number of segments (gc.c:25).                                           *)
ASSUME SegmentAssumption ==
  /\ SegSize = 2 * HeaderSize
  /\ SpaceSize % SegSize = 0

VARIABLES
  front,    \* alloc_front
  used,     \* used_bytes
  active,   \* space_is_active
  map,      \* alloc_map, as the set of segments whose bit is set
  ret,      \* what the last allocation returned, NULL or a data pointer
  objs,     \* history: the blocks placed since the last reset, oldest first
  base,     \* history: position in objs of the first block since front last
            \* went back to the start of a space
  top       \* history: the furthest front ever reached

vars == <<front, used, active, map, ret, objs, base, top>>

-----------------------------------------------------------------------------
HeapSize == NumSpaces * SpaceSize
Spaces == 0 .. NumSpaces - 1

(* No data pointer is at offset 0, where the first header is. *)
NULL == 0

Block == [hdr : Nat, size : Nat, kind : {"struct", "raw"}]

(* A block is a header, the data and a footer. *)
Footprint(size) == size + 2 * HeaderSize
EndOf(b) == b.hdr + Footprint(b.size)
DataOf(b) == b.hdr + HeaderSize

h_used == used
h_avail == IF HeapSize < used THEN 0 ELSE HeapSize - h_used

(* Definitions named X_Y are variants of X with a plausible mistake in     *)
(* them.  No specification uses them: they show which property notices     *)
(* the mistake (PROJECT.json, "mutants").                                  *)

(* The last segment is left out. *)
set_alloc_map_Short(a, b) ==
  {i \in a \div SegSize .. b \div SegSize : i + 1 < b \div SegSize}

(* Segments from that of address a up to, not including, that of b. *)
set_alloc_map(a, b) == {i \in a \div SegSize .. b \div SegSize : i < b \div SegSize}

(* "<=" for "<" in the loop. *)
MarkFromHeader_TooFar(hdr, size) ==
  LET first == (hdr + HeaderSize - 1) \div SegSize
      count == (size + HeaderSize + SegSize - 1) \div SegSize
  IN  first .. first + count

(* The second marking loop of h_alloc_struct: it starts in the segment of  *)
(* the byte before the data and marks one segment per SegSize bytes of     *)
(* data and header.                                                        *)
MarkFromHeader(hdr, size) ==
  LET first == (hdr + HeaderSize - 1) \div SegSize
      count == (size + HeaderSize + SegSize - 1) \div SegSize
  IN  {i \in first .. first + count : i < first + count}

(* An address is believed to be a heap pointer if the bit of its segment   *)
(* is set (traverse_stack.c).                                              *)
validate_ptr(p) == p <= HeapSize /\ p \div SegSize \in map

-----------------------------------------------------------------------------
(* A footer written past the calloc'd heap is undefined behaviour: the     *)
(* model goes no further.                                                  *)
Overrun == front > HeapSize

SpaceIndex == front \div SpaceSize
SpaceStart(i) == i * SpaceSize

Granted_SpaceOnly(size) == size + HeaderSize <= SpaceSize

(* Both tests h_alloc_struct makes before it looks at the spaces. *)
Granted(size) ==
  /\ h_avail >= size + HeaderSize
  /\ size + HeaderSize <= SpaceSize

StructFits(size) == size + HeaderSize <= SpaceStart(SpaceIndex) + SpaceSize - front

(* The flags are not read. *)
ActiveFrom_Any(i) == {j \in Spaces : j >= i}

(* Where the walk "while (!space_is_active)" can stop. *)
ActiveFrom(i) == {j \in Spaces : j >= i /\ active[j]}

(* The walk always leaves the current space. *)
FirstActive_Next(i) == i + 1

FirstActive(i) == CHOOSE j \in ActiveFrom(i) : \A k \in ActiveFrom(i) : j <= k

(* The front before the header is written: unchanged, or the start of the  *)
(* first active space from the current one on -- which is the current one  *)
(* when it is active and only too full.                                    *)
Landing(size) ==
  IF active[SpaceIndex] /\ StructFits(size)
    THEN front
    ELSE SpaceStart(FirstActive(SpaceIndex))

Refuse == ret' = NULL /\ UNCHANGED <<front, used, active, map, objs, base, top>>

Raise(a) == top' = IF a > top THEN a ELSE top

(* alloc_front steps over header, data and footer. *)
Bump_NoFooter(b) == front' = EndOf(b) - HeaderSize
Bump(b) == front' = EndOf(b)

(* Both increments of used_bytes: one counts header and footer, the other  *)
(* the header only.                                                        *)
StructCharge(size) == (size + 2 * HeaderSize) + (size + HeaderSize)

(* Lines 263 to 324, with the header at address at. *)
PlaceStruct(size, at) ==
  LET b == [hdr |-> at, size |-> size, kind |-> "struct"] IN
  /\ Bump(b)
  /\ used' = used + StructCharge(size)
  /\ map' = map \cup set_alloc_map(front, EndOf(b)) \cup MarkFromHeader(at, size)
  /\ ret' = DataOf(b)
  /\ objs' = Append(objs, b)
  /\ base' = IF at = front THEN base ELSE Len(objs) + 1
  /\ Raise(EndOf(b))
  /\ UNCHANGED active

(* No room in the heap, or an invalid layout: nothing is looked at. *)
StructRefused(size) == ~Granted(size) /\ Refuse

(* The walk runs out of spaces. *)
StructNoSpace(size) == Granted(size) /\ ActiveFrom(SpaceIndex) = {} /\ Refuse

(* The second test, which counts the footer too.  It is made behind the    *)
(* line that moves the front, but refuses only where the front has stayed: *)
(* a whole space has room for every layout (NoFooterRoomInPlace).          *)
StructNoFooterRoom(size) ==
  /\ Granted(size) /\ ActiveFrom(SpaceIndex) # {}
  /\ size + HeaderSize
       > SpaceSize - ((Landing(size) % SpaceSize) + HeaderSize)
  /\ front' = Landing(size)
  /\ ret' = NULL
  /\ base' = IF Landing(size) = front THEN base ELSE Len(objs) + 1
  /\ UNCHANGED <<used, active, map, objs, top>>

StructPlaced(size) ==
  /\ Granted(size) /\ ActiveFrom(SpaceIndex) # {}
  /\ size + HeaderSize
       <= SpaceSize - ((Landing(size) % SpaceSize) + HeaderSize)
  /\ PlaceStruct(size, Landing(size))

h_alloc_struct(size) ==
  /\ ~Overrun
  /\ \/ StructRefused(size)
     \/ StructNoSpace(size)
     \/ StructNoFooterRoom(size)
     \/ StructPlaced(size)

(* No layout, an unknown letter, more than 54 layout bits, or "". *)
h_alloc_struct_invalid == ~Overrun /\ Refuse

-----------------------------------------------------------------------------
RawRoom_Any(bytes) == bytes > 0
RawRoom(bytes) == h_avail >= bytes /\ bytes > 0

RawCharge_Data(bytes) == bytes
RawCharge(bytes) == (2 * HeaderSize + bytes) + (HeaderSize + bytes)

RawRefused(bytes) == ~RawRoom(bytes) /\ Refuse

(* No test of the space, of its being active, or of room for header and    *)
(* footer.                                                                 *)
RawPlaced(bytes) ==
  LET b == [hdr |-> front, size |-> bytes, kind |-> "raw"] IN
  /\ RawRoom(bytes)
  /\ Bump(b)
  /\ used' = used + RawCharge(bytes)
  /\ map' = map \cup set_alloc_map(front, EndOf(b))
  /\ ret' = DataOf(b)
  /\ objs' = Append(objs, b)
  /\ Raise(EndOf(b))
  /\ UNCHANGED <<active, base>>

h_alloc_raw(bytes) == ~Overrun /\ (RawRefused(bytes) \/ RawPlaced(bytes))

-----------------------------------------------------------------------------
Flip(a) == [i \in Spaces |-> ~a[i]]

(* h_gc_dbg up to the loop over the roots: the flags are inverted, inverted *)
(* again, and the front goes to the first active space.  With no root, or  *)
(* one (the loop stops before the last), this is the whole of h_gc_dbg.    *)
GcReset ==
  /\ ~Overrun
  /\ active' = Flip(Flip(active))
  /\ front' = IF \E i \in Spaces : active'[i]
                THEN SpaceStart(CHOOSE i \in Spaces :
                       active'[i] /\ \A k \in Spaces : active'[k] => i <= k)
                ELSE front
  /\ used' = 0
  /\ objs' = << >>
  /\ base' = 1
  /\ UNCHANGED <<map, ret, top>>

-----------------------------------------------------------------------------
Init ==   \* h_init
  /\ front = 0
  /\ used = 0
  /\ active = [i \in Spaces |-> i < NumSpaces \div 2]
  /\ map = {}
  /\ ret = NULL
  /\ objs = << >>
  /\ base = 1
  /\ top = 0

Alloc ==
  \/ \E size \in StructSizes : h_alloc_struct(size)
  \/ \E bytes \in RawSizes : h_alloc_raw(bytes)
  \/ h_alloc_struct_invalid

Next == Alloc \/ GcReset

Spec == Init /\ [][Next]_vars

-----------------------------------------------------------------------------
(* Every variable has its type, and used_bytes, which charges a block      *)
(* about twice, stays below twice the heap (gc.c:282, 323, 364-365).       *)
TypeOK ==
  /\ front \in Nat /\ top \in Nat /\ ret \in Nat
  /\ used \in 0 .. 2 * HeapSize + 3 * HeaderSize
  /\ active \in [Spaces -> BOOLEAN]
  /\ map \in SUBSET Nat
  /\ objs \in Seq(Block)
  /\ base \in 1 .. Len(objs) + 1

(* The blocks placed since front last went back to the start of a space    *)
(* lie one behind the other, without a gap, and end at alloc_front         *)
(* (gc.c:263-279, 343-358): what the footer search relies on to step from  *)
(* a data pointer to the footer of the same block.                         *)
WindowTiles ==
  /\ \A i, j \in base .. Len(objs) : i < j => EndOf(objs[i]) <= objs[j].hdr
  /\ \A i \in base .. Len(objs) - 1 : EndOf(objs[i]) = objs[i + 1].hdr
  /\ base <= Len(objs) => EndOf(objs[Len(objs)]) = front

(* A struct, from its header to the end of its footer, lies in one space,  *)
(* and that space is active, also when raw blocks have pushed the front    *)
(* over space boundaries and into the inactive half (gc.c:219-255).        *)
StructsInActiveSpaces ==
  \A i \in 1 .. Len(objs) : objs[i].kind = "struct" =>
    LET s == objs[i].hdr \div SpaceSize IN
    /\ s \in Spaces /\ active[s]
    /\ EndOf(objs[i]) <= SpaceStart(s) + SpaceSize

(* used_bytes, which charges a block more than it occupies and is not      *)
(* lowered when the front goes back, never falls behind alloc_front.       *)
FrontWithinUsed == front <= used

(* h_alloc_struct reads space_is_active[space_index] without a bound       *)
(* check (gc.c:221-223): h_avail has refused the request whenever the      *)
(* front is in no space.                                                   *)
SpaceIndexInBounds ==
  \A size \in StructSizes : Granted(size) => SpaceIndex \in Spaces

(* h_alloc_raw tests for the data bytes only (gc.c:331), yet nothing is    *)
(* ever written further past the heap than one header and one footer.      *)
OverrunBounded == front <= HeapSize + 2 * HeaderSize

(* The data pointer of every block of at least HeaderSize bytes is         *)
(* recognised as a heap pointer, wherever the block starts and whatever    *)
(* happened to the front on the way (gc.c:281-322, traverse_stack.c:67-72).*)
DataPointerMapped ==
  ~Overrun => \A i \in 1 .. Len(objs) :
    objs[i].size >= HeaderSize => validate_ptr(DataOf(objs[i]))

(* No bit is set for a segment that no block ever reached, so an address   *)
(* beyond everything ever allocated is not taken for a pointer.            *)
MapBelowTop == \A i \in map : i * SegSize < top

(* Between resets the front only goes back to the start of the very space  *)
(* it is in, and only moves forward by the block it places: the walk to a  *)
(* later space (gc.c:233-244) never ends in another space.                 *)
FrontSteps ==
  [][\/ front' = front
     \/ used' = 0
     \/ /\ objs' # objs
        /\ LET b == objs'[Len(objs')] IN
           /\ front' = EndOf(b)
           /\ b.hdr \in {front, SpaceStart(SpaceIndex)}]_vars

(* Once raw blocks have pushed the front out of the active half, no struct *)
(* is placed until the heap is reset, however much h_avail promises.       *)
NoStructOutsideActive ==
  [][(SpaceIndex \in Spaces /\ ~active[SpaceIndex] /\ used' # 0)
       => \A i \in Len(objs) + 1 .. Len(objs') : objs'[i].kind = "raw"]_vars

(* The regions the blocks since the last reset occupy. *)
Regions == {[lo |-> objs[i].hdr, hi |-> EndOf(objs[i])] : i \in 1 .. Len(objs)}

AsArena == INSTANCE Arena WITH Size <- HeapSize, Null <- NULL,
                               taken <- Regions, answer <- ret

(* The allocator keeps the promises of gc.h, every block in the heap and   *)
(* with bytes of its own until the next collection, step by step, as long  *)
(* as no request that did not fit in its space has sent the front back to  *)
(* the start of one (gc.c:230-244) and no raw block has left the heap.     *)
ImplementsArena ==
  AsArena!Init /\ [][base' # 1 \/ Overrun' \/ AsArena!Next]_vars

(* Nothing is exempt when all blocks have one footprint and it divides the *)
(* space, so that no request is cut off by the end of a space.             *)
ArenaSpec == AsArena!Spec
=============================================================================
