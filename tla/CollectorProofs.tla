--------------------------- MODULE CollectorProofs ---------------------------
(***************************************************************************)
(* Theorems about the collector, for every heap, every number of slots and *)
(* every set of sizes: what stays true as long as no root came too close   *)
(* to its copy.                                                            *)
(***************************************************************************)
EXTENDS Collector, HeapProofs, InductionProofs

-----------------------------------------------------------------------------
(* Addresses.  A cell is an address of the heap that is a whole number of  *)
(* half headers.                                                           *)
Aligned(a) == \E k \in Int : a = k * Half

(* What the assumptions say of the sizes. *)
LEMMA Sizes ==
  /\ Half \in Nat \ {0} /\ HeaderSize = 2 * Half /\ HeaderSize \in Nat \ {0}
  /\ SpaceSize \in Nat /\ 2 * HeaderSize <= SpaceSize
  /\ HeapSize \in Nat /\ 4 * SpaceSize <= HeapSize
<1> USE HeapAssumption, SegmentAssumption, CollectorAssumption
<1>1. Half \in Nat \ {0} /\ HeaderSize = 2 * Half /\ HeaderSize \in Nat \ {0}
  BY DEF Half
<1>2. SpaceSize \in Nat /\ SegSize \in Nat \ {0} /\ SegSize = 2 * HeaderSize
  OBVIOUS
<1> DEFINE k == SpaceSize \div SegSize
<1>3. k \in Nat /\ SpaceSize = k * SegSize /\ SpaceSize # 0
  BY WholeSegments
<1> HIDE DEF k
<1>4. k # 0 /\ SegSize <= SpaceSize
  BY <1>2, <1>3
<1>5. HeapSize \in Nat /\ 4 * SpaceSize <= HeapSize
  <2>1. NumSpaces \in Nat /\ 4 <= NumSpaces
    OBVIOUS
  <2>2. 4 * SpaceSize <= NumSpaces * SpaceSize /\ NumSpaces * SpaceSize \in Nat
    BY <1>2, <2>1
  <2> QED BY <2>2 DEF HeapSize
<1> QED BY <1>1, <1>2, <1>4, <1>5

(* Sums and differences of such addresses are such addresses.              *)
LEMMA AlignedSum ==
  ASSUME NEW a \in Int, NEW b \in Int, Aligned(a), Aligned(b)
  PROVE  Aligned(a + b) /\ Aligned(a - b)
<1>1. PICK i \in Int, j \in Int : a = i * Half /\ b = j * Half
  BY DEF Aligned
<1>2. Half \in Int
  BY Sizes
<1>3. a + b = (i + j) * Half /\ a - b = (i - j) * Half
  BY <1>1, <1>2
<1>4. i + j \in Int /\ i - j \in Int
  OBVIOUS
<1> QED BY <1>3, <1>4 DEF Aligned

(* Such addresses are at least a cell apart. *)
LEMMA AlignedStep ==
  ASSUME NEW a \in Int, NEW b \in Int, Aligned(a), Aligned(b), a < b
  PROVE  a + Half <= b
<1>1. PICK i \in Int, j \in Int : a = i * Half /\ b = j * Half
  BY DEF Aligned
<1>2. Half \in Nat \ {0}
  BY Sizes
<1>3. i < j
  BY <1>1, <1>2
<1>4. (i + 1) * Half <= j * Half /\ (i + 1) * Half = i * Half + Half
  BY <1>2, <1>3
<1> QED BY <1>1, <1>4

(* Headers, spaces and the sizes of blocks are whole cells. *)
LEMMA AlignedSizes ==
  /\ Aligned(0) /\ Aligned(Half) /\ Aligned(HeaderSize) /\ Aligned(HeapSize)
  /\ \A i \in Int : SpaceStart(i) \in Int /\ Aligned(SpaceStart(i))
  /\ \A size \in StructSizes \cup RawSizes : size \in Nat /\ Aligned(size)
<1>1. Half \in Nat \ {0} /\ HeaderSize = 2 * Half
  BY Sizes
<1>2. Aligned(0) /\ Aligned(Half) /\ Aligned(HeaderSize)
  <2>1. 0 = 0 * Half /\ Half = 1 * Half /\ HeaderSize = 2 * Half
    BY <1>1
  <2> QED BY <2>1 DEF Aligned
<1>3. \A i \in Int : SpaceStart(i) \in Int /\ Aligned(SpaceStart(i))
  <2> DEFINE k == SpaceSize \div SegSize
  <2>1. k \in Nat /\ SpaceSize = k * SegSize /\ SegSize = 2 * HeaderSize
    BY WholeSegments, SegmentAssumption
  <2> HIDE DEF k
  <2> TAKE i \in Int
  <2>2. SpaceSize = (4 * k) * Half
    BY <1>1, <2>1
  <2>3. i * SpaceSize = (i * (4 * k)) * Half /\ i * (4 * k) \in Int
    BY <1>1, <2>1, <2>2
  <2>4. SpaceStart(i) \in Int
    BY <1>1, <2>3 DEF SpaceStart
  <2> QED BY <2>3, <2>4 DEF Aligned, SpaceStart
<1>4. Aligned(HeapSize)
  BY <1>3, HeapAssumption DEF HeapSize, SpaceStart
<1>5. ASSUME NEW size \in StructSizes \cup RawSizes PROVE size \in Nat /\ Aligned(size)
  <2>1. size \in Nat /\ size % Half = 0
    BY HeapAssumption, CollectorAssumption DEF Half
  <2>2. size \div Half \in Nat /\ size = (size \div Half) * Half + (size % Half)
    BY <1>1, <2>1, DivBounds
  <2>3. size = (size \div Half) * Half
    BY <1>1, <2>1, <2>2
  <2> QED BY <2>1, <2>2, <2>3 DEF Aligned
<1> QED BY <1>2, <1>3, <1>4, <1>5

(* The cells of a stretch of memory are the aligned addresses in it. *)
LEMMA CellsOfStretch ==
  ASSUME NEW a \in Int, NEW n \in Nat, Aligned(a), Aligned(n)
  PROVE  \A c : c \in CellsOf(a, n) <=> c \in Int /\ Aligned(c) /\ a <= c /\ c < a + n
<1>1. Half \in Nat \ {0}
  BY Sizes
<1>2. PICK i \in Int, j \in Int : a = i * Half /\ n = j * Half
  BY DEF Aligned
<1>3. j \in Nat /\ n \div Half = j
  <2>1. j \in Nat
    BY <1>1, <1>2
  <2> QED BY <1>1, <1>2, <2>1, DivOfStart
<1>4. ASSUME NEW c \in CellsOf(a, n)
      PROVE  c \in Int /\ Aligned(c) /\ a <= c /\ c < a + n
  <2>1. PICK k \in 0 .. j - 1 : c = a + Half * k
    BY <1>3 DEF CellsOf
  <2>2. c = (i + k) * Half /\ i + k \in Int
    BY <1>1, <1>2, <2>1
  <2>3. 0 <= Half * k /\ (k + 1) * Half <= j * Half /\ (k + 1) * Half = Half * k + Half
    BY <1>1, <1>3, <2>1
  <2>4. Half * k \in Int
    BY <1>1, <2>1
  <2>5. Aligned(c)
    BY <2>2 DEF Aligned
  <2> QED BY <1>1, <1>2, <2>1, <2>3, <2>4, <2>5
<1>5. ASSUME NEW c \in Int, Aligned(c), a <= c, c < a + n PROVE c \in CellsOf(a, n)
  <2>1. PICK k \in Int : c = k * Half
    BY <1>5 DEF Aligned
  <2>2. i <= k /\ k < i + j
    <3>1. ASSUME k < i PROVE FALSE
      <4>1. (k + 1) * Half <= i * Half /\ (k + 1) * Half = k * Half + Half
        BY <1>1, <3>1
      <4> QED BY <1>1, <1>2, <1>5, <2>1, <4>1
    <3>2. ASSUME i + j <= k PROVE FALSE
      <4>1. (i + j) * Half <= k * Half /\ (i + j) * Half = i * Half + j * Half
        BY <1>1, <3>2
      <4> QED BY <1>1, <1>2, <1>5, <2>1, <4>1
    <3> QED BY <1>3, <3>1, <3>2
  <2>3. c = a + Half * (k - i) /\ k - i \in 0 .. j - 1
    BY <1>1, <1>2, <1>3, <2>1, <2>2
  <2> QED BY <1>3, <2>3 DEF CellsOf
<1> QED BY <1>4, <1>5

(* The cells of the heap. *)
LEMMA CellsOfHeap == \A c : c \in Cells <=> c \in Int /\ Aligned(c) /\ 0 <= c /\ c < HeapSize
<1>1. Aligned(0) /\ Aligned(HeapSize) /\ HeapSize \in Nat /\ 0 + HeapSize = HeapSize
  BY AlignedSizes, Sizes
<1> QED BY <1>1, CellsOfStretch DEF Cells

-----------------------------------------------------------------------------
(* The inductive invariant speaks of the bytes of the heap block by block. *)

FooterOf(b) == DataOf(b) + b.size

HasHeader(m, b) == At(m, b.hdr) = BitVec /\ At(m, b.hdr + Half) = <<"desc", b.size>>
HasFooter(m, b) ==
  At(m, FooterOf(b)) = Tag /\ At(m, FooterOf(b) + Half) = create_footer(b.size)
HasData(m, b, k) ==
  \A c \in Cells : DataOf(b) <= c /\ c < FooterOf(b) => m[c] = <<"data", k>>

(* A block as an allocation and the program that filled it leave it.       *)
Written(m, b) ==
  /\ \E k \in Nat : HasData(m, b, k)
  /\ b.kind = "struct" => HasHeader(m, b)
  /\ EndOf(b) <= HeapSize => HasFooter(m, b)

(* Only whole blocks of known sizes are placed, structs inside the heap.   *)
Known(b) ==
  /\ b.size \in IF b.kind = "struct" THEN StructSizes ELSE RawSizes
  /\ b.size > 0
  /\ Aligned(b.hdr)
  /\ EndOf(b) <= IF b.kind = "struct" THEN HeapSize ELSE HeapSize + 2 * HeaderSize

BlocksKnown == Aligned(front) /\ \A i \in 1 .. Len(objs) : Known(objs[i])
WindowWritten == \A i \in base .. Len(objs) : Written(mem, objs[i])

(* By what one block leaves of the bytes used_bytes is ahead of the front, *)
(* a block of at least a header that its footer can describe lies in the   *)
(* heap, whatever was placed before it.                                    *)
Ahead ==
  /\ objs = << >> => front = 0
  /\ front + 2 * HeaderSize <= used \/ front <= 3 * HeaderSize
LargeOverruns ==
  \A i \in 1 .. Len(objs) :
    EndOf(objs[i]) <= HeapSize \/ objs[i].size < HeaderSize \/ objs[i].size >= SizeMod

(* used_bytes is what the blocks placed since the reset were charged.      *)
Charges(blocks) == [i \in 1 .. Len(blocks) |-> StructCharge(blocks[i].size)]
UsedCharged == used = Total(Charges(objs), Len(objs))

HeapInv ==
  /\ Inv /\ ChargedAhead /\ OverrunOnlyWhenEmpty /\ MapInv
  /\ BlocksKnown /\ Ahead /\ LargeOverruns /\ UsedCharged

(* The blocks of the window before the collection, in its order.           *)
OldTiled ==
  /\ old \in Seq(Block)
  /\ \A i, j \in 1 .. Len(old) : i < j => EndOf(old[i]) <= old[j].hdr
  /\ \A i \in 1 .. Len(old) : Known(old[i])

(* Those at or above the front are still there, with a forwarding address  *)
(* for a header once they have been moved.                                 *)
Kept(b) ==
  /\ HasFooter(mem, b)
  /\ \E k \in Nat :
       HasData(mem, b, k) /\ \A s \in DOMAIN scan : scan[s].from = DataOf(b) => scan[s].id = k
  /\ ~AlreadyMoved(DataOf(b)) => HasHeader(mem, b)
  /\ \A s \in Done : scan[s].from = DataOf(b)
                       => At(mem, b.hdr) = <<"fwd", stack[s] - HeaderSize>>
OldKept ==
  \A i \in 1 .. Len(old) : (old[i].kind = "struct" /\ front <= old[i].hdr) => Kept(old[i])

RootsPending ==
  /\ todo \subseteq DOMAIN scan /\ DOMAIN scan \subseteq 1 .. Slots
  /\ \A s \in todo : stack[s] = scan[s].from

RootsMoved ==
  /\ \A s \in Done : \E i \in base .. Len(objs) :
       /\ objs[i].kind = "struct"
       /\ stack[s] = DataOf(objs[i]) /\ HasData(mem, objs[i], scan[s].id)
  /\ \A s, t \in Done : scan[s].from = scan[t].from <=> stack[s] = stack[t]

(* Every block is charged once, however many roots point to it. *)
MovedCharges ==
  [i \in 1 .. Len(old) |->
     IF AlreadyMoved(DataOf(old[i])) THEN StructCharge(old[i].size) ELSE 0]
MovedCharged ==
  /\ oldUsed \in Nat /\ Total(Charges(old), Len(old)) <= oldUsed
  /\ used = Total(MovedCharges, Len(old))

(* What is true between the roots of a clean collection. *)
Collecting ==
  /\ base = 1
  /\ OldTiled /\ OldKept
  /\ RootsPending /\ RootsMoved
  /\ MovedCharged

(* The slots hold addresses of the heap until it is deleted. *)
StackInHeap ==
  \A s \in 1 .. Slots :
    stack[s] \in 0 .. HeapSize + HeaderSize \cup IF pc = "deleted" THEN {NoRef, Dbg} ELSE {NoRef}

CleanInv ==
  /\ HeapInv /\ WindowWritten
  /\ StackInHeap
  /\ pc \notin {"not moved", "undefined"}
  /\ freed >= 0
  /\ pc = "gc" => Collecting

(* What is true whatever a collection took for a header.                   *)
ShortCell == {cell \in CellValue : cell[1] = "len" => cell[2] < SizeMod}
Typed ==
  /\ mem \in [Cells -> ShortCell]
  /\ stack \in [1 .. Slots -> Int]
  /\ pc \in {"run", "gc", "no room", "not moved", "undefined", "deleted"}
  /\ todo \subseteq 1 .. Slots
  /\ front \in Nat /\ ret \in Nat /\ HalfActive
  /\ objCount \in Nat

GcInv == Typed /\ (clean => CleanInv)

-----------------------------------------------------------------------------
(* What a placed block and its data leave in memory, and where (gc.c:263-  *)
(* 278, 343-357, and the program that writes to the object).               *)
Put(w, m, b, lo, hi, cell) ==
  w = Fill(WriteBlock(m, b.hdr, b.size, lo, hi), DataOf(b), b.size, cell)

LEMMA BlockEffect ==
  ASSUME NEW b \in Block, Aligned(b.hdr), Aligned(b.size),
         NEW w, NEW m, NEW lo, NEW hi, NEW cell, Put(w, m, b, lo, hi, cell)
  PROVE  /\ \A c \in Cells : c < b.hdr \/ EndOf(b) <= c => w[c] = m[c]
         /\ \A c \in Cells : DataOf(b) <= c /\ c < FooterOf(b) => w[c] = cell
         /\ EndOf(b) <= HeapSize
              => /\ At(w, b.hdr) = lo /\ At(w, b.hdr + Half) = hi
                 /\ At(w, FooterOf(b)) = Tag
                 /\ At(w, FooterOf(b) + Half) = create_footer(b.size)
<1> DEFINE hdr == b.hdr
           n == b.size
           data == DataOf(b)
           foot == FooterOf(b)
           put == WriteBlock(m, hdr, n, lo, hi)
<1>1. /\ Half \in Nat \ {0} /\ HeaderSize = 2 * Half /\ HeapSize \in Nat
      /\ hdr \in Nat /\ n \in Nat
  BY Sizes DEF Block
<1>2. data = hdr + HeaderSize /\ foot = data + n /\ EndOf(b) = foot + HeaderSize
      /\ Aligned(hdr) /\ Aligned(n)
  BY <1>1 DEF FooterOf, DataOf, EndOf, Footprint
<1>3. \A c \in Cells : put[c] = IF c = foot THEN Tag
                                ELSE IF c = foot + Half THEN create_footer(n)
                                ELSE IF c = hdr THEN lo
                                ELSE IF c = hdr + Half THEN hi ELSE m[c]
  BY <1>2 DEF WriteBlock, PutWord
<1>4. \A c \in Cells : w[c] = IF c \in CellsOf(data, n) THEN cell ELSE put[c]
  BY DEF Fill, Put
<1> HIDE DEF hdr, n, data, foot, put
<1>5. /\ data \in Int /\ foot \in Int /\ hdr + Half \in Int /\ foot + Half \in Int
      /\ Aligned(data) /\ Aligned(foot) /\ Aligned(hdr + Half) /\ Aligned(foot + Half)
  <2>1. hdr \in Int /\ Half \in Int /\ HeaderSize \in Int /\ n \in Int
        /\ Aligned(Half) /\ Aligned(HeaderSize)
    BY <1>1, AlignedSizes
  <2>2. data \in Int /\ Aligned(data)
    BY <1>2, <2>1, AlignedSum
  <2>3. foot \in Int /\ Aligned(foot)
    BY <1>2, <2>1, <2>2, AlignedSum
  <2>4. Aligned(hdr + Half) /\ Aligned(foot + Half)
    BY <1>2, <2>1, <2>3, AlignedSum
  <2> QED BY <2>1, <2>2, <2>3, <2>4
<1>6. \A c \in Cells : w[c] = IF data <= c /\ c < foot THEN cell ELSE put[c]
  <2>1. \A c : c \in CellsOf(data, n) <=> c \in Int /\ Aligned(c) /\ data <= c /\ c < data + n
    BY <1>1, <1>2, <1>5, CellsOfStretch
  <2> QED BY <1>2, <1>4, <2>1, CellsOfHeap
<1>7. \A c \in Cells : c < hdr \/ EndOf(b) <= c => w[c] = m[c]
  BY <1>1, <1>2, <1>3, <1>5, <1>6, CellsOfHeap
<1>8. \A c \in Cells : data <= c /\ c < foot => w[c] = cell
  BY <1>6
<1>9. ASSUME EndOf(b) <= HeapSize
      PROVE  /\ At(w, hdr) = lo /\ At(w, hdr + Half) = hi
             /\ At(w, foot) = Tag /\ At(w, foot + Half) = create_footer(n)
  <2>1. hdr \in Cells /\ hdr + Half \in Cells /\ foot \in Cells /\ foot + Half \in Cells
    BY <1>1, <1>2, <1>5, <1>9, CellsOfHeap
  <2>2. /\ w[hdr] = lo /\ w[hdr + Half] = hi
        /\ w[foot] = Tag /\ w[foot + Half] = create_footer(n)
    BY <1>1, <1>2, <1>3, <1>5, <1>6, <2>1
  <2> QED BY <2>1, <2>2 DEF At
<1> QED BY <1>7, <1>8, <1>9 DEF hdr, n, data, foot

-----------------------------------------------------------------------------
(* What a step of the allocator that places a block does.                  *)
Places(b) ==
  /\ b \in Block /\ b.size > 0
  /\ b.size \in IF b.kind = "struct" THEN StructSizes ELSE RawSizes
  /\ b.hdr \in {front, SpaceStart(SpaceIndex)} /\ b.hdr <= front
  /\ objs' = Append(objs, b) /\ front' = EndOf(b) /\ ret' = DataOf(b)
  /\ used' = used + StructCharge(b.size)
  /\ base' = IF b.hdr = front THEN base ELSE Len(objs) + 1
  /\ ~Overrun
  /\ IF b.kind = "struct" THEN EndOf(b) <= HeapSize
     ELSE b.hdr = front /\ used + b.size <= HeapSize

Refuses == ret' = NULL /\ UNCHANGED <<front, used, active, map, objs, base, top>>

(* A struct that ends in its space ends in the heap. *)
LEMMA SpaceInHeap ==
  ASSUME NEW k \in Spaces
  PROVE  SpaceStart(k) + SpaceSize <= HeapSize
<1>1. NumSpaces \in Nat /\ SpaceSize \in Nat /\ k \in Nat /\ k + 1 <= NumSpaces
  BY HeapAssumption DEF Spaces
<1>2. (k + 1) * SpaceSize <= NumSpaces * SpaceSize /\ (k + 1) * SpaceSize = k * SpaceSize + SpaceSize
  BY <1>1
<1> QED BY <1>2 DEF SpaceStart, HeapSize

(* h_alloc_struct places a struct of the size asked for in the heap, or    *)
(* returns NULL and leaves everything as it was (gc.c:199-325).            *)
LEMMA StructPlaces ==
  ASSUME Inv, NEW size \in StructSizes, h_alloc_struct(size)
  PROVE  \/ Refuses
         \/ StructPlaced(size)
              /\ Places([hdr |-> Landing(size), size |-> size, kind |-> "struct"])
<1>1. ~Overrun
  BY DEF h_alloc_struct
<1>2. CASE StructRefused(size) \/ StructNoSpace(size)
  BY <1>2 DEF StructRefused, StructNoSpace, Refuse, Refuses
<1>3. CASE StructNoFooterRoom(size)
  <2>1. front' = front /\ objs' = objs
    BY <1>3, NoFooterRoomInPlace
  <2> QED BY <1>3, <2>1 DEF StructNoFooterRoom, Refuses
<1>4. CASE StructPlaced(size)
  <2> DEFINE at == Landing(size)
             b == [hdr |-> at, size |-> size, kind |-> "struct"]
  <2>1. /\ b \in Block /\ objs' = Append(objs, b) /\ front' = EndOf(b)
        /\ at \in {front, SpaceStart(SpaceIndex)}
    BY <1>4, StructPlacedWhere
  <2>2. /\ at <= front /\ at \in Nat /\ at = SpaceStart(SpaceIndex) + (at % SpaceSize)
        /\ SpaceIndex \in Spaces
    BY <1>4, LandingInSpace DEF StructPlaced, Inv
  <2>3. /\ ret' = DataOf(b) /\ used' = used + StructCharge(size)
        /\ base' = IF at = front THEN base ELSE Len(objs) + 1
        /\ size + HeaderSize <= SpaceSize - ((at % SpaceSize) + HeaderSize)
    BY <1>4 DEF StructPlaced, PlaceStruct
  <2>4. size \in Nat /\ size > 0 /\ HeaderSize \in Nat
    BY HeapAssumption, CollectorAssumption
  <2>5. EndOf(b) = at + size + 2 * HeaderSize
    BY <2>2, <2>4 DEF EndOf, Footprint
  <2>6. b.hdr = at /\ b.size = size /\ b.kind = "struct"
    OBVIOUS
  <2>7. SpaceStart(SpaceIndex) \in Int /\ at % SpaceSize \in Int
    <3> HIDE DEF at
    <3>1. SpaceSize \in Nat \ {0}
      BY HeapAssumption
    <3> QED BY <2>2, <3>1, AlignedSizes, DivBounds DEF Spaces
  <2> HIDE DEF at, b
  <2>8. EndOf(b) <= HeapSize
    <3>1. SpaceStart(SpaceIndex) + SpaceSize <= HeapSize
      BY <2>2, SpaceInHeap
    <3> QED BY <2>2, <2>3, <2>4, <2>5, <2>7, <3>1, Sizes
  <2>9. Places(b)
    BY <1>1, <2>1, <2>2, <2>3, <2>4, <2>6, <2>8 DEF Places
  <2> QED BY <1>4, <2>9 DEF b, at
<1> QED BY <1>2, <1>3, <1>4 DEF h_alloc_struct

(* h_alloc_raw places a raw block at the front if there is room for its    *)
(* bytes (gc.c:331-367).                                                   *)
LEMMA RawPlaces ==
  ASSUME Inv, NEW bytes \in RawSizes, h_alloc_raw(bytes)
  PROVE  \/ Refuses
         \/ Places([hdr |-> front, size |-> bytes, kind |-> "raw"])
<1>1. CASE RawRefused(bytes)
  BY <1>1 DEF RawRefused, Refuse, Refuses
<1>2. CASE RawPlaced(bytes)
  <2> DEFINE b == [hdr |-> front, size |-> bytes, kind |-> "raw"]
  <2>1. bytes \in Nat /\ front \in Nat /\ used \in Nat /\ HeapSize \in Nat /\ HeaderSize \in Nat
    BY HeapAssumption, Sizes DEF Inv, TypeOK
  <2>2. b \in Block /\ b.hdr = front /\ b.size = bytes /\ b.kind = "raw"
    BY <2>1 DEF Block
  <2>3. bytes > 0 /\ used + bytes <= HeapSize
    BY <1>2, <2>1 DEF RawPlaced, RawRoom, h_avail, h_used
  <2>4. /\ objs' = Append(objs, b) /\ front' = EndOf(b) /\ ret' = DataOf(b)
        /\ used' = used + RawCharge(bytes) /\ base' = base
    BY <1>2 DEF RawPlaced, Bump
  <2>5. RawCharge(bytes) = StructCharge(bytes)
    BY <2>1 DEF RawCharge, StructCharge
  <2> HIDE DEF b
  <2>6. Places(b)
    BY <2>1, <2>2, <2>3, <2>4, <2>5 DEF Places, h_alloc_raw
  <2> QED BY <2>6 DEF b
<1> QED BY <1>1, <1>2 DEF h_alloc_raw

(* The facts about a step that places a block which the proofs below use.  *)
LEMMA PlacesFacts ==
  ASSUME Inv, NEW b, Places(b)
  PROVE  /\ objs \in Seq(Block) /\ Len(objs) \in Nat /\ front \in Nat /\ used \in Nat
         /\ front <= used
         /\ b.hdr \in Nat /\ b.size \in Nat /\ b.hdr <= front
         /\ EndOf(b) = b.hdr + b.size + 2 * HeaderSize
         /\ FooterOf(b) = b.hdr + HeaderSize + b.size
         /\ DataOf(b) = b.hdr + HeaderSize
         /\ front' = EndOf(b) /\ used' = used + 2 * b.size + 3 * HeaderSize
         /\ Len(objs') = Len(objs) + 1 /\ objs'[Len(objs) + 1] = b
         /\ \A i \in 1 .. Len(objs) : objs'[i] = objs[i] /\ objs[i] \in Block
         /\ \A i \in 1 .. Len(objs') : i \in 1 .. Len(objs) \/ i = Len(objs) + 1
         /\ base \in 1 .. Len(objs) + 1 /\ base' \in 1 .. Len(objs) + 1 /\ base <= base'
<1>1. /\ objs \in Seq(Block) /\ Len(objs) \in Nat /\ front \in Nat /\ used \in Nat
      /\ front <= used /\ base \in 1 .. Len(objs) + 1
  BY Sizes DEF Inv, TypeOK, FrontWithinUsed
<1>2. b.hdr \in Nat /\ b.size \in Nat /\ b \in Block /\ HeaderSize \in Nat
  BY Sizes DEF Places, Block
<1>3. /\ EndOf(b) = b.hdr + b.size + 2 * HeaderSize
      /\ FooterOf(b) = b.hdr + HeaderSize + b.size
      /\ DataOf(b) = b.hdr + HeaderSize
      /\ StructCharge(b.size) = 2 * b.size + 3 * HeaderSize
  BY <1>2 DEF EndOf, Footprint, DataOf, FooterOf, StructCharge
<1>4. /\ b.hdr <= front /\ objs' = Append(objs, b) /\ front' = EndOf(b)
      /\ used' = used + StructCharge(b.size)
      /\ base' = IF b.hdr = front THEN base ELSE Len(objs) + 1
  BY DEF Places
<1>5. /\ Len(objs') = Len(objs) + 1 /\ objs'[Len(objs) + 1] = b
      /\ \A i \in 1 .. Len(objs) : objs'[i] = objs[i] /\ objs[i] \in Block
  BY <1>1, <1>2, <1>4
<1>6. \A i \in 1 .. Len(objs') : i \in 1 .. Len(objs) \/ i = Len(objs) + 1
  BY <1>1, <1>5
<1>7. base' \in 1 .. Len(objs) + 1 /\ base <= base'
  BY <1>1, <1>4
<1>8. used' = used + 2 * b.size + 3 * HeaderSize
  <2> DEFINE n == b.size
  <2>1. n \in Nat /\ StructCharge(n) = 2 * n + 3 * HeaderSize
    BY <1>2, <1>3
  <2> HIDE DEF n
  <2>2. used' = used + 2 * n + 3 * HeaderSize
    BY <1>1, <1>2, <1>4, <2>1 DEF n
  <2> QED BY <2>2 DEF n
<1> QED BY <1>1, <1>2, <1>3, <1>4, <1>5, <1>6, <1>7, <1>8

(* A placed block is known. *)
LEMMA PlacedKnown ==
  ASSUME Inv, BlocksKnown, NEW b, Places(b)
  PROVE  Known(b) /\ Aligned(EndOf(b)) /\ Aligned(DataOf(b)) /\ Aligned(b.size)
<1> DEFINE at == b.hdr
           n == b.size
<1>1. at \in Nat /\ n \in Nat /\ EndOf(b) = at + n + 2 * HeaderSize /\ DataOf(b) = at + HeaderSize
      /\ front \in Nat
  BY PlacesFacts
<1>2. Aligned(n) /\ n > 0 /\ n \in IF b.kind = "struct" THEN StructSizes ELSE RawSizes
  BY AlignedSizes DEF Places
<1>3. Aligned(at)
  <2>1. at = front \/ at = SpaceStart(SpaceIndex)
    BY DEF Places
  <2>2. SpaceIndex \in Int
    BY <1>1, HeapAssumption, DivBounds DEF SpaceIndex
  <2> HIDE DEF at
  <2>3. Aligned(front)
    BY DEF BlocksKnown
  <2> QED BY <2>1, <2>2, <2>3, AlignedSizes
<1>4. IF b.kind = "struct" THEN EndOf(b) <= HeapSize
      ELSE at = front /\ used + n <= HeapSize
  BY DEF Places
<1> HIDE DEF at, n
<1>5. HeaderSize \in Nat /\ Aligned(HeaderSize) /\ HeapSize \in Nat
  BY Sizes, AlignedSizes
<1>6. Aligned(at + HeaderSize) /\ Aligned(at + n) /\ at + HeaderSize \in Int /\ at + n \in Int
  BY <1>1, <1>2, <1>3, <1>5, AlignedSum
<1>7. Aligned((at + HeaderSize) + HeaderSize) /\ (at + HeaderSize) + HeaderSize \in Int
  BY <1>1, <1>5, <1>6, AlignedSum
<1>8. Aligned(((at + HeaderSize) + HeaderSize) + n)
  BY <1>1, <1>2, <1>7, AlignedSum
<1>9. ((at + HeaderSize) + HeaderSize) + n = EndOf(b)
  BY <1>1, <1>5
<1>10. EndOf(b) <= IF b.kind = "struct" THEN HeapSize ELSE HeapSize + 2 * HeaderSize
  <2>1. front <= used /\ used \in Nat
    BY DEF Inv, FrontWithinUsed, TypeOK
  <2> QED BY <1>1, <1>4, <1>5, <2>1
<1>11. Known(b)
  BY <1>2, <1>3, <1>10 DEF Known, at, n
<1> QED BY <1>1, <1>2, <1>6, <1>8, <1>9, <1>11 DEF at, n

(* A placed block keeps what is known of all blocks. *)
LEMMA PlacesKeepsKnown ==
  ASSUME HeapInv, NEW b, Places(b)
  PROVE  BlocksKnown' /\ Ahead' /\ LargeOverruns'
<1> DEFINE at == b.hdr
           n == b.size
<1>0. Inv /\ ChargedAhead /\ BlocksKnown /\ Ahead /\ LargeOverruns
  BY DEF HeapInv
<1>1. /\ at \in Nat /\ n \in Nat /\ at <= front /\ front \in Nat /\ used \in Nat /\ front <= used
      /\ front' = at + n + 2 * HeaderSize /\ used' = used + 2 * n + 3 * HeaderSize
      /\ EndOf(b) = at + n + 2 * HeaderSize /\ n > 0
  BY <1>0, PlacesFacts DEF Places
<1>2. /\ Len(objs') = Len(objs) + 1 /\ objs'[Len(objs) + 1] = b /\ Len(objs) \in Nat
      /\ objs \in Seq(Block)
      /\ \A i \in 1 .. Len(objs) : objs'[i] = objs[i] /\ objs[i] \in Block
      /\ \A i \in 1 .. Len(objs') : i \in 1 .. Len(objs) \/ i = Len(objs) + 1
  BY <1>0, PlacesFacts
<1>3. IF b.kind = "struct" THEN EndOf(b) <= HeapSize ELSE at = front /\ used + n <= HeapSize
  BY DEF Places
<1>4. HeaderSize \in Nat \ {0} /\ HeapSize \in Nat /\ SpaceSize \in Nat
      /\ 2 * HeaderSize <= SpaceSize /\ 4 * SpaceSize <= HeapSize /\ SizeMod \in Nat
      /\ SizeMod <= SpaceSize
  BY Sizes, CollectorAssumption
<1>5. BlocksKnown'
  <2>1. Known(b) /\ Aligned(front')
    BY <1>0, PlacedKnown, PlacesFacts
  <2>2. \A i \in 1 .. Len(objs') : Known(objs'[i])
    BY <1>0, <1>2, <2>1 DEF BlocksKnown
  <2> QED BY <2>1, <2>2 DEF BlocksKnown, Known, Aligned, EndOf, Footprint, HeapSize, Half
<1>6. objs = << >> \/ front + HeaderSize <= used
  <2>1. CASE Len(objs) = 0
    BY <1>2, <2>1
  <2>2. CASE Len(objs) # 0
    <3>1. 1 \in 1 .. Len(objs) /\ objs[1] \in Block
      BY <1>2, <2>2
    <3> DEFINE first == objs[1].size
    <3>2. front + HeaderSize + first <= used /\ first \in Nat
      BY <1>0, <3>1 DEF ChargedAhead, Block
    <3> HIDE DEF first
    <3>3. front + HeaderSize <= used
      BY <1>1, <1>4, <3>2
    <3> QED BY <3>3
  <2> QED BY <2>1, <2>2
<1>7. front = 0 \/ front + HeaderSize <= used
  BY <1>0, <1>6 DEF Ahead
<1>8. front + 2 * HeaderSize <= used \/ front <= 3 * HeaderSize
  BY <1>0 DEF Ahead
<1> HIDE DEF at, n
<1>9. Ahead'
  <2>1. front' + 2 * HeaderSize <= used' \/ front' <= 3 * HeaderSize
    BY <1>1, <1>4, <1>7
  <2>2. Len(objs') # 0
    BY <1>2
  <2> QED BY <2>1, <2>2 DEF Ahead
<1>10. LargeOverruns'
  <2>1. EndOf(b) <= HeapSize \/ n < HeaderSize \/ n >= SizeMod
    BY <1>1, <1>3, <1>4, <1>8
  <2>2. ASSUME NEW i \in 1 .. Len(objs')
        PROVE  EndOf(objs'[i]) <= HeapSize \/ objs'[i].size < HeaderSize \/ objs'[i].size >= SizeMod
    BY <1>0, <1>2, <2>1 DEF LargeOverruns, n
  <2> QED BY <2>2 DEF LargeOverruns, EndOf, Footprint, HeapSize
<1> QED BY <1>5, <1>9, <1>10

(* A placed block is charged once. *)
LEMMA PlacesKeepsCharges ==
  ASSUME HeapInv, NEW b, Places(b)
  PROVE  UsedCharged'
<1> DEFINE n == Len(objs)
           f == Charges(objs)
           g == Charges(objs')
<1>1. /\ n \in Nat /\ Len(objs') = n + 1 /\ objs'[n + 1] = b /\ b.size \in Nat
      /\ \A i \in 1 .. n : objs'[i] = objs[i] /\ objs[i] \in Block
      /\ \A i \in 1 .. n + 1 : i \in 1 .. n \/ i = n + 1
  BY PlacesFacts DEF HeapInv
<1>2. \A k \in Nat : StructCharge(k) \in Int
  BY Sizes DEF StructCharge
<1>3. f \in [1 .. n -> Int] /\ \A i \in 1 .. n : f[i] = StructCharge(objs[i].size)
  BY <1>1, <1>2 DEF Charges, Block
<1>4. /\ \A i \in 1 .. n : g[i] = f[i]
      /\ g[n + 1] = StructCharge(b.size)
      /\ g \in [1 .. n + 1 -> Int]
  <2>1. g = [i \in 1 .. n + 1 |-> StructCharge(objs'[i].size)]
    BY <1>1 DEF Charges
  <2>2. \A i \in 1 .. n + 1 : objs'[i].size \in Nat
    BY <1>1 DEF Block
  <2> HIDE DEF f, g, n
  <2>3. n + 1 \in 1 .. n + 1 /\ \A i \in 1 .. n : i \in 1 .. n + 1
    BY <1>1
  <2>4. g \in [1 .. n + 1 -> Int]
    BY <1>2, <2>1, <2>2
  <2> QED BY <1>1, <1>3, <2>1, <2>3, <2>4
<1> HIDE DEF f, g
<1>5. Total(g, n + 1) = Total(f, n) + g[n + 1]
  <2> HIDE DEF n
  <2> QED BY <1>1, <1>3, <1>4, TotalExtend
<1>6. used = Total(f, n) /\ used' = used + StructCharge(b.size)
  BY DEF HeapInv, UsedCharged, Places, f
<1>7. used' = Total(g, Len(objs'))
  BY <1>1, <1>4, <1>5, <1>6
<1> QED BY <1>7 DEF UsedCharged, g, Charges, StructCharge

(* Every step of the allocator keeps what is known of the heap.            *)
LEMMA HeapInvKept ==
  ASSUME HeapInv, [Next]_vars
  PROVE  HeapInv'
<1>0. Inv /\ ChargedAhead /\ OverrunOnlyWhenEmpty /\ MapInv
  BY DEF HeapInv
<1>1. Inv' /\ ChargedAhead' /\ OverrunOnlyWhenEmpty' /\ MapInv'
  BY <1>0, NextInv, ChargeKept, MapInvKept
<1> SUFFICES BlocksKnown' /\ Ahead' /\ LargeOverruns' /\ UsedCharged'
  BY <1>1 DEF HeapInv
<1>2. CASE UNCHANGED <<front, used, objs>>
  BY <1>2 DEF HeapInv, BlocksKnown, Known, Aligned, EndOf, Footprint, HeapSize, Half,
              Ahead, LargeOverruns, UsedCharged, Charges, StructCharge
<1>3. ASSUME NEW b, Places(b)
      PROVE  BlocksKnown' /\ Ahead' /\ LargeOverruns' /\ UsedCharged'
  BY <1>3, PlacesKeepsKnown, PlacesKeepsCharges
<1>4. CASE \E size \in StructSizes : h_alloc_struct(size)
  BY <1>0, <1>2, <1>3, <1>4, StructPlaces DEF Refuses
<1>5. CASE \E bytes \in RawSizes : h_alloc_raw(bytes)
  BY <1>0, <1>2, <1>3, <1>5, RawPlaces DEF Refuses
<1>6. CASE h_alloc_struct_invalid \/ UNCHANGED vars
  BY <1>2, <1>6 DEF h_alloc_struct_invalid, Refuse, vars
<1>7. CASE GcReset
  <2>1. objs' = << >> /\ used' = 0 /\ front' = 0 /\ Len(objs') = 0
    BY <1>0, <1>7, GcResetEffect DEF GcReset, Inv
  <2>2. Aligned(0)
    BY AlignedSizes
  <2>3. BlocksKnown' /\ Ahead' /\ LargeOverruns'
    <3>1. Aligned(front')
      BY <2>1, <2>2
    <3>2. BlocksKnown'
      BY <2>1, <3>1 DEF BlocksKnown
    <3> QED BY <2>1, <3>2, Sizes DEF Ahead, LargeOverruns
  <2>4. UsedCharged'
    <3> DEFINE f == Charges(objs')
    <3>1. f \in [1 .. 0 -> Int]
      BY <2>1 DEF Charges
    <3> HIDE DEF f
    <3>2. 0 \in Nat
      OBVIOUS
    <3>3. Total(f, 0) = 0
      BY <3>1, <3>2, TotalFacts
    <3> QED BY <2>1, <3>3 DEF f, UsedCharged
  <2> QED BY <2>3, <2>4
<1> QED BY <1>4, <1>5, <1>6, <1>7 DEF Next, Alloc

-----------------------------------------------------------------------------
(* Memory below an address keeps the blocks that end there.                *)
LEMMA WrittenBelow ==
  ASSUME NEW m, NEW w, NEW at \in Int, \A c \in Cells : c < at => w[c] = m[c],
         NEW b \in Block, EndOf(b) <= at
  PROVE  /\ \A k : HasData(m, b, k) => HasData(w, b, k)
         /\ Written(m, b) => Written(w, b)
<1> DEFINE hdr == b.hdr
           foot == FooterOf(b)
<1>1. Half \in Nat \ {0} /\ HeaderSize = 2 * Half /\ hdr \in Nat /\ b.size \in Nat
  BY Sizes DEF Block
<1>2. /\ foot \in Nat /\ DataOf(b) = hdr + HeaderSize /\ foot = hdr + HeaderSize + b.size
      /\ EndOf(b) = foot + HeaderSize
  BY <1>1 DEF FooterOf, DataOf, EndOf, Footprint
<1>3. hdr + HeaderSize <= foot /\ foot + HeaderSize <= at
  BY <1>1, <1>2
<1>4. \A c \in Int : c < at => At(w, c) = At(m, c)
  BY DEF At
<1> HIDE DEF hdr, foot
<1>5. ASSUME NEW k, HasData(m, b, k) PROVE HasData(w, b, k)
  <2>1. \A c \in Cells : c \in Int
    BY CellsOfHeap
  <2> QED BY <1>1, <1>2, <1>3, <1>5, <2>1 DEF HasData, foot
<1>6. /\ At(w, hdr) = At(m, hdr) /\ At(w, hdr + Half) = At(m, hdr + Half)
      /\ At(w, foot) = At(m, foot) /\ At(w, foot + Half) = At(m, foot + Half)
  BY <1>1, <1>2, <1>3, <1>4
<1>7. Written(m, b) => Written(w, b)
  BY <1>5, <1>6 DEF Written, HasHeader, HasFooter, hdr, foot
<1> QED BY <1>5, <1>7

(* The bytes of a block that was just placed and filled.                   *)
LEMMA PlacedWritten ==
  ASSUME NEW b \in Block, Aligned(b.hdr), Aligned(b.size),
         NEW w, NEW m, NEW lo, NEW hi, NEW k \in Nat, Put(w, m, b, lo, hi, <<"data", k>>),
         b.kind = "struct" => lo = BitVec /\ hi = <<"desc", b.size>> /\ EndOf(b) <= HeapSize
  PROVE  /\ HasData(w, b, k) /\ Written(w, b)
         /\ \A c \in Cells : c < b.hdr => w[c] = m[c]
<1>1. /\ \A c \in Cells : c < b.hdr \/ EndOf(b) <= c => w[c] = m[c]
      /\ \A c \in Cells : DataOf(b) <= c /\ c < FooterOf(b) => w[c] = <<"data", k>>
      /\ EndOf(b) <= HeapSize
           => /\ At(w, b.hdr) = lo /\ At(w, b.hdr + Half) = hi
              /\ At(w, FooterOf(b)) = Tag
              /\ At(w, FooterOf(b) + Half) = create_footer(b.size)
  BY BlockEffect
<1> QED BY <1>1 DEF HasData, Written, HasHeader, HasFooter

(* After an allocation every block of the window is as it was written.     *)
LEMMA PlacesKeepsWritten ==
  ASSUME HeapInv, WindowWritten, NEW b, Places(b), Written(mem', b),
         \A c \in Cells : c < b.hdr => mem'[c] = mem[c],
         WindowTiles'
  PROVE  WindowWritten'
<1>1. b \in Block
  BY DEF Places
<1>2. /\ Len(objs) \in Nat /\ Len(objs') = Len(objs) + 1 /\ objs'[Len(objs) + 1] = b
      /\ \A i \in 1 .. Len(objs) : objs'[i] = objs[i] /\ objs[i] \in Block
      /\ base \in 1 .. Len(objs) + 1 /\ base' \in 1 .. Len(objs) + 1 /\ base <= base'
  BY PlacesFacts DEF HeapInv
<1>3. ASSUME NEW i \in base' .. Len(objs') PROVE Written(mem', objs'[i])
  <2>1. CASE i = Len(objs) + 1
    BY <1>2, <2>1
  <2>2. CASE i # Len(objs) + 1
    <3>1. i \in base .. Len(objs) /\ i \in 1 .. Len(objs)
      BY <1>2, <2>2
    <3>2. EndOf(objs'[i]) <= objs'[Len(objs) + 1].hdr
      BY <1>2, <2>2 DEF WindowTiles
    <3>3. objs'[i] = objs[i] /\ objs[i] \in Block /\ EndOf(objs[i]) <= b.hdr /\ b.hdr \in Int
      BY <1>1, <1>2, <3>1, <3>2 DEF Block, EndOf, Footprint
    <3>4. Written(mem, objs[i])
      BY <3>1 DEF WindowWritten
    <3> QED BY <3>3, <3>4, WrittenBelow
  <2> QED BY <2>1, <2>2
<1> QED BY <1>3 DEF WindowWritten, Written, HasData, HasHeader, HasFooter, At, EndOf, FooterOf

-----------------------------------------------------------------------------
(* The search starts in the data of a block, whose cells are no footer:    *)
(* what it finds is behind them (traverse_stack.c:31-44).                  *)
LEMMA FootersBehindData ==
  ASSUME NEW m, NEW b \in Block, NEW k, HasData(m, b, k), NEW q \in FootersFrom(m, DataOf(b))
  PROVE  /\ q \in Cells /\ m[q] = Tag /\ At(m, q + Half)[1] = "len"
         /\ FooterOf(b) <= q
<1> DEFINE p == DataOf(b)
<1>1. HeaderSize \in Nat \ {0} /\ SpaceSize \in Nat \ {0} /\ p \in Nat /\ FooterOf(b) \in Nat
  BY Sizes, HeapAssumption DEF Block, DataOf, FooterOf
<1>2. PICK i \in 0 .. (SpaceSize - 1) \div HeaderSize : q = p + HeaderSize * i
  BY DEF FootersFrom
<1>3. At(m, q) = Tag /\ At(m, q + Half)[1] = "len"
  BY DEF FootersFrom, confirm_tag
<1>4. q \in Cells /\ m[q] = Tag
  BY <1>3 DEF At, Tag, High
<1>5. p <= q
  <2>1. i \in Nat
    BY <1>1
  <2>2. 0 <= HeaderSize * i /\ HeaderSize * i \in Int
    BY <1>1, <2>1
  <2> QED BY <1>1, <1>2, <2>2
<1>6. Tag # <<"data", k>>
  BY DEF Tag
<1>7. ~(q < FooterOf(b))
  BY <1>4, <1>5, <1>6 DEF HasData
<1> QED BY <1>1, <1>3, <1>4, <1>7, CellsOfHeap

(* The search from a block of whole headers finds the header of the block, *)
(* if the size of the block fits into its footer (traverse_stack.c:31-55). *)
LEMMA SearchFinds ==
  ASSUME NEW m, NEW b \in Block, b.size % HeaderSize = 0, b.size < SizeMod,
         NEW k, HasData(m, b, k), HasFooter(m, b)
  PROVE  find_header_address_through_footer(m, DataOf(b)) = b.hdr
<1> DEFINE p == DataOf(b)
           n == b.size
           foot == FooterOf(b)
           F == FootersFrom(m, p)
<1>1. /\ HeaderSize \in Nat \ {0} /\ SpaceSize \in Nat \ {0} /\ SizeMod \in Nat \ {0}
      /\ SizeMod <= SpaceSize
      /\ p = b.hdr + HeaderSize /\ foot = p + n /\ b.hdr \in Nat /\ n \in Nat /\ n < SizeMod
      /\ n % HeaderSize = 0
  BY Sizes, HeapAssumption, CollectorAssumption DEF Block, DataOf, FooterOf
<1>2. At(m, foot) = Tag /\ At(m, foot + Half) = <<"len", n>>
  <2>1. n % SizeMod = n
    <3> HIDE DEF n
    <3> QED BY <1>1
  <2> QED BY <2>1 DEF HasFooter, create_footer
<1>3. foot \in F
  <2> DEFINE i == n \div HeaderSize
             last == (SpaceSize - 1) \div HeaderSize
  <2>1. i \in Nat /\ n = i * HeaderSize + (n % HeaderSize) /\ last \in Nat /\ i <= last
    <3> HIDE DEF n, p, foot
    <3>1. SpaceSize - 1 \in Nat /\ n <= SpaceSize - 1
      BY <1>1
    <3> QED BY <1>1, <3>1, DivBounds, SegmentOrder
  <2> HIDE DEF i, last, n
  <2>2. n = HeaderSize * i
    BY <1>1, <2>1
  <2>3. i \in 0 .. last /\ foot = p + HeaderSize * i
    BY <1>1, <2>1, <2>2
  <2>4. confirm_tag(m, foot)
    BY <1>2 DEF confirm_tag
  <2> QED BY <2>3, <2>4 DEF FootersFrom, last
<1>4. \A q \in F : foot <= q /\ q \in Int
  BY FootersBehindData, CellsOfHeap
<1> DEFINE hdr == b.hdr
<1> HIDE DEF F, p, foot, n
<1>5. foot \in Int
  BY <1>3, <1>4
<1>6. \A q \in F : (\A r \in F : q <= r) => q = foot
  BY <1>3, <1>4, <1>5
<1>7. (CHOOSE q \in F : \A r \in F : q <= r) = foot
  BY <1>3, <1>4, <1>6
<1>8. get_size_bits_field(At(m, foot + Half)) = n
  BY <1>2 DEF get_size_bits_field
<1>9. find_header_address_through_footer(m, p) = foot - (n + HeaderSize)
  BY <1>3, <1>7, <1>8 DEF find_header_address_through_footer, F
<1>10. foot - (n + HeaderSize) = b.hdr
  <2> HIDE DEF hdr
  <2>1. foot = (hdr + HeaderSize) + n /\ hdr \in Nat
    BY <1>1 DEF hdr
  <2>2. foot - (n + HeaderSize) = hdr
    BY <1>1, <2>1
  <2> QED BY <2>2 DEF hdr
<1> QED BY <1>9, <1>10 DEF p

(* From a block whose footer cannot hold its size it ends elsewhere: what  *)
(* it finds lies behind the block and says less than the block's size.     *)
LEMMA SearchPasses ==
  ASSUME NEW m, NEW b \in Block, b.size >= SizeMod, NEW k, HasData(m, b, k),
         m \in [Cells -> ShortCell]
  PROVE  find_header_address_through_footer(m, DataOf(b)) # b.hdr
<1> DEFINE p == DataOf(b)
           n == b.size
           F == FootersFrom(m, p)
<1>1. /\ HeaderSize \in Nat \ {0} /\ SizeMod \in Nat
      /\ FooterOf(b) = (b.hdr + HeaderSize) + n /\ b.hdr \in Nat /\ n \in Nat /\ SizeMod <= n
  BY Sizes, CollectorAssumption DEF Block, DataOf, FooterOf
<1>2. CASE F = {}
  BY <1>1, <1>2 DEF find_header_address_through_footer, NoRef
<1>3. CASE F # {}
  <2>1. \A q \in F : q \in Nat /\ FooterOf(b) <= q /\ At(m, q + Half)[1] = "len"
    BY FootersBehindData, CellsOfHeap
  <2>2. F \subseteq Nat
    BY <2>1
  <2> DEFINE q == CHOOSE q \in F : \A r \in F : q <= r
             cell == At(m, q + Half)
  <2> HIDE DEF F
  <2>3. q \in F
    BY <1>3, <2>2, LeastNatural
  <2>4. cell[1] = "len" /\ q \in Nat /\ FooterOf(b) <= q
    BY <2>1, <2>3
  <2>5. cell[2] \in Nat /\ cell[2] < SizeMod
    <3>1. cell \in ShortCell
      BY <2>4 DEF At, High
    <3>2. cell[2] \in Nat
      <4> HIDE DEF cell
      <4> QED BY <3>1 DEF ShortCell, CellValue, BitVec, Tag, High, StackWord
    <3> HIDE DEF cell
    <3> QED BY <2>4, <3>1, <3>2 DEF ShortCell
  <2>6. find_header_address_through_footer(m, p) = q - (cell[2] + HeaderSize)
    BY <1>3, <2>4 DEF find_header_address_through_footer, get_size_bits_field, F
  <2> DEFINE byte == cell[2]
  <2> HIDE DEF q, cell, n, p
  <2>7. byte \in Nat /\ byte < SizeMod /\ q \in Nat /\ FooterOf(b) <= q
    BY <2>4, <2>5
  <2> HIDE DEF byte
  <2>8. b.hdr < q - (byte + HeaderSize)
    BY <1>1, <2>7
  <2> QED BY <1>1, <2>6, <2>8 DEF byte, p
<1> QED BY <1>2, <1>3

-----------------------------------------------------------------------------
(* The values of the cells. *)
LEMMA CellTypes ==
  /\ {BitVec, Tag, High, StackWord} \subseteq ShortCell
  /\ \A n \in Nat : {<<"desc", n>>, <<"raw", n>>, <<"fwd", n>>, <<"data", n>>} \subseteq ShortCell
  /\ \A n \in Nat : create_footer(n) \in ShortCell
  /\ \A cell \in ShortCell : cell[2] \in Nat /\ get_size_bits_field(cell) \in Nat
<1> USE DEF ShortCell, CellValue
<1>1. {BitVec, Tag, High, StackWord} \subseteq ShortCell
  BY DEF BitVec, Tag, High, StackWord
<1>2. \A n \in Nat : {<<"desc", n>>, <<"raw", n>>, <<"fwd", n>>, <<"data", n>>} \subseteq ShortCell
  OBVIOUS
<1>3. \A n \in Nat : create_footer(n) \in ShortCell
  <2> TAKE n \in Nat
  <2>1. SizeMod \in Nat \ {0}
    BY CollectorAssumption
  <2>2. n % SizeMod \in Nat /\ n % SizeMod < SizeMod
    BY <2>1, DivBounds
  <2> DEFINE k == n % SizeMod
  <2> HIDE DEF k
  <2>3. k \in Nat /\ k < SizeMod
    BY <2>2 DEF k
  <2>4. <<"len", k>> \in ShortCell
    BY <2>3
  <2> QED BY <2>4 DEF create_footer, k
<1>4. \A cell \in ShortCell : cell[2] \in Nat /\ get_size_bits_field(cell) \in Nat
  BY DEF BitVec, Tag, High, StackWord, get_size_bits_field
<1> QED BY <1>1, <1>2, <1>3, <1>4

(* The operations on memory keep them. *)
LEMMA MemoryTypes ==
  ASSUME NEW m \in [Cells -> ShortCell]
  PROVE  /\ \A a : At(m, a) \in ShortCell
         /\ \A a : \A lo, hi \in ShortCell : PutWord(m, a, lo, hi) \in [Cells -> ShortCell]
         /\ \A a, n : \A cell \in ShortCell : Fill(m, a, n, cell) \in [Cells -> ShortCell]
         /\ \A to, from, n : CopyBytes(m, to, from, n) \in [Cells -> ShortCell]
         /\ \A hdr : \A n \in Nat : \A lo, hi \in ShortCell :
              WriteBlock(m, hdr, n, lo, hi) \in [Cells -> ShortCell]
<1>1. High \in ShortCell /\ Tag \in ShortCell
  BY CellTypes
<1>2. \A a : At(m, a) \in ShortCell
  BY <1>1 DEF At
<1>3. ASSUME NEW w \in [Cells -> ShortCell], NEW a, NEW lo \in ShortCell, NEW hi \in ShortCell
      PROVE  PutWord(w, a, lo, hi) \in [Cells -> ShortCell]
  BY DEF PutWord
<1>4. \A a, n : \A cell \in ShortCell : Fill(m, a, n, cell) \in [Cells -> ShortCell]
  BY DEF Fill
<1>5. \A to, from, n : CopyBytes(m, to, from, n) \in [Cells -> ShortCell]
  BY <1>2 DEF CopyBytes
<1>6. ASSUME NEW hdr, NEW n \in Nat, NEW lo \in ShortCell, NEW hi \in ShortCell
      PROVE  WriteBlock(m, hdr, n, lo, hi) \in [Cells -> ShortCell]
  <2>1. create_footer(n) \in ShortCell
    BY CellTypes
  <2>2. PutWord(m, hdr, lo, hi) \in [Cells -> ShortCell]
    BY <1>3
  <2> QED BY <1>1, <1>3, <2>1, <2>2 DEF WriteBlock
<1> QED BY <1>2, <1>3, <1>4, <1>5, <1>6

(* Whatever number of bytes is asked for, the front and the result are     *)
(* addresses (gc.c:199-367).                                               *)
LEMMA AllocTypes ==
  ASSUME front \in Nat, HalfActive, NEW size \in Nat,
         h_alloc_struct(size) \/ h_alloc_raw(size)
  PROVE  /\ front' \in Nat /\ ret' \in Nat /\ HalfActive'
         /\ ret' # NULL => ret' - HeaderSize \in Nat
<1>1. HeaderSize \in Nat \ {0} /\ SpaceSize \in Nat
  BY Sizes
<1>2. ASSUME NEW at \in Nat PROVE at + Footprint(size) \in Nat /\ at + HeaderSize \in Nat
  BY <1>1 DEF Footprint
<1>3. CASE Refuse
  BY <1>3 DEF Refuse, HalfActive, NULL
<1>4. ActiveFrom(SpaceIndex) # {} => Landing(size) \in Nat
  <2> SUFFICES ASSUME ActiveFrom(SpaceIndex) # {}, Landing(size) # front
               PROVE  Landing(size) \in Nat
    OBVIOUS
  <2> DEFINE S == ActiveFrom(SpaceIndex)
  <2>1. S \subseteq Nat /\ S # {}
    BY HeapAssumption DEF ActiveFrom, Spaces
  <2>2. \E j \in S : \A k \in S : j <= k
    <3> HIDE DEF S
    <3> QED BY <2>1, LeastNatural
  <2>3. FirstActive(SpaceIndex) \in Nat
    BY <2>1, <2>2 DEF FirstActive
  <2>4. SpaceStart(FirstActive(SpaceIndex)) \in Nat
    BY <1>1, <2>3 DEF SpaceStart
  <2> QED BY <2>4 DEF Landing
<1>5. CASE StructNoFooterRoom(size)
  BY <1>4, <1>5 DEF StructNoFooterRoom, HalfActive, NULL
<1>6. CASE StructPlaced(size)
  <2> DEFINE at == Landing(size)
  <2>1. at \in Nat
    BY <1>4, <1>6 DEF StructPlaced
  <2>2. front' = at + Footprint(size) /\ ret' = at + HeaderSize /\ active' = active
    BY <1>6 DEF StructPlaced, PlaceStruct, Bump, EndOf, DataOf
  <2> HIDE DEF at
  <2>3. ret' - HeaderSize = at
    BY <1>1, <2>1, <2>2
  <2> QED BY <1>2, <2>1, <2>2, <2>3 DEF HalfActive
<1>7. CASE RawPlaced(size)
  <2>1. front' = front + Footprint(size) /\ ret' = front + HeaderSize /\ active' = active
    BY <1>7 DEF RawPlaced, Bump, EndOf, DataOf
  <2>2. ret' - HeaderSize = front
    BY <1>1, <2>1
  <2> QED BY <1>2, <2>1, <2>2 DEF HalfActive
<1> QED BY <1>3, <1>5, <1>6, <1>7
        DEF h_alloc_struct, h_alloc_raw, StructRefused, StructNoSpace, RawRefused

(* The search ends at an address, whatever memory holds. *)
LEMMA SearchType ==
  ASSUME NEW m \in [Cells -> ShortCell], NEW p \in Int
  PROVE  find_header_address_through_footer(m, p) \in Int
<1> DEFINE F == FootersFrom(m, p)
           T == {i \in Nat : p + HeaderSize * i \in F}
<1>1. HeaderSize \in Nat \ {0} /\ SpaceSize \in Nat \ {0}
  BY Sizes, HeapAssumption
<1>2. CASE F = {}
  BY <1>2 DEF find_header_address_through_footer, NoRef
<1>3. CASE F # {}
  <2>1. \A q \in F : \E i \in T : q = p + HeaderSize * i
    <3> TAKE q \in F
    <3>1. PICK i \in 0 .. (SpaceSize - 1) \div HeaderSize : q = p + HeaderSize * i
      BY DEF FootersFrom
    <3>2. i \in Nat
      BY <1>1
    <3> QED BY <3>1, <3>2
  <2>2. T \subseteq Nat /\ T # {} /\ \A i \in T : p + HeaderSize * i \in F
    BY <1>3, <2>1
  <2> HIDE DEF T, F
  <2>3. PICK i \in T : \A j \in T : i <= j
    BY <2>2, LeastNatural
  <2> DEFINE q == p + HeaderSize * i
  <2>4. q \in F /\ q \in Int /\ \A r \in F : q <= r
    <3>1. i \in Nat /\ q \in F
      BY <2>2
    <3>2. ASSUME NEW r \in F PROVE q <= r
      <4>1. PICK j \in T : r = p + HeaderSize * j
        BY <2>1
      <4>2. j \in Nat /\ i <= j
        BY <2>2, <2>3
      <4>3. HeaderSize * i <= HeaderSize * j /\ HeaderSize * i \in Int /\ HeaderSize * j \in Int
        BY <1>1, <3>1, <4>2
      <4> QED BY <4>1, <4>3
    <3>3. HeaderSize * i \in Int
      BY <1>1, <3>1
    <3> QED BY <3>1, <3>2, <3>3
  <2> DEFINE c == CHOOSE r \in F : \A t \in F : r <= t
  <2>5. c \in F
    <3> HIDE DEF q
    <3> QED BY <2>4
  <2>6. c \in Int
    <3>1. PICK j \in T : c = p + HeaderSize * j
      BY <2>1, <2>5
    <3> HIDE DEF c
    <3>2. HeaderSize * j \in Int
      BY <1>1, <2>2
    <3> QED BY <3>1, <3>2
  <2>7. find_header_address_through_footer(m, p)
          = c - (get_size_bits_field(At(m, c + Half)) + HeaderSize)
    BY <1>3 DEF find_header_address_through_footer, F
  <2> HIDE DEF c
  <2>8. get_size_bits_field(At(m, c + Half)) \in Nat
    BY MemoryTypes, CellTypes
  <2> QED BY <1>1, <2>6, <2>7, <2>8
<1> QED BY <1>2, <1>3

-----------------------------------------------------------------------------
(* h_init and a stack without pointers. *)
LEMMA InitTyped == GcInit => Typed
<1> SUFFICES ASSUME GcInit PROVE Typed
  OBVIOUS
<1>1. High \in ShortCell
  BY CellTypes
<1> QED BY <1>1 DEF GcInit, Init, Typed, HalfActive, NULL, NoRef

(* The roots of a collection are slots. *)
LEMMA RootsAreSlots == Processed(root_ptrs) \subseteq 1 .. Slots
BY DEF Processed, root_ptrs

(* One root of a collection, whatever the word taken for its header.       *)
LEMMA RootTyped ==
  ASSUME Typed, NEW slot \in 1 .. Slots, garbage_collection(slot)
  PROVE  /\ mem' \in [Cells -> ShortCell] /\ stack' \in [1 .. Slots -> Int]
         /\ pc' \in {pc, "no room", "not moved", "undefined"}
         /\ front' \in Nat /\ ret' \in Nat /\ HalfActive'
<1> DEFINE p == stack[slot]
           hdr == find_header_address_through_footer(mem, p)
<1>1. p \in Int /\ hdr \in Int /\ mem \in [Cells -> ShortCell] /\ stack \in [1 .. Slots -> Int]
      /\ front \in Nat /\ ret \in Nat /\ HalfActive
  BY SearchType DEF Typed
<1>2. HeaderSize \in Nat /\ {BitVec, High, StackWord} \subseteq ShortCell
  BY Sizes, CellTypes
<1>3. \A a : At(mem, a) \in ShortCell /\ At(mem, a)[2] \in Nat
             /\ get_size_bits_field(At(mem, a)) \in Nat
  BY <1>1, MemoryTypes, CellTypes
<1>4. CASE UNCHANGED <<vars, mem, stack>> /\ pc' \in {pc, "undefined"}
  BY <1>1, <1>4 DEF vars, HalfActive
<1>5. CASE MoveStruct(slot, p, hdr)
  <2> DEFINE size == get_size_bits_field(At(mem, hdr + Half))
  <2>1. size \in Nat /\ h_alloc_struct(size)
    BY <1>3, <1>5 DEF MoveStruct
  <2>2. front' \in Nat /\ ret' \in Nat /\ HalfActive' /\ (ret' # NULL => ret' - HeaderSize \in Nat)
    BY <1>1, <2>1, AllocTypes
  <2>3. CASE ret' = NULL \/ ret' = p
    BY <1>1, <1>5, <2>2, <2>3 DEF MoveStruct, Stop
  <2>4. CASE ret' # NULL /\ ret' # p
    <3> DEFINE new == ret' - HeaderSize
               m == WriteStruct(mem, new, size)
               n == get_size_bits_field(At(m, hdr + Half))
    <3>1. /\ mem' = Forward(CopyBytes(m, ret', p, n), hdr, new)
          /\ stack' = [stack EXCEPT ![slot] = Repoint(new, p, hdr)]
          /\ pc' = pc
      BY <1>5, <2>4 DEF MoveStruct
    <3>2. new \in Nat
      BY <2>2, <2>4
    <3>3. m \in [Cells -> ShortCell]
      <4> HIDE DEF size
      <4>1. <<"desc", size>> \in ShortCell
        BY <2>1, CellTypes
      <4> QED BY <1>1, <1>2, <2>1, <4>1, MemoryTypes DEF WriteStruct
    <3> HIDE DEF m, new, n
    <3>4. CopyBytes(m, ret', p, n) \in [Cells -> ShortCell]
      BY <3>3, MemoryTypes
    <3>5. <<"fwd", new>> \in ShortCell
      BY <3>2, CellTypes
    <3>6. mem' \in [Cells -> ShortCell]
      BY <1>2, <3>1, <3>4, <3>5, MemoryTypes DEF Forward
    <3>7. Repoint(new, p, hdr) \in Int
      <4> HIDE DEF p, hdr
      <4> QED BY <1>1, <3>2 DEF Repoint
    <3> QED BY <1>1, <2>2, <3>1, <3>6, <3>7
  <2> QED BY <2>3, <2>4
<1>6. CASE FollowForward(slot, p, hdr)
  <2>1. At(mem, hdr)[2] \in Nat
    BY <1>3
  <2>2. Repoint(At(mem, hdr)[2], p, hdr) \in Int
    <3> HIDE DEF p, hdr
    <3> QED BY <1>1, <2>1 DEF Repoint
  <2> QED BY <1>1, <1>6, <2>2 DEF FollowForward, vars, HalfActive
<1>7. CASE MoveRaw(slot, p, hdr)
  <2> DEFINE size == header_get_size(mem, p - HeaderSize)
  <2>1. size \in Nat /\ h_alloc_raw(size)
    BY <1>3, <1>7 DEF MoveRaw, header_get_size
  <2>2. front' \in Nat /\ ret' \in Nat /\ HalfActive'
    BY <1>1, <2>1, AllocTypes
  <2>3. CASE ret' = NULL
    BY <1>1, <1>7, <2>2, <2>3 DEF MoveRaw, Stop
  <2>4. CASE ret' # NULL
    <3> DEFINE m == WriteRaw(mem, ret' - HeaderSize, size)
    <3>1. /\ mem' = Forward(Fill(m, ret', size, StackWord), p - HeaderSize, ret')
          /\ stack' = [stack EXCEPT ![slot] = ret']
          /\ pc' = pc
      BY <1>7, <2>4 DEF MoveRaw
    <3>2. m \in [Cells -> ShortCell]
      <4> HIDE DEF size
      <4>1. <<"raw", size>> \in ShortCell
        BY <2>1, CellTypes
      <4> QED BY <1>1, <1>2, <2>1, <4>1, MemoryTypes DEF WriteRaw
    <3> HIDE DEF m, size
    <3>3. Fill(m, ret', size, StackWord) \in [Cells -> ShortCell]
      BY <1>2, <3>2, MemoryTypes
    <3>4. <<"fwd", ret'>> \in ShortCell
      BY <2>2, CellTypes
    <3>5. mem' \in [Cells -> ShortCell]
      BY <1>2, <3>1, <3>3, <3>4, MemoryTypes DEF Forward
    <3> QED BY <1>1, <2>2, <3>1, <3>5
  <2> QED BY <2>3, <2>4
<1>8. CASE NoHeader(p, hdr)
  BY <1>4, <1>8 DEF NoHeader, Stop
<1> QED BY <1>4, <1>5, <1>6, <1>7, <1>8 DEF garbage_collection

(* Every step keeps the types. *)
LEMMA TypedKept ==
  ASSUME Typed, [GcNext]_allVars
  PROVE  Typed'
<1>0. /\ mem \in [Cells -> ShortCell] /\ stack \in [1 .. Slots -> Int]
      /\ front \in Nat /\ ret \in Nat /\ HalfActive /\ objCount \in Nat
  BY DEF Typed
<1>a. /\ todo \subseteq 1 .. Slots
      /\ pc \in {"run", "gc", "no room", "not moved", "undefined", "deleted"}
  BY DEF Typed
<1>1. ASSUME NEW slot \in 1 .. Slots, NEW size \in Nat, NEW lo \in ShortCell, NEW hi \in ShortCell,
             Running, objCount' = objCount + 1, h_alloc_struct(size) \/ h_alloc_raw(size),
             IF ret' = NULL
               THEN stack' = [stack EXCEPT ![slot] = NoRef] /\ mem' = mem
               ELSE /\ stack' = [stack EXCEPT ![slot] = ret']
                    /\ mem' = Fill(WriteBlock(mem, ret' - HeaderSize, size, lo, hi),
                                   ret', size, <<"data", objCount'>>)
      PROVE  Typed'
  <2>1. front' \in Nat /\ ret' \in Nat /\ HalfActive'
    BY <1>0, <1>1, AllocTypes
  <2>2. stack' \in [1 .. Slots -> Int]
    BY <1>0, <1>1, <2>1 DEF NoRef
  <2>3. objCount' \in Nat /\ <<"data", objCount'>> \in ShortCell
    <3>1. objCount' \in Nat
      BY <1>0, <1>1
    <3> QED BY <3>1, CellTypes
  <2>4. mem' \in [Cells -> ShortCell]
    <3>1. WriteBlock(mem, ret' - HeaderSize, size, lo, hi) \in [Cells -> ShortCell]
      BY <1>0, MemoryTypes
    <3> QED BY <1>0, <1>1, <2>3, <3>1, MemoryTypes
  <2>5. pc' = pc /\ todo' = todo
    BY <1>1 DEF Running
  <2> QED BY <1>0, <1>a, <2>1, <2>2, <2>3, <2>4, <2>5 DEF Typed, Cells, CellsOf, HeapSize, Half
<1>2. ASSUME NEW slot \in 1 .. Slots, NEW size \in StructSizes, AllocStruct(slot, size)
      PROVE  Typed'
  <2>1. size \in Nat
    BY HeapAssumption
  <2>2. BitVec \in ShortCell /\ <<"desc", size>> \in ShortCell
    BY <2>1, CellTypes
  <2> QED BY <1>1, <1>2, <2>1, <2>2 DEF AllocStruct, WriteStruct
<1>3. ASSUME NEW slot \in 1 .. Slots, NEW bytes \in RawSizes, AllocRaw(slot, bytes)
      PROVE  Typed'
  <2>1. bytes \in Nat
    BY HeapAssumption
  <2>2. High \in ShortCell /\ <<"raw", bytes>> \in ShortCell
    BY <2>1, CellTypes
  <2> QED BY <1>1, <1>3, <2>1, <2>2 DEF AllocRaw, WriteRaw
<1>4. CASE UNCHANGED <<vars, mem, objCount>> /\ stack' \in [1 .. Slots -> Int]
           /\ pc' \in {pc, "run", "deleted"} /\ todo' = todo
  BY <1>0, <1>a, <1>4 DEF vars, Typed, HalfActive, Cells, CellsOf, HeapSize, Half
<1>5. ASSUME NEW from \in 1 .. Slots, NEW to \in 1 .. Slots, NEW offset \in Offsets,
             CopyRef(from, to, offset)
      PROVE  Typed'
  <2>1. stack[from] + offset \in Int
    BY <1>0, CollectorAssumption
  <2> QED BY <1>0, <1>4, <1>5, <2>1 DEF CopyRef, Running
<1>6. ASSUME NEW slot \in 1 .. Slots, DropRef(slot) PROVE Typed'
  BY <1>0, <1>4, <1>6 DEF DropRef, Running, NoRef
<1>7. CASE StartGc
  <2>1. HalfActive' /\ front' = 0
    BY <1>0, <1>7, GcResetEffect DEF StartGc
  <2>2. /\ UNCHANGED <<mem, stack, objCount, ret>> /\ pc' = "gc"
        /\ todo' = Processed(root_ptrs)
    BY <1>7 DEF StartGc, GcReset
  <2> QED BY <1>0, <2>1, <2>2, RootsAreSlots DEF Typed, Cells, CellsOf, HeapSize, Half
<1>8. CASE GcRoot
  <2>1. PICK slot \in 1 .. Slots : garbage_collection(slot) /\ todo' = todo \ {slot}
    BY <1>a, <1>8 DEF GcRoot
  <2>2. /\ mem' \in [Cells -> ShortCell] /\ stack' \in [1 .. Slots -> Int]
        /\ pc' \in {pc, "no room", "not moved", "undefined"}
        /\ front' \in Nat /\ ret' \in Nat /\ HalfActive'
    BY <1>0, <2>1, RootTyped
  <2>3. objCount' = objCount
    BY <1>8 DEF GcRoot
  <2> QED BY <1>0, <1>a, <2>1, <2>2, <2>3 DEF Typed, Cells, CellsOf, HeapSize, Half
<1>9. CASE EndGc
  BY <1>0, <1>4, <1>9 DEF EndGc
<1>10. CASE h_delete_dbg
  <2>1. invalidate_ptrs_at_heap \in [1 .. Slots -> Int]
    BY <1>0 DEF invalidate_ptrs_at_heap, Dbg
  <2> QED BY <1>0, <1>4, <1>10, <2>1 DEF h_delete_dbg
<1>11. CASE UNCHANGED allVars
  BY <1>0, <1>4, <1>11 DEF allVars, gcVars
<1> QED BY <1>2, <1>3, <1>5, <1>6, <1>7, <1>8, <1>9, <1>10, <1>11 DEF GcNext

-----------------------------------------------------------------------------
(* A block placed for the program, and filled by it.                       *)
LEMMA PlacedClean ==
  ASSUME Typed, CleanInv, Running, [Next]_vars, NEW b, Places(b),
         objCount' = objCount + 1,
         NEW slot \in 1 .. Slots, stack' = [stack EXCEPT ![slot] = ret'],
         NEW lo, NEW hi, Put(mem', mem, b, lo, hi, <<"data", objCount'>>),
         b.kind = "struct" => lo = BitVec /\ hi = <<"desc", b.size>>
  PROVE  CleanInv'
<1>1. HeapInv /\ WindowWritten /\ StackInHeap /\ freed >= 0
  BY DEF CleanInv
<1>2. pc = "run" /\ pc' = "run" /\ freed' = freed
  BY DEF Running
<1>3. HeapInv'
  BY <1>1, HeapInvKept
<1>4. WindowWritten'
  <2>1. WindowTiles'
    BY <1>3 DEF HeapInv, Inv
  <2>2. objCount' \in Nat
    <3>1. objCount \in Nat
      BY DEF Typed
    <3> QED BY <3>1
  <2>3. b \in Block /\ Aligned(b.hdr) /\ Aligned(b.size)
        /\ (b.kind = "struct" => EndOf(b) <= HeapSize)
    BY <1>1, PlacedKnown DEF Places, HeapInv, Known
  <2>4. Written(mem', b) /\ \A c \in Cells : c < b.hdr => mem'[c] = mem[c]
    BY <2>2, <2>3, PlacedWritten
  <2> QED BY <1>1, <2>1, <2>4, PlacesKeepsWritten
<1>5. StackInHeap'
  <2>1. ret' \in 0 .. HeapSize + HeaderSize
    <3>1. ret' = DataOf(b) /\ ~Overrun
      BY DEF Places
    <3>2. DataOf(b) = b.hdr + HeaderSize /\ b.hdr \in Nat /\ b.hdr <= front /\ front \in Nat
      BY <1>1, PlacesFacts DEF HeapInv
    <3> QED BY <3>1, <3>2, Sizes DEF Overrun
  <2>2. stack \in [1 .. Slots -> Int]
    BY DEF Typed
  <2>3. ASSUME NEW s \in 1 .. Slots PROVE stack'[s] \in 0 .. HeapSize + HeaderSize \cup {NoRef}
    BY <1>1, <1>2, <2>1, <2>2 DEF StackInHeap
  <2> QED BY <2>3 DEF StackInHeap, HeapSize, NoRef
<1> QED BY <1>1, <1>2, <1>3, <1>4, <1>5 DEF CleanInv

(* A step that does not touch the blocks of the window. *)
LEMMA WindowUntouched ==
  ASSUME WindowWritten, UNCHANGED <<mem, objs, base>>
  PROVE  WindowWritten'
<1>1. \A i \in base .. Len(objs) : Written(mem, objs[i])
  BY DEF WindowWritten
<1>2. \A i \in base' .. Len(objs') : Written(mem', objs'[i])
  BY <1>1
<1> QED BY <1>2 DEF WindowWritten, Written, HasData, HasHeader, HasFooter, At, EndOf, FooterOf

(* A step that does not touch the heap. *)
LEMMA HeapUntouched ==
  ASSUME HeapInv, WindowWritten, UNCHANGED <<vars, mem>>
  PROVE  HeapInv' /\ WindowWritten'
<1>1. HeapInv'
  BY HeapInvKept
<1>2. WindowWritten'
  BY WindowUntouched DEF vars
<1> QED BY <1>1, <1>2

(* A request that is refused leaves a slot without a pointer.              *)
LEMMA RefusedClean ==
  ASSUME Typed, CleanInv, Running, [Next]_vars, Refuses,
         NEW slot \in 1 .. Slots, stack' = [stack EXCEPT ![slot] = NoRef], mem' = mem
  PROVE  CleanInv'
<1>1. HeapInv /\ WindowWritten /\ StackInHeap /\ freed >= 0
  BY DEF CleanInv
<1>2. pc = "run" /\ pc' = "run" /\ freed' = freed
  BY DEF Running
<1>3. HeapInv'
  BY <1>1, HeapInvKept
<1>4. WindowWritten'
  BY <1>1, WindowUntouched DEF Refuses
<1>5. StackInHeap'
  <2>1. stack \in [1 .. Slots -> Int]
    BY DEF Typed
  <2>2. ASSUME NEW s \in 1 .. Slots PROVE stack'[s] \in 0 .. HeapSize + HeaderSize \cup {NoRef}
    BY <1>1, <1>2, <2>1 DEF StackInHeap
  <2> QED BY <2>2 DEF StackInHeap, HeapSize, NoRef
<1> QED BY <1>1, <1>2, <1>3, <1>4, <1>5 DEF CleanInv

(* The program allocates (gc.c:180-369). *)
LEMMA AllocClean ==
  ASSUME Typed, CleanInv, NEW slot \in 1 .. Slots, NEW size,
         \/ size \in StructSizes /\ AllocStruct(slot, size)
         \/ size \in RawSizes /\ AllocRaw(slot, size)
  PROVE  CleanInv'
<1>1. Inv /\ front \in Nat
  BY DEF CleanInv, HeapInv, Typed
<1>2. ASSUME NEW b, Places(b) PROVE ret' # NULL /\ b.hdr = ret' - HeaderSize /\ ret' = DataOf(b)
  <2>1. ret' = DataOf(b) /\ DataOf(b) = b.hdr + HeaderSize /\ b.hdr \in Nat
    BY <1>1, <1>2, PlacesFacts DEF Places
  <2> QED BY <2>1, Sizes DEF NULL
<1>3. CASE size \in StructSizes /\ AllocStruct(slot, size)
  <2>1. Running /\ h_alloc_struct(size) /\ objCount' = objCount + 1
    BY <1>3 DEF AllocStruct
  <2>2. [Next]_vars
    BY <1>3, <2>1 DEF Next, Alloc
  <2>3. CASE Refuses
    <3>1. stack' = [stack EXCEPT ![slot] = NoRef] /\ mem' = mem
      BY <1>3, <2>3 DEF AllocStruct, Refuses
    <3> QED BY <2>1, <2>2, <2>3, <3>1, RefusedClean
  <2>4. CASE Places([hdr |-> Landing(size), size |-> size, kind |-> "struct"])
    <3> DEFINE b == [hdr |-> Landing(size), size |-> size, kind |-> "struct"]
    <3>1. b.size = size /\ b.kind = "struct" /\ Places(b)
      BY <2>4
    <3> HIDE DEF b
    <3>2. ret' # NULL /\ b.hdr = ret' - HeaderSize /\ ret' = DataOf(b)
      BY <1>2, <3>1
    <3>3. /\ stack' = [stack EXCEPT ![slot] = ret']
          /\ Put(mem', mem, b, BitVec, <<"desc", b.size>>, <<"data", objCount'>>)
      BY <1>3, <3>1, <3>2 DEF AllocStruct, Put, WriteStruct
    <3> QED BY <2>1, <2>2, <3>1, <3>3, PlacedClean
  <2> QED BY <1>1, <1>3, <2>1, <2>3, <2>4, StructPlaces
<1>4. CASE size \in RawSizes /\ AllocRaw(slot, size)
  <2>1. Running /\ h_alloc_raw(size) /\ objCount' = objCount + 1
    BY <1>4 DEF AllocRaw
  <2>2. [Next]_vars
    BY <1>4, <2>1 DEF Next, Alloc
  <2>3. CASE Refuses
    <3>1. stack' = [stack EXCEPT ![slot] = NoRef] /\ mem' = mem
      BY <1>4, <2>3 DEF AllocRaw, Refuses
    <3> QED BY <2>1, <2>2, <2>3, <3>1, RefusedClean
  <2>4. CASE Places([hdr |-> front, size |-> size, kind |-> "raw"])
    <3> DEFINE b == [hdr |-> front, size |-> size, kind |-> "raw"]
    <3>1. b.size = size /\ b.kind = "raw" /\ Places(b)
      BY <2>4
    <3> HIDE DEF b
    <3>2. ret' # NULL /\ b.hdr = ret' - HeaderSize /\ ret' = DataOf(b)
      BY <1>2, <3>1
    <3>3. /\ stack' = [stack EXCEPT ![slot] = ret']
          /\ Put(mem', mem, b, <<"raw", b.size>>, High, <<"data", objCount'>>)
      BY <1>4, <3>1, <3>2 DEF AllocRaw, Put, WriteRaw
    <3> QED BY <2>1, <2>2, <3>1, <3>3, PlacedClean
  <2> QED BY <1>1, <1>4, <2>1, <2>3, <2>4, RawPlaces
<1> QED BY <1>3, <1>4

(* The program copies and drops pointers; a pointer into an object is one  *)
(* into the heap.                                                          *)
LEMMA CopyClean ==
  ASSUME Typed, CleanInv,
         \/ \E from, to \in 1 .. Slots, offset \in Offsets : CopyRef(from, to, offset)
         \/ \E slot \in 1 .. Slots : DropRef(slot)
  PROVE  CleanInv'
<1>1. HeapInv /\ WindowWritten /\ StackInHeap /\ freed >= 0
      /\ stack \in [1 .. Slots -> Int] /\ HeapSize \in Nat /\ HeaderSize \in Nat
  BY Sizes DEF CleanInv, Typed
<1>2. Running /\ UNCHANGED <<vars, mem>>
  BY DEF CopyRef, DropRef
<1>3. pc = "run" /\ pc' = "run" /\ freed' = freed
  BY <1>2 DEF Running
<1>4. HeapInv' /\ WindowWritten'
  BY <1>1, <1>2, HeapUntouched
<1>5. ASSUME NEW i \in 1 .. Slots, NEW a \in 0 .. HeapSize + HeaderSize \cup {NoRef},
             stack' = [stack EXCEPT ![i] = a]
      PROVE  StackInHeap'
  <2>1. ASSUME NEW s \in 1 .. Slots PROVE stack'[s] \in 0 .. HeapSize + HeaderSize \cup {NoRef}
    BY <1>1, <1>3, <1>5 DEF StackInHeap
  <2> QED BY <2>1 DEF StackInHeap, HeapSize, NoRef
<1>6. ASSUME NEW from \in 1 .. Slots, NEW to \in 1 .. Slots, NEW offset \in Offsets,
             CopyRef(from, to, offset)
      PROVE  StackInHeap'
  <2> DEFINE a == stack[from] + offset
  <2>1. stack[from] \in 0 .. HeapSize + HeaderSize /\ offset \in Nat
    BY <1>1, <1>3, <1>6, CollectorAssumption DEF StackInHeap, CopyRef
  <2>2. a \in 0 .. HeapSize + HeaderSize
    <3>1. CASE offset = 0
      BY <2>1, <3>1
    <3>2. CASE InObject(a)
      <4>1. PICK i \in 1 .. Len(objs) : a < DataOf(objs[i]) + objs[i].size
        BY <3>2 DEF InObject
      <4>2. objs[i] \in Block /\ Known(objs[i])
        BY <1>1 DEF HeapInv, Inv, TypeOK, BlocksKnown
      <4> DEFINE hdr == objs[i].hdr
                 n == objs[i].size
      <4>3. hdr \in Nat /\ n \in Nat /\ EndOf(objs[i]) <= HeapSize + 2 * HeaderSize
        BY <1>1, <4>2 DEF Block, Known, EndOf, Footprint
      <4>4. a < (hdr + HeaderSize) + n /\ EndOf(objs[i]) = hdr + (n + 2 * HeaderSize)
        BY <4>1 DEF DataOf, EndOf, Footprint
      <4>5. a \in Nat
        BY <2>1
      <4> HIDE DEF hdr, n, a
      <4> QED BY <1>1, <4>3, <4>4, <4>5
    <3> QED BY <1>6, <3>1, <3>2 DEF CopyRef
  <2> QED BY <1>5, <1>6, <2>2 DEF CopyRef
<1>7. ASSUME NEW slot \in 1 .. Slots, DropRef(slot) PROVE StackInHeap'
  BY <1>5, <1>7 DEF DropRef
<1>8. StackInHeap'
  BY <1>6, <1>7
<1> QED BY <1>1, <1>3, <1>4, <1>8 DEF CleanInv

(* h_delete_dbg touches the slots only (gc.c:137-144).                     *)
LEMMA DeleteClean ==
  ASSUME Typed, CleanInv, h_delete_dbg
  PROVE  CleanInv'
<1>1. HeapInv /\ WindowWritten /\ StackInHeap /\ freed >= 0
  BY DEF CleanInv
<1>2. UNCHANGED <<vars, mem>> /\ pc = "run" /\ pc' = "deleted" /\ freed' = freed
      /\ stack' = invalidate_ptrs_at_heap
  BY DEF h_delete_dbg
<1>3. HeapInv' /\ WindowWritten'
  BY <1>1, <1>2, HeapUntouched
<1>4. ASSUME NEW s \in 1 .. Slots
      PROVE  stack'[s] \in 0 .. HeapSize + HeaderSize \cup {NoRef, Dbg}
  <2>1. stack[s] \in 0 .. HeapSize + HeaderSize \cup {NoRef}
    BY <1>1, <1>2 DEF StackInHeap
  <2>2. stack'[s] \in {Dbg, stack[s]}
    BY <1>2 DEF invalidate_ptrs_at_heap
  <2> QED BY <2>1, <2>2
<1>5. StackInHeap'
  BY <1>2, <1>4 DEF StackInHeap, HeapSize, NoRef, Dbg
<1> QED BY <1>1, <1>2, <1>3, <1>5 DEF CleanInv

-----------------------------------------------------------------------------
(* The data of a block in the heap begins with a cell of the heap.         *)
LEMMA DataCell ==
  ASSUME NEW b \in Block, Known(b), EndOf(b) <= HeapSize
  PROVE  DataOf(b) \in Cells /\ DataOf(b) \in Int /\ DataOf(b) < FooterOf(b)
<1> DEFINE hdr == b.hdr
           size == b.size
<1>1. /\ hdr \in Nat /\ size \in Nat /\ size > 0 /\ Aligned(hdr) /\ DataOf(b) = hdr + HeaderSize
      /\ FooterOf(b) = (hdr + HeaderSize) + size /\ EndOf(b) = hdr + (size + 2 * HeaderSize)
  BY DEF Block, Known, DataOf, FooterOf, EndOf, Footprint
<1> HIDE DEF hdr, size
<1>2. HeaderSize \in Nat /\ Aligned(HeaderSize) /\ HeapSize \in Nat
  BY Sizes, AlignedSizes
<1>3. Aligned(hdr + HeaderSize)
  BY <1>1, <1>2, AlignedSum
<1>4. /\ DataOf(b) \in Int /\ 0 <= DataOf(b) /\ DataOf(b) < HeapSize /\ Aligned(DataOf(b))
      /\ DataOf(b) < FooterOf(b)
  BY <1>1, <1>2, <1>3
<1> QED BY <1>4, CellsOfHeap

(* At the beginning of a collection all blocks of the window are as they   *)
(* were written, and no root has been moved (gc.c:533-562).                *)
LEMMA StartClean ==
  ASSUME Typed, CleanInv, StartGc
  PROVE  CleanInv'
<1>0. /\ HeapInv /\ Inv /\ HalfActive /\ WindowWritten /\ BlocksKnown /\ WindowTiles /\ UsedCharged
      /\ StackInHeap /\ freed >= 0
  BY DEF CleanInv, HeapInv, Inv
<1>1. /\ pc = "run" /\ pc' = "gc" /\ GcReset /\ oldUsed' = used
      /\ todo' = Processed(root_ptrs)
      /\ scan' = [slot \in todo' |-> [from |-> stack[slot], id |-> At(mem, stack[slot])[2]]]
      /\ old' = SubSeq(objs, base, Len(objs))
      /\ mem' = mem /\ stack' = stack /\ freed' = freed
  BY DEF StartGc, old_used_mermory, h_used
<1>2. front' = 0 /\ base' = 1 /\ objs' = << >> /\ used' = 0
  BY <1>0, <1>1, GcResetEffect DEF GcReset
<1>3. HeapInv'
  BY <1>0, <1>1, HeapInvKept DEF Next
<1>4. WindowWritten'
  BY <1>2 DEF WindowWritten
<1>5. StackInHeap'
  BY <1>0, <1>1 DEF StackInHeap, HeapSize, NoRef, Dbg
<1>6. DOMAIN scan' = todo' /\ Done' = {}
  BY <1>1 DEF Done
<1>7. RootsPending'
  BY <1>1, <1>6, RootsAreSlots DEF RootsPending
<1>8. RootsMoved'
  BY <1>6 DEF RootsMoved
<1> DEFINE n == Len(objs)
           k == base - 1
           m == Len(old')
<1>9. /\ objs \in Seq(Block) /\ n \in Nat /\ base \in 1 .. n + 1 /\ k \in 0 .. n /\ used \in Nat
  BY <1>0 DEF Inv, TypeOK
<1>10. /\ old' \in Seq(Block) /\ m = n - k
       /\ \A i \in 1 .. m : old'[i] = objs[k + i] /\ k + i \in base .. n /\ k + i \in 1 .. n
  <2>1. old' \in Seq(Block) /\ m = n - k
    BY <1>1, <1>9
  <2>2. \A i \in 1 .. m : old'[i] = objs[k + i]
    BY <1>1, <1>9
  <2>3. \A i \in 1 .. m : k + i \in base .. n /\ k + i \in 1 .. n
    <3> HIDE DEF n, m
    <3> QED BY <1>9, <2>1
  <2> QED BY <2>1, <2>2, <2>3
<1>11. ASSUME NEW i \in 1 .. m
       PROVE  old'[i] \in Block /\ Known(old'[i]) /\ Written(mem, old'[i])
  <2> DEFINE j == k + i
  <2>1. old'[i] = objs[j] /\ j \in base .. n /\ j \in 1 .. n
    BY <1>10
  <2> HIDE DEF j
  <2> QED BY <1>0, <1>9, <2>1 DEF BlocksKnown, WindowWritten
<1>12. OldTiled'
  <2>1. ASSUME NEW i \in 1 .. m, NEW j \in 1 .. m, i < j PROVE EndOf(old'[i]) <= old'[j].hdr
    <3>1. k + i < k + j
      BY <1>9, <2>1
    <3> HIDE DEF k, m
    <3> QED BY <1>0, <1>10, <3>1 DEF WindowTiles
  <2> HIDE DEF m
  <2> QED BY <1>10, <1>11, <2>1
      DEF OldTiled, m, EndOf, Footprint, Known, Aligned, HeapSize, Half
<1>13. ASSUME NEW i \in 1 .. m, old'[i].kind = "struct" PROVE Kept(old[i])'
  <2> DEFINE b == old'[i]
  <2>1. /\ b \in Block /\ Aligned(b.hdr) /\ b.size > 0 /\ EndOf(b) <= HeapSize /\ Written(mem, b)
        /\ b.kind = "struct"
    BY <1>11, <1>13 DEF Known
  <2>2. HasFooter(mem, b) /\ HasHeader(mem, b)
    BY <2>1 DEF Written
  <2>3. PICK id \in Nat : HasData(mem, b, id)
    BY <2>1 DEF Written
  <2>4. mem[DataOf(b)] = <<"data", id>> /\ DataOf(b) \in Cells
    <3>1. Known(b)
      BY <1>11, <1>13
    <3> HIDE DEF b
    <3>2. DataOf(b) \in Cells /\ DataOf(b) <= DataOf(b) /\ DataOf(b) < FooterOf(b)
      BY <2>1, <3>1, DataCell
    <3> QED BY <2>3, <3>2 DEF HasData
  <2>5. ASSUME NEW s \in DOMAIN scan', scan'[s].from = DataOf(b) PROVE scan'[s].id = id
    <3>1. scan'[s].from = stack[s] /\ scan'[s].id = At(mem, stack[s])[2]
      BY <1>1, <1>6
    <3>2. At(mem, DataOf(b)) = <<"data", id>>
      BY <2>4 DEF At
    <3> QED BY <2>5, <3>1, <3>2
  <2>6. HasFooter(mem, old[i])' /\ HasHeader(mem, old[i])'
    BY <1>1, <2>2 DEF HasHeader, HasFooter, FooterOf, DataOf, At
  <2>7. HasData(mem, old[i], id)'
    BY <1>1, <2>3 DEF HasData, FooterOf, DataOf
  <2>8. \A s \in DOMAIN scan' : scan'[s].from = DataOf(old[i])' => scan'[s].id = id
    BY <2>5 DEF DataOf
  <2> QED BY <1>6, <2>6, <2>7, <2>8 DEF Kept
<1>14. OldKept'
  BY <1>13 DEF OldKept
<1>15. MovedCharged'
  <2> DEFINE f == Charges(objs)
             g == Charges(old')
             z == MovedCharges'
  <2>1. \A i \in Nat : StructCharge(i) \in Nat
    BY Sizes DEF StructCharge
  <2>2. f \in [1 .. n -> Nat] /\ \A i \in 1 .. n : f[i] = StructCharge(objs[i].size)
    <3>1. \A i \in 1 .. n : objs[i] \in Block
      BY <1>9
    <3>2. \A i \in 1 .. n : objs[i].size \in Nat
      BY <3>1 DEF Block
    <3> QED BY <2>1, <3>2 DEF Charges
  <2>3. g \in [1 .. m -> Nat] /\ \A i \in 1 .. m : g[i] = StructCharge(old'[i].size)
    BY <1>11, <2>1 DEF Charges, Block
  <2>4. \A i \in 1 .. m : g[i] = f[k + i]
    BY <1>10, <2>2, <2>3
  <2>5. z \in [1 .. m -> Int] /\ \A i \in 1 .. m : z[i] = 0
    BY <1>6 DEF MovedCharges, AlreadyMoved
  <2> HIDE DEF f, g, z
  <2>6. Total(g, m) <= Total(f, n)
    <3> HIDE DEF n, m, k
    <3> QED BY <1>9, <1>10, <2>2, <2>3, <2>4, TotalSuffix
  <2>7. Total(z, m) = 0
    <3>1. m \in Nat
      BY <1>9, <1>10
    <3> HIDE DEF m
    <3> QED BY <2>5, <3>1, TotalZero
  <2>8. Total(f, n) = used
    BY <1>0 DEF UsedCharged, f
  <2> QED BY <1>1, <1>2, <1>9, <2>6, <2>7, <2>8 DEF MovedCharged, f, g, z, Charges, StructCharge
<1>16. Collecting'
  BY <1>2, <1>7, <1>8, <1>12, <1>14, <1>15 DEF Collecting
<1> QED BY <1>0, <1>1, <1>3, <1>4, <1>5, <1>16 DEF CleanInv

-----------------------------------------------------------------------------
(* What has become of memory m when b has been copied to new.              *)
Copied(w, m, b, new, k) ==
  /\ HasData(w, new, k) /\ Written(w, new)
  /\ \A c \in Cells : c < new.hdr => w[c] = m[c]
  /\ \A a \in Int : EndOf(new) <= a /\ a # b.hdr /\ a # b.hdr + Half => At(w, a) = At(m, a)
  /\ At(w, b.hdr) = <<"fwd", new.hdr>>

(* The copy of an object that lies at or behind the end of its new place:  *)
(* a block written like any other, and a forwarding address in the header  *)
(* of the old one (gc.c:417-434).                                          *)
LEMMA CopyEffect ==
  ASSUME NEW m, NEW b \in Block, NEW new \in Block,
         new.size = b.size, new.kind = "struct", EndOf(new) <= b.hdr, EndOf(b) <= HeapSize,
         Aligned(b.hdr), Aligned(new.hdr), Aligned(b.size),
         NEW k \in Nat, HasData(m, b, k)
  PROVE  LET put == WriteStruct(m, new.hdr, b.size)
             w == Forward(CopyBytes(put, DataOf(new), DataOf(b), b.size), b.hdr, new.hdr)
         IN  At(put, b.hdr + Half) = At(m, b.hdr + Half) /\ Copied(w, m, b, new, k)
<1> DEFINE n == b.size
           to == DataOf(new)
           from == DataOf(b)
           desc == <<"desc", n>>
           data == <<"data", k>>
           put == WriteBlock(m, new.hdr, n, BitVec, desc)
           x == CopyBytes(put, to, from, n)
           w == PutWord(x, b.hdr, <<"fwd", new.hdr>>, High)
<1>1. /\ Half \in Nat \ {0} /\ HeaderSize = 2 * Half /\ HeapSize \in Nat
      /\ n \in Nat /\ b.hdr \in Nat /\ new.hdr \in Nat
  BY Sizes DEF Block
<1>2. /\ to = new.hdr + HeaderSize /\ from = b.hdr + HeaderSize
      /\ FooterOf(new) = to + n /\ EndOf(new) = to + n + HeaderSize
      /\ FooterOf(b) = from + n /\ EndOf(b) = from + n + HeaderSize
  BY <1>1 DEF DataOf, FooterOf, EndOf, Footprint
<1>3. /\ to \in Nat /\ from \in Nat /\ to + n + HeaderSize <= b.hdr
      /\ from + n + HeaderSize <= HeapSize
  BY <1>1, <1>2
<1>4. Aligned(to) /\ Aligned(from) /\ Aligned(n) /\ Aligned(b.hdr)
  <2>1. HeaderSize \in Int /\ b.hdr \in Int /\ new.hdr \in Int /\ Aligned(HeaderSize)
    BY <1>1, AlignedSizes
  <2> QED BY <1>2, <2>1, AlignedSum
<1>5. \A c \in Int : EndOf(new) <= c => At(put, c) = At(m, c)
  BY <1>1, <1>2 DEF WriteBlock, PutWord, At
<1> HIDE DEF put
<1>6. Put(x, m, new, BitVec, desc, data)
  <2> DEFINE f == Fill(put, to, n, data)
  <2>1. ASSUME NEW c \in CellsOf(to, n) PROVE At(put, from + (c - to)) = data
    <3> HIDE DEF to, from, n
    <3>1. c \in Int /\ Aligned(c) /\ to <= c /\ c < to + n
      BY <1>1, <1>3, <1>4, CellsOfStretch
    <3>2. c - to \in Int /\ Aligned(c - to)
      BY <1>3, <1>4, <3>1, AlignedSum
    <3> DEFINE d == c - to
               a == from + d
    <3>3. a \in Int /\ Aligned(a)
      <4>1. d \in Int /\ Aligned(d) /\ from \in Int
        BY <1>3, <3>2
      <4> HIDE DEF d
      <4> QED BY <1>4, <4>1, AlignedSum
    <3>4. from <= a /\ a < from + n
      BY <1>1, <1>3, <3>1
    <3> HIDE DEF a
    <3>5. a \in Cells /\ EndOf(new) <= a
      BY <1>1, <1>2, <1>3, <3>3, <3>4, CellsOfHeap
    <3>6. m[a] = data
      BY <1>2, <3>4, <3>5 DEF HasData, from
    <3>7. At(put, a) = data
      BY <1>5, <3>3, <3>5, <3>6 DEF At
    <3> QED BY <3>7 DEF a
  <2>2. x = f
    BY <2>1 DEF CopyBytes, Fill
  <2> QED BY <2>2 DEF Put, put
<1>7. /\ HasData(x, new, k) /\ Written(x, new)
      /\ \A c \in Cells : c < new.hdr \/ EndOf(new) <= c => x[c] = m[c]
  <2>1. new.kind = "struct" => BitVec = BitVec /\ desc = <<"desc", new.size>> /\ EndOf(new) <= HeapSize
    BY <1>1, <1>2, <1>3
  <2>2. Aligned(new.size)
    OBVIOUS
  <2> HIDE DEF x, desc, data
  <2>3. HasData(x, new, k) /\ Written(x, new)
    BY <1>6, <2>1, <2>2, PlacedWritten DEF data
  <2>4. \A c \in Cells : c < new.hdr \/ EndOf(new) <= c => x[c] = m[c]
    BY <1>6, <2>2, BlockEffect
  <2> QED BY <2>3, <2>4
<1> HIDE DEF x
<1>8. \A c \in Cells : w[c] = IF c = b.hdr THEN <<"fwd", new.hdr>>
                              ELSE IF c = b.hdr + Half THEN High ELSE x[c]
  BY DEF PutWord
<1> HIDE DEF w, to, from
<1>9. \A c \in Cells : c < EndOf(new) => w[c] = x[c]
  BY <1>1, <1>2, <1>3, <1>8, CellsOfHeap
<1>10. HasData(w, new, k) /\ Written(w, new)
  <2>1. EndOf(new) \in Int /\ EndOf(new) <= EndOf(new)
    BY <1>1, <1>2, <1>3
  <2> QED BY <1>7, <1>9, <2>1, WrittenBelow
<1>11. \A c \in Cells : c < new.hdr => w[c] = m[c]
  BY <1>1, <1>2, <1>3, <1>7, <1>9, CellsOfHeap
<1>12. \A a \in Int : EndOf(new) <= a /\ a # b.hdr /\ a # b.hdr + Half => At(w, a) = At(m, a)
  BY <1>7, <1>8 DEF At
<1>13. At(w, b.hdr) = <<"fwd", new.hdr>>
  <2>1. b.hdr \in Cells
    BY <1>1, <1>2, <1>3, <1>4, CellsOfHeap
  <2> QED BY <1>8, <2>1 DEF At
<1>14. At(put, b.hdr + Half) = At(m, b.hdr + Half)
  <2>1. b.hdr + Half \in Int /\ EndOf(new) <= b.hdr + Half
    BY <1>1, <1>2, <1>3
  <2> QED BY <1>5, <2>1
<1>15. Copied(w, m, b, new, k)
  BY <1>10, <1>11, <1>12, <1>13 DEF Copied
<1> QED BY <1>14, <1>15 DEF put, x, w, to, from, WriteStruct, Forward

-----------------------------------------------------------------------------
(* The block b of the last window a root that is not too close points to,  *)
(* which the search finds (gc.c:380-396).                                  *)
RootOf(slot, i) ==
  LET b == old[i] IN
  /\ i \in 1 .. Len(old) /\ b \in Block /\ Known(b) /\ b.kind = "struct"
  /\ stack[slot] = DataOf(b) /\ scan[slot].from = stack[slot]
  /\ front <= b.hdr /\ Kept(b)
  /\ find_header_address_through_footer(mem, stack[slot]) = b.hdr
  /\ ~AlreadyMoved(stack[slot]) => front + Footprint(b.size) <= b.hdr /\ StructFits(b.size)

(* A root that is not too close points to a block of the last window whose *)
(* header the search finds.                                                *)
LEMMA RootBlock ==
  ASSUME Typed, CleanInv, pc = "gc", NEW slot \in todo, ~TooClose(stack[slot])
  PROVE  \E i : RootOf(slot, i)
<1>1. OldTiled /\ OldKept /\ RootsPending
  BY DEF CleanInv, Collecting
<1>2. PICK b \in BlocksAt(stack[slot]) :
        /\ b.kind = "struct" /\ b.size % HeaderSize = 0
        /\ IF AlreadyMoved(stack[slot]) THEN front <= b.hdr
           ELSE front + Footprint(b.size) <= b.hdr /\ StructFits(b.size)
  BY DEF TooClose
<1>3. PICK i \in 1 .. Len(old) : old[i] = b
  BY DEF BlocksAt
<1>4. DataOf(b) = stack[slot]
  BY DEF BlocksAt
<1>5. b \in Block /\ Known(b)
  <2>1. old \in Seq(Block) /\ \A j \in 1 .. Len(old) : Known(old[j])
    BY <1>1 DEF OldTiled
  <2>2. old[i] \in Block /\ Known(old[i])
    BY <2>1
  <2> QED BY <1>3, <2>2
<1>6. b.size \in StructSizes /\ b.size \in Nat /\ b.hdr \in Nat /\ b.size < SizeMod
  BY <1>2, <1>5, CollectorAssumption DEF Known, Block
<1>7. front <= b.hdr
  <2> DEFINE at == b.hdr
             n == b.size
  <2>1. at \in Nat /\ n \in Nat /\ front \in Nat /\ HeaderSize \in Nat
    BY <1>6, Sizes DEF Typed
  <2>2. front <= at \/ front + (n + 2 * HeaderSize) <= at
    BY <1>2 DEF Footprint
  <2> HIDE DEF at, n
  <2>3. front <= at
    BY <2>1, <2>2
  <2> QED BY <2>3 DEF at
<1>8. Kept(b)
  BY <1>1, <1>2, <1>3, <1>7 DEF OldKept
<1>9. scan[slot].from = stack[slot]
  BY <1>1 DEF RootsPending
<1>10. find_header_address_through_footer(mem, stack[slot]) = b.hdr
  <2>1. HasFooter(mem, b) /\ \E k \in Nat : HasData(mem, b, k)
    BY <1>8 DEF Kept
  <2> QED BY <1>2, <1>4, <1>5, <1>6, <2>1, SearchFinds
<1> QED BY <1>2, <1>3, <1>4, <1>5, <1>7, <1>8, <1>9, <1>10 DEF RootOf

(* What is known of a slot that is processed next. *)
LEMMA RootNext ==
  ASSUME Typed, CleanInv, pc = "gc", NEW slot \in todo, todo' = todo \ {slot}, scan' = scan
  PROVE  /\ slot \in 1 .. Slots /\ slot \in DOMAIN scan /\ slot \notin Done
         /\ Done' = Done \cup {slot}
         /\ \A p : AlreadyMoved(p)' <=> AlreadyMoved(p) \/ p = scan[slot].from
<1>1. todo \subseteq DOMAIN scan /\ DOMAIN scan \subseteq 1 .. Slots
  BY DEF CleanInv, Collecting, RootsPending
<1>2. Done' = Done \cup {slot} /\ slot \notin Done
  BY <1>1 DEF Done
<1>3. ASSUME NEW p PROVE AlreadyMoved(p)' <=> AlreadyMoved(p) \/ p = scan[slot].from
  BY <1>2 DEF AlreadyMoved
<1> QED BY <1>1, <1>2, <1>3

(* A root of an object that has been copied is sent after it, and nothing  *)
(* else changes (gc.c:446-454).                                            *)
LEMMA FollowOnly ==
  ASSUME Typed, CleanInv, pc = "gc", NEW slot \in todo, NEW i, RootOf(slot, i),
         AlreadyMoved(stack[slot]), garbage_collection(slot)
  PROVE  /\ UNCHANGED <<vars, mem, pc>>
         /\ \E s0 \in Done : /\ scan[s0].from = stack[slot]
                             /\ stack' = [stack EXCEPT ![slot] = stack[s0]]
<1> DEFINE b == old[i]
           p == stack[slot]
           at == b.hdr
<1>1. RootsPending
  BY DEF CleanInv, Collecting
<1>2. /\ b \in Block /\ p = DataOf(b) /\ Kept(b)
      /\ find_header_address_through_footer(mem, p) = b.hdr
  BY DEF RootOf
<1>3. stack \in [1 .. Slots -> Int] /\ HeaderSize \in Nat /\ Done \subseteq 1 .. Slots
  BY <1>1, Sizes DEF Typed, RootsPending, Done
<1>4. PICK s0 \in Done : scan[s0].from = p
  BY DEF AlreadyMoved
<1>5. stack[s0] \in Int /\ s0 \in 1 .. Slots
  BY <1>3
<1> HIDE DEF p
<1>6. At(mem, at) = <<"fwd", stack[s0] - HeaderSize>>
  BY <1>2, <1>4 DEF Kept
<1>7. at \in Nat /\ p = at + HeaderSize
  BY <1>2 DEF Block, DataOf
<1>8. FollowForward(slot, p, at)
  <2>1. at # NoRef
    <3> HIDE DEF at
    <3> QED BY <1>7 DEF NoRef
  <2>2. At(mem, at)[1] = "fwd" /\ At(mem, at) # BitVec
    BY <1>6 DEF BitVec
  <2> HIDE DEF at
  <2>3. ~MoveStruct(slot, p, at) /\ ~MoveRaw(slot, p, at) /\ ~NoHeader(p, at)
    BY <2>2 DEF MoveStruct, MoveRaw, NoHeader, OtherHeader
  <2> QED BY <1>2, <2>1, <2>3 DEF garbage_collection, p, at
<1>9. UNCHANGED <<vars, mem, pc>> /\ stack' = [stack EXCEPT ![slot] = stack[s0]]
  <2> DEFINE a == stack[s0]
  <2>1. At(mem, at)[2] = a - HeaderSize
    BY <1>6
  <2>2. a \in Int
    BY <1>5
  <2> HIDE DEF at, a
  <2>3. (a - HeaderSize) + (p - at) = a
    BY <1>3, <1>7, <2>2
  <2> QED BY <1>8, <2>1, <2>3 DEF FollowForward, Repoint, a
<1> QED BY <1>4, <1>9 DEF p

(* What was known of the other roots and of the old blocks is still true.  *)
LEMMA FollowClean ==
  ASSUME Typed, CleanInv, pc = "gc", NEW slot \in todo, NEW i, RootOf(slot, i),
         AlreadyMoved(stack[slot]), garbage_collection(slot),
         todo' = todo \ {slot}, UNCHANGED <<freed, oldUsed, scan, old>>
  PROVE  CleanInv'
<1> DEFINE b == old[i]
           p == stack[slot]
           at == b.hdr
<1>1. /\ HeapInv /\ WindowWritten /\ StackInHeap /\ freed >= 0 /\ base = 1
      /\ OldTiled /\ OldKept /\ RootsPending /\ RootsMoved /\ MovedCharged
  BY DEF CleanInv, Collecting
<1>2. /\ b \in Block /\ p = DataOf(b) /\ scan[slot].from = p /\ Kept(b)
      /\ find_header_address_through_footer(mem, p) = b.hdr
      /\ i \in 1 .. Len(old) /\ b.kind = "struct" /\ front <= b.hdr
  BY DEF RootOf
<1>3. /\ slot \in 1 .. Slots /\ slot \in DOMAIN scan /\ slot \notin Done
      /\ Done' = Done \cup {slot}
      /\ \A q : AlreadyMoved(q)' <=> AlreadyMoved(q) \/ q = scan[slot].from
  BY RootNext
<1>4. stack \in [1 .. Slots -> Int] /\ HeaderSize \in Nat /\ DOMAIN scan \subseteq 1 .. Slots
      /\ Done \subseteq DOMAIN scan
  BY <1>1, Sizes DEF Typed, RootsPending, Done
<1>5. PICK s0 \in Done : scan[s0].from = p /\ stack' = [stack EXCEPT ![slot] = stack[s0]]
  BY FollowOnly
<1>6. stack[s0] \in Int /\ s0 \in 1 .. Slots
  BY <1>4
<1> HIDE DEF p
<1>7. UNCHANGED <<vars, mem, pc>> /\ stack' = [stack EXCEPT ![slot] = stack[s0]]
  BY <1>5, FollowOnly
<1>8. HeapInv' /\ WindowWritten'
  BY <1>1, <1>7, HeapUntouched
<1>9. stack'[slot] = stack[s0] /\ \A s \in 1 .. Slots : s # slot => stack'[s] = stack[s]
  BY <1>3, <1>4, <1>7
<1>10. StackInHeap'
  <2>1. ASSUME NEW s \in 1 .. Slots PROVE stack'[s] \in 0 .. HeapSize + HeaderSize \cup {NoRef}
    <3>1. \A t \in 1 .. Slots : stack[t] \in 0 .. HeapSize + HeaderSize \cup {NoRef}
      BY <1>1 DEF StackInHeap
    <3> QED BY <1>6, <1>9, <3>1
  <2> QED BY <2>1 DEF StackInHeap, HeapSize, NoRef
<1>11. AlreadyMoved(p)
  BY DEF p
<1>12. \A q : AlreadyMoved(q)' <=> AlreadyMoved(q)
  BY <1>2, <1>3, <1>11
<1>13. \A s \in Done : stack'[s] = stack[s]
  BY <1>3, <1>4, <1>9
<1>14. OldKept'
  <2>1. ASSUME NEW j \in 1 .. Len(old), old[j].kind = "struct", front <= old[j].hdr
        PROVE  Kept(old[j])'
    <3> DEFINE c == old[j]
    <3>1. Kept(c)
      BY <1>1, <2>1 DEF OldKept
    <3>2. HasFooter(mem, old[j])'
      BY <1>7, <3>1 DEF Kept, HasFooter, At, FooterOf, DataOf
    <3>3. (\E k \in Nat : HasData(mem, old[j], k)
                 /\ \A s \in DOMAIN scan : scan[s].from = DataOf(old[j]) => scan[s].id = k)'
      BY <1>7, <3>1 DEF Kept, HasData, FooterOf, DataOf
    <3>4. (~AlreadyMoved(DataOf(old[j])) => HasHeader(mem, old[j]))'
      <4>1. DataOf(old[j])' = DataOf(c)
        BY DEF DataOf
      <4>2. AlreadyMoved(DataOf(old[j]))' <=> AlreadyMoved(DataOf(c))
        BY <1>12, <4>1 DEF AlreadyMoved
      <4> QED BY <1>7, <3>1, <4>2 DEF Kept, HasHeader, At
    <3>5. ASSUME NEW s \in Done', scan'[s].from = DataOf(old[j])'
          PROVE  (At(mem, old[j].hdr) = <<"fwd", stack[s] - HeaderSize>>)'
      <4>1. scan[s].from = DataOf(c)
        BY <3>5 DEF DataOf
      <4>2. CASE s \in Done
        BY <1>7, <1>13, <3>1, <4>1, <4>2 DEF Kept, At
      <4>3. CASE s = slot
        <5>1. scan[s0].from = DataOf(c)
          BY <1>2, <1>5, <4>1, <4>3
        <5> QED BY <1>7, <1>9, <3>1, <4>3, <5>1 DEF Kept, At
      <4> QED BY <1>3, <4>2, <4>3
    <3> QED BY <3>2, <3>3, <3>4, <3>5 DEF Kept
  <2> QED BY <1>7, <2>1 DEF OldKept, vars
<1>15. RootsPending'
  BY <1>1, <1>4, <1>9 DEF RootsPending
<1>16. RootsMoved'
  <2>1. scan[slot].id = scan[s0].id /\ scan[slot].from = scan[s0].from
    BY <1>2, <1>3, <1>4, <1>5 DEF Kept
  <2>2. ASSUME NEW s \in Done' PROVE \E t \in Done : scan[s].id = scan[t].id /\ scan[s].from = scan[t].from
                                                   /\ stack'[s] = stack[t]
    BY <1>3, <1>5, <1>9, <1>13, <2>1
  <2>3. ASSUME NEW s \in Done'
        PROVE (\E j \in base .. Len(objs) :
                 /\ objs[j].kind = "struct"
                 /\ stack[s] = DataOf(objs[j]) /\ HasData(mem, objs[j], scan[s].id))'
    <3>1. PICK t \in Done : scan[s].id = scan[t].id /\ stack'[s] = stack[t]
      BY <2>2
    <3>2. PICK j \in base .. Len(objs) :
            /\ objs[j].kind = "struct"
            /\ stack[t] = DataOf(objs[j]) /\ HasData(mem, objs[j], scan[t].id)
      BY <1>1 DEF RootsMoved
    <3> QED BY <1>7, <3>1, <3>2 DEF vars, HasData, DataOf, FooterOf
  <2>4. ASSUME NEW s \in Done', NEW t \in Done'
        PROVE  (scan[s].from = scan[t].from <=> stack[s] = stack[t])'
    <3>1. \A u, v \in Done : scan[u].from = scan[v].from <=> stack[u] = stack[v]
      BY <1>1 DEF RootsMoved
    <3>2. PICK u \in Done : scan[s].from = scan[u].from /\ stack'[s] = stack[u]
      BY <2>2
    <3>3. PICK v \in Done : scan[t].from = scan[v].from /\ stack'[t] = stack[v]
      BY <2>2
    <3> QED BY <3>1, <3>2, <3>3
  <2> QED BY <2>3, <2>4 DEF RootsMoved
<1>17. MovedCharged'
  <2>1. MovedCharges' = MovedCharges
    <3>1. \A j \in 1 .. Len(old) : AlreadyMoved(DataOf(old[j]))' <=> AlreadyMoved(DataOf(old[j]))
      BY <1>12 DEF AlreadyMoved, DataOf
    <3> QED BY <3>1 DEF MovedCharges, StructCharge
  <2>2. Charges(old)' = Charges(old)
    BY DEF Charges, StructCharge
  <2> QED BY <1>1, <1>7, <2>1, <2>2 DEF MovedCharged, vars
<1>18. OldTiled'
  BY <1>1 DEF OldTiled, EndOf, Footprint, Known, Aligned, HeapSize, Half
<1>19. Collecting'
  BY <1>1, <1>7, <1>14, <1>15, <1>16, <1>17, <1>18 DEF Collecting, vars
<1>20. pc' = "gc" /\ freed' >= 0
  BY <1>1, <1>7
<1> QED BY <1>8, <1>10, <1>19, <1>20 DEF CleanInv

(* The block new is the copy of old[i], whose data is of the k-th object.  *)
CopyOf(slot, i, new, k) ==
  LET b == old[i] IN
  /\ Places(new) /\ new.hdr = front /\ new.size = b.size /\ new.kind = "struct"
  /\ EndOf(new) <= b.hdr
  /\ stack' = [stack EXCEPT ![slot] = DataOf(new)] /\ pc' = pc
  /\ k \in Nat /\ HasData(mem, b, k)
  /\ Copied(mem', mem, b, new, k)

(* A root of an object that has not been copied: there is no room for the  *)
(* copy, or it is made at the front (gc.c:400-445).                        *)
LEMMA MoveEffect ==
  ASSUME Typed, CleanInv, pc = "gc", NEW slot \in 1 .. Slots, NEW i, RootOf(slot, i),
         ~AlreadyMoved(stack[slot]), garbage_collection(slot)
  PROVE  /\ [Next]_vars
         /\ \/ Refuses /\ pc' = "no room" /\ UNCHANGED <<mem, stack>>
            \/ \E new, k : CopyOf(slot, i, new, k)
<1> DEFINE b == old[i]
           p == stack[slot]
           at == b.hdr
           n == b.size
<1>1. /\ Inv /\ BlocksKnown
  BY DEF CleanInv, HeapInv
<1>2. /\ b \in Block /\ Known(b) /\ p = DataOf(b) /\ Kept(b) /\ b.kind = "struct"
      /\ find_header_address_through_footer(mem, p) = b.hdr
      /\ front + Footprint(n) <= at /\ StructFits(n)
  BY DEF RootOf
<1>3. /\ at \in Nat /\ n \in Nat /\ p = at + HeaderSize /\ n \in StructSizes /\ EndOf(b) <= HeapSize
      /\ Aligned(at) /\ Aligned(n) /\ n > 0
      /\ front \in Nat /\ HeaderSize \in Nat \ {0} /\ Footprint(n) = n + 2 * HeaderSize
  BY <1>2, Sizes, AlignedSizes DEF Block, DataOf, Known, Typed, Footprint
<1>4. HasHeader(mem, b)
  BY <1>2 DEF Kept
<1>5. At(mem, at) = BitVec /\ At(mem, at + Half) = <<"desc", n>>
  BY <1>4 DEF HasHeader
<1>6. MoveStruct(slot, p, at)
  <2>1. at # NoRef
    <3> HIDE DEF at
    <3> QED BY <1>3 DEF NoRef
  <2> HIDE DEF p, at
  <2>2. ~FollowForward(slot, p, at) /\ ~MoveRaw(slot, p, at) /\ ~NoHeader(p, at)
    BY <1>5 DEF FollowForward, MoveRaw, NoHeader, OtherHeader, BitVec
  <2> QED BY <1>2, <2>1, <2>2 DEF garbage_collection, p, at
<1>7. get_size_bits_field(At(mem, at + Half)) = n
  BY <1>5 DEF get_size_bits_field
<1>8. h_alloc_struct(n)
  BY <1>6, <1>7 DEF MoveStruct
<1>9. [Next]_vars
  BY <1>3, <1>8 DEF Next, Alloc
<1>10. CASE Refuses
  <2>1. ret' = NULL
    BY <1>10 DEF Refuses
  <2>2. pc' = "no room" /\ UNCHANGED <<mem, stack>>
    BY <1>6, <2>1 DEF MoveStruct, Stop
  <2> QED BY <1>9, <1>10, <2>2
<1>11. CASE /\ StructPlaced(n)
            /\ Places([hdr |-> Landing(n), size |-> n, kind |-> "struct"])
  <2> DEFINE new == [hdr |-> front, size |-> n, kind |-> "struct"]
  <2>1. active[SpaceIndex]
    BY <1>1, <1>3, <1>11, StructPlacedWhere
  <2>2. Landing(n) = front
    BY <1>2, <2>1 DEF Landing
  <2>3. Places(new) /\ new.hdr = front /\ new.size = n /\ new.kind = "struct"
    BY <1>11, <2>2
  <2> HIDE DEF new
  <2>4. /\ new \in Block /\ ret' = DataOf(new) /\ DataOf(new) = front + HeaderSize
        /\ EndOf(new) = front + Footprint(n)
    BY <2>3 DEF Places, DataOf, EndOf
  <2> HIDE DEF p, n, at
  <2>5. ret' # NULL /\ ret' # p /\ ret' - HeaderSize = new.hdr /\ EndOf(new) <= at
    BY <1>2, <1>3, <2>3, <2>4 DEF NULL
  <2> DEFINE put == WriteStruct(mem, new.hdr, n)
             len == get_size_bits_field(At(put, at + Half))
             w == Forward(CopyBytes(put, DataOf(new), DataOf(b), n), at, new.hdr)
  <2>6. /\ mem' = Forward(CopyBytes(put, DataOf(new), p, len), at, new.hdr)
        /\ stack' = [stack EXCEPT ![slot] = Repoint(new.hdr, p, at)] /\ pc' = pc
    BY <1>6, <1>7, <2>4, <2>5 DEF MoveStruct
  <2>7. PICK k \in Nat : HasData(mem, b, k)
    BY <1>2 DEF Kept
  <2>8. Aligned(new.hdr)
    BY <1>1, <2>3 DEF BlocksKnown
  <2>9. At(put, at + Half) = At(mem, at + Half) /\ Copied(w, mem, b, new, k)
    <3> DEFINE put0 == WriteStruct(mem, new.hdr, b.size)
               w0 == Forward(CopyBytes(put0, DataOf(new), DataOf(b), b.size), b.hdr, new.hdr)
    <3>1. /\ b \in Block /\ new \in Block /\ new.size = b.size /\ new.kind = "struct"
          /\ EndOf(new) <= b.hdr /\ EndOf(b) <= HeapSize
          /\ Aligned(b.hdr) /\ Aligned(b.size) /\ Aligned(new.hdr) /\ HasData(mem, b, k)
      BY <1>2, <1>3, <2>3, <2>4, <2>5, <2>7, <2>8 DEF at, n
    <3>2. At(put0, b.hdr + Half) = At(mem, b.hdr + Half) /\ Copied(w0, mem, b, new, k)
      BY <3>1, CopyEffect
    <3> QED BY <3>2 DEF at, n
  <2>10. mem' = w
    BY <1>2, <1>7, <2>6, <2>9
  <2>11. Repoint(new.hdr, p, at) = DataOf(new)
    <3>1. front + (p - at) = front + HeaderSize
      BY <1>3
    <3> QED BY <2>3, <2>4, <3>1 DEF Repoint
  <2> HIDE DEF put, w, len
  <2>12. CopyOf(slot, i, new, k)
    BY <2>3, <2>5, <2>6, <2>7, <2>9, <2>10, <2>11 DEF CopyOf, at, n
  <2> QED BY <1>9, <2>12
<1> QED BY <1>1, <1>3, <1>8, <1>10, <1>11, StructPlaces

(* Memory that is the same from the header, or from the data, of a block   *)
(* to its end keeps what is in it.                                         *)
LEMMA SameBlock ==
  ASSUME NEW m, NEW w, NEW b \in Block,
         \A a \in Int : DataOf(b) <= a /\ a < EndOf(b) => At(w, a) = At(m, a)
  PROVE  /\ HasFooter(m, b) => HasFooter(w, b)
         /\ \A k : HasData(m, b, k) => HasData(w, b, k)
         /\ (At(w, b.hdr) = At(m, b.hdr) /\ At(w, b.hdr + Half) = At(m, b.hdr + Half)) =>
              (HasHeader(m, b) => HasHeader(w, b))
<1> DEFINE foot == FooterOf(b)
           data == DataOf(b)
<1>1. /\ Half \in Nat \ {0} /\ HeaderSize = 2 * Half /\ b.hdr \in Nat /\ b.size \in Nat
  BY Sizes DEF Block
<1>2. /\ data \in Nat /\ foot = data + b.size /\ EndOf(b) = foot + HeaderSize
  BY <1>1 DEF FooterOf, DataOf, EndOf, Footprint
<1> DEFINE n == b.size
<1>3. n \in Nat /\ foot = data + n
  BY <1>1, <1>2
<1> HIDE DEF foot, data, n
<1>4. /\ At(w, foot) = At(m, foot) /\ At(w, foot + Half) = At(m, foot + Half)
  <2>1. /\ data <= foot /\ foot < EndOf(b) /\ data <= foot + Half /\ foot + Half < EndOf(b)
        /\ foot \in Int /\ foot + Half \in Int
    BY <1>1, <1>2, <1>3
  <2> QED BY <2>1 DEF data
<1>5. ASSUME NEW k, HasData(m, b, k) PROVE HasData(w, b, k)
  <2>1. ASSUME NEW c \in Cells, data <= c, c < foot PROVE w[c] = <<"data", k>>
    <3>1. c \in Int /\ c < EndOf(b)
      BY <1>1, <1>2, <1>3, <2>1, CellsOfHeap
    <3> QED BY <1>5, <2>1, <3>1 DEF HasData, At, data, foot
  <2> QED BY <2>1 DEF HasData, data, foot
<1> QED BY <1>4, <1>5 DEF HasFooter, HasHeader, foot

(* Two blocks of the last window have no address in common. *)
LEMMA OldApart ==
  ASSUME OldTiled, NEW i \in 1 .. Len(old), NEW j \in 1 .. Len(old)
  PROVE  /\ old[i] \in Block /\ Known(old[i])
         /\ i # j => EndOf(old[i]) <= old[j].hdr \/ EndOf(old[j]) <= old[i].hdr
         /\ i # j => DataOf(old[i]) # DataOf(old[j])
<1>1. old[i] \in Block /\ old[j] \in Block /\ Known(old[i])
  BY DEF OldTiled
<1>2. i # j => EndOf(old[i]) <= old[j].hdr \/ EndOf(old[j]) <= old[i].hdr
  <2>1. i < j => EndOf(old[i]) <= old[j].hdr
    BY DEF OldTiled
  <2>2. j < i => EndOf(old[j]) <= old[i].hdr
    BY DEF OldTiled
  <2>3. i < j \/ j < i \/ i = j
    <3>1. Len(old) \in Nat
      BY DEF OldTiled
    <3> QED BY <3>1
  <2> QED BY <2>1, <2>2, <2>3
<1>3. i # j => DataOf(old[i]) # DataOf(old[j])
  <2> DEFINE x == old[i].hdr
             y == old[j].hdr
             n == old[i].size
             l == old[j].size
  <2>1. x \in Nat /\ y \in Nat /\ n \in Nat /\ l \in Nat
    BY <1>1 DEF Block
  <2>2. /\ EndOf(old[i]) = x + (n + 2 * HeaderSize) /\ EndOf(old[j]) = y + (l + 2 * HeaderSize)
        /\ DataOf(old[i]) = x + HeaderSize /\ DataOf(old[j]) = y + HeaderSize
    BY DEF EndOf, Footprint, DataOf
  <2>3. i # j => x + (n + 2 * HeaderSize) <= y \/ y + (l + 2 * HeaderSize) <= x
    BY <1>2, <2>2
  <2> HIDE DEF x, y, n, l
  <2>4. i # j => x + HeaderSize # y + HeaderSize
    BY <2>1, <2>3, Sizes
  <2> QED BY <2>2, <2>4
<1> QED BY <1>1, <1>2, <1>3

(* Copying one block leaves the others, and its own data, as they are.     *)
LEMMA MoveKeepsOld ==
  ASSUME Typed, CleanInv, pc = "gc", NEW slot \in todo, NEW i, RootOf(slot, i),
         ~AlreadyMoved(stack[slot]), todo' = todo \ {slot}, UNCHANGED <<scan, old>>,
         NEW new, NEW k, CopyOf(slot, i, new, k)
  PROVE  OldKept'
<1> DEFINE b == old[i]
           bh == b.hdr
<1>1. Inv /\ OldTiled /\ OldKept /\ RootsPending
  BY DEF CleanInv, Collecting, HeapInv
<1>2. /\ i \in 1 .. Len(old) /\ b \in Block /\ scan[slot].from = DataOf(b)
      /\ front <= bh /\ stack[slot] = DataOf(b)
  BY DEF RootOf
<1>3. /\ slot \in 1 .. Slots /\ slot \notin Done /\ Done' = Done \cup {slot}
      /\ \A q : AlreadyMoved(q)' <=> AlreadyMoved(q) \/ q = scan[slot].from
  BY RootNext
<1>4. stack \in [1 .. Slots -> Int] /\ Done \subseteq 1 .. Slots
  BY <1>1 DEF Typed, RootsPending, Done
<1>5. /\ Places(new) /\ new.hdr = front /\ EndOf(new) <= bh
      /\ \A a \in Int : EndOf(new) <= a /\ a # bh /\ a # bh + Half => At(mem', a) = At(mem, a)
      /\ At(mem', bh) = <<"fwd", new.hdr>>
      /\ stack' = [stack EXCEPT ![slot] = DataOf(new)]
  BY DEF CopyOf, Copied
<1>6. /\ front' = EndOf(new) /\ front \in Nat /\ front' \in Nat /\ front <= front'
      /\ DataOf(new) - HeaderSize = new.hdr
  <2>1. new \in Block /\ front' = EndOf(new) /\ front \in Nat
    BY <1>1, <1>5, PlacesFacts DEF Places
  <2>2. new.hdr \in Nat /\ new.size \in Nat /\ HeaderSize \in Nat
    BY <2>1, Sizes DEF Block
  <2> QED BY <1>5, <2>1, <2>2 DEF EndOf, Footprint, DataOf
<1>7. stack'[slot] = DataOf(new) /\ \A s \in Done : stack'[s] = stack[s]
  BY <1>3, <1>4, <1>5
<1>8. Half \in Nat \ {0} /\ HeaderSize = 2 * Half
  BY Sizes
<1>9. ASSUME NEW j \in 1 .. Len(old), old[j].kind = "struct", front' <= old[j].hdr
      PROVE  Kept(old[j])'
  <2> DEFINE c == old[j]
             ch == c.hdr
             n == c.size
  <2>1. c \in Block /\ ch \in Nat /\ n \in Nat
    BY <1>1, OldApart DEF Block
  <2>2. DataOf(c) = ch + HeaderSize /\ EndOf(c) = ch + (n + 2 * HeaderSize)
    BY DEF DataOf, EndOf, Footprint
  <2>3. front <= ch /\ EndOf(new) <= ch
    <3> HIDE DEF ch
    <3>1. front' <= ch
      BY <1>9 DEF ch
    <3> QED BY <1>6, <2>1, <3>1
  <2>4. Kept(c)
    BY <1>1, <1>9, <2>3 DEF OldKept
  <2>5. bh \in Nat
    BY <1>2 DEF Block
  <2>6. j # i => EndOf(c) <= bh \/ EndOf(b) <= ch
    BY <1>1, <1>2, OldApart
  <2>7. EndOf(b) = bh + Footprint(b.size) /\ Footprint(b.size) \in Nat /\ HeaderSize <= Footprint(b.size)
    <3>1. b.size \in Nat
      BY <1>2 DEF Block
    <3> QED BY <1>8, <3>1 DEF EndOf, Footprint
  <2>8. ASSUME NEW a \in Int, DataOf(c) <= a, a < EndOf(c) PROVE At(mem', a) = At(mem, a)
    <3> DEFINE f == Footprint(b.size)
    <3> HIDE DEF ch, bh, n, f, c
    <3>1. EndOf(new) <= a
      BY <1>6, <1>8, <2>1, <2>2, <2>3, <2>8
    <3>2. a # bh /\ a # bh + Half
      <4>1. CASE j = i
        <5>1. ch = bh
          BY <4>1 DEF ch, bh, c
        <5> QED BY <1>8, <2>1, <2>2, <2>8, <5>1
      <4>2. CASE EndOf(c) <= bh
        BY <1>8, <2>1, <2>2, <2>5, <2>8, <4>2
      <4>3. CASE EndOf(b) <= ch
        <5>1. bh + f <= ch /\ f \in Nat /\ HeaderSize <= f
          BY <2>7, <4>3 DEF f
        <5> QED BY <1>8, <2>1, <2>2, <2>5, <2>8, <5>1
      <4> QED BY <2>6, <4>1, <4>2, <4>3
    <3> QED BY <1>5, <3>1, <3>2
  <2>9. HasFooter(mem', c) /\ \A l : HasData(mem, c, l) => HasData(mem', c, l)
    <3>1. HasFooter(mem, c)
      BY <2>4 DEF Kept
    <3> HIDE DEF c
    <3> QED BY <2>1, <2>8, <3>1, SameBlock
  <2>10. HasFooter(mem, old[j])'
    BY <2>9 DEF HasFooter, FooterOf, DataOf, At
  <2>11. (\E l \in Nat : HasData(mem, old[j], l)
             /\ \A s \in DOMAIN scan : scan[s].from = DataOf(old[j]) => scan[s].id = l)'
    <3>1. PICK l \in Nat : HasData(mem, c, l)
             /\ \A s \in DOMAIN scan : scan[s].from = DataOf(c) => scan[s].id = l
      BY <2>4 DEF Kept
    <3>2. HasData(mem', c, l)
      BY <2>9, <3>1
    <3> QED BY <3>1, <3>2 DEF HasData, FooterOf, DataOf
  <2>12. CASE j = i
    <3>1. AlreadyMoved(DataOf(b))'
      BY <1>2, <1>3, <2>12 DEF AlreadyMoved, DataOf
    <3>2. AlreadyMoved(DataOf(old[j]))'
      BY <2>12, <3>1 DEF AlreadyMoved, DataOf
    <3>3. ASSUME NEW s \in Done', scan'[s].from = DataOf(old[j])'
          PROVE  (At(mem, old[j].hdr) = <<"fwd", stack[s] - HeaderSize>>)'
      <4>1. scan[s].from = DataOf(b)
        BY <2>12, <3>3 DEF DataOf
      <4>2. s = slot
        BY <1>2, <1>3, <4>1 DEF AlreadyMoved
      <4>3. At(mem', bh) = <<"fwd", stack'[s] - HeaderSize>>
        BY <1>5, <1>6, <1>7, <4>2
      <4> QED BY <2>12, <4>3 DEF At
    <3> QED BY <2>10, <2>11, <3>2, <3>3 DEF Kept
  <2>13. CASE j # i
    <3>1. DataOf(c) # DataOf(b)
      BY <1>1, <1>2, <2>13, OldApart
    <3>2. AlreadyMoved(DataOf(old[j]))' <=> AlreadyMoved(DataOf(c))
      <4>1. DataOf(old[j])' = DataOf(c)
        BY DEF DataOf
      <4> QED BY <1>2, <1>3, <3>1, <4>1 DEF AlreadyMoved
    <3>3. At(mem', ch) = At(mem, ch) /\ At(mem', ch + Half) = At(mem, ch + Half)
      <4> DEFINE f == Footprint(b.size)
      <4>1. EndOf(c) <= bh \/ bh + f <= ch
        BY <2>6, <2>7, <2>13
      <4>2. f \in Nat /\ HeaderSize <= f
        BY <2>7
      <4> HIDE DEF ch, bh, n, f, c
      <4>3. ch # bh /\ ch # bh + Half /\ ch + Half # bh /\ ch + Half # bh + Half
        BY <1>8, <2>1, <2>2, <2>5, <4>1, <4>2
      <4>4. ch \in Int /\ ch + Half \in Int /\ EndOf(new) <= ch + Half /\ EndOf(new) <= ch
        BY <1>6, <1>8, <2>1, <2>3
      <4> QED BY <1>5, <4>3, <4>4
    <3>4. ~AlreadyMoved(DataOf(old[j]))' => HasHeader(mem, old[j])'
      <4>1. HasHeader(mem, c) => HasHeader(mem', c)
        <5> HIDE DEF c
        <5> QED BY <2>1, <2>8, <3>3, SameBlock DEF ch
      <4>2. ~AlreadyMoved(DataOf(c)) => HasHeader(mem', c)
        BY <2>4, <4>1 DEF Kept
      <4> QED BY <3>2, <4>2 DEF HasHeader, At
    <3>5. ASSUME NEW s \in Done', scan'[s].from = DataOf(old[j])'
          PROVE  (At(mem, old[j].hdr) = <<"fwd", stack[s] - HeaderSize>>)'
      <4>1. scan[s].from = DataOf(c)
        BY <3>5 DEF DataOf
      <4>2. s \in Done
        BY <1>2, <1>3, <3>1, <4>1
      <4>3. At(mem, ch) = <<"fwd", stack[s] - HeaderSize>>
        BY <2>4, <4>1, <4>2 DEF Kept
      <4>4. At(mem', ch) = <<"fwd", stack'[s] - HeaderSize>>
        BY <1>7, <3>3, <4>2, <4>3
      <4> QED BY <4>4 DEF At
    <3> QED BY <2>10, <2>11, <3>4, <3>5 DEF Kept
  <2> QED BY <2>12, <2>13
<1> QED BY <1>9 DEF OldKept

(* Blocks of the window end where the next is placed, and lie below it.    *)
LEMMA WindowBelow ==
  ASSUME HeapInv, HeapInv', NEW new, Places(new), new.hdr = front, NEW j \in base .. Len(objs)
  PROVE  /\ base' = base /\ Len(objs') = Len(objs) + 1 /\ objs'[Len(objs) + 1] = new
         /\ Len(objs) + 1 \in base' .. Len(objs') /\ j \in base' .. Len(objs')
         /\ objs'[j] = objs[j] /\ objs[j] \in Block
         /\ EndOf(objs[j]) <= new.hdr /\ DataOf(objs[j]) < DataOf(new)
<1>1. /\ Len(objs) \in Nat /\ Len(objs') = Len(objs) + 1 /\ objs'[Len(objs) + 1] = new
      /\ \A i \in 1 .. Len(objs) : objs'[i] = objs[i] /\ objs[i] \in Block
      /\ base \in 1 .. Len(objs) + 1 /\ base' = base
      /\ new.hdr \in Nat /\ DataOf(new) = new.hdr + HeaderSize
  BY PlacesFacts DEF HeapInv, Places
<1>2. j \in 1 .. Len(objs) /\ Len(objs) + 1 \in base' .. Len(objs') /\ j \in base' .. Len(objs')
      /\ j < Len(objs) + 1
  BY <1>1
<1>3. objs'[j] = objs[j] /\ objs[j] \in Block
  BY <1>1, <1>2
<1>4. EndOf(objs[j]) <= new.hdr
  <2>1. EndOf(objs'[j]) <= objs'[Len(objs) + 1].hdr
    <3>1. WindowTiles'
      BY DEF HeapInv, Inv
    <3> QED BY <1>2, <3>1 DEF WindowTiles, EndOf, Footprint
  <2> QED BY <1>1, <1>3, <2>1
<1>5. DataOf(objs[j]) < DataOf(new)
  <2> DEFINE at == objs[j].hdr
             n == objs[j].size
  <2>1. at \in Nat /\ n \in Nat
    BY <1>3 DEF Block
  <2>2. EndOf(objs[j]) = at + (n + 2 * HeaderSize) /\ DataOf(objs[j]) = at + HeaderSize
    BY DEF EndOf, Footprint, DataOf
  <2> HIDE DEF at, n
  <2> QED BY <1>1, <1>4, <2>1, <2>2, Sizes
<1> QED BY <1>1, <1>2, <1>3, <1>4, <1>5

(* The root points to the copy, and no other root that has been processed  *)
(* does.                                                                   *)
LEMMA MoveKeepsRoots ==
  ASSUME Typed, CleanInv, HeapInv', pc = "gc", NEW slot \in todo, NEW i, RootOf(slot, i),
         ~AlreadyMoved(stack[slot]), todo' = todo \ {slot}, UNCHANGED <<scan, old>>,
         NEW new, NEW k, CopyOf(slot, i, new, k)
  PROVE  RootsPending' /\ RootsMoved'
<1> DEFINE b == old[i]
<1>1. HeapInv /\ Inv /\ RootsPending /\ RootsMoved
  BY DEF CleanInv, Collecting, HeapInv
<1>2. /\ b \in Block /\ Known(b) /\ EndOf(b) <= HeapSize /\ Kept(b)
      /\ scan[slot].from = DataOf(b) /\ stack[slot] = DataOf(b)
  BY DEF RootOf, Known
<1>3. /\ slot \in 1 .. Slots /\ slot \in DOMAIN scan /\ slot \notin Done
      /\ Done' = Done \cup {slot}
  BY RootNext
<1>4. stack \in [1 .. Slots -> Int] /\ Done \subseteq 1 .. Slots
  BY <1>1 DEF Typed, RootsPending, Done
<1>5. /\ Places(new) /\ new.hdr = front /\ new.kind = "struct"
      /\ HasData(mem', new, k) /\ HasData(mem, b, k)
      /\ \A c \in Cells : c < new.hdr => mem'[c] = mem[c]
      /\ stack' = [stack EXCEPT ![slot] = DataOf(new)]
  BY DEF CopyOf, Copied
<1>6. stack'[slot] = DataOf(new) /\ \A s \in 1 .. Slots : s # slot => stack'[s] = stack[s]
  BY <1>3, <1>4, <1>5
<1>7. RootsPending'
  BY <1>1, <1>4, <1>6 DEF RootsPending
<1>8. scan[slot].id = k
  <2>1. PICK l \in Nat : HasData(mem, b, l) /\ scan[slot].id = l
    BY <1>2, <1>3 DEF Kept
  <2>2. mem[DataOf(b)] = <<"data", k>> /\ mem[DataOf(b)] = <<"data", l>>
    <3>1. DataOf(b) \in Cells /\ DataOf(b) <= DataOf(b) /\ DataOf(b) < FooterOf(b)
      BY <1>2, DataCell
    <3> QED BY <1>5, <2>1, <3>1 DEF HasData
  <2> QED BY <2>1, <2>2
<1>9. Len(objs) + 1 \in base' .. Len(objs') /\ objs'[Len(objs) + 1] = new
  <2>1. /\ Len(objs) \in Nat /\ Len(objs') = Len(objs) + 1 /\ objs'[Len(objs) + 1] = new
        /\ base' \in 1 .. Len(objs) + 1
    BY <1>1, <1>5, PlacesFacts
  <2> QED BY <2>1
<1>10. ASSUME NEW s \in Done
       PROVE  \E j \in base .. Len(objs) :
                /\ objs[j].kind = "struct"
                /\ stack[s] = DataOf(objs[j]) /\ HasData(mem, objs[j], scan[s].id)
  BY <1>1 DEF RootsMoved
<1>11. ASSUME NEW s \in Done'
       PROVE  (\E j \in base .. Len(objs) :
                 /\ objs[j].kind = "struct"
                 /\ stack[s] = DataOf(objs[j]) /\ HasData(mem, objs[j], scan[s].id))'
  <2>1. CASE s = slot
    <3>1. /\ objs'[Len(objs) + 1].kind = "struct"
          /\ stack'[s] = DataOf(objs'[Len(objs) + 1])
          /\ HasData(mem', objs'[Len(objs) + 1], scan[s].id)
      BY <1>5, <1>6, <1>8, <1>9, <2>1
    <3> QED BY <1>9, <3>1 DEF HasData, DataOf, FooterOf
  <2>2. CASE s \in Done
    <3>1. PICK j \in base .. Len(objs) :
            /\ objs[j].kind = "struct"
            /\ stack[s] = DataOf(objs[j]) /\ HasData(mem, objs[j], scan[s].id)
      BY <1>10, <2>2
    <3>2. j \in base' .. Len(objs') /\ objs'[j] = objs[j] /\ objs[j] \in Block
          /\ EndOf(objs[j]) <= new.hdr
      BY <1>1, <1>5, WindowBelow
    <3>3. new.hdr \in Int
      BY <1>5 DEF Places, Block
    <3>4. HasData(mem', objs[j], scan[s].id)
      BY <1>5, <3>1, <3>2, <3>3, WrittenBelow
    <3>5. stack'[s] = stack[s]
      BY <1>3, <1>4, <1>6, <2>2
    <3> QED BY <3>1, <3>2, <3>4, <3>5 DEF HasData, DataOf, FooterOf
  <2> QED BY <1>3, <2>1, <2>2
<1>12. ASSUME NEW s \in Done
       PROVE  stack'[s] = stack[s] /\ stack'[slot] # stack[s] /\ scan[slot].from # scan[s].from
  <2>1. PICK j \in base .. Len(objs) : stack[s] = DataOf(objs[j])
    BY <1>10
  <2>2. DataOf(objs[j]) < DataOf(new) /\ DataOf(objs[j]) \in Int
    <3>1. DataOf(objs[j]) < DataOf(new) /\ objs[j] \in Block
      BY <1>1, <1>5, WindowBelow
    <3>2. objs[j].hdr \in Int /\ HeaderSize \in Int
      BY <3>1, Sizes DEF Block
    <3> QED BY <3>1, <3>2 DEF DataOf
  <2>3. DataOf(new) \in Int
    <3>1. new.hdr \in Int /\ HeaderSize \in Int
      BY <1>5, Sizes DEF Places, Block
    <3> QED BY <3>1 DEF DataOf
  <2>4. stack'[slot] # stack[s]
    BY <1>6, <2>1, <2>2, <2>3
  <2> QED BY <1>2, <1>3, <1>4, <1>6, <2>4 DEF AlreadyMoved
<1>13. ASSUME NEW s \in Done', NEW t \in Done'
       PROVE  (scan[s].from = scan[t].from <=> stack[s] = stack[t])'
  <2>1. \A u, v \in Done : scan[u].from = scan[v].from <=> stack[u] = stack[v]
    BY <1>1 DEF RootsMoved
  <2> QED BY <1>3, <1>12, <2>1
<1>14. RootsMoved'
  BY <1>11, <1>13 DEF RootsMoved
<1> QED BY <1>7, <1>14

(* The copy is charged for the block it is the copy of. *)
LEMMA MoveKeepsCharges ==
  ASSUME Typed, CleanInv, pc = "gc", NEW slot \in todo, NEW i, RootOf(slot, i),
         ~AlreadyMoved(stack[slot]), todo' = todo \ {slot}, UNCHANGED <<oldUsed, scan, old>>,
         NEW new, NEW k, CopyOf(slot, i, new, k)
  PROVE  MovedCharged'
<1> DEFINE n == Len(old)
           f == MovedCharges
           g == MovedCharges'
           charge == StructCharge(old[i].size)
<1>1. OldTiled /\ MovedCharged
  BY DEF CleanInv, Collecting
<1>2. /\ i \in 1 .. n /\ scan[slot].from = DataOf(old[i]) /\ stack[slot] = DataOf(old[i])
  BY DEF RootOf
<1>3. \A q : AlreadyMoved(q)' <=> AlreadyMoved(q) \/ q = scan[slot].from
  BY RootNext
<1>4. \A j \in 1 .. n : old[j] \in Block /\ (j # i => DataOf(old[j]) # DataOf(old[i]))
  BY <1>1, <1>2, OldApart
<1>5. \A j \in 1 .. n : StructCharge(old[j].size) \in Int
  <2>1. \A l \in Nat : StructCharge(l) \in Int
    BY Sizes DEF StructCharge
  <2> QED BY <1>4, <2>1 DEF Block
<1>6. f \in [1 .. n -> Int] /\ f[i] = 0
  BY <1>2, <1>5 DEF MovedCharges
<1>7. g = [j \in 1 .. n |-> IF AlreadyMoved(DataOf(old[j]))' THEN StructCharge(old[j].size) ELSE 0]
  BY DEF MovedCharges, StructCharge
<1>8. \A j \in 1 .. n : AlreadyMoved(DataOf(old[j]))' <=> AlreadyMoved(DataOf(old[j])) \/ j = i
  BY <1>2, <1>3, <1>4 DEF AlreadyMoved, DataOf
<1>9. g \in [1 .. n -> Int] /\ g[i] = charge /\ \A j \in 1 .. n : j # i => g[j] = f[j]
  BY <1>2, <1>5, <1>7, <1>8 DEF MovedCharges
<1>10. n \in Nat /\ charge \in Int
  BY <1>1, <1>2, <1>5 DEF OldTiled
<1>11. used' = used + charge
  BY DEF CopyOf, Places
<1> HIDE DEF f, g, charge
<1>12. Total(g, n) = Total(f, n) + (charge - 0) /\ Total(f, n) \in Int
  <2> HIDE DEF n
  <2>1. n \in 0 .. n
    BY <1>10
  <2> QED BY <1>2, <1>6, <1>9, <1>10, <2>1, TotalChange, TotalFacts
<1>13. used' = Total(g, n)
  BY <1>1, <1>10, <1>11, <1>12 DEF MovedCharged, f
<1>14. Charges(old)' = Charges(old)
  BY DEF Charges, StructCharge
<1> QED BY <1>1, <1>13, <1>14 DEF MovedCharged, g

(* One root of a clean collection (gc.c:371-454). *)
LEMMA MoveClean ==
  ASSUME Typed, CleanInv, pc = "gc", NEW slot \in todo, NEW i, RootOf(slot, i),
         ~AlreadyMoved(stack[slot]), garbage_collection(slot),
         todo' = todo \ {slot}, UNCHANGED <<freed, oldUsed, scan, old>>
  PROVE  CleanInv'
<1>1. HeapInv /\ WindowWritten /\ StackInHeap /\ freed >= 0 /\ OldTiled /\ base = 1
  BY DEF CleanInv, Collecting
<1>2. slot \in 1 .. Slots
  BY RootNext
<1>3. [Next]_vars
  BY <1>2, MoveEffect
<1>4. HeapInv'
  BY <1>1, <1>3, HeapInvKept
<1>5. CASE Refuses /\ pc' = "no room" /\ UNCHANGED <<mem, stack>>
  <2>1. WindowWritten'
    BY <1>1, <1>5, WindowUntouched DEF Refuses
  <2>2. StackInHeap'
    BY <1>1, <1>5 DEF StackInHeap, HeapSize, NoRef, Dbg
  <2>3. freed' >= 0 /\ pc' = "no room"
    BY <1>1, <1>5
  <2> QED BY <1>4, <2>1, <2>2, <2>3 DEF CleanInv
<1>6. CASE \E new, k : CopyOf(slot, i, new, k)
  <2>1. PICK new, k : CopyOf(slot, i, new, k)
    BY <1>6
  <2>2. /\ Places(new) /\ new.hdr = front /\ Written(mem', new)
        /\ \A c \in Cells : c < new.hdr => mem'[c] = mem[c]
        /\ stack' = [stack EXCEPT ![slot] = DataOf(new)] /\ pc' = "gc"
    BY <2>1 DEF CopyOf, Copied
  <2>3. WindowWritten'
    <3>1. WindowTiles'
      BY <1>4 DEF HeapInv, Inv
    <3> QED BY <1>1, <2>2, <3>1, PlacesKeepsWritten
  <2>4. base' = 1
    BY <1>1, <2>2 DEF Places
  <2>5. StackInHeap'
    <3>1. DataOf(new) \in 0 .. HeapSize + HeaderSize
      <4>1. DataOf(new) = new.hdr + HeaderSize /\ new.hdr \in Nat /\ front \in Nat
        BY <1>1, <2>2, PlacesFacts DEF HeapInv
      <4>2. front <= HeapSize /\ HeapSize \in Nat /\ HeaderSize \in Nat
        BY <2>2, <4>1, Sizes DEF Places, Overrun
      <4> QED BY <2>2, <4>1, <4>2
    <3>2. stack \in [1 .. Slots -> Int]
      BY DEF Typed
    <3>3. \A s \in 1 .. Slots : stack[s] \in 0 .. HeapSize + HeaderSize \cup {NoRef}
      BY <1>1 DEF StackInHeap
    <3>4. ASSUME NEW s \in 1 .. Slots
          PROVE  stack'[s] \in 0 .. HeapSize + HeaderSize \cup {NoRef}
      BY <1>2, <2>2, <3>1, <3>2, <3>3
    <3> QED BY <3>4 DEF StackInHeap, HeapSize, NoRef
  <2>6. OldTiled'
    BY <1>1 DEF OldTiled, EndOf, Footprint, Known, Aligned, HeapSize, Half
  <2>7. OldKept'
    BY <2>1, MoveKeepsOld
  <2>8. RootsPending' /\ RootsMoved'
    BY <1>4, <2>1, MoveKeepsRoots
  <2>9. MovedCharged'
    BY <2>1, MoveKeepsCharges
  <2>10. Collecting'
    BY <2>4, <2>6, <2>7, <2>8, <2>9 DEF Collecting
  <2>11. pc' \notin {"not moved", "undefined"} /\ freed' >= 0
    BY <1>1, <2>2
  <2> QED BY <1>4, <2>3, <2>5, <2>10, <2>11 DEF CleanInv
<1> QED BY <1>2, <1>5, <1>6, MoveEffect

(* One round of the loop over the roots, when none was too close. *)
LEMMA RootClean ==
  ASSUME Typed, CleanInv, GcRoot, clean'
  PROVE  CleanInv'
<1>1. PICK slot \in todo : garbage_collection(slot) /\ todo' = todo \ {slot}
  BY DEF GcRoot
<1>2. pc = "gc" /\ UNCHANGED <<freed, oldUsed, scan, old>>
  BY DEF GcRoot
<1>3. ~TooClose(stack[slot])
  BY <1>1 DEF garbage_collection
<1>4. PICK i : RootOf(slot, i)
  BY <1>2, <1>3, RootBlock
<1> QED BY <1>1, <1>2, <1>4, FollowClean, MoveClean

(* No more is charged after the collection than before: a block is copied  *)
(* once (gc.c:563-570).                                                    *)
LEMMA EndClean ==
  ASSUME Typed, CleanInv, EndGc
  PROVE  CleanInv'
<1>1. /\ HeapInv /\ WindowWritten /\ StackInHeap /\ Inv /\ OldTiled /\ MovedCharged
      /\ pc = "gc" /\ pc' = "run" /\ UNCHANGED <<vars, mem, stack>> /\ freed' = oldUsed - used
  BY DEF CleanInv, Collecting, HeapInv, EndGc, h_used
<1>2. HeapInv' /\ WindowWritten'
  BY <1>1, HeapUntouched
<1>3. StackInHeap'
  BY <1>1 DEF StackInHeap, HeapSize, NoRef, Dbg
<1>4. freed' >= 0
  <2> DEFINE n == Len(old)
             f == MovedCharges
             g == Charges(old)
  <2>1. \A l \in Nat : StructCharge(l) \in Nat
    BY Sizes DEF StructCharge
  <2>2. n \in Nat /\ \A j \in 1 .. n : StructCharge(old[j].size) \in Nat
    <3>1. n \in Nat /\ \A j \in 1 .. n : old[j] \in Block
      BY <1>1 DEF OldTiled
    <3>2. \A j \in 1 .. n : old[j].size \in Nat
      BY <3>1 DEF Block
    <3> QED BY <2>1, <3>1, <3>2
  <2>3. g \in [1 .. n -> Int] /\ \A j \in 1 .. n : g[j] \in Nat /\ g[j] = StructCharge(old[j].size)
    BY <2>2 DEF Charges
  <2>4. f \in [1 .. n -> Int] /\ \A j \in 1 .. n : f[j] \in {0, g[j]}
    BY <2>2, <2>3 DEF MovedCharges
  <2>5. used = Total(f, n) /\ Total(g, n) <= oldUsed /\ oldUsed \in Nat
    BY <1>1 DEF MovedCharged
  <2> HIDE DEF f, g, n
  <2>6. Total(f, n) <= Total(g, n) /\ Total(f, n) \in Int /\ Total(g, n) \in Int
    <3>1. \A j \in 1 .. n : f[j] <= g[j]
      BY <2>3, <2>4
    <3>2. n \in 0 .. n
      BY <2>2
    <3> QED BY <2>2, <2>3, <2>4, <3>1, <3>2, TotalMonotone, TotalFacts
  <2> QED BY <1>1, <2>5, <2>6
<1> QED BY <1>1, <1>2, <1>3, <1>4 DEF CleanInv

(* h_init leaves an empty heap. *)
LEMMA InitClean == GcInit => CleanInv
<1> SUFFICES ASSUME GcInit PROVE CleanInv
  OBVIOUS
<1>1. /\ Init /\ front = 0 /\ used = 0 /\ objs = << >> /\ base = 1 /\ Len(objs) = 0 /\ map = {}
      /\ stack = [s \in 1 .. Slots |-> NoRef] /\ pc = "run" /\ freed = 0
  BY DEF GcInit, Init
<1>2. Inv /\ ChargedAhead /\ OverrunOnlyWhenEmpty /\ MapInv
  <2>1. Inv
    BY <1>1, InitInv
  <2>2. ChargedAhead
    BY <1>1 DEF ChargedAhead
  <2>3. ~Overrun
    BY <1>1, Sizes DEF Overrun
  <2>4. MapInv
    <3>1. top = 0
      BY <1>1 DEF Init
    <3> QED BY <1>1, <3>1, Sizes DEF MapInv, MapBelowTop, BlocksBelowTop, DataMarked
  <2> QED BY <2>1, <2>2, <2>3, <2>4 DEF OverrunOnlyWhenEmpty
<1>3. BlocksKnown /\ Ahead /\ LargeOverruns
  <2>1. Aligned(front)
    BY <1>1, AlignedSizes
  <2> QED BY <1>1, <2>1, Sizes DEF BlocksKnown, Ahead, LargeOverruns
<1>4. UsedCharged
  <2> DEFINE f == Charges(objs)
  <2>1. f \in [1 .. 0 -> Int]
    BY <1>1 DEF Charges
  <2> HIDE DEF f
  <2>2. 0 \in Nat
    OBVIOUS
  <2>3. Total(f, 0) = 0
    BY <2>1, <2>2, TotalFacts
  <2> QED BY <1>1, <2>3 DEF f, UsedCharged
<1>5. WindowWritten /\ StackInHeap
  BY <1>1 DEF WindowWritten, StackInHeap
<1> QED BY <1>1, <1>2, <1>3, <1>4, <1>5 DEF CleanInv, HeapInv

(* A collection that came too close cannot be taken back. *)
LEMMA CleanBefore == [GcNext]_allVars /\ clean' => clean
BY DEF GcNext, AllocStruct, AllocRaw, CopyRef, DropRef, Running, StartGc, GcRoot,
       garbage_collection, EndGc, h_delete_dbg, allVars, gcVars

(* Every step keeps the invariant. *)
LEMMA GcInvKept == GcInv /\ [GcNext]_allVars => GcInv'
<1> SUFFICES ASSUME GcInv, [GcNext]_allVars PROVE GcInv'
  OBVIOUS
<1>1. Typed /\ Typed'
  BY TypedKept DEF GcInv
<1> SUFFICES ASSUME clean' PROVE CleanInv'
  BY <1>1 DEF GcInv
<1>2. CleanInv
  BY CleanBefore DEF GcInv
<1>3. CASE \E slot \in 1 .. Slots, size \in StructSizes : AllocStruct(slot, size)
  BY <1>1, <1>2, <1>3, AllocClean
<1>4. CASE \E slot \in 1 .. Slots, bytes \in RawSizes : AllocRaw(slot, bytes)
  BY <1>1, <1>2, <1>4, AllocClean
<1>5. CASE \/ \E from, to \in 1 .. Slots, offset \in Offsets : CopyRef(from, to, offset)
           \/ \E slot \in 1 .. Slots : DropRef(slot)
  BY <1>1, <1>2, <1>5, CopyClean
<1>6. CASE StartGc
  BY <1>1, <1>2, <1>6, StartClean
<1>7. CASE GcRoot
  BY <1>1, <1>2, <1>7, RootClean
<1>8. CASE EndGc
  BY <1>1, <1>2, <1>8, EndClean
<1>9. CASE h_delete_dbg
  BY <1>1, <1>2, <1>9, DeleteClean
<1>10. CASE UNCHANGED allVars
  <2>1. UNCHANGED <<vars, mem, stack, pc, todo, freed, oldUsed, scan, old>>
    BY <1>10 DEF allVars, gcVars
  <2>2. HeapInv' /\ WindowWritten'
    BY <1>2, <2>1, HeapUntouched DEF CleanInv
  <2>3. StackInHeap'
    BY <1>2, <2>1 DEF CleanInv, StackInHeap, HeapSize, NoRef, Dbg
  <2>4. ASSUME pc' = "gc" PROVE Collecting'
    <3>1. /\ base = 1 /\ OldTiled /\ OldKept /\ RootsPending /\ RootsMoved /\ MovedCharged
      BY <1>2, <2>1, <2>4 DEF CleanInv, Collecting
    <3>2. OldTiled'
      BY <2>1, <3>1 DEF OldTiled, EndOf, Footprint, Known, Aligned, HeapSize, Half
    <3>3. OldKept'
      BY <2>1, <3>1 DEF vars, OldKept, Kept, HasFooter, HasHeader, HasData, At, FooterOf, DataOf,
                        AlreadyMoved, Done
    <3>4. RootsPending'
      BY <2>1, <3>1 DEF RootsPending
    <3>5. RootsMoved'
      BY <2>1, <3>1 DEF vars, RootsMoved, Done, HasData, FooterOf, DataOf
    <3>6. MovedCharged'
      <4>1. MovedCharges' = MovedCharges /\ Charges(old)' = Charges(old)
        BY <2>1 DEF MovedCharges, Charges, StructCharge, AlreadyMoved, Done, DataOf
      <4> QED BY <2>1, <3>1, <4>1 DEF vars, MovedCharged
    <3> QED BY <2>1, <3>1, <3>2, <3>3, <3>4, <3>5, <3>6 DEF vars, Collecting
  <2> QED BY <1>2, <2>1, <2>2, <2>3, <2>4 DEF CleanInv
<1> QED BY <1>3, <1>4, <1>5, <1>6, <1>7, <1>8, <1>9, <1>10 DEF GcNext

(* The inductive invariant of the collector. *)
LEMMA GcInvariance == GcSpec => []GcInv
<1>1. GcInit => GcInv
  BY InitTyped, InitClean DEF GcInv
<1>2. GcInv /\ [GcNext]_allVars => GcInv'
  BY GcInvKept
<1> QED BY <1>1, <1>2, PTL DEF GcSpec

-----------------------------------------------------------------------------
(* Every variable of the collector has its type, and the slots hold heap   *)
(* addresses as long as no root was too close.                             *)
THEOREM GcTypeCorrect == GcSpec => []GcTypeOK
<1>1. GcInv => GcTypeOK
  <2> SUFFICES ASSUME GcInv PROVE GcTypeOK
    OBVIOUS
  <2>1. ShortCell \subseteq CellValue
    BY DEF ShortCell
  <2>2. /\ mem \in [Cells -> ShortCell] /\ stack \in [1 .. Slots -> Int] /\ todo \subseteq 1 .. Slots
        /\ pc \in {"run", "gc", "no room", "not moved", "undefined", "deleted"}
    BY DEF GcInv, Typed
  <2>3. clean => \A i \in 1 .. Slots : stack[i] \in 0 .. HeapSize + HeaderSize \cup {NoRef, Dbg}
    BY DEF GcInv, CleanInv, StackInHeap
  <2> QED BY <2>1, <2>2, <2>3 DEF GcTypeOK
<1> QED BY <1>1, GcInvariance, PTL

(* The footer search finds the header of every block of the window of      *)
(* whole headers whose size fits its footer, and no other (traverse_stack.c*)
(* :31-55).                                                                *)
THEOREM HeaderAlwaysFound == GcSpec => []HeaderFound
<1>1. GcInv => HeaderFound
  <2> SUFFICES ASSUME GcInv, clean, NEW i \in base .. Len(objs), objs[i].size % HeaderSize = 0
               PROVE  find_header_address_through_footer(mem, DataOf(objs[i])) = objs[i].hdr
                        <=> objs[i].size < SizeMod
    BY DEF HeaderFound
  <2>1. HeapInv /\ Inv /\ BlocksKnown /\ LargeOverruns /\ WindowWritten /\ mem \in [Cells -> ShortCell]
    BY DEF GcInv, CleanInv, HeapInv, Typed
  <2> DEFINE b == objs[i]
             n == b.size
  <2>2. b \in Block /\ Known(b) /\ Written(mem, b)
        /\ (EndOf(b) <= HeapSize \/ n < HeaderSize \/ n >= SizeMod)
    <3>1. objs \in Seq(Block) /\ Len(objs) \in Nat /\ base \in 1 .. Len(objs) + 1
      BY <2>1 DEF Inv, TypeOK
    <3>2. i \in 1 .. Len(objs)
      BY <3>1
    <3> QED BY <2>1, <3>1, <3>2 DEF BlocksKnown, WindowWritten, LargeOverruns
  <2>3. n \in Nat /\ n > 0 /\ n % HeaderSize = 0 /\ SizeMod \in Nat /\ HeaderSize \in Nat \ {0}
    BY <2>2, Sizes, CollectorAssumption DEF Block, Known
  <2>4. PICK k \in Nat : HasData(mem, b, k)
    BY <2>2 DEF Written
  <2> HIDE DEF b
  <2>5. CASE n < SizeMod
    <3>1. ~(n < HeaderSize)
      <4> HIDE DEF n
      <4>1. n < HeaderSize => n % HeaderSize = n
        BY <2>3
      <4> QED BY <2>3, <4>1
    <3>2. EndOf(b) <= HeapSize
      <4> HIDE DEF n
      <4> QED BY <2>2, <2>3, <2>5, <3>1
    <3>3. HasFooter(mem, b)
      BY <2>2, <3>2 DEF Written
    <3>4. find_header_address_through_footer(mem, DataOf(b)) = b.hdr
      BY <2>2, <2>3, <2>4, <2>5, <3>3, SearchFinds
    <3> QED BY <2>5, <3>4 DEF b
  <2>6. CASE n >= SizeMod
    <3>1. find_header_address_through_footer(mem, DataOf(b)) # b.hdr
      BY <2>1, <2>2, <2>4, <2>6, SearchPasses
    <3>2. ~(n < SizeMod)
      <4> HIDE DEF n
      <4> QED BY <2>3, <2>6
    <3> QED BY <3>1, <3>2 DEF b, n
  <2>7. n < SizeMod \/ n >= SizeMod
    <3> HIDE DEF n
    <3> QED BY <2>3
  <2> QED BY <2>5, <2>6, <2>7
<1> QED BY <1>1, GcInvariance, PTL

(* Between the roots of a clean collection those that were processed point *)
(* to whole copies, equal ones to the same (gc.c:400-454).                 *)
THEOREM CleanRootsAlwaysMoved == GcSpec => []CleanRootsMoved
<1>1. GcInv => CleanRootsMoved
  <2> SUFFICES ASSUME GcInv, clean, pc = "gc"
               PROVE  /\ \A s \in Done : Intact(stack[s], scan[s].id)
                      /\ \A s, t \in Done : scan[s].from = scan[t].from <=> stack[s] = stack[t]
    BY DEF CleanRootsMoved
  <2>1. HeapInv /\ Inv /\ BlocksKnown /\ RootsMoved
    BY DEF GcInv, CleanInv, Collecting, HeapInv
  <2>2. ASSUME NEW s \in Done PROVE Intact(stack[s], scan[s].id)
    <3>1. PICK i \in base .. Len(objs) :
            /\ objs[i].kind = "struct"
            /\ stack[s] = DataOf(objs[i]) /\ HasData(mem, objs[i], scan[s].id)
      BY <2>1 DEF RootsMoved
    <3> DEFINE b == objs[i]
               n == b.size
               p == DataOf(b)
    <3>2. b \in Block /\ Known(b)
      <4>1. objs \in Seq(Block) /\ Len(objs) \in Nat /\ base \in 1 .. Len(objs) + 1
        BY <2>1 DEF Inv, TypeOK
      <4>2. i \in 1 .. Len(objs)
        BY <4>1
      <4> QED BY <2>1, <4>1, <4>2 DEF BlocksKnown
    <3> HIDE DEF b
    <3>3. EndOf(b) <= HeapSize /\ n \in Nat /\ Aligned(n)
      BY <3>1, <3>2, AlignedSizes DEF Known, Block, b
    <3>4. p \in Cells /\ p \in Int /\ p < FooterOf(b)
      BY <3>2, <3>3, DataCell
    <3>5. FooterOf(b) = p + n /\ EndOf(b) = p + n + HeaderSize
      <4> DEFINE hdr == b.hdr
      <4>1. hdr \in Nat /\ HeaderSize \in Nat
        BY <3>2, Sizes DEF Block
      <4>2. p = hdr + HeaderSize /\ EndOf(b) = hdr + (n + 2 * HeaderSize) /\ FooterOf(b) = p + n
        BY DEF DataOf, EndOf, Footprint, FooterOf
      <4> HIDE DEF hdr, n
      <4> QED BY <3>3, <4>1, <4>2 DEF n
    <3>6. ASSUME NEW c \in CellsOf(p, n) PROVE mem[c] = <<"data", scan[s].id>>
      <4> HIDE DEF p, n
      <4>1. Aligned(p) /\ 0 <= p
        BY <3>4, CellsOfHeap
      <4>2. c \in Int /\ Aligned(c) /\ p <= c /\ c < p + n
        BY <3>3, <3>4, <4>1, CellsOfStretch
      <4>3. c \in Cells
        <5>1. 0 <= c /\ c < HeapSize
          BY <3>3, <3>4, <3>5, <4>1, <4>2, Sizes
        <5> QED BY <4>2, <5>1, CellsOfHeap
      <4> QED BY <3>1, <3>5, <4>2, <4>3 DEF HasData, b, p
    <3> QED BY <3>1, <3>6 DEF Intact, b
  <2> QED BY <2>1, <2>2 DEF RootsMoved
<1> QED BY <1>1, GcInvariance, PTL

(* The assertion of gc.c:415 holds, and no word but a header is taken for  *)
(* one, in every collection that is clean.                                 *)
THEOREM CleanIsNeverStuck == GcSpec => []CleanNeverStuck
<1>1. GcInv => CleanNeverStuck
  BY DEF GcInv, CleanInv, CleanNeverStuck
<1> QED BY <1>1, GcInvariance, PTL

(* h_gc returns a number of bytes (gc.c:569-570). *)
THEOREM CleanAlwaysCollects == GcSpec => []CleanCollects
<1>1. GcInv => CleanCollects
  BY DEF GcInv, CleanInv, CleanCollects
<1> QED BY <1>1, GcInvariance, PTL

-----------------------------------------------------------------------------
(* As long as it is clean the collector is a client of the allocator: every*)
(* step it makes is one of Heap, a copy being an allocation of the size of *)
(* a block the program allocated, or leaves the allocator alone.           *)
LEMMA CleanStep == GcInv /\ [GcNext]_allVars /\ clean' => [Next]_vars
<1> SUFFICES ASSUME GcInv, [GcNext]_allVars, clean' PROVE [Next]_vars
  OBVIOUS
<1>1. clean /\ CleanInv /\ Typed
  BY CleanBefore DEF GcInv
<1>2. CASE GcRoot
  <2>1. PICK slot \in todo : garbage_collection(slot)
    BY <1>2 DEF GcRoot
  <2>2. pc = "gc" /\ ~TooClose(stack[slot])
    BY <1>2, <2>1 DEF GcRoot, garbage_collection
  <2>3. PICK i : RootOf(slot, i)
    BY <1>1, <2>2, RootBlock
  <2>4. slot \in 1 .. Slots
    BY <1>1 DEF Typed
  <2>5. CASE ~AlreadyMoved(stack[slot])
    BY <1>1, <2>1, <2>2, <2>3, <2>4, <2>5, MoveEffect
  <2>6. CASE AlreadyMoved(stack[slot])
    BY <1>1, <2>1, <2>2, <2>3, <2>6, FollowOnly
  <2> QED BY <2>5, <2>6
<1>3. CASE GcNext /\ ~GcRoot
  BY <1>3 DEF GcNext, AllocStruct, AllocRaw, CopyRef, DropRef, StartGc, EndGc, h_delete_dbg,
              Next, Alloc
<1>4. CASE UNCHANGED allVars
  BY <1>4 DEF allVars
<1> QED BY <1>2, <1>3, <1>4

(* The collector is a user of the allocator like any other: until a root   *)
(* is too close, whatever it does to the heap record is what Heap allows,  *)
(* so that a copy asks for a size the program has asked for, read back     *)
(* from a header or a footer (gc.c:400-413).                               *)
THEOREM CleanStepsOfHeap == GcSpec => Init /\ [][clean' => [Next]_vars]_allVars
<1>1. GcInit => Init
  BY DEF GcInit
<1>2. GcInv /\ [GcNext]_allVars => [clean' => [Next]_vars]_allVars
  BY CleanStep
<1> QED BY <1>1, <1>2, GcInvariance, PTL DEF GcSpec

-----------------------------------------------------------------------------
(* The slots that hold addresses of the heap, when objects have at least a *)
(* header's size and only pointers to the beginning of objects are kept.   *)
SlotsMapped ==
  clean => \A s \in 1 .. Slots :
    stack[s] \in 0 .. HeapSize - 1 => pc # "deleted" /\ stack[s] \div SegSize \in map

(* An allocation marks segments and clears none. *)
LEMMA MapGrows ==
  ASSUME NEW size, h_alloc_struct(size) \/ h_alloc_raw(size)
  PROVE  map \subseteq map'
BY DEF h_alloc_struct, h_alloc_raw, StructRefused, StructNoSpace, StructNoFooterRoom, StructPlaced,
       PlaceStruct, RawRefused, RawPlaced, Refuse

(* The data of a block in objs is marked, if it is large enough.           *)
LEMMA SlotMarked ==
  ASSUME MapInv, NEW j \in 1 .. Len(objs), objs[j].size >= HeaderSize
  PROVE  DataOf(objs[j]) \div SegSize \in map
BY DEF MapInv, DataMarked

(* A slot that is given the data pointer of a placed block, or nothing.    *)
LEMMA AllocMapped ==
  ASSUME \A size \in StructSizes \cup RawSizes : size >= HeaderSize,
         Typed, CleanInv, HeapInv', SlotsMapped, clean,
         NEW slot \in 1 .. Slots, NEW size,
         \/ size \in StructSizes /\ AllocStruct(slot, size)
         \/ size \in RawSizes /\ AllocRaw(slot, size)
  PROVE  SlotsMapped'
<1>1. Inv /\ stack \in [1 .. Slots -> Int] /\ front \in Nat
  BY DEF CleanInv, HeapInv, Typed
<1>2. Running /\ pc = "run" /\ pc' = "run" /\ (h_alloc_struct(size) \/ h_alloc_raw(size))
  BY DEF AllocStruct, AllocRaw, Running
<1>3. map \subseteq map'
  BY <1>2, MapGrows
<1>4. ASSUME NEW a, stack' = [stack EXCEPT ![slot] = a],
             a \in 0 .. HeapSize - 1 => a \div SegSize \in map'
      PROVE  SlotsMapped'
  <2>1. \A s \in 1 .. Slots : stack'[s] = a \/ stack'[s] = stack[s]
    BY <1>1, <1>4
  <2>2. \A s \in 1 .. Slots : stack[s] \in 0 .. HeapSize - 1 => stack[s] \div SegSize \in map
    BY DEF SlotsMapped
  <2>3. \A s \in 1 .. Slots : stack'[s] \in 0 .. HeapSize - 1 => stack'[s] \div SegSize \in map'
    BY <1>3, <1>4, <2>1, <2>2
  <2> QED BY <1>2, <2>3 DEF SlotsMapped, HeapSize
<1>5. CASE Refuses
  <2>1. stack' = [stack EXCEPT ![slot] = NoRef]
    BY <1>5 DEF Refuses, AllocStruct, AllocRaw
  <2>2. NoRef \notin 0 .. HeapSize - 1
    BY DEF NoRef
  <2> QED BY <1>4, <2>1, <2>2
<1>6. ASSUME NEW b, Places(b) PROVE SlotsMapped'
  <2>1. /\ ret' = DataOf(b) /\ b.size >= HeaderSize
        /\ Len(objs') = Len(objs) + 1 /\ objs'[Len(objs) + 1] = b /\ Len(objs) \in Nat
        /\ b.hdr \in Nat /\ DataOf(b) = b.hdr + HeaderSize
    BY <1>1, <1>6, PlacesFacts DEF Places
  <2>2. ret' # NULL
    BY <2>1, Sizes DEF NULL
  <2>3. stack' = [stack EXCEPT ![slot] = ret']
    BY <2>2 DEF AllocStruct, AllocRaw
  <2>4. ret' \div SegSize \in map'
    <3>1. Len(objs) + 1 \in 1 .. Len(objs') /\ objs'[Len(objs) + 1].size >= HeaderSize
      BY <2>1
    <3>2. MapInv'
      BY DEF HeapInv
    <3>3. DataOf(objs'[Len(objs) + 1]) \div SegSize \in map'
      BY <3>1, <3>2 DEF MapInv, DataMarked, DataOf
    <3> QED BY <2>1, <3>3
  <2> QED BY <1>4, <2>3, <2>4
<1> QED BY <1>1, <1>2, <1>5, <1>6, StructPlaces, RawPlaces DEF AllocStruct, AllocRaw

(* One root of a collection: what it moves is a block of the new window.   *)
LEMMA RootMapped ==
  ASSUME \A size \in StructSizes \cup RawSizes : size >= HeaderSize,
         Typed, Typed', CleanInv, CleanInv', SlotsMapped, clean, GcRoot
  PROVE  SlotsMapped'
<1>1. PICK slot \in todo : garbage_collection(slot) /\ todo' = todo \ {slot}
  BY DEF GcRoot
<1>2. /\ pc = "gc" /\ scan' = scan /\ slot \in 1 .. Slots /\ stack \in [1 .. Slots -> Int]
      /\ slot \in DOMAIN scan
  BY <1>1 DEF GcRoot, Typed, CleanInv, Collecting, RootsPending
<1>3. map \subseteq map'
  BY <1>1, MapGrows DEF garbage_collection, MoveStruct, FollowForward, MoveRaw, NoHeader, vars
<1>4. \/ stack' = stack
      \/ pc' = pc /\ \E a : stack' = [stack EXCEPT ![slot] = a]
  <2> DEFINE Moved == \/ stack' = stack
                      \/ pc' = pc /\ \E a : stack' = [stack EXCEPT ![slot] = a]
  <2>1. \A p, hdr : MoveStruct(slot, p, hdr) => Moved
    BY DEF MoveStruct, Stop
  <2>2. \A p, hdr : FollowForward(slot, p, hdr) => Moved
    BY DEF FollowForward
  <2>3. \A p, hdr : MoveRaw(slot, p, hdr) => Moved
    BY DEF MoveRaw, Stop
  <2>4. \A p, hdr : NoHeader(p, hdr) => Moved
    BY DEF NoHeader, Stop
  <2> HIDE DEF Moved
  <2>5. stack' = stack => Moved
    BY DEF Moved
  <2>6. Moved
    BY <1>1, <2>1, <2>2, <2>3, <2>4, <2>5 DEF garbage_collection
  <2> QED BY <2>6 DEF Moved
<1>5. pc' \in {pc, "no room", "not moved", "undefined"}
  BY <1>1, <1>2, RootTyped
<1>6. \A s \in 1 .. Slots : stack[s] \in 0 .. HeapSize - 1 => stack[s] \div SegSize \in map
  BY DEF SlotsMapped
<1>7. CASE pc' = pc
  <2>1. HeapInv' /\ Inv' /\ MapInv' /\ BlocksKnown' /\ RootsMoved'
    BY <1>2, <1>7 DEF CleanInv, HeapInv, Collecting
  <2>2. slot \in Done'
    BY <1>1, <1>2 DEF Done
  <2>3. PICK j \in base' .. Len(objs') : stack'[slot] = DataOf(objs'[j])
    BY <2>1, <2>2 DEF RootsMoved, DataOf
  <2>4. j \in 1 .. Len(objs') /\ objs'[j].size >= HeaderSize
    <3>1. Len(objs') \in Nat /\ base' \in 1 .. Len(objs') + 1
      BY <2>1 DEF Inv, TypeOK
    <3>2. j \in 1 .. Len(objs')
      BY <3>1
    <3>3. objs'[j].size \in StructSizes \cup RawSizes
      BY <2>1, <3>2 DEF BlocksKnown, Known
    <3> QED BY <3>2, <3>3
  <2>5. stack'[slot] \div SegSize \in map'
    BY <2>1, <2>3, <2>4 DEF MapInv, DataMarked, DataOf
  <2>6. \A s \in 1 .. Slots : s # slot => stack'[s] = stack[s]
    BY <1>2, <1>4
  <2>7. \A s \in 1 .. Slots : stack'[s] \in 0 .. HeapSize - 1 => stack'[s] \div SegSize \in map'
    BY <1>3, <1>6, <2>5, <2>6
  <2>8. pc' # "deleted"
    BY <1>2, <1>7
  <2> QED BY <2>7, <2>8 DEF SlotsMapped, HeapSize
<1>8. CASE pc' # pc
  <2>1. stack' = stack /\ pc' # "deleted"
    BY <1>4, <1>5, <1>8
  <2> QED BY <1>3, <1>6, <2>1 DEF SlotsMapped, HeapSize
<1> QED BY <1>7, <1>8

(* h_delete_dbg reaches every slot whose segment is marked                 *)
(* (traverse_stack.c:144-156).                                             *)
LEMMA DeleteMapped ==
  ASSUME Typed, SlotsMapped, clean, h_delete_dbg
  PROVE  SlotsMapped'
<1>1. stack' = [i \in 1 .. Slots |-> IF i \in root_ptrs THEN Dbg ELSE stack[i]]
  BY DEF h_delete_dbg, invalidate_ptrs_at_heap
<1>2. stack \in [1 .. Slots -> Int] /\ HeapSize \in Nat
  BY Sizes DEF Typed
<1>3. ASSUME NEW s \in 1 .. Slots PROVE stack'[s] \notin 0 .. HeapSize - 1
  <2>1. CASE s \in root_ptrs
    BY <1>1, <1>2, <2>1 DEF Dbg
  <2>2. CASE s \notin root_ptrs
    <3>1. stack'[s] = stack[s] /\ stack[s] \in Int
      BY <1>1, <1>2, <2>2
    <3>2. ASSUME stack[s] \in 0 .. HeapSize - 1 PROVE FALSE
      <4>1. stack[s] # NoRef /\ stack[s] <= HeapSize
        BY <1>2, <3>1, <3>2 DEF NoRef
      <4>2. stack[s] \div SegSize \in map
        BY <3>2 DEF SlotsMapped
      <4> QED BY <2>2, <4>1, <4>2 DEF root_ptrs, validate_ptr
    <3> QED BY <3>1, <3>2
  <2> QED BY <2>1, <2>2
<1> QED BY <1>3 DEF SlotsMapped, HeapSize

(* Every step keeps the slots mapped. *)
LEMMA SlotsMappedKept ==
  ASSUME \A size \in StructSizes \cup RawSizes : size >= HeaderSize, Offsets \subseteq {0},
         GcInv, GcInv', SlotsMapped, [GcNext]_allVars
  PROVE  SlotsMapped'
<1> SUFFICES ASSUME clean' PROVE SlotsMapped'
  BY DEF SlotsMapped
<1>1. clean /\ Typed /\ Typed' /\ CleanInv /\ CleanInv' /\ HeapInv'
  BY CleanBefore DEF GcInv, CleanInv
<1>2. stack \in [1 .. Slots -> Int]
  BY <1>1 DEF Typed
<1>3. \A s \in 1 .. Slots :
        stack[s] \in 0 .. HeapSize - 1 => pc # "deleted" /\ stack[s] \div SegSize \in map
  BY <1>1 DEF SlotsMapped
<1>4. CASE \E slot \in 1 .. Slots, size \in StructSizes : AllocStruct(slot, size)
  BY <1>1, <1>4, AllocMapped
<1>5. CASE \E slot \in 1 .. Slots, bytes \in RawSizes : AllocRaw(slot, bytes)
  BY <1>1, <1>5, AllocMapped
<1>6. ASSUME NEW from \in 1 .. Slots, NEW to \in 1 .. Slots, NEW offset \in Offsets,
             CopyRef(from, to, offset)
      PROVE  SlotsMapped'
  <2>1. stack' = [stack EXCEPT ![to] = stack[from] + 0] /\ map' = map /\ pc' = pc
    BY <1>6 DEF CopyRef, Running, vars
  <2>2. \A s \in 1 .. Slots : \E t \in 1 .. Slots : stack'[s] = stack[t]
    BY <1>2, <2>1
  <2> QED BY <1>3, <2>1, <2>2 DEF SlotsMapped, HeapSize
<1>7. ASSUME NEW slot \in 1 .. Slots, DropRef(slot) PROVE SlotsMapped'
  <2>1. stack' = [stack EXCEPT ![slot] = NoRef] /\ map' = map /\ pc' = pc
    BY <1>7 DEF DropRef, Running, vars
  <2>2. NoRef \notin 0 .. HeapSize - 1
    BY DEF NoRef
  <2>3. \A s \in 1 .. Slots : stack'[s] = NoRef \/ stack'[s] = stack[s]
    BY <1>2, <2>1
  <2> QED BY <1>3, <2>1, <2>2, <2>3 DEF SlotsMapped, HeapSize
<1>8. CASE StartGc
  <2>1. stack' = stack /\ map' = map /\ pc' = "gc"
    BY <1>8 DEF StartGc, GcReset
  <2> QED BY <1>3, <2>1 DEF SlotsMapped, HeapSize
<1>9. CASE GcRoot
  BY <1>1, <1>9, RootMapped
<1>10. CASE EndGc
  <2>1. stack' = stack /\ map' = map /\ pc' = "run"
    BY <1>10 DEF EndGc, vars
  <2> QED BY <1>3, <2>1 DEF SlotsMapped, HeapSize
<1>11. CASE h_delete_dbg
  BY <1>1, <1>11, DeleteMapped
<1>12. CASE UNCHANGED allVars
  BY <1>3, <1>12 DEF allVars, gcVars, vars, SlotsMapped, HeapSize
<1> QED BY <1>4, <1>5, <1>6, <1>7, <1>8, <1>9, <1>10, <1>11, <1>12 DEF GcNext

(* After h_delete_dbg no slot points into the heap, if all objects have at *)
(* least a header's size, the program keeps pointers to their beginning    *)
(* only, and no root of a collection was too close (gc.h:101-102).  Smaller*)
(* objects, and the last word of some others, are in segments that are not *)
(* marked.                                                                 *)
THEOREM DeleteAlwaysKillsPointers ==
  ASSUME \A size \in StructSizes \cup RawSizes : size >= HeaderSize, Offsets \subseteq {0}
  PROVE  GcSpec => []DeleteKillsPointers
<1>1. GcInit => SlotsMapped
  BY DEF GcInit, SlotsMapped, NoRef
<1>2. GcInv /\ GcInv' /\ SlotsMapped /\ [GcNext]_allVars => SlotsMapped'
  BY SlotsMappedKept
<1>3. SlotsMapped => DeleteKillsPointers
  BY DEF SlotsMapped, DeleteKillsPointers
<1> QED BY <1>1, <1>2, <1>3, GcInvariance, PTL DEF GcSpec
=============================================================================
