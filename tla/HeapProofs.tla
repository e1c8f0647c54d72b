----------------------------- MODULE HeapProofs -----------------------------
(***************************************************************************)
(* Theorems about the allocator, for every number and size of spaces and   *)
(* every set of request sizes.                                             *)
(***************************************************************************)
EXTENDS Heap, TLAPS

(* An address is in the space its index names. *)
LEMMA DivBounds ==
  ASSUME NEW a \in Nat, NEW d \in Nat \ {0}
  PROVE  /\ a \div d \in Nat
         /\ (a \div d) * d <= a
         /\ a < (a \div d) * d + d
         /\ a % d \in 0 .. d - 1
         /\ a = (a \div d) * d + (a % d)
OBVIOUS

(* An address below the end of space n - 1 is in one of the first n. *)
LEMMA DivBelow ==
  ASSUME NEW a \in Nat, NEW d \in Nat \ {0}, NEW n \in Nat, a < n * d
  PROVE  a \div d <= n - 1
<1>1. (a \div d) * d < n * d
  BY DivBounds
<1>2. ASSUME a \div d >= n PROVE FALSE
  BY <1>1, <1>2, DivBounds
<1> QED BY <1>2, DivBounds

(* The start of space i is in space i. *)
LEMMA DivOfStart ==
  ASSUME NEW i \in Nat, NEW d \in Nat \ {0}
  PROVE  /\ i * d \in Nat
         /\ (i * d) \div d = i
         /\ (i * d) % d = 0
OBVIOUS

-----------------------------------------------------------------------------
(* The double inversion in h_gc_dbg leaves the flags as h_init set them:   *)
(* the first half of the spaces is active.                                 *)
HalfActive == active = [i \in Spaces |-> i < NumSpaces \div 2]

(* The inductive invariant.  FrontWithinUsed is what makes the others      *)
(* inductive: it turns the test of h_avail, which is about used_bytes,     *)
(* into a bound on alloc_front.                                            *)
Inv ==
  /\ TypeOK
  /\ HalfActive
  /\ FrontWithinUsed
  /\ OverrunBounded
  /\ WindowTiles
  /\ StructsInActiveSpaces

(* A granted struct request finds the front inside the heap. *)
LEMMA GrantedInHeap ==
  ASSUME TypeOK, FrontWithinUsed, NEW size \in StructSizes, Granted(size)
  PROVE  /\ front < HeapSize
         /\ SpaceIndex \in Spaces
         /\ used + size + HeaderSize <= HeapSize
<1> USE HeapAssumption DEF HeapSize
<1>0. HeapSize \in Nat
  OBVIOUS
<1>1. used + size + HeaderSize <= HeapSize /\ front < HeapSize
  BY <1>0 DEF TypeOK, FrontWithinUsed, Granted, h_avail, h_used
<1>2. SpaceIndex \in Nat /\ SpaceIndex <= NumSpaces - 1
  BY <1>1, DivBelow, DivBounds DEF SpaceIndex, TypeOK
<1> QED BY <1>1, <1>2 DEF Spaces

(* The active spaces are a prefix of all spaces, so the walk to an active  *)
(* space either does not leave the current one or fails; the header goes   *)
(* to the front or back to the start of the space the front is in.         *)
LEMMA LandingInSpace ==
  ASSUME TypeOK, HalfActive, FrontWithinUsed,
         NEW size \in StructSizes, Granted(size), ActiveFrom(SpaceIndex) # {}
  PROVE  /\ SpaceIndex \in Spaces
         /\ active[SpaceIndex]
         /\ Landing(size) \in {front, SpaceStart(SpaceIndex)}
         /\ Landing(size) \in Nat
         /\ Landing(size) <= front
         /\ Landing(size) \div SpaceSize = SpaceIndex
         /\ Landing(size) = SpaceStart(SpaceIndex) + (Landing(size) % SpaceSize)
<1> USE HeapAssumption
<1>1. SpaceIndex \in Spaces
  BY GrantedInHeap
<1>2. active[SpaceIndex]
  <2>1. PICK j \in Spaces : j >= SpaceIndex /\ active[j]
    BY DEF ActiveFrom
  <2>2. j < NumSpaces \div 2
    BY <2>1 DEF HalfActive
  <2>3. SpaceIndex < NumSpaces \div 2
    BY <1>1, <2>1, <2>2 DEF Spaces
  <2> QED BY <1>1, <2>3 DEF HalfActive
<1>3. FirstActive(SpaceIndex) = SpaceIndex
  <2>1. SpaceIndex \in ActiveFrom(SpaceIndex)
    BY <1>1, <1>2 DEF ActiveFrom, Spaces
  <2>2. \A k \in ActiveFrom(SpaceIndex) : SpaceIndex <= k /\ k \in Int
    BY <1>1 DEF ActiveFrom, Spaces
  <2>3. \A j \in ActiveFrom(SpaceIndex) :
          (\A k \in ActiveFrom(SpaceIndex) : j <= k) => j = SpaceIndex
    BY <1>1, <2>1, <2>2 DEF Spaces
  <2> QED BY <2>1, <2>2, <2>3 DEF FirstActive
<1>4. Landing(size) \in {front, SpaceStart(SpaceIndex)}
  BY <1>3 DEF Landing
<1>5. /\ SpaceStart(SpaceIndex) \in Nat
      /\ SpaceStart(SpaceIndex) <= front
      /\ SpaceStart(SpaceIndex) \div SpaceSize = SpaceIndex
      /\ SpaceStart(SpaceIndex) % SpaceSize = 0
  BY <1>1, DivBounds, DivOfStart DEF SpaceStart, SpaceIndex, TypeOK, Spaces
<1>6. front \in Nat /\ front = SpaceStart(SpaceIndex) + (front % SpaceSize)
  BY DivBounds DEF SpaceStart, SpaceIndex, TypeOK
<1> QED BY <1>1, <1>2, <1>4, <1>5, <1>6 DEF SpaceIndex

-----------------------------------------------------------------------------
(* The heap h_init returns satisfies the invariant (gc.c:27-107).          *)
LEMMA InitInv == Init => Inv
<1> SUFFICES ASSUME Init PROVE Inv
  OBVIOUS
<1> USE HeapAssumption DEF Init
<1>1. HeapSize \in Nat
  BY DEF HeapSize
<1>2. TypeOK
  BY <1>1 DEF TypeOK, NULL, Spaces
<1>3. HalfActive /\ FrontWithinUsed /\ OverrunBounded
  BY <1>1 DEF HalfActive, FrontWithinUsed, OverrunBounded
<1>4. WindowTiles /\ StructsInActiveSpaces
  BY DEF WindowTiles, StructsInActiveSpaces
<1> QED BY <1>2, <1>3, <1>4 DEF Inv

(* A block appended where the window ends, or that starts a new window,    *)
(* keeps the window tiled.                                                 *)
LEMMA AppendKeepsWindow ==
  ASSUME TypeOK, WindowTiles,
         NEW b \in Block,
         objs' = Append(objs, b), front' = EndOf(b),
         \/ b.hdr = front /\ base' = base
         \/ base' = Len(objs) + 1
  PROVE  WindowTiles'
<1> USE HeapAssumption
<1> DEFINE n == Len(objs)
<1>1. /\ n \in Nat /\ Len(objs') = n + 1 /\ objs'[n + 1] = b
      /\ \A i \in 1 .. n : objs'[i] = objs[i] /\ objs[i] \in Block
  BY DEF TypeOK
<1>2. base \in 1 .. n + 1 /\ base' \in 1 .. n + 1 /\ base <= base'
  BY <1>1 DEF TypeOK
<1>3. EndOf(b) \in Nat /\ \A i \in 1 .. n : EndOf(objs[i]) \in Nat /\ objs[i].hdr \in Nat
                                           /\ objs[i].hdr <= EndOf(objs[i])
  BY <1>1 DEF EndOf, Footprint, Block
<1>4. \A i \in base' .. n : EndOf(objs[i]) <= b.hdr
  <2> SUFFICES ASSUME NEW i \in base' .. n PROVE EndOf(objs[i]) <= b.hdr
    OBVIOUS
  <2>1. b.hdr = front /\ base' = base /\ EndOf(objs[n]) = front
    BY <1>1, <1>2 DEF WindowTiles
  <2>2. CASE i = n
    BY <2>1, <2>2, <1>1, <1>2, <1>3
  <2>3. CASE i < n
    <3>1. EndOf(objs[i]) <= objs[n].hdr
      BY <1>1, <1>2, <2>3 DEF WindowTiles
    <3> QED BY <3>1, <2>1, <1>1, <1>2, <1>3
  <2> QED BY <2>2, <2>3, <1>1, <1>2
<1>5. \A i, j \in base' .. n + 1 : i < j => EndOf(objs'[i]) <= objs'[j].hdr
  <2> SUFFICES ASSUME NEW i \in base' .. n + 1, NEW j \in base' .. n + 1, i < j
               PROVE  EndOf(objs'[i]) <= objs'[j].hdr
    OBVIOUS
  <2>1. i \in base' .. n /\ objs'[i] = objs[i]
    BY <1>1, <1>2
  <2>2. CASE j = n + 1
    BY <2>1, <2>2, <1>1, <1>4
  <2>3. CASE j # n + 1
    <3>1. j \in base .. n /\ i \in base .. n /\ objs'[j] = objs[j]
      BY <2>1, <2>3, <1>1, <1>2
    <3>2. EndOf(objs[i]) <= objs[j].hdr
      BY <3>1 DEF WindowTiles
    <3> QED BY <2>1, <3>1, <3>2
  <2> QED BY <2>2, <2>3
<1>6. \A i \in base' .. n : EndOf(objs'[i]) = objs'[i + 1].hdr
  <2> SUFFICES ASSUME NEW i \in base' .. n PROVE EndOf(objs'[i]) = objs'[i + 1].hdr
    OBVIOUS
  <2>1. b.hdr = front /\ base' = base /\ EndOf(objs[n]) = front
    BY <1>1, <1>2 DEF WindowTiles
  <2>2. CASE i = n
    BY <2>1, <2>2, <1>1, <1>2
  <2>3. CASE i # n
    BY <2>1, <2>3, <1>1, <1>2 DEF WindowTiles
  <2> QED BY <2>2, <2>3
<1>7. EndOf(objs'[n + 1]) = front'
  BY <1>1
<1>8. Len(objs') = n + 1 /\ Len(objs') - 1 = n
  BY <1>1
<1> HIDE DEF n
<1>9. /\ \A i, j \in base' .. Len(objs') : i < j => EndOf(objs'[i]) <= objs'[j].hdr
      /\ \A i \in base' .. Len(objs') - 1 : EndOf(objs'[i]) = objs'[i + 1].hdr
      /\ EndOf(objs'[Len(objs')]) = front'
  BY <1>5, <1>6, <1>7, <1>8
<1> QED BY <1>9 DEF WindowTiles

(* An appended struct that lies in one active space keeps all structs      *)
(* there; a raw block puts no demand.                                      *)
LEMMA AppendKeepsStructs ==
  ASSUME TypeOK, StructsInActiveSpaces,
         NEW b \in Block,
         objs' = Append(objs, b), active' = active,
         b.kind = "struct" =>
           /\ b.hdr \div SpaceSize \in Spaces
           /\ active[b.hdr \div SpaceSize]
           /\ EndOf(b) <= SpaceStart(b.hdr \div SpaceSize) + SpaceSize
  PROVE  StructsInActiveSpaces'
<1> SUFFICES ASSUME NEW i \in 1 .. Len(objs'), objs'[i].kind = "struct"
             PROVE  /\ objs'[i].hdr \div SpaceSize \in Spaces
                    /\ active[objs'[i].hdr \div SpaceSize]
                    /\ EndOf(objs'[i])
                         <= SpaceStart(objs'[i].hdr \div SpaceSize) + SpaceSize
  BY DEF StructsInActiveSpaces
<1>1. Len(objs) \in Nat /\ Len(objs') = Len(objs) + 1
  BY DEF TypeOK
<1>2. CASE i \in 1 .. Len(objs)
  <2>1. objs'[i] = objs[i]
    BY <1>2 DEF TypeOK
  <2> QED BY <1>2, <2>1 DEF StructsInActiveSpaces
<1>3. CASE i = Len(objs) + 1
  <2>1. objs'[i] = b
    BY <1>3 DEF TypeOK
  <2> QED BY <2>1
<1> QED BY <1>1, <1>2, <1>3

(* The segments set_alloc_map marks have natural numbers (gc.c:146-162).   *)
LEMMA SetAllocMapType ==
  ASSUME NEW a \in Nat, NEW b \in Nat
  PROVE  set_alloc_map(a, b) \subseteq Nat
BY HeapAssumption, DivBounds DEF set_alloc_map

(* So have those the second loop of h_alloc_struct marks (gc.c:285-322).   *)
LEMMA MarkFromHeaderType ==
  ASSUME NEW hdr \in Nat, NEW size \in Nat
  PROVE  MarkFromHeader(hdr, size) \subseteq Nat
<1> USE HeapAssumption
<1> DEFINE first == (hdr + HeaderSize - 1) \div SegSize
           count == (size + HeaderSize + SegSize - 1) \div SegSize
<1>1. hdr + HeaderSize - 1 \in Nat /\ size + HeaderSize + SegSize - 1 \in Nat
  OBVIOUS
<1>2. first \in Nat /\ count \in Nat
  BY <1>1, DivBounds
<1>3. MarkFromHeader(hdr, size) = {i \in first .. first + count : i < first + count}
  BY DEF MarkFromHeader
<1> HIDE DEF first, count
<1> QED BY <1>2, <1>3

(* A struct that is placed keeps the invariant (gc.c:263-325).             *)
LEMMA StructPlacedInv ==
  ASSUME Inv, NEW size \in StructSizes, StructPlaced(size)
  PROVE  Inv'
<1> USE HeapAssumption
<1> DEFINE at == Landing(size)
           b == [hdr |-> at, size |-> size, kind |-> "struct"]
<1>0. TypeOK /\ HalfActive /\ FrontWithinUsed /\ OverrunBounded /\ WindowTiles
        /\ StructsInActiveSpaces
  BY DEF Inv
<1>1. /\ Granted(size) /\ ActiveFrom(SpaceIndex) # {}
      /\ size + HeaderSize <= SpaceSize - ((at % SpaceSize) + HeaderSize)
      /\ PlaceStruct(size, at)
  BY DEF StructPlaced
<1>2. /\ SpaceIndex \in Spaces /\ active[SpaceIndex]
      /\ at \in {front, SpaceStart(SpaceIndex)}
      /\ at \in Nat /\ at <= front
      /\ at \div SpaceSize = SpaceIndex
      /\ at = SpaceStart(SpaceIndex) + (at % SpaceSize)
  BY <1>0, <1>1, LandingInSpace
<1>3. used + size + HeaderSize <= HeapSize /\ front < HeapSize /\ HeapSize \in Nat
  BY <1>0, <1>1, GrantedInHeap DEF HeapSize
<1>4. at % SpaceSize \in Nat
  <2> HIDE DEF at
  <2>1. at \in Nat /\ SpaceSize \in Nat \ {0}
    BY <1>2
  <2>2. at % SpaceSize \in 0 .. SpaceSize - 1
    BY <2>1, DivBounds
  <2> QED BY <2>2
<1>5. size \in Nat /\ b \in Block /\ EndOf(b) \in Nat
      /\ EndOf(b) = at + size + 2 * HeaderSize /\ b.hdr = at /\ b.kind = "struct"
  BY <1>2 DEF Block, EndOf, Footprint
<1>6. SpaceStart(SpaceIndex) \in Nat
      /\ EndOf(b) <= SpaceStart(SpaceIndex) + SpaceSize
  BY <1>1, <1>2, <1>4, <1>5, DivOfStart DEF SpaceStart, Spaces
<1>7. /\ front' = EndOf(b)
      /\ used' = used + ((size + 2 * HeaderSize) + (size + HeaderSize))
      /\ map' = map \cup set_alloc_map(front, EndOf(b)) \cup MarkFromHeader(at, size)
      /\ ret' = at + HeaderSize
      /\ objs' = Append(objs, b)
      /\ base' = IF at = front THEN base ELSE Len(objs) + 1
      /\ top' = IF EndOf(b) > top THEN EndOf(b) ELSE top
      /\ active' = active
  BY <1>1 DEF PlaceStruct, Raise, DataOf, Bump, StructCharge
<1> HIDE DEF at, b
<1>8. TypeOK'
  <2>1. objs' \in Seq(Block) /\ Len(objs') = Len(objs) + 1 /\ Len(objs) \in Nat
    BY <1>0, <1>5, <1>7 DEF TypeOK
  <2>2. base' \in 1 .. Len(objs') + 1
    BY <1>0, <1>7, <2>1 DEF TypeOK
  <2>3. map' \in SUBSET Nat
    BY <1>0, <1>2, <1>5, <1>7, SetAllocMapType, MarkFromHeaderType DEF TypeOK
  <2>4. front' \in Nat /\ top' \in Nat /\ ret' \in Nat
    BY <1>0, <1>2, <1>5, <1>7 DEF TypeOK
  <2>5. used' \in 0 .. 2 * HeapSize + 3 * HeaderSize
    BY <1>0, <1>3, <1>5, <1>7 DEF TypeOK
  <2> QED BY <1>0, <1>7, <2>1, <2>2, <2>3, <2>4, <2>5 DEF TypeOK, HeapSize, Spaces
<1>9. HalfActive'
  BY <1>0, <1>7 DEF HalfActive
<1>10. FrontWithinUsed'
  BY <1>0, <1>2, <1>5, <1>7 DEF FrontWithinUsed, TypeOK
<1>11. OverrunBounded'
  BY <1>0, <1>2, <1>3, <1>5, <1>7 DEF OverrunBounded, FrontWithinUsed, TypeOK
<1>12. WindowTiles'
  BY <1>0, <1>5, <1>7, AppendKeepsWindow
<1>13. StructsInActiveSpaces'
  BY <1>0, <1>2, <1>5, <1>6, <1>7, AppendKeepsStructs
<1> QED BY <1>8, <1>9, <1>10, <1>11, <1>12, <1>13 DEF Inv

(* A request refused after the front has gone back to the start of its     *)
(* space keeps the invariant (gc.c:249-255).                               *)
LEMMA StructNoFooterRoomInv ==
  ASSUME Inv, NEW size \in StructSizes, StructNoFooterRoom(size)
  PROVE  Inv'
<1> USE HeapAssumption
<1>0. TypeOK /\ HalfActive /\ FrontWithinUsed /\ OverrunBounded /\ WindowTiles
        /\ StructsInActiveSpaces
  BY DEF Inv
<1>1. Landing(size) \in Nat /\ Landing(size) <= front
  BY <1>0, LandingInSpace DEF StructNoFooterRoom
<1>2. /\ front' = Landing(size) /\ ret' = NULL
      /\ base' = IF Landing(size) = front THEN base ELSE Len(objs) + 1
      /\ UNCHANGED <<used, active, map, objs, top>>
  BY DEF StructNoFooterRoom
<1>3. TypeOK'
  <2>1. base' \in 1 .. Len(objs') + 1
    BY <1>0, <1>2 DEF TypeOK
  <2> QED BY <1>0, <1>1, <1>2, <2>1 DEF TypeOK, NULL, HeapSize
<1>4. HalfActive' /\ FrontWithinUsed' /\ OverrunBounded'
  BY <1>0, <1>1, <1>2
     DEF HalfActive, FrontWithinUsed, OverrunBounded, HeapSize, TypeOK
<1>5. WindowTiles'
  <2>1. CASE Landing(size) = front
    BY <1>0, <1>2, <2>1 DEF WindowTiles
  <2>2. CASE Landing(size) # front
    BY <1>0, <1>2, <2>2 DEF WindowTiles, TypeOK
  <2> QED BY <2>1, <2>2
<1>6. StructsInActiveSpaces'
  BY <1>0, <1>2 DEF StructsInActiveSpaces
<1> QED BY <1>3, <1>4, <1>5, <1>6 DEF Inv

(* A raw block keeps the invariant, wherever the front is (gc.c:343-367).  *)
LEMMA RawPlacedInv ==
  ASSUME Inv, NEW bytes \in RawSizes, RawPlaced(bytes)
  PROVE  Inv'
<1> USE HeapAssumption
<1> DEFINE b == [hdr |-> front, size |-> bytes, kind |-> "raw"]
<1>0. TypeOK /\ HalfActive /\ FrontWithinUsed /\ OverrunBounded /\ WindowTiles
        /\ StructsInActiveSpaces
  BY DEF Inv
<1>1. bytes \in Nat /\ b \in Block /\ EndOf(b) \in Nat
      /\ EndOf(b) = front + bytes + 2 * HeaderSize /\ b.hdr = front /\ b.kind # "struct"
  BY <1>0 DEF Block, EndOf, Footprint, TypeOK
<1>2. HeapSize \in Nat /\ used + bytes <= HeapSize
  BY <1>0, <1>1 DEF RawPlaced, RawRoom, h_avail, h_used, HeapSize, TypeOK
<1>3. /\ front' = EndOf(b)
      /\ used' = used + ((2 * HeaderSize + bytes) + (HeaderSize + bytes))
      /\ map' = map \cup set_alloc_map(front, EndOf(b))
      /\ ret' = front + HeaderSize
      /\ objs' = Append(objs, b)
      /\ top' = IF EndOf(b) > top THEN EndOf(b) ELSE top
      /\ active' = active /\ base' = base
  BY DEF RawPlaced, Raise, DataOf, Bump, RawCharge
<1> HIDE DEF b
<1>4. TypeOK'
  <2>1. objs' \in Seq(Block) /\ Len(objs') = Len(objs) + 1 /\ Len(objs) \in Nat
    BY <1>0, <1>1, <1>3 DEF TypeOK
  <2>2. base' \in 1 .. Len(objs') + 1
    BY <1>0, <1>3, <2>1 DEF TypeOK
  <2>3. map' \in SUBSET Nat
    BY <1>0, <1>1, <1>3, SetAllocMapType DEF TypeOK
  <2>4. front' \in Nat /\ top' \in Nat /\ ret' \in Nat
    BY <1>0, <1>1, <1>3 DEF TypeOK
  <2>5. used' \in 0 .. 2 * HeapSize + 3 * HeaderSize
    BY <1>0, <1>1, <1>2, <1>3 DEF TypeOK
  <2> QED BY <1>0, <1>3, <2>1, <2>2, <2>3, <2>4, <2>5 DEF TypeOK, HeapSize, Spaces
<1>5. HalfActive'
  BY <1>0, <1>3 DEF HalfActive
<1>6. FrontWithinUsed' /\ OverrunBounded'
  BY <1>0, <1>1, <1>2, <1>3 DEF FrontWithinUsed, OverrunBounded, TypeOK, HeapSize
<1>7. WindowTiles'
  BY <1>0, <1>1, <1>3, AppendKeepsWindow
<1>8. StructsInActiveSpaces'
  BY <1>0, <1>1, <1>3, AppendKeepsStructs
<1> QED BY <1>4, <1>5, <1>6, <1>7, <1>8 DEF Inv

(* The flags are inverted twice, so the first active space is space 0.     *)
LEMMA GcResetEffect ==
  ASSUME HalfActive, GcReset
  PROVE  HalfActive' /\ front' = 0
<1> USE HeapAssumption
<1>1. active' = Flip(Flip(active))
  BY DEF GcReset
<1>2. active' = [i \in Spaces |-> i < NumSpaces \div 2]
  <2> DEFINE P(i) == i < NumSpaces \div 2
  <2>1. active = [i \in Spaces |-> P(i)]
    BY DEF HalfActive
  <2>2. \A i \in Spaces : P(i) \in BOOLEAN
    OBVIOUS
  <2> HIDE DEF P
  <2>3. Flip(active) = [i \in Spaces |-> ~P(i)]
    BY <2>1, Zenon DEF Flip
  <2>4. active' = [i \in Spaces |-> ~Flip(active)[i]]
    BY <1>1, Zenon DEF Flip
  <2>5. \A i \in Spaces : (~Flip(active)[i]) = P(i)
    BY <2>2, <2>3, Zenon
  <2>6. active' = [i \in Spaces |-> P(i)]
    BY <2>4, <2>5, Zenon
  <2> QED BY <2>6 DEF P
<1>3. 0 \in Spaces /\ \A k \in Spaces : k \in Int /\ 0 <= k
  BY DEF Spaces
<1>4. active'[0]
  <2>1. 0 < NumSpaces \div 2
    OBVIOUS
  <2> QED BY <1>2, <1>3, <2>1
<1>5. \A i \in Spaces : (\A k \in Spaces : active'[k] => i <= k) => i = 0
  BY <1>3, <1>4
<1>6. (CHOOSE i \in Spaces : active'[i] /\ \A k \in Spaces : active'[k] => i <= k) = 0
  BY <1>3, <1>4, <1>5
<1>7. front' = SpaceStart(0)
  BY <1>3, <1>4, <1>6 DEF GcReset
<1> QED BY <1>2, <1>7 DEF HalfActive, SpaceStart

(* The reset at the beginning of h_gc_dbg keeps the invariant              *)
(* (gc.c:533-553).                                                         *)
LEMMA GcResetInv ==
  ASSUME Inv, GcReset
  PROVE  Inv'
<1> USE HeapAssumption
<1>0. TypeOK /\ HalfActive
  BY DEF Inv
<1>1. HalfActive' /\ front' = 0
  BY <1>0, GcResetEffect
<1>2. used' = 0 /\ objs' = << >> /\ base' = 1 /\ UNCHANGED <<map, ret, top>>
  BY DEF GcReset
<1>3. TypeOK'
  <2>1. active' \in [Spaces -> BOOLEAN]
    BY <1>1 DEF HalfActive
  <2> QED BY <1>0, <1>1, <1>2, <2>1 DEF TypeOK, HeapSize
<1>4. FrontWithinUsed' /\ OverrunBounded'
  BY <1>1, <1>2 DEF FrontWithinUsed, OverrunBounded, HeapSize
<1>5. WindowTiles' /\ StructsInActiveSpaces'
  BY <1>2 DEF WindowTiles, StructsInActiveSpaces
<1> QED BY <1>1, <1>3, <1>4, <1>5 DEF Inv

(* The invariant does not depend on the answer of the last request.        *)
LEMMA UnchangedInv ==
  ASSUME Inv, ret' \in Nat, UNCHANGED <<front, used, active, map, objs, base, top>>
  PROVE  Inv'
BY DEF Inv, TypeOK, HalfActive, FrontWithinUsed, OverrunBounded, WindowTiles,
       StructsInActiveSpaces

(* A refused request keeps the invariant (gc.c:199-255, 331-337).          *)
LEMMA RefuseInv ==
  ASSUME Inv, Refuse
  PROVE  Inv'
BY UnchangedInv DEF Refuse, NULL

(* Every step of the allocator keeps the invariant.                        *)
LEMMA NextInv ==
  ASSUME Inv, [Next]_vars
  PROVE  Inv'
<1>1. ASSUME NEW size \in StructSizes, h_alloc_struct(size) PROVE Inv'
  <2>1. CASE StructRefused(size)
    BY <2>1, RefuseInv DEF StructRefused
  <2>2. CASE StructNoSpace(size)
    BY <2>2, RefuseInv DEF StructNoSpace
  <2>3. CASE StructNoFooterRoom(size)
    BY <2>3, StructNoFooterRoomInv
  <2>4. CASE StructPlaced(size)
    BY <2>4, StructPlacedInv
  <2> QED BY <1>1, <2>1, <2>2, <2>3, <2>4 DEF h_alloc_struct
<1>2. ASSUME NEW bytes \in RawSizes, h_alloc_raw(bytes) PROVE Inv'
  <2>1. CASE RawRefused(bytes)
    BY <2>1, RefuseInv DEF RawRefused
  <2>2. CASE RawPlaced(bytes)
    BY <2>2, RawPlacedInv
  <2> QED BY <1>2, <2>1, <2>2 DEF h_alloc_raw
<1>3. CASE h_alloc_struct_invalid
  BY <1>3, RefuseInv DEF h_alloc_struct_invalid
<1>4. CASE GcReset
  BY <1>4, GcResetInv
<1>5. CASE UNCHANGED vars
  BY <1>5, UnchangedInv DEF vars, Inv, TypeOK
<1> QED BY <1>1, <1>2, <1>3, <1>4, <1>5 DEF Next, Alloc

-----------------------------------------------------------------------------
(* The invariant holds in every reachable state. *)
THEOREM Invariance == Spec => []Inv
<1>1. Init => Inv
  BY InitInv
<1>2. Inv /\ [Next]_vars => Inv'
  BY NextInv
<1> QED BY <1>1, <1>2, PTL DEF Spec

(* Type correctness of the allocator state (gc.h:17-74). *)
THEOREM TypeCorrect == Spec => []TypeOK
<1>1. Inv => TypeOK
  BY DEF Inv
<1> QED BY <1>1, Invariance, PTL

(* Blocks placed since the front last went back tile the memory up to the  *)
(* front without gap or overlap.                                           *)
THEOREM WindowAlwaysTiled == Spec => []WindowTiles
<1>1. Inv => WindowTiles
  BY DEF Inv
<1> QED BY <1>1, Invariance, PTL

(* Every struct lies in one active space, whatever raw allocations and     *)
(* collections came before (gc.c:219-255).                                 *)
THEOREM StructsStayInActiveSpaces == Spec => []StructsInActiveSpaces
<1>1. Inv => StructsInActiveSpaces
  BY DEF Inv
<1> QED BY <1>1, Invariance, PTL

(* The unchecked read of space_is_active at gc.c:223 is within the table,  *)
(* because used_bytes never falls behind alloc_front.                      *)
THEOREM SpaceIndexAlwaysInBounds == Spec => []SpaceIndexInBounds
<1>1. Inv => SpaceIndexInBounds
  BY GrantedInHeap DEF Inv, SpaceIndexInBounds
<1> QED BY <1>1, Invariance, PTL

(* No block ends further past the heap than one header and one footer,     *)
(* although h_alloc_raw makes room for neither (gc.c:331).                 *)
THEOREM OverrunAlwaysBounded == Spec => []OverrunBounded
<1>1. Inv => OverrunBounded
  BY DEF Inv
<1> QED BY <1>1, Invariance, PTL

-----------------------------------------------------------------------------
(* A placed block is a new element of the history, at its end.             *)
LEMMA AppendedBlock ==
  ASSUME TypeOK, NEW b \in Block, objs' = Append(objs, b)
  PROVE  objs' # objs /\ Len(objs') = Len(objs) + 1 /\ objs'[Len(objs')] = b
<1>1. objs \in Seq(Block)
  BY DEF TypeOK
<1>2. Len(objs') = Len(objs) + 1 /\ objs'[Len(objs) + 1] = b /\ Len(objs) \in Nat
  BY <1>1
<1> QED BY <1>2

(* A struct is placed at the front or at the start of the space the front  *)
(* is in, and that space is active (gc.c:219-271).                         *)
LEMMA StructPlacedWhere ==
  ASSUME Inv, NEW size \in StructSizes, StructPlaced(size)
  PROVE  LET b == [hdr |-> Landing(size), size |-> size, kind |-> "struct"] IN
         /\ b \in Block /\ objs' = Append(objs, b) /\ front' = EndOf(b)
         /\ Landing(size) \in {front, SpaceStart(SpaceIndex)}
         /\ active[SpaceIndex]
<1>1. TypeOK /\ HalfActive /\ FrontWithinUsed
  BY DEF Inv
<1>2. /\ Landing(size) \in Nat /\ active[SpaceIndex]
      /\ Landing(size) \in {front, SpaceStart(SpaceIndex)}
  BY <1>1, LandingInSpace DEF StructPlaced
<1>3. size \in Nat
  BY HeapAssumption
<1> QED BY <1>2, <1>3 DEF StructPlaced, PlaceStruct, Bump, Block

(* The second test (gc.c:249-255) only refuses where the front has not     *)
(* moved: at the start of a space every struct fits.                       *)
LEMMA NoFooterRoomInPlace ==
  ASSUME Inv, NEW size \in StructSizes, StructNoFooterRoom(size)
  PROVE  front' = front /\ objs' = objs
<1> USE HeapAssumption
<1>1. TypeOK /\ HalfActive /\ FrontWithinUsed
  BY DEF Inv
<1>2. SpaceIndex \in Nat /\ Landing(size) \in {front, SpaceStart(SpaceIndex)}
  BY <1>1, LandingInSpace DEF StructNoFooterRoom, Spaces
<1>3. CASE Landing(size) = SpaceStart(SpaceIndex)
  <2>1. Landing(size) % SpaceSize = 0
    BY <1>2, <1>3, DivOfStart DEF SpaceStart
  <2>2. size \in Nat /\ size + 2 * HeaderSize <= SpaceSize
    OBVIOUS
  <2> QED BY <2>1, <2>2 DEF StructNoFooterRoom
<1> QED BY <1>2, <1>3 DEF StructNoFooterRoom

(* Between resets the front stays, or goes to the end of a block placed    *)
(* at it or at the start of its own space; it never gets to another space  *)
(* by the walk of gc.c:233-244.                                            *)
THEOREM FrontAlwaysSteps == Spec => FrontSteps
<1> DEFINE Step ==
      \/ front' = front
      \/ used' = 0
      \/ /\ objs' # objs
         /\ LET b == objs'[Len(objs')] IN
            /\ front' = EndOf(b)
            /\ b.hdr \in {front, SpaceStart(SpaceIndex)}
<1>1. Inv /\ [Next]_vars => [Step]_vars
  <2> SUFFICES ASSUME Inv, Next PROVE Step
    BY DEF vars
  <2>1. TypeOK
    BY DEF Inv
  <2>2. ASSUME NEW size \in StructSizes, h_alloc_struct(size) PROVE Step
    <3>1. CASE StructPlaced(size)
      <4> DEFINE b == [hdr |-> Landing(size), size |-> size, kind |-> "struct"]
      <4>1. /\ b \in Block /\ objs' = Append(objs, b) /\ front' = EndOf(b)
            /\ b.hdr \in {front, SpaceStart(SpaceIndex)}
        BY <3>1, StructPlacedWhere
      <4> HIDE DEF b
      <4> QED BY <2>1, <4>1, AppendedBlock
    <3>2. CASE StructNoFooterRoom(size)
      BY <2>2, <3>2, NoFooterRoomInPlace
    <3>3. CASE StructRefused(size) \/ StructNoSpace(size)
      BY <3>3 DEF StructRefused, StructNoSpace, Refuse
    <3> QED BY <2>2, <3>1, <3>2, <3>3 DEF h_alloc_struct
  <2>3. ASSUME NEW bytes \in RawSizes, h_alloc_raw(bytes) PROVE Step
    <3>1. CASE RawRefused(bytes)
      BY <3>1 DEF RawRefused, Refuse
    <3>2. CASE RawPlaced(bytes)
      <4> DEFINE b == [hdr |-> front, size |-> bytes, kind |-> "raw"]
      <4>1. b \in Block /\ b.hdr = front
        BY <2>1, HeapAssumption DEF Block, TypeOK
      <4>2. objs' = Append(objs, b) /\ front' = EndOf(b)
        BY <3>2 DEF RawPlaced, Bump
      <4> HIDE DEF b
      <4> QED BY <2>1, <4>1, <4>2, AppendedBlock
    <3> QED BY <2>3, <3>1, <3>2 DEF h_alloc_raw
  <2>4. CASE h_alloc_struct_invalid
    BY <2>4 DEF h_alloc_struct_invalid, Refuse
  <2>5. CASE GcReset
    BY <2>5 DEF GcReset
  <2> QED BY <2>2, <2>3, <2>4, <2>5 DEF Next, Alloc
<1> QED BY <1>1, Invariance, PTL DEF Spec, FrontSteps

(* Once raw blocks have pushed the front into the inactive half, nothing   *)
(* but raw blocks is placed until the heap is reset.                       *)
THEOREM NeverStructOutsideActive == Spec => NoStructOutsideActive
<1> DEFINE Step ==
      (SpaceIndex \in Spaces /\ ~active[SpaceIndex] /\ used' # 0)
        => \A i \in Len(objs) + 1 .. Len(objs') : objs'[i].kind = "raw"
<1>1. Inv /\ [Next]_vars => [Step]_vars
  <2> SUFFICES ASSUME Inv, Next PROVE Step
    BY DEF vars
  <2>1. TypeOK /\ Len(objs) \in Nat
    BY DEF Inv, TypeOK
  <2>2. CASE objs' = objs
    <3>1. Len(objs) + 1 .. Len(objs') = {}
      BY <2>1, <2>2
    <3> QED BY <3>1
  <2>3. ASSUME NEW size \in StructSizes, h_alloc_struct(size) PROVE Step
    <3>1. CASE StructPlaced(size)
      BY <3>1, StructPlacedWhere
    <3>2. CASE StructNoFooterRoom(size)
      BY <2>2, <3>2, NoFooterRoomInPlace
    <3>3. CASE StructRefused(size) \/ StructNoSpace(size)
      BY <2>2, <3>3 DEF StructRefused, StructNoSpace, Refuse
    <3> QED BY <2>3, <3>1, <3>2, <3>3 DEF h_alloc_struct
  <2>4. ASSUME NEW bytes \in RawSizes, h_alloc_raw(bytes) PROVE Step
    <3>1. CASE RawRefused(bytes)
      BY <2>2, <3>1 DEF RawRefused, Refuse
    <3>2. CASE RawPlaced(bytes)
      <4> DEFINE b == [hdr |-> front, size |-> bytes, kind |-> "raw"]
      <4>1. b \in Block /\ b.kind = "raw"
        BY <2>1, HeapAssumption DEF Block, TypeOK
      <4>2. objs' = Append(objs, b)
        BY <3>2 DEF RawPlaced
      <4> HIDE DEF b
      <4>3. objs'[Len(objs')] = b /\ Len(objs') = Len(objs) + 1
        BY <2>1, <4>1, <4>2, AppendedBlock
      <4>4. \A i \in Len(objs) + 1 .. Len(objs') : i = Len(objs')
        BY <2>1, <4>3
      <4> QED BY <4>1, <4>3, <4>4
    <3> QED BY <2>4, <3>1, <3>2 DEF h_alloc_raw
  <2>5. CASE h_alloc_struct_invalid
    BY <2>2, <2>5 DEF h_alloc_struct_invalid, Refuse
  <2>6. CASE GcReset
    BY <2>6 DEF GcReset
  <2> QED BY <2>3, <2>4, <2>5, <2>6 DEF Next, Alloc
<1> QED BY <1>1, Invariance, PTL DEF Spec, NoStructOutsideActive
-----------------------------------------------------------------------------
(* used_bytes is ahead of the front by what any one block was charged      *)
(* beyond its footprint, and is zero when there is none.                   *)
ChargedAhead ==
  /\ objs = << >> => used = 0
  /\ \A i \in 1 .. Len(objs) : front + HeaderSize + objs[i].size <= used

(* A block charged its size and three headers, wherever it is put, leaves  *)
(* used_bytes ahead of the front (gc.c:282, 323, 364-365).                 *)
LEMMA PlacedKeepsCharge ==
  ASSUME Inv, ChargedAhead, NEW b \in Block, b.hdr <= front,
         objs' = Append(objs, b), front' = EndOf(b),
         used' = used + (b.size + 2 * HeaderSize) + (b.size + HeaderSize)
  PROVE  ChargedAhead'
<1> DEFINE at == b.hdr
           size == b.size
<1>1. /\ objs \in Seq(Block) /\ Len(objs) \in Nat /\ front \in Nat /\ used \in Nat
      /\ front <= used /\ at \in Nat /\ size \in Nat /\ HeaderSize \in Nat /\ at <= front
  BY HeapAssumption DEF Inv, TypeOK, Block, FrontWithinUsed, HeapSize
<1>2. /\ Len(objs') = Len(objs) + 1 /\ objs'[Len(objs) + 1] = b
      /\ \A i \in 1 .. Len(objs) : objs'[i] = objs[i] /\ objs[i] \in Block
  BY <1>1
<1>3. /\ front' = at + size + 2 * HeaderSize
      /\ used' = used + (size + 2 * HeaderSize) + (size + HeaderSize)
  BY <1>1 DEF EndOf, Footprint
<1> HIDE DEF at, size
<1>4. front' + HeaderSize + size <= used' /\ front' - front <= used' - used
  BY <1>1, <1>3
<1>5. ASSUME NEW i \in 1 .. Len(objs') PROVE front' + HeaderSize + objs'[i].size <= used'
  <2>1. CASE i = Len(objs) + 1
    BY <1>2, <1>4, <2>1 DEF size
  <2>2. CASE i \in 1 .. Len(objs)
    <3> DEFINE n == objs[i].size
    <3>1. front + HeaderSize + n <= used /\ n \in Nat /\ objs'[i].size = n
      BY <1>2, <2>2 DEF ChargedAhead, Block
    <3> HIDE DEF n
    <3> QED BY <1>1, <1>3, <1>4, <3>1
  <2> QED BY <1>1, <1>2, <2>1, <2>2
<1>6. Len(objs') # 0
  BY <1>1, <1>2
<1> QED BY <1>5, <1>6 DEF ChargedAhead

(* As long as all blocks have at least HeaderSize bytes, only the first    *)
(* after a reset can leave the heap.  This is a fact about the charge the  *)
(* code makes, not one the tests ask for: they count a block once          *)
(* (gc_test.c:310-312), and then it would not hold.                        *)
OverrunOnlyWhenEmpty ==
  (Overrun /\ \A i \in 1 .. Len(objs) : objs[i].size >= HeaderSize) => Len(objs) = 1

(* Every step keeps used_bytes ahead, and only the first block after a     *)
(* reset gets past the end of the heap (gc.c:331-367).                     *)
LEMMA ChargeKept ==
  ASSUME Inv, ChargedAhead, OverrunOnlyWhenEmpty, [Next]_vars
  PROVE  ChargedAhead' /\ OverrunOnlyWhenEmpty'
<1> USE HeapAssumption
<1>1. TypeOK /\ FrontWithinUsed /\ HeapSize \in Nat /\ front \in Nat /\ used \in Nat
      /\ objs \in Seq(Block) /\ Len(objs) \in Nat
  BY DEF Inv, TypeOK, HeapSize
<1>2. CASE UNCHANGED <<front, used, objs>>
  BY <1>2 DEF ChargedAhead, OverrunOnlyWhenEmpty, Overrun, HeapSize
<1>3. ASSUME NEW size \in StructSizes, StructPlaced(size)
      PROVE  ChargedAhead' /\ OverrunOnlyWhenEmpty'
  <2> DEFINE b == [hdr |-> Landing(size), size |-> size, kind |-> "struct"]
  <2>1. b \in Block /\ objs' = Append(objs, b) /\ front' = EndOf(b)
    BY <1>3, StructPlacedWhere
  <2>2. Landing(size) <= front /\ Granted(size)
    BY <1>3, LandingInSpace DEF Inv, StructPlaced
  <2>3. used' = used + (b.size + 2 * HeaderSize) + (b.size + HeaderSize)
    BY <1>1, <1>3 DEF StructPlaced, PlaceStruct, StructCharge
  <2>4. ChargedAhead'
    <3>1. b.hdr <= front
      BY <2>2
    <3> HIDE DEF b
    <3> QED BY <2>1, <2>3, <3>1, PlacedKeepsCharge
  <2>5. ~Overrun'
    <3>1. Inv'
      BY <1>3, StructPlacedInv
    <3>2. EndOf(b) <= HeapSize
      <4> DEFINE n == Len(objs')
      <4>1. n \in 1 .. n /\ objs'[n] = b /\ active' = active
        BY <1>1, <1>3, <2>1, AppendedBlock DEF StructPlaced, PlaceStruct
      <4>2. b.kind = "struct"
        OBVIOUS
      <4> HIDE DEF b, n
      <4>3. /\ b.hdr \div SpaceSize \in Spaces
            /\ EndOf(b) <= SpaceStart(b.hdr \div SpaceSize) + SpaceSize
        BY <3>1, <4>1, <4>2 DEF Inv, StructsInActiveSpaces, n, EndOf, Footprint, SpaceStart, Spaces
      <4> DEFINE k == b.hdr \div SpaceSize
      <4>4. k \in Nat /\ k <= NumSpaces - 1
        BY <4>3 DEF Spaces
      <4>5. EndOf(b) <= k * SpaceSize + SpaceSize
        BY <4>3 DEF SpaceStart
      <4> HIDE DEF k
      <4>6. (k + 1) * SpaceSize <= NumSpaces * SpaceSize
            /\ (k + 1) * SpaceSize = k * SpaceSize + SpaceSize
        BY <4>4
      <4>7. EndOf(b) \in Nat /\ k * SpaceSize \in Nat
        BY <2>1, <4>4 DEF Block, EndOf, Footprint
      <4> QED BY <4>5, <4>6, <4>7 DEF HeapSize
    <3> QED BY <2>1, <3>2, <1>1, <3>1 DEF Overrun, HeapSize, Inv, TypeOK
  <2> QED BY <2>4, <2>5 DEF OverrunOnlyWhenEmpty
<1>4. ASSUME NEW bytes \in RawSizes, RawPlaced(bytes)
      PROVE  ChargedAhead' /\ OverrunOnlyWhenEmpty'
  <2> DEFINE b == [hdr |-> front, size |-> bytes, kind |-> "raw"]
  <2>1. bytes \in Nat /\ b \in Block /\ b.hdr = front /\ b.size = bytes
    BY <1>1 DEF Block
  <2>2. objs' = Append(objs, b) /\ front' = EndOf(b)
        /\ used' = used + (b.size + 2 * HeaderSize) + (b.size + HeaderSize)
    BY <1>1, <1>4, <2>1 DEF RawPlaced, Bump, RawCharge
  <2>3. used + bytes <= HeapSize
    BY <1>1, <1>4, <2>1 DEF RawPlaced, RawRoom, h_avail, h_used
  <2>4. front' = front + bytes + 2 * HeaderSize
    BY <1>1, <2>1, <2>2 DEF EndOf, Footprint
  <2> HIDE DEF b
  <2>5. ChargedAhead'
    BY <1>1, <2>1, <2>2, PlacedKeepsCharge
  <2>6. ASSUME Overrun', \A i \in 1 .. Len(objs') : objs'[i].size >= HeaderSize
        PROVE  Len(objs') = 1
    <3>1. /\ Len(objs') = Len(objs) + 1
          /\ \A i \in 1 .. Len(objs) : objs'[i] = objs[i] /\ i \in 1 .. Len(objs')
      BY <1>1, <2>1, <2>2
    <3>2. CASE Len(objs) # 0
      <4>1. 1 \in 1 .. Len(objs)
        BY <1>1, <3>2
      <4>2. front + HeaderSize + objs[1].size <= used /\ objs[1] \in Block
        BY <1>1, <4>1 DEF ChargedAhead
      <4>3. objs[1].size >= HeaderSize /\ objs[1].size \in Nat
        BY <2>6, <3>1, <4>1, <4>2 DEF Block
      <4>4. front' <= HeapSize
        BY <1>1, <2>1, <2>3, <2>4, <4>2, <4>3
      <4> QED BY <1>1, <2>1, <2>4, <2>6, <4>4 DEF Overrun, HeapSize
    <3> QED BY <3>1, <3>2
  <2> QED BY <2>5, <2>6 DEF OverrunOnlyWhenEmpty
<1>5. CASE GcReset
  <2>1. objs' = << >> /\ used' = 0
    BY <1>5 DEF GcReset
  <2>2. front' = 0
    BY <1>5, GcResetEffect DEF Inv
  <2>3. ~Overrun'
    BY <1>1, <2>2 DEF Overrun, HeapSize
  <2> QED BY <2>1, <2>3 DEF ChargedAhead, OverrunOnlyWhenEmpty
<1>6. CASE \E size \in StructSizes : h_alloc_struct(size)
  BY <1>2, <1>3, <1>6, NoFooterRoomInPlace
     DEF h_alloc_struct, StructRefused, StructNoSpace, StructNoFooterRoom, Refuse
<1>7. CASE \E bytes \in RawSizes : h_alloc_raw(bytes)
  BY <1>2, <1>4, <1>7 DEF h_alloc_raw, RawRefused, Refuse
<1>8. CASE h_alloc_struct_invalid \/ UNCHANGED vars
  BY <1>2, <1>8 DEF h_alloc_struct_invalid, Refuse, vars
<1> QED BY <1>5, <1>6, <1>7, <1>8 DEF Next, Alloc

-----------------------------------------------------------------------------
(* A block placed behind all others and inside the heap is a new region,   *)
(* and overlaps none.                                                      *)
LEMMA PlacedBehindTakes ==
  ASSUME Inv, NEW b \in Block,
         objs' = Append(objs, b), ret' = DataOf(b), EndOf(b) <= HeapSize,
         \A i \in 1 .. Len(objs) : EndOf(objs[i]) <= b.hdr
  PROVE  AsArena!Take
<1> USE HeapAssumption
<1> DEFINE n == Len(objs)
           r == [lo |-> b.hdr, hi |-> EndOf(b)]
<1>1. objs \in Seq(Block) /\ n \in Nat /\ HeaderSize \in Nat \ {0}
      /\ b.hdr \in Nat /\ b.size \in Nat
  BY DEF Inv, TypeOK, Block
<1>2. /\ Len(objs') = n + 1 /\ objs'[n + 1] = b
      /\ \A i \in 1 .. n : objs'[i] = objs[i] /\ objs[i] \in Block
  BY <1>1
<1> HIDE DEF n
<1>3. Regions' = Regions \cup {r}
  <2>1. Regions' = {[lo |-> objs'[i].hdr, hi |-> EndOf(objs'[i])] : i \in 1 .. n + 1}
    BY <1>2 DEF Regions, EndOf
  <2>2. Regions = {[lo |-> objs[i].hdr, hi |-> EndOf(objs[i])] : i \in 1 .. n}
    BY DEF Regions, n
  <2>3. \A i \in 1 .. n + 1 : i \in 1 .. n \/ i = n + 1
    BY <1>1
  <2>4. (\A i \in 1 .. n : i \in 1 .. n + 1) /\ n + 1 \in 1 .. n + 1
    BY <1>1
  <2> QED BY <1>2, <2>1, <2>2, <2>3, <2>4
<1>4. /\ r.lo = b.hdr /\ r.hi = b.hdr + b.size + 2 * HeaderSize
      /\ 0 <= r.lo /\ r.lo < r.hi /\ r.hi <= HeapSize
      /\ r.lo < ret' /\ ret' < r.hi
  BY <1>1 DEF DataOf, EndOf, Footprint
<1>5. \A s \in Regions : s.hi <= r.lo /\ s.lo < s.hi /\ s.hi \in Nat
  <2>1. ASSUME NEW i \in 1 .. n
        PROVE  EndOf(objs[i]) <= b.hdr /\ objs[i].hdr < EndOf(objs[i]) /\ EndOf(objs[i]) \in Nat
    <3>1. objs[i] \in Block /\ objs[i].hdr \in Nat /\ objs[i].size \in Nat
      BY <1>2 DEF Block
    <3>2. EndOf(objs[i]) = objs[i].hdr + (objs[i].size + 2 * HeaderSize)
      BY DEF EndOf, Footprint
    <3> QED BY <1>1, <3>1, <3>2 DEF n
  <2> QED BY <2>1, <1>4 DEF Regions, n
<1> HIDE DEF r
<1>6. r \notin Regions /\ r \in Regions' /\ \A s \in Regions : AsArena!Disjoint(r, s)
  <2>1. r \notin Regions
    <3>1. ~(r.hi <= r.lo)
      BY <1>1, <1>4
    <3> QED BY <1>5, <3>1
  <2> QED BY <1>3, <1>5, <2>1 DEF AsArena!Disjoint
<1> QED BY <1>3, <1>4, <1>6 DEF AsArena!Take

(* The allocator refines Arena until the front first goes back or a raw    *)
(* block leaves the heap: each block has bytes of its own inside the heap, *)
(* the pointer returned points into them, and a refused request changes    *)
(* nothing (gc.h:27-28, 106-136; gc.c:199-368).                            *)
THEOREM HeapImplementsArena == Spec => ImplementsArena
<1>1. Init => AsArena!Init
  <2> SUFFICES ASSUME Init PROVE AsArena!Init
    OBVIOUS
  <2>1. Len(objs) = 0
    BY DEF Init
  <2> QED BY <2>1 DEF Init, AsArena!Init, Regions
<1>2. ASSUME Inv, [Next]_vars, base' = 1, ~Overrun', ~UNCHANGED vars
      PROVE  AsArena!Next
  <2> USE HeapAssumption
  <2>1. TypeOK /\ HalfActive /\ FrontWithinUsed /\ WindowTiles
    BY <1>2 DEF Inv
  <2>2. ASSUME NEW b \in Block, objs' = Append(objs, b), front' = EndOf(b), ret' = DataOf(b),
               Len(objs) = 0 \/ (base = 1 /\ b.hdr = front)
        PROVE  AsArena!Next
    <3>1. EndOf(b) <= HeapSize
      <4>1. HeapSize \in Nat /\ EndOf(b) \in Nat /\ HeapSize' = HeapSize
        BY DEF HeapSize, EndOf, Footprint, Block
      <4> QED BY <1>2, <2>2, <4>1 DEF Overrun
    <3>2. \A i \in 1 .. Len(objs) : EndOf(objs[i]) <= b.hdr
      <4>1. Len(objs) \in Nat /\ front \in Nat
            /\ \A i \in 1 .. Len(objs) : objs[i] \in Block
        BY <2>1 DEF TypeOK
      <4>2. CASE Len(objs) = 0
        BY <4>2
      <4>3. ASSUME Len(objs) # 0, base = 1, b.hdr = front, NEW i \in 1 .. Len(objs)
            PROVE  EndOf(objs[i]) <= b.hdr
        <5> DEFINE n == Len(objs)
        <5>1. n \in base .. n /\ i \in base .. n /\ i <= n
          BY <4>1, <4>3
        <5>2. EndOf(objs[n]) = front
          BY <4>1, <4>3, <5>1, <2>1 DEF WindowTiles
        <5>3. CASE i = n
          BY <4>3, <5>2, <5>3, <4>1
        <5>4. CASE i < n
          <6>1. EndOf(objs[i]) <= objs[n].hdr
            BY <5>1, <5>4, <2>1 DEF WindowTiles
          <6>2. EndOf(objs[n]) = objs[n].hdr + (objs[n].size + 2 * HeaderSize)
                /\ objs[n].hdr \in Nat /\ objs[n].size \in Nat
                /\ EndOf(objs[i]) \in Nat
            BY <4>1, <4>3 DEF EndOf, Footprint, Block
          <6> HIDE DEF n
          <6> QED BY <4>3, <5>2, <6>1, <6>2
        <5> QED BY <4>1, <5>1, <5>3, <5>4
      <4> QED BY <2>2, <4>2, <4>3
    <3> QED BY <1>2, <2>2, <3>1, <3>2, PlacedBehindTakes DEF AsArena!Next
  <2>3. ASSUME NEW size \in StructSizes, h_alloc_struct(size) PROVE AsArena!Next
    <3>1. CASE StructRefused(size) \/ StructNoSpace(size)
      BY <3>1 DEF StructRefused, StructNoSpace, Refuse, AsArena!Next, AsArena!Decline,
                  Regions, EndOf
    <3>2. CASE StructNoFooterRoom(size)
      <4>1. ret' = NULL /\ objs' = objs
        BY <1>2, <3>2, NoFooterRoomInPlace DEF StructNoFooterRoom
      <4> QED BY <4>1 DEF AsArena!Next, AsArena!Decline, Regions, EndOf
    <3>3. CASE StructPlaced(size)
      <4> DEFINE b == [hdr |-> Landing(size), size |-> size, kind |-> "struct"]
      <4>1. b \in Block /\ objs' = Append(objs, b) /\ front' = EndOf(b)
        BY <1>2, <3>3, StructPlacedWhere
      <4>2. ret' = DataOf(b) /\ b.hdr = Landing(size)
            /\ base' = IF Landing(size) = front THEN base ELSE Len(objs) + 1
        BY <3>3 DEF StructPlaced, PlaceStruct
      <4> HIDE DEF b
      <4>3. Len(objs) = 0 \/ (base = 1 /\ b.hdr = front)
        BY <1>2, <2>1, <4>2 DEF TypeOK
      <4> QED BY <2>2, <4>1, <4>2, <4>3
    <3> QED BY <2>3, <3>1, <3>2, <3>3 DEF h_alloc_struct
  <2>4. ASSUME NEW bytes \in RawSizes, h_alloc_raw(bytes) PROVE AsArena!Next
    <3>1. CASE RawRefused(bytes)
      BY <3>1 DEF RawRefused, Refuse, AsArena!Next, AsArena!Decline, Regions, EndOf
    <3>2. CASE RawPlaced(bytes)
      <4> DEFINE b == [hdr |-> front, size |-> bytes, kind |-> "raw"]
      <4>1. b \in Block /\ b.hdr = front
        BY <2>1 DEF TypeOK, Block
      <4>2. objs' = Append(objs, b) /\ front' = EndOf(b) /\ ret' = DataOf(b) /\ base' = base
        BY <3>2 DEF RawPlaced, Bump
      <4> HIDE DEF b
      <4> QED BY <1>2, <2>2, <4>1, <4>2
    <3> QED BY <2>4, <3>1, <3>2 DEF h_alloc_raw
  <2>5. CASE h_alloc_struct_invalid
    BY <2>5 DEF h_alloc_struct_invalid, Refuse, AsArena!Next, AsArena!Decline, Regions, EndOf
  <2>6. CASE GcReset
    <3>1. objs' = << >> /\ ret' = ret /\ Len(objs') = 0
      BY <2>6 DEF GcReset
    <3> QED BY <3>1 DEF AsArena!Next, AsArena!GiveBack, Regions
  <2> QED BY <1>2, <2>3, <2>4, <2>5, <2>6 DEF Next, Alloc
<1>3. Inv /\ [Next]_vars => [base' # 1 \/ Overrun' \/ AsArena!Next]_vars
  BY <1>2
<1> QED BY <1>1, <1>3, Invariance, PTL DEF Spec, ImplementsArena

-----------------------------------------------------------------------------
(* Every block the program asks for takes F bytes with header and footer,  *)
(* and a space is a whole number of such blocks.                           *)
Uniform(F) ==
  /\ F \in Nat \ {0} /\ SpaceSize % F = 0
  /\ \A size \in StructSizes \cup RawSizes : Footprint(size) = F

(* Then the front never goes back: block i is the i-th stretch of F bytes. *)
Stacked(F) ==
  /\ front = Len(objs) * F /\ front <= HeapSize
  /\ \A i \in 1 .. Len(objs) : objs[i].hdr = (i - 1) * F /\ EndOf(objs[i]) = i * F

(* What lies below a multiple of F has room for F bytes.                   *)
LEMMA RoomForOne ==
  ASSUME NEW F \in Nat \ {0}, NEW n \in Nat, NEW k \in Nat, n * F < k * F
  PROVE  n * F + F <= k * F
<1>1. n < k
  <2>1. SUFFICES ASSUME n >= k PROVE FALSE
    OBVIOUS
  <2>2. n * F >= k * F
    BY <2>1
  <2>3. n * F \in Nat /\ k * F \in Nat
    OBVIOUS
  <2> QED BY <2>2, <2>3
<1>2. (n + 1) * F <= k * F
  BY <1>1
<1> QED BY <1>2

(* A space ends at a multiple of F, and so does the heap.                  *)
LEMMA SpaceEnds ==
  ASSUME NEW F, Uniform(F), NEW i \in Nat
  PROVE  \E k \in Nat : i * SpaceSize = k * F
<1> USE HeapAssumption DEF Uniform
<1> DEFINE c == SpaceSize \div F
<1>1. c \in Nat /\ SpaceSize = c * F + (SpaceSize % F)
  BY DivBounds
<1>2. SpaceSize = c * F
  BY <1>1
<1> HIDE DEF c
<1>3. i * SpaceSize = (i * c) * F /\ i * c \in Nat
  BY <1>1, <1>2
<1> QED BY <1>3

(* A block placed at the front is a new region, and overlaps none.         *)
LEMMA PlacedTakes ==
  ASSUME Inv, NEW F, Uniform(F), Stacked(F), NEW b \in Block,
         b.hdr = front, EndOf(b) = front + F, front < HeapSize,
         objs' = Append(objs, b), front' = EndOf(b), ret' = DataOf(b)
  PROVE  Stacked(F)' /\ AsArena!Take
<1> USE HeapAssumption
<1> DEFINE n == Len(objs)
<1>1. /\ F \in Nat \ {0} /\ front \in Nat /\ objs \in Seq(Block) /\ n \in Nat
      /\ HeapSize \in Nat /\ HeaderSize \in Nat \ {0}
      /\ NumSpaces \in Nat
  BY DEF Uniform, Inv, TypeOK, HeapSize
<1>2. front + F <= HeapSize
  <2>1. PICK k \in Nat : NumSpaces * SpaceSize = k * F
    BY <1>1, SpaceEnds
  <2>2. HeapSize = k * F /\ front = n * F
    BY <2>1 DEF HeapSize, Stacked
  <2> QED BY <1>1, <2>2, RoomForOne
<1>3. /\ Len(objs') = n + 1 /\ objs'[n + 1] = b
      /\ \A i \in 1 .. n : objs'[i] = objs[i]
  BY <1>1
<1> HIDE DEF n
<1>4. n * F + F = (n + 1) * F /\ (n + 1) - 1 = n
  BY <1>1
<1>5. Stacked(F)'
  <2>1. front' = Len(objs') * F /\ front' <= HeapSize
    BY <1>2, <1>3, <1>4 DEF Stacked, n
  <2>2. ASSUME NEW i \in 1 .. n + 1
        PROVE  objs'[i].hdr = (i - 1) * F /\ EndOf(objs'[i]) = i * F
    <3>1. CASE i \in 1 .. n
      <4>1. objs[i].hdr = (i - 1) * F /\ EndOf(objs[i]) = i * F /\ objs'[i] = objs[i]
        BY <1>3, <3>1 DEF Stacked, n
      <4> QED BY <4>1 DEF EndOf
    <3>2. CASE i = n + 1
      <4>1. front = n * F
        BY DEF Stacked, n
      <4> QED BY <1>3, <1>4, <3>2, <4>1
    <3>3. i \in 1 .. n \/ i = n + 1
      BY <1>1
    <3> QED BY <3>1, <3>2, <3>3
  <2> QED BY <1>3, <2>1, <2>2 DEF Stacked, EndOf, HeapSize
<1>6. AsArena!Take
  <2>1. ASSUME NEW i \in 1 .. n PROVE EndOf(objs[i]) <= front
    <3>1. EndOf(objs[i]) = i * F /\ front = n * F
      BY DEF Stacked, n
    <3>2. i * F <= n * F
      BY <1>1
    <3> QED BY <3>1, <3>2
  <2>2. EndOf(b) <= HeapSize
    BY <1>2
  <2> QED BY <2>1, <2>2, PlacedBehindTakes DEF n
<1> QED BY <1>5, <1>6

(* A refusal leaves the regions alone.                                     *)
LEMMA RefusalDeclines ==
  ASSUME NEW F, Stacked(F), ret' = NULL, UNCHANGED <<front, objs>>
  PROVE  Stacked(F)' /\ AsArena!Decline
BY DEF Stacked, AsArena!Decline, Regions, EndOf, HeapSize

(* Struct requests: the front is where the header goes, for the rest of    *)
(* its space is a whole number of blocks.                                  *)
LEMMA StructTakes ==
  ASSUME Inv, NEW F, Uniform(F), Stacked(F), NEW size \in StructSizes, h_alloc_struct(size)
  PROVE  Stacked(F)' /\ AsArena!Next
<1> USE HeapAssumption
<1>1. CASE StructRefused(size) \/ StructNoSpace(size)
  BY <1>1, RefusalDeclines DEF StructRefused, StructNoSpace, Refuse, AsArena!Next
<1>2. CASE StructNoFooterRoom(size)
  <2>1. ret' = NULL /\ UNCHANGED <<front, objs>>
    BY <1>2, NoFooterRoomInPlace DEF StructNoFooterRoom
  <2> QED BY <2>1, RefusalDeclines DEF AsArena!Next
<1>3. CASE StructPlaced(size)
  <2> DEFINE b == [hdr |-> Landing(size), size |-> size, kind |-> "struct"]
             e == (SpaceIndex + 1) * SpaceSize
  <2>1. /\ b \in Block /\ objs' = Append(objs, b) /\ front' = EndOf(b)
        /\ active[SpaceIndex]
    BY <1>3, StructPlacedWhere
  <2>2. ret' = DataOf(b)
    BY <1>3 DEF StructPlaced, PlaceStruct
  <2>3. Footprint(size) = F /\ F \in Nat \ {0} /\ size \in Nat
    BY DEF Uniform
  <2>4. TypeOK /\ FrontWithinUsed /\ Granted(size) /\ front \in Nat
    BY <1>3 DEF Inv, StructPlaced, TypeOK
  <2>5. front < HeapSize /\ SpaceIndex \in Nat
    BY <2>4, GrantedInHeap DEF Spaces
  <2>6. front < e /\ e = SpaceStart(SpaceIndex) + SpaceSize
    BY <2>4, <2>5, DivBounds DEF SpaceIndex, SpaceStart
  <2>7. front + F <= e
    <3>1. SpaceIndex + 1 \in Nat
      BY <2>5
    <3>2. PICK k \in Nat : e = k * F
      <4> DEFINE i == SpaceIndex + 1
      <4>1. i \in Nat
        BY <3>1
      <4> HIDE DEF i
      <4>2. \E k \in Nat : i * SpaceSize = k * F
        BY <4>1, SpaceEnds
      <4> QED BY <4>2 DEF i
    <3>3. front = Len(objs) * F /\ Len(objs) \in Nat
      BY DEF Stacked, Inv, TypeOK
    <3> HIDE DEF e
    <3> QED BY <2>3, <2>6, <3>2, <3>3, RoomForOne
  <2>8. StructFits(size)
    <3>1. size + HeaderSize <= F
      BY <2>3 DEF Footprint
    <3>2. /\ e \in Int /\ SpaceStart(SpaceIndex) \in Int
          /\ SpaceStart(SpaceIndex) + SpaceSize = e
      BY <2>5, <2>6 DEF SpaceStart
    <3> HIDE DEF e
    <3>3. size + HeaderSize <= e - front
      BY <2>3, <2>4, <2>7, <3>1, <3>2
    <3> QED BY <2>4, <3>2, <3>3 DEF StructFits
  <2>9. Landing(size) = front
    BY <2>1, <2>8 DEF Landing
  <2>10. b.hdr = front /\ EndOf(b) = front + F
    BY <2>3, <2>9 DEF EndOf
  <2> HIDE DEF b
  <2> QED BY <2>1, <2>2, <2>5, <2>10, PlacedTakes DEF AsArena!Next
<1> QED BY <1>1, <1>2, <1>3 DEF h_alloc_struct

(* Raw requests: no room is tested for, but a whole block is left.         *)
LEMMA RawTakes ==
  ASSUME Inv, NEW F, Uniform(F), Stacked(F), NEW bytes \in RawSizes, h_alloc_raw(bytes)
  PROVE  Stacked(F)' /\ AsArena!Next
<1> USE HeapAssumption
<1>1. CASE RawRefused(bytes)
  BY <1>1, RefusalDeclines DEF RawRefused, Refuse, AsArena!Next
<1>2. CASE RawPlaced(bytes)
  <2> DEFINE b == [hdr |-> front, size |-> bytes, kind |-> "raw"]
  <2>1. /\ objs' = Append(objs, b) /\ front' = EndOf(b) /\ ret' = DataOf(b)
        /\ RawRoom(bytes)
    BY <1>2 DEF RawPlaced, Bump
  <2>2. Footprint(bytes) = F /\ F \in Nat \ {0} /\ bytes \in Nat
    BY DEF Uniform
  <2>3. front \in Nat /\ used \in Nat /\ front <= used /\ HeapSize \in Nat
    BY DEF Inv, TypeOK, FrontWithinUsed, HeapSize
  <2>4. b \in Block /\ b.hdr = front /\ EndOf(b) = front + F
    BY <2>2, <2>3 DEF Block, EndOf
  <2>5. front < HeapSize
    BY <2>1, <2>2, <2>3 DEF RawRoom, h_avail, h_used
  <2> HIDE DEF b
  <2> QED BY <2>1, <2>4, <2>5, PlacedTakes DEF AsArena!Next
<1> QED BY <1>1, <1>2 DEF h_alloc_raw

(* A collection gives all regions back. *)
LEMMA ResetGivesBack ==
  ASSUME Inv, NEW F, Uniform(F), GcReset
  PROVE  Stacked(F)' /\ AsArena!Next
<1> USE HeapAssumption
<1>1. front' = 0 /\ objs' = << >> /\ ret' = ret
  BY GcResetEffect DEF Inv, GcReset
<1>2. Len(objs') = 0 /\ HeapSize \in Nat /\ F \in Nat
  BY <1>1 DEF HeapSize, Uniform
<1>3. Stacked(F)'
  BY <1>1, <1>2 DEF Stacked, HeapSize
<1>4. Regions' = {}
  BY <1>2 DEF Regions
<1> QED BY <1>1, <1>3, <1>4 DEF AsArena!Next, AsArena!GiveBack

(* For every block size that divides a space the allocator refines Arena   *)
(* with nothing exempt: the front never goes back, and no block leaves the *)
(* heap (gc.h:27-28, 106-136; gc.c:199-368).                               *)
THEOREM UniformImplementsArena ==
  ASSUME NEW F, Uniform(F)
  PROVE  Spec => ArenaSpec
<1>1. Init => Stacked(F) /\ AsArena!Init
  <2> SUFFICES ASSUME Init PROVE Stacked(F) /\ AsArena!Init
    OBVIOUS
  <2>1. Len(objs) = 0 /\ HeapSize \in Nat /\ F \in Nat
    BY HeapAssumption DEF Init, HeapSize, Uniform
  <2> QED BY <2>1 DEF Init, Stacked, AsArena!Init, Regions
<1>2. Inv /\ Stacked(F) /\ [Next]_vars => Stacked(F)' /\ [AsArena!Next]_(AsArena!arena)
  <2> SUFFICES ASSUME Inv, Stacked(F), [Next]_vars
               PROVE  Stacked(F)' /\ (AsArena!Next \/ UNCHANGED <<Regions, ret>>)
    BY DEF AsArena!arena
  <2>1. ASSUME NEW size \in StructSizes, h_alloc_struct(size)
        PROVE  Stacked(F)' /\ AsArena!Next
    BY <2>1, StructTakes
  <2>2. ASSUME NEW bytes \in RawSizes, h_alloc_raw(bytes)
        PROVE  Stacked(F)' /\ AsArena!Next
    BY <2>2, RawTakes
  <2>3. CASE h_alloc_struct_invalid
    BY <2>3, RefusalDeclines DEF h_alloc_struct_invalid, Refuse, AsArena!Next
  <2>4. CASE GcReset
    BY <2>4, ResetGivesBack
  <2>5. CASE UNCHANGED vars
    BY <2>5 DEF vars, Stacked, Regions, EndOf, HeapSize
  <2> QED BY <2>1, <2>2, <2>3, <2>4, <2>5 DEF Next, Alloc
<1> QED BY <1>1, <1>2, Invariance, PTL DEF Spec, ArenaSpec, AsArena!Spec

-----------------------------------------------------------------------------
(* The allocation map: the pointers the program holds are recognised, and  *)
(* nothing beyond what was ever allocated is.                              *)

(* Addresses a segment apart are in different segments.                    *)
LEMMA SegmentBelow ==
  ASSUME NEW a \in Nat, NEW b \in Nat, NEW s \in Nat \ {0}, a + s <= b
  PROVE  a \div s < b \div s
<1> DEFINE p == a \div s
           q == b \div s
<1>1. p \in Nat /\ q \in Nat /\ p * s <= a /\ b < q * s + s
  BY DivBounds
<1> HIDE DEF p, q
<1>2. ASSUME q <= p PROVE FALSE
  <2>1. q * s <= p * s /\ q * s \in Nat /\ p * s \in Nat
    BY <1>1, <1>2
  <2> QED BY <1>1, <2>1
<1> QED BY <1>1, <1>2 DEF p, q

(* Segments are in the order of their addresses.                           *)
LEMMA SegmentOrder ==
  ASSUME NEW a \in Nat, NEW b \in Nat, NEW s \in Nat \ {0}, a <= b
  PROVE  a \div s <= b \div s
<1> DEFINE p == a \div s
           q == b \div s
<1>1. p \in Nat /\ q \in Nat /\ p * s <= a /\ b < q * s + s
  BY DivBounds
<1> HIDE DEF p, q
<1>2. ASSUME q + 1 <= p PROVE FALSE
  <2>1. (q + 1) * s <= p * s /\ (q + 1) * s = q * s + s
    BY <1>1, <1>2
  <2>2. q * s \in Nat /\ p * s \in Nat
    BY <1>1
  <2> QED BY <1>1, <2>1, <2>2
<1> QED BY <1>1, <1>2 DEF p, q

(* A space is a whole number of segments (gc.c:25, common.h:19).           *)
LEMMA WholeSegments ==
  /\ SpaceSize \div SegSize \in Nat
  /\ SpaceSize = (SpaceSize \div SegSize) * SegSize
<1>1. SpaceSize \in Nat /\ SegSize \in Nat \ {0} /\ SpaceSize % SegSize = 0
  BY HeapAssumption, SegmentAssumption
<1>2. /\ SpaceSize \div SegSize \in Nat
      /\ SpaceSize = (SpaceSize \div SegSize) * SegSize + (SpaceSize % SegSize)
  BY <1>1, DivBounds
<1>3. (SpaceSize \div SegSize) * SegSize \in Nat
  BY <1>1, <1>2
<1> QED BY <1>1, <1>2, <1>3

(* An address less than a segment above the start of segment m is in it.   *)
LEMMA OffsetInSegment ==
  ASSUME NEW m \in Nat, NEW s \in Nat \ {0}, NEW r \in 0 .. s - 1
  PROVE  (m * s + r) \div s = m
<1> DEFINE x == m * s + r
           q == x \div s
<1>1. m * s \in Nat /\ x \in Nat
  OBVIOUS
<1>2. q \in Nat /\ q * s <= x /\ x < q * s + s
  BY <1>1, DivBounds
<1>3. (m * s) \div s = m
  BY DivOfStart
<1>4. m <= q
  BY <1>1, <1>3, SegmentOrder
<1> HIDE DEF q
<1>5. ASSUME m + 1 <= q PROVE FALSE
  <2>1. (m + 1) * s <= q * s /\ (m + 1) * s = m * s + s
    BY <1>2, <1>5
  <2>2. q * s \in Nat
    BY <1>2
  <2> QED BY <1>1, <1>2, <2>1, <2>2
<1> QED BY <1>2, <1>4, <1>5 DEF q

(* What set_alloc_map marks begins before the end address (gc.c:146-162).  *)
LEMMA MarkedBelowEnd ==
  ASSUME NEW a \in Nat, NEW b \in Nat, NEW i \in set_alloc_map(a, b)
  PROVE  i * SegSize < b
<1> USE HeapAssumption
<1> DEFINE q == b \div SegSize
<1>1. i \in Nat /\ i + 1 <= q /\ q \in Nat /\ q * SegSize <= b
  BY DivBounds DEF set_alloc_map
<1> HIDE DEF q
<1>2. (i + 1) * SegSize <= q * SegSize /\ (i + 1) * SegSize = i * SegSize + SegSize
  BY <1>1
<1>3. i * SegSize \in Nat /\ q * SegSize \in Nat
  BY <1>1
<1> QED BY <1>1, <1>2, <1>3

(* What the second loop of h_alloc_struct marks begins before the end of   *)
(* the block (gc.c:285-322).                                               *)
LEMMA MarkedBelowBlock ==
  ASSUME NEW hdr \in Nat, NEW size \in Nat, NEW i \in MarkFromHeader(hdr, size)
  PROVE  i * SegSize < hdr + Footprint(size)
<1> USE HeapAssumption
<1> DEFINE first == (hdr + HeaderSize - 1) \div SegSize
           count == (size + HeaderSize + SegSize - 1) \div SegSize
<1>1. hdr + HeaderSize - 1 \in Nat /\ size + HeaderSize + SegSize - 1 \in Nat
  OBVIOUS
<1>2. /\ first \in Nat /\ first * SegSize <= hdr + HeaderSize - 1
      /\ count \in Nat /\ count * SegSize <= size + HeaderSize + SegSize - 1
  BY <1>1, DivBounds
<1>3. i \in first .. first + count /\ i < first + count
  BY DEF MarkFromHeader
<1> HIDE DEF first, count
<1>4. /\ (i + 1) * SegSize <= (first + count) * SegSize
      /\ (i + 1) * SegSize = i * SegSize + SegSize
      /\ (first + count) * SegSize = first * SegSize + count * SegSize
  BY <1>2, <1>3
<1>5. i * SegSize \in Nat /\ first * SegSize \in Nat /\ count * SegSize \in Nat
  BY <1>2, <1>3
<1> QED BY <1>2, <1>4, <1>5 DEF Footprint

(* Marking from the front to the end of a block that begins there marks    *)
(* the segment of its data.                                                *)
LEMMA DataMarkedFromFront ==
  ASSUME NEW hdr \in Nat, NEW size \in Nat, size >= HeaderSize
  PROVE  (hdr + HeaderSize) \div SegSize \in set_alloc_map(hdr, hdr + Footprint(size))
<1> USE HeapAssumption, SegmentAssumption
<1> DEFINE d == hdr + HeaderSize
           e == hdr + Footprint(size)
<1>1. d \in Nat /\ e \in Nat /\ d + SegSize <= e /\ hdr <= d
  BY DEF Footprint
<1> HIDE DEF d, e
<1>2. /\ hdr \div SegSize <= d \div SegSize /\ d \div SegSize < e \div SegSize
      /\ hdr \div SegSize \in Nat /\ d \div SegSize \in Nat /\ e \div SegSize \in Nat
  BY <1>1, SegmentBelow, SegmentOrder, DivBounds
<1> QED BY <1>2 DEF set_alloc_map, d, e

(* The second loop marks the segment of the data of a block at the start   *)
(* of a space, where set_alloc_map, called with the old front, may not.    *)
LEMMA DataMarkedAtStart ==
  ASSUME NEW n \in Nat, NEW size \in Nat
  PROVE  (SpaceStart(n) + HeaderSize) \div SegSize \in MarkFromHeader(SpaceStart(n), size)
<1> USE HeapAssumption
<1> DEFINE k == SpaceSize \div SegSize
           m == n * k
           hdr == SpaceStart(n)
           count == (size + HeaderSize + SegSize - 1) \div SegSize
<1>1. k \in Nat /\ SpaceSize = k * SegSize
  BY WholeSegments
<1>2. m \in Nat /\ hdr = m * SegSize
  <2>1. n * (k * SegSize) = (n * k) * SegSize
    BY <1>1
  <2> QED BY <1>1, <2>1 DEF SpaceStart
<1>3. count >= 1 /\ count \in Nat
  <2>1. size + HeaderSize + SegSize - 1 \in Nat /\ SegSize <= size + HeaderSize + SegSize - 1
    OBVIOUS
  <2>2. 0 + SegSize <= size + HeaderSize + SegSize - 1 /\ 0 \div SegSize = 0
    BY <2>1
  <2>3. 0 \div SegSize < count
    BY <2>1, <2>2, SegmentBelow
  <2> QED BY <2>1, <2>2, <2>3, DivBounds
<1> HIDE DEF k, m, count
<1>5. /\ (hdr + HeaderSize) \div SegSize = m
      /\ (hdr + HeaderSize - 1) \div SegSize = m
  <2>1. HeaderSize \in 0 .. SegSize - 1 /\ HeaderSize - 1 \in 0 .. SegSize - 1
    BY SegmentAssumption
  <2>2. m * SegSize \in Nat
    BY <1>2
  <2>3. hdr + HeaderSize = m * SegSize + HeaderSize
        /\ hdr + HeaderSize - 1 = m * SegSize + (HeaderSize - 1)
    BY <1>2, <2>2
  <2> QED BY <1>2, <2>1, <2>3, OffsetInSegment
<1>6. m \in m .. m + count /\ m < m + count
  BY <1>2, <1>3
<1> QED BY <1>5, <1>6 DEF MarkFromHeader, count
-----------------------------------------------------------------------------
(* No block reaches above top, and top is in the heap until an overrun.    *)
BlocksBelowTop ==
  /\ \A i \in 1 .. Len(objs) : EndOf(objs[i]) <= top
  /\ Overrun \/ top <= HeapSize

(* The segment of the data of every block is marked.                       *)
DataMarked ==
  \A i \in 1 .. Len(objs) :
    objs[i].size >= HeaderSize => DataOf(objs[i]) \div SegSize \in map

(* The inductive invariant of the map, on top of that of the allocator.    *)
MapInv == MapBelowTop /\ BlocksBelowTop /\ DataMarked

(* A placed block keeps the invariant, if what is marked for it begins     *)
(* below its end and includes the segment of its data.                     *)
LEMMA PlacedKeepsMap ==
  ASSUME Inv, MapInv, ~Overrun, NEW b \in Block, NEW marked,
         objs' = Append(objs, b), front' = EndOf(b), Raise(EndOf(b)),
         map' = map \cup marked,
         \A i \in marked : i \in Nat /\ i * SegSize < EndOf(b),
         b.size >= HeaderSize => DataOf(b) \div SegSize \in marked
  PROVE  MapInv'
<1> USE HeapAssumption
<1>1. /\ objs \in Seq(Block) /\ Len(objs) \in Nat /\ top \in Nat
      /\ map \subseteq Nat /\ EndOf(b) \in Nat
  BY DEF Inv, TypeOK, Block, EndOf, Footprint
<1>2. top' \in Nat /\ top <= top' /\ EndOf(b) <= top'
      /\ (top' = top \/ top' = EndOf(b))
  BY <1>1 DEF Raise
<1>3. MapBelowTop'
  <2>1. ASSUME NEW i \in map PROVE i * SegSize < top'
    <3>1. i * SegSize < top /\ i * SegSize \in Nat
      BY <1>1 DEF MapInv, MapBelowTop
    <3> QED BY <1>1, <1>2, <3>1
  <2>2. ASSUME NEW i \in marked PROVE i * SegSize < top'
    <3>1. i * SegSize < EndOf(b) /\ i * SegSize \in Nat
      OBVIOUS
    <3> QED BY <1>1, <1>2, <3>1
  <2> QED BY <2>1, <2>2 DEF MapBelowTop
<1>4. /\ Len(objs') = Len(objs) + 1 /\ objs'[Len(objs) + 1] = b
      /\ \A i \in 1 .. Len(objs) : objs'[i] = objs[i]
  BY <1>1
<1>5. \A i \in 1 .. Len(objs') : i \in 1 .. Len(objs) \/ i = Len(objs) + 1
  BY <1>1, <1>4
<1>6. BlocksBelowTop'
  <2>1. ASSUME NEW i \in 1 .. Len(objs) PROVE EndOf(objs'[i]) <= top'
    <3>1. EndOf(objs[i]) <= top /\ objs[i] \in Block
      BY <1>1 DEF MapInv, BlocksBelowTop
    <3>2. EndOf(objs[i]) \in Nat
      BY <3>1 DEF Block, EndOf, Footprint
    <3> QED BY <1>1, <1>2, <1>4, <3>1, <3>2
  <2>2. \A i \in 1 .. Len(objs') : EndOf(objs'[i]) <= top'
    BY <1>2, <1>4, <1>5, <2>1
  <2>3. Overrun' \/ top' <= HeapSize
    <3>1. HeapSize \in Nat /\ top <= HeapSize
      BY DEF HeapSize, MapInv, BlocksBelowTop
    <3> QED BY <1>1, <1>2, <3>1 DEF Overrun, HeapSize
  <2> QED BY <2>2, <2>3 DEF BlocksBelowTop, EndOf, Footprint, HeapSize
<1>7. DataMarked'
  <2>1. ASSUME NEW i \in 1 .. Len(objs), objs'[i].size >= HeaderSize
        PROVE  DataOf(objs'[i]) \div SegSize \in map'
    BY <1>4, <2>1 DEF MapInv, DataMarked
  <2> QED BY <1>4, <1>5, <2>1 DEF DataMarked, DataOf
<1> QED BY <1>3, <1>6, <1>7 DEF MapInv

(* A struct that is placed: at the front, set_alloc_map marks its data; at *)
(* the start of a space, the second loop does (gc.c:281-322).              *)
LEMMA StructPlacedMap ==
  ASSUME Inv, MapInv, ~Overrun, NEW size \in StructSizes, StructPlaced(size)
  PROVE  MapInv'
<1> USE HeapAssumption
<1> DEFINE at == Landing(size)
           b == [hdr |-> at, size |-> size, kind |-> "struct"]
           marked == set_alloc_map(front, EndOf(b)) \cup MarkFromHeader(at, size)
<1>1. /\ b \in Block /\ objs' = Append(objs, b) /\ front' = EndOf(b)
      /\ at \in {front, SpaceStart(SpaceIndex)}
  BY StructPlacedWhere
<1>2. at \in Nat /\ size \in Nat /\ front \in Nat /\ SpaceIndex \in Nat
  BY <1>1, DivBounds DEF Block, Inv, TypeOK, SpaceIndex
<1>3. map' = map \cup marked /\ Raise(EndOf(b))
  BY DEF StructPlaced, PlaceStruct
<1>4. EndOf(b) = at + Footprint(size) /\ DataOf(b) = at + HeaderSize /\ EndOf(b) \in Nat
  BY <1>2 DEF EndOf, DataOf, Footprint
<1>5. ASSUME NEW i \in marked PROVE i \in Nat /\ i * SegSize < EndOf(b)
  <2>1. CASE i \in set_alloc_map(front, EndOf(b))
    BY <1>2, <1>4, <2>1, MarkedBelowEnd, SetAllocMapType
  <2>2. CASE i \in MarkFromHeader(at, size)
    BY <1>2, <1>4, <2>2, MarkedBelowBlock, MarkFromHeaderType
  <2> QED BY <2>1, <2>2
<1>6. ASSUME size >= HeaderSize PROVE DataOf(b) \div SegSize \in marked
  <2>1. CASE at = front
    BY <1>2, <1>4, <1>6, <2>1, DataMarkedFromFront
  <2>2. CASE at = SpaceStart(SpaceIndex)
    BY <1>2, <1>4, <2>2, DataMarkedAtStart
  <2> QED BY <1>1, <2>1, <2>2
<1>7. b.size >= HeaderSize => DataOf(b) \div SegSize \in marked
  BY <1>6
<1> HIDE DEF b, marked
<1> QED BY <1>1, <1>3, <1>5, <1>7, PlacedKeepsMap

(* A raw block always begins at the front (gc.c:339-363).                  *)
LEMMA RawPlacedMap ==
  ASSUME Inv, MapInv, ~Overrun, NEW bytes \in RawSizes, RawPlaced(bytes)
  PROVE  MapInv'
<1> USE HeapAssumption
<1> DEFINE b == [hdr |-> front, size |-> bytes, kind |-> "raw"]
           marked == set_alloc_map(front, EndOf(b))
<1>1. front \in Nat /\ bytes \in Nat /\ b \in Block
  BY DEF Inv, TypeOK, Block
<1>2. /\ objs' = Append(objs, b) /\ front' = EndOf(b)
      /\ map' = map \cup marked /\ Raise(EndOf(b))
  BY DEF RawPlaced, Bump
<1>3. EndOf(b) = front + Footprint(bytes) /\ DataOf(b) = front + HeaderSize
      /\ EndOf(b) \in Nat
  BY <1>1 DEF EndOf, DataOf, Footprint
<1>4. \A i \in marked : i \in Nat /\ i * SegSize < EndOf(b)
  BY <1>1, <1>3, MarkedBelowEnd, SetAllocMapType
<1>5. b.size >= HeaderSize => DataOf(b) \div SegSize \in marked
  BY <1>1, <1>3, DataMarkedFromFront
<1> HIDE DEF b, marked
<1> QED BY <1>1, <1>2, <1>4, <1>5, PlacedKeepsMap

(* Every step of the allocator keeps the invariant of the map.             *)
LEMMA MapInvKept == Inv /\ MapInv /\ [Next]_vars => MapInv'
<1> SUFFICES ASSUME Inv, MapInv, [Next]_vars PROVE MapInv'
  OBVIOUS
<1>1. CASE UNCHANGED <<front, map, objs, top>>
  BY <1>1 DEF MapInv, MapBelowTop, BlocksBelowTop, DataMarked, Overrun
<1>2. ASSUME NEW size \in StructSizes, h_alloc_struct(size) PROVE MapInv'
  <2>1. CASE StructPlaced(size)
    BY <1>2, <2>1, StructPlacedMap DEF h_alloc_struct
  <2>2. CASE StructNoFooterRoom(size)
    BY <1>1, <2>2, NoFooterRoomInPlace DEF StructNoFooterRoom
  <2>3. CASE StructRefused(size) \/ StructNoSpace(size)
    BY <1>1, <2>3 DEF StructRefused, StructNoSpace, Refuse
  <2> QED BY <1>2, <2>1, <2>2, <2>3 DEF h_alloc_struct
<1>3. ASSUME NEW bytes \in RawSizes, h_alloc_raw(bytes) PROVE MapInv'
  <2>1. CASE RawPlaced(bytes)
    BY <1>3, <2>1, RawPlacedMap DEF h_alloc_raw
  <2>2. CASE RawRefused(bytes)
    BY <1>1, <2>2 DEF RawRefused, Refuse
  <2> QED BY <1>3, <2>1, <2>2 DEF h_alloc_raw
<1>4. CASE h_alloc_struct_invalid
  BY <1>1, <1>4 DEF h_alloc_struct_invalid, Refuse
<1>5. CASE GcReset
  <2>1. objs' = << >> /\ map' = map /\ top' = top /\ ~Overrun
    BY <1>5 DEF GcReset
  <2>2. Len(objs') = 0
    BY <2>1
  <2> QED BY <2>1, <2>2 DEF MapInv, MapBelowTop, BlocksBelowTop, DataMarked, Overrun, HeapSize
<1>6. CASE UNCHANGED vars
  BY <1>1, <1>6 DEF vars
<1> QED BY <1>2, <1>3, <1>4, <1>5, <1>6 DEF Next, Alloc

(* It holds in every reachable state. *)
LEMMA MapInvariance == Spec => []MapInv
<1>1. Init => MapInv
  <2> SUFFICES ASSUME Init PROVE MapInv
    OBVIOUS
  <2>1. HeapSize \in Nat /\ Len(objs) = 0
    BY HeapAssumption DEF HeapSize, Init
  <2> QED BY <2>1 DEF Init, MapInv, MapBelowTop, BlocksBelowTop, DataMarked
<1> QED BY <1>1, MapInvKept, Invariance, PTL DEF Spec

(* No bit is set for a segment above everything ever allocated.            *)
THEOREM MapAlwaysBelowTop == Spec => []MapBelowTop
<1>1. MapInv => MapBelowTop
  BY DEF MapInv
<1> QED BY <1>1, MapInvariance, PTL

(* validate_ptr accepts the pointer to every block of at least a header's  *)
(* size, for every heap and every sequence of requests and collections     *)
(* (gc.c:281-322, 363, traverse_stack.c:59-73).                            *)
THEOREM DataAlwaysMapped == Spec => []DataPointerMapped
<1>1. Inv /\ MapInv => DataPointerMapped
  <2> SUFFICES ASSUME Inv, MapInv, ~Overrun, NEW i \in 1 .. Len(objs),
                      objs[i].size >= HeaderSize
               PROVE  validate_ptr(DataOf(objs[i]))
    BY DEF DataPointerMapped
  <2> USE HeapAssumption
  <2>1. objs[i] \in Block /\ top \in Nat /\ HeapSize \in Nat
    BY DEF Inv, TypeOK, HeapSize
  <2>2. EndOf(objs[i]) <= top /\ top <= HeapSize
    BY DEF MapInv, BlocksBelowTop
  <2>3. DataOf(objs[i]) <= EndOf(objs[i])
    BY <2>1 DEF Block, DataOf, EndOf, Footprint
  <2>4. DataOf(objs[i]) \in Nat /\ EndOf(objs[i]) \in Nat
    BY <2>1 DEF Block, DataOf, EndOf, Footprint
  <2>5. DataOf(objs[i]) \div SegSize \in map
    BY DEF MapInv, DataMarked
  <2> QED BY <2>1, <2>2, <2>3, <2>4, <2>5 DEF validate_ptr
<1> QED BY <1>1, MapInvariance, Invariance, PTL
=============================================================================
