------------------------------ MODULE Collector ------------------------------
(***************************************************************************)
(* The collector: h_gc_dbg and garbage_collection of src/src/gc.c with the *)
(* root scan and the footer search of src/src/traverse_stack.c, over the   *)
(* allocator of Heap and the bytes of the heap.                            *)
(*                                                                         *)
(* Memory is cut into cells of half a header: layouts are multiples of     *)
(* four bytes, so a header need not be aligned to its own size, and a word *)
(* that is partly overwritten is two cells of different origin.  Only what *)
(* the code looks at is kept of a cell:                                    *)
(*    <<"bitvec", 0>>   lower half of a bit vector header (type bits 11)   *)
(*    <<"desc", n>>     upper half of one: n data bytes, and the layout    *)
(*    <<"raw", n>>      lower half of a raw header (type bits 10)          *)
(*    <<"fwd", a>>      lower half of a forwarding header (01) to a        *)
(*    <<"tag", 0>>      lower half of a footer (last type bits 10)         *)
(*    <<"len", n>>      upper half of a footer: n data bytes               *)
(*    <<"data", k>>     what the program wrote into its k-th object, with  *)
(*                      values whose last two bits are 00                  *)
(*    <<"high", 0>>     upper half of an address or of a small number      *)
(*    <<"stack", 0>>    words of the stack, copied by mistake              *)
(*                                                                         *)
(* The slots of the stack are numbered in the order root_ptrs visits them; *)
(* registers, jmp_buf and frames of the collector are slots like others.   *)
(***************************************************************************)
EXTENDS Heap

CONSTANTS
  Slots,     \* number of stack slots
  Offsets,   \* what the program adds to a pointer it copies
  SizeMod,   \* values of the size field of a footer: 2^8
  MaxObjs,   \* bound: objects the program allocates
  MaxGcs     \* bound: collections

(* A footer holds the size of every layout (54 bits, bit_vector.h:14), one *)
(* byte does not count beyond a space, and nothing is allocated that is no *)
(* whole number of cells: layouts are, and of raw blocks only such ones    *)
(* have a place in this memory.                                            *)
ASSUME CollectorAssumption ==
  /\ HeaderSize % 2 = 0
  /\ Slots \in Nat \ {0}
  /\ Offsets \subseteq Nat
  /\ MaxObjs \in Nat /\ MaxGcs \in Nat
  /\ SizeMod \in Nat \ {0} /\ SizeMod <= SpaceSize
  /\ \A size \in StructSizes : 0 < size /\ size < SizeMod
  /\ \A size \in StructSizes \cup RawSizes : size % (HeaderSize \div 2) = 0

VARIABLES
  mem,      \* the bytes of the heap
  stack,    \* the slots: a heap address, NoRef or Dbg
  pc,       \* what runs: the program, the collector, or how it ended
  todo,     \* the roots h_gc_dbg still has to go through, in stack order
  freed,    \* what the last h_gc returned, before it is made unsigned
  objCount, \* history: objects the program has allocated
  gcCount,  \* history: collections
  oldUsed,  \* old_used_mermory
  scan,     \* history: the roots of this collection, as they were
  old,      \* history: the blocks of the last window before it
  clean     \* history: no collection so far came too close (see TooClose)

gcVars == <<mem, stack, pc, todo, freed, objCount, gcCount, oldUsed, scan, old, clean>>
allVars == <<vars, gcVars>>

-----------------------------------------------------------------------------
Half == HeaderSize \div 2
CellsOf(a, n) == {a + Half * i : i \in 0 .. (n \div Half) - 1}
Cells == CellsOf(0, HeapSize)

NoRef == -1
Dbg == -2      \* dbg_value, no address of the heap
BitVec == <<"bitvec", 0>>
Tag == <<"tag", 0>>
High == <<"high", 0>>
StackWord == <<"stack", 0>>

At(m, a) == IF a \in Cells THEN m[a] ELSE High
PutWord(m, a, lo, hi) ==
  [c \in Cells |-> IF c = a THEN lo ELSE IF c = a + Half THEN hi ELSE m[c]]

(* The byte get_size_bits_field reads, from the upper half of any word.    *)
get_size_bits_field(cell) == IF cell[1] \in {"desc", "len"} THEN cell[2] ELSE 0

(* The size of header and data together. *)
create_footer_Header(n) == <<"len", (n + HeaderSize) % SizeMod>>

(* The footer's size is kept in one byte. *)
create_footer(n) == <<"len", n % SizeMod>>

WriteBlock(m, hdr, n, lo, hi) ==
  PutWord(PutWord(m, hdr, lo, hi), hdr + HeaderSize + n, Tag, create_footer(n))
WriteStruct(m, hdr, n) == WriteBlock(m, hdr, n, BitVec, <<"desc", n>>)
WriteRaw(m, hdr, n) == WriteBlock(m, hdr, n, <<"raw", n>>, High)

Fill(m, a, n, cell) == [c \in Cells |-> IF c \in CellsOf(a, n) THEN cell ELSE m[c]]

(* memcpy, which glibc implements as memmove on this platform.             *)
CopyBytes(m, to, from, n) ==
  [c \in Cells |-> IF c \in CellsOf(to, n) THEN At(m, from + (c - to)) ELSE m[c]]

(* The first footer at or after p, looked for in steps of a header.        *)
confirm_tag(m, a) == At(m, a) = Tag /\ At(m, a + Half)[1] = "len"
FootersFrom(m, p) ==
  {q \in {p + HeaderSize * i : i \in 0 .. (SpaceSize - 1) \div HeaderSize} : confirm_tag(m, q)}

find_header_address_through_footer(m, p) ==
  IF FootersFrom(m, p) = {} THEN NoRef
  ELSE LET q == CHOOSE q \in FootersFrom(m, p) : \A r \in FootersFrom(m, p) : q <= r
       IN  q - (get_size_bits_field(At(m, q + Half)) + HeaderSize)

-----------------------------------------------------------------------------
(* The program.  It writes to a new object before anything else happens.   *)
Running == pc = "run" /\ UNCHANGED <<pc, todo, freed, gcCount, oldUsed, scan, old, clean>>

AllocStruct(slot, size) ==
  /\ Running /\ objCount < MaxObjs
  /\ h_alloc_struct(size)
  /\ objCount' = objCount + 1
  /\ IF ret' = NULL
       THEN stack' = [stack EXCEPT ![slot] = NoRef] /\ mem' = mem
       ELSE /\ stack' = [stack EXCEPT ![slot] = ret']
            /\ mem' = Fill(WriteStruct(mem, ret' - HeaderSize, size),
                           ret', size, <<"data", objCount'>>)

AllocRaw(slot, bytes) ==
  /\ Running /\ objCount < MaxObjs
  /\ h_alloc_raw(bytes)
  /\ objCount' = objCount + 1
  /\ IF ret' = NULL
       THEN stack' = [stack EXCEPT ![slot] = NoRef] /\ mem' = mem
       ELSE /\ stack' = [stack EXCEPT ![slot] = ret']
            /\ mem' = Fill(WriteRaw(mem, ret' - HeaderSize, bytes),
                           ret', bytes, <<"data", objCount'>>)

(* A pointer other than a copy points into the data of some object.        *)
InObject(p) == \E i \in 1 .. Len(objs) :
  DataOf(objs[i]) <= p /\ p < DataOf(objs[i]) + objs[i].size

CopyRef(from, to, offset) ==
  /\ Running /\ from # to /\ stack[from] # NoRef
  /\ offset = 0 \/ InObject(stack[from] + offset)
  /\ stack' = [stack EXCEPT ![to] = stack[from] + offset]
  /\ UNCHANGED <<vars, mem, objCount>>

DropRef(slot) ==
  /\ Running /\ stack[slot] # NoRef
  /\ stack' = [stack EXCEPT ![slot] = NoRef]
  /\ UNCHANGED <<vars, mem, objCount>>

-----------------------------------------------------------------------------
(* root_ptrs: every slot whose value passes validate_ptr.                  *)
root_ptrs == {i \in 1 .. Slots : stack[i] # NoRef /\ validate_ptr(stack[i])}

(* The loop over the roots stops before the last one.                      *)
Processed(roots) == {i \in roots : \E j \in roots : i < j}

(* Read after used_bytes has been reset. *)
old_used_mermory_Late == used'
old_used_mermory == h_used

StartGc ==
  /\ pc = "run" /\ gcCount < MaxGcs
  /\ GcReset
  /\ pc' = "gc" /\ gcCount' = gcCount + 1
  /\ oldUsed' = old_used_mermory
  /\ todo' = Processed(root_ptrs)
  /\ scan' = [slot \in todo' |-> [from |-> stack[slot], id |-> At(mem, stack[slot])[2]]]
  /\ old' = SubSeq(objs, base, Len(objs))
  /\ UNCHANGED <<mem, stack, freed, objCount, clean>>

-----------------------------------------------------------------------------
(* garbage_collection of one root, with value p and header at hdr.         *)

(* The block of the last window whose data begins at p. *)
BlocksAt(p) == {b \in {old[i] : i \in 1 .. Len(old)} : DataOf(b) = p}
Done == DOMAIN scan \ todo
AlreadyMoved(p) == \E slot \in Done : scan[slot].from = p

(* The spaces are never exchanged, so objects are copied over objects.     *)
(* The copy is harmless only if the block is a struct at the end of whose  *)
(* copy it begins, or later; a block copied before must still have its     *)
(* header; and the front must not go back.  The footer must be whole       *)
(* headers away, or the search steps over it.                              *)
TooClose(p) ==
  ~ \E b \in BlocksAt(p) :
      /\ b.kind = "struct" /\ b.size % HeaderSize = 0
      /\ IF AlreadyMoved(p) THEN front <= b.hdr
         ELSE front + Footprint(b.size) <= b.hdr /\ StructFits(b.size)

Stop(how) == pc' = how /\ UNCHANGED <<mem, stack>>

(* The header is changed in a copy and never written back. *)
Forward_Lost(m, hdr, a) == m

(* set_header_forward_address *)
Forward(m, hdr, a) == PutWord(m, hdr, <<"fwd", a>>, High)

(* Of p: the address of the header only, or the offset on the wrong side.  *)
Repoint_Header(new, p, hdr) == new
Repoint_Back(new, p, hdr) == new - (p - hdr)

(* A root keeps its distance from the header. *)
Repoint(new, p, hdr) == new + (p - hdr)

(* gc.c:400-445.  The size of the copy is read again after the allocation  *)
(* has written its header and footer.                                      *)
MoveStruct(slot, p, hdr) ==
  LET size == get_size_bits_field(At(mem, hdr + Half)) IN
  /\ At(mem, hdr) = BitVec
  /\ h_alloc_struct(size)
  /\ IF ret' = NULL THEN Stop("no room")
     ELSE IF ret' = p THEN Stop("not moved")
     ELSE LET new == ret' - HeaderSize
              m == WriteStruct(mem, new, size)
              n == get_size_bits_field(At(m, hdr + Half))
          IN  /\ mem' = Forward(CopyBytes(m, ret', p, n), hdr, new)
              /\ stack' = [stack EXCEPT ![slot] = Repoint(new, p, hdr)]
              /\ UNCHANGED pc

(* gc.c:446-454 *)
FollowForward(slot, p, hdr) ==
  /\ At(mem, hdr)[1] = "fwd"
  /\ stack' = [stack EXCEPT ![slot] = Repoint(At(mem, hdr)[2], p, hdr)]
  /\ UNCHANGED <<vars, mem, pc>>

(* gc.c:496-502, the text control reaches for any other header: the word   *)
(* before p is taken for the header, the copy is made from the stack, and  *)
(* the new address is that of the data.  A copy to NULL has no meaning.    *)
OtherHeader(hdr) == At(mem, hdr) # BitVec /\ At(mem, hdr)[1] # "fwd"

header_get_size(m, a) ==
  CASE At(m, a) = BitVec      -> get_size_bits_field(At(m, a + Half))
    [] At(m, a)[1] = "raw"    -> At(m, a)[2]
    [] OTHER                  -> 0

MoveRaw(slot, p, hdr) ==
  LET size == header_get_size(mem, p - HeaderSize) IN
  /\ OtherHeader(hdr) /\ size > 0
  /\ h_alloc_raw(size)
  /\ IF ret' = NULL THEN Stop("undefined")
     ELSE LET m == WriteRaw(mem, ret' - HeaderSize, size)
          IN  /\ mem' = Forward(Fill(m, ret', size, StackWord), p - HeaderSize, ret')
              /\ stack' = [stack EXCEPT ![slot] = ret']
              /\ UNCHANGED pc

(* The word before p is no header either, or one without a size: the code  *)
(* reads a format string at an address made of data, or stores NULL.       *)
NoHeader(p, hdr) ==
  /\ OtherHeader(hdr) /\ header_get_size(mem, p - HeaderSize) = 0
  /\ Stop("undefined") /\ UNCHANGED vars

garbage_collection(slot) ==
  LET p == stack[slot]
      hdr == find_header_address_through_footer(mem, p)
  IN  /\ \/ hdr = NoRef /\ UNCHANGED <<vars, mem, stack, pc>>
         \/ hdr # NoRef /\ \/ MoveStruct(slot, p, hdr)
                           \/ FollowForward(slot, p, hdr)
                           \/ MoveRaw(slot, p, hdr)
                           \/ NoHeader(p, hdr)
      /\ clean' = (clean /\ ~TooClose(p))

GcRoot ==
  /\ pc = "gc"
  /\ \E slot \in todo :
       /\ \A other \in todo : slot <= other
       /\ garbage_collection(slot)
       /\ todo' = todo \ {slot}
  /\ UNCHANGED <<freed, objCount, gcCount, oldUsed, scan, old>>

EndGc ==
  /\ pc = "gc" /\ todo = {}
  /\ pc' = "run"
  /\ freed' = oldUsed - h_used
  /\ scan' = << >> /\ old' = << >>
  /\ UNCHANGED <<vars, mem, stack, todo, objCount, gcCount, oldUsed, clean>>

-----------------------------------------------------------------------------
(* As the collection does, without the last root. *)
invalidate_ptrs_at_heap_Processed ==
  [i \in 1 .. Slots |-> IF i \in Processed(root_ptrs) THEN Dbg ELSE stack[i]]

invalidate_ptrs_at_heap ==
  [i \in 1 .. Slots |-> IF i \in root_ptrs THEN Dbg ELSE stack[i]]

(* The slots are told that the heap is gone; what is left of the heap      *)
(* record and its bytes means nothing any more.                            *)
h_delete_dbg ==
  /\ pc = "run"
  /\ stack' = invalidate_ptrs_at_heap
  /\ pc' = "deleted"
  /\ UNCHANGED <<vars, mem, todo, freed, objCount, gcCount, oldUsed, scan, old, clean>>

-----------------------------------------------------------------------------
GcInit ==
  /\ Init
  /\ mem = [c \in Cells |-> High]   \* calloc
  /\ stack = [i \in 1 .. Slots |-> NoRef]
  /\ pc = "run" /\ todo = {} /\ freed = 0
  /\ objCount = 0 /\ gcCount = 0 /\ oldUsed = 0
  /\ scan = << >> /\ old = << >> /\ clean = TRUE

GcNext ==
  \/ \E slot \in 1 .. Slots, size \in StructSizes : AllocStruct(slot, size)
  \/ \E slot \in 1 .. Slots, bytes \in RawSizes : AllocRaw(slot, bytes)
  \/ \E from, to \in 1 .. Slots, offset \in Offsets : CopyRef(from, to, offset)
  \/ \E slot \in 1 .. Slots : DropRef(slot)
  \/ StartGc
  \/ GcRoot
  \/ EndGc
  \/ h_delete_dbg

GcSpec == GcInit /\ [][GcNext]_allVars
-----------------------------------------------------------------------------
CellValue ==
  {BitVec, Tag, High, StackWord}
    \cup ({"desc", "len", "raw", "fwd", "data"} \X Nat)

(* Every variable of the collector has its type; the slots of the stack    *)
(* hold addresses of the heap (gc.c:436, 452, 502) -- or of the bytes a    *)
(* raw block has behind it -- unless a collection took other bytes for a   *)
(* header.                                                                 *)
GcTypeOK ==
  /\ mem \in [Cells -> CellValue]
  /\ stack \in [1 .. Slots -> Int]
  /\ clean => \A i \in 1 .. Slots :
                stack[i] \in 0 .. HeapSize + HeaderSize \cup {NoRef, Dbg}
  /\ pc \in {"run", "gc", "no room", "not moved", "undefined", "deleted"}
  /\ todo \subseteq 1 .. Slots

(* From the data pointer of a block of the current window, of whole        *)
(* headers' size, the search steps to the block's footer and back to its   *)
(* header (traverse_stack.c:31-55), whatever the sizes of its neighbours   *)
(* and unless a collection copied over objects it still needed -- if the   *)
(* size of the block fits one byte.  From a raw block that is larger it    *)
(* always ends somewhere else (gc.c:354).                                  *)
HeaderFound ==
  clean => \A i \in base .. Len(objs) :
    objs[i].size % HeaderSize = 0 =>
      (find_header_address_through_footer(mem, DataOf(objs[i])) = objs[i].hdr
         <=> objs[i].size < SizeMod)

(* What the program wrote into the object at p is all there.               *)
Intact(p, k) ==
  \E i \in base .. Len(objs) :
    /\ DataOf(objs[i]) = p
    /\ \A c \in CellsOf(p, objs[i].size) : mem[c] = <<"data", k>>

(* When no root was too close, every root that has been processed points   *)
(* to a whole copy of the object it pointed to, and roots that were equal  *)
(* are equal still, and no others (gc.c:400-454).                          *)
CleanRootsMoved ==
  (clean /\ pc = "gc") =>
    /\ \A i \in Done : Intact(stack[i], scan[i].id)
    /\ \A i, j \in Done : scan[i].from = scan[j].from <=> stack[i] = stack[j]

(* ... and neither does the assertion of gc.c:415 fail nor is a header     *)
(* taken for what it is not.                                               *)
CleanNeverStuck == clean => pc \notin {"not moved", "undefined"}

(* ... and what h_gc returns is a number of bytes (gc.h:145): no more is   *)
(* in use after the collection than before.                                *)
CleanCollects == clean => freed >= 0

(* h_delete_dbg leaves no pointer to the heap on the stack (gc.h:101-102), *)
(* however many collections moved them before, as long as these were clean *)
(* (traverse_stack.c:150): a second root of a raw block ends up behind the *)
(* block, where no bit need be set.  It takes blocks of at least a header  *)
(* (MCHeap!FreshPointerIsValid) and pointers to the beginning of objects:  *)
(* the last word of a struct of 24 bytes may lie in a segment that         *)
(* set_alloc_map does not mark (gc.c:146-162).                             *)
DeleteKillsPointers ==
  (clean /\ pc = "deleted") => \A i \in 1 .. Slots : stack[i] \notin 0 .. HeapSize - 1
=============================================================================
