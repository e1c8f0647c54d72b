# A TLA+ project for the Garbagecollector

This directory models the conservative, compacting garbage collector of
`src/src` (C) -- its allocator, its collector, and the words and layout strings
they steer by -- and the web store of `src/demo/inlupp2` that was ported to it,
with its lists and hash tables. The models are checked with TLC on small
instances; the safety properties of the passing runs, among them how far the code keeps
what its headers promise, are also proved with TLAPS, for every value of the constants.

## 1. The system

### Parts, their state and their operations

| part | code | state | operations |
|---|---|---|---|
| allocator | `src/src/gc.c`, `gc.h` | `alloc_front` (bump pointer), `space_is_active`, `used_bytes` | `h_alloc_struct`, `h_alloc_raw`, `h_avail`, `h_used` |
| allocation map | `gc.c:146-162`, `285-322`, `traverse_stack.c:59-73` | `alloc_map`, one bit for 16 bytes | `set_alloc_map`, `validate_ptr` |
| collector | `gc.c:371-580`, `traverse_stack.c:31-55` | the bytes of the heap, forwarding headers | `h_gc`, `h_gc_dbg`, `garbage_collection`, `find_header_address_through_footer` |
| root scan | `traverse_stack.c:86-157` | the C stack (read and rewritten) | `root_ptrs`, `invalidate_ptrs_at_heap` |
| lifecycle | `gc.c:27-144` | the heap record | `h_init`, `h_delete`, `h_delete_dbg` |
| header and footer words | `src/src/header/header.c`, `raw_layout.c`, `footer.c`, `bit_manip.c` | 64 bit words | creation and reading of the four header types and the footer |
| layout strings | `src/src/header/format_str.c`, `bit_vector.c` | none | parsing, size, bit vector and back |
| demo: linked list | `src/demo/inlupp2/linked_list.c` | links, `first`, `last`, `size`; an iterator's `current` | append, prepend, remove, get, clear, apply; next, insert, remove |
| demo: hash table | `src/demo/inlupp2/hash_table-dynamic.c`, `common.c` | buckets of entries, `size`, `capacity` | insert, lookup, remove, clear, apply, growth |
| demo: web store | `src/demo/inlupp2/stor_functions.c` | merchandise with its shelves, carts, `created_carts` | add, remove, edit, replenish, carts, cost, checkout |
| demo: command line | `store.c`, `utils.c` | none | menu and input |

A heap is cut into *spaces* of 2048 bytes, the first half of them active. An
object is a header (8 bytes), its data and a footer (8 bytes). A program gets
the address of the data. The collector finds roots by walking the stack and
asking the allocation map about every word; from a root it searches forward,
eight bytes at a time, for a footer, steps back by the size the footer holds
and has the header. A struct is copied by a new `h_alloc_struct` with a string
made from its header; its old header becomes a forwarding address, which the
other roots of the object follow.

The store keeps its merchandise and its carts in hash tables and the shelves of
each merchandise in a list; a cart maps names to pairs that point to the
merchandise. All of it lies on one collected heap of 8192 bytes that is never
collected. Its functions walk over lists by index and iterator, and call each
other: an edit is a copy, a removal from every cart, a removal and an addition.

Everything runs in the calling thread. What makes the code hard is not
concurrency but *sequence*: the allocator jumps within a space, raw and struct
allocations obey different rules, and a collection moves objects one root at a
time, in stack order, through memory in which later roots' objects still lie. A
list may hide a link that comes back later, a table grows into memory it does
not have, and what carts reserve must stay covered over any order of
replenishing, editing, removing and selling.

### How the text of the commit is read

The commit is a merge with conflicts left in it, and `gc.c` does not compile
for three reasons: `item_header` is undeclared at line 497, the braces of
503-507 do not match, and line 576 repeats 575. `traverse_stack.c` has conflict
markers (89-95, 114-119) around text that differs in nothing but unused
locals. The models read the code as it stands, in textual order:

- text behind an unconditional `return` in the same block is dead: so 455-493,
  the tracing of pointers inside objects, is, and with it everything that would
  make an object reachable from another one;
- a header that is neither a bit vector nor a forward falls out of the chain of
  branches to 496-502, with `item_header` taken from its only declaration (the
  word before the root);
- the duplicated line and the braces have no effect.

Compiled with assertions, as the tests are.

## 2. Modules

| module | what it is |
|---|---|
| `Heap` | the allocator; `Init`, `Alloc`, `GcReset` (the beginning of `h_gc_dbg`), properties, its refinement of `Arena` |
| `HeapProofs` | theorems about `Heap`: front, window, spaces, overruns, the arena, the allocation map |
| `Arena` | what an allocator promises: bytes of their own for every live block |
| `MCHeap` | `Heap` for TLC, and what comments and tests say of it |
| `Collector` | `EXTENDS Heap`: bytes, stack, a collection, one root per step, and the end of the heap |
| `CollectorProofs` | `EXTENDS Collector, HeapProofs`: theorems about clean collections |
| `MCCollector` | `Collector` for TLC, and what an assertion says of it |
| `HeaderWord` | the fields of headers and footers as arithmetic on words |
| `HeaderWordProofs` | theorems about them |
| `Layout` | `EXTENDS HeaderWord`: a layout string, the struct allocated with it, and its moves |
| `LayoutProofs` | theorems about `Layout` |
| `MCLayout` | `Layout` for TLC |
| `Chain` | what a list amounts to: the values along its links and a shown size; operators only |
| `ListPromise` | what `linked_list.h` promises of a list, operation by operation, from the words of the header |
| `LinkedList` | the list in memory: links, pointers, one iterator; how far it keeps `ListPromise` |
| `LinkedListProofs` | theorems about `LinkedList` |
| `MCLinkedList` | `LinkedList` for TLC, and what its header says of an append |
| `MapSpec` | what `hash_table-dynamic.h` promises of a table: a map, operation by operation |
| `HashTable` | buckets, entries, growth; how far it keeps `MapSpec` |
| `HashTableProofs` | theorems about `HashTable` |
| `MCHashTable` | `HashTable` for TLC |
| `InductionProofs` | induction over natural numbers, loops, sums, changed sequences: lemmas for the other proofs |
| `Store` | the web store, over `Chain` for shelves; checkout one shelf at a time |
| `StoreProofs` | theorems about `Store`, and the lemmas about sums, shelves and carts they take |
| `MCStore` | `Store` for TLC, and what its header file says of it |

Operators keep the names of the C functions. An operator `X_Y` beside `X` is
`X` with a plausible mistake in it; no specification uses it. It is there to
show that a property notices the mistake (the list is in `PROJECT.json`).

### Heap

Addresses are offsets from `spaces[0]`, `NULL` is 0 (where a data pointer
never is). A layout is the number of its data bytes. `h_alloc_struct` has four
outcomes, disjuncts of their own, each with the early return or the writes of
its lines: refused by `h_avail` or the size of a space; no active space from
here on; refused for want of room for the footer (a test made after the front was
moved, which only fails where it was not: `NoFooterRoomInPlace`); placed.
`h_alloc_raw` has two. Both charge `used_bytes` twice, where the tests
(`gc_test.c:310-312, 384-387, 452-455`) expect one charge, and both answer `NULL`
where `gc.h:141-142` promises a collection: `heap_refused` shows a request refused
on a heap half empty.
`GcReset` inverts the flags twice, as the code does, and sets front and
counter back. The variables `objs`, `base` and `top` are history: the blocks
since the last reset, where the current *window* begins (the blocks placed
since the front last went back), and the highest front.

`ImplementsArena` says that a step of `Heap` is a step of `Arena`: it hands out bytes
of the heap that no live block has, or refuses. Two things the code does break this,
and are exempt by name: the front went back over blocks (`base` is no longer the first
block; `heap_front` is the violation), or a raw block left the heap (`Overrun`).

A block written past the calloc'd heap is undefined behaviour: the model stops
there (`Overrun`), and `OverrunBounded` says how far past it can be. This is
why the `heap` run does not check for deadlock.

### Collector

The memory is cells of half a header (four bytes): layouts are multiples of
four, so headers need not be aligned, and a word partly overwritten is two cells
of different origin. A cell keeps what the code looks at. The stack is
`Slots` slots in the order of the scan. `StartGc` resets the heap and collects
the roots, a set of slots (`todo`; `scan` remembers what was in each), `GcRoot` is one
round of the loop over them: it takes the first slot left and calls
`garbage_collection`, with its branches (`MoveStruct`, `FollowForward`, `MoveRaw`, `NoHeader`, and no footer found),
`EndGc` computes the result. A failed assertion or an undefined step ends the
run in `pc`.

The program may allocate, drop and copy pointers, also into the middle of an
object. It fills an object before it does anything else, and the words it
writes are neither header nor footer. It keeps no pointers inside objects:
since the tracing of children is dead text, such pointers would change nothing
but the words copied.

`h_delete_dbg` writes its value into every root of the stack and ends the run:
nothing of the heap is looked at afterwards. `DeleteKillsPointers` says that no
slot is left that points into the heap, for blocks of at least a header (the
run `heap_fresh` has the smaller ones whose pointers the scan does not see),
pointers to the beginning of objects, and
after clean collections. With interior pointers it fails: a struct of 24 bytes whose
header is at 4 modulo 16 has its last word in a segment that is not marked, so that a
pointer to this word is no root and survives (TLC shows it for structs of 20 and 24
bytes and an offset of 20). And without clean collections: `MoveRaw` leaves the address of the *data* in the
forwarding header, so a second root of a raw block ends up behind it, where no
bit need be set.

The flags of the spaces are inverted twice, so objects are copied *into the
spaces they are in*. When the copy of one object lands on another that is
still needed, data is lost; no property about that would hold without
qualification. `TooClose` says of one root when its copy is harmless: it points
to the beginning of a struct of the last window, of whole headers' size, which
either has been moved already and still has its header, or begins at or behind
the end of its copy. `clean` records that no root so far was too close. What
the properties then say is what the collector does when objects are out of
each other's way; what it does when they are not is the violation run. (When copies land on
objects that are still needed, one object can be copied for two roots, and the
difference `h_gc` returns as a `size_t` is negative: this is why `CleanCollects`
speaks of clean collections.)

### HeaderWord and Layout

Words are natural numbers with parametric field widths, since TLC's integers
have 32 bits: the runs use 5 + 6 + 2 bits with a tag that starts with the
code's type bits, the theorems are about all widths. A layout string is a
sequence of tokens (letter and repeat count), so that every string up to three
tokens can be enumerated, unknown letters, numbers at the end and refused
strings included. `get_layout_bits` goes through the string letter by letter and sets
the bits of pointers with `set_bit_at_index_from_msb`, as the code does; a bit is set
once, so that adding it is the `|=` of `bit_manip.c`. `Move` makes a string from the header, allocates with it and
leaves a forward behind, which is what a collection does to one object.

### LinkedList and its chain

A pointer is the position of a link in the order of allocation, 0 is `NULL`. The
store's heap never collects and its memory is zeroed, so a new link's `next` is
`NULL`, which the code does not set. `ioopm_linked_list_remove` of the last of
several elements lowers `size` and unlinks nothing: the link stays behind the
list, *hidden*; an append goes behind it, so that the removed value is shown
again, and the appended one is hidden. `Chain` says this in terms of a sequence and
a shown size; it is how the store's shelves behave, no promise of anybody.

The promise is `ListPromise`, written from the comments of `linked_list.h`: a sequence
of elements, `elems`, and what each operation does to it. `ImplementsList` compares
operation by operation, so that none can stand for another. It leaves out what the
code does not keep. An append to a list with a hidden link is one such thing:
`list_append` shows that it is not at the end. Iterators are the other:
`iterator.h:24` and `30` say that they remove the current element and insert before it,
the code does both *behind* it, and `ImplementsList` asks for that place, exactly.
`OneHiddenAtMost` and `WalksStayInside`
are why the loops over `size` steps in the rest of the demo never meet `NULL`.

A list that has been *misused* is not followed further (`sound`): read or
removed from when empty, changed through an iterator whose link is gone, or its
last link removed by an iterator, which leaves `last` dangling. The steps that
do so are part of the model, those after them are not. Following `NULL` ends the
program (`fault`).

### HashTable

A bucket is the sequence of its entries, so that a pointer to a pointer to an
entry is a place in it. `find_previous_entry_for_key` returns `NULL` in two
cases (0 in the model), and callers compare again (`Found`). Growth
chains every entry into its new bucket, in front, as the code does; it has
memory for three buckets only (`hash_table-dynamic.c:98-99`, the layout of an
entry). From the first access to another bucket on, any word of the heap may be
read as an entry or be overwritten: the model stops there (`wild`).
`MapSpec` is the promise, written from the comments of the header: a map, from which
`Remove` takes any mapping. `ImplementsMap` compares operation by operation. The code
breaks it once, and `ImplementsMap` names the exception, `NullStays`: a key whose value
is `NULL` is not removed (`hash_table-dynamic.c:144`), though
`hash_table-dynamic.h:60` says so. Without the exception TLC violates the property
by an insertion of `NULL` and a removal.

### Store

Shelves are chains, tables are functions: that containers behave so is what
`list` and `table` show, up to twelve entries in a table, where it has memory for
all of its buckets. Merchandise is an object with an index, since a cart points to
it and keeps it after it has been removed from the catalogue. Each choice of the
menu is one step, with the whole of what the function and its callees do;
refused operations change nothing and are left out. `checkout` is split:
`decrease_stock` takes up the next pair of the cart, `ServeShelf` is one round
of its loop, `EndCheckout` removes the cart. The tables' order is any order.

`book` is history: what was delivered of each merchandise and not sold. An edit makes
a new object and carries the entry over, whatever the copy of the shelves has.
`clobbered` is the merchandise that was given the shelves of another by an edit to
its name. Most properties exempt it, and `store_checkout` shows what happens to
it. They also exempt, where they have to, merchandise with a hidden shelf
(`Regular`). What it does is no accident of the model: with shelves s and t,
replenishing the last of them hides the new pair (`stor_functions.c:249`), the stock
shown does not grow, a removal then takes the *shown* stock out of each cart, and a
cart that had reserved more keeps merchandise that is in the catalogue no longer. An
edit copies the shown shelves only, so the hidden pair is lost for good: `lossy`
remembers what was made of such merchandise, and `Whole` is merchandise that is
neither. `BooksBalance` is about whole merchandise, and claims nothing of the goods
the code loses that way; with `Regular` in place of `Whole`, or no exemption, TLC
violates it.

What shelves, carts and the whole store hold are sums over functions (`SumFunction`).
`CheckoutAdvances` says of each round of `decrease_stock` what `BooksBalance` says of
the whole: it takes the rest, or goes on to the next shelf. At the last shelf the
iterator stays where it is (`linked_list.c:28-37`), so that is the same as to say that
the goods due are on the shelves *ahead*.

## 3. Runs

| run | configuration | shows |
|---|---|---|
| `heap` | `MCHeap.cfg` | layout of blocks, activity of spaces, bounds of front and map, steps of the front; until the front goes back or a block leaves the heap, `Heap` implements `Arena` |
| `heap_front` | `MCHeapFrontIsFree.cfg` | *violation*: `gc.h:27-28`, the front is not always at a free byte |
| `heap_fresh` | `MCHeapFreshPointer.cfg` | *violation*: `traverse_stack_test.c:151`, a fresh pointer can fail `validate_ptr` |
| `heap_refused` | `MCHeapRefused.cfg` | *violation*: `gc.h:141-142` and `gc_test.c:310-312`, a request is refused, with no collection, on a heap half empty |
| `collector` | `MCCollector.cfg` | a clean collection moves objects whole and keeps aliases; headers are found exactly if the size fits a footer; a deleted heap leaves no pointers |
| `collector_elsewhere` | `MCCollectorElsewhere.cfg` | *violation*: the assertion of `gc.c:415` |
| `layout` | `MCLayout.cfg` | size, pointer offsets and type survive string, word and moves |
| `list` | `MCLinkedList.cfg` | each operation keeps its promise of `linked_list.h`, with the exceptions above; one hidden link at most; walks stay inside |
| `list_append` | `MCLinkedListAppend.cfg` | *violation*: `linked_list.h:36`, an append is not always at the end |
| `table` | `MCHashTable.cfg` | each operation keeps its promise of `hash_table-dynamic.h`, but for `NULL` values, up to the first stray access; sizes and searches agree |
| `store` | `MCStore.cfg` | stock covers carts, the books of whole merchandise balance, carts hold what the catalogue has, a checkout gets on and ends -- with the exemptions above |
| `store_checkout` | `MCStoreCheckout.cfg` | *violation*: `stor_functions.h:130`, checkout does not always end |

### Bounds, and why they are enough

- **Spaces.** Four, the least `h_init` accepts: two active and two inactive,
  so the walk can stay, fail, and find the front in either half. Spaces of 64
  (96 for the collector) bytes with the code's segment and header sizes hold
  two to four blocks: the front gets to every kind of place in a space -- at
  its start, where the next block just fits, where only the footer does not,
  over the boundary -- after two or three requests. `heap` has struct sizes 4
  (smaller than a header), 20 (no multiple of eight) and 40 (nearly a space),
  and raw sizes 8, 50 (odd) and 256 (the whole heap: the overrun).
  `heap_refused` has raw blocks of 50 bytes, of which three, of 66 bytes each with
  header and footer, would fit into the 256 of the heap.
- **Heap needs no bound on steps**: `used_bytes` bounds the allocations between
  two resets, and a reset forgets.
- **Collector.** Three slots, three objects and two collections: the loop over
  roots omits the last, so two roots are served, which is what it takes to have
  aliases, two objects moved one behind the other, and a root served after
  another object's copy. Structs of 12 (the footer is stepped over) and 16
  bytes, raw blocks of 8 and 24, with footprints of 24 to 40 bytes against 96. A
  footer holds sizes below 24 instead of 256 (`SizeMod`), so the larger raw
  block is one whose header is looked for in its data. The second collection meets
  forwarding headers and map bits the first left. With interior pointers
  (`Offsets` 0 and 8) the properties hold for these sizes, too, in a run of four minutes
  that is not kept.
- **Layout.** Six layout bits instead of 54, three tokens with counts none, 1
  and 3: strings that fill the layout exactly, exceed it by one, expand to
  nothing; every mixture of one bit, two bit and pointer letters. Two moves,
  since from the first on the string is made of `*` and `i` only. Addresses 0,
  20 and 33, the last no multiple of four, as behind a raw block of odd size.
- **List.** Four links ever allocated, two values (symmetric), indices from -1 to
  one past the end: enough for a hidden link in front of and behind others, a
  list that is emptied with one, and an iterator on a removed link.
- **Table.** Five buckets and six keys: two and more in a bucket, negative
  keys, growth by the fourth insertion to 17 buckets, where 0, 17, 34 and -34
  share one there is memory for, and 5 and -4 fall into others.
- **Store.** Two names and two objects (an edit to a new name makes one, an edit to
  the other name clobbers), two shelves with three links between them (a hidden one
  and one elsewhere), two carts, two goods. With quantities of 0 as well the
  properties hold, too, in a run of two minutes that is not kept.

### Fairness

- `FairStore` is fairness of `Serve`, the steps of a checkout: the program does
  not wait for anybody there. The menu is not fair, nobody has to order anything.

Every other property is about safety.

## 4. Proofs

Eight modules, all leaves checked. Each theorem speaks of `Spec` for every value of
the constants that the named assumption of its module allows; the assumptions are
what `h_init` and the types of the code ensure, and TLC evaluates them in every run.

### Allocator

`HeapProofs`, from `HeapAssumption` alone (what `h_init` checks, and that a
struct with header and footer fits a space, which 54 words of layout do):

- `Invariance`: `Inv` is inductive. Its parts: the types; `HalfActive`, the
  flags are those of `h_init`, since a double inversion is none;
  `FrontWithinUsed`, `alloc_front <= used_bytes`; `OverrunBounded`;
  `WindowTiles`; `StructsInActiveSpaces`. `FrontWithinUsed` is what the
  argument turns on. No run lists it and no document states it: `used_bytes`
  charges more than a block occupies and does not fall when the front goes
  back, so the test of `h_avail`, which is about `used_bytes`, bounds
  `alloc_front`. From it follow that a granted struct finds the front inside
  the table of spaces (`GrantedInHeap`), and how far a raw block can overrun.
- `LandingInSpace`: the active spaces are a prefix, so the walk stays in its
  space or fails. With it a placed struct lies in one active space.
- The theorems `TypeCorrect`, `WindowAlwaysTiled`,
  `StructsStayInActiveSpaces`, `SpaceIndexAlwaysInBounds` and
  `OverrunAlwaysBounded` are properties of the `heap` run for every heap.
- `ChargedAhead`: every block that was placed leaves `used_bytes` ahead of the front by
  a header and its size. It is a consequence of the double charge, a fact of this code
  and no promise; the proofs about the collector need it, to know when a block leaves
  the heap.
- `FrontAlwaysSteps` and `NeverStructOutsideActive` are its action properties.
  The second size test (`gc.c:249-255`) refuses after the front may have moved;
  `NoFooterRoomInPlace` shows that it only does so where the front has not,
  since every struct fits at the start of a space.
- `HeapImplementsArena`: as long as the front has not gone back and no block has left
  the heap, the window is all blocks there are, so by `WindowTiles` they lie one behind
  the other below the front, and a new one begins there.
- `UniformImplementsArena`: if all footprints are one F that divides a space, neither
  exemption ever applies and `Heap` implements `Arena` as a whole. The invariant is
  `Stacked(F)`, the i-th block is the i-th stretch of F bytes. The hypothesis is about
  the calling program, not the code.

Its last part, from `HeapAssumption` and `SegmentAssumption` (a bit stands for two
headers' bytes, and a space is whole segments), proves `MapAlwaysBelowTop` and
`DataAlwaysMapped` from a second inductive invariant, `MapInv`: `MapBelowTop`,
`BlocksBelowTop` (no block reaches above the highest front) and `DataMarked`
(the segment of every block's data pointer is marked). A block that begins at a
front in the middle of a space has its data segment marked by the first loop of
`set_alloc_map`; one that the walk put at the start of a space by the second loop
(`gc.c:285-322`). `SegmentOrder` and `OffsetInSegment` are the arithmetic.

### Collector

`CollectorProofs`, from the two assumptions above and `CollectorAssumption`. The
inductive invariant is `GcInv`: `Typed` in any state, and `CleanInv` as long as the
history is `clean`.

- `HeapInv` is what the allocator keeps, with four parts that the collector's use of
  it needs: blocks have known sizes and lie at half headers (`BlocksKnown`),
  `used_bytes` is the sum of the charges (`UsedCharged`), and a block that a footer
  can describe lies in the heap (`Ahead`, `LargeOverruns`).
- `WindowWritten`: every block of the window has its header, data and footer in
  memory. From it and `WindowTiles` follows `HeaderAlwaysFound`: between a block's data
  pointer and its footer, in steps of a header, there are only data.
- `Collecting`, between the roots of a collection. The blocks of the last window
  that begin at or above the front are still there, or have a forwarding address
  that the roots already served agree with (`OldKept`); roots to be served are
  unchanged, and served ones point to copies (`RootsPending`, `RootsMoved`);
  `used_bytes` is what the blocks moved so far were charged, each once
  (`MovedCharged`). A root that is not too close reaches such a block (`RootBlock`), and
  its copy ends below it, so that the other parts survive (`MoveClean`).

The theorems `GcTypeCorrect`, `HeaderAlwaysFound`, `CleanRootsAlwaysMoved`,
`CleanIsNeverStuck` and `CleanAlwaysCollects` are the properties of the
`collector` run. `CleanAlwaysCollects` compares two sums over the same blocks
(`TotalMonotone`). `CleanStepsOfHeap` says that `Collector` implements `Heap` up to the
first root that is too close: a copy asks for a size read back from memory, and this
is one the program asked for. Beyond it the size may be anything, so the
hypothesis `clean'` cannot go. `DeleteAlwaysKillsPointers` adds an invariant of
its own, `SlotsMapped`: an address in a slot is in a marked segment, which for
the beginnings of blocks is `DataAlwaysMapped`; its hypotheses are the two of
section 2.

### Header words and layouts

`HeaderWordProofs`, from `HeaderWordAssumption` (the tag ends in 10 and no
block is so large that its raw header reaches the tag): footers are recognised
and headers never are; every field is read back as it was written, cut to its
width.

`LayoutProofs`, from this and `LayoutAssumption` (so many bits of layout, and a size
field that can count their bytes). `LayoutSurvivesHeader` says what a string that fits
keeps on the way through a header: its size, its pointers, and that it fits. The way
leads over the set of the places of pointer bits: `WordOfString` shows that the word
has just these bits, by induction over the letters, `StringOfWord` that the string made
of a word has a pointer at each of them. `LayoutInv` is the conjunction of the
properties of the `layout` run with what makes it inductive: the string made from the
header fits (`CopyFits`), and what is left is a forward (`LeftForwards`).

### List and table

`LinkedListProofs`, from `ListAssumption`. `ListInv` says that, used soundly, the
links that the walk from `first` meets are a path, no link twice, and that the list
shows all of them or all but one, `last` at the end. Every operation is one of a
few changes of a path: a link inserted behind a place, a link left out, a size that
falls by one and nothing else. `ListKeepsPromise` takes the same changes to the
sequence of values (`ValuesInserted`, `ValuesDropped`) and to the part of it that is
shown. The walk itself is a recursive
function; that it ends where the path does is `WalkAlongPath`.

`HashTableProofs`, from `TableAssumption`. `TableInv` says that the buckets hold a
finite map: each key once, with its value, in the bucket of its hash, nothing else,
and `size` counts the keys. `SearchFinds` resolves the two meanings of `NULL`,
`PutHolds` and `DropHolds` are one entry more or less, and `RehashedHolds` is growth: two
nested loops, in which the entries before the present one are in the new table and
none else (`FillHolds`, `PushHolds`). `TableImplementsMap` follows, operation by
operation and with the exception named above, up to the first stray access (`wild`),
behind which the model stops.

### Store

`StoreProofs`, from `StoreAssumption` (amounts and bounds are natural numbers): any
number of names, shelves, carts and merchandise, any amounts. `StoreInv` is what
makes the invariants inductive, in the middle of a checkout, too:

- `Typed`, `Serving`: the types, and where a checkout stands. A list that hides a
  link shows two or more (`IsList`): only such a list loses sight of one, and an
  empty list, or one with a single shelf, shows all it has.
- `Covered`: what the carts hold and is not served yet, with what the desk still
  takes (`Pending`), is on the shelves. Between two checkouts this is
  `StockCoversCarts`; a step of the checkout takes the same from both sides.
- `Balanced`: `BooksBalance`, for whole merchandise and but for what the desk still
  takes. An edit of whole merchandise copies all of its shelves.
- `Ahead`: that is on the shelves from the one on where the desk stands.
  `decrease_stock` gets it from `Covered`, a round keeps it, and
  `CheckoutAdvances` is its consequence.
- `Catalogued`: `PairsInCatalogue`. A removal takes out of each cart as much as the
  list shows, and by `Covered` no cart holds more of it if the list shows all.

Clobbered merchandise is exempt where the properties exempt it. The sums are folds
over sets in an order nobody knows: `SumIs` to `SumReindex` are what is needed of
them, by an induction over the subsets of a finite set (`SubsetInduction`). On them
rest what a list operation does to the goods on the shelves (`StockInserted`,
`StockDropped`, `ReplenishedFacts`, `TakenFacts`), what is put into a cart or taken
out of one does to what all carts hold (`CartWith`, `CartLess`, `HeldChange`), and
what the steps of a checkout do to what is pending (`PendingStarts`, `PendingNext`,
`PendingServed`, `PendingEnds`). `SecondTestNeverFails` is why `add_to_cart` is
modelled with one test of the stock where the code has two.

### Induction

The induction theorems of the library take a predicate, which these provers cannot
instantiate. `InductionProofs` gets around it: a statement about all numbers up to
n is the set of the numbers it holds for (`UpTo`), or fails for, of which there
would be a least one (`LeastNatural`, from the library's well-founded minimum).
`LoopExists` is what defines a recursive function or a fold by its steps, and
`Total` with its lemmas are sums.

### Only model-checked

- liveness, `CheckoutEndsUnlessClobbered`: out of the prover's reach;
- of a collection in which a root is too close nothing is proved but the types.
  What happens there is `collector_elsewhere`.

## 5. Not modelled

- what `h_delete` frees and what leaks (the map is allocated twice at
  `gc.c:68, 78`, `start` is never set): no state depends on it;
- the store's menu and the conversions of its input, which hold no state, its
  printing, `calculate_cost`, which returns a number and changes nothing, and `is_shelf`
  (the model's shelves are names it accepts);
- the ported containers as users of the heap: they assume that an allocation
  succeeds and gives zeroed memory of their own. It does not when the heap is full
  (nobody looks at the `NULL`), nor where a layout is shorter than the struct
  (`make_merch`, `ioopm_hash_table_create_dynamic`);
- a table of more than twelve entries in `Store`: it has grown, see `HashTable`;
- hash functions of strings, `int` overflow of amounts and prices, and
  descriptions, which nothing reads;
- string buffers (one is a letter too short, `bit_vector.c:111-132`); the string conversions and `copy_bits` helpers of
  `bit_manip.c`, which only tests use;
- writes of the map behind its end, after an overrun: the model has stopped;
- the words of a foreign stack: slots hold heap addresses or nothing. A number
  that looks like an address is a slot with a stale address.

## 6. Plan

1. *(done)* `Heap`, `HeapProofs`, `Arena`; `Collector`; `HeaderWord`,
   `Layout` and their proofs.
2. *(done)* The demo: `LinkedList` and `ListPromise`, `HashTable` and `MapSpec`,
   `Store`; `h_delete_dbg` in `Collector`.
3. *(done)* Proofs of what the runs check of `Collector`, `Layout`, `LinkedList` and
   `HashTable`, and the refinements of `Arena`, `ListPromise` and `MapSpec`.
4. *(done)* Proofs of what the `store` run checks, but for its liveness.
