-------------------------------- MODULE Store --------------------------------
(***************************************************************************)
(* The web store of src/demo/inlupp2: merchandise on shelves, carts, and   *)
(* the menu loop of store.c that calls stor_functions.c.  A list is its    *)
(* chain (see Chain), a hash table a function (see HashTable); merchandise *)
(* is an object, since carts point to it, and is never freed.              *)
(*                                                                         *)
(* Every operation is one step of the menu but checkout, whose inner loop  *)
(* takes one step per shelf: it is the one that need not end.  A refused   *)
(* operation changes nothing and is left out.                              *)
(***************************************************************************)
EXTENDS Chain, Integers, SequencesExt

CONSTANTS
  Names,       \* of merchandise
  Shelves,     \* names is_shelf accepts
  Prices,
  Deliveries,  \* amounts replenish is asked for
  Quantities,  \* amounts put into a cart or taken out of it
  MaxMerch,    \* bound: merchandise ever made
  MaxCarts,    \* bound: carts ever made
  MaxStock,    \* bound: what all shelves together hold
  MaxShelves   \* bound: shelves of all merchandise, hidden ones included

ASSUME StoreAssumption ==
  /\ Prices \subseteq Nat /\ Deliveries \subseteq Nat /\ Quantities \subseteq Nat
  /\ MaxMerch \in Nat /\ MaxCarts \in Nat /\ MaxStock \in Nat
  /\ MaxShelves \in Nat

VARIABLES
  merch,           \* the merchandise made so far, one object after the other
  all_merch,       \* name -> index into merch, or NULL
  all_carts,       \* key -> cart; a cart is name -> [merch, amount_in_cart]
  created_carts,
  desk,            \* the checkout under way, or Menu, or Dead
  clobbered,       \* history: merchandise given the shelves of another
  lossy,           \* history: merchandise an edit made of some not Whole
  book             \* history: what was delivered of each and not sold

storeVars == <<merch, all_merch, all_carts, created_carts, desk, clobbered, lossy, book>>

NULL == 0
Menu == [at |-> "menu"]
Dead == [at |-> "dead"]     \* a NULL pointer was followed
AtMenu == desk = Menu

shelf_pair(shelf, num) == [shelf_name |-> shelf, num_of_merch |-> num]
cart_pair(m, amount) == [merch |-> m, amount_in_cart |-> amount]

-----------------------------------------------------------------------------
SumOfShelves(pairs) == SumFunction([i \in DOMAIN pairs |-> pairs[i].num_of_merch])

num_for_shelfs(m) == SumOfShelves(Shown(merch[m].shelfs))

num_of_merch_in_one_cart(cart) ==
  SumFunction([name \in DOMAIN cart |-> cart[name].amount_in_cart])

(* What the bounds are about. *)
AllShelves == SumFunction([m \in DOMAIN merch |-> Len(merch[m].shelfs.links)])
AllStock == SumFunction([m \in DOMAIN merch |-> SumOfShelves(merch[m].shelfs.links)])

(* All the goods in all carts, not those of one merchandise only. *)
num_of_merch_in_carts ==
  SumFunction([key \in DOMAIN all_carts |-> num_of_merch_in_one_cart(all_carts[key])])

(* This cart only. *)
Available_OneCart(m, key, quantity) ==
  quantity + num_of_merch_in_one_cart(all_carts[key]) <= num_for_shelfs(m)

Available(m, key, quantity) ==
  quantity + num_of_merch_in_carts <= num_for_shelfs(m)

InCart(cart, name) == IF name \in DOMAIN cart THEN cart[name].amount_in_cart ELSE 0

(* A hash table with the value v for k, and without any. *)
With(table, k, v) == [x \in DOMAIN table \cup {k} |-> IF x = k THEN v ELSE table[x]]
Drop(table, k) == [x \in DOMAIN table \ {k} |-> table[x]]

(* The last one is left in the cart. *)
Less_Kept(cart, name, quantity) ==
  IF name \notin DOMAIN cart THEN cart
  ELSE [cart EXCEPT ![name].amount_in_cart = @ - quantity]

(* What remove_from_cart leaves of a cart. *)
Less(cart, name, quantity) ==
  IF name \notin DOMAIN cart THEN cart
  ELSE IF cart[name].amount_in_cart <= quantity THEN Drop(cart, name)
  ELSE [cart EXCEPT ![name].amount_in_cart = @ - quantity]

(* The carts are forgotten. *)
remove_merchandise_all_carts_None(name, quantity) == all_carts

remove_merchandise_all_carts(name, quantity) ==
  [key \in DOMAIN all_carts |-> Less(all_carts[key], name, quantity)]

(* The first shelf is not copied. *)
copy_shelfs_Short(c) ==
  LET copies == Reverse(SubSeq(c.links, 2, c.size)) IN Chained(copies, Len(copies))

(* Copies of the shelves the list shows, in the opposite order. *)
copy_shelfs(c) == Chained(Reverse(Shown(c)), c.size)

(* Its shelves are its own, and the list shows them all. *)
Regular(m) == m \notin clobbered /\ ~Hidden(merch[m].shelfs)

(* Nor did an edit take it over from merchandise of which that is not so.  *)
Whole(m) == Regular(m) /\ m \notin lossy

Booked(m, n) == [book EXCEPT ![m] = @ + n]

-----------------------------------------------------------------------------
make_merch(name, price, shelfs) == [name |-> name, price |-> price, shelfs |-> shelfs]

add_merchandise(name, price) ==
  /\ AtMenu /\ Len(merch) < MaxMerch
  /\ all_merch[name] = NULL
  /\ merch' = Append(merch, make_merch(name, price, Empty))
  /\ all_merch' = [all_merch EXCEPT ![name] = Len(merch) + 1]
  /\ book' = Append(book, 0)
  /\ UNCHANGED <<all_carts, created_carts, desk, clobbered, lossy>>

remove_merchandise(name) ==
  /\ AtMenu /\ all_merch[name] # NULL
  /\ all_carts' = remove_merchandise_all_carts(name, num_for_shelfs(all_merch[name]))
  /\ all_merch' = [all_merch EXCEPT ![name] = NULL]
  /\ UNCHANGED <<merch, created_carts, desk, clobbered, lossy, book>>

(* The merchandise is removed and made again, unless there is one with the *)
(* new name: that one gets the shelves.  The book goes on as it was: what  *)
(* was delivered and not sold under the old name is to be there still.     *)
edit_merchandise(name, new_name, price) ==
  /\ AtMenu /\ all_merch[name] # NULL
  /\ LET new_shelfs == copy_shelfs(merch[all_merch[name]].shelfs)
         others == [all_merch EXCEPT ![name] = NULL]
         m == others[new_name]
         old == all_merch[name]
     IN  \/ /\ m = NULL /\ Len(merch) < MaxMerch
            /\ merch' = Append(merch, make_merch(new_name, price, new_shelfs))
            /\ all_merch' = [others EXCEPT ![new_name] = Len(merch) + 1]
            /\ book' = Append(book, book[old])
            /\ lossy' = IF Whole(old) THEN lossy ELSE lossy \cup {Len(merch) + 1}
            /\ UNCHANGED clobbered
         \/ /\ m # NULL
            /\ merch' = [merch EXCEPT ![m].shelfs = new_shelfs]
            /\ all_merch' = others
            /\ clobbered' = clobbered \cup {m}
            /\ UNCHANGED <<lossy, book>>
  /\ all_carts' = remove_merchandise_all_carts(name, num_for_shelfs(all_merch[name]))
  /\ UNCHANGED <<created_carts, desk>>

(* Goods can disappear from the shelves with the list's habit of hiding    *)
(* its last link (Removed in Chain).  The search goes as far as the list   *)
(* shows.                                                                  *)
index_for_shelf_pair(c, shelf) ==
  LET hits == {i \in 1 .. c.size : c.links[i].shelf_name = shelf}
  IN  IF hits = {} THEN -1 ELSE Min(hits) - 1

Replenished(c, shelf, n) ==
  LET index == index_for_shelf_pair(c, shelf)
  IN  IF index < 0 THEN Prepended(c, shelf_pair(shelf, n))
      ELSE Appended(Removed(c, index),
                    shelf_pair(shelf, c.links[index + 1].num_of_merch + n))

replenish(name, shelf, n) ==
  /\ AtMenu /\ all_merch[name] # NULL
  /\ LET m == all_merch[name] IN
     /\ merch' = [merch EXCEPT ![m].shelfs = Replenished(@, shelf, n)]
     /\ AllShelves' <= MaxShelves /\ AllStock' <= MaxStock
     /\ book' = Booked(m, n)
  /\ UNCHANGED <<all_merch, all_carts, created_carts, desk, clobbered, lossy>>

create_cart ==
  /\ AtMenu /\ created_carts < MaxCarts
  /\ created_carts' = created_carts + 1
  /\ all_carts' = With(all_carts, created_carts + 1, << >>)
  /\ UNCHANGED <<merch, all_merch, desk, clobbered, lossy, book>>

(* The second test of the stock follows from the first one. *)
add_to_cart(key, name, quantity) ==
  /\ AtMenu /\ all_merch[name] # NULL
  /\ Available(all_merch[name], key, quantity)
  /\ all_carts' = [all_carts EXCEPT ![key] =
       With(@, name, cart_pair(all_merch[name], quantity + InCart(@, name)))]
  /\ UNCHANGED <<merch, all_merch, created_carts, desk, clobbered, lossy, book>>

remove_from_cart(key, name, quantity) ==
  /\ AtMenu
  /\ all_carts' = [all_carts EXCEPT ![key] = Less(@, name, quantity)]
  /\ UNCHANGED <<merch, all_merch, created_carts, desk, clobbered, lossy, book>>

(* A lookup that finds a cart removes it. *)
remove_cart(key) ==
  /\ AtMenu
  /\ all_carts' = Drop(all_carts, key)
  /\ UNCHANGED <<merch, all_merch, created_carts, desk, clobbered, lossy, book>>

-----------------------------------------------------------------------------
(* checkout: for each pair of the cart, in an order the hash table gives,  *)
(* decrease_stock walks over the shelves until the amount is taken.        *)
checkout(key) ==
  /\ AtMenu
  /\ desk' = [at |-> "desk", cart |-> key, pairs |-> DOMAIN all_carts[key],
              merch |-> NULL, shelf |-> 0, amount |-> 0]
  /\ UNCHANGED <<merch, all_merch, all_carts, created_carts, clobbered, lossy, book>>

AtDesk == desk.at = "desk"

decrease_stock(name) ==
  /\ AtDesk /\ desk.amount = 0 /\ name \in desk.pairs
  /\ LET pair == all_carts[desk.cart][name] IN
     /\ desk' = [desk EXCEPT !.pairs = @ \ {name}, !.merch = pair.merch,
                             !.shelf = 1, !.amount = pair.amount_in_cart]
     /\ book' = Booked(pair.merch, -pair.amount_in_cart)
  /\ UNCHANGED <<merch, all_merch, all_carts, created_carts, clobbered, lossy>>

(* Only as far as the list shows. *)
NextShelf_Shown(c, i) == IF i < c.size THEN i + 1 ELSE i

(* ioopm_iterator_next: hidden links, too, and no further than the last.   *)
NextShelf(c, i) == IF i < Len(c.links) THEN i + 1 ELSE i

Taken(c, i, n) == [c EXCEPT !.links[i].num_of_merch = @ - n]

(* One round of the loop in decrease_stock; an empty list has no first.    *)
ServeShelf ==
  /\ AtDesk /\ desk.amount > 0
  /\ LET c == merch[desk.merch].shelfs IN
     \/ c.links = << >> /\ desk' = Dead /\ UNCHANGED merch
     \/ /\ c.links # << >>
        /\ LET taken == Min({c.links[desk.shelf].num_of_merch, desk.amount}) IN
           /\ merch' = [merch EXCEPT ![desk.merch].shelfs = Taken(@, desk.shelf, taken)]
           /\ desk' = [desk EXCEPT !.amount = @ - taken, !.shelf = NextShelf(c, @)]
  /\ UNCHANGED <<all_merch, all_carts, created_carts, clobbered, lossy, book>>

EndCheckout ==
  /\ AtDesk /\ desk.amount = 0 /\ desk.pairs = {}
  /\ all_carts' = Drop(all_carts, desk.cart)
  /\ desk' = Menu
  /\ UNCHANGED <<merch, all_merch, created_carts, clobbered, lossy, book>>

Serve == (\E name \in Names : decrease_stock(name)) \/ ServeShelf \/ EndCheckout

-----------------------------------------------------------------------------
StoreInit ==   \* create_database
  /\ merch = << >> /\ all_merch = [name \in Names |-> NULL]
  /\ all_carts = << >> /\ created_carts = 0
  /\ desk = Menu /\ clobbered = {} /\ lossy = {} /\ book = << >>

event_loop ==
  \/ \E name \in Names :
       \/ remove_merchandise(name)
       \/ \E price \in Prices :
            \/ add_merchandise(name, price)
            \/ \E new_name \in Names : edit_merchandise(name, new_name, price)
       \/ \E shelf \in Shelves, n \in Deliveries : replenish(name, shelf, n)
       \/ \E key \in DOMAIN all_carts, n \in Quantities :
            \/ add_to_cart(key, name, n)
            \/ remove_from_cart(key, name, n)
  \/ create_cart
  \/ \E key \in DOMAIN all_carts : remove_cart(key) \/ checkout(key)

StoreNext == event_loop \/ Serve

StoreSpec == StoreInit /\ [][StoreNext]_storeVars

(* The program does not wait for the user within a checkout. *)
FairStore == StoreSpec /\ WF_storeVars(Serve)
-----------------------------------------------------------------------------
Pairs == UNION {{<<key, name>> : name \in DOMAIN all_carts[key]} : key \in DOMAIN all_carts}
PairAt(p) == all_carts[p[1]][p[2]]

(* What one cart, and all of them, hold of a merchandise. *)
Amount(pair, m) == IF pair.merch = m THEN pair.amount_in_cart ELSE 0
ReservedIn(cart, m) == SumFunction([name \in DOMAIN cart |-> Amount(cart[name], m)])
Reserved(m) == SumFunction([key \in DOMAIN all_carts |-> ReservedIn(all_carts[key], m)])

(* Objects refer to objects there are, stocks and amounts never fall below *)
(* zero, and no list claims more shelves than it has.                      *)
StoreTypeOK ==
  /\ \A m \in DOMAIN merch :
       /\ merch[m].name \in Names /\ merch[m].price \in Prices
       /\ merch[m].shelfs.size \in 0 .. Len(merch[m].shelfs.links)
       /\ merch[m].shelfs.links \in Seq([shelf_name : Shelves, num_of_merch : 0 .. MaxStock])
  /\ all_merch \in [Names -> DOMAIN merch \cup {NULL}]
  /\ created_carts \in 0 .. MaxCarts /\ DOMAIN all_carts \subseteq 1 .. created_carts
  /\ \A p \in Pairs : /\ p[2] \in Names /\ PairAt(p).merch \in DOMAIN merch
                     /\ PairAt(p).amount_in_cart \in Nat
  /\ desk.at \in {"menu", "dead", "desk"}
  /\ clobbered \subseteq DOMAIN merch /\ lossy \subseteq DOMAIN merch
  /\ book \in Seq(Int) /\ Len(book) = Len(merch)

(* What all carts together hold of a merchandise is on its shelves, shown  *)
(* or hidden, however often it was replenished, removed, edited or sold,   *)
(* unless another was renamed onto it (stor_functions.c:328-373, 249-252). *)
StockCoversCarts ==
  AtMenu => \A m \in DOMAIN merch \ clobbered :
              Reserved(m) <= SumOfShelves(merch[m].shelfs.links)

(* A cart holds merchandise of the catalogue, not some that was removed or *)
(* edited since, unless that had a hidden shelf or another's shelves, so   *)
(* that more was in the cart than it showed (stor_functions.c:90-114, 157).*)
PairsInCatalogue ==
  \A p \in Pairs : Regular(PairAt(p).merch) => all_merch[p[2]] = PairAt(p).merch

(* The stock shown is what was delivered and not sold, under whatever name *)
(* it was: no checkout takes too much or too little, and no edit loses a   *)
(* shelf (stor_functions.c:118-140, 444-472).  It is not so, and not       *)
(* claimed, once a shelf of the merchandise was hidden by replenishing the *)
(* last one (stor_functions.c:249), which an edit then loses for good, or  *)
(* once its shelves went over to another: such merchandise and all that is *)
(* made of it is not Whole.                                                *)
BooksBalance ==
  AtMenu => \A m \in DOMAIN merch : Whole(m) => num_for_shelfs(m) = book[m]

(* As long as an amount is to be taken of merchandise that was not given   *)
(* the shelves of another, the walk over its shelves neither meets NULL    *)
(* nor turns at the last one: every round takes the rest or goes on to the *)
(* next shelf (stor_functions.c:444-472).                                  *)
CheckoutAdvances ==
  [][(AtDesk /\ desk.amount > 0 /\ desk.merch \notin clobbered) =>
       /\ desk'.at = "desk"
       /\ desk'.amount = 0 \/ desk'.shelf = desk.shelf + 1]_storeVars

(* A checkout comes to an end, unless there is merchandise in the cart     *)
(* that was given the shelves of another (stor_functions.c:451).           *)
CheckoutEndsUnlessClobbered ==
  (AtDesk /\ \A p \in Pairs : p[1] = desk.cart => PairAt(p).merch \notin clobbered)
    ~> AtMenu
=============================================================================
