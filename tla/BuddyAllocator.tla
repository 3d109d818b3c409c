--------------------------- MODULE BuddyAllocator ---------------------------
(***************************************************************************)
(* The physical page allocator, sys/buddy_allocator.cpp, for one usable    *)
(* memory range of NumPages pages.                                         *)
(*                                                                         *)
(* Every page has a FreeListEntry in its range's page_entries_ array; the  *)
(* entry of a block's first page stands for the block, so an entry is      *)
(* modelled by its page number and an address by its page offset from      *)
(* base_.  Orders are relative to MIN_ORDER: a block of order k has 2^k    *)
(* pages.  The lists are modelled at the level of their links, because the *)
(* code's correctness is exactly a matter of what is left in forward_ and  *)
(* backward_.                                                              *)
(*                                                                         *)
(* A call runs to completion before the next one starts (one processor, no *)
(* preemption), but the loops of Allocate and Free are one step per        *)
(* iteration, between which pc, entry, cur and block_order hold the        *)
(* call's local variables.                                                 *)
(***************************************************************************)
EXTENDS Integers, FiniteSets

CONSTANTS
  NumPages,     \* pages in the range, after its metadata
  MaxOrder,     \* the largest order with a list; MAX_ORDER - MIN_ORDER - 1
  MdataPages,   \* pages of metadata before base_
  MinOrder,     \* MIN_ORDER, log2 of the page size; seen only in num_blocks_
  Word,         \* modulus of the size_t counters, 2^64 in the code
  Sizes,        \* request sizes the clients use, in pages
  Null          \* nullptr

Pages   == 0 .. NumPages - 1
Entries == 0 .. NumPages      \* BuddyOf may name the entry just past the end
Orders  == 0 .. MaxOrder
Pointer == Entries \cup {Null}

ASSUME BuddyAssumption ==
  /\ NumPages \in Nat \ {0}
  /\ MaxOrder \in Nat
  /\ MdataPages \in Nat \ {0}
  /\ MinOrder \in Nat
  /\ Word \in Nat \ {0}
  /\ Sizes \subseteq Nat \ {0}
  /\ Null \notin Int

\* Powers of two, and every request and the range itself within the orders.
ASSUME OrderAssumption ==
  /\ \A k \in 0 .. MaxOrder + 1 : 2^k \in Nat \ {0} /\ 2^(k + 1) = 2 * 2^k
  /\ 2^0 = 1
  /\ NumPages < 2^MaxOrder
  /\ \A s \in Sizes : s <= 2^MaxOrder

VARIABLES
  lists,         \* free_lists_ and the entries' fields
  num_blocks,    \* num_blocks_
  mem_in_use,    \* mem_in_use_, in pages
  live,          \* <<page, order>> of the blocks the clients hold
  pc,            \* where the running call stands
  entry,         \* its current entry (entry, alloc_entry)
  cur,           \* Allocate's loop variable order
  block_order,   \* Allocate's block_order
  old,           \* the block a Realloc frees once it has allocated
  stale          \* history: a removal went through an outdated forward_

call == <<pc, entry, cur, block_order, old>>
vars == <<lists, num_blocks, mem_in_use, live, call, stale>>

-----------------------------------------------------------------------------
(* Linked-list primitives; m is a value of lists.                           *)

\* An assignment through a pointer that the code makes only if it is not null.
Store(f, p, v) == IF p = Null THEN f ELSE [f EXCEPT ![p] = v]

PushFront(m, k, e) ==
  [m EXCEPT !.order[e] = k,
            !.forward[e] = m.head[k],
            !.backward = Store(@, m.head[k], e),
            !.head[k] = e]

\* mutant: the new head keeps what was behind it
PopFrontOnly(m, k) == [m EXCEPT !.head[k] = m.forward[m.head[k]]]

\* The popped entry keeps its forward_.
PopFront(m, k) ==
  LET next == m.forward[m.head[k]]
  IN  [m EXCEPT !.head[k] = next,
                !.backward = Store(@, next, Null)]

Remove(m, e) ==
  LET f == m.forward[e]
      b == m.backward[e]
      k == m.order[e]
  IN  [m EXCEPT !.backward = [Store(@, f, b) EXCEPT ![e] = Null],
                !.forward  = [Store(@, b, f) EXCEPT ![e] = Null],
                !.head     = IF k \in Orders /\ m.head[k] = e
                             THEN [@ EXCEPT ![k] = f] ELSE @]

\* An entry is on a list if something is behind it or it is the head.
Listed(m, e) == \/ m.backward[e] # Null
                \/ m.order[e] \in Orders /\ m.head[m.order[e]] = e

\* Remove(e) of an entry that is on no list follows the forward_ that
\* PopFront left there and clears a link of an entry that is on one.
StaleLink(m, e) == /\ ~Listed(m, e)
                   /\ m.forward[e] # Null
                   /\ m.backward[m.forward[e]] # Null

StaleRemoval(m, e1, e2) == StaleLink(m, e1) \/ StaleLink(Remove(m, e1), e2)

SetFree(m, e, b) == [m EXCEPT !.free[e] = b]

-----------------------------------------------------------------------------
(* Geometry.                                                                *)

CeilLog2(n) == CHOOSE k \in Orders : /\ n <= 2^k
                                     /\ \A j \in Orders : n <= 2^j => k <= j

\* Flip bit k of the offset; null outside the range, whose test is inclusive.
BuddyOf(e, k) ==
  LET b == IF (e \div 2^k) % 2 = 0 THEN e + 2^k ELSE e - 2^k
  IN  IF b \in Entries THEN b ELSE Null

MergeableAnyOrder(m, e, b) == b # Null /\ m.free[b]   \* mutant: order_ not compared

Mergeable(m, e, b) ==
  /\ b # Null
  /\ m.free[b]
  /\ m.order[b] = m.order[e]

Lower(b1, b2) == IF b1 < b2 THEN b1 ELSE b2
Upper(b1, b2) == IF b1 < b2 THEN b2 ELSE b1

\* mutant: the merged block keeps its order
MergeSameOrder(m, b1, b2) ==
  LET m1 == Remove(Remove(m, Lower(b1, b2)), Upper(b1, b2))
  IN  PushFront(m1, m1.order[b1], Lower(b1, b2))

Merge(m, b1, b2) ==
  LET m1 == Remove(Remove(m, Lower(b1, b2)), Upper(b1, b2))
  IN  PushFront(m1, m1.order[Lower(b1, b2)] + 1, Lower(b1, b2))

\* mutant: the lower half is not pushed
SplitDropsLower(m, e, k) ==
  LET buddy == BuddyOf(e, k - 1)
      m1    == Remove(Remove(m, buddy), e)
  IN  [m1 EXCEPT !.order[e] = k - 1, !.order[buddy] = k - 1, !.free[e] = TRUE]

\* Halve the block of order k at e: the lower half is pushed, the upper one
\* is what Split returns.
Split(m, e, k) ==
  LET buddy == BuddyOf(e, k - 1)
      m1    == Remove(Remove(m, buddy), e)
      m2    == [m1 EXCEPT !.order[e] = k - 1, !.order[buddy] = k - 1,
                          !.free[e] = TRUE]
  IN  PushFront(m2, k - 1, e)

-----------------------------------------------------------------------------
(* CatalogRange.  Pages are handed to the lists largest block first, each   *)
(* order at most once, while more than one page remains: the last page of   *)
(* an odd range, or of a range that is a power of two, is in no list.       *)

Catalogued ==
  IF \E k \in Orders : NumPages = 2^k THEN NumPages - 1
                                      ELSE NumPages - (NumPages % 2)

HasBlock(k) == (Catalogued \div 2^k) % 2 = 1
BlockBase(k) == (Catalogued \div 2^(k + 1)) * 2^(k + 1)
Catalogue == {k \in Orders : HasBlock(k)}

\* The loop indexes page_entries_ from the range's start and not from base_,
\* so the first MdataPages entries are never written: what free_ holds there
\* is whatever the memory held (links and order_ are taken as zero).
CatalogRange ==
  \E junk \in [0 .. MdataPages - 1 -> BOOLEAN] :
    lists =
      [forward  |-> [e \in Entries |-> Null],
       backward |-> [e \in Entries |-> Null],
       order    |-> [e \in Entries |->
                       IF \E k \in Catalogue : BlockBase(k) = e
                       THEN CHOOSE k \in Catalogue : BlockBase(k) = e
                       ELSE IF e < MdataPages THEN -1 ELSE 0],
       free     |-> [e \in Entries |->
                       IF e < MdataPages THEN junk[e] ELSE TRUE],
       head     |-> [k \in Orders |->
                       IF HasBlock(k) THEN BlockBase(k) ELSE Null]]

Init ==
  /\ CatalogRange
  /\ num_blocks = Catalogued % Word
  /\ mem_in_use = 0
  /\ live = {}
  /\ pc = "idle"
  /\ entry = Null
  /\ cur = 0
  /\ block_order = 0
  /\ old = Null
  /\ stale = FALSE

-----------------------------------------------------------------------------
(* Allocate.                                                                *)

Return == /\ pc' = "idle"
          /\ entry' = Null
          /\ cur' = 0
          /\ block_order' = 0
          /\ old' = Null

\* What follows an Allocate: its caller, or the rest of the Realloc that
\* called it, whose Free(allocation) comes whether or not it got a block.
AllocateReturns(o) ==
  IF o = Null THEN Return
  ELSE /\ pc' = "free"
       /\ entry' = o
       /\ cur' = 0
       /\ block_order' = 0
       /\ old' = Null

\* mutant: a block one order too small is taken
StartAllocateSmall(size, o) ==
  LET want == CeilLog2(size)
      fit  == {k \in Orders : k >= want - 1 /\ lists.head[k] # Null}
  IN  /\ num_blocks' = (num_blocks - 2^want) % Word
      /\ \E k \in fit :
           /\ pc' = "split"
           /\ entry' = lists.head[k]
           /\ cur' = k
           /\ block_order' = want
           /\ old' = o
           /\ lists' = PopFront(lists, k)

\* The head of Allocate: charge num_blocks_, then pop the first block of a
\* sufficient order, if there is one.  o is what the calling Realloc frees.
StartAllocate(size, o) ==
  LET want == CeilLog2(size)
      fit  == {k \in Orders : k >= want /\ lists.head[k] # Null}
  IN  /\ num_blocks' = (num_blocks - 2^want) % Word
      /\ \/ /\ fit = {}
            /\ AllocateReturns(o)
            /\ UNCHANGED lists
         \/ \E k \in fit :
              /\ \A j \in fit : k <= j
              /\ pc' = "split"
              /\ entry' = lists.head[k]
              /\ cur' = k
              /\ block_order' = want
              /\ old' = o
              /\ lists' = PopFront(lists, k)

Allocate(size) ==
  /\ pc = "idle"
  /\ StartAllocate(size, Null)
  /\ UNCHANGED <<mem_in_use, live, stale>>

\* One iteration of the loop that halves the block.  A null buddy would be
\* dereferenced, and the processor would go no further.
SplitStep ==
  /\ pc = "split"
  /\ cur > block_order
  /\ BuddyOf(entry, cur - 1) # Null
  /\ lists' = LET upper == BuddyOf(entry, cur - 1)
              IN  SetFree(Split(lists, entry, cur), upper, FALSE)
  /\ entry' = BuddyOf(entry, cur - 1)
  /\ cur' = cur - 1
  /\ stale' = (stale \/ StaleRemoval(lists, BuddyOf(entry, cur - 1), entry))
  /\ UNCHANGED <<num_blocks, mem_in_use, live, pc, block_order, old>>

\* mutant: the block is not marked used
AllocateEndUnmarked ==
  /\ pc = "split"
  /\ cur = block_order
  /\ lists' = [lists EXCEPT !.order[entry] = block_order]
  /\ mem_in_use' = (mem_in_use + 2^block_order) % Word
  /\ live' = live \cup {<<entry, block_order>>}
  /\ AllocateReturns(old)
  /\ UNCHANGED <<num_blocks, stale>>

\* After the loop: mark the block used, account for it and return it.
AllocateEnd ==
  /\ pc = "split"
  /\ cur = block_order
  /\ lists' = [lists EXCEPT !.free[entry] = FALSE,
                            !.order[entry] = block_order]
  /\ mem_in_use' = (mem_in_use + 2^block_order) % Word
  /\ live' = live \cup {<<entry, block_order>>}
  /\ AllocateReturns(old)
  /\ UNCHANGED <<num_blocks, stale>>

-----------------------------------------------------------------------------
(* Realloc.                                                                 *)

\* A smaller size stays in place, and is charged to mem_in_use_ once more.
ReallocInPlace(p, size) ==
  /\ pc = "idle"
  /\ size < 2^lists.order[p]
  /\ mem_in_use' = (mem_in_use + 2^lists.order[p]) % Word
  /\ UNCHANGED <<lists, num_blocks, live, call, stale>>

\* The result of Allocate is not tested: the copy goes to address 0 if it
\* failed, and the old block is freed all the same.
ReallocMove(p, size) ==
  /\ pc = "idle"
  /\ size >= 2^lists.order[p]
  /\ StartAllocate(size, p)
  /\ UNCHANGED <<mem_in_use, live, stale>>

-----------------------------------------------------------------------------
(* Free.                                                                    *)

StartFree(p) ==
  LET k == lists.order[p]
      b == BuddyOf(p, k)
  IN  /\ num_blocks' = (num_blocks + 2^(MinOrder + k)) % Word
      /\ live' = live \ {<<p, k>>}
      /\ \/ /\ ~Mergeable(lists, p, b)
            /\ lists' = PushFront(SetFree(lists, p, TRUE), k, p)
            /\ mem_in_use' = (mem_in_use - 2^k) % Word
            /\ Return
         \/ /\ Mergeable(lists, p, b)
            /\ pc' = "merge"
            /\ entry' = p
            /\ UNCHANGED <<lists, mem_in_use, cur, block_order, old>>
      /\ UNCHANGED stale

Free(p) == pc = "idle" /\ StartFree(p)

\* Realloc's Free(allocation).
ReallocFree == pc = "free" /\ StartFree(entry)

\* mutant: merges once and returns
MergeStepOnce ==
  LET b == BuddyOf(entry, lists.order[entry])
  IN  /\ pc = "merge"
      /\ Mergeable(lists, entry, b)
      /\ lists' = Merge(SetFree(lists, entry, TRUE), entry, b)
      /\ stale' = (stale \/ StaleRemoval(lists, Lower(entry, b), Upper(entry, b)))
      /\ Return
      /\ UNCHANGED <<num_blocks, mem_in_use, live>>

\* One iteration of the loop that merges the block with its buddy.
MergeStep ==
  LET b == BuddyOf(entry, lists.order[entry])
  IN  /\ pc = "merge"
      /\ Mergeable(lists, entry, b)
      /\ lists' = Merge(SetFree(lists, entry, TRUE), entry, b)
      /\ entry' = Lower(entry, b)
      /\ stale' = (stale \/ StaleRemoval(lists, Lower(entry, b), Upper(entry, b)))
      /\ UNCHANGED <<num_blocks, mem_in_use, live, pc, cur, block_order, old>>

\* The loop's exit: what is subtracted is the size of the merged block.
FreeEnd ==
  /\ pc = "merge"
  /\ ~Mergeable(lists, entry, BuddyOf(entry, lists.order[entry]))
  /\ mem_in_use' = (mem_in_use - 2^lists.order[entry]) % Word
  /\ Return
  /\ UNCHANGED <<lists, num_blocks, live, stale>>

MemCritical(total) == mem_in_use >= total \div 2

-----------------------------------------------------------------------------

\* Clients ask for blocks and give back or resize blocks they hold.
ClientCall ==
  \/ \E s \in Sizes : Allocate(s)
  \/ \E b \in live : \/ Free(b[1])
                     \/ \E s \in Sizes : \/ ReallocInPlace(b[1], s)
                                         \/ ReallocMove(b[1], s)

\* The rest of the running call.
Continue == SplitStep \/ AllocateEnd \/ ReallocFree \/ MergeStep \/ FreeEnd

Next == ClientCall \/ Continue

Spec == Init /\ [][Next]_vars

\* The processor runs a call it has started to its end.
FairSpec == Spec /\ WF_vars(Continue)

-----------------------------------------------------------------------------
(* Properties.                                                              *)

FreeBlocks == {<<e, lists.order[e]>> : e \in {x \in Entries : Listed(lists, x)}}

\* The block a call has taken off the lists or got back from its caller.
InHand == CASE pc = "split" -> {<<entry, cur>>}
            [] pc = "merge" -> {<<entry, lists.order[entry]>>}
            [] OTHER        -> {}

Blocks == FreeBlocks \cup live \cup InHand
Extent(b) == b[1] .. b[1] + 2^b[2] - 1

\* Type invariant: links, orders and the running call's variables in range; the
\* halving loop of Allocate never goes below the order asked for.
TypeOK ==
  /\ lists \in [forward : [Entries -> Pointer], backward : [Entries -> Pointer],
                order : [Entries -> -1 .. MaxOrder], free : [Entries -> BOOLEAN],
                head : [Orders -> Pointer]]
  /\ num_blocks \in 0 .. Word - 1
  /\ mem_in_use \in 0 .. Word - 1
  /\ live \subseteq Entries \X Orders
  /\ pc \in {"idle", "split", "merge", "free"}
  /\ entry \in Pointer
  /\ (pc # "idle") => entry \in Entries
  /\ cur \in Orders
  /\ block_order \in Orders
  /\ (pc = "split") => cur >= block_order
  /\ old \in Pointer
  /\ stale \in BOOLEAN

\* The lists are doubly linked: a head is on the list of its order and has
\* nothing behind it, and forward_ and backward_ of listed entries are each
\* other's inverse and stay within one order.
WellLinked(m) ==
  /\ \A k \in Orders : m.head[k] # Null =>
       m.order[m.head[k]] = k /\ m.backward[m.head[k]] = Null
  /\ \A e \in Entries : m.backward[e] # Null =>
       LET b == m.backward[e]
       IN  /\ m.forward[b] = e
           /\ m.order[b] = m.order[e]
           /\ Listed(m, b)
  /\ \A e \in Entries : Listed(m, e) /\ m.forward[e] # Null =>
       m.backward[m.forward[e]] = e

\* Until a removal has gone through an outdated forward_, every list the code
\* builds by PushFront, PopFront and Remove is a doubly linked list.
LinksSound == ~stale => WellLinked(lists)

\* Until then, no page is in two blocks: not held by two clients, not held and
\* on a free list, not on two lists.  Every block lies in the range, at a
\* multiple of its size.
BlocksDisjoint ==
  ~stale =>
    /\ live \cap (FreeBlocks \cup InHand) = {}
    /\ \A b, c \in Blocks : b # c => Extent(b) \cap Extent(c) = {}
    /\ \A b \in Blocks : b[1] % 2^b[2] = 0 /\ Extent(b) \subseteq Pages

\* Until then, no page is lost by splitting and merging: every page that
\* CatalogRange handed out is in a block.
NoPageLost ==
  ~stale => 0 .. Catalogued - 1 \subseteq UNION {Extent(b) : b \in Blocks}

\* Until then, the entry of a block a client holds carries the order it was
\* allocated with and is not marked free: Free reads nothing else.
LiveMarked ==
  ~stale => \A b \in live : lists.order[b[1]] = b[2] /\ ~lists.free[b[1]]

\* "continually merge the order with its buddy so long as the buddy is free"
\* (buddy_allocator.h:50-52): between calls no two free buddies are both on a
\* list, unless free_ of one was never written.
Coalesced ==
  ~stale /\ pc = "idle" =>
    \A e \in Entries :
      Listed(lists, e) /\ lists.free[e] =>
        LET b == BuddyOf(e, lists.order[e])
        IN  ~(Mergeable(lists, e, b) /\ Listed(lists, b))

\* Every call returns: the merging loop runs out of buddies and the halving
\* loop reaches the requested order.
CallsReturn == (pc # "idle") ~> (pc = "idle")

-----------------------------------------------------------------------------
(* What the documentation says and the code does not do.                    *)

\* The entries met when the list of order k is followed from its head.
OnList(k) ==
  LET walk[n \in 0 .. NumPages + 1] ==
        IF n = 0 THEN lists.head[k]
        ELSE IF walk[n - 1] = Null THEN Null ELSE lists.forward[walk[n - 1]]
  IN  {walk[n] : n \in 0 .. NumPages + 1} \ {Null}

\* "It will then pop that entry from the freelist" (buddy_allocator.h:27-28):
\* a block a client holds is not on a list, where it could be popped again.
PoppedMeansUnlisted == \A b \in live, k \in Orders : b[1] \notin OnList(k)

=============================================================================
