--------------------------------- MODULE KHeap ---------------------------------
(* The kernel heap, sys/kheap.cpp: chunks with boundary tags, free chunks on     *)
(* bins by size, and the top chunk at the end of the heap, which is carved from  *)
(* and grown.                                                                    *)
(*                                                                               *)
(* Sizes and addresses are counted in units of 32 bytes, the size of a chunk's   *)
(* header and the alignment of chunks; addresses are offsets from heap_. A       *)
(* request is what Allocate makes of it: rounded up, with a unit for the header. *)
(* The bins are sequences of chunks, first to last, and a bit of                 *)
(* free_lists_bitmap_ is set if the sequence is not empty. Payloads are not      *)
(* modelled, but what is copied over a header is.                                *)
EXTENDS Integers, Sequences

CONSTANTS
  HeapUnits,   \* initial_size of Init
  MaxUnits,    \* max_heap_size_
  Fine,        \* sizes below it have a bin each: 1024 bytes
  Threshold,   \* PMM_THRESHOLD
  Requests,    \* the sizes clients ask for
  Large,       \* bound: names of the blocks of the page allocator that clients hold
  None

ASSUME KHeapAssumption ==
  /\ HeapUnits \in Nat \ {0} /\ MaxUnits \in Nat /\ MaxUnits >= HeapUnits
  /\ Fine \in Nat \ {0, 1} /\ Threshold \in Nat
  /\ Requests \subseteq Nat \ {0, 1}
  /\ None \notin Int
  /\ 2^0 = 1 /\ \A k \in 0 .. 2 * MaxUnits : 2^k \in Nat /\ 2^(k + 1) = 2 * 2^k

VARIABLES
  heap,      \* the chunks, the top chunk, heap_size_ and the bins; see HeapType
  live,      \* [at, size] of the blocks clients hold: chunk, units asked for
  large,     \* what the header of a block of the page allocator says of it
  pc,        \* "idle", in the loop of "allocate", or at an end: "hang", "fault",
             \* or "strayed": a header was overwritten, or memory given away that
             \* somebody holds, and what follows is not modelled
  want,      \* size of the running Allocate
  from       \* the chunk the running Reallocate moves from, or None

vars == <<heap, live, large, pc, want, from>>

--------------------------------------------------------------------------------
(* Bins.                                                                         *)

Log2(n) == CHOOSE k \in 0..n : 2^k <= n /\ n < 2^(k + 1)

\* One bin for each size below Fine, then two for each power of two.
BinIndex(n) ==
  IF n < Fine THEN n
  ELSE Fine + 2 * (Log2(n) - Log2(Fine)) + ((n \div 2^(Log2(n) - 1)) % 2)

Bins == 0 .. BinIndex(2 * MaxUnits)

\* Mutant of Remove: only the head of a bin is taken out.
RemoveHead(m, e) ==
  LET b == BinIndex(m.hdr[e].size) IN
  IF m.bins[b] # <<>> /\ Head(m.bins[b]) = e THEN [m EXCEPT !.bins[b] = Tail(@)] ELSE m

Without(s, i) == [j \in 1 .. Len(s) - 1 |-> s[IF j < i THEN j ELSE j + 1]]

\* Links that are null, those of the top chunk, are not followed.
Remove(m, e) ==
  LET b  == BinIndex(m.hdr[e].size)
      at == {i \in DOMAIN m.bins[b] : m.bins[b][i] = e}
  IN  IF at = {} THEN m ELSE [m EXCEPT !.bins[b] = Without(@, CHOOSE i \in at : TRUE)]

PushFront(m, e) == [m EXCEPT !.bins[BinIndex(m.hdr[e].size)] = <<e>> \o @]

\* FindEntry looks into the greatest bin that is not empty, and clears from its
\* mask a bin after the one of the size on every round: when it gets to the
\* greatest bin only the bin of the size is left. A chunk of exactly the size
\* will not do.
FindEntry(m, u) ==
  LET full == {b \in Bins : b >= BinIndex(u) /\ m.bins[b] # <<>>}
      last == CHOOSE b \in full : \A c \in full : c <= b
      fits == {i \in DOMAIN m.bins[last] : m.hdr[m.bins[last][i]].size > u}
  IN  IF full = {} \/ fits = {} THEN None
      ELSE m.bins[last][CHOOSE i \in fits : \A j \in fits : i <= j]

--------------------------------------------------------------------------------
(* Chunks; m is a value of heap.                                                 *)

NextChunk(m, e) == e + m.hdr[e].size

\* What hdr has where no chunk begins.
NoChunk == [size |-> 0, used |-> FALSE, psize |-> 0, pused |-> FALSE]
ChunksOf(m) == {c \in DOMAIN m.hdr : m.hdr[c].size > 0}

\* next->prev_size_ = entry->size_
TellNext(m, e) ==
  LET n == NextChunk(m, e) IN
  [m EXCEPT !.hdr[n] = [@ EXCEPT !.psize = m.hdr[e].size, !.pused = m.hdr[e].used]]

\* What is left of a chunk cut to u units is free.
Cut(m, e, u) ==
  LET rest == [size |-> m.hdr[e].size - u, used |-> FALSE, psize |-> u, pused |-> TRUE]
  IN  [m EXCEPT !.hdr[e] = [@ EXCEPT !.size = u, !.used = TRUE], !.hdr[e + u] = rest,
                !.top = IF e = @ THEN e + u ELSE @]

\* Mutant of Split: the chunk behind the remainder is not told.
SplitSilent(m, e, u) == Cut(m, e, u)

Split(m, e, u) ==
  IF e = m.top THEN Cut(m, e, u) ELSE TellNext(Cut(m, e, u), e + u)

SplitAndPush(m, e, u) ==
  LET cut == Split(m, e, u) IN
  IF e + u # cut.top THEN PushFront(cut, e + u) ELSE cut

\* Where MergeWithNeighbors makes the chunk begin.
Start(m, e) ==
  IF ~m.hdr[e].pused /\ m.hdr[e].psize > 0 THEN e - m.hdr[e].psize ELSE e

\* entry absorbs the chunk behind it.
Absorb(m, e, n) ==
  [m EXCEPT !.hdr[e].size = @ + m.hdr[n].size, !.hdr[n] = NoChunk,
            !.top = IF n = @ THEN e ELSE @]

\* The chunk keeps the in-use bit it came with: set in Reallocate, not in Free.
MergePrev(m, e) ==
  LET p == Start(m, e) IN
  IF p = e THEN m
  ELSE [Absorb(Remove(m, p), p, e) EXCEPT !.hdr[p].used = m.hdr[e].used]

\* Mutant of MergeNext: the top chunk is left alone.
MergeNextNotTop(m, e) ==
  LET n == NextChunk(m, e) IN
  IF m.hdr[n].used \/ n = m.top THEN m ELSE Absorb(Remove(m, n), e, n)

MergeNext(m, e) ==
  LET n == NextChunk(m, e) IN
  IF m.hdr[n].used THEN m ELSE Absorb(Remove(m, n), e, n)

MergeWithNeighbors(m, e) ==
  LET p == Start(m, e)
      merged == MergeNext(MergePrev(m, e), p)
  IN  IF p = merged.top THEN merged ELSE TellNext(merged, p)

Release(m, e) ==
  LET merged == MergeWithNeighbors([m EXCEPT !.hdr[e].used = FALSE], e)
      p == Start(m, e)
  IN  IF p = merged.top THEN merged ELSE PushFront(merged, p)

\* The end of Allocate.
MarkUsed(m, e) == TellNext([m EXCEPT !.hdr[e].used = TRUE], e)

\* Small chunks are handed out whole.
TakeChunk(m, e, u) ==
  LET out == Remove(m, e) IN
  MarkUsed(IF u >= Fine /\ m.hdr[e].size > u THEN SplitAndPush(out, e, u) ELSE out, e)

TakeTop(m, u) == MarkUsed(Split(m, m.top, u), m.top)

\* What Verify goes through, from heap_ to top_: sizes lead from chunk to chunk,
\* prev_size_ is what the chunk before says (that of top_ is not looked at), and
\* the sizes add up, that of the top chunk with its in-use bit.
Verify(m) ==
  \/ m.top = 0
  \/ /\ \A c \in ChunksOf(m) \ {m.top} :
          LET n == NextChunk(m, c) IN
          \/ n = m.top
          \/ n \in ChunksOf(m) /\ m.hdr[n].psize = m.hdr[c].size
                               /\ m.hdr[n].pused = m.hdr[c].used
     /\ NextChunk(m, m.top) = m.len /\ ~m.hdr[m.top].used

--------------------------------------------------------------------------------
HeapType(m) ==
  /\ m.len \in 1..MaxUnits
  /\ DOMAIN m.hdr = 0..MaxUnits
  /\ m.top \in ChunksOf(m) /\ ChunksOf(m) \subseteq 0 .. m.len - 1
  /\ \A c \in ChunksOf(m) : /\ m.hdr[c].size \in 1 .. m.len
                            /\ m.hdr[c].psize \in 0 .. m.len
                            /\ m.hdr[c].used \in BOOLEAN /\ m.hdr[c].pused \in BOOLEAN
  /\ DOMAIN m.bins = Bins
  /\ \A b \in Bins : \A i \in DOMAIN m.bins[b] : m.bins[b][i] \in ChunksOf(m)

Init ==
  /\ heap = [hdr |-> [a \in 0..MaxUnits |->
                       [NoChunk EXCEPT !.size = IF a = 0 THEN HeapUnits ELSE 0]],
             top |-> 0, len |-> HeapUnits, bins |-> [b \in Bins |-> <<>>]]
  /\ live = {}
  /\ large = [l \in Large |-> "none"]
  /\ pc = "idle" /\ want = 0 /\ from = None

\* A call ends with Verify, which stops the kernel if it does not like what it sees.
Verified == pc' = IF Verify(heap') THEN "idle" ELSE "hang"

Block(e, u) == [at |-> e, size |-> u]

Allocate(u) ==
  /\ pc = "idle" /\ u < Threshold
  /\ pc' = "allocate" /\ want' = u
  /\ UNCHANGED <<heap, live, large, from>>

\* What the client asked for: the size that Reallocate asks Allocate for has a header
\* in it already, and gets another.
Asked == IF from = None THEN want ELSE want - 1

\* Mutant of Returns: the old chunk is not freed.
ReturnsKeepsOld(m, e) ==
  /\ live' = live \union {Block(e, Asked)}
  /\ want' = 0 /\ from' = None
  /\ heap' = m /\ Verified
  /\ UNCHANGED large

\* The chunk e is what Allocate returns, or what Reallocate copies to; the copy is no
\* longer than the old chunk and fits. Then the old chunk is freed, though e may be
\* that chunk.
Returns(m, e) ==
  /\ live' = live \union {Block(e, Asked)}
  /\ want' = 0 /\ from' = None
  /\ \/ from = None /\ heap' = m /\ Verified
     \/ /\ from # None /\ heap' = Release(m, from)
        /\ \/ e = from /\ pc' = "strayed"
           \/ e # from /\ Verified
  /\ UNCHANGED large

OnHeap == pc = "allocate" /\ want < Threshold

AllocateFromBin ==
  /\ OnHeap /\ FindEntry(heap, want) # None
  /\ LET e == FindEntry(heap, want) IN Returns(TakeChunk(heap, e, want), e)

\* The test reads size_ of the top chunk with the in-use bit that Reallocate may
\* have left in it.
TopSuffices ==
  LET t == heap.hdr[heap.top] IN want < t.size \/ (want = t.size /\ t.used)

AllocateFromTop ==
  /\ OnHeap /\ FindEntry(heap, want) = None /\ TopSuffices
  /\ Returns(TakeTop(heap, want), heap.top)

\* The page allocator (external) returns null, which no caller looks at: what is at
\* address 0 is used, if there is something.
NoMemory == pc' \in {"fault", "strayed"} /\ UNCHANGED <<heap, live, large>>

\* MemInUse says when the limit is reached, and need not be right. The heap has
\* been unmapped by then: reading the top chunk faults. The top chunk gets half of
\* the new size, which is more than there is when the limit cuts it short.
GrowHeap ==
  /\ OnHeap /\ FindEntry(heap, want) = None /\ ~TopSuffices
  /\ \/ NoMemory
     \/ LET len == IF 2 * heap.len > MaxUnits THEN MaxUnits ELSE 2 * heap.len IN
        /\ heap' = [heap EXCEPT !.len = len, !.hdr[heap.top].size = @ + len \div 2]
        /\ pc' = IF len = 2 * heap.len THEN "allocate" ELSE "strayed"
  /\ UNCHANGED <<live, large, want, from>>

\* Reallocate, when the chunk and its free neighbours are large enough: the chunk
\* is cut before its contents are moved to its front, and as much as the chunk had
\* is moved, header included. If the request is no larger than the chunk was, that
\* reaches the header of what is left. A chunk that has grown to all of the top
\* chunk leaves no top chunk.
ReallocateMerged(b, u) ==
  LET e == b.at
      p == Start(heap, e)
      m == MergeWithNeighbors(heap, e)
      overwritten == p # e /\ m.hdr[p].size > u /\ u <= heap.hdr[e].size
  IN
  /\ m.hdr[p].size >= u
  /\ heap' = IF m.hdr[p].size > u THEN SplitAndPush(m, p, u) ELSE m
  /\ live' = (live \ {b}) \union {Block(p, u)}
  /\ \/ ~overwritten /\ p # heap'.top /\ Verified
     \/ ~overwritten /\ p = heap'.top /\ pc' = IF Verify(heap') THEN "strayed" ELSE "hang"
     \/ overwritten /\ pc' = "strayed"
  /\ UNCHANGED <<large, want, from>>

\* Reallocate, when they are not: Allocate starts with a Verify and adds a header to a
\* size that has one. If the top chunk was a neighbour it is now in use, and prev_size_
\* is written behind the heap.
ReallocateMove(b, u) ==
  LET p == Start(heap, b.at)
      m == MergeWithNeighbors(heap, b.at)
  IN
  /\ m.hdr[p].size < u
  /\ heap' = m
  /\ live' = live \ {b}
  /\ want' = u + 1 /\ from' = p
  /\ \/ pc' = IF Verify(m) THEN "allocate" ELSE "hang"
     \/ p = m.top /\ pc' = "fault"
  /\ UNCHANGED large

\* Small chunks are handed out whole, and may be so large that Free and Reallocate
\* take them for blocks of the page allocator.
TakenForLarge(b) == heap.hdr[b.at].size >= Threshold

\* Clients, the arrays of ds/dyn_array.h and the strings of ds/string.h, only ask for
\* more.
Reallocate(b, u) ==
  /\ pc = "idle" /\ u < Threshold /\ u >= b.size /\ ~TakenForLarge(b)
  /\ ReallocateMerged(b, u) \/ ReallocateMove(b, u)

Free(b) ==
  /\ pc = "idle" /\ ~TakenForLarge(b)
  /\ heap' = Release(heap, b.at) /\ Verified
  /\ live' = live \ {b}
  /\ UNCHANGED <<large, want, from>>

\* Free and Reallocate hand the memory of the chunk to the page allocator.
FreeTakenForLarge(b) ==
  /\ pc = "idle" /\ TakenForLarge(b)
  /\ pc' = "strayed" /\ live' = live \ {b}
  /\ UNCHANGED <<heap, large, want, from>>

--------------------------------------------------------------------------------
(* Requests from PMM_THRESHOLD up go to the page allocator (external).           *)

LargeStates == {"none", "marked", "unmarked", "unsized"}

AllocateLarge(l) ==
  /\ pc = "idle" /\ large[l] = "none"
  /\ \/ large' = [large EXCEPT ![l] = "marked"] /\ UNCHANGED <<heap, live, pc>>
     \/ NoMemory
  /\ UNCHANGED <<want, from>>

\* The same when it is Reallocate that moves: with the second header a size just below
\* PMM_THRESHOLD is one for the page allocator. A chunk that is all of the heap has no
\* chunk behind it: what Free finds there may be merged, and the heap then ends too late.
AllocateMovedLarge(l) ==
  /\ pc = "allocate" /\ want >= Threshold /\ large[l] = "none"
  /\ \/ NoMemory /\ UNCHANGED <<want, from>>
     \/ /\ \/ heap.top # from /\ heap' = Release(heap, from) /\ Verified
           \/ heap.top = from /\ heap' = [heap EXCEPT !.hdr[from].used = FALSE]
              /\ pc' \in {"idle", "strayed"}
        /\ large' = [large EXCEPT ![l] = "marked"]
        /\ want' = 0 /\ from' = None
        /\ UNCHANGED live

\* new_alloc->size_ = size & IN_USE, which is 0.
ReallocateLarge(l) ==
  /\ pc = "idle" /\ large[l] = "marked"
  /\ \/ large' = [large EXCEPT ![l] = "unsized"] /\ UNCHANGED <<heap, live, pc>>
     \/ NoMemory
  /\ UNCHANGED <<want, from>>

\* As much as was asked for is copied, which may be from behind the heap: that faults.
\* The in-use bit is not set: a later Reallocate returns null, Free only warns.
ReallocateToLarge(b, l) ==
  /\ pc = "idle" /\ large[l] = "none" /\ ~TakenForLarge(b)
  /\ \/ /\ large' = [large EXCEPT ![l] = "unmarked"]
        /\ heap' = Release(heap, b.at) /\ Verified
        /\ live' = live \ {b}
     \/ NoMemory
  /\ UNCHANGED <<want, from>>

\* A block whose header says 0 is taken for a chunk of the heap.
FreeLarge(l) ==
  /\ pc = "idle" /\ large[l] # "none"
  /\ large' = [large EXCEPT ![l] = "none"]
  /\ pc' = IF large[l] = "unsized" THEN "strayed" ELSE "idle"
  /\ UNCHANGED <<heap, live, want, from>>

Continue == AllocateFromBin \/ AllocateFromTop \/ GrowHeap

Next ==
  \/ Continue
  \/ \E u \in Requests : Allocate(u) \/ \E b \in live : Reallocate(b, u)
  \/ \E b \in live : Free(b) \/ FreeTakenForLarge(b)
  \/ \E l \in Large : \/ AllocateLarge(l) \/ ReallocateLarge(l) \/ FreeLarge(l)
                      \/ AllocateMovedLarge(l)
                      \/ \E b \in live : ReallocateToLarge(b, l)

Spec == Init /\ [][Next]_vars

--------------------------------------------------------------------------------
(* Properties. Those of the chunks hold as long as hdr is what memory holds, in   *)
(* the states in which Verify stopped the kernel included.                       *)

Sound == pc # "strayed"
Chunks == ChunksOf(heap)
FreeChunks == {c \in Chunks \ {heap.top} : ~heap.hdr[c].used}

\* Type invariant: chunks start and end in the heap, and bins hold chunks.
TypeOK ==
  /\ Sound => HeapType(heap)
  /\ \A b \in live : b.at \in Nat /\ b.size \in Requests
  /\ large \in [Large -> LargeStates]
  /\ pc \in {"idle", "allocate", "hang", "fault", "strayed"}
  /\ want = 0 \/ Asked \in Requests
  /\ from # None => from \in Nat

\* Every unit of the heap is in one chunk, the top chunk is the last, and each
\* chunk knows the size of the one before it and whether it is in use: what
\* MergeWithNeighbors finds its neighbours by.
ChunksTile ==
  Sound =>
    /\ 0 \in Chunks
    /\ \A c \in Chunks \ {heap.top} :
         /\ NextChunk(heap, c) \in Chunks
         /\ heap.hdr[NextChunk(heap, c)].psize = heap.hdr[c].size
         /\ heap.hdr[NextChunk(heap, c)].pused = heap.hdr[c].used
         /\ \A d \in Chunks : d > c => d >= NextChunk(heap, c)
    /\ NextChunk(heap, heap.top) = heap.len

\* The bins hold the free chunks, each once and in the bin of its size, and never
\* the top chunk ("TOP ON FREE LIST", kheap.cpp:492).
BinsHoldFree ==
  Sound =>
    /\ \A c \in FreeChunks : \E i \in DOMAIN heap.bins[BinIndex(heap.hdr[c].size)] :
         heap.bins[BinIndex(heap.hdr[c].size)][i] = c
    /\ \A b \in Bins : \A i \in DOMAIN heap.bins[b] :
         /\ heap.bins[b][i] \in FreeChunks
         /\ BinIndex(heap.hdr[heap.bins[b][i]].size) = b
         /\ \A j \in DOMAIN heap.bins[b] : heap.bins[b][j] = heap.bins[b][i] => j = i

\* Free merges with both sides: a free chunk has no free neighbour, the top chunk
\* included.
NoFreeNeighbours ==
  Sound => \A c \in FreeChunks : /\ heap.hdr[NextChunk(heap, c)].used
                                 /\ NextChunk(heap, c) # heap.top

\* The chunks in use are those of the blocks clients hold and the one Reallocate
\* is moving, one each, and no smaller than what was asked for.
BlocksKept ==
  Sound =>
    /\ \A b \in live : b.at \in Chunks \ FreeChunks /\ heap.hdr[b.at].used
                       /\ heap.hdr[b.at].size >= b.size
    /\ \A a, b \in live : a.at = b.at => a = b
    /\ {c \in Chunks : heap.hdr[c].used}
         = {b.at : b \in live} \union (IF from = None THEN {} ELSE {from})

--------------------------------------------------------------------------------
(* What the code says of itself and does not keep.                               *)

\* Verify (kheap.cpp:447-502) takes a wrong sum or a wrong prev_size_ for a
\* mistake of the heap and stops the kernel: it should never do so.
VerifyPasses == pc # "hang"

\* "Beyond this, we use the PMM to request more memory" (kheap.cpp:21-22): the
\* page allocator has the blocks that were too large for the heap. A chunk of the
\* heap never goes there: each one in use belongs to a client or to the Reallocate
\* that moves it.
NoChunkLost ==
  \A c \in Chunks \ {heap.top} :
    heap.hdr[c].used => (\E b \in live : b.at = c) \/ from = c

================================================================================
