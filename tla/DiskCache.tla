--------------------------------- MODULE DiskCache ------------------------------
(* SATAPort's sector cache (sys/sata_port.cpp): CacheReadWrite and what it calls, *)
(* with an LRUCache between the callers and the disk. A read fills the cache; a  *)
(* write stays in it, dirty, until the sector is evicted.                        *)
(*                                                                               *)
(* Memory can be critical whenever a sector is inserted, so any insertion may    *)
(* evict. A command of the device has one of the outcomes of DiskCommand.        *)
EXTENDS LRUCache, DiskCommand

CONSTANTS
  MaxLen,   \* bound: sectors of one call
  Values    \* what a sector can hold

Sectors == Keys

ASSUME DiskCacheAssumption ==
  /\ MaxLen \in Nat \ {0}
  /\ Sectors = 0 .. MaxLba + 1
  /\ None \notin Values

VARIABLES
  cache,     \* disk_cache_: its list and its keys
  sector,    \* sector_ of each cached sector, None for the others
  dirty,     \* the cached sectors with dirty_ set
  disk,      \* what the device holds
  errored,   \* an error bit of the device is set (OpFailed)
  call,      \* the call in progress: its arguments and the locals of the loop
  buff,      \* the caller's buffer
  pc,        \* where CacheReadWrite stands: "idle", "scan", "insert", "link", "return";
             \* "flush", "down": in and after the destructor;
             \* "dangling": memory that was freed is being used
  latest,    \* history: the value last written to each sector
  recency    \* history: the cached sectors, the one used last first

vars == <<cache, sector, dirty, disk, errored, call, buff, pc, latest, recency>>
store == <<cache, sector, dirty, disk, errored, recency>>

\* i and j are the loops' counters, counted from the first sector of the call; hit is
\* cached_block; ranges are those a request of several ranges has yet to come to.
NoCall == [write |-> FALSE, addr |-> 0, n |-> 0, i |-> 0, j |-> 0, hit |-> None,
           ok |-> TRUE, ranges |-> <<>>]

--------------------------------------------------------------------------------
DiskReadWrite(a, n) == DiskReadWriteOutcomes(errored, a, n)

\* The list s with k, one of its elements, moved to the front.
ToFront(s, k) ==
  LET i == CHOOSE i \in 1 .. Len(s) : s[i] = k
  IN  [x \in 1 .. Len(s) |-> IF x = 1 THEN k ELSE IF x <= i THEN s[x - 1] ELSE s[x]]

--------------------------------------------------------------------------------
Init ==
  /\ cache = EmptyCache
  /\ sector = [k \in Sectors |-> None]
  /\ dirty = {}
  /\ disk \in [OnDisk -> Values]
  /\ errored = FALSE
  /\ call = NoCall
  /\ buff = <<>>
  /\ pc = "idle"
  /\ latest = [k \in Sectors |-> IF k \in OnDisk THEN disk[k] ELSE None]
  /\ recency = <<>>

\* A range is its first sector and the part of the caller's buffer that goes with it.
DiskRange(a, data) == [addr |-> a, data |-> data]

CacheReadWrite(write, range, ranges) ==
  /\ range.addr + Len(range.data) - 1 \in Sectors
  /\ pc' = "scan"
  /\ call' = [NoCall EXCEPT !.write = write, !.addr = range.addr,
                            !.n = Len(range.data), !.ranges = ranges]
  /\ buff' = range.data
  /\ UNCHANGED <<store, latest>>

\* What the caller's buffer holds before a read makes no difference.
Unread(n) == [x \in 1 .. n |-> None]

Read(a, n)     == pc = "idle" /\ CacheReadWrite(FALSE, DiskRange(a, Unread(n)), <<>>)
Write(a, data) == pc = "idle" /\ CacheReadWrite(TRUE, DiskRange(a, data), <<>>)

\* RangeReadWrite, of two ranges here: the second is only begun if the first went well.
ReadRanges(a, b) ==
  pc = "idle" /\ CacheReadWrite(FALSE, DiskRange(a, Unread(1)), <<DiskRange(b, Unread(1))>>)
WriteRanges(a, b, data) ==
  pc = "idle" /\ CacheReadWrite(TRUE, DiskRange(a, <<data[1]>>), <<DiskRange(b, <<data[2]>>)>>)

\* The loop looks for the next cached sector; a read then fetches those passed over.
Hits == {i \in call.i .. call.n - 1 : call.addr + i \in cache.entries}

Scan ==
  LET i     == IF Hits = {} THEN call.n ELSE CHOOSE i \in Hits : \A j \in Hits : i <= j
      found == [call EXCEPT !.i = i, !.j = call.i, !.hit = IF i < call.n THEN call.addr + i ELSE None]
  IN  /\ pc = "scan"
      /\ IF Hits # {}
         THEN cache' = Lookup(cache, found.hit) /\ recency' = ToFront(recency, found.hit)
         ELSE UNCHANGED <<cache, recency>>
      /\ \/ /\ i = call.i \/ call.write
            /\ call' = found /\ pc' = "insert"
            /\ UNCHANGED <<buff, errored>>
         \/ /\ i # call.i /\ ~call.write
            /\ \E r \in DiskReadWrite(call.addr + call.i, i - call.i) :
                 /\ errored' = r.errored
                 /\ call' = [found EXCEPT !.ok = r.ok]
                 /\ buff' = IF r.ok THEN [x \in 1 .. call.n |->
                                            IF x \in call.i + 1 .. i THEN disk[call.addr + x - 1] ELSE buff[x]]
                            ELSE buff
                 /\ pc' = IF r.ok THEN "insert" ELSE "return"
      /\ UNCHANGED <<sector, dirty, disk, latest>>

Forget(k) == sector' = [sector EXCEPT ![k] = None] /\ dirty' = dirty \ {k}

\* Mutants of HandleEviction: a sector is dropped as if it were clean; the mark that it
\* is dirty outlives it.
HandleEvictionDrops(k) == Forget(k) /\ UNCHANGED <<disk, errored>>
HandleEvictionKeepsMark(k) ==
  sector' = [sector EXCEPT ![k] = None] /\ UNCHANGED <<dirty, disk, errored>>

\* HandleEviction writes a dirty sector back; whether that was done is not looked at.
HandleEviction(k) ==
  /\ Forget(k)
  /\ \/ k \notin dirty /\ UNCHANGED <<disk, errored>>
     \/ /\ k \in dirty
        /\ \E r \in DiskReadWrite(k, 1) :
             /\ errored' = r.errored
             /\ disk' = [x \in OnDisk |-> IF x \in r.done THEN sector[x] ELSE disk[x]]

\* One round of Evict.
EvictOldest ==
  /\ cache.entries # {}
  /\ cache' = Evict(cache)
  /\ HandleEviction(cache.lru)
  /\ recency' = SubSeq(recency, 1, Len(recency) - 1)

\* Insert, when memory is critical, evicts one sector first.
MakeRoom ==
  /\ pc = "insert" /\ call.j < call.i
  /\ EvictOldest
  /\ pc' = "link"
  /\ UNCHANGED <<call, buff, latest>>

\* The sectors passed over go into the cache, one after the other.
InsertNext ==
  LET k == call.addr + call.j
      value == buff[call.j + 1]
  IN  /\ pc \in {"insert", "link"} /\ call.j < call.i
      /\ IF InsertStrays(cache)
         THEN pc' = "dangling" /\ UNCHANGED <<store, call, latest>>
         ELSE /\ cache' = Insert(cache, k)
              /\ sector' = [sector EXCEPT ![k] = value]
              /\ dirty' = IF call.write THEN dirty \union {k} ELSE dirty
              /\ recency' = <<k>> \o recency
              /\ latest' = IF call.write THEN [latest EXCEPT ![k] = value] ELSE latest
              /\ call' = [call EXCEPT !.j = @ + 1]
              /\ pc' = "insert"
              /\ UNCHANGED <<disk, errored>>
      /\ UNCHANGED buff

\* Mutant of MarkDirty: a sector written to in the cache stays as clean as it was.
MarkNothing(k) == dirty

\* A sector written to in the cache.
MarkDirty(k) == dirty \union {k}

\* The sector that was found, if it is still there, is used where it is.
UseHit ==
  LET x == call.i + 1
  IN  /\ pc = "insert" /\ call.j = call.i /\ call.hit \in cache.entries
      /\ IF call.write
         THEN /\ sector' = [sector EXCEPT ![call.hit] = buff[x]]
              /\ latest' = [latest EXCEPT ![call.hit] = buff[x]]
              /\ dirty' = MarkDirty(call.hit)
              /\ UNCHANGED buff
         ELSE /\ buff' = [buff EXCEPT ![x] = sector[call.hit]]
              /\ UNCHANGED <<sector, latest, dirty>>
      /\ call' = [call EXCEPT !.i = @ + 1]
      /\ pc' = IF call.i + 1 < call.n THEN "scan" ELSE "return"
      /\ UNCHANGED <<cache, disk, errored, recency>>

\* The insertions evicted the sector that was found.
HitIsGone ==
  /\ pc = "insert" /\ call.j = call.i
  /\ call.hit # None /\ call.hit \notin cache.entries
  /\ pc' = "dangling" /\ UNCHANGED <<store, call, buff, latest>>

NoHit ==
  /\ pc = "insert" /\ call.j = call.i /\ call.hit = None
  /\ pc' = "return" /\ UNCHANGED <<store, call, buff, latest>>

NextRange ==
  /\ pc = "return" /\ call.ok /\ call.ranges # <<>>
  /\ CacheReadWrite(call.write, call.ranges[1], Tail(call.ranges))

Return ==
  /\ pc = "return" /\ (call.ok => call.ranges = <<>>) /\ pc' = "idle"
  /\ call' = NoCall /\ buff' = <<>>
  /\ UNCHANGED <<store, latest>>

\* The destructor flushes the cache: one eviction per step.
Destroy ==
  /\ pc = "idle" /\ pc' = "flush"
  /\ UNCHANGED <<store, call, buff, latest>>

Flush ==
  /\ pc = "flush"
  /\ \/ EvictOldest /\ UNCHANGED pc
     \/ cache.entries = {} /\ pc' = "down" /\ UNCHANGED store
  /\ UNCHANGED <<call, buff, latest>>

Next ==
  \/ \E a \in Sectors, n \in 1 .. MaxLen :
       \/ Read(a, n)
       \/ \E data \in [1 .. n -> Values] : Write(a, data)
  \/ \E a, b \in Sectors :
       \/ ReadRanges(a, b)
       \/ \E data \in [1 .. 2 -> Values] : WriteRanges(a, b, data)
  \/ Scan
  \/ MakeRoom \/ InsertNext
  \/ UseHit \/ HitIsGone \/ NoHit
  \/ NextRange \/ Return
  \/ Destroy \/ Flush

Spec == Init /\ [][Next]_vars

--------------------------------------------------------------------------------
\* Every variable has its type; only cached sectors have contents or are dirty.
TypeOK ==
  /\ cache.entries \subseteq Sectors
  /\ cache.mru \in Sectors \union {None} /\ cache.lru \in Sectors \union {None}
  /\ \A k \in Sectors : cache.prev[k] \in Sectors \union {None} /\ cache.next[k] \in Sectors \union {None}
  /\ \A k \in Sectors : sector[k] \in IF k \in cache.entries THEN Values ELSE {None}
  /\ dirty \subseteq cache.entries
  /\ disk \in [OnDisk -> Values]
  /\ errored \in BOOLEAN
  /\ call.i \in 0 .. call.n /\ call.j \in 0 .. call.n /\ call.n = Len(buff)
  /\ \A k \in Sectors : latest[k] \in Values \union {None}

\* The list of the cache (ds/cache.h:66) holds the cached sectors in the order of their
\* last use, and reads the same from both ends, whatever was looked up, inserted and
\* evicted, so that it is the sector not used longest that goes. Only mru_ is not reset
\* when the cache is emptied.
ListIsRecency == IsList(cache, recency)

\* A read that reports success has put the sectors' latest contents in the buffer
\* (CacheReadWrite): also when sectors were evicted and fetched again during the calls,
\* when a write-back failed unseen (HandleEviction), and beyond the end of the disk.
ReadsAreLatest ==
  pc = "return" /\ ~call.write /\ call.ok =>
    \A x \in 1 .. call.n : buff[x] = latest[call.addr + x - 1]

\* As long as the device has not failed, no write is lost: a sector's latest contents
\* are in the cache or on the disk, and where they are only in the cache, the sector is
\* dirty; after the destructor they are on the disk (sata_port.cpp:423-425, 436-437).
NothingLost ==
  ~errored =>
    \A k \in OnDisk :
      /\ k \in cache.entries => sector[k] = latest[k]
      /\ k \notin dirty => disk[k] = latest[k]

================================================================================
