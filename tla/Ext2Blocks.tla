-------------------------------- MODULE Ext2Blocks ------------------------------
(* The blocks of files on an ext2 volume: the block bitmap (sys/fs/ext2_mount.cpp), *)
(* the tree of block pointers of an inode, and the reads, writes, links and removals *)
(* that go through it (sys/fs/ext2_vnode.cpp).                                   *)
(*                                                                               *)
(* A block is P words, a word the size of a block pointer; offsets and lengths   *)
(* are counted in words. A word is 0, a block number, or, when it is negative,   *)
(* data. An inode is a value: on disk, in the table that was cached when the     *)
(* volume was mounted, and in the vnode of a file that is open. Files are inode  *)
(* numbers of one block group, with the names they have only counted. The device *)
(* does not fail; see DiskCache.                                                 *)
EXTENDS Integers, Sequences, FiniteSets

CONSTANTS
  D,          \* direct pointers of an inode: 12 in the code
  P,          \* words of a block: 256 for blocks of 1 KiB
  NumBits,    \* blocks of the group
  Prealloc,   \* s_prealloc_blocks
  PreallocDir,\* s_prealloc_dir_blocks
  Files,      \* inode numbers
  InitBits,   \* the bitmap at mount
  InitDisk,   \* the blocks at mount
  InitInode,  \* the inodes at mount
  Offsets,    \* bound: the offsets handles are moved to
  Lens,       \* bound: the lengths of reads and writes
  MaxNames,   \* bound: names of a file
  MaxCalls    \* bound: calls

Bits   == 0 .. NumBits - 1
Blocks == 1 .. NumBits + 1
InBlock == 0 .. P - 1
Zeroes == [x \in InBlock |-> 0]

NoInode == [size |-> 0, links |-> 0, blocks |-> 0, block |-> [i \in 0 .. D + 2 |-> 0]]

ASSUME Ext2BlocksAssumption ==
  /\ D \in Nat \ {0} /\ P \in Nat \ {0, 1} /\ NumBits \in Nat \ {0}
  /\ {Prealloc, PreallocDir} \subseteq Nat /\ MaxNames \in Nat /\ MaxCalls \in Nat
  /\ Offsets \subseteq Nat /\ Lens \subseteq Nat \ {0}
  /\ 0 \in InitBits /\ InitBits \subseteq Bits
  /\ DOMAIN InitDisk = Blocks /\ DOMAIN InitInode = Files

VARIABLES
  bits,     \* the block bitmap
  nfree,    \* bg_free_blocks_count
  disk,     \* the words of each block
  ondisk,   \* the inodes on disk
  vnode,    \* the inode in the vnode of an open file, NoInode when it is closed
  open,     \* the files with a vnode
  names,    \* how many directory entries name the file
  pc,       \* "ok"; "overrun": memory behind a buffer is used; "spin": a loop that does
            \* not end; "wild": a word that is no block number is used as one
  got,      \* the whole blocks a read has just returned: [file, first, words]
  want,     \* history: what whole-block writes put in each block of an open file
  freed,    \* history: FreeBlock has been called
  deleted,  \* history: the files whose contents were deleted
  calls     \* history: number of calls

store == <<bits, nfree, disk>>
vars == <<store, ondisk, vnode, open, names, pc, got, want, freed, deleted, calls>>

--------------------------------------------------------------------------------
(* The block bitmap. A walk w is what one call has changed so far: the bitmap,   *)
(* the blocks, the inode, the blocks it has listed, and how it stands.           *)

Walk(inode) == [bits |-> bits, nfree |-> nfree, disk |-> disk, inode |-> inode,
                exts |-> <<>>, out |-> "ok"]

Ends(w, why) == [w EXCEPT !.out = why]

MarkNoCount(w, k) == [w EXCEPT !.bits = @ \union {k}]

Mark(w, k) == [w EXCEPT !.bits = @ \union {k}, !.nfree = @ - 1]

\* AllocBlock takes the first clear bit but the first of the group: bit k belongs to block
\* k + 1, yet the block given out is k + 2. It looks at bg_free_blocks_count first,
\* which FreeBlock does not raise. block is 0 when there is none.
AllocBlock(w) ==
  LET clear == (Bits \ {0}) \ w.bits
      k == CHOOSE k \in clear : \A l \in clear : k <= l
  IN  IF w.nfree = 0 \/ clear = {} THEN [w |-> w, block |-> 0]
      ELSE [w |-> Mark(w, k), block |-> k + 2]

\* FreeBlock clears the bit that does belong to the block.
FreeBlock(b, block) == b \ {block - 1}

\* Mutant of AddToExtentList: a new extent is put first.
AddToExtentListFirst(w, block) == [w EXCEPT !.exts = <<block>> \o @]

\* Extents are taken for the blocks they consist of.
AddToExtentList(w, block) == [w EXCEPT !.exts = Append(@, block)]

WriteBlock(w, block, words) == [w EXCEPT !.disk[block] = words]

--------------------------------------------------------------------------------
(* GetOrCreateExtents lists the blocks of the file from block_no on, and makes those *)
(* that are missing when create is set. Below the inode it works on a copy of each *)
(* table: r has the walk, the copy, and the number of blocks done, -1 for a failure. *)

PtrsPerIndirectBlock(level) == P^(level + 1)

NoMoreThan(n, most) == IF n < most THEN n ELSE most

\* Mutant of Counted: tables are counted too.
CountedAll(a, isData) == IF a.block = 0 THEN a ELSE [a EXCEPT !.w.inode.blocks = @ + 1]

\* i_blocks counts the new blocks that hold the file's data.
Counted(a, isData) ==
  IF a.block = 0 \/ ~isData THEN a ELSE [a EXCEPT !.w.inode.blocks = @ + 1]

\* The block behind a table's word: a new one when there is none.
Behind(w, word, create, isData) ==
  IF ~create \/ word # 0 THEN [w |-> w, block |-> word] ELSE Counted(AllocBlock(w), isData)

Listed(w, block, mdata) == IF mdata THEN AddToExtentList(w, block) ELSE w

Failed(r, w) == [r EXCEPT !.w = w, !.n = -1]
Stuck(r, w, why) == Failed(r, Ends(w, why))

\* Level 0: the table's words are the file's blocks. The caller has not looked whether
\* there are len of them from ind on.
LeafFound(r, ind, a) ==
  IF a.block = 0 THEN Failed(r, a.w)
  ELSE IF a.block \notin Blocks THEN Stuck(r, a.w, "wild")
  ELSE [w |-> AddToExtentList(a.w, a.block), buf |-> [r.buf EXCEPT ![ind] = a.block],
        n |-> r.n + 1]

RECURSIVE Leaves(_, _, _, _)
Leaves(r, ind, len, create) ==
  IF r.n \in {len, -1} THEN r
  ELSE IF ind + r.n \notin InBlock THEN Stuck(r, r.w, "overrun")
  ELSE Leaves(LeafFound(r, ind + r.n, Behind(r.w, r.buf[ind + r.n], create, TRUE)),
              ind, len, create)

\* Higher levels: len falls while blocks_read grows, so that the loop may end when about
\* half is done; the caller comes back for the rest. A missing table is only made for
\* its first block; otherwise it is asked for again and again.
RECURSIVE InTable(_, _, _, _, _, _)

\* What the lower table, sub, adds to r; the lower table is written back.
AddChild(r, block, sub, create) ==
  IF sub.n < 0 THEN Failed(r, sub.w)
  ELSE [r EXCEPT !.w = IF create THEN WriteBlock(sub.w, block, sub.buf) ELSE sub.w,
                 !.n = @ + sub.n]

ChildFound(r, block_no, len, level, create, mdata, a) ==
  LET ptrs_in_child == PtrsPerIndirectBlock(level - 1)
  IN  IF a.block = 0 THEN IF create /\ block_no % ptrs_in_child = 0 THEN Failed(r, a.w)
                          ELSE Stuck(r, a.w, "spin")
      ELSE IF a.block \notin Blocks THEN Stuck(r, a.w, "wild")
      ELSE AddChild([r EXCEPT !.buf[block_no \div ptrs_in_child] = a.block], a.block,
                    InTable([w |-> Listed(a.w, a.block, mdata), buf |-> a.w.disk[a.block],
                             n |-> 0],
                            block_no % ptrs_in_child, NoMoreThan(ptrs_in_child, len),
                            level - 1, create, mdata),
                    create)

Child(r, block_no, len, level, create, mdata) ==
  LET ptrs_in_child == PtrsPerIndirectBlock(level - 1)
      ind == block_no \div ptrs_in_child
  IN  IF ind \notin InBlock THEN Stuck(r, r.w, "overrun")
      ELSE ChildFound(r, block_no, len, level, create, mdata,
                      Behind(r.w, r.buf[ind], create /\ block_no % ptrs_in_child = 0, FALSE))

InTable(r, block_no, len, level, create, mdata) ==
  IF level = 0 THEN Leaves(r, block_no, len, create)
  ELSE IF r.n < 0 \/ r.n >= len - r.n THEN r
  ELSE InTable(Child(r, block_no + r.n, len - r.n, level, create, mdata),
               block_no, len, level, create, mdata)

\* The table of the inode in which a file block is found, 0 for the direct blocks, and
\* the first file block of each table.
First(t) == CASE t = 0 -> 0
              [] t = 1 -> D
              [] t = 2 -> D + P
              [] t = 3 -> D + P + P^2
              [] t = 4 -> D + P + P^2 + P^3
TableOf(block_no) == CHOOSE t \in 0 .. 4 :
  block_no >= First(t) /\ (t = 4 \/ block_no < First(t + 1))

\* In the inode, r has the walk, the blocks done, and the table that is in memory, -1 for
\* none. A table is written back even if what was to be done below it has failed.
AddTable(r, block, sub, create) ==
  LET done == IF create /\ sub.w.out = "ok" THEN WriteBlock(sub.w, block, sub.buf) ELSE sub.w
  IN  [w |-> IF sub.n < 0 /\ done.out = "ok" THEN Ends(done, "none") ELSE done,
       n |-> r.n + sub.n, parent_ind |-> block]

PartFound(r, t, slot, block_no, len, create, mdata, a) ==
  LET made == [a.w EXCEPT !.inode.block[slot] = a.block]
  IN  IF a.block = 0 /\ (create \/ t # 0) THEN [r EXCEPT !.w = Ends(@, "none")]
      ELSE IF t = 0 THEN [r EXCEPT !.w = AddToExtentList(made, a.block), !.n = @ + 1]
      ELSE AddTable(r, a.block,
                    InTable([w |-> Listed(made, a.block, mdata /\ r.parent_ind # a.block),
                             buf |-> made.disk[a.block], n |-> 0],
                            block_no - First(t), NoMoreThan(PtrsPerIndirectBlock(t - 1), len),
                            t - 1, create, mdata),
                    create)

Part(r, block_no, len, create, mdata) ==
  LET t == TableOf(block_no)
      slot == IF t = 0 THEN block_no ELSE D + t - 1
  IN  IF t = 4 THEN [r EXCEPT !.w = Ends(@, "none")]
      ELSE PartFound(r, t, slot, block_no, len, create, mdata,
                     Behind(r.w, r.w.inode.block[slot], create, t = 0))

RECURSIVE Extents(_, _, _, _, _)
Extents(r, block_no, len, create, mdata) ==
  IF r.n = len \/ r.w.out # "ok" THEN r.w
  ELSE Extents(Part(r, block_no + r.n, len - r.n, create, mdata), block_no, len, create, mdata)

GetOrCreateExtents(w, block_no, len, create, mdata) ==
  Extents([w |-> [w EXCEPT !.exts = <<>>], n |-> 0, parent_ind |-> -1], block_no, len, create, mdata)

GetOrCreateBlock(w, block_no, create) == GetOrCreateExtents(w, block_no, 1, create, FALSE)

--------------------------------------------------------------------------------
(* ReadWrite. The words of the caller's buffer are told apart by call and position; *)
(* behind its end there is anything.                                             *)

Stray == -1
Word(j, len) == IF j < len THEN -(2 + 2 * j + (calls % 2)) ELSE Stray

\* The words before the first block boundary at or behind the offset.
HeadLen(off) == (P - (off % P)) % P

\* A block that is not there is an error, even where it was only to be read.
AllFound(w) ==
  IF w.out = "ok" /\ \E i \in 1 .. Len(w.exts) : w.exts[i] = 0 THEN Ends(w, "none") ELSE w

\* The first part is for a block that the offset is inside of. A write copies the words
\* into a buffer, reads the block over them, and writes nothing.
FirstPart(w, off, create) ==
  IF HeadLen(off) = 0 THEN w ELSE AllFound(GetOrCreateBlock(w, off \div P, create))

\* Mutant of WholeBlocks: a whole block too far for an offset at a boundary.
WholeBlocksLate(w, off, len, create) ==
  IF w.out # "ok" \/ len < P THEN [w EXCEPT !.exts = <<>>]
  ELSE GetOrCreateExtents(w, off \div P + 1, len \div P, create, FALSE)

\* The whole blocks: as many as if there had been no head.
WholeBlocks(w, off, len, create) ==
  IF w.out # "ok" \/ len < P THEN [w EXCEPT !.exts = <<>>]
  ELSE AllFound(GetOrCreateExtents(w, (off + HeadLen(off)) \div P, len \div P, create, FALSE))

\* The block of the rest is found from the length alone.
LastPart(w, len, create) ==
  IF w.out # "ok" \/ len % P = 0 THEN [w EXCEPT !.exts = <<>>]
  ELSE AllFound(GetOrCreateBlock(w, len \div P, create))

\* The words a write puts in the i-th of its whole blocks, and in the block of the rest:
\* there they are taken from the start of the buffer again.
BlockWords(off, len, i) == [x \in InBlock |-> Word(HeadLen(off) + (i - 1) * P + x, len)]
TailWords(len) == [x \in InBlock |-> IF x < len % P THEN Word(x, len) ELSE 0]

\* Write the words of a list of blocks one after the other.
RECURSIVE WriteBlocks(_, _, _, _)
WriteBlocks(w, off, len, i) ==
  IF i > Len(w.exts) THEN w
  ELSE WriteBlocks(WriteBlock(w, w.exts[i], BlockWords(off, len, i)), off, len, i + 1)

\* What the blocks of a list hold.
ReadBlocks(w) == [i \in 1 .. Len(w.exts) |-> w.disk[w.exts[i]]]

\* A write, part by part; what a part could not do is not done by the next.
WriteWhole(w, off, len) == IF w.out = "ok" THEN WriteBlocks(w, off, len, 1) ELSE w

WriteTail(w, len) ==
  IF w.out = "ok" /\ len % P # 0 THEN WriteBlock(w, w.exts[1], TailWords(len)) ELSE w

Written(w, off, len) ==
  LET body == WholeBlocks(FirstPart(w, off, TRUE), off, len, TRUE)
  IN  WriteTail(LastPart(WriteWhole(body, off, len), len, TRUE), len)

--------------------------------------------------------------------------------
(* Reference: where a path through the inode's pointers, index by index, leads.  *)

RECURSIVE Follow(_, _, _)
Follow(word, n, level) ==
  IF level = 0 \/ word \notin Blocks THEN word
  ELSE Follow(disk[word][n \div P^(level - 1)], n % P^(level - 1), level - 1)

BlockOf(inode, n) ==
  LET t == TableOf(n)
  IN  IF t = 0 THEN inode.block[n] ELSE Follow(inode.block[D + t - 1], n - First(t), t)

FileBlocks == 0 .. First(4) - 1

\* The uses of blocks in an inode: as data, and as a table. A use is a place.
RECURSIVE Places(_, _, _)
Places(word, level, at) ==
  IF word \notin Blocks THEN {}
  ELSE {[block |-> word, at |-> at, data |-> level = 0]} \union
       (IF level = 0 THEN {} ELSE UNION {Places(disk[word][x], level - 1, Append(at, x)) : x \in InBlock})
Uses(f, inode) ==
  UNION {Places(inode.block[i], IF i < D THEN 0 ELSE i - D + 1, <<f, i>>) : i \in 0 .. D + 2}

--------------------------------------------------------------------------------
Init ==
  /\ bits = InitBits /\ nfree = NumBits - Cardinality(InitBits)
  /\ disk = InitDisk
  /\ ondisk = InitInode
  /\ vnode = [f \in Files |-> NoInode]
  /\ open = {}
  /\ names = [f \in Files |-> IF InitInode[f] = NoInode THEN 0 ELSE 1]
  /\ pc = "ok"
  /\ got = <<>>
  /\ want = [f \in Files |-> [n \in FileBlocks |-> <<>>]]
  /\ freed = FALSE /\ deleted = {} /\ calls = 0

Call == pc = "ok" /\ calls < MaxCalls /\ calls' = calls + 1

\* What a call leaves of its walk, and whether the program can go on.
Leave(w) ==
  /\ bits' = w.bits /\ nfree' = w.nfree /\ disk' = w.disk
  /\ pc' = IF w.out = "none" THEN "ok" ELSE w.out

\* The destructor of a DiskMem writes back the whole of what it holds: here the table of
\* inodes, as it was cached.
TableWrittenBack == InitInode

\* The inodes on disk after the walk to the parent of a path, which reads the parent from
\* the table if it is not pinned.
AfterWalk == {ondisk, TableWrittenBack}

\* The three calls that take a new inode. The vnode is freed on return, and its destructor
\* writes the inode, whatever has failed. AllocVNode gives out each number once.
Created(f, w) ==
  /\ Call /\ names[f] = 0 /\ f \notin open /\ ondisk[f] = NoInode /\ f \notin deleted
  /\ Leave(w)
  /\ \E inodes \in AfterWalk : ondisk' = [inodes EXCEPT ![f] = w.inode]
  /\ names' = [names EXCEPT ![f] = 1]
  /\ got' = <<>>
  /\ UNCHANGED <<vnode, open, want, freed, deleted>>

NewInode == [NoInode EXCEPT !.links = 1]

\* Blocks allocated in advance.
WithPrealloc(n) == GetOrCreateExtents(Walk(NewInode), 0, n, TRUE, FALSE)

Touch(f) == Created(f, WithPrealloc(Prealloc))

\* The first block gets "." and "..", and the inode a second link.
InitializeDir(w) ==
  LET r == GetOrCreateBlock([w EXCEPT !.out = "ok"], 0, TRUE)
  IN  IF r.out # "ok" THEN r
      ELSE WriteBlock([r EXCEPT !.inode.size = P, !.inode.links = @ + 1],
                      r.exts[1], [x \in InBlock |-> Stray])

MkDir(f) == Created(f, InitializeDir(WithPrealloc(PreallocDir)))

\* A target that fits is put in place of the block pointers; a longer one is written as
\* the contents of the file.
SymLink(f) ==
  \/ Created(f, Walk([NewInode EXCEPT !.block = [i \in 0 .. D + 2 |-> Stray]]))
  \/ \E len \in {l \in Lens : l >= D + 3} : Created(f, Written(Walk(NewInode), 0, len))

\* ReadVNode takes the inode from the cached table, in copies of the DiskMem.
Open(f) ==
  /\ Call /\ f \notin open /\ names[f] > 0
  /\ open' = open \union {f}
  /\ vnode' = [vnode EXCEPT ![f] = InitInode[f]]
  /\ ondisk' = TableWrittenBack
  /\ got' = <<>>
  /\ UNCHANGED <<store, names, pc, want, freed, deleted>>

\* The destructor of the vnode writes the inode to the disk.
Close(f) ==
  /\ Call /\ f \in open
  /\ open' = open \ {f}
  /\ ondisk' = [ondisk EXCEPT ![f] = vnode[f]]
  /\ vnode' = [vnode EXCEPT ![f] = NoInode]
  /\ want' = [want EXCEPT ![f] = [n \in FileBlocks |-> <<>>]]
  /\ got' = <<>>
  /\ UNCHANGED <<store, names, pc, freed, deleted>>

\* The size grows to the offset the write began at. A failed write leaves the blocks it
\* allocated in the vnode's inode.
Write(f, off, len) ==
  LET w == Written(Walk(vnode[f]), off, len)
      inode == [w.inode EXCEPT !.size = IF off > @ THEN off ELSE @]
      first == (off + HeadLen(off)) \div P
      whole == first .. first + len \div P - 1
      hit == whole \union (IF len % P = 0 THEN {} ELSE {len \div P})
  IN  /\ Call /\ f \in open
      /\ Leave(w)
      /\ IF w.out = "ok" THEN /\ vnode' = [vnode EXCEPT ![f] = inode]
                              /\ ondisk' = [ondisk EXCEPT ![f] = inode]
         ELSE vnode' = [vnode EXCEPT ![f] = w.inode] /\ UNCHANGED ondisk
      /\ want' = [want EXCEPT ![f] = [n \in FileBlocks |->
                    IF n \notin hit THEN want[f][n]
                    ELSE IF w.out = "ok" /\ off % P = 0 /\ len % P = 0
                    THEN BlockWords(off, len, n - first + 1) ELSE <<>>]]
      /\ got' = <<>>
      /\ UNCHANGED <<open, names, freed, deleted>>

\* With a head, the blocks behind it end that much behind the end of the buffer.
Read(f, off, len) ==
  LET head == FirstPart(Walk(vnode[f]), off, FALSE)
      body == WholeBlocks(head, off, len, FALSE)
      tail == LastPart(body, len, FALSE)
      over == HeadLen(off) > len \/ (HeadLen(off) > 0 /\ tail.out = "ok")
  IN  /\ Call /\ f \in open
      /\ Leave(IF head.out = "ok" /\ over THEN Ends(tail, "overrun") ELSE tail)
      /\ got' = IF tail.out = "ok" /\ HeadLen(off) = 0
                THEN <<f, off \div P, ReadBlocks(body)>> ELSE <<>>
      /\ UNCHANGED <<ondisk, vnode, open, names, want, freed, deleted>>

\* Link takes the vnode of the file, or reads one; either way the inode is written to
\* the disk with the link count it had.
Link(f) ==
  /\ Call /\ names[f] \in 1 .. MaxNames - 1
  /\ names' = [names EXCEPT ![f] = @ + 1]
  /\ IF f \in open THEN \E inodes \in AfterWalk : ondisk' = [inodes EXCEPT ![f] = vnode[f]]
     ELSE ondisk' = TableWrittenBack
  /\ got' = <<>>
  /\ UNCHANGED <<store, vnode, open, pc, want, freed, deleted>>

Remains(links) == (links - 1) % 2^16

\* Remove takes the name away and reads the inode from the disk. The destructor of the
\* copy writes it back, also over the inode it has just cleared.
Remove(f) == \E inodes \in AfterWalk :
  LET child == [inodes[f] EXCEPT !.links = Remains(@)]
      w == GetOrCreateExtents(Walk(child), 0, child.size \div P, FALSE, TRUE)
      last == child.links = 0
      found == {w.exts[i] : i \in 1 .. Len(w.exts)}
  IN  /\ Call /\ names[f] > 0
      /\ names' = [names EXCEPT ![f] = @ - 1]
      /\ ondisk' = [inodes EXCEPT ![f] = child]
      /\ IF last /\ w.out # "none"
         THEN /\ pc' = IF w.out = "ok" /\ 0 \in found THEN "wild" ELSE w.out
              /\ bits' = bits \ {b - 1 : b \in found \ {0}}
              /\ freed' = (freed \/ found # {})
              /\ deleted' = deleted \union {f}
         ELSE UNCHANGED <<bits, pc, freed, deleted>>
      /\ got' = <<>>
      /\ UNCHANGED <<nfree, disk, vnode, open, want>>

Next ==
  \E f \in Files :
    \/ Touch(f) \/ MkDir(f) \/ SymLink(f)
    \/ Open(f) \/ Close(f) \/ Link(f) \/ Remove(f)
    \/ \E off \in Offsets, len \in Lens : Read(f, off, len) \/ Write(f, off, len)

Spec == Init /\ [][Next]_vars

--------------------------------------------------------------------------------
InodeOK(inode) ==
  /\ inode.size \in Nat /\ inode.blocks \in Nat /\ inode.links \in 0 .. 2^16 - 1
  /\ \A i \in 0 .. D + 2 : inode.block[i] \in Blocks \union {0, Stray}

\* Every variable has its type; the count of free blocks is never too high.
TypeOK ==
  /\ bits \subseteq Bits
  /\ nfree \in 0 .. NumBits - Cardinality(bits)
  /\ \A b \in Blocks : DOMAIN disk[b] = InBlock
  /\ \A f \in Files : InodeOK(ondisk[f]) /\ InodeOK(vnode[f])
  /\ open \subseteq Files
  /\ names \in [Files -> 0 .. MaxNames]
  /\ pc \in {"ok", "overrun", "spin", "wild"}


\* What a successful write of whole blocks put into a block of an open file is found
\* where the inode's pointers lead, whatever was written elsewhere or failed since
\* (ReadWrite, GetOrCreateExtents).
ContentsKept ==
  ~freed =>
    \A f \in open, n \in FileBlocks :
      want[f][n] # <<>> => /\ BlockOf(vnode[f], n) \in Blocks
                           /\ disk[BlockOf(vnode[f], n)] = want[f][n]

\* A read of whole blocks returns what was written to each of them, in order: reads take
\* the same way through the tables, and any grouping of the calls finds the same blocks.
ReadsMatch ==
  ~freed /\ got # <<>> =>
    \A i \in 1 .. Len(got[3]) :
      LET written == want[got[1]][got[2] + i - 1]
      IN  written # <<>> => got[3][i] = written

\* i_blocks, by which GetDirEntry knows how far to read (ext2_vnode.cpp:374), counts the
\* data blocks that were added to those of the image, and no tables.
CountsMatch ==
  LET data(f, inode) == Cardinality({u \in Uses(f, inode) : u.data})
  IN  ~freed /\ nfree > 0 =>
        \A f \in open : vnode[f].blocks - InitInode[f].blocks
                          = data(f, vnode[f]) - data(f, InitInode[f])

================================================================================
