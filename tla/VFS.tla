---------------------------------- MODULE VFS ----------------------------------
(* The open files of the VFS and the vnodes they keep pinned: sys/fs/vfs.cpp,   *)
(* with the pin tables of sys/fs/ext2_mount.cpp and the path walk of            *)
(* sys/fs/ext2_vnode.cpp below it.                                              *)
(*                                                                              *)
(* Every file of a mount that is in use should be represented by one vnode, the *)
(* only copy of its inode that reads and writes go through. The mount keeps two *)
(* hash maps keyed by inode number for that: the vnode itself (pinned_vnodes_)  *)
(* and how many users it has (num_pins_). A path walk takes the pinned vnode of *)
(* each component it meets, and reads a new copy of the inode when there is     *)
(* none. File contents, link counts and block allocation are not in this module.*)
EXTENDS Integers, Sequences, FiniteSets

CONSTANTS
  Inos,         \* inode numbers of the mount
  RootIno,      \* inode of the root directory (2 in ext2)
  Names,        \* names a path component or a directory entry can have
  Paths,        \* the paths callers use
  Objs,         \* vnode objects that can be in memory at once
  Handles,      \* FileHandle objects of the callers
  NoObj,        \* null, or memory that was already freed
  NoIno,        \* "not found"
  Dirs,         \* the directories of the disk image, see FindEntry
  InitUsed,     \* the inodes in use on the disk image
  InitEntries   \* the directory entries of the disk image

Entry == [name : Names, ino : Inos]

ASSUME VFSAssumption ==
  /\ Inos \subseteq Nat /\ IsFiniteSet(Inos)
  /\ RootIno \in Dirs /\ Dirs \subseteq InitUsed /\ InitUsed \subseteq Inos
  /\ NoIno \notin Inos /\ NoObj \notin Objs
  /\ IsFiniteSet(Handles)
  /\ IsFiniteSet(Names) /\ Paths \subseteq Seq(Names) \ {<<>>}
  /\ InitEntries \in [Inos -> Seq(Entry)]

VARIABLES
  used,       \* SUBSET Inos: the inode bitmap
  entries,    \* [Inos -> Seq(Entry)]: the entries of a directory, in disk order
  num_pins,   \* [Inos -> Nat]: num_pins_, 0 for an inode that is not a key of it
  pinned,     \* [Inos -> Objs or NoObj]: pinned_vnodes_
  ino_of,     \* [Objs -> Inos]: ino_ of the vnode
  mnts,       \* [Objs -> SUBSET Names]: mount points in mnts_ of the vnode
  num_mnts,   \* [Objs -> Nat]: mnts_.Len() of the vnode
  handle,     \* [Handles -> its state, its vnode]
  loose       \* history: inodes that lost a pin nobody gave up, or never had it

vars == <<used, entries, num_pins, pinned, ino_of, mnts, num_mnts, handle, loose>>

States   == {"none", "open", "closed"}
NoHandle == [state |-> "none", obj |-> NoObj]
Dir(path)  == SubSeq(path, 1, Len(path) - 1)
File(path) == path[Len(path)]

--------------------------------------------------------------------------------
(* Directories.                                                                 *)

Matches(d, name) == {k \in 1..Len(entries[d]) : entries[d][k].name = name}

\* GetDirEntry stops at the first entry with the name.
FirstMatch(d, name, k) ==
  /\ k \in Matches(d, name)
  /\ \A l \in Matches(d, name) : k <= l

\* The inode a name stands for in a directory. A vnode takes its inode from the
\* copy of the inode table that was cached when the file system was mounted
\* (ReadVNode), where an inode allocated since then is still zero: a directory
\* made by MkDir cannot be walked into.
FindEntry(d, name) ==
  IF d \notin Dirs \/ Matches(d, name) = {} THEN NoIno
  ELSE entries[d][CHOOSE k \in 1..Len(entries[d]) : FirstMatch(d, name, k)].ino

\* Remove clears one entry and leaves those behind it where they are.
WithoutEntry(d, k) ==
  [entries EXCEPT ![d] = SubSeq(@, 1, k - 1) \o SubSeq(@, k + 1, Len(@))]

\* MakeDirEntry does not look for an entry that already has the name.
WithEntry(d, name, i) == [entries EXCEPT ![d] = Append(@, [name |-> name, ino |-> i])]

\* Lookup: the inode of each component, NoIno from the first that is missing.
Walk(path) ==
  LET at[k \in 0..Len(path)] ==
        IF k = 0 THEN RootIno
        ELSE IF at[k - 1] = NoIno THEN NoIno ELSE FindEntry(at[k - 1], path[k])
  IN  at
Target(path) == Walk(path)[Len(path)]

\* The parent of a path. A walk of "/" finds nothing: only Open(create) asks for
\* it by name.
Parent(path) == IF Len(path) = 1 THEN NoIno ELSE Target(Dir(path))

--------------------------------------------------------------------------------
(* Pin tables.                                                                  *)

\* GetVNode adds a pin to each pinned vnode a walk goes through, found in the end
\* or not.
Visits(path, i) == {k \in 1..Len(path) : Walk(path)[k] = i}
Visited(counts, path) ==
  [i \in Inos |-> IF pinned[i] = NoObj THEN counts[i]
                  ELSE counts[i] + Cardinality(Visits(path, i))]
ParentVisited(counts, path) ==
  IF Len(path) = 1 THEN counts ELSE Visited(counts, Dir(path))

\* Pin, after a walk left the counts as they are in counts.
PinCount(counts, i) == [counts EXCEPT ![i] = @ + 1]
PinObj(i, o) == [pinned EXCEPT ![i] = IF @ = NoObj THEN o ELSE @]

\* Mutant of UnpinCount: does not look whether the inode is in the map.
UnpinBelowZero(counts, i) == [counts EXCEPT ![i] = @ - 1]

\* Mutants of UnpinObj: the vnode is left in the map, or taken out by any Unpin.
UnpinKeepsVNode(counts, i) == pinned
UnpinDropsVNode(counts, i) == [pinned EXCEPT ![i] = NoObj]

\* Unpin: the last user takes the vnode out of both tables.
UnpinCount(counts, i) == [counts EXCEPT ![i] = IF @ = 0 THEN 0 ELSE @ - 1]
UnpinObj(counts, i) == [pinned EXCEPT ![i] = IF counts[i] = 1 THEN NoObj ELSE @]

\* An Unpin by somebody who did not pin.
Loosened(counts, i) == IF counts[i] = 0 THEN loose ELSE loose \union {i}

\* A vnode not held by a handle or a pin table. VFS::root_ is not one of Objs: it
\* never comes out of GetVNode.
FreeObjs == Objs \ ({pinned[i] : i \in Inos} \union {handle[h].obj : h \in Handles})

\* Mutant of GetVNode: never looks into pinned_vnodes_.
GetVNodeReads(i, o) == o \in FreeObjs

\* GetVNode returns the pinned vnode of i, or a new one with no mount points.
GetVNode(i, o) == IF pinned[i] = NoObj THEN o \in FreeObjs ELSE o = pinned[i]
MountsOf(i, o) == IF pinned[i] = NoObj THEN {} ELSE mnts[o]
NumMountsOf(i, o) == IF pinned[i] = NoObj THEN 0 ELSE num_mnts[o]

\* Mutant of LookupAndPin: Lookup alone.
LookupOnly(path, i, o) ==
  /\ GetVNode(i, o)
  /\ num_pins' = Visited(num_pins, path)
  /\ ino_of' = [ino_of EXCEPT ![o] = i]
  /\ UNCHANGED pinned

\* LookupAndPin on a path that leads to i: pins the vnode o of i.
LookupAndPin(path, i, o) ==
  /\ GetVNode(i, o)
  /\ num_pins' = PinCount(Visited(num_pins, path), i)
  /\ pinned' = PinObj(i, o)
  /\ ino_of' = [ino_of EXCEPT ![o] = i]

--------------------------------------------------------------------------------
Init ==
  /\ used = InitUsed /\ entries = InitEntries
  /\ num_pins = [i \in Inos |-> 0] /\ pinned = [i \in Inos |-> NoObj]
  /\ ino_of = [o \in Objs |-> RootIno]
  /\ mnts = [o \in Objs |-> {}] /\ num_mnts = [o \in Objs |-> 0]
  /\ handle = [h \in Handles |-> NoHandle]
  /\ loose = {}

\* A call that found nothing to do after its walk.
Failed(counts) ==
  /\ num_pins' = counts
  /\ UNCHANGED <<used, entries, pinned, ino_of, mnts, num_mnts, handle, loose>>

\* Open(path), create = false.
Open(h, path) ==
  /\ handle[h].state = "none"
  /\ \/ Target(path) = NoIno /\ Failed(Visited(num_pins, path))
     \/ \E i \in {Target(path)} \intersect Inos, o \in Objs :
          /\ LookupAndPin(path, i, o)
          /\ mnts' = [mnts EXCEPT ![o] = MountsOf(i, o)]
          /\ num_mnts' = [num_mnts EXCEPT ![o] = NumMountsOf(i, o)]
          /\ handle' = [handle EXCEPT ![h] = [state |-> "open", obj |-> o]]
          /\ UNCHANGED <<used, entries, loose>>

\* AllocVNode, then MakeDirEntry, which can fail: the inode stays allocated.
Creates(d, name) ==
  \E i \in Inos \ used :
    /\ \A j \in Inos \ used : i <= j
    /\ used' = used \union {i}
    /\ entries' \in {entries, WithEntry(d, name, i)}

\* Open(path), create = true: a new inode whatever the name refers to. Touch gives
\* its vnode to MakeDirEntry as a temporary reference, whose end frees it, so the
\* handle's vnode is freed memory. The vnode is not pinned.
OpenCreate(h, path) ==
  /\ handle[h].state = "none"
  /\ \/ /\ (Parent(path) = NoIno /\ Len(path) # 1) \/ used = Inos
        /\ Failed(ParentVisited(num_pins, path))
     \/ \E d \in {IF Len(path) = 1 THEN RootIno ELSE Parent(path)} \intersect Inos :
          /\ Creates(d, File(path))
          /\ handle' = IF entries' = entries THEN handle
                       ELSE [handle EXCEPT ![h] = [state |-> "open", obj |-> NoObj]]
          /\ num_pins' = ParentVisited(num_pins, path)
          /\ UNCHANGED <<pinned, ino_of, mnts, num_mnts, loose>>

\* Close never asks whether the handle was closed before. What the freed vnode of
\* a created file answers to GetIno is whatever lies there by then.
Close(h) ==
  /\ handle[h].state # "none"
  /\ handle' = [handle EXCEPT ![h] = [state |-> "closed", obj |-> @.obj]]
  /\ \E i \in Inos :
       /\ handle[h].obj # NoObj => i = ino_of[handle[h].obj]
       /\ num_pins' = UnpinCount(num_pins, i)
       /\ pinned' = UnpinObj(num_pins, i)
       /\ loose' = IF handle[h].state = "open" /\ handle[h].obj # NoObj
                   THEN loose ELSE Loosened(num_pins, i)
  /\ UNCHANGED <<used, entries, ino_of, mnts, num_mnts>>

\* A FileHandle is copied, its vnode with it, and the copy can be closed too.
CopyHandle(h, g) ==
  /\ handle[h].state = "open" /\ handle[h].obj # NoObj
  /\ handle[g].state = "none"
  /\ handle' = [handle EXCEPT ![g] = handle[h]]
  /\ loose' = loose \union {ino_of[handle[h].obj]}
  /\ UNCHANGED <<used, entries, num_pins, pinned, ino_of, mnts, num_mnts>>

\* Mutant of DropHandle: a destructor that unpins, closed or not.
DropHandleUnpins(h) ==
  /\ handle[h].obj # NoObj
  /\ handle' = [handle EXCEPT ![h] = NoHandle]
  /\ num_pins' = UnpinCount(num_pins, ino_of[handle[h].obj])
  /\ pinned' = UnpinObj(num_pins, ino_of[handle[h].obj])
  /\ UNCHANGED <<used, entries, ino_of, mnts, num_mnts, loose>>

\* A FileHandle goes out of scope. There is no destructor to close it.
DropHandle(h) ==
  /\ handle[h].state # "none"
  /\ handle' = [handle EXCEPT ![h] = NoHandle]
  /\ UNCHANGED <<used, entries, num_pins, pinned, ino_of, mnts, num_mnts, loose>>

\* Mount pins the parent first, and leaves the pin if the partition has no root
\* or the mount point is taken.
Mount(path) ==
  \/ Parent(path) = NoIno /\ Failed(ParentVisited(num_pins, path))
  \/ \E p \in {Parent(path)} \intersect Inos, o \in Objs, found \in BOOLEAN :
       LET new == found /\ File(path) \notin MountsOf(p, o) IN
       /\ LookupAndPin(Dir(path), p, o)
       /\ mnts' = [mnts EXCEPT ![o] = MountsOf(p, o)
                                        \union IF new THEN {File(path)} ELSE {}]
       /\ num_mnts' = [num_mnts EXCEPT ![o] = NumMountsOf(p, o) + IF new THEN 1 ELSE 0]
       /\ UNCHANGED <<used, entries, handle, loose>>

\* Unmount. Delete takes the mount point out of the map and not out of its Len.
Unmount(path) ==
  LET p == Parent(path)
      counts == ParentVisited(num_pins, path)
      mounted == p # NoIno /\ pinned[p] # NoObj /\ File(path) \in mnts[pinned[p]]
  IN
  \/ ~mounted /\ Failed(counts)
  \/ \E i \in {p} \intersect Inos :
       /\ mounted
       /\ mnts' = [mnts EXCEPT ![pinned[i]] = @ \ {File(path)}]
       /\ num_pins' = IF num_mnts[pinned[i]] = 0 THEN UnpinCount(counts, i) ELSE counts
       /\ pinned' = IF num_mnts[pinned[i]] = 0 THEN UnpinObj(counts, i) ELSE pinned
       /\ UNCHANGED <<used, entries, ino_of, num_mnts, handle, loose>>

\* Touch, MkDir and SymLink.
Create(path) ==
  \/ /\ Parent(path) = NoIno \/ used = Inos
     /\ Failed(ParentVisited(num_pins, path))
  \/ \E d \in {Parent(path)} \intersect Inos :
       /\ Creates(d, File(path))
       /\ num_pins' = ParentVisited(num_pins, path)
       /\ UNCHANGED <<pinned, ino_of, mnts, num_mnts, handle, loose>>

\* Link: the walk to the file, the walk to the new parent, GetVNode on the file.
Link(path, target) ==
  LET seen == ParentVisited(Visited(num_pins, path), target) IN
  \/ Target(path) = NoIno /\ Failed(Visited(num_pins, path))
  \/ Target(path) # NoIno /\ Parent(target) = NoIno /\ Failed(seen)
  \/ \E i \in {Target(path)} \intersect Inos, p \in {Parent(target)} \intersect Inos :
       /\ num_pins' = IF pinned[i] = NoObj THEN seen ELSE PinCount(seen, i)
       /\ entries' \in {entries, WithEntry(p, File(target), i)}
       /\ UNCHANGED <<used, pinned, ino_of, mnts, num_mnts, handle, loose>>

\* Remove and Unlink: the local vnode of the child unpins the child on its way out.
\* The call can also end before it has one: no such entry, block not written.
Remove(path) ==
  LET counts == ParentVisited(num_pins, path) IN
  \/ Failed(counts)
  \/ \E p \in {Parent(path)} \intersect Dirs : \E k \in Matches(p, File(path)) :
       LET i == entries[p][k].ino IN
       /\ FirstMatch(p, File(path), k)
       /\ entries' = WithoutEntry(p, k)
       /\ num_pins' = UnpinCount(counts, i)
       /\ pinned' = UnpinObj(counts, i)
       /\ loose' = Loosened(counts, i)
       /\ UNCHANGED <<used, ino_of, mnts, num_mnts, handle>>

Next ==
  \/ \E h \in Handles : Close(h) \/ DropHandle(h)
  \/ \E h, g \in Handles : CopyHandle(h, g)
  \/ \E h \in Handles, path \in Paths : Open(h, path) \/ OpenCreate(h, path)
  \/ \E path \in Paths : Mount(path) \/ Unmount(path) \/ Create(path) \/ Remove(path)
  \/ \E path, target \in Paths : Link(path, target)

Spec == Init /\ [][Next]_vars

--------------------------------------------------------------------------------
(* Properties. Those about sharing hold of the inodes that are not loose: an    *)
(* Unpin by somebody who did not pin (a second Close, the destructor in Remove, *)
(* the Close of a created file), or a copied handle, spends the pin of another  *)
(* user, and the vnode of that inode may then be dropped while it is in use.    *)

IsOpen(h) == handle[h].state = "open" /\ handle[h].obj # NoObj
Holders(i) == {h \in Handles : IsOpen(h) /\ ino_of[handle[h].obj] = i}
MountPoints(i) == IF pinned[i] = NoObj THEN {} ELSE mnts[pinned[i]]

\* Type invariant: the pin tables map inodes to counts and vnodes, and a handle
\* that was never opened refers to no vnode.
TypeOK ==
  /\ used \subseteq Inos
  /\ entries \in [Inos -> Seq(Entry)]
  /\ num_pins \in [Inos -> Nat]
  /\ pinned \in [Inos -> Objs \union {NoObj}]
  /\ ino_of \in [Objs -> Inos]
  /\ mnts \in [Objs -> SUBSET Names]
  /\ num_mnts \in [Objs -> Nat]
  /\ handle \in [Handles -> [state : States, obj : Objs \union {NoObj}]]
  /\ loose \subseteq Inos

\* The two hash maps have the same keys, and a vnode is pinned under its own
\* inode number (Pin and Unpin change both maps, GetVNode only one).
TablesAgree ==
  \A i \in Inos : /\ num_pins[i] = 0 <=> pinned[i] = NoObj
                  /\ pinned[i] # NoObj => ino_of[pinned[i]] = i

\* Each open handle and each mount point has a pin of its own (Open and Mount use
\* LookupAndPin), whatever walks, closes and unmounts come in between.
PinsCoverUsers ==
  \A i \in Inos \ loose :
    num_pins[i] >= Cardinality(Holders(i)) + Cardinality(MountPoints(i))

\* The vnode of an open handle is the one every later walk to its file finds.
OpenVNodeStaysPinned ==
  \A h \in Handles :
    IsOpen(h) /\ ino_of[handle[h].obj] \notin loose
    => pinned[ino_of[handle[h].obj]] = handle[h].obj

\* Two open handles on one file use one vnode, so that what one writes (and the
\* length it leaves) is what the other reads.
OneVNodePerFile ==
  \A g, h \in Handles :
    /\ IsOpen(g) /\ IsOpen(h)
    /\ ino_of[handle[g].obj] = ino_of[handle[h].obj]
    /\ ino_of[handle[g].obj] \notin loose
    => handle[g].obj = handle[h].obj

\* A directory with a mount point on it stays in memory under its inode number:
\* the mount points are in the vnode and nowhere else.
MountsStayReachable ==
  \A o \in Objs :
    mnts[o] # {} /\ ino_of[o] \notin loose => pinned[ino_of[o]] = o

================================================================================
