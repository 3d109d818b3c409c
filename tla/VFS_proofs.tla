------------------------------- MODULE VFS_proofs -------------------------------
(* Proofs about the pinned vnodes of VFS.tla, for every set of inodes, paths,   *)
(* handles and vnodes.                                                          *)
EXTENDS VFS, FiniteSetTheorems, SequenceTheorems, TLAPS

--------------------------------------------------------------------------------
(* What a path walk does to the counts.                                         *)

\* A walk leaves every count in place or raises it, and raises none of an inode
\* that is not pinned.
Raises(old, new) ==
  /\ new \in [Inos -> Nat]
  /\ \A i \in Inos : /\ new[i] >= old[i]
                     /\ pinned[i] = NoObj => new[i] = old[i]

\* A path of the callers has a last component, and a parent that is a sequence of
\* names (DecomposePath).
LEMMA PathParts ==
  ASSUME NEW path \in Paths
  PROVE  /\ path \in Seq(Names) /\ Len(path) \in Nat \ {0}
         /\ Dir(path) \in Seq(Names) /\ File(path) \in Names
<1>1. path \in Seq(Names) /\ path # <<>>
  BY VFSAssumption
<1>2. Len(path) \in Nat \ {0}
  BY <1>1
<1>3. \A k \in 1..(Len(path) - 1) : path[k] \in Names
  BY <1>1, <1>2
<1>4. Dir(path) \in Seq(Names)
  BY <1>2, <1>3, SubSeqProperties DEF Dir
<1>5. File(path) \in Names
  BY <1>1, <1>2 DEF File
<1> QED
  BY <1>1, <1>2, <1>4, <1>5

\* GetVNode adds a natural number of pins along a walk.
LEMMA VisitsNat ==
  ASSUME NEW path \in Seq(Names), NEW i
  PROVE  Cardinality(Visits(path, i)) \in Nat
<1>1. IsFiniteSet(1..Len(path))
  BY FS_Interval
<1>2. Visits(path, i) \subseteq 1..Len(path)
  BY DEF Visits
<1> QED
  BY <1>1, <1>2, FS_Subset, FS_CardinalityType

\* GetVNode, along a walk, only adds pins, and only to inodes that have a vnode.
LEMMA VisitedRaises ==
  ASSUME NEW old \in [Inos -> Nat], NEW path \in Seq(Names)
  PROVE  Raises(old, Visited(old, path))
<1>1. ASSUME NEW i \in Inos PROVE Cardinality(Visits(path, i)) \in Nat
  BY VisitsNat
<1>2. Visited(old, path) \in [Inos -> Nat]
  BY <1>1 DEF Visited
<1> QED
  BY <1>1, <1>2 DEF Raises, Visited

\* The same of the walk to the parent of a path.
LEMMA ParentVisitedRaises ==
  ASSUME NEW old \in [Inos -> Nat], NEW path \in Paths
  PROVE  Raises(old, ParentVisited(old, path))
<1>1. CASE Len(path) = 1
  BY <1>1 DEF ParentVisited, Raises
<1>2. CASE Len(path) # 1
  BY <1>2, PathParts, VisitedRaises DEF ParentVisited
<1> QED
  BY <1>1, <1>2

\* Link walks twice.
LEMMA RaisesTwice ==
  ASSUME NEW a \in [Inos -> Nat], NEW b, NEW c, Raises(a, b), Raises(b, c)
  PROVE  Raises(a, c)
BY DEF Raises

--------------------------------------------------------------------------------
(* Types.                                                                       *)

\* The two forms of a new entry list keep a directory a sequence of entries.
LEMMA EntriesTyped ==
  ASSUME TypeOK, NEW d \in Inos, NEW name \in Names, NEW i \in Inos
  PROVE  WithEntry(d, name, i) \in [Inos -> Seq(Entry)]
<1>1. entries[d] \in Seq(Entry) /\ [name |-> name, ino |-> i] \in Entry
  BY DEF TypeOK, Entry
<1>2. Append(entries[d], [name |-> name, ino |-> i]) \in Seq(Entry)
  BY <1>1
<1> QED
  BY <1>2 DEF TypeOK, WithEntry

\* Clearing an entry (Remove) leaves the other directories and a list of entries.
LEMMA WithoutEntryTyped ==
  ASSUME TypeOK, NEW d \in Inos, NEW k \in 1..Len(entries[d])
  PROVE  WithoutEntry(d, k) \in [Inos -> Seq(Entry)]
<1> DEFINE s == entries[d]
<1>1. s \in Seq(Entry) /\ Len(s) \in Nat
  BY DEF TypeOK
<1>2. \A l \in 1..(k - 1) : s[l] \in Entry
  BY <1>1
<1>3. \A l \in (k + 1)..Len(s) : s[l] \in Entry
  BY <1>1
<1>4. SubSeq(s, 1, k - 1) \in Seq(Entry)
  BY <1>1, <1>2, SubSeqProperties
<1>5. SubSeq(s, k + 1, Len(s)) \in Seq(Entry)
  BY <1>1, <1>3, SubSeqProperties
<1>6. SubSeq(s, 1, k - 1) \o SubSeq(s, k + 1, Len(s)) \in Seq(Entry)
  BY <1>4, <1>5
<1> QED
  BY <1>6 DEF TypeOK, WithoutEntry

\* Unpin keeps the tables' types: a count of zero is not decremented.
LEMMA UnpinTyped ==
  ASSUME TypeOK, NEW counts \in [Inos -> Nat], NEW i \in Inos
  PROVE  /\ UnpinCount(counts, i) \in [Inos -> Nat]
         /\ UnpinObj(counts, i) \in [Inos -> Objs \union {NoObj}]
         /\ Loosened(counts, i) \subseteq Inos
BY DEF TypeOK, UnpinCount, UnpinObj, Loosened

\* LookupAndPin gives the vnode it pins an inode of the mount.
LEMMA LookupAndPinTyped ==
  ASSUME TypeOK, NEW path \in Seq(Names), NEW i \in Inos, NEW o \in Objs,
         LookupAndPin(path, i, o)
  PROVE  /\ num_pins' \in [Inos -> Nat]
         /\ pinned' \in [Inos -> Objs \union {NoObj}]
         /\ ino_of' \in [Objs -> Inos]
         /\ MountsOf(i, o) \subseteq Names
         /\ NumMountsOf(i, o) \in Nat
<1>1. Visited(num_pins, path) \in [Inos -> Nat]
  BY VisitedRaises DEF TypeOK, Raises
<1> QED
  BY <1>1 DEF TypeOK, LookupAndPin, PinCount, PinObj, MountsOf, NumMountsOf

\* AllocVNode and MakeDirEntry take an inode of the bitmap.
LEMMA CreatesTyped ==
  ASSUME TypeOK, NEW d \in Inos, NEW name \in Names, Creates(d, name)
  PROVE  used' \subseteq Inos /\ entries' \in [Inos -> Seq(Entry)]
BY EntriesTyped DEF Creates, TypeOK

\* The tables of a file system that was just mounted.
LEMMA TypeInit == Init => TypeOK
BY VFSAssumption DEF Init, TypeOK, NoHandle, States

\* Every call leaves the variables in their types.
LEMMA TypeStep == TypeOK /\ [Next]_vars => TypeOK'
<1> SUFFICES ASSUME TypeOK, [Next]_vars PROVE TypeOK'
  OBVIOUS
<1>0. \A path \in Paths : /\ path \in Seq(Names) /\ Dir(path) \in Seq(Names)
                          /\ File(path) \in Names
  BY PathParts
<1>1. \A path \in Paths : /\ Visited(num_pins, path) \in [Inos -> Nat]
                          /\ ParentVisited(num_pins, path) \in [Inos -> Nat]
  BY <1>0, VisitedRaises, ParentVisitedRaises DEF TypeOK, Raises
<1>2. ASSUME NEW counts \in [Inos -> Nat], Failed(counts) PROVE TypeOK'
  BY <1>2 DEF Failed, TypeOK
<1>3. ASSUME NEW h \in Handles, NEW path \in Paths, Open(h, path) PROVE TypeOK'
  <2>1. CASE Failed(Visited(num_pins, path))
    BY <1>1, <1>2, <2>1
  <2>2. ASSUME NEW i \in Inos, NEW o \in Objs, LookupAndPin(path, i, o),
               mnts' = [mnts EXCEPT ![o] = MountsOf(i, o)],
               num_mnts' = [num_mnts EXCEPT ![o] = NumMountsOf(i, o)],
               handle' = [handle EXCEPT ![h] = [state |-> "open", obj |-> o]],
               UNCHANGED <<used, entries, loose>>
        PROVE TypeOK'
    BY <1>0, <2>2, LookupAndPinTyped DEF TypeOK, States
  <2> QED
    BY <1>3, <2>1, <2>2 DEF Open
<1>4. ASSUME NEW h \in Handles, NEW path \in Paths, OpenCreate(h, path) PROVE TypeOK'
  <2>1. CASE Failed(ParentVisited(num_pins, path))
    BY <1>1, <1>2, <2>1
  <2>2. ASSUME NEW d \in Inos, Creates(d, File(path)),
               handle' = IF entries' = entries THEN handle
                         ELSE [handle EXCEPT ![h] = [state |-> "open", obj |-> NoObj]],
               num_pins' = ParentVisited(num_pins, path),
               UNCHANGED <<pinned, ino_of, mnts, num_mnts, loose>>
        PROVE TypeOK'
    <3>1. used' \subseteq Inos /\ entries' \in [Inos -> Seq(Entry)]
      BY <1>0, <2>2, CreatesTyped
    <3>2. handle' \in [Handles -> [state : States, obj : Objs \union {NoObj}]]
      BY <2>2 DEF TypeOK, States
    <3> QED
      BY <1>1, <2>2, <3>1, <3>2 DEF TypeOK
  <2> QED
    BY <1>4, <2>1, <2>2 DEF OpenCreate
<1>5. ASSUME NEW h \in Handles, Close(h) PROVE TypeOK'
  <2>1. handle' \in [Handles -> [state : States, obj : Objs \union {NoObj}]]
    <3>1. handle[h].obj \in Objs \union {NoObj}
      BY DEF TypeOK
    <3> QED
      BY <1>5, <3>1 DEF Close, TypeOK, States
  <2>2. /\ num_pins' \in [Inos -> Nat] /\ loose' \subseteq Inos
        /\ pinned' \in [Inos -> Objs \union {NoObj}]
    <3>1. PICK i \in Inos : /\ num_pins' = UnpinCount(num_pins, i)
                            /\ pinned' = UnpinObj(num_pins, i)
                            /\ loose' \in {loose, Loosened(num_pins, i)}
      BY <1>5 DEF Close
    <3>2. num_pins \in [Inos -> Nat] /\ loose \subseteq Inos
      BY DEF TypeOK
    <3>3. /\ UnpinCount(num_pins, i) \in [Inos -> Nat]
          /\ UnpinObj(num_pins, i) \in [Inos -> Objs \union {NoObj}]
          /\ Loosened(num_pins, i) \subseteq Inos
      BY <3>2, UnpinTyped
    <3> QED
      BY <3>1, <3>2, <3>3
  <2> QED
    BY <1>5, <2>1, <2>2 DEF Close, TypeOK
<1>6. ASSUME NEW h \in Handles, NEW g \in Handles, CopyHandle(h, g) PROVE TypeOK'
  <2>1. ino_of[handle[h].obj] \in Inos
    BY <1>6 DEF CopyHandle, TypeOK
  <2> QED
    BY <1>6, <2>1 DEF CopyHandle, TypeOK
<1>7. ASSUME NEW h \in Handles, DropHandle(h) PROVE TypeOK'
  BY <1>7 DEF DropHandle, NoHandle, TypeOK, States
<1>8. ASSUME NEW path \in Paths, Mount(path) PROVE TypeOK'
  <2>1. CASE Failed(ParentVisited(num_pins, path))
    BY <1>1, <1>2, <2>1
  <2>2. ASSUME NEW p \in Inos, NEW o \in Objs, NEW new \in BOOLEAN,
               LookupAndPin(Dir(path), p, o),
               mnts' = [mnts EXCEPT ![o] = MountsOf(p, o)
                                   \union IF new THEN {File(path)} ELSE {}],
               num_mnts' = [num_mnts EXCEPT ![o] = NumMountsOf(p, o)
                                   + IF new THEN 1 ELSE 0],
               UNCHANGED <<used, entries, handle, loose>>
        PROVE TypeOK'
    <3>1. /\ num_pins' \in [Inos -> Nat] /\ pinned' \in [Inos -> Objs \union {NoObj}]
          /\ ino_of' \in [Objs -> Inos]
          /\ MountsOf(p, o) \subseteq Names /\ NumMountsOf(p, o) \in Nat
      BY <1>0, <2>2, LookupAndPinTyped
    <3>2. mnts' \in [Objs -> SUBSET Names] /\ num_mnts' \in [Objs -> Nat]
      BY <1>0, <2>2, <3>1 DEF TypeOK
    <3> QED
      BY <2>2, <3>1, <3>2 DEF TypeOK
  <2> QED
    BY <1>8, <2>1, <2>2 DEF Mount
<1>9. ASSUME NEW path \in Paths, Unmount(path) PROVE TypeOK'
  <2> DEFINE counts == ParentVisited(num_pins, path)
  <2>1. CASE Failed(counts)
    BY <1>1, <1>2, <2>1
  <2>2. ASSUME NEW i \in Inos,
               mnts' = [mnts EXCEPT ![pinned[i]] = @ \ {File(path)}],
               num_pins' \in {counts, UnpinCount(counts, i)},
               pinned' \in {pinned, UnpinObj(counts, i)},
               UNCHANGED <<used, entries, ino_of, num_mnts, handle, loose>>
        PROVE TypeOK'
    <3>1. mnts' \in [Objs -> SUBSET Names]
      BY <2>2 DEF TypeOK
    <3>2. /\ UnpinCount(counts, i) \in [Inos -> Nat] /\ counts \in [Inos -> Nat]
          /\ UnpinObj(counts, i) \in [Inos -> Objs \union {NoObj}]
      BY <1>1, UnpinTyped
    <3>3. num_pins' \in [Inos -> Nat] /\ pinned' \in [Inos -> Objs \union {NoObj}]
      BY <2>2, <3>2 DEF TypeOK
    <3> QED
      BY <2>2, <3>1, <3>3 DEF TypeOK
  <2> QED
    BY <1>9, <2>1, <2>2 DEF Unmount
<1>10. ASSUME NEW path \in Paths, Create(path) PROVE TypeOK'
  <2>1. CASE Failed(ParentVisited(num_pins, path))
    BY <1>1, <1>2, <2>1
  <2>2. ASSUME NEW d \in Inos, Creates(d, File(path)),
               num_pins' = ParentVisited(num_pins, path),
               UNCHANGED <<pinned, ino_of, mnts, num_mnts, handle, loose>>
        PROVE TypeOK'
    <3>1. used' \subseteq Inos /\ entries' \in [Inos -> Seq(Entry)]
      BY <1>0, <2>2, CreatesTyped
    <3> QED
      BY <1>1, <2>2, <3>1 DEF TypeOK
  <2> QED
    BY <1>10, <2>1, <2>2 DEF Create
<1>11. ASSUME NEW path \in Paths, NEW target \in Paths, Link(path, target) PROVE TypeOK'
  <2> DEFINE seen == ParentVisited(Visited(num_pins, path), target)
  <2>1. seen \in [Inos -> Nat]
    BY <1>1, ParentVisitedRaises DEF Raises
  <2>2. CASE Failed(Visited(num_pins, path)) \/ Failed(seen)
    BY <1>1, <1>2, <2>1, <2>2
  <2>3. ASSUME NEW i \in Inos, NEW p \in Inos,
               num_pins' = IF pinned[i] = NoObj THEN seen ELSE PinCount(seen, i),
               entries' \in {entries, WithEntry(p, File(target), i)},
               UNCHANGED <<used, pinned, ino_of, mnts, num_mnts, handle, loose>>
        PROVE TypeOK'
    <3>1. entries' \in [Inos -> Seq(Entry)]
      <4>1. WithEntry(p, File(target), i) \in [Inos -> Seq(Entry)]
        BY <1>0, EntriesTyped
      <4> QED
        BY <2>3, <4>1 DEF TypeOK
    <3>2. num_pins' \in [Inos -> Nat]
      BY <2>1, <2>3 DEF PinCount
    <3> QED
      BY <2>3, <3>1, <3>2 DEF TypeOK
  <2> QED
    BY <1>11, <2>2, <2>3 DEF Link
<1>12. ASSUME NEW path \in Paths, Remove(path) PROVE TypeOK'
  <2> DEFINE counts == ParentVisited(num_pins, path)
  <2>1. CASE Failed(counts)
    BY <1>1, <1>2, <2>1
  <2>2. ASSUME NEW p \in Dirs, NEW k \in Matches(p, File(path)),
               entries' = WithoutEntry(p, k),
               num_pins' = UnpinCount(counts, entries[p][k].ino),
               pinned' = UnpinObj(counts, entries[p][k].ino),
               loose' = Loosened(counts, entries[p][k].ino),
               UNCHANGED <<used, ino_of, mnts, num_mnts, handle>>
        PROVE TypeOK'
    <3>1. p \in Inos /\ k \in 1..Len(entries[p])
      BY VFSAssumption DEF Matches
    <3>2. entries[p][k].ino \in Inos
      <4>1. entries[p] \in Seq(Entry)
        BY <3>1 DEF TypeOK
      <4>2. entries[p][k] \in Entry
        BY <3>1, <4>1
      <4> QED
        BY <4>2 DEF Entry
    <3>3. entries' \in [Inos -> Seq(Entry)]
      BY <2>2, <3>1, WithoutEntryTyped
    <3>4. /\ num_pins' \in [Inos -> Nat] /\ loose' \subseteq Inos
          /\ pinned' \in [Inos -> Objs \union {NoObj}]
      BY <1>1, <2>2, <3>2, UnpinTyped
    <3> QED
      BY <2>2, <3>3, <3>4 DEF TypeOK
  <2> QED
    BY <1>12, <2>1, <2>2 DEF Remove
<1>13. CASE UNCHANGED vars
  BY <1>13 DEF vars, TypeOK
<1> QED
  BY <1>3, <1>4, <1>5, <1>6, <1>7, <1>8, <1>9, <1>10, <1>11, <1>12, <1>13 DEF Next

\* The pin tables, the handles and the directories keep their types in every run
\* of the VFS calls.
THEOREM TypeCorrect == Spec => []TypeOK
<1>1. Init => TypeOK
  BY TypeInit
<1>2. TypeOK /\ [Next]_vars => TypeOK'
  BY TypeStep
<1> QED
  BY <1>1, <1>2, PTL DEF Spec

--------------------------------------------------------------------------------
(* Sharing. The invariant adds two facts to the properties: a vnode is pinned   *)
(* under its own inode (TablesAgree), and Len of a map of mount points never    *)
(* falls back to 0 (Delete does not lower it), so Unmount never unpins.         *)

MountsCounted == \A o \in Objs : mnts[o] # {} => num_mnts[o] > 0

IInv ==
  /\ TypeOK
  /\ TablesAgree
  /\ MountsCounted
  /\ PinsCoverUsers
  /\ OpenVNodeStaysPinned
  /\ MountsStayReachable

\* The users of an inode are finitely many.
LEMMA UsersFinite ==
  ASSUME TypeOK, NEW i \in Inos
  PROVE  /\ IsFiniteSet(Holders(i)) /\ Cardinality(Holders(i)) \in Nat
         /\ IsFiniteSet(MountPoints(i)) /\ Cardinality(MountPoints(i)) \in Nat
<1>1. Holders(i) \subseteq Handles
  BY DEF Holders
<1>2. MountPoints(i) \subseteq Names
  BY DEF MountPoints, TypeOK
<1> QED
  BY <1>1, <1>2, VFSAssumption, FS_Subset, FS_CardinalityType

\* Calls that pin nothing for a new user and unpin nothing: counts may rise,
\* users may go, a handle may be copied on an inode that is loose from then on.
LEMMA NoPinSpent ==
  ASSUME IInv, TypeOK', MountsCounted',
         Raises(num_pins, num_pins'), UNCHANGED <<pinned, ino_of>>,
         loose \subseteq loose',
         \A o \in Objs : mnts'[o] \subseteq mnts[o],
         \A h \in Handles : IsOpen(h)' => \/ IsOpen(h) /\ handle'[h].obj = handle[h].obj
                                          \/ ino_of[handle'[h].obj] \in loose'
  PROVE  IInv'
<1> USE DEF IInv
<1>1. TablesAgree'
  BY DEF TablesAgree, Raises, TypeOK
<1>2. PinsCoverUsers'
  <2> SUFFICES ASSUME NEW i \in Inos, i \notin loose'
               PROVE  num_pins'[i] >= Cardinality(Holders(i)') + Cardinality(MountPoints(i)')
    BY DEF PinsCoverUsers
  <2>1. Holders(i)' \subseteq Holders(i)
    BY DEF Holders
  <2>2. MountPoints(i)' \subseteq MountPoints(i)
    BY DEF MountPoints, TypeOK
  <2>3. /\ Cardinality(Holders(i)') <= Cardinality(Holders(i))
        /\ Cardinality(MountPoints(i)') <= Cardinality(MountPoints(i))
        /\ Cardinality(Holders(i)') \in Nat /\ Cardinality(MountPoints(i)') \in Nat
    BY <2>1, <2>2, UsersFinite, FS_Subset, FS_CardinalityType
  <2>4. num_pins[i] >= Cardinality(Holders(i)) + Cardinality(MountPoints(i))
    BY DEF PinsCoverUsers
  <2>5. num_pins'[i] >= num_pins[i] /\ num_pins'[i] \in Nat /\ num_pins[i] \in Nat
    BY DEF Raises, TypeOK
  <2> QED
    BY <2>3, <2>4, <2>5, UsersFinite
<1>3. OpenVNodeStaysPinned'
  BY DEF OpenVNodeStaysPinned
<1>4. MountsStayReachable'
  BY DEF MountsStayReachable
<1> QED
  BY <1>1, <1>2, <1>3, <1>4

\* What LookupAndPin does to the tables: o becomes, or is, the pinned vnode of i,
\* and no handle and no other inode had it if it is new.
LEMMA PinEffect ==
  ASSUME IInv, NEW path \in Seq(Names), NEW i \in Inos, NEW o \in Objs,
         LookupAndPin(path, i, o)
  PROVE  /\ pinned'[i] = o /\ ino_of'[o] = i
         /\ \A j \in Inos : j # i => pinned'[j] = pinned[j] /\ pinned[j] # o
         /\ \A h \in Handles : handle[h].obj # NoObj
                               => ino_of'[handle[h].obj] = ino_of[handle[h].obj]
         /\ \A h \in Handles : handle[h].obj = o => pinned[i] = o
         /\ \A q \in Objs : q # o => ino_of'[q] = ino_of[q]
         /\ \A j \in Inos : num_pins'[j] >= num_pins[j]
         /\ \A j \in Inos : j # i /\ pinned[j] = NoObj => num_pins'[j] = num_pins[j]
         /\ num_pins'[i] >= num_pins[i] + 1
<1> USE DEF IInv
<1>0. /\ pinned \in [Inos -> Objs \union {NoObj}] /\ ino_of \in [Objs -> Inos]
      /\ num_pins \in [Inos -> Nat]
      /\ \A h \in Handles : handle[h].obj \in Objs \union {NoObj}
  BY DEF TypeOK
<1>1. pinned'[i] = o /\ ino_of'[o] = i /\ \A q \in Objs : q # o => ino_of'[q] = ino_of[q]
  BY <1>0 DEF LookupAndPin, GetVNode, PinObj
<1>2. \A j \in Inos : j # i => pinned'[j] = pinned[j]
  BY <1>0 DEF LookupAndPin, PinObj
<1>3. Raises(num_pins, Visited(num_pins, path))
  BY <1>0, VisitedRaises
<1>4. /\ \A j \in Inos : num_pins'[j] >= num_pins[j]
      /\ \A j \in Inos : j # i /\ pinned[j] = NoObj => num_pins'[j] = num_pins[j]
      /\ num_pins'[i] >= num_pins[i] + 1
  <2>1. num_pins' = [Visited(num_pins, path) EXCEPT ![i] = @ + 1]
    BY DEF LookupAndPin, PinCount
  <2> HIDE DEF IInv
  <2> QED
    BY <1>0, <1>3, <2>1 DEF Raises
<1>5. CASE pinned[i] = NoObj
  <2>1. o \in FreeObjs
    BY <1>5 DEF LookupAndPin, GetVNode
  <2>2. /\ \A j \in Inos : pinned[j] # o
        /\ \A h \in Handles : handle[h].obj # o
    BY <2>1 DEF FreeObjs
  <2> QED
    BY <1>0, <1>1, <1>2, <1>4, <2>2
<1>6. CASE pinned[i] # NoObj
  <2>1. o = pinned[i]
    BY <1>6 DEF LookupAndPin, GetVNode
  <2>2. ino_of[o] = i
    BY <1>6, <2>1 DEF TablesAgree
  <2>3. \A j \in Inos : j # i => pinned[j] # o
    BY <1>0, <2>2, VFSAssumption DEF TablesAgree
  <2>4. \A h \in Handles : handle[h].obj # NoObj
                           => ino_of'[handle[h].obj] = ino_of[handle[h].obj]
    BY <1>0, <1>1, <2>2
  <2> QED
    BY <1>1, <1>2, <1>4, <2>1, <2>3, <2>4
<1> QED
  BY <1>5, <1>6

\* A pin for one new user: a handle, or a mount point.
LEMMA PinForUser ==
  ASSUME IInv, TypeOK', NEW path \in Seq(Names), NEW i \in Inos, NEW o \in Objs,
         LookupAndPin(path, i, o), loose' = loose, NEW extra,
         mnts' = [mnts EXCEPT ![o] = MountsOf(i, o) \union extra], MountsCounted',
         \/ /\ extra = {}
            /\ \E h \in Handles :
                 /\ handle[h].state = "none"
                 /\ handle' = [handle EXCEPT ![h] = [state |-> "open", obj |-> o]]
         \/ /\ handle' = handle /\ (extra = {} \/ \E x : extra = {x})
  PROVE  IInv'
<1> USE DEF IInv
<1>1. /\ pinned'[i] = o /\ ino_of'[o] = i
      /\ \A j \in Inos : j # i => pinned'[j] = pinned[j] /\ pinned[j] # o
      /\ \A h \in Handles : handle[h].obj # NoObj
                            => ino_of'[handle[h].obj] = ino_of[handle[h].obj]
      /\ \A h \in Handles : handle[h].obj = o => pinned[i] = o
      /\ \A q \in Objs : q # o => ino_of'[q] = ino_of[q]
      /\ \A j \in Inos : num_pins'[j] >= num_pins[j]
      /\ \A j \in Inos : j # i /\ pinned[j] = NoObj => num_pins'[j] = num_pins[j]
      /\ num_pins'[i] >= num_pins[i] + 1
  BY PinEffect
<1>2. o # NoObj /\ num_pins[i] \in Nat /\ num_pins'[i] \in Nat
  BY VFSAssumption DEF TypeOK
<1>u. /\ IsFiniteSet(Holders(i)) /\ Cardinality(Holders(i)) \in Nat
      /\ IsFiniteSet(MountPoints(i)) /\ Cardinality(MountPoints(i)) \in Nat
  BY UsersFinite
<1>f. \A S, x : IsFiniteSet(S) => /\ IsFiniteSet(S \union {x})
                                 /\ Cardinality(S \union {x}) \in Nat
                                 /\ Cardinality(S \union {x}) <= Cardinality(S) + 1
  <2> SUFFICES ASSUME NEW S, NEW x, IsFiniteSet(S)
               PROVE  /\ IsFiniteSet(S \union {x})
                      /\ Cardinality(S \union {x}) \in Nat
                      /\ Cardinality(S \union {x}) <= Cardinality(S) + 1
    OBVIOUS
  <2>1. IsFiniteSet(S \union {x})
        /\ Cardinality(S \union {x}) = IF x \in S THEN Cardinality(S) ELSE Cardinality(S) + 1
    BY FS_AddElement
  <2>2. Cardinality(S) \in Nat
    BY FS_CardinalityType
  <2> QED
    BY <2>1, <2>2
<1>3. TablesAgree'
  <2> SUFFICES ASSUME NEW j \in Inos
               PROVE  /\ num_pins'[j] = 0 <=> pinned'[j] = NoObj
                      /\ pinned'[j] # NoObj => ino_of'[pinned'[j]] = j
    BY DEF TablesAgree
  <2>1. CASE j = i
    BY <1>1, <1>2, <2>1
  <2>2. CASE j # i
    <3>1. pinned[j] \in Objs \union {NoObj} /\ num_pins[j] \in Nat /\ num_pins'[j] \in Nat
      BY DEF TypeOK
    <3>2. num_pins[j] = 0 <=> pinned[j] = NoObj
      BY DEF TablesAgree
    <3>3. pinned[j] # NoObj => ino_of[pinned[j]] = j
      BY DEF TablesAgree
    <3> QED
      BY <1>1, <2>2, <3>1, <3>2, <3>3
  <2> QED
    BY <2>1, <2>2
<1>4. \A j \in Inos : j # i => Holders(j)' = Holders(j)
  <2> SUFFICES ASSUME NEW j \in Inos, j # i, NEW h \in Handles
               PROVE  h \in Holders(j)' <=> h \in Holders(j)
    BY DEF Holders
  <2>1. CASE handle'[h] = handle[h]
    BY <1>1, <2>1 DEF Holders, IsOpen
  <2>2. CASE handle'[h] # handle[h]
    <3>1. handle[h].state = "none" /\ handle'[h].obj = o
      BY <2>2 DEF TypeOK
    <3> QED
      BY <1>1, <3>1 DEF Holders, IsOpen
  <2> QED
    BY <2>1, <2>2
<1>5. \A j \in Inos : j # i => MountPoints(j)' = MountPoints(j)
  BY <1>1 DEF MountPoints, TypeOK
<1>6. MountPoints(i)' = MountPoints(i) \union extra
  <2>1. MountPoints(i)' = MountsOf(i, o) \union extra
    BY <1>1, <1>2 DEF MountPoints, TypeOK
  <2>2. MountsOf(i, o) = MountPoints(i)
    BY DEF MountPoints, MountsOf, LookupAndPin, GetVNode
  <2> QED
    BY <2>1, <2>2
<1>7. Cardinality(Holders(i)') + Cardinality(MountPoints(i)')
        <= Cardinality(Holders(i)) + Cardinality(MountPoints(i)) + 1
  <2>1. CASE /\ extra = {}
             /\ \E h \in Handles : handle' = [handle EXCEPT ![h] = [state |-> "open", obj |-> o]]
    <3>1. PICK h \in Handles : handle' = [handle EXCEPT ![h] = [state |-> "open", obj |-> o]]
      BY <2>1
    <3>2. Holders(i)' \subseteq Holders(i) \union {h}
      BY <1>1, <3>1 DEF Holders, IsOpen, TypeOK
    <3>3. /\ IsFiniteSet(Holders(i) \union {h})
          /\ Cardinality(Holders(i) \union {h}) <= Cardinality(Holders(i)) + 1
      BY <1>u, <1>f
    <3>4. /\ Cardinality(Holders(i)') <= Cardinality(Holders(i) \union {h})
          /\ Cardinality(Holders(i)') \in Nat
          /\ Cardinality(Holders(i) \union {h}) \in Nat
      BY <3>2, <3>3, FS_Subset, FS_CardinalityType
    <3>5. MountPoints(i)' = MountPoints(i)
      BY <1>6, <2>1
    <3> QED
      BY <1>u, <3>3, <3>4, <3>5
  <2>2. CASE handle' = handle /\ (extra = {} \/ \E x : extra = {x})
    <3>1. Holders(i)' = Holders(i)
      BY <1>1, <2>2 DEF Holders, IsOpen, TypeOK
    <3>2. MountPoints(i) \union {} = MountPoints(i)
      OBVIOUS
    <3>3. /\ Cardinality(MountPoints(i) \union extra) <= Cardinality(MountPoints(i)) + 1
          /\ Cardinality(MountPoints(i) \union extra) \in Nat
      <4>1. CASE extra = {}
        BY <1>u, <3>2, <4>1
      <4>2. ASSUME NEW x, extra = {x} 
            PROVE  /\ Cardinality(MountPoints(i) \union extra) <= Cardinality(MountPoints(i)) + 1
                   /\ Cardinality(MountPoints(i) \union extra) \in Nat
        BY <1>u, <1>f, <4>2
      <4> QED
        BY <2>2, <4>1, <4>2
    <3> QED
      BY <1>u, <1>6, <3>1, <3>3
  <2> QED
    BY <2>1, <2>2
<1>8. PinsCoverUsers'
  <2> SUFFICES ASSUME NEW j \in Inos, j \notin loose
               PROVE  num_pins'[j] >= Cardinality(Holders(j)') + Cardinality(MountPoints(j)')
    BY DEF PinsCoverUsers
  <2>1. num_pins[j] >= Cardinality(Holders(j)) + Cardinality(MountPoints(j))
    BY DEF PinsCoverUsers
  <2>2. num_pins[j] \in Nat /\ num_pins'[j] \in Nat
    BY DEF TypeOK
  <2>3. CASE j # i
    BY <1>1, <1>4, <1>5, <2>1, <2>2, <2>3, UsersFinite
  <2>4. CASE j = i
    <3>1. Cardinality(Holders(i)') \in Nat /\ Cardinality(MountPoints(i)') \in Nat
      <4>1. Holders(i)' \subseteq Handles /\ MountPoints(i)' \subseteq Names
        BY DEF Holders, MountPoints, TypeOK
      <4> QED
        BY <4>1, VFSAssumption, FS_Subset, FS_CardinalityType
    <3> QED
      BY <1>1, <1>7, <2>1, <2>2, <2>4, <3>1, UsersFinite
  <2> QED
    BY <2>3, <2>4
<1>9. OpenVNodeStaysPinned'
  <2> SUFFICES ASSUME NEW h \in Handles, IsOpen(h)', ino_of'[handle'[h].obj] \notin loose
               PROVE  pinned'[ino_of'[handle'[h].obj]] = handle'[h].obj
    BY DEF OpenVNodeStaysPinned
  <2>1. CASE handle'[h].obj = o
    BY <1>1, <2>1
  <2>2. CASE handle'[h].obj # o
    <3>1. handle'[h] = handle[h]
      BY <2>2 DEF TypeOK
    <3>2. handle[h].obj \in Objs /\ ino_of[handle[h].obj] \in Inos
      BY <3>1 DEF IsOpen, TypeOK
    <3>3. pinned[ino_of[handle[h].obj]] = handle[h].obj
      BY <1>1, <3>1, <3>2 DEF OpenVNodeStaysPinned, IsOpen
    <3>4. ino_of[handle[h].obj] # i
      <4>1. SUFFICES ASSUME ino_of[handle[h].obj] = i PROVE FALSE
        OBVIOUS
      <4>2. pinned[i] = handle[h].obj /\ pinned[i] # NoObj
        BY <3>2, <3>3, <4>1, VFSAssumption
      <4> QED
        BY <2>2, <3>1, <4>2 DEF LookupAndPin, GetVNode
    <3> QED
      BY <1>1, <2>2, <3>1, <3>2, <3>3, <3>4
  <2> QED
    BY <2>1, <2>2
<1>10. MountsStayReachable'
  <2> SUFFICES ASSUME NEW q \in Objs, mnts'[q] # {}, ino_of'[q] \notin loose
               PROVE  pinned'[ino_of'[q]] = q
    BY DEF MountsStayReachable
  <2>1. CASE q = o
    BY <1>1, <2>1
  <2>2. CASE q # o
    <3>1. mnts[q] # {} /\ ino_of'[q] = ino_of[q] /\ ino_of[q] \in Inos
      BY <1>1, <2>2 DEF TypeOK
    <3>2. pinned[ino_of[q]] = q
      BY <3>1 DEF MountsStayReachable
    <3>3. ino_of[q] # i
      BY <2>2, <3>2, VFSAssumption DEF LookupAndPin, GetVNode
    <3> QED
      BY <1>1, <3>1, <3>2, <3>3
  <2> QED
    BY <2>1, <2>2
<1> QED
  BY <1>3, <1>8, <1>9, <1>10

\* An Unpin, after a walk left the counts as counts: by the user of the pin, who
\* is then no longer counted, or by somebody else, who makes the inode loose.
LEMMA UnpinKeeps ==
  ASSUME IInv, TypeOK', NEW STATE counts, Raises(num_pins, counts), NEW i \in Inos,
         num_pins' = UnpinCount(counts, i), pinned' = UnpinObj(counts, i),
         UNCHANGED <<ino_of, mnts, num_mnts>>, loose \subseteq loose',
         \A h \in Handles : IsOpen(h)' => IsOpen(h) /\ handle'[h].obj = handle[h].obj,
         \/ i \in loose'
         \/ counts[i] = 0
         \/ Cardinality(Holders(i)') + 1 <= Cardinality(Holders(i))
  PROVE  IInv'
<1> USE DEF IInv
<1>1. /\ num_pins \in [Inos -> Nat] /\ counts \in [Inos -> Nat]
      /\ pinned \in [Inos -> Objs \union {NoObj}]
      /\ \A j \in Inos : /\ counts[j] >= num_pins[j]
                         /\ pinned[j] = NoObj => counts[j] = num_pins[j]
  BY DEF TypeOK, Raises
<1>2. /\ \A j \in Inos : j # i => num_pins'[j] = counts[j] /\ pinned'[j] = pinned[j]
      /\ num_pins'[i] = IF counts[i] = 0 THEN 0 ELSE counts[i] - 1
      /\ pinned'[i] = IF counts[i] = 1 THEN NoObj ELSE pinned[i]
  <2> HIDE DEF IInv
  <2> QED
    BY <1>1 DEF UnpinCount, UnpinObj
<1>3. \A j \in Inos : /\ num_pins[j] = 0 <=> pinned[j] = NoObj
                      /\ pinned[j] # NoObj => ino_of[pinned[j]] = j
  BY DEF TablesAgree
<1>4. TablesAgree'
  <2> SUFFICES ASSUME NEW j \in Inos
               PROVE  /\ num_pins'[j] = 0 <=> pinned'[j] = NoObj
                      /\ pinned'[j] # NoObj => ino_of[pinned'[j]] = j
    BY DEF TablesAgree
  <2> HIDE DEF IInv
  <2>1. CASE j = i
    BY <1>1, <1>2, <1>3, <2>1
  <2>2. CASE j # i
    BY <1>1, <1>2, <1>3, <2>2
  <2> QED
    BY <2>1, <2>2
<1>5. MountsCounted'
  BY DEF MountsCounted
<1>6. \A j \in Inos :
        /\ Cardinality(Holders(j)) \in Nat /\ Cardinality(MountPoints(j)) \in Nat
        /\ IsFiniteSet(Holders(j)) /\ IsFiniteSet(MountPoints(j))
        /\ j \notin loose
           => num_pins[j] >= Cardinality(Holders(j)) + Cardinality(MountPoints(j))
  BY UsersFinite DEF PinsCoverUsers
<1>7. \A j \in Inos : /\ Holders(j)' \subseteq Holders(j)
                      /\ Cardinality(Holders(j)') \in Nat
                      /\ Cardinality(Holders(j)') <= Cardinality(Holders(j))
                      /\ Holders(j)' # {} => Cardinality(Holders(j)') # 0
  <2> TAKE j \in Inos
  <2>1. Holders(j)' \subseteq Holders(j)
    BY DEF Holders
  <2> HIDE DEF IInv
  <2> QED
    BY <1>6, <2>1, FS_Subset, FS_CardinalityType, FS_EmptySet
<1>8. \A j \in Inos : /\ MountPoints(j)' \subseteq MountPoints(j)
                      /\ Cardinality(MountPoints(j)') \in Nat
                      /\ Cardinality(MountPoints(j)') <= Cardinality(MountPoints(j))
                      /\ MountPoints(j) # {} => Cardinality(MountPoints(j)) # 0
  <2> TAKE j \in Inos
  <2>1. MountPoints(j)' \subseteq MountPoints(j)
    BY <1>2 DEF MountPoints
  <2> HIDE DEF IInv
  <2> QED
    BY <1>6, <2>1, FS_Subset, FS_CardinalityType, FS_EmptySet
\* The pin of i that is spent was not the last one, if i has users left.
<1>9. i \notin loose' /\ pinned[i] # NoObj
        => \/ Cardinality(Holders(i)') = 0 /\ Cardinality(MountPoints(i)) = 0
           \/ pinned'[i] = pinned[i]
  <2> HIDE DEF IInv
  <2> QED
    BY <1>1, <1>2, <1>3, <1>6, <1>7
<1>10. PinsCoverUsers'
  <2> SUFFICES ASSUME NEW j \in Inos, j \notin loose'
               PROVE  num_pins'[j] >= Cardinality(Holders(j)') + Cardinality(MountPoints(j)')
    BY DEF PinsCoverUsers
  <2> HIDE DEF IInv
  <2>1. CASE j # i
    BY <1>1, <1>2, <1>6, <1>7, <1>8, <2>1
  <2>2. CASE j = i /\ counts[i] = 0
    BY <1>1, <1>2, <1>6, <1>7, <1>8, <2>2
  <2>3. CASE j = i /\ counts[i] # 0
    BY <1>1, <1>2, <1>6, <1>7, <1>8, <2>3
  <2> QED
    BY <2>1, <2>2, <2>3
<1>11. OpenVNodeStaysPinned'
  <2> SUFFICES ASSUME NEW h \in Handles, IsOpen(h)', ino_of[handle'[h].obj] \notin loose'
               PROVE  pinned'[ino_of[handle'[h].obj]] = handle'[h].obj
    BY DEF OpenVNodeStaysPinned
  <2>1. handle'[h].obj \in Objs /\ ino_of[handle'[h].obj] \in Inos
    BY DEF IsOpen, TypeOK
  <2>2. PICK j \in Inos : j = ino_of[handle'[h].obj]
    BY <2>1
  <2>3. pinned[j] = handle'[h].obj /\ pinned[j] # NoObj
    BY <2>1, <2>2, VFSAssumption DEF OpenVNodeStaysPinned
  <2>4. h \in Holders(j)'
    BY <2>2 DEF Holders
  <2> HIDE DEF IInv
  <2>5. CASE j = i
    BY <1>7, <1>9, <2>2, <2>3, <2>4, <2>5
  <2>6. CASE j # i
    BY <1>2, <2>2, <2>3, <2>6
  <2> QED
    BY <2>5, <2>6
<1>12. MountsStayReachable'
  <2> SUFFICES ASSUME NEW q \in Objs, mnts[q] # {}, ino_of[q] \notin loose'
               PROVE  pinned'[ino_of[q]] = q
    BY DEF MountsStayReachable
  <2>0. ino_of[q] \in Inos /\ q # NoObj
    BY VFSAssumption DEF TypeOK
  <2>1. ino_of[q] \in Inos /\ pinned[ino_of[q]] = q /\ q # NoObj
    BY <2>0 DEF MountsStayReachable
  <2>2. MountPoints(ino_of[q]) # {}
    BY <2>1 DEF MountPoints
  <2> HIDE DEF IInv
  <2>3. CASE ino_of[q] = i
    BY <1>8, <1>9, <2>1, <2>2, <2>3
  <2>4. CASE ino_of[q] # i
    BY <1>2, <2>1, <2>4
  <2> QED
    BY <2>3, <2>4
<1> QED
  BY <1>4, <1>5, <1>10, <1>11, <1>12

\* No pins, no handles, no mount points: the invariant holds of a new mount.
LEMMA SharingInit == Init => IInv
<1> SUFFICES ASSUME Init PROVE IInv
  OBVIOUS
<1>1. TypeOK
  BY TypeInit
<1>2. TablesAgree /\ MountsCounted /\ OpenVNodeStaysPinned /\ MountsStayReachable
  BY DEF Init, TablesAgree, MountsCounted, OpenVNodeStaysPinned, MountsStayReachable,
         IsOpen, NoHandle
<1>3. PinsCoverUsers
  <2> SUFFICES ASSUME NEW i \in Inos
               PROVE  num_pins[i] >= Cardinality(Holders(i)) + Cardinality(MountPoints(i))
    BY DEF PinsCoverUsers
  <2>1. Holders(i) = {} /\ MountPoints(i) = {} /\ num_pins[i] = 0
    BY DEF Init, Holders, MountPoints, IsOpen, NoHandle
  <2> QED
    BY <2>1, FS_EmptySet
<1> QED
  BY <1>1, <1>2, <1>3 DEF IInv

\* Every call keeps the invariant.
LEMMA SharingStep == IInv /\ [Next]_vars => IInv'
<1> SUFFICES ASSUME IInv, [Next]_vars PROVE IInv'
  OBVIOUS
<1>0. TypeOK /\ TypeOK' /\ MountsCounted
  BY TypeStep DEF IInv
<1>p. \A path \in Paths : Dir(path) \in Seq(Names) /\ path \in Seq(Names)
  BY PathParts
<1>1. \A path \in Paths : /\ Raises(num_pins, Visited(num_pins, path))
                          /\ Raises(num_pins, ParentVisited(num_pins, path))
  BY <1>0, <1>p, VisitedRaises, ParentVisitedRaises DEF TypeOK
<1>2. ASSUME NEW STATE counts, Raises(num_pins, counts), Failed(counts) PROVE IInv'
  <2>1. /\ UNCHANGED <<pinned, ino_of, mnts, num_mnts, handle, loose>>
        /\ num_pins' = counts
    BY <1>2 DEF Failed
  <2>2. MountsCounted'
    BY <1>0, <2>1 DEF MountsCounted
  <2> QED
    BY <1>0, <1>2, <2>1, <2>2, NoPinSpent DEF IsOpen
<1>3. ASSUME NEW h \in Handles, NEW path \in Paths, Open(h, path) PROVE IInv'
  <2>1. CASE Failed(Visited(num_pins, path))
    BY <1>1, <1>2, <2>1
  <2>2. ASSUME NEW i \in Inos, NEW o \in Objs, LookupAndPin(path, i, o),
               mnts' = [mnts EXCEPT ![o] = MountsOf(i, o)],
               num_mnts' = [num_mnts EXCEPT ![o] = NumMountsOf(i, o)],
               handle' = [handle EXCEPT ![h] = [state |-> "open", obj |-> o]],
               loose' = loose, handle[h].state = "none"
        PROVE IInv'
    <3>1. MountsCounted'
      BY <1>0, <2>2 DEF MountsCounted, MountsOf, NumMountsOf, TypeOK
    <3>2. mnts' = [mnts EXCEPT ![o] = MountsOf(i, o) \union {}]
      BY <2>2
    <3> QED
      BY <1>0, <1>p, <2>2, <3>1, <3>2, PinForUser
  <2> QED
    BY <1>3, <2>1, <2>2 DEF Open
<1>4. ASSUME NEW h \in Handles, NEW path \in Paths, OpenCreate(h, path) PROVE IInv'
  <2>1. CASE Failed(ParentVisited(num_pins, path))
    BY <1>1, <1>2, <2>1
  <2>2. ASSUME handle' \in {handle, [handle EXCEPT ![h] = [state |-> "open", obj |-> NoObj]]},
               num_pins' = ParentVisited(num_pins, path),
               UNCHANGED <<pinned, ino_of, mnts, num_mnts, loose>>
        PROVE IInv'
    <3>1. MountsCounted'
      BY <1>0, <2>2 DEF MountsCounted
    <3>2. \A g \in Handles : IsOpen(g)' => IsOpen(g) /\ handle'[g].obj = handle[g].obj
      BY <1>0, <2>2 DEF IsOpen, TypeOK
    <3> QED
      BY <1>0, <1>1, <2>2, <3>1, <3>2, NoPinSpent
  <2>3. handle[h].state = "none"
        /\ (\/ Failed(ParentVisited(num_pins, path))
            \/ /\ handle' \in {handle, [handle EXCEPT ![h] = [state |-> "open", obj |-> NoObj]]}
               /\ num_pins' = ParentVisited(num_pins, path)
               /\ UNCHANGED <<pinned, ino_of, mnts, num_mnts, loose>>)
    BY <1>4 DEF OpenCreate
  <2> QED
    BY <2>1, <2>2, <2>3
<1>5. ASSUME NEW h \in Handles, Close(h) PROVE IInv'
  <2>1. PICK i \in Inos :
          /\ handle[h].obj # NoObj => i = ino_of[handle[h].obj]
          /\ num_pins' = UnpinCount(num_pins, i)
          /\ pinned' = UnpinObj(num_pins, i)
          /\ loose' = IF handle[h].state = "open" /\ handle[h].obj # NoObj
                      THEN loose ELSE Loosened(num_pins, i)
    BY <1>5 DEF Close
  <2>2. /\ handle' = [handle EXCEPT ![h] = [state |-> "closed", obj |-> @.obj]]
        /\ UNCHANGED <<ino_of, mnts, num_mnts>>
    BY <1>5 DEF Close
  <2>3. \A g \in Handles : IsOpen(g)' => IsOpen(g) /\ handle'[g].obj = handle[g].obj /\ g # h
    BY <1>0, <2>2 DEF IsOpen, TypeOK
  <2>4. Raises(num_pins, num_pins) /\ loose \subseteq loose'
    BY <1>0, <2>1 DEF Raises, TypeOK, Loosened
  <2>5. CASE IsOpen(h)
    <3>1. h \in Holders(i) /\ IsFiniteSet(Holders(i)) /\ Cardinality(Holders(i)) \in Nat
      BY <1>0, <2>1, <2>5, UsersFinite DEF Holders, IsOpen
    <3>2. Holders(i)' \subseteq Holders(i) \ {h}
      BY <2>2, <2>3 DEF Holders
    <3>3. /\ IsFiniteSet(Holders(i) \ {h})
          /\ Cardinality(Holders(i) \ {h}) = Cardinality(Holders(i)) - 1
      BY <3>1, FS_RemoveElement
    <3>4. /\ Cardinality(Holders(i)') <= Cardinality(Holders(i) \ {h})
          /\ Cardinality(Holders(i)') \in Nat
      BY <3>2, <3>3, FS_Subset, FS_CardinalityType
    <3>5. Cardinality(Holders(i)') + 1 <= Cardinality(Holders(i))
      BY <3>1, <3>3, <3>4
    <3> QED
      BY <1>0, <2>1, <2>2, <2>3, <2>4, <3>5, UnpinKeeps
  <2>6. CASE ~IsOpen(h)
    <3>1. i \in loose' \/ num_pins[i] = 0
      BY <2>1, <2>6 DEF IsOpen, Loosened
    <3> QED
      BY <1>0, <2>1, <2>2, <2>3, <2>4, <3>1, UnpinKeeps
  <2> QED
    BY <2>5, <2>6
<1>6. ASSUME NEW h \in Handles, NEW g \in Handles, CopyHandle(h, g) PROVE IInv'
  <2>1. /\ handle' = [handle EXCEPT ![g] = handle[h]]
        /\ loose' = loose \union {ino_of[handle[h].obj]}
        /\ UNCHANGED <<num_pins, pinned, ino_of, mnts, num_mnts>>
    BY <1>6 DEF CopyHandle
  <2>2. MountsCounted' /\ Raises(num_pins, num_pins')
    BY <1>0, <2>1 DEF MountsCounted, Raises, TypeOK
  <2>3. \A k \in Handles : IsOpen(k)' => \/ IsOpen(k) /\ handle'[k].obj = handle[k].obj
                                         \/ ino_of[handle'[k].obj] \in loose'
    BY <1>0, <2>1 DEF IsOpen, TypeOK
  <2> QED
    BY <1>0, <2>1, <2>2, <2>3, NoPinSpent
<1>7. ASSUME NEW h \in Handles, DropHandle(h) PROVE IInv'
  <2>1. /\ handle' = [handle EXCEPT ![h] = NoHandle]
        /\ UNCHANGED <<num_pins, pinned, ino_of, mnts, num_mnts, loose>>
    BY <1>7 DEF DropHandle
  <2>2. MountsCounted' /\ Raises(num_pins, num_pins')
    BY <1>0, <2>1 DEF MountsCounted, Raises, TypeOK
  <2>3. \A k \in Handles : IsOpen(k)' => IsOpen(k) /\ handle'[k].obj = handle[k].obj
    BY <1>0, <2>1 DEF IsOpen, TypeOK, NoHandle
  <2> QED
    BY <1>0, <2>1, <2>2, <2>3, NoPinSpent
<1>8. ASSUME NEW path \in Paths, Mount(path) PROVE IInv'
  <2>1. CASE Failed(ParentVisited(num_pins, path))
    BY <1>1, <1>2, <2>1
  <2>2. ASSUME NEW p \in Inos, NEW o \in Objs, NEW new \in BOOLEAN,
               LookupAndPin(Dir(path), p, o),
               mnts' = [mnts EXCEPT ![o] = MountsOf(p, o)
                                   \union IF new THEN {File(path)} ELSE {}],
               num_mnts' = [num_mnts EXCEPT ![o] = NumMountsOf(p, o)
                                   + IF new THEN 1 ELSE 0],
               UNCHANGED <<handle, loose>>
        PROVE IInv'
    <3>1. NumMountsOf(p, o) \in Nat /\ (MountsOf(p, o) # {} => NumMountsOf(p, o) > 0)
      BY <1>0 DEF MountsCounted, MountsOf, NumMountsOf, TypeOK
    <3>2. MountsCounted'
      <4> SUFFICES ASSUME NEW q \in Objs, mnts'[q] # {} PROVE num_mnts'[q] > 0
        BY DEF MountsCounted
      <4>1. CASE q = o
        BY <1>0, <2>2, <3>1, <4>1 DEF TypeOK
      <4>2. CASE q # o
        BY <1>0, <2>2, <4>2 DEF MountsCounted, TypeOK
      <4> QED
        BY <4>1, <4>2
    <3>3. PICK extra : /\ extra = IF new THEN {File(path)} ELSE {}
                       /\ extra = {} \/ \E x : extra = {x}
      OBVIOUS
    <3> QED
      BY <1>0, <1>p, <2>2, <3>2, <3>3, PinForUser
  <2> QED
    BY <1>8, <2>1, <2>2 DEF Mount
<1>9. ASSUME NEW path \in Paths, Unmount(path) PROVE IInv'
  <2> DEFINE counts == ParentVisited(num_pins, path)
  <2>1. CASE Failed(counts)
    BY <1>1, <1>2, <2>1
  <2>2. ASSUME NEW i \in Inos, pinned[i] # NoObj, File(path) \in mnts[pinned[i]],
               mnts' = [mnts EXCEPT ![pinned[i]] = @ \ {File(path)}],
               num_pins' = IF num_mnts[pinned[i]] = 0 THEN UnpinCount(counts, i) ELSE counts,
               pinned' = IF num_mnts[pinned[i]] = 0 THEN UnpinObj(counts, i) ELSE pinned,
               UNCHANGED <<ino_of, num_mnts, handle, loose>>
        PROVE IInv'
    <3>1. num_mnts[pinned[i]] > 0
      BY <1>0, <2>2 DEF MountsCounted, TypeOK
    <3>2. num_pins' = counts /\ pinned' = pinned
      BY <2>2, <3>1
    <3>3. \A o \in Objs : mnts'[o] \subseteq mnts[o]
      BY <1>0, <2>2 DEF TypeOK
    <3>4. MountsCounted'
      BY <1>0, <2>2, <3>3 DEF MountsCounted
    <3> QED
      BY <1>0, <1>1, <2>2, <3>2, <3>3, <3>4, NoPinSpent DEF IsOpen
  <2> QED
    BY <1>9, <2>1, <2>2 DEF Unmount
<1>10. ASSUME NEW path \in Paths, Create(path) PROVE IInv'
  <2>1. /\ num_pins' = ParentVisited(num_pins, path)
        /\ UNCHANGED <<pinned, ino_of, mnts, num_mnts, handle, loose>>
    BY <1>10 DEF Create, Failed
  <2>2. MountsCounted'
    BY <1>0, <2>1 DEF MountsCounted
  <2> QED
    BY <1>0, <1>1, <2>1, <2>2, NoPinSpent DEF IsOpen
<1>11. ASSUME NEW path \in Paths, NEW target \in Paths, Link(path, target) PROVE IInv'
  <2> DEFINE seen == ParentVisited(Visited(num_pins, path), target)
  <2>1. Raises(num_pins, seen)
    <3>1. Visited(num_pins, path) \in [Inos -> Nat] /\ num_pins \in [Inos -> Nat]
      BY <1>0, <1>1 DEF Raises, TypeOK
    <3>2. Raises(Visited(num_pins, path), seen)
      BY <3>1, ParentVisitedRaises
    <3> QED
      BY <1>1, <3>1, <3>2, RaisesTwice
  <2>2. /\ UNCHANGED <<pinned, ino_of, mnts, num_mnts, handle, loose>>
        /\ \/ num_pins' = Visited(num_pins, path)
           \/ num_pins' = seen
           \/ \E i \in Inos : pinned[i] # NoObj /\ num_pins' = PinCount(seen, i)
    BY <1>11 DEF Link, Failed
  <2>3. Raises(num_pins, num_pins')
    <3>1. ASSUME NEW i \in Inos, pinned[i] # NoObj, num_pins' = PinCount(seen, i)
          PROVE  Raises(num_pins, num_pins')
      <4>1. num_pins \in [Inos -> Nat] /\ seen \in [Inos -> Nat]
        BY <1>0, <2>1 DEF Raises, TypeOK
      <4> HIDE DEF seen
      <4> QED
        BY <2>1, <3>1, <4>1 DEF Raises, PinCount
    <3> QED
      BY <1>1, <2>1, <2>2, <3>1
  <2>4. MountsCounted'
    BY <1>0, <2>2 DEF MountsCounted
  <2> QED
    BY <1>0, <2>2, <2>3, <2>4, NoPinSpent DEF IsOpen
<1>12. ASSUME NEW path \in Paths, Remove(path) PROVE IInv'
  <2> DEFINE counts == ParentVisited(num_pins, path)
  <2>1. CASE Failed(counts)
    BY <1>1, <1>2, <2>1
  <2>2. ASSUME NEW p \in Dirs, NEW k \in Matches(p, File(path)),
               num_pins' = UnpinCount(counts, entries[p][k].ino),
               pinned' = UnpinObj(counts, entries[p][k].ino),
               loose' = Loosened(counts, entries[p][k].ino),
               UNCHANGED <<ino_of, mnts, num_mnts, handle>>
        PROVE IInv'
    <3>1. entries[p][k].ino \in Inos
      <4>1. p \in Inos /\ k \in 1..Len(entries[p])
        BY VFSAssumption DEF Matches
      <4>2. entries[p] \in Seq(Entry)
        BY <1>0, <4>1 DEF TypeOK
      <4>3. entries[p][k] \in Entry
        BY <4>1, <4>2
      <4> QED
        BY <4>3 DEF Entry
    <3>2. PICK i \in Inos : i = entries[p][k].ino
      BY <3>1
    <3>3. (i \in loose' \/ counts[i] = 0) /\ loose \subseteq loose'
      BY <2>2, <3>2 DEF Loosened
    <3> QED
      BY <1>0, <1>1, <2>2, <3>2, <3>3, UnpinKeeps DEF IsOpen
  <2> QED
    BY <1>12, <2>1, <2>2 DEF Remove
<1>13. CASE UNCHANGED vars
  <2>1. UNCHANGED <<num_pins, pinned, ino_of, mnts, num_mnts, handle, loose>>
    BY <1>13 DEF vars
  <2>2. MountsCounted' /\ Raises(num_pins, num_pins')
    BY <1>0, <2>1 DEF MountsCounted, Raises, TypeOK
  <2> QED
    BY <1>0, <2>1, <2>2, NoPinSpent DEF IsOpen
<1> QED
  BY <1>3, <1>4, <1>5, <1>6, <1>7, <1>8, <1>9, <1>10, <1>11, <1>12, <1>13 DEF Next

\* The invariant holds in every run of the VFS calls.
THEOREM SharingInvariant == Spec => []IInv
<1>1. Init => IInv
  BY SharingInit
<1>2. IInv /\ [Next]_vars => IInv'
  BY SharingStep
<1> QED
  BY <1>1, <1>2, PTL DEF Spec

\* A pin of its own for every open handle and every mount point: LookupAndPin in
\* Open and Mount, against every Unpin and every walk in between.
THEOREM PinsCover == Spec => []PinsCoverUsers
<1>1. IInv => PinsCoverUsers
  BY DEF IInv
<1> QED
  BY <1>1, SharingInvariant, PTL

\* Until somebody unpins what he did not pin, the vnode of an open handle is the one
\* pinned_vnodes_ has for its inode: no Close, Unmount or Remove of another drops it.
THEOREM OpenStaysPinned == Spec => []OpenVNodeStaysPinned
<1>1. IInv => OpenVNodeStaysPinned
  BY DEF IInv
<1> QED
  BY <1>1, SharingInvariant, PTL

\* Pin and Unpin keep pinned_vnodes_ and num_pins_ in step: an inode has a vnode there
\* exactly as long as it has a count, and it is a vnode of that inode.
THEOREM TablesStayInStep == Spec => []TablesAgree
<1>1. IInv => TablesAgree
  BY DEF IInv
<1> QED
  BY <1>1, SharingInvariant, PTL

\* Handles on one file share one vnode, and with it the length and the blocks that
\* FileHandle::Read and Write go through.
THEOREM OneVNode == Spec => []OneVNodePerFile
<1>1. IInv => OneVNodePerFile
  BY DEF IInv, OneVNodePerFile, OpenVNodeStaysPinned
<1> QED
  BY <1>1, SharingInvariant, PTL

\* The vnode that holds a mount point is the one a later walk finds.
THEOREM MountsStay == Spec => []MountsStayReachable
<1>1. IInv => MountsStayReachable
  BY DEF IInv
<1> QED
  BY <1>1, SharingInvariant, PTL

================================================================================
