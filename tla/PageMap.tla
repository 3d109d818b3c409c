--------------------------------- MODULE PageMap --------------------------------
(* PageMap (sys/page_map.cpp): the tree of page tables behind a virtual address  *)
(* space. A table is a frame of the page allocator, found through the entry of a *)
(* parent table; at level 1 the entries hold the physical pages.                 *)
(*                                                                               *)
(* Pages and frames are numbered, not addressed. An entry is what it points at,  *)
(* or None when PRESENT is not set; the other flags are left out. A frame keeps  *)
(* its entries when it is freed, and the allocator does not clear it. Once a     *)
(* table is put into a frame that still has an entry, walks go through memory    *)
(* that is no table, and the model ends.                                         *)
EXTENDS Integers, FiniteSets

CONSTANTS
  Maps,      \* the PageMap objects
  Frames,    \* the frames the page allocator has
  Levels,    \* levels of tables: 4 in the code
  Fanout,    \* entries of a table: 512 in the code
  VPages,    \* the virtual pages calls are about
  PPages,    \* physical pages that are mapped
  Offsets,   \* virt_offset of MapRange, and new_vaddr_base - base of RemapRange
  None

ASSUME PageMapAssumption ==
  /\ Levels \in Nat \ {0, 1} /\ Fanout \in Nat \ {0}
  /\ VPages \subseteq 0 .. Fanout^Levels - 1
  /\ 0 \in PPages /\ PPages \subseteq Nat /\ Offsets \subseteq Int
  /\ None \notin Frames /\ None \notin PPages
  /\ IsFiniteSet(Frames) /\ None \notin [VPages -> Frames \union PPages \union {None}]
  /\ Fanout^0 = 1
  /\ \A l \in 0 .. Levels - 1 : Fanout^l \in Nat \ {0} /\ Fanout^(l + 1) = Fanout * Fanout^l

VARIABLES
  root,   \* root_ of each object, or None
  mem,    \* the entries in each frame
  used,   \* the frames the allocator has given out
  run,    \* the range call in progress, or None
  pc      \* "ok"; "fault": a null from the allocator was written through;
          \* "stale": a new table begins with entries nobody wrote into it

vars == <<root, mem, used, run, pc>>

Slots == 0 .. Fanout - 1
Free == Frames \ used

--------------------------------------------------------------------------------
(* Walks. e is the entries of all frames.                                        *)

VAddrIndex(v, l) == (v \div Fanout^(l - 1)) % Fanout

\* The tables on the way to v, from the root r down: None where the way ends.
Path(e, r, v) ==
  LET table[l \in 1 .. Levels] ==
        IF l = Levels THEN r
        ELSE LET parent == table[l + 1]
             IN  IF parent = None THEN None ELSE e[parent][VAddrIndex(v, l + 1)]
  IN  table

GetPage(m, v) == Path(mem, root[m], v)[1]

\* What the processor finds at v.
Translate(m, v) ==
  IF GetPage(m, v) = None THEN None ELSE mem[GetPage(m, v)][VAddrIndex(v, 1)]

VAddrToPAddr(m, v) == IF Translate(m, v) = None THEN 0 ELSE Translate(m, v)

\* The tables below the root r at each level.
TablesBelow(e, r) ==
  LET at[l \in 1 .. Levels] ==
        IF l = Levels THEN {r} \ {None}
        ELSE LET above == at[l + 1]
             IN  {e[f][i] : f \in above, i \in Slots} \ {None}
  IN  at

Tables(m) == TablesBelow(mem, root[m])
AllTables(m) == LET at == Tables(m) IN UNION {at[l] : l \in 1 .. Levels}

Injections(S, T) == {g \in [S -> T] : \A x, y \in S : g[x] = g[y] => x = y}

--------------------------------------------------------------------------------
(* Changes to the entries.                                                       *)

\* Mutant of Unmapped: clears the entry one level up.
UnmappedTable(m, v) ==
  IF GetPage(m, v) = None THEN mem
  ELSE [mem EXCEPT ![Path(mem, root[m], v)[2]] = [@ EXCEPT ![VAddrIndex(v, 2)] = None]]

Unmapped(m, v) ==
  IF GetPage(m, v) = None THEN mem
  ELSE [mem EXCEPT ![GetPage(m, v)] = [@ EXCEPT ![VAddrIndex(v, 1)] = None]]

\* The levels below the last table on the way to v are missing; CreatePage makes
\* tables for them from the top, as long as the allocator has frames.
Missing(m, v) == {l \in 1 .. Levels - 1 : Path(mem, root[m], v)[l] = None}
Created(m, v) ==
  {l \in Missing(m, v) : Cardinality({k \in Missing(m, v) : k >= l}) <= Cardinality(Free)}

\* The entries once the new tables, got, hang below each other.
Linked(e, m, v, got) ==
  LET table(l) == IF l \in DOMAIN got THEN got[l] ELSE Path(e, root[m], v)[l]
  IN  [f \in Frames |-> [i \in Slots |->
        LET here == {l \in DOMAIN got : f = table(l + 1) /\ i = VAddrIndex(v, l + 1)}
        IN  IF here # {} THEN got[CHOOSE l \in here : TRUE] ELSE e[f][i]]]

\* There is an entry for v to set unless the frames ran out before level 1.
Mapped(e, m, v, got, p) ==
  LET tree  == Linked(e, m, v, got)
      table == Path(tree, root[m], v)[1]
  IN  IF table = None THEN tree
      ELSE [tree EXCEPT ![table] = [@ EXCEPT ![VAddrIndex(v, 1)] = p]]

\* DeepCopy: every table t of n is copied to the frame g[t]. Above level 1 only the
\* entries that are present are written.
Copied(n, g) ==
  [f \in Frames |->
    LET of == {t \in DOMAIN g : g[t] = f}
    IN  IF of = {} THEN mem[f] ELSE
        LET t == CHOOSE t \in of : TRUE
        IN  IF t \in Tables(n)[1] THEN mem[t]
            ELSE [i \in Slots |-> IF mem[t][i] = None THEN mem[f][i] ELSE g[mem[t][i]]]]

--------------------------------------------------------------------------------
Init ==
  /\ root = [m \in Maps |-> None]
  /\ mem = [f \in Frames |-> [i \in Slots |-> None]]
  /\ used = {}
  /\ run = None /\ pc = "ok"

Idle == pc = "ok" /\ run = None

Ends(why) == pc' = why /\ UNCHANGED <<root, mem, used>>

HasEntries(f) == \E i \in Slots : mem[f][i] # None

Create(m) ==
  /\ Idle /\ root[m] = None
  /\ \/ Free = {} /\ Ends("fault")
     \/ \E f \in Free :
          IF HasEntries(f) THEN Ends("stale")
          ELSE /\ root' = [root EXCEPT ![m] = f]
               /\ used' = used \union {f}
               /\ UNCHANGED <<mem, pc>>
  /\ UNCHANGED run

\* Map on the entries e. It fails when frames run out; the tables it made stay.
MapIn(e, m, v, p) ==
  \E got \in Injections(Created(m, v), Free) :
    IF \E l \in DOMAIN got : HasEntries(got[l]) THEN Ends("stale")
    ELSE /\ mem' = Mapped(e, m, v, got, p)
         /\ used' = used \union {got[l] : l \in DOMAIN got}
         /\ UNCHANGED <<root, pc>>

Map(m, v, p) == Idle /\ root[m] # None /\ MapIn(mem, m, v, p) /\ UNCHANGED run

UnmapIn(m, v) == mem' = Unmapped(m, v) /\ UNCHANGED <<root, used, pc>>

Unmap(m, v) == Idle /\ root[m] # None /\ UnmapIn(m, v) /\ UNCHANGED run

Remap(m, v, w) ==
  /\ Idle /\ root[m] # None
  /\ MapIn(Unmapped(m, v), m, w, VAddrToPAddr(m, v))
  /\ UNCHANGED run

\* The three range calls take one page per step and stop at the first that fails.
\* (A range of one page is the single call.)
RangeCall(op, m, base, bound, offset) ==
  /\ Idle /\ root[m] # None
  /\ run' = [op |-> op, m |-> m, at |-> base, bound |-> bound, offset |-> offset]
  /\ UNCHANGED <<root, mem, used, pc>>

GoOn(succeeded) ==
  run' = IF succeeded /\ run.at + 1 < run.bound THEN [run EXCEPT !.at = @ + 1] ELSE None

MapsAll(m, v) == Cardinality(Missing(m, v)) <= Cardinality(Free)

MapRange ==
  /\ pc = "ok" /\ run # None /\ run.op = "map"
  /\ MapIn(mem, run.m, run.at + run.offset, run.at)
  /\ GoOn(MapsAll(run.m, run.at + run.offset))

UnmapRange ==
  /\ pc = "ok" /\ run # None /\ run.op = "unmap"
  /\ UnmapIn(run.m, run.at)
  /\ GoOn(GetPage(run.m, run.at) # None)

RemapRange ==
  /\ pc = "ok" /\ run # None /\ run.op = "remap"
  /\ MapIn(Unmapped(run.m, run.at), run.m, run.at + run.offset, VAddrToPAddr(run.m, run.at))
  /\ GoOn(GetPage(run.m, run.at) # None /\ MapsAll(run.m, run.at + run.offset))

\* The copy of n in m, once the tables of m, if it has any, have been freed.
CopyIn(m, n) ==
  LET tables == AllTables(n)
      free   == Free \union AllTables(m)
  IN  \/ Cardinality(tables) > Cardinality(free) /\ Ends("fault")
      \/ \E g \in Injections(tables, free) :
           IF \E t \in tables \ Tables(n)[1], i \in Slots : mem[t][i] = None /\ mem[g[t]][i] # None
           THEN Ends("stale")
           ELSE /\ mem' = Copied(n, g)
                /\ used' = (used \ AllTables(m)) \union {g[t] : t \in tables}
                /\ root' = [root EXCEPT ![m] = g[root[n]]]
                /\ UNCHANGED pc

\* The copy constructor and the assignment.
Copy(m, n) == Idle /\ m # n /\ root[n] # None /\ CopyIn(m, n) /\ UNCHANGED run

\* Mutant of Destroy: the tables of level 1 are not freed.
DestroyUpper(m) ==
  /\ Idle /\ root[m] # None
  /\ used' = used \ (AllTables(m) \ Tables(m)[1])
  /\ root' = [root EXCEPT ![m] = None]
  /\ UNCHANGED <<mem, run, pc>>

Destroy(m) ==
  /\ Idle /\ root[m] # None
  /\ used' = used \ AllTables(m)
  /\ root' = [root EXCEPT ![m] = None]
  /\ UNCHANGED <<mem, run, pc>>

Next ==
  \/ MapRange \/ UnmapRange \/ RemapRange
  \/ \E m \in Maps :
       \/ Create(m) \/ Destroy(m)
       \/ \E n \in Maps : Copy(m, n)
       \/ \E v \in VPages : Unmap(m, v) \/ \E p \in PPages \ {0} : Map(m, v, p)
       \/ \E v, w \in VPages : Remap(m, v, w)
       \/ \E base, last \in VPages :
            /\ base .. last \subseteq VPages /\ base < last
            /\ \/ RangeCall("unmap", m, base, last + 1, 0)
               \/ \E offset \in Offsets :
                    /\ base + offset .. last + offset \subseteq VPages
                    /\ \/ RangeCall("remap", m, base, last + 1, offset)
                       \/ /\ base .. last \subseteq PPages \ {0}
                          /\ RangeCall("map", m, base, last + 1, offset)

Spec == Init /\ [][Next]_vars

--------------------------------------------------------------------------------
(* Properties.                                                                   *)

Places == {<<m, l>> : m \in Maps, l \in 1 .. Levels}

\* A frame is in use exactly if it is a table of one map, at one level, below one
\* entry: through calls that run out of frames half way, copies, assignments and
\* destructors, no table is leaked, freed while a map walks through it, or shared
\* between two maps, or between two addresses of one.
TreesOwnFrames ==
  /\ used = UNION {AllTables(m) : m \in Maps}
  /\ \A x, y \in Places : x # y => Tables(x[1])[x[2]] \intersect Tables(y[1])[y[2]] = {}
  /\ \A m \in Maps, l \in 2 .. Levels :
       LET links == {x \in Tables(m)[l] \X Slots : mem[x[1]][x[2]] # None}
       IN  \A x, y \in links : mem[x[1]][x[2]] = mem[y[1]][y[2]] => x = y

AS == INSTANCE AddressSpace WITH
        Zero  <- 0,
        space <- [m \in Maps |-> IF root[m] = None THEN None
                                 ELSE [v \in VPages |-> Translate(m, v)]]

\* Seen through the processor's walk, the trees are the maps AddressSpace promises:
\* each page of a range call, each single call, copy and destructor changes the one
\* translation, or the one map, it is about, and a call that fails changes none but
\* the one Remap had already taken away.
IsAnAddressSpace == AS!Spec

================================================================================
