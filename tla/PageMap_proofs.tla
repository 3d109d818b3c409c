------------------------------ MODULE PageMap_proofs -----------------------------
(* That the trees of PageMap own their frames, and that they are the partial     *)
(* functions AddressSpace promises, for any number of levels, entries, frames    *)
(* and maps.                                                                     *)
EXTENDS PageMap, FiniteSetTheorems, WellFoundedInduction, TLAPS

Link == Frames \union {None}
Entry == Frames \union PPages \union {None}
Mems == [Frames -> [Slots -> Entry]]

--------------------------------------------------------------------------------
(* Levels, and the two functions that are defined by recursion over them.        *)

LEMMA LeastExists ==
  ASSUME NEW T \in SUBSET Nat, T # {}
  PROVE  \E x \in T : \A y \in T : x <= y
<1> DEFINE R == {ss \in Nat \X Nat : ss[1] < ss[2]}
<1>1. IsWellFoundedOn(R, Nat)
  BY NatLessThanWellFounded DEF OpToRel
<1> HIDE DEF R
<1>2. PICK x \in T : \A y \in T : ~(<<y, x>> \in R)
  BY <1>1, WFMin
<1>3. \A y \in T : ~(y < x)
  BY <1>2 DEF R
<1> QED
  BY <1>3

LEMMA LevelsAre ==
  /\ Levels \in Nat /\ 2 <= Levels
  /\ 1 \in 1 .. Levels /\ 2 \in 1 .. Levels /\ Levels \in 1 .. Levels
BY PageMapAssumption

\* From the top down: a set of levels that has the top one, and with each the one
\* below it, has all of them.
LEMMA Downward ==
  ASSUME NEW S, Levels \in S,
         \A l \in 1 .. Levels - 1 : l + 1 \in S => l \in S
  PROVE  1 .. Levels \subseteq S
<1> DEFINE T == {k \in Nat : k < Levels /\ Levels - k \notin S}
<1>1. SUFFICES ASSUME T # {} PROVE FALSE
  <2>1. T = {}
    BY <1>1
  <2>2. ASSUME NEW l \in 1 .. Levels PROVE l \in S
    <3>1. Levels - l \in Nat /\ Levels - l < Levels /\ Levels - (Levels - l) = l
      BY LevelsAre
    <3> QED
      BY <2>1, <3>1
  <2> QED
    BY <2>2
<1>2. PICK k \in T : \A j \in T : k <= j
  <2> HIDE DEF T
  <2>1. T \in SUBSET Nat
    BY DEF T
  <2> QED
    BY <1>1, <2>1, LeastExists
<1>3. k \in Nat /\ k < Levels /\ Levels - k \notin S
  BY <1>2
<1>4. k # 0
  BY <1>3, LevelsAre
<1>5. k - 1 \in Nat /\ k - 1 < Levels /\ ~(k <= k - 1)
  BY <1>3, <1>4, LevelsAre
<1>6. Levels - (k - 1) \in S
  BY <1>2, <1>5
<1>7. Levels - k \in 1 .. Levels - 1 /\ Levels - (k - 1) = (Levels - k) + 1
  BY <1>3, <1>4, LevelsAre
<1> QED
  BY <1>3, <1>6, <1>7

\* The same from the bottom up.
LEMMA Upward ==
  ASSUME NEW S, 1 \in S,
         \A l \in 1 .. Levels - 1 : l \in S => l + 1 \in S
  PROVE  1 .. Levels \subseteq S
<1> DEFINE T == {k \in Nat : k \in 1 .. Levels /\ k \notin S}
<1>1. SUFFICES ASSUME T # {} PROVE FALSE
  <2>1. \A k \in 1 .. Levels : k \in Nat
    BY LevelsAre
  <2> QED
    BY <2>1
<1>2. PICK k \in T : \A j \in T : k <= j
  <2> HIDE DEF T
  <2>1. T \in SUBSET Nat
    BY DEF T
  <2> QED
    BY <1>1, <2>1, LeastExists
<1>3. k \in 1 .. Levels /\ k \notin S /\ k # 1
  BY <1>2
<1>4. k - 1 \in 1 .. Levels - 1 /\ k - 1 \in 1 .. Levels /\ k - 1 \in Nat /\ ~(k <= k - 1) /\ (k - 1) + 1 = k
  BY <1>3, LevelsAre
<1>5. k - 1 \in S
  BY <1>2, <1>4
<1> QED
  BY <1>3, <1>4, <1>5

\* t has the tables on the way to v, from level k up.
IsPathFrom(k, t, e, r, v) ==
  t = [l \in k .. Levels |->
         IF l = Levels THEN r
         ELSE IF t[l + 1] = None THEN None ELSE e[t[l + 1]][VAddrIndex(v, l + 1)]]

HasPathFrom(k, e, r, v) == \E t : IsPathFrom(k, t, e, r, v)

LEMMA PathExists ==
  ASSUME NEW e, NEW r, NEW v
  PROVE  HasPathFrom(1, e, r, v)
<1> DEFINE S == {k \in 1 .. Levels : HasPathFrom(k, e, r, v)}
<1>1. Levels \in S
  <2> DEFINE t == [l \in Levels .. Levels |-> r]
  <2>1. IsPathFrom(Levels, t, e, r, v)
    BY LevelsAre DEF IsPathFrom
  <2> QED
    BY <2>1, LevelsAre DEF HasPathFrom
<1>2. ASSUME NEW k \in 1 .. Levels - 1, k + 1 \in S PROVE k \in S
  <2>1. PICK t : IsPathFrom(k + 1, t, e, r, v)
    BY <1>2 DEF HasPathFrom
  <2> DEFINE x == IF t[k + 1] = None THEN None ELSE e[t[k + 1]][VAddrIndex(v, k + 1)]
             u == [l \in k .. Levels |-> IF l = k THEN x ELSE t[l]]
  <2>2. u[k] = x /\ \A l \in k + 1 .. Levels : u[l] = t[l]
    BY LevelsAre
  <2>3. k + 1 \in k + 1 .. Levels
    BY LevelsAre
  <2>4. ASSUME NEW l \in k .. Levels
        PROVE  u[l] = IF l = Levels THEN r
                      ELSE IF u[l + 1] = None THEN None ELSE e[u[l + 1]][VAddrIndex(v, l + 1)]
    <3>1. CASE l = k
      <4>1. l # Levels /\ u[l + 1] = t[l + 1] /\ u[l] = x
        BY <2>2, <2>3, <3>1, LevelsAre
      <4> HIDE DEF u
      <4> QED
        BY <3>1, <4>1
    <3>2. CASE l # k
      <4>1. l \in k + 1 .. Levels /\ (l # Levels => l + 1 \in k + 1 .. Levels)
        BY <3>2, LevelsAre
      <4>2. t[l] = IF l = Levels THEN r
                   ELSE IF t[l + 1] = None THEN None ELSE e[t[l + 1]][VAddrIndex(v, l + 1)]
        BY <2>1, <4>1 DEF IsPathFrom
      <4> HIDE DEF u
      <4> QED
        BY <2>2, <4>1, <4>2
    <3> QED
      BY <3>1, <3>2
  <2>5. IsPathFrom(k, u, e, r, v)
    BY <2>4, Zenon DEF IsPathFrom
  <2> QED
    BY <2>5, LevelsAre DEF HasPathFrom
<1>3. 1 .. Levels \subseteq S
  <2> HIDE DEF S
  <2> QED
    BY <1>1, <1>2, Downward
<1> QED
  BY <1>3, LevelsAre

IsPath(t, e, r, v) ==
  /\ DOMAIN t = 1 .. Levels
  /\ t[Levels] = r
  /\ \A l \in 1 .. Levels - 1 :
       t[l] = IF t[l + 1] = None THEN None ELSE e[t[l + 1]][VAddrIndex(v, l + 1)]

LEMMA PathIs ==
  ASSUME NEW e, NEW r, NEW v
  PROVE  IsPath(Path(e, r, v), e, r, v)
<1> DEFINE P == Path(e, r, v)
<1>1. P = CHOOSE t : IsPathFrom(1, t, e, r, v)
  BY DEF Path, IsPathFrom
<1>2. IsPathFrom(1, P, e, r, v)
  BY <1>1, PathExists DEF HasPathFrom
<1> HIDE DEF P
<1>3. DOMAIN P = 1 .. Levels
  BY <1>2 DEF IsPathFrom
<1>4. P[Levels] = r
  BY <1>2, LevelsAre DEF IsPathFrom
<1>5. ASSUME NEW l \in 1 .. Levels - 1
      PROVE  P[l] = IF P[l + 1] = None THEN None ELSE e[P[l + 1]][VAddrIndex(v, l + 1)]
  <2>1. l \in 1 .. Levels /\ l # Levels
    BY LevelsAre
  <2> QED
    BY <1>2, <2>1 DEF IsPathFrom
<1> QED
  BY <1>3, <1>4, <1>5 DEF P, IsPath

\* There is only one.
LEMMA PathUnique ==
  ASSUME NEW e, NEW r, NEW v, NEW t, IsPath(t, e, r, v)
  PROVE  \A l \in 1 .. Levels : Path(e, r, v)[l] = t[l]
<1> DEFINE P == Path(e, r, v)
           S == {l \in 1 .. Levels : P[l] = t[l]}
<1>1. IsPath(P, e, r, v)
  BY PathIs
<1> HIDE DEF P
<1>2. Levels \in S
  BY <1>1, LevelsAre DEF IsPath
<1>3. ASSUME NEW l \in 1 .. Levels - 1, l + 1 \in S PROVE l \in S
  BY <1>1, <1>3, LevelsAre DEF IsPath
<1>4. 1 .. Levels \subseteq S
  <2> HIDE DEF S
  <2> QED
    BY <1>2, <1>3, Downward
<1> QED
  BY <1>4 DEF P

\* The tables below those of F.
Children(F, e) == {e[f][i] : f \in F, i \in Slots} \ {None}

\* t has the tables below the root r, from level k up.
IsTreeFrom(k, t, e, r) ==
  t = [l \in k .. Levels |->
         IF l = Levels THEN {r} \ {None}
         ELSE Children(t[l + 1], e)]

HasTreeFrom(k, e, r) == \E t : IsTreeFrom(k, t, e, r)

LEMMA TreeExists ==
  ASSUME NEW e, NEW r
  PROVE  HasTreeFrom(1, e, r)
<1> DEFINE S == {k \in 1 .. Levels : HasTreeFrom(k, e, r)}
<1>1. Levels \in S
  <2> DEFINE t == [l \in Levels .. Levels |-> {r} \ {None}]
  <2>1. IsTreeFrom(Levels, t, e, r)
    BY LevelsAre DEF IsTreeFrom
  <2> QED
    BY <2>1, LevelsAre DEF HasTreeFrom
<1>2. ASSUME NEW k \in 1 .. Levels - 1, k + 1 \in S PROVE k \in S
  <2>1. PICK t : IsTreeFrom(k + 1, t, e, r)
    BY <1>2 DEF HasTreeFrom
  <2> DEFINE x == Children(t[k + 1], e)
             u == [l \in k .. Levels |-> IF l = k THEN x ELSE t[l]]
  <2>2. u[k] = x /\ \A l \in k + 1 .. Levels : u[l] = t[l]
    BY LevelsAre
  <2>3. k + 1 \in k + 1 .. Levels
    BY LevelsAre
  <2>4. ASSUME NEW l \in k .. Levels
        PROVE  u[l] = IF l = Levels THEN {r} \ {None}
                      ELSE Children(u[l + 1], e)
    <3>1. CASE l = k
      <4>1. l # Levels /\ u[l + 1] = t[l + 1] /\ u[l] = x
        BY <2>2, <2>3, <3>1, LevelsAre
      <4> HIDE DEF u
      <4> QED
        BY <3>1, <4>1
    <3>2. CASE l # k
      <4>1. l \in k + 1 .. Levels /\ (l # Levels => l + 1 \in k + 1 .. Levels)
        BY <3>2, LevelsAre
      <4>2. t[l] = IF l = Levels THEN {r} \ {None}
                   ELSE Children(t[l + 1], e)
        BY <2>1, <4>1 DEF IsTreeFrom
      <4> HIDE DEF u
      <4> QED
        BY <2>2, <4>1, <4>2
    <3> QED
      BY <3>1, <3>2
  <2>5. IsTreeFrom(k, u, e, r)
    BY <2>4, Zenon DEF IsTreeFrom
  <2> QED
    BY <2>5, LevelsAre DEF HasTreeFrom
<1>3. 1 .. Levels \subseteq S
  <2> HIDE DEF S
  <2> QED
    BY <1>1, <1>2, Downward
<1> QED
  BY <1>3, LevelsAre

\* The tables at each level, and what makes a frame one of them.
IsTree(t, e, r) ==
  /\ DOMAIN t = 1 .. Levels
  /\ \A f : f \in t[Levels] <=> (f = r /\ f # None)
  /\ \A l \in 1 .. Levels - 1 : \A f :
       f \in t[l] <=> (f # None /\ \E g \in t[l + 1], i \in Slots : f = e[g][i])

LEMMA TreeIs ==
  ASSUME NEW e, NEW r
  PROVE  IsTree(TablesBelow(e, r), e, r)
<1> DEFINE P == TablesBelow(e, r)
<1>1. P = CHOOSE t : IsTreeFrom(1, t, e, r)
  BY DEF TablesBelow, IsTreeFrom, Children
<1>2. IsTreeFrom(1, P, e, r)
  BY <1>1, TreeExists DEF HasTreeFrom
<1> HIDE DEF P
<1>3. DOMAIN P = 1 .. Levels
  BY <1>2 DEF IsTreeFrom
<1>4. P[Levels] = {r} \ {None}
  BY <1>2, LevelsAre DEF IsTreeFrom
<1>5. ASSUME NEW l \in 1 .. Levels - 1
      PROVE  P[l] = Children(P[l + 1], e)
  <2>1. l \in 1 .. Levels /\ l # Levels
    BY LevelsAre
  <2> QED
    BY <1>2, <2>1 DEF IsTreeFrom
<1>6. \A f : f \in P[Levels] <=> (f = r /\ f # None)
  BY <1>4
<1>7. \A l \in 1 .. Levels - 1 : \A f :
        f \in P[l] <=> (f # None /\ \E g \in P[l + 1], i \in Slots : f = e[g][i])
  BY <1>5 DEF Children
<1> QED
  BY <1>3, <1>6, <1>7 DEF P, IsTree

\* There is only one.
LEMMA TreeUnique ==
  ASSUME NEW e, NEW r, NEW t, IsTree(t, e, r)
  PROVE  \A l \in 1 .. Levels : TablesBelow(e, r)[l] = t[l]
<1> DEFINE P == TablesBelow(e, r)
           S == {l \in 1 .. Levels : P[l] = t[l]}
<1>1. IsTree(P, e, r)
  BY TreeIs
<1> HIDE DEF P
<1>2. Levels \in S
  <2>1. \A f : f \in P[Levels] <=> f \in t[Levels]
    BY <1>1 DEF IsTree
  <2> QED
    BY <2>1, LevelsAre
<1>3. ASSUME NEW l \in 1 .. Levels - 1, l + 1 \in S PROVE l \in S
  <2>1. P[l + 1] = t[l + 1] /\ l \in 1 .. Levels
    BY <1>3, LevelsAre
  <2>2. \A f : f \in P[l] <=> f \in t[l]
    BY <1>1, <2>1 DEF IsTree
  <2> QED
    BY <2>1, <2>2
<1>4. 1 .. Levels \subseteq S
  <2> HIDE DEF S
  <2> QED
    BY <1>2, <1>3, Downward
<1> QED
  BY <1>4 DEF P

\* Only what is written in a table above level 1 makes another tree.
LEMMA TreeSame ==
  ASSUME NEW e, NEW r, NEW d,
         \A l \in 2 .. Levels : \A f \in TablesBelow(e, r)[l] : d[f] = e[f]
  PROVE  \A l \in 1 .. Levels : TablesBelow(d, r)[l] = TablesBelow(e, r)[l]
<1> DEFINE T == TablesBelow(e, r)
<1>1. IsTree(T, e, r)
  BY TreeIs
<1>2. \A l \in 1 .. Levels - 1 : \A f \in T[l + 1] : d[f] = e[f]
  BY LevelsAre
<1> HIDE DEF T
<1>3. IsTree(T, d, r)
  BY <1>1, <1>2 DEF IsTree
<1> QED
  BY <1>3, TreeUnique DEF T

LEMMA IndexInSlots ==
  ASSUME NEW v \in VPages, NEW l \in 1 .. Levels
  PROVE  VAddrIndex(v, l) \in Slots
<1> DEFINE F == Fanout^(l - 1)
<1>1. F \in Nat \ {0} /\ v \in Nat /\ Fanout \in Nat \ {0}
  <2>1. l - 1 \in 0 .. Levels - 1
    BY LevelsAre
  <2> QED
    BY <2>1, PageMapAssumption
<1> HIDE DEF F
<1>2. v \div F \in Int
  BY <1>1
<1>3. (v \div F) % Fanout \in 0 .. Fanout - 1
  BY <1>1, <1>2
<1> QED
  BY <1>3 DEF F, VAddrIndex, Slots

\* The tables on the way to v are tables of the tree.
LEMMA PathInTree ==
  ASSUME NEW e, NEW r, NEW v \in VPages
  PROVE  \A l \in 1 .. Levels : Path(e, r, v)[l] \in TablesBelow(e, r)[l] \union {None}
<1> DEFINE P == Path(e, r, v)
           T == TablesBelow(e, r)
           S == {l \in 1 .. Levels : P[l] \in T[l] \union {None}}
<1>1. IsPath(P, e, r, v) /\ IsTree(T, e, r)
  BY PathIs, TreeIs
<1> HIDE DEF P, T
<1>2. Levels \in S
  BY <1>1, LevelsAre DEF IsPath, IsTree
<1>3. ASSUME NEW l \in 1 .. Levels - 1, l + 1 \in S PROVE l \in S
  <2>1. l \in 1 .. Levels /\ l + 1 \in 1 .. Levels /\ P[l + 1] \in T[l + 1] \union {None}
    BY <1>3, LevelsAre
  <2>2. VAddrIndex(v, l + 1) \in Slots
    BY <2>1, IndexInSlots
  <2>3. CASE P[l + 1] = None
    BY <1>1, <2>1, <2>3 DEF IsPath
  <2>4. CASE P[l + 1] # None
    BY <1>1, <2>1, <2>2, <2>4 DEF IsPath, IsTree
  <2> QED
    BY <2>3, <2>4
<1>4. 1 .. Levels \subseteq S
  <2> HIDE DEF S
  <2> QED
    BY <1>2, <1>3, Downward
<1> QED
  BY <1>4 DEF P, T

\* The same of the way to an address.
LEMMA PathSame ==
  ASSUME NEW e, NEW r, NEW d, NEW v \in VPages,
         \A l \in 2 .. Levels : \A f \in TablesBelow(e, r)[l] : d[f] = e[f]
  PROVE  \A l \in 1 .. Levels : Path(d, r, v)[l] = Path(e, r, v)[l]
<1> DEFINE P == Path(e, r, v)
<1>1. IsPath(P, e, r, v)
  BY PathIs
<1>2. \A l \in 1 .. Levels - 1 : P[l + 1] # None => d[P[l + 1]] = e[P[l + 1]]
  <2>1. \A l \in 1 .. Levels - 1 : l + 1 \in 2 .. Levels /\ l + 1 \in 1 .. Levels
    BY LevelsAre
  <2> QED
    BY <2>1, PathInTree
<1> HIDE DEF P
<1>3. IsPath(P, d, r, v)
  BY <1>1, <1>2 DEF IsPath
<1> QED
  BY <1>3, PathUnique DEF P

--------------------------------------------------------------------------------
(* Ownership.                                                                    *)

At(e, R, m, l) == TablesBelow(e, R[m])[l]

\* A frame is in one tree, at one level.
Apart(e, R) ==
  \A m, n \in Maps, k, l \in 1 .. Levels :
    \A f \in At(e, R, m, k) : f \in At(e, R, n, l) => m = n /\ k = l

\* It is below one entry.
OneLink(e, R) ==
  \A m \in Maps, l \in 2 .. Levels : \A f, g \in At(e, R, m, l), i, j \in Slots :
    e[f][i] # None /\ e[f][i] = e[g][j] => f = g /\ i = j

Owned(e, R, u) ==
  /\ \A m \in Maps, l \in 1 .. Levels : At(e, R, m, l) \subseteq u
  /\ \A f \in u : \E m \in Maps, l \in 1 .. Levels : f \in At(e, R, m, l)
  /\ Apart(e, R)
  /\ OneLink(e, R)

LEMMA OwnedIsTreesOwnFrames ==
  ASSUME Owned(mem, root, used)
  PROVE  TreesOwnFrames
<1>1. \A m \in Maps, l \in 1 .. Levels : Tables(m)[l] = At(mem, root, m, l)
  BY DEF Tables, At
<1>2. used = UNION {AllTables(m) : m \in Maps}
  <2>1. ASSUME NEW f \in used PROVE \E m \in Maps : f \in AllTables(m)
    <3>1. PICK m \in Maps, l \in 1 .. Levels : f \in At(mem, root, m, l)
      BY DEF Owned
    <3> QED
      BY <1>1, <3>1 DEF AllTables
  <2>2. ASSUME NEW m \in Maps, NEW f \in AllTables(m) PROVE f \in used
    <3>1. PICK l \in 1 .. Levels : f \in Tables(m)[l]
      BY <2>2 DEF AllTables
    <3> QED
      BY <1>1, <3>1 DEF Owned
  <2> QED
    BY <2>1, <2>2
<1>3. ASSUME NEW x \in Places, NEW y \in Places, x # y
      PROVE  Tables(x[1])[x[2]] \intersect Tables(y[1])[y[2]] = {}
  <2>1. PICK m \in Maps, k \in 1 .. Levels : x = <<m, k>>
    BY DEF Places
  <2>2. PICK n \in Maps, l \in 1 .. Levels : y = <<n, l>>
    BY DEF Places
  <2>3. ~(m = n /\ k = l)
    BY <1>3, <2>1, <2>2
  <2>4. At(mem, root, m, k) \intersect At(mem, root, n, l) = {}
    BY <2>3 DEF Owned, Apart
  <2> QED
    BY <1>1, <2>1, <2>2, <2>4
<1>4. ASSUME NEW m \in Maps, NEW l \in 2 .. Levels,
             NEW x \in Tables(m)[l] \X Slots, NEW y \in Tables(m)[l] \X Slots,
             mem[x[1]][x[2]] # None, mem[x[1]][x[2]] = mem[y[1]][y[2]]
      PROVE  x = y
  <2>1. l \in 1 .. Levels
    BY LevelsAre
  <2>2. /\ x[1] \in At(mem, root, m, l) /\ x[2] \in Slots /\ x = <<x[1], x[2]>>
        /\ y[1] \in At(mem, root, m, l) /\ y[2] \in Slots /\ y = <<y[1], y[2]>>
    BY <1>1, <2>1
  <2> DEFINE f == x[1]
             g == y[1]
             i == x[2]
             j == y[2]
  <2>3. mem[f][i] # None /\ mem[f][i] = mem[g][j]
    BY <1>4
  <2>4. f \in At(mem, root, m, l) /\ g \in At(mem, root, m, l) /\ i \in Slots /\ j \in Slots
    BY <2>2
  <2> HIDE DEF f, g, i, j
  <2>5. f = g /\ i = j
    BY <2>3, <2>4 DEF Owned, OneLink
  <2> QED
    BY <2>2, <2>5 DEF f, g, i, j
<1> QED
  BY <1>2, <1>3, <1>4 DEF TreesOwnFrames

\* A map without a root has no table.
LEMMA NoTree ==
  ASSUME NEW e
  PROVE  \A l \in 1 .. Levels : TablesBelow(e, None)[l] = {}
<1> DEFINE T == TablesBelow(e, None)
           S == {l \in 1 .. Levels : T[l] = {}}
<1>1. IsTree(T, e, None)
  BY TreeIs
<1> HIDE DEF T
<1>2. Levels \in S
  BY <1>1, LevelsAre DEF IsTree
<1>3. ASSUME NEW l \in 1 .. Levels - 1, l + 1 \in S PROVE l \in S
  BY <1>1, <1>3, LevelsAre DEF IsTree
<1>4. 1 .. Levels \subseteq S
  <2> HIDE DEF S
  <2> QED
    BY <1>2, <1>3, Downward
<1> QED
  BY <1>4 DEF T

\* What is written in tables of level 1 only changes nothing.
LEMMA OwnedSame ==
  ASSUME NEW e, NEW R, NEW u, Owned(e, R, u), NEW d,
         \A m \in Maps, l \in 2 .. Levels : \A f \in At(e, R, m, l) : d[f] = e[f]
  PROVE  /\ Owned(d, R, u)
         /\ \A m \in Maps, l \in 1 .. Levels : At(d, R, m, l) = At(e, R, m, l)
<1>1. ASSUME NEW m \in Maps PROVE \A l \in 1 .. Levels : At(d, R, m, l) = At(e, R, m, l)
  <2> DEFINE r == R[m]
  <2>1. \A l \in 2 .. Levels : \A f \in TablesBelow(e, r)[l] : d[f] = e[f]
    BY DEF At
  <2> HIDE DEF r
  <2>2. \A l \in 1 .. Levels : TablesBelow(d, r)[l] = TablesBelow(e, r)[l]
    BY <2>1, TreeSame
  <2> QED
    BY <2>2 DEF At, r
<1>2. Apart(d, R)
  BY <1>1 DEF Apart, Owned
<1>3. OneLink(d, R)
  <2>1. \A l \in 2 .. Levels : l \in 1 .. Levels
    BY LevelsAre
  <2> QED
    BY <1>1, <2>1 DEF OneLink, Owned
<1> QED
  BY <1>1, <1>2, <1>3 DEF Owned

--------------------------------------------------------------------------------
(* Map: new tables.                                                              *)

\* got has empty frames for the tables that are missing on the way to v, from the
\* highest one down.
NewTables(e, r, u, v, got) ==
  /\ DOMAIN got \subseteq 1 .. Levels - 1
  /\ \A l \in DOMAIN got : /\ Path(e, r, v)[l] = None
                           /\ got[l] \in Frames \ u
                           /\ \A i \in Slots : e[got[l]][i] = None
                           /\ l + 1 < Levels /\ Path(e, r, v)[l + 1] = None => l + 1 \in DOMAIN got
  /\ \A k, l \in DOMAIN got : got[k] = got[l] => k = l

\* The table below which got[l] is hung.
Above(e, r, v, got, l) == IF l + 1 \in DOMAIN got THEN got[l + 1] ELSE Path(e, r, v)[l + 1]

\* The table that is written to is a new one, or the last that was there.
AboveIs(e, r, u, v, got) ==
  \A l \in DOMAIN got :
    /\ Above(e, r, v, got, l) \in Frames
    /\ \/ l + 1 \in DOMAIN got /\ Above(e, r, v, got, l) = got[l + 1]
       \/ /\ l + 1 \notin DOMAIN got
          /\ Above(e, r, v, got, l) = Path(e, r, v)[l + 1]
          /\ Above(e, r, v, got, l) \in TablesBelow(e, r)[l + 1]
    /\ e[Above(e, r, v, got, l)][VAddrIndex(v, l + 1)] = None
    /\ \A k \in DOMAIN got : Above(e, r, v, got, k) = Above(e, r, v, got, l) => k = l

\* The tables of one tree are among u, each at one level.
Levelled(e, r, u) ==
  /\ \A l \in 1 .. Levels : TablesBelow(e, r)[l] \subseteq u
  /\ \A k, l \in 1 .. Levels : \A f \in TablesBelow(e, r)[k] :
       f \in TablesBelow(e, r)[l] => k = l

LEMMA AboveFacts ==
  ASSUME NEW e, NEW r \in Frames, NEW u \in SUBSET Frames, NEW v \in VPages, NEW got,
         NewTables(e, r, u, v, got), Levelled(e, r, u)
  PROVE  AboveIs(e, r, u, v, got)
<1> DEFINE P == Path(e, r, v)
           A(l) == Above(e, r, v, got, l)
<1>1. IsPath(P, e, r, v)
  BY PathIs
<1>2. r # None
  BY PageMapAssumption
<1>3. ASSUME NEW l \in DOMAIN got
      PROVE  /\ A(l) \in Frames
             /\ \/ l + 1 \in DOMAIN got /\ A(l) = got[l + 1]
                \/ /\ l + 1 \notin DOMAIN got
                   /\ A(l) = P[l + 1]
                   /\ A(l) \in TablesBelow(e, r)[l + 1]
             /\ e[A(l)][VAddrIndex(v, l + 1)] = None
  <2>1. l \in 1 .. Levels - 1 /\ l + 1 \in 1 .. Levels
    BY LevelsAre DEF NewTables
  <2>2. VAddrIndex(v, l + 1) \in Slots
    BY <2>1, IndexInSlots
  <2>3. CASE l + 1 \in DOMAIN got
    <3>1. A(l) = got[l + 1]
      BY <2>3 DEF Above
    <3> HIDE DEF A
    <3> QED
      BY <2>2, <2>3, <3>1 DEF NewTables
  <2>4. CASE l + 1 \notin DOMAIN got
    <3>1. A(l) = P[l + 1]
      BY <2>4 DEF Above
    <3>2. P[l + 1] # None
      <4>1. CASE l + 1 = Levels
        BY <1>1, <1>2, <4>1 DEF IsPath
      <4>2. CASE l + 1 # Levels
        BY <2>1, <2>4, <4>2, LevelsAre DEF NewTables
      <4> QED
        BY <4>1, <4>2
    <3>3. P[l + 1] \in TablesBelow(e, r)[l + 1]
      BY <2>1, <3>2, PathInTree
    <3>4. e[P[l + 1]][VAddrIndex(v, l + 1)] = None
      <4>1. P[l] = None
        BY DEF NewTables
      <4> HIDE DEF P
      <4> QED
        BY <1>1, <2>1, <3>2, <4>1 DEF IsPath
    <3> HIDE DEF A, P
    <3>5. e[A(l)][VAddrIndex(v, l + 1)] = None
      BY <3>1, <3>4
    <3>6. A(l) \in Frames
      BY <2>1, <3>1, <3>3 DEF Levelled
    <3> QED
      BY <2>4, <3>1, <3>3, <3>5, <3>6
  <2> QED
    BY <2>3, <2>4
<1>4. ASSUME NEW k \in DOMAIN got, NEW l \in DOMAIN got, A(k) = A(l) PROVE k = l
  <2> USE DEF Levelled
  <2>1. k \in 1 .. Levels - 1 /\ k + 1 \in 1 .. Levels /\ l \in 1 .. Levels - 1 /\ l + 1 \in 1 .. Levels
    BY LevelsAre DEF NewTables
  <2> HIDE DEF A
  <2>2. \A j \in DOMAIN got : got[j] \notin u
    BY DEF NewTables
  <2>3. CASE k + 1 \in DOMAIN got /\ l + 1 \in DOMAIN got
    <3>1. got[k + 1] = got[l + 1]
      BY <1>3, <1>4, <2>3
    <3>2. k + 1 = l + 1
      BY <2>3, <3>1 DEF NewTables
    <3> QED
      BY <2>1, <3>2
  <2>4. CASE k + 1 \notin DOMAIN got /\ l + 1 \notin DOMAIN got
    <3>1. A(k) \in TablesBelow(e, r)[k + 1] /\ A(k) \in TablesBelow(e, r)[l + 1]
      BY <1>3, <1>4, <2>4
    <3>2. k + 1 = l + 1
      BY <2>1, <3>1 DEF Levelled
    <3> QED
      BY <2>1, <3>2
  <2>5. CASE k + 1 \in DOMAIN got /\ l + 1 \notin DOMAIN got
    BY <1>3, <1>4, <2>1, <2>2, <2>5
  <2>6. CASE k + 1 \notin DOMAIN got /\ l + 1 \in DOMAIN got
    BY <1>3, <1>4, <2>1, <2>2, <2>6
  <2> QED
    BY <2>3, <2>4, <2>5, <2>6
<1> QED
  BY <1>3, <1>4 DEF AboveIs

\* What Linked writes: of the entries it writes to, nothing else.
LinkedTo(d, e, r, v, got) ==
  /\ \A l \in DOMAIN got : d[Above(e, r, v, got, l)][VAddrIndex(v, l + 1)] = got[l]
  /\ \A f \in Frames, i \in Slots :
       \/ d[f][i] = e[f][i]
       \/ \E l \in DOMAIN got : /\ f = Above(e, r, v, got, l) /\ i = VAddrIndex(v, l + 1)
                                /\ d[f][i] = got[l]

LEMMA LinkedWrites ==
  ASSUME NEW e \in Mems, NEW m \in Maps, NEW u, NEW v \in VPages, NEW got,
         NewTables(e, root[m], u, v, got), AboveIs(e, root[m], u, v, got)
  PROVE  Linked(e, m, v, got) \in Mems /\ LinkedTo(Linked(e, m, v, got), e, root[m], v, got)
<1> DEFINE r == root[m]
           A(l) == Above(e, r, v, got, l)
           here(f, i) == {l \in DOMAIN got : f = A(l) /\ i = VAddrIndex(v, l + 1)}
           d == [f \in Frames |-> [i \in Slots |->
                  IF here(f, i) # {} THEN got[CHOOSE l \in here(f, i) : TRUE] ELSE e[f][i]]]
<1>1. Linked(e, m, v, got) = d
  BY DEF Linked, Above
<1> HIDE DEF r
<1>2. \A k, l \in DOMAIN got : A(k) = A(l) => k = l
  BY DEF AboveIs, r
<1>3. \A l \in DOMAIN got : A(l) \in Frames /\ VAddrIndex(v, l + 1) \in Slots /\ got[l] \in Frames
  <2>1. \A l \in DOMAIN got : l + 1 \in 1 .. Levels
    BY LevelsAre DEF NewTables
  <2> QED
    BY <2>1, IndexInSlots DEF AboveIs, NewTables, r
<1> HIDE DEF A
<1>4. ASSUME NEW f \in Frames, NEW i \in Slots
      PROVE  /\ d[f][i] \in Entry
             /\ \/ d[f][i] = e[f][i]
                \/ \E l \in DOMAIN got : f = A(l) /\ i = VAddrIndex(v, l + 1) /\ d[f][i] = got[l]
  <2>1. CASE here(f, i) = {}
    <3>1. d[f][i] = e[f][i]
      BY <2>1
    <3> HIDE DEF d
    <3> QED
      BY <3>1 DEF Mems
  <2>2. CASE here(f, i) # {}
    <3> DEFINE l == CHOOSE l \in here(f, i) : TRUE
    <3>1. l \in here(f, i)
      BY <2>2
    <3>2. d[f][i] = got[l]
      BY <2>2
    <3> HIDE DEF d, l
    <3> QED
      BY <1>3, <3>1, <3>2 DEF Entry
  <2> QED
    BY <2>1, <2>2
<1>5. ASSUME NEW l \in DOMAIN got PROVE d[A(l)][VAddrIndex(v, l + 1)] = got[l]
  <2> DEFINE f == A(l)
             i == VAddrIndex(v, l + 1)
  <2>1. f \in Frames /\ i \in Slots
    BY <1>3
  <2>2. l \in here(f, i)
    OBVIOUS
  <2>3. \A k \in here(f, i) : k = l
    BY <1>2
  <2> HIDE DEF f, i
  <2>4. (CHOOSE k \in here(f, i) : TRUE) = l
    <3> HIDE DEF here
    <3> QED
      BY <2>2, <2>3
  <2>5. d[f][i] = got[l]
    BY <2>1, <2>2, <2>4
  <2> QED
    BY <2>5 DEF f, i
<1>6. d \in Mems
  <2>1. \A f \in Frames, i \in Slots : d[f][i] \in Entry
    BY <1>4
  <2>2. d = [f \in Frames |-> [i \in Slots |-> d[f][i]]]
    OBVIOUS
  <2> HIDE DEF d
  <2> QED
    BY <2>1, <2>2 DEF Mems
<1> HIDE DEF d
<1> QED
  BY <1>1, <1>4, <1>5, <1>6 DEF LinkedTo, A, r

\* In a table that was there the one entry that is written to is that of the highest
\* new one; in a new one it is that of the next.
LinkedFacts(d, e, r, got) ==
  /\ \A l \in 0 .. Levels - 1 : \A f \in TablesBelow(e, r)[l + 1], i \in Slots :
       d[f][i] = e[f][i] \/ (l \in DOMAIN got /\ d[f][i] = got[l] /\ e[f][i] = None)
  /\ \A j \in DOMAIN got, i \in Slots :
       d[got[j]][i] = None \/ (j - 1 \in DOMAIN got /\ d[got[j]][i] = got[j - 1])

LEMMA LinkedHas ==
  ASSUME NEW e, NEW r \in Frames, NEW u \in SUBSET Frames, NEW v \in VPages, NEW got, NEW d,
         NewTables(e, r, u, v, got), AboveIs(e, r, u, v, got), LinkedTo(d, e, r, v, got),
         Levelled(e, r, u)
  PROVE  LinkedFacts(d, e, r, got)
<1> DEFINE A(l) == Above(e, r, v, got, l)
           T == TablesBelow(e, r)
<1>1. \A f \in Frames, i \in Slots :
        \/ d[f][i] = e[f][i]
        \/ \E k \in DOMAIN got : f = A(k) /\ i = VAddrIndex(v, k + 1) /\ d[f][i] = got[k]
  BY DEF LinkedTo
<1>2. \A k \in DOMAIN got : /\ k \in 1 .. Levels - 1 /\ k + 1 \in 1 .. Levels
                            /\ got[k] \in Frames /\ got[k] \notin u
                            /\ \A i \in Slots : e[got[k]][i] = None
  BY LevelsAre DEF NewTables
<1>3. \A k \in DOMAIN got : /\ \/ k + 1 \in DOMAIN got /\ A(k) = got[k + 1]
                               \/ A(k) \in T[k + 1]
                            /\ e[A(k)][VAddrIndex(v, k + 1)] = None
  BY DEF AboveIs
<1>4. (\A l \in 1 .. Levels : T[l] \subseteq u) /\ \A k, l \in 1 .. Levels : \A f \in T[k] : f \in T[l] => k = l
  BY DEF Levelled
<1>5. \A j, k \in DOMAIN got : got[j] = got[k] => j = k
  BY DEF NewTables
<1> HIDE DEF A, T
<1>6. ASSUME NEW l \in 0 .. Levels - 1, NEW f \in T[l + 1], NEW i \in Slots
      PROVE  d[f][i] = e[f][i] \/ (l \in DOMAIN got /\ d[f][i] = got[l] /\ e[f][i] = None)
  <2>1. l + 1 \in 1 .. Levels
    BY LevelsAre
  <2>2. f \in u /\ f \in Frames
    BY <1>4, <2>1
  <2>3. SUFFICES ASSUME NEW k \in DOMAIN got,
                        f = A(k), i = VAddrIndex(v, k + 1), d[f][i] = got[k]
                 PROVE  l = k /\ e[f][i] = None
    BY <1>1, <2>2
  <2>4. A(k) \in T[k + 1]
    BY <1>2, <1>3, <2>2, <2>3
  <2>5. k + 1 = l + 1
    BY <1>2, <1>4, <2>1, <2>3, <2>4
  <2> QED
    BY <1>2, <1>3, <2>3, <2>5
<1>7. ASSUME NEW j \in DOMAIN got, NEW i \in Slots
      PROVE  d[got[j]][i] = None \/ (j - 1 \in DOMAIN got /\ d[got[j]][i] = got[j - 1])
  <2>1. SUFFICES ASSUME NEW k \in DOMAIN got,
                        got[j] = A(k), i = VAddrIndex(v, k + 1), d[got[j]][i] = got[k]
                 PROVE  k = j - 1
    BY <1>1, <1>2
  <2>2. k + 1 \in DOMAIN got /\ A(k) = got[k + 1]
    BY <1>2, <1>3, <1>4, <2>1
  <2>3. k + 1 = j
    BY <1>5, <2>1, <2>2
  <2> QED
    BY <1>2, <2>3
<1> QED
  BY <1>6, <1>7 DEF LinkedFacts, T

\* The tree with the new tables.
NewAt(got, l) == {got[k] : k \in DOMAIN got \intersect {l}}

LEMMA TreeLinked ==
  ASSUME NEW e, NEW r \in Frames, NEW u \in SUBSET Frames, NEW v \in VPages, NEW got, NEW d,
         NewTables(e, r, u, v, got), AboveIs(e, r, u, v, got), LinkedTo(d, e, r, v, got),
         Levelled(e, r, u)
  PROVE  \A l \in 1 .. Levels : TablesBelow(d, r)[l] = TablesBelow(e, r)[l] \union NewAt(got, l)
<1> DEFINE T == TablesBelow(e, r)
           U == [l \in 1 .. Levels |-> T[l] \union NewAt(got, l)]
           A(l) == Above(e, r, v, got, l)
<1>1. \A l \in 1 .. Levels : \A f : f \in U[l] <=> (f \in T[l] \/ (l \in DOMAIN got /\ f = got[l]))
  BY DEF NewAt
<1>2. IsTree(T, e, r)
  BY TreeIs
<1>3. LinkedFacts(d, e, r, got)
  BY LinkedHas
<1>4. /\ \A l \in 0 .. Levels - 1 : \A f \in T[l + 1], i \in Slots :
           d[f][i] = e[f][i] \/ (l \in DOMAIN got /\ d[f][i] = got[l] /\ e[f][i] = None)
      /\ \A j \in DOMAIN got, i \in Slots :
           d[got[j]][i] = None \/ (j - 1 \in DOMAIN got /\ d[got[j]][i] = got[j - 1])
  BY <1>3 DEF LinkedFacts
<1>5. DOMAIN got \subseteq 1 .. Levels - 1 /\ \A l \in DOMAIN got : got[l] \in Frames /\ got[l] # None
  BY PageMapAssumption DEF NewTables
<1>6. \A l \in DOMAIN got : /\ d[A(l)][VAddrIndex(v, l + 1)] = got[l]
                            /\ (l + 1 \in DOMAIN got /\ A(l) = got[l + 1]) \/ A(l) \in T[l + 1]
  BY DEF LinkedTo, AboveIs
<1>7. DOMAIN U = 1 .. Levels
  OBVIOUS
<1> HIDE DEF T, U, A
<1>8. ASSUME NEW f PROVE f \in U[Levels] <=> (f = r /\ f # None)
  BY <1>1, <1>2, <1>5, LevelsAre DEF IsTree
<1>9. ASSUME NEW l \in 1 .. Levels - 1, NEW f
      PROVE  f \in U[l] <=> (f # None /\ \E g \in U[l + 1], i \in Slots : f = d[g][i])
  <2>1. l \in 1 .. Levels /\ l + 1 \in 1 .. Levels /\ (l + 1) - 1 = l
    BY LevelsAre
  <2>2. CASE f \in T[l]
    <3>1. PICK g \in T[l + 1], i \in Slots : f = e[g][i]
      BY <1>2, <2>2 DEF IsTree
    <3>2. f # None
      BY <1>2, <2>2 DEF IsTree
    <3>3. f = d[g][i] /\ g \in U[l + 1]
      BY <1>1, <1>4, <2>1, <3>1, <3>2
    <3> QED
      BY <1>1, <2>1, <2>2, <3>2, <3>3
  <2>3. CASE l \in DOMAIN got /\ f = got[l]
    <3> DEFINE i == VAddrIndex(v, l + 1)
    <3>1. A(l) \in U[l + 1] /\ d[A(l)][i] = f
      BY <1>1, <1>6, <2>1, <2>3
    <3>2. i \in Slots
      BY <2>1, IndexInSlots
    <3> HIDE DEF i
    <3> QED
      BY <1>1, <1>5, <2>1, <2>3, <3>1, <3>2
  <2>4. CASE f # None /\ \E g \in U[l + 1], i \in Slots : f = d[g][i]
    <3>1. PICK g \in U[l + 1], i \in Slots : f = d[g][i]
      BY <2>4
    <3>2. CASE g \in T[l + 1]
      <4>1. CASE d[g][i] = e[g][i]
        <5>1. f \in T[l]
          BY <1>2, <2>4, <3>1, <3>2, <4>1 DEF IsTree
        <5> QED
          BY <1>1, <2>1, <2>4, <5>1
      <4>2. CASE l \in DOMAIN got /\ d[g][i] = got[l]
        BY <1>1, <2>1, <2>4, <3>1, <4>2
      <4> QED
        BY <1>4, <3>2, <4>1, <4>2
    <3>3. CASE l + 1 \in DOMAIN got /\ g = got[l + 1]
      <4>1. l \in DOMAIN got /\ f = got[l]
        BY <1>4, <2>1, <2>4, <3>1, <3>3
      <4> QED
        BY <1>1, <2>1, <2>4, <4>1
    <3> QED
      BY <1>1, <2>1, <3>1, <3>2, <3>3
  <2> QED
    BY <1>1, <2>1, <2>2, <2>3, <2>4
<1>10. IsTree(U, d, r)
  BY <1>7, <1>8, <1>9 DEF IsTree
<1>11. \A l \in 1 .. Levels : TablesBelow(d, r)[l] = U[l]
  BY <1>10, TreeUnique
<1> QED
  BY <1>11 DEF U, T

\* The way to v now leads on through the new tables.
LEMMA PathLinked ==
  ASSUME NEW e, NEW r \in Frames, NEW u \in SUBSET Frames, NEW v \in VPages, NEW got, NEW d,
         NewTables(e, r, u, v, got), AboveIs(e, r, u, v, got), LinkedTo(d, e, r, v, got),
         Levelled(e, r, u)
  PROVE  \A l \in 1 .. Levels :
           Path(d, r, v)[l] = IF l \in DOMAIN got THEN got[l] ELSE Path(e, r, v)[l]
<1> DEFINE P == Path(e, r, v)
           Q == [l \in 1 .. Levels |-> IF l \in DOMAIN got THEN got[l] ELSE P[l]]
           A(l) == Above(e, r, v, got, l)
<1>1. IsPath(P, e, r, v)
  BY PathIs
<1>2. LinkedFacts(d, e, r, got)
  BY LinkedHas
<1>3. DOMAIN got \subseteq 1 .. Levels - 1 /\ \A l \in DOMAIN got : got[l] # None
  BY PageMapAssumption DEF NewTables
<1>4. \A l \in 1 .. Levels : Q[l] = IF l \in DOMAIN got THEN got[l] ELSE P[l]
  OBVIOUS
<1>5. \A l \in DOMAIN got : /\ d[A(l)][VAddrIndex(v, l + 1)] = got[l]
                            /\ A(l) = IF l + 1 \in DOMAIN got THEN got[l + 1] ELSE P[l + 1]
  BY DEF LinkedTo, Above
<1>6. \A l \in DOMAIN got : P[l] = None
  BY DEF NewTables
<1>7. \A l \in 1 .. Levels : P[l] \in TablesBelow(e, r)[l] \union {None}
  BY PathInTree
<1>8. DOMAIN Q = 1 .. Levels
  OBVIOUS
<1> HIDE DEF P, Q, A
<1>9. Q[Levels] = r
  BY <1>1, <1>3, <1>4, LevelsAre DEF IsPath
<1>10. ASSUME NEW l \in 1 .. Levels - 1
       PROVE  Q[l] = IF Q[l + 1] = None THEN None ELSE d[Q[l + 1]][VAddrIndex(v, l + 1)]
  <2>1. l \in 1 .. Levels /\ l + 1 \in 1 .. Levels /\ l \in 0 .. Levels - 1 /\ (l + 1) - 1 = l
    BY LevelsAre
  <2>2. VAddrIndex(v, l + 1) \in Slots
    BY <2>1, IndexInSlots
  <2>3. CASE l \in DOMAIN got
    <3>1. Q[l + 1] = A(l) /\ Q[l] = got[l]
      BY <1>4, <1>5, <2>1, <2>3
    <3>2. Q[l + 1] # None
      <4>1. A(l) \in Frames
        BY <2>3 DEF AboveIs, A
      <4> QED
        BY <3>1, <4>1, PageMapAssumption
    <3> QED
      BY <1>5, <2>3, <3>1, <3>2
  <2>4. CASE l \notin DOMAIN got /\ l + 1 \in DOMAIN got
    <3>1. Q[l + 1] = got[l + 1] /\ Q[l] = P[l] /\ P[l + 1] = None
      BY <1>4, <1>6, <2>1, <2>4
    <3>2. Q[l] = None
      BY <1>1, <3>1 DEF IsPath
    <3>3. d[got[l + 1]][VAddrIndex(v, l + 1)] = None
      BY <1>2, <2>1, <2>2, <2>4 DEF LinkedFacts
    <3> QED
      BY <3>1, <3>2, <3>3
  <2>5. CASE l \notin DOMAIN got /\ l + 1 \notin DOMAIN got
    <3>1. Q[l + 1] = P[l + 1] /\ Q[l] = P[l]
      BY <1>4, <2>1, <2>5
    <3>2. P[l + 1] # None =>
            d[P[l + 1]][VAddrIndex(v, l + 1)] = e[P[l + 1]][VAddrIndex(v, l + 1)]
      BY <1>2, <1>7, <2>1, <2>2, <2>5 DEF LinkedFacts
    <3> QED
      BY <1>1, <3>1, <3>2 DEF IsPath
  <2> QED
    BY <2>3, <2>4, <2>5
<1>11. IsPath(Q, d, r, v)
  BY <1>8, <1>9, <1>10 DEF IsPath
<1> QED
  BY <1>4, <1>11, PathUnique DEF P

\* What the processor finds at v below the root r.
Find(e, r, v) ==
  IF Path(e, r, v)[1] = None THEN None ELSE e[Path(e, r, v)[1]][VAddrIndex(v, 1)]

\* A way that leads to a table of level 1 is one to its end.
LEMMA PathGoes ==
  ASSUME NEW e, NEW r, NEW v, Path(e, r, v)[1] # None
  PROVE  \A l \in 1 .. Levels : Path(e, r, v)[l] # None
<1> DEFINE P == Path(e, r, v)
           S == {l \in 1 .. Levels : P[l] # None}
<1>1. IsPath(P, e, r, v)
  BY PathIs
<1>2. 1 \in S
  BY LevelsAre
<1> HIDE DEF P
<1>3. ASSUME NEW l \in 1 .. Levels - 1, l \in S PROVE l + 1 \in S
  BY <1>1, <1>3, LevelsAre DEF IsPath
<1>4. 1 .. Levels \subseteq S
  <2> HIDE DEF S
  <2> QED
    BY <1>2, <1>3, Upward
<1> QED
  BY <1>4 DEF P

\* No translation changes when tables are linked in.
LEMMA FindLinked ==
  ASSUME NEW e, NEW r \in Frames, NEW u \in SUBSET Frames, NEW v \in VPages, NEW got, NEW d,
         NewTables(e, r, u, v, got), AboveIs(e, r, u, v, got), LinkedTo(d, e, r, v, got),
         Levelled(e, r, u), NEW w \in VPages
  PROVE  Find(d, r, w) = Find(e, r, w)
<1> DEFINE P == Path(e, r, w)
           Q == Path(d, r, w)
           T == TablesBelow(e, r)
           x(l) == VAddrIndex(w, l)
<1>1. IsPath(P, e, r, w) /\ IsPath(Q, d, r, w)
  BY PathIs
<1>2. LinkedFacts(d, e, r, got)
  BY LinkedHas
<1>3. \A l \in 1 .. Levels : P[l] \in T[l] \union {None}
  BY PathInTree
<1>4. \A l \in 1 .. Levels : Q[l] \in T[l] \union NewAt(got, l) \union {None}
  BY PathInTree, TreeLinked
<1>5. \A l \in DOMAIN got : l \in 1 .. Levels - 1 /\ l \in 1 .. Levels /\ got[l] \notin T[l] /\ got[l] # None
  BY LevelsAre, PageMapAssumption DEF NewTables, Levelled
<1>6. \A l \in 1 .. Levels : x(l) \in Slots
  BY IndexInSlots
<1>7. /\ \A l \in 0 .. Levels - 1 : \A f \in T[l + 1], i \in Slots :
           d[f][i] = e[f][i] \/ (l \in DOMAIN got /\ d[f][i] = got[l] /\ e[f][i] = None)
      /\ \A j \in DOMAIN got, i \in Slots :
           d[got[j]][i] = None \/ (j - 1 \in DOMAIN got /\ d[got[j]][i] = got[j - 1])
  BY <1>2 DEF LinkedFacts
<1>8. P[1] # None => \A l \in 1 .. Levels : P[l] # None
  BY PathGoes
<1>9. /\ \A l \in 1 .. Levels - 1 : /\ Q[l] = IF Q[l + 1] = None THEN None ELSE d[Q[l + 1]][x(l + 1)]
                                    /\ P[l] = IF P[l + 1] = None THEN None ELSE e[P[l + 1]][x(l + 1)]
      /\ P[Levels] = r /\ Q[Levels] = r /\ DOMAIN P = 1 .. Levels /\ DOMAIN Q = 1 .. Levels
  BY <1>1 DEF IsPath
<1>10. \A f \in T[1], i \in Slots : d[f][i] = e[f][i]
  <2>1. 0 \in 0 .. Levels - 1 /\ 0 \notin DOMAIN got /\ 0 + 1 = 1
    BY <1>5, LevelsAre
  <2> HIDE DEF T
  <2> QED
    BY <1>7, <2>1
<1>11. ASSUME IsPath(Q, e, r, w) PROVE P[1] = Q[1]
  BY <1>11, PathUnique, LevelsAre
<1>12. ASSUME IsPath(P, d, r, w) PROVE Q[1] = P[1]
  BY <1>12, PathUnique, LevelsAre
<1> SUFFICES (IF Q[1] = None THEN None ELSE d[Q[1]][x(1)]) = (IF P[1] = None THEN None ELSE e[P[1]][x(1)])
  BY DEF Find
<1> HIDE DEF P, Q, T, x
<1>13. CASE P[1] # None
  <2>1. ASSUME NEW l \in 1 .. Levels - 1
        PROVE  P[l] = d[P[l + 1]][x(l + 1)] /\ P[l + 1] # None
    <3>1. l \in 1 .. Levels /\ l + 1 \in 1 .. Levels /\ l \in 0 .. Levels - 1
      BY LevelsAre
    <3>2. P[l] # None /\ P[l + 1] # None /\ P[l + 1] \in T[l + 1] /\ x(l + 1) \in Slots
      BY <1>3, <1>6, <1>8, <1>13, <3>1
    <3>3. P[l] = e[P[l + 1]][x(l + 1)]
      BY <1>9, <3>2
    <3> QED
      BY <1>7, <3>1, <3>2, <3>3
  <2>2. IsPath(P, d, r, w)
    BY <1>9, <2>1 DEF IsPath, x
  <2>3. Q[1] = P[1] /\ P[1] \in T[1] /\ x(1) \in Slots
    BY <1>3, <1>6, <1>12, <1>13, <2>2, LevelsAre
  <2> QED
    BY <1>10, <2>3
<1>14. CASE P[1] = None /\ Q[1] \in T[1] /\ Q[1] # None
  <2> DEFINE S == {l \in 1 .. Levels : Q[l] \in T[l] /\ Q[l] # None}
  <2>1. 1 \in S
    BY <1>14, LevelsAre
  <2>2. ASSUME NEW l \in 1 .. Levels - 1, Q[l] \in T[l], Q[l] # None
        PROVE  Q[l + 1] \in T[l + 1] /\ Q[l + 1] # None /\ Q[l] = e[Q[l + 1]][x(l + 1)]
    <3>1. l \in 1 .. Levels /\ l + 1 \in 1 .. Levels /\ l \in 0 .. Levels - 1 /\ (l + 1) - 1 = l
      BY LevelsAre
    <3>2. Q[l + 1] # None /\ Q[l] = d[Q[l + 1]][x(l + 1)] /\ x(l + 1) \in Slots
      BY <1>6, <1>9, <2>2, <3>1
    <3>3. Q[l + 1] \in T[l + 1]
      <4>1. SUFFICES ASSUME l + 1 \in DOMAIN got, Q[l + 1] = got[l + 1] PROVE FALSE
        BY <1>4, <3>1, <3>2 DEF NewAt
      <4>2. Q[l] = None \/ (l \in DOMAIN got /\ Q[l] = got[l])
        BY <1>7, <3>1, <3>2, <4>1
      <4> QED
        BY <1>5, <2>2, <4>2
    <3>4. Q[l] = e[Q[l + 1]][x(l + 1)]
      BY <1>5, <1>7, <2>2, <3>1, <3>2, <3>3
    <3> QED
      BY <3>2, <3>3, <3>4
  <2>3. ASSUME NEW l \in 1 .. Levels - 1, l \in S PROVE l + 1 \in S
    BY <2>2, <2>3, LevelsAre
  <2>4. 1 .. Levels \subseteq S
    <3> HIDE DEF S
    <3> QED
      BY <2>1, <2>3, Upward
  <2>5. \A l \in 1 .. Levels - 1 : Q[l] = e[Q[l + 1]][x(l + 1)] /\ Q[l + 1] # None
    BY <2>2, <2>4, LevelsAre
  <2>6. IsPath(Q, e, r, w)
    BY <1>9, <2>5 DEF IsPath, x
  <2> QED
    BY <1>11, <1>14, <2>6
<1>15. CASE P[1] = None /\ Q[1] # None /\ 1 \in DOMAIN got /\ Q[1] = got[1]
  <2>1. d[got[1]][x(1)] = None
    <3>1. 1 - 1 \notin DOMAIN got /\ x(1) \in Slots
      BY <1>5, <1>6, LevelsAre
    <3> QED
      BY <1>7, <1>15, <3>1
  <2> QED
    BY <1>15, <2>1
<1>16. Q[1] = None \/ Q[1] \in T[1] \/ (1 \in DOMAIN got /\ Q[1] = got[1])
  BY <1>4, LevelsAre DEF NewAt
<1> QED
  BY <1>13, <1>14, <1>15, <1>16

LEMMA OwnedIsLevelled ==
  ASSUME NEW e, NEW R, NEW u, Owned(e, R, u), NEW m \in Maps
  PROVE  Levelled(e, R[m], u)
BY DEF Owned, Apart, At, Levelled

\* What is written in the tables of one map does not change another.
OthersSame(d, e, R, m) ==
  \A n \in Maps : n # m => \A l \in 1 .. Levels : \A f \in At(e, R, n, l) : d[f] = e[f]

LEMMA OtherMapsSame ==
  ASSUME NEW e, NEW R, NEW d, NEW m \in Maps, OthersSame(d, e, R, m), NEW n \in Maps, n # m
  PROVE  /\ \A l \in 1 .. Levels : At(d, R, n, l) = At(e, R, n, l)
         /\ \A w \in VPages : Find(d, R[n], w) = Find(e, R[n], w)
<1> DEFINE r == R[n]
<1>1. \A l \in 1 .. Levels : \A f \in TablesBelow(e, r)[l] : d[f] = e[f]
  BY DEF OthersSame, At
<1>2. At(d, R, n, 1) = TablesBelow(d, r)[1] /\ \A l : /\ At(d, R, n, l) = TablesBelow(d, r)[l]
                                                      /\ At(e, R, n, l) = TablesBelow(e, r)[l]
  BY DEF At
<1> HIDE DEF r
<1>3. \A l \in 2 .. Levels : \A f \in TablesBelow(e, r)[l] : d[f] = e[f]
  BY <1>1, LevelsAre
<1>4. \A l \in 1 .. Levels : TablesBelow(d, r)[l] = TablesBelow(e, r)[l]
  BY <1>3, TreeSame
<1>5. ASSUME NEW w \in VPages PROVE Find(d, r, w) = Find(e, r, w)
  <2>1. Path(d, r, w)[1] = Path(e, r, w)[1]
    BY <1>3, PathSame, LevelsAre
  <2>2. Path(e, r, w)[1] \in TablesBelow(e, r)[1] \union {None}
    BY PathInTree, LevelsAre
  <2> QED
    BY <1>1, <2>1, <2>2, LevelsAre DEF Find
<1> QED
  BY <1>2, <1>4, <1>5 DEF r

LEMMA LinkedOthers ==
  ASSUME NEW e \in Mems, NEW R, NEW u \in SUBSET Frames, Owned(e, R, u), NEW m \in Maps,
         NEW v \in VPages, NEW got, NEW d \in Mems,
         NewTables(e, R[m], u, v, got), AboveIs(e, R[m], u, v, got), LinkedTo(d, e, R[m], v, got)
  PROVE  OthersSame(d, e, R, m)
<1> DEFINE r == R[m]
           A(k) == Above(e, r, v, got, k)
<1>1. SUFFICES ASSUME NEW n \in Maps, n # m, NEW l \in 1 .. Levels, NEW f \in At(e, R, n, l)
               PROVE  d[f] = e[f]
  BY DEF OthersSame
<1>2. f \in u /\ f \in Frames
  BY DEF Owned
<1>3. ASSUME NEW k \in DOMAIN got PROVE f # A(k)
  <2>1. k + 1 \in 1 .. Levels
    BY <1>3, LevelsAre DEF NewTables
  <2>2. k + 1 \in DOMAIN got => got[k + 1] \notin u
    BY DEF NewTables
  <2>3. \/ k + 1 \in DOMAIN got /\ A(k) = got[k + 1]
        \/ A(k) \in At(e, R, m, k + 1)
    BY DEF AboveIs, At
  <2> HIDE DEF A
  <2> QED
    BY <1>1, <1>2, <2>1, <2>2, <2>3 DEF Owned, Apart
<1>4. \A i \in Slots : d[f][i] = e[f][i]
  BY <1>2, <1>3 DEF LinkedTo
<1> QED
  BY <1>2, <1>4 DEF Mems

LEMMA OwnedLinked ==
  ASSUME NEW e \in Mems, NEW R, NEW u \in SUBSET Frames, Owned(e, R, u), NEW m \in Maps,
         R[m] \in Frames, NEW v \in VPages, NEW got, NEW d \in Mems,
         NewTables(e, R[m], u, v, got), AboveIs(e, R[m], u, v, got), LinkedTo(d, e, R[m], v, got)
  PROVE  Owned(d, R, u \union {got[l] : l \in DOMAIN got})
<1> DEFINE r == R[m]
           w == u \union {got[l] : l \in DOMAIN got}
<1>1. Levelled(e, r, u)
  BY OwnedIsLevelled
<1>2. \A l : At(d, R, m, l) = TablesBelow(d, r)[l] /\ At(e, R, m, l) = TablesBelow(e, r)[l]
  BY DEF At
<1>3. NewTables(e, r, u, v, got) /\ AboveIs(e, r, u, v, got) /\ LinkedTo(d, e, r, v, got) /\ r \in Frames
  OBVIOUS
<1> HIDE DEF r
<1>4. \A l \in 1 .. Levels : At(d, R, m, l) = At(e, R, m, l) \union NewAt(got, l)
  BY <1>1, <1>2, <1>3, TreeLinked
<1>5. OthersSame(d, e, R, m)
  BY <1>3, LinkedOthers DEF r
<1>6. \A n \in Maps : n # m => \A l \in 1 .. Levels : At(d, R, n, l) = At(e, R, n, l)
  BY <1>5, OtherMapsSame
<1>7. LinkedFacts(d, e, r, got)
  BY <1>1, <1>3, LinkedHas
<1>8. \A l \in DOMAIN got : l \in 1 .. Levels /\ got[l] \notin u
  BY <1>3, LevelsAre DEF NewTables
<1>9. \A k, l \in DOMAIN got : got[k] = got[l] => k = l
  BY <1>3 DEF NewTables
<1>10. \A n \in Maps, l \in 1 .. Levels : \A f :
         f \in At(d, R, n, l) <=> (f \in At(e, R, n, l) \/ (n = m /\ l \in DOMAIN got /\ f = got[l]))
  BY <1>4, <1>6 DEF NewAt
<1>11. \A n \in Maps, l \in 1 .. Levels : At(e, R, n, l) \subseteq u
  BY DEF Owned
<1>12. \A n \in Maps, l \in 1 .. Levels : At(d, R, n, l) \subseteq w
  BY <1>10, <1>11
<1>13. ASSUME NEW f \in w PROVE \E n \in Maps, l \in 1 .. Levels : f \in At(d, R, n, l)
  <2>1. CASE f \in u
    <3>1. PICK n \in Maps, l \in 1 .. Levels : f \in At(e, R, n, l)
      BY <2>1 DEF Owned
    <3> QED
      BY <1>10, <3>1
  <2>2. CASE f \notin u
    <3>1. PICK l \in DOMAIN got : f = got[l]
      BY <1>13, <2>2
    <3> QED
      BY <1>8, <1>10, <3>1
  <2> QED
    BY <2>1, <2>2
<1>14. Apart(d, R)
  <2>1. SUFFICES ASSUME NEW n \in Maps, NEW o \in Maps, NEW k \in 1 .. Levels, NEW l \in 1 .. Levels,
                        NEW f \in At(d, R, n, k), f \in At(d, R, o, l)
                 PROVE  n = o /\ k = l
    BY DEF Apart
  <2>2. CASE f \in u
    <3>1. f \in At(e, R, n, k) /\ f \in At(e, R, o, l)
      BY <1>8, <1>10, <2>1, <2>2
    <3> QED
      BY <3>1 DEF Owned, Apart
  <2>3. CASE f \notin u
    BY <1>9, <1>10, <1>11, <2>1, <2>3
  <2> QED
    BY <2>2, <2>3
<1>15. OneLink(d, R)
  <2>1. SUFFICES ASSUME NEW n \in Maps, NEW k \in 2 .. Levels,
                        NEW f \in At(d, R, n, k), NEW g \in At(d, R, n, k), NEW i \in Slots, NEW j \in Slots,
                        d[f][i] # None, d[f][i] = d[g][j]
                 PROVE  f = g /\ i = j
    BY DEF OneLink
  <2>2. CASE n # m
    <3>1. k \in 1 .. Levels
      BY LevelsAre
    <3>2. f \in At(e, R, n, k) /\ g \in At(e, R, n, k) /\ d[f] = e[f] /\ d[g] = e[g]
      BY <1>5, <1>6, <2>2, <3>1 DEF OthersSame
    <3> QED
      BY <2>1, <3>2 DEF Owned, OneLink
  <2>3. CASE n = m
    <3> DEFINE l == k - 1
    <3>1. k \in 1 .. Levels /\ l \in 1 .. Levels - 1 /\ l \in 0 .. Levels - 1 /\ l \in 1 .. Levels /\ l + 1 = k
      BY LevelsAre
    <3> HIDE DEF l
    \* An entry of the tables at this level: as it was, or that of the new table below.
    <3>2. ASSUME NEW h \in At(d, R, m, k), NEW x \in Slots, d[h][x] # None
          PROVE  \/ h \in At(e, R, m, k) /\ d[h][x] = e[h][x] /\ d[h][x] \in At(e, R, m, l)
                 \/ /\ l \in DOMAIN got /\ d[h][x] = got[l]
                    /\ h = Above(e, r, v, got, l) /\ x = VAddrIndex(v, k)
      <4>1. h \in Frames
        BY <1>3, <1>10, <1>11, <3>1, <3>2 DEF NewTables
      <4>2. CASE \E c \in DOMAIN got : h = Above(e, r, v, got, c) /\ x = VAddrIndex(v, c + 1) /\ d[h][x] = got[c]
        <5>1. PICK c \in DOMAIN got : h = Above(e, r, v, got, c) /\ x = VAddrIndex(v, c + 1) /\ d[h][x] = got[c]
          BY <4>2
        <5>2. c \in 1 .. Levels - 1
          BY <1>3 DEF NewTables
        <5>3. c + 1 = k
          <6>0. c + 1 \in 1 .. Levels
            BY <5>2, LevelsAre
          <6>1. CASE c + 1 \in DOMAIN got /\ h = got[c + 1]
            <7>1. h \notin At(e, R, m, k)
              BY <1>8, <1>11, <3>1, <6>1
            <7>2. k \in DOMAIN got /\ h = got[k]
              BY <1>10, <3>1, <3>2, <7>1
            <7> QED
              BY <1>9, <6>1, <7>2
          <6>2. CASE h \in TablesBelow(e, r)[c + 1]
            <7>1. h \in At(e, R, m, c + 1) /\ h \in u
              BY <1>2, <1>11, <6>0, <6>2
            <7>2. h \in At(e, R, m, k)
              BY <1>8, <1>10, <3>1, <3>2, <7>1
            <7> QED
              BY <3>1, <6>0, <7>1, <7>2 DEF Owned, Apart
          <6> QED
            BY <1>3, <5>1, <6>1, <6>2 DEF AboveIs
        <5>4. c = l
          BY <3>1, <5>2, <5>3
        <5> QED
          BY <5>1, <5>3, <5>4
      <4>3. CASE d[h][x] = e[h][x]
        <5>1. h \in At(e, R, m, k)
          <6>1. ASSUME k \in DOMAIN got, h = got[k] PROVE FALSE
            BY <1>3, <3>2, <4>3, <6>1 DEF NewTables
          <6> QED
            BY <1>10, <3>1, <3>2, <6>1
        <5>2. IsTree(TablesBelow(e, r), e, r)
          BY TreeIs
        <5>3. e[h][x] \in At(e, R, m, l)
          BY <1>2, <3>1, <3>2, <4>3, <5>1, <5>2 DEF IsTree
        <5> QED
          BY <4>3, <5>1, <5>3
      <4> QED
        BY <1>3, <4>1, <4>2, <4>3 DEF LinkedTo
    <3>3. l \in DOMAIN got => got[l] \notin At(e, R, m, l)
      BY <1>8, <1>11, <3>1
    <3>4. CASE f \in At(e, R, m, k) /\ d[f][i] = e[f][i] /\ d[f][i] \in At(e, R, m, l)
      <4>1. g \in At(e, R, m, k) /\ d[g][j] = e[g][j]
        BY <2>1, <2>3, <3>2, <3>3, <3>4
      <4>2. e[f][i] # None /\ e[f][i] = e[g][j]
        BY <2>1, <3>4, <4>1
      <4>3. OneLink(e, R)
        BY DEF Owned
      <4> QED
        BY <3>4, <4>1, <4>2, <4>3 DEF OneLink
    <3>5. CASE l \in DOMAIN got /\ d[f][i] = got[l] /\ f = Above(e, r, v, got, l) /\ i = VAddrIndex(v, k)
      BY <2>1, <2>3, <3>2, <3>3, <3>5
    <3> QED
      BY <2>1, <2>3, <3>2, <3>4, <3>5
  <2> QED
    BY <2>2, <2>3
<1> QED
  BY <1>12, <1>13, <1>14, <1>15 DEF Owned

--------------------------------------------------------------------------------
(* Addresses.                                                                    *)

LEMMA DivMod ==
  ASSUME NEW D \in Nat \ {0}, NEW x \in Nat
  PROVE  x \div D \in Nat /\ x % D \in 0 .. D - 1 /\ x = (x \div D) * D + (x % D)
<1>1. x \div D \in Nat
  BY SMTT(30)
<1>2. x = D * (x \div D) + (x % D) /\ x % D \in 0 .. D - 1 /\ x \div D \in Int
  BY SMTT(60)
<1> DEFINE q == x \div D
           r == x % D
<1>3. q \in Nat /\ r \in 0 .. D - 1 /\ x = D * q + r
  BY <1>1, <1>2
<1> HIDE DEF q, r
<1>4. q \in Nat /\ r \in 0 .. D - 1 /\ x = q * D + r
  BY <1>3
<1> QED
  BY Zenon, <1>4 DEF q, r

LEMMA Quotient ==
  ASSUME NEW D \in Nat \ {0}, NEW q \in Nat, NEW r \in 0 .. D - 1
  PROVE  q * D + r \in Nat /\ (q * D + r) \div D = q /\ (q * D + r) % D = r
BY SMTT(30)

LEMMA Products ==
  ASSUME NEW D \in Nat \ {0}, NEW F \in Nat \ {0}, NEW w \in Nat, NEW r \in 0 .. F - 1, NEW t \in 0 .. D - 1
  PROVE  /\ F * D \in Nat \ {0} /\ r * D + t \in 0 .. F * D - 1
         /\ (w * F + r) * D + t = w * (F * D) + (r * D + t)
<1>1. (w * F + r) * D + t = w * (F * D) + (r * D + t)
  BY SMTT(30)
<1>2. r * D \in Nat /\ F * D \in Nat \ {0}
  BY SMTT(30)
<1>3. r * D <= (F - 1) * D
  BY SMTT(30)
<1>4. (F - 1) * D = F * D - D
  BY SMTT(30)
<1> DEFINE a == r * D
           b == F * D
           c == (F - 1) * D
<1>5. a \in Nat /\ b \in Nat \ {0} /\ a <= c /\ c = b - D
  BY <1>2, <1>3, <1>4
<1> HIDE DEF a, b, c
<1>6. b \in Nat \ {0} /\ a + t \in 0 .. b - 1
  BY <1>5
<1> QED
  BY <1>1, <1>6 DEF a, b

\* Dividing by D and then by F is dividing by F * D.
LEMMA Shifts ==
  ASSUME NEW D \in Nat \ {0}, NEW F \in Nat \ {0}, NEW x \in Nat
  PROVE  (x \div D) \div F = x \div (F * D)
<1> DEFINE u == x \div D
           t == x % D
           w == u \div F
           r == u % F
           FD == F * D
           s == r * D + t
<1>1. u \in Nat /\ t \in 0 .. D - 1 /\ x = u * D + t
  BY DivMod
<1>2. w \in Nat /\ r \in 0 .. F - 1 /\ u = w * F + r
  <2> HIDE DEF u
  <2> QED
    BY <1>1, DivMod
<1> HIDE DEF u, t, w, r
<1>3. FD \in Nat \ {0} /\ s \in 0 .. FD - 1 /\ (w * F + r) * D + t = w * FD + s
  BY <1>1, <1>2, Products
<1>4. x = (w * F + r) * D + t
  BY <1>1, <1>2, Zenon
<1> HIDE DEF FD, s
<1>5. (w * FD + s) \div FD = w
  BY <1>2, <1>3, Quotient
<1>6. x \div FD = w
  BY <1>3, <1>4, <1>5, Zenon
<1> QED
  BY <1>6 DEF u, w, FD

\* Two addresses with the same index at every level are the same.
LEMMA SameIndices ==
  ASSUME NEW v \in VPages, NEW w \in VPages,
         \A l \in 1 .. Levels : VAddrIndex(v, l) = VAddrIndex(w, l)
  PROVE  v = w
<1> DEFINE D(l) == Fanout^(l - 1)
           S == {l \in 1 .. Levels : v \div D(l) = w \div D(l)}
<1>1. Fanout \in Nat \ {0} /\ v \in Nat /\ w \in Nat
  BY PageMapAssumption
<1>2. \A l \in 1 .. Levels : D(l) \in Nat \ {0}
  <2>1. \A l \in 1 .. Levels : l - 1 \in 0 .. Levels - 1
    BY LevelsAre
  <2> QED
    BY <2>1, PageMapAssumption
<1>3. \A l \in 1 .. Levels - 1 : D(l + 1) = Fanout * D(l)
  <2>1. ASSUME NEW l \in 1 .. Levels - 1 PROVE D(l + 1) = Fanout * D(l)
    <3> DEFINE k == l - 1
    <3>1. k \in 0 .. Levels - 1 /\ k + 1 = (l + 1) - 1
      BY LevelsAre
    <3> HIDE DEF k
    <3>2. Fanout^(k + 1) = Fanout * Fanout^k
      BY <3>1, PageMapAssumption
    <3> QED
      BY <3>1, <3>2 DEF k
  <2> QED
    BY <2>1
<1>4. D(1) = 1
  BY PageMapAssumption
<1>5. v < Fanout * D(Levels) /\ w < Fanout * D(Levels)
  <2> DEFINE k == Levels - 1
  <2>1. k \in 0 .. Levels - 1 /\ k + 1 = Levels
    BY LevelsAre
  <2> HIDE DEF k
  <2>2. Fanout^(k + 1) = Fanout * Fanout^k
    BY <2>1, PageMapAssumption
  <2>3. Fanout^Levels = Fanout * D(Levels)
    BY <2>1, <2>2 DEF k
  <2>4. Fanout^Levels \in Int
    <3>1. D(Levels) \in Nat
      BY <1>2, LevelsAre
    <3> HIDE DEF D
    <3>2. Fanout * D(Levels) \in Int
      BY <1>1, <3>1
    <3> QED
      BY <2>3, <3>2
  <2>5. v < Fanout^Levels /\ w < Fanout^Levels
    <3> DEFINE X == Fanout^Levels
    <3>1. v \in 0 .. X - 1 /\ w \in 0 .. X - 1 /\ X \in Int
      BY <2>4, PageMapAssumption
    <3> HIDE DEF X
    <3>2. v < X /\ w < X
      BY <3>1
    <3> QED
      BY <3>2 DEF X
  <2> QED
    BY <2>3, <2>5
<1>6. \A l \in 1 .. Levels : (v \div D(l)) % Fanout = (w \div D(l)) % Fanout
  BY DEF VAddrIndex
<1> HIDE DEF D
<1>7. ASSUME NEW x \in Nat, x < Fanout * D(Levels)
      PROVE  x \div D(Levels) = (x \div D(Levels)) % Fanout
  <2> DEFINE E == D(Levels)
             q == x \div E
  <2>1. E \in Nat \ {0}
    BY <1>2, LevelsAre
  <2> HIDE DEF E
  <2>2. q \in Nat /\ x % E \in 0 .. E - 1 /\ x = q * E + (x % E)
    BY <2>1, DivMod
  <2>3. x < Fanout * E
    BY <1>7 DEF E
  <2> HIDE DEF q
  <2>4. q < Fanout
    <3>1. q * E <= x
      <4> DEFINE y == x % E
                 z == q * E
      <4>1. y \in Nat /\ x = z + y /\ z \in Int
        BY <2>1, <2>2
      <4> HIDE DEF y, z
      <4>2. z <= x
        BY <4>1
      <4> QED
        BY <4>2 DEF z
    <3>2. q >= Fanout => q * E >= Fanout * E
      BY <1>1, <2>1, <2>2, SMTT(30)
    <3>3. q * E \in Int /\ Fanout * E \in Int
      BY <1>1, <2>1, <2>2
    <3> QED
      BY <1>1, <2>2, <2>3, <3>1, <3>2, <3>3
  <2>5. q % Fanout = q
    BY <1>1, <2>2, <2>4
  <2> QED
    BY <2>5 DEF q, E
<1>8. Levels \in S
  <2>1. v \div D(Levels) = w \div D(Levels)
    BY <1>1, <1>5, <1>6, <1>7, LevelsAre
  <2> QED
    BY <2>1, LevelsAre
<1>9. ASSUME NEW l \in 1 .. Levels - 1, l + 1 \in S PROVE l \in S
  <2> DEFINE a == v \div D(l)
             b == w \div D(l)
  <2>1. l \in 1 .. Levels /\ D(l) \in Nat \ {0} /\ D(l + 1) = Fanout * D(l)
    BY <1>2, <1>3, LevelsAre
  <2>2. a \in Nat /\ b \in Nat
    BY <1>1, <2>1, DivMod
  <2>3. a \div Fanout = v \div D(l + 1) /\ b \div Fanout = w \div D(l + 1)
    BY <1>1, <2>1, Shifts
  <2>4. a \div Fanout = b \div Fanout
    BY <1>9, <2>3
  <2>5. a % Fanout = b % Fanout
    BY <1>6, <2>1
  <2> HIDE DEF a, b
  <2>6. a = (a \div Fanout) * Fanout + (a % Fanout) /\ b = (b \div Fanout) * Fanout + (b % Fanout)
    BY <1>1, <2>2, DivMod
  <2>7. a = b
    BY <2>4, <2>5, <2>6, Zenon
  <2> QED
    BY <2>1, <2>7 DEF a, b
<1>10. 1 .. Levels \subseteq S
  <2> HIDE DEF S
  <2> QED
    BY <1>8, <1>9, Downward
<1>11. v \div 1 = w \div 1
  BY <1>4, <1>10, LevelsAre
<1>12. v \div 1 = v /\ w \div 1 = w
  BY <1>1
<1> QED
  BY <1>11, <1>12

\* Two pages of a map do not share their entry.
LEMMA EntriesApart ==
  ASSUME NEW e, NEW R, NEW u, Owned(e, R, u), NEW m \in Maps, NEW v \in VPages, NEW w \in VPages,
         Path(e, R[m], v)[1] # None, Path(e, R[m], w)[1] = Path(e, R[m], v)[1],
         VAddrIndex(w, 1) = VAddrIndex(v, 1)
  PROVE  w = v
<1> DEFINE r == R[m]
           P == Path(e, r, v)
           Q == Path(e, r, w)
           S == {l \in 1 .. Levels : P[l] = Q[l] /\ VAddrIndex(v, l) = VAddrIndex(w, l)}
<1>1. IsPath(P, e, r, v) /\ IsPath(Q, e, r, w)
  BY PathIs
<1>2. \A l \in 1 .. Levels : P[l] # None /\ Q[l] # None
  <2> HIDE DEF r
  <2>1. P[1] # None /\ Q[1] # None
    BY DEF r
  <2> QED
    BY <2>1, PathGoes
<1>3. \A l \in 1 .. Levels : P[l] \in At(e, R, m, l) /\ Q[l] \in At(e, R, m, l)
  <2>1. \A l \in 1 .. Levels : P[l] \in TablesBelow(e, r)[l] \union {None}
    <3> HIDE DEF r
    <3> QED
      BY PathInTree
  <2>2. \A l \in 1 .. Levels : Q[l] \in TablesBelow(e, r)[l] \union {None}
    <3> HIDE DEF r
    <3> QED
      BY PathInTree
  <2> QED
    BY <1>2, <2>1, <2>2 DEF At
<1>4. P[1] = Q[1]
  OBVIOUS
<1>5. OneLink(e, R)
  BY DEF Owned
<1> HIDE DEF r, P, Q
<1>6. 1 \in S
  BY <1>4, LevelsAre
<1>7. ASSUME NEW l \in 1 .. Levels - 1, l \in S PROVE l + 1 \in S
  <2> DEFINE i == VAddrIndex(v, l + 1)
             j == VAddrIndex(w, l + 1)
  <2>1. l \in 1 .. Levels /\ l + 1 \in 1 .. Levels /\ l + 1 \in 2 .. Levels
    BY LevelsAre
  <2>2. P[l] = e[P[l + 1]][i] /\ Q[l] = e[Q[l + 1]][j]
    BY <1>1, <1>2, <2>1 DEF IsPath
  <2>3. i \in Slots /\ j \in Slots
    BY <2>1, IndexInSlots
  <2> HIDE DEF i, j
  <2>4. e[P[l + 1]][i] # None /\ e[P[l + 1]][i] = e[Q[l + 1]][j]
    BY <1>2, <1>7, <2>1, <2>2
  <2>5. P[l + 1] = Q[l + 1] /\ i = j
    BY <1>3, <1>5, <2>1, <2>3, <2>4 DEF OneLink
  <2> QED
    BY <2>1, <2>5 DEF i, j
<1>8. 1 .. Levels \subseteq S
  <2> HIDE DEF S
  <2> QED
    BY <1>6, <1>7, Upward
<1>9. \A l \in 1 .. Levels : VAddrIndex(v, l) = VAddrIndex(w, l)
  BY <1>8
<1> QED
  BY <1>9, SameIndices

--------------------------------------------------------------------------------
(* Changes of the entries of level 1.                                            *)

\* The entry for v in d is p, and d is otherwise e. Nothing is if v has no table.
EntrySet(d, e, r, v, p) ==
  d = IF Path(e, r, v)[1] = None THEN e
      ELSE [e EXCEPT ![Path(e, r, v)[1]] = [@ EXCEPT ![VAddrIndex(v, 1)] = p]]

EntryKept(d, e, R, u, m, v, p) ==
  /\ d \in Mems
  /\ Owned(d, R, u)
  /\ OthersSame(d, e, R, m)
  /\ \A l \in 1 .. Levels : At(d, R, m, l) = At(e, R, m, l)
  /\ \A w \in VPages : \A l \in 1 .. Levels : Path(d, R[m], w)[l] = Path(e, R[m], w)[l]
  /\ \A w \in VPages : w # v => Find(d, R[m], w) = Find(e, R[m], w)
  /\ Find(d, R[m], v) = IF Path(e, R[m], v)[1] = None THEN None ELSE p
  /\ \A f \in Frames : f \notin u => d[f] = e[f]

LEMMA EntryWritten ==
  ASSUME NEW e \in Mems, NEW R, NEW u \in SUBSET Frames, Owned(e, R, u), NEW m \in Maps,
         NEW v \in VPages, NEW p \in Entry, NEW d, EntrySet(d, e, R[m], v, p)
  PROVE  EntryKept(d, e, R, u, m, v, p)
<1> DEFINE r == R[m]
           t == Path(e, r, v)[1]
           i == VAddrIndex(v, 1)
<1>1. i \in Slots
  BY IndexInSlots, LevelsAre
<1>2. t # None => t \in At(e, R, m, 1) /\ t \in Frames
  <2>1. t \in TablesBelow(e, r)[1] \union {None}
    <3> HIDE DEF r
    <3> QED
      BY PathInTree, LevelsAre
  <2>2. At(e, R, m, 1) \subseteq u
    BY LevelsAre DEF Owned
  <2> QED
    BY <2>1, <2>2 DEF At
<1>3. d = IF t = None THEN e ELSE [e EXCEPT ![t] = [@ EXCEPT ![i] = p]]
  BY DEF EntrySet
<1>4. ASSUME NEW w \in VPages, Path(e, r, w)[1] = t, t # None, VAddrIndex(w, 1) = i
      PROVE  w = v
  BY <1>4, EntriesApart
<1> HIDE DEF i, t
<1>5. /\ \A f \in Frames : f # t => d[f] = e[f]
      /\ t # None => \A x \in Slots : d[t][x] = IF x = i THEN p ELSE e[t][x]
      /\ d \in Mems
  <2>1. CASE t = None
    BY <1>3, <2>1
  <2>2. CASE t # None
    <3>1. d = [e EXCEPT ![t] = [@ EXCEPT ![i] = p]] /\ t \in Frames
      BY <1>2, <1>3, <2>2
    <3> QED
      BY <1>1, <3>1, <2>2 DEF Mems
  <2> QED
    BY <2>1, <2>2
<1>6. \A n \in Maps, l \in 1 .. Levels : \A f \in At(e, R, n, l) : n # m \/ l # 1 => f # t /\ f \in Frames
  BY <1>2, LevelsAre, PageMapAssumption DEF Owned, Apart
<1>7. OthersSame(d, e, R, m)
  BY <1>5, <1>6 DEF OthersSame
<1>8. \A n \in Maps, l \in 2 .. Levels : \A f \in At(e, R, n, l) : d[f] = e[f]
  BY <1>5, <1>6, LevelsAre
<1>9. Owned(d, R, u) /\ \A l \in 1 .. Levels : At(d, R, m, l) = At(e, R, m, l)
  BY <1>8, OwnedSame
<1>10. \A f \in Frames : f \notin u => d[f] = e[f]
  <2>1. t # None => t \in u
    BY <1>2, LevelsAre DEF Owned
  <2> QED
    BY <1>5, <2>1, PageMapAssumption
<1> HIDE DEF r
<1>11. \A w \in VPages : \A l \in 1 .. Levels : Path(d, r, w)[l] = Path(e, r, w)[l]
  <2>1. \A l \in 2 .. Levels : \A f \in TablesBelow(e, r)[l] : d[f] = e[f]
    BY <1>8 DEF At, r
  <2> QED
    BY <2>1, PathSame
<1>12. \A w \in VPages : Path(e, r, w)[1] \in Frames \union {None}
  <2>1. \A w \in VPages : Path(e, r, w)[1] \in TablesBelow(e, r)[1] \union {None}
    BY PathInTree, LevelsAre
  <2>2. At(e, R, m, 1) \subseteq u
    BY LevelsAre DEF Owned
  <2> QED
    BY <2>1, <2>2 DEF At, r
<1>13. ASSUME NEW w \in VPages, w # v PROVE Find(d, r, w) = Find(e, r, w)
  <2> DEFINE q == Path(e, r, w)[1]
             j == VAddrIndex(w, 1)
  <2>1. Path(d, r, w)[1] = q /\ q \in Frames \union {None} /\ j \in Slots
    BY <1>11, <1>12, IndexInSlots, LevelsAre
  <2>2. q # None => d[q][j] = e[q][j]
    <3>1. q = t /\ q # None => j # i
      BY <1>4, <1>13
    <3> HIDE DEF q, j
    <3> QED
      BY <1>5, <2>1, <3>1
  <2> HIDE DEF q, j
  <2>3. Find(d, r, w) = (IF Path(d, r, w)[1] = None THEN None ELSE d[Path(d, r, w)[1]][j])
        /\ Find(e, r, w) = (IF q = None THEN None ELSE e[q][j])
    BY DEF Find, q, j
  <2> QED
    BY <2>1, <2>2, <2>3
<1>14. Find(d, r, v) = IF t = None THEN None ELSE p
  <2>1. Path(d, r, v)[1] = t
    BY <1>11, LevelsAre DEF t
  <2>2. Find(d, r, v) = IF Path(d, r, v)[1] = None THEN None ELSE d[Path(d, r, v)[1]][i]
    BY DEF Find, i
  <2> QED
    BY <1>1, <1>5, <2>1, <2>2
<1> QED
  BY <1>5, <1>7, <1>9, <1>10, <1>11, <1>13, <1>14 DEF EntryKept, r, t

\* What a call that maps v to p, or begins to, makes of the entries e.
MapKept(d, e, R, u, m, v, p) ==
  /\ d \in Mems /\ u \in SUBSET Frames /\ Owned(d, R, u)
  /\ \A n \in Maps, w \in VPages : n # m \/ w # v => Find(d, R[n], w) = Find(e, R[n], w)
  /\ Find(d, R[m], v) \in {p, Find(e, R[m], v)}

\* The entries that are written to are those the memory has.
SameWays(e, m) ==
  /\ \A w \in VPages : \A l \in 1 .. Levels : Path(e, root[m], w)[l] = Path(mem, root[m], w)[l]
  /\ \A f \in Frames : f \notin used => e[f] = mem[f]

\* The tables CreatePage makes are the highest that are missing.
LEMMA CreatedFromTop ==
  ASSUME NEW m \in Maps, NEW v \in VPages, NEW l \in Created(m, v), l + 1 \in Missing(m, v)
  PROVE  l + 1 \in Created(m, v)
<1> DEFINE M == Missing(m, v)
           K(j) == {k \in M : k >= j}
           F == Free
<1>1. IsFiniteSet(M)
  <2>1. IsFiniteSet(1 .. Levels - 1)
    BY LevelsAre, FS_Interval
  <2>2. M \subseteq 1 .. Levels - 1
    BY DEF Missing
  <2> QED
    BY <2>1, <2>2, FS_Subset
<1>2. M \subseteq Nat
  BY LevelsAre DEF Missing
<1>3. IsFiniteSet(F)
  BY PageMapAssumption, FS_Subset DEF Free
<1>4. l \in M /\ Cardinality(K(l)) <= Cardinality(F)
  BY DEF Created
<1> HIDE DEF M, F
<1>5. K(l) \subseteq M /\ K(l + 1) \subseteq K(l)
  <2>1. K(l) \subseteq M
    OBVIOUS
  <2>2. ASSUME NEW k \in M, k >= l + 1 PROVE k >= l
    BY <1>2, <1>4, <2>2
  <2> QED
    BY <2>1, <2>2
<1>6. IsFiniteSet(K(l))
  BY <1>1, <1>5, FS_Subset
<1> HIDE DEF K
<1>7. Cardinality(K(l + 1)) <= Cardinality(K(l)) /\ IsFiniteSet(K(l + 1))
  BY <1>5, <1>6, FS_Subset
<1>8. Cardinality(K(l + 1)) \in Nat /\ Cardinality(K(l)) \in Nat /\ Cardinality(F) \in Nat
  BY <1>3, <1>6, <1>7, FS_CardinalityType
<1>9. Cardinality(K(l + 1)) <= Cardinality(F)
  BY <1>4, <1>7, <1>8
<1> QED
  BY <1>9 DEF Created, K, M, F

LEMMA CreatedAreNew ==
  ASSUME NEW e, NEW m \in Maps, NEW v \in VPages, SameWays(e, m),
         NEW got \in Injections(Created(m, v), Free), \A l \in DOMAIN got : ~HasEntries(got[l])
  PROVE  NewTables(e, root[m], used, v, got)
<1> DEFINE r == root[m]
<1>1. /\ DOMAIN got = Created(m, v) /\ \A l \in DOMAIN got : got[l] \in Free
      /\ \A k, l \in DOMAIN got : got[k] = got[l] => k = l
  BY DEF Injections
<1>2. Created(m, v) \subseteq Missing(m, v) /\ Missing(m, v) \subseteq 1 .. Levels - 1
  BY DEF Created, Missing
<1>3. \A l \in 1 .. Levels - 1 : l \in Missing(m, v) <=> Path(e, r, v)[l] = None
  <2>1. \A l \in 1 .. Levels - 1 : l \in 1 .. Levels
    BY LevelsAre
  <2>2. \A l \in 1 .. Levels : Path(e, r, v)[l] = Path(mem, r, v)[l]
    BY DEF SameWays
  <2> QED
    BY <2>1, <2>2 DEF Missing
<1>4. ASSUME NEW l \in DOMAIN got
      PROVE  /\ Path(e, r, v)[l] = None
             /\ got[l] \in Frames \ used
             /\ \A i \in Slots : e[got[l]][i] = None
             /\ l + 1 < Levels /\ Path(e, r, v)[l + 1] = None => l + 1 \in DOMAIN got
  <2>1. Path(e, r, v)[l] = None
    BY <1>1, <1>2, <1>3
  <2>2. got[l] \in Frames \ used
    BY <1>1 DEF Free
  <2>3. \A i \in Slots : e[got[l]][i] = None
    BY <2>2 DEF SameWays, HasEntries
  <2>4. ASSUME l + 1 < Levels, Path(e, r, v)[l + 1] = None PROVE l + 1 \in DOMAIN got
    <3>1. l + 1 \in 1 .. Levels - 1
      BY <1>1, <1>2, <2>4, LevelsAre
    <3>2. l + 1 \in Missing(m, v)
      BY <1>3, <2>4, <3>1
    <3> QED
      BY <1>1, <3>2, CreatedFromTop
  <2> HIDE DEF r
  <2> QED
    BY <2>1, <2>2, <2>3, <2>4
<1> QED
  BY <1>1, <1>2, <1>4 DEF NewTables

LEMMA MapWrites ==
  ASSUME NEW e \in Mems, used \in SUBSET Frames, Owned(e, root, used), NEW m \in Maps,
         root[m] \in Frames, NEW v \in VPages, NEW p \in Entry, SameWays(e, m),
         NEW got \in Injections(Created(m, v), Free), \A l \in DOMAIN got : ~HasEntries(got[l])
  PROVE  MapKept(Mapped(e, m, v, got, p), e, root, used \union {got[l] : l \in DOMAIN got}, m, v, p)
<1> DEFINE r == root[m]
           d == Linked(e, m, v, got)
           c == Mapped(e, m, v, got, p)
           u == used \union {got[l] : l \in DOMAIN got}
<1>1. NewTables(e, r, used, v, got)
  BY CreatedAreNew
<1>2. Levelled(e, r, used)
  BY OwnedIsLevelled
<1>3. AboveIs(e, r, used, v, got)
  <2>1. r \in Frames
    OBVIOUS
  <2> HIDE DEF r
  <2> QED
    BY <1>1, <1>2, <2>1, AboveFacts
<1>4. d \in Mems /\ LinkedTo(d, e, r, v, got)
  BY <1>1, <1>3, LinkedWrites
<1>5. EntrySet(c, d, r, v, p)
  BY DEF Mapped, EntrySet
<1>6. u \in SUBSET Frames
  BY <1>1 DEF NewTables
<1> HIDE DEF d, c
<1>7. Owned(d, root, u)
  BY <1>1, <1>3, <1>4, OwnedLinked
<1>8. OthersSame(d, e, root, m)
  BY <1>1, <1>3, <1>4, LinkedOthers
<1>9. \A n \in Maps, w \in VPages : n # m => Find(d, root[n], w) = Find(e, root[n], w)
  BY <1>8, OtherMapsSame
<1>10. \A w \in VPages : Find(d, r, w) = Find(e, r, w)
  <2>1. r \in Frames
    OBVIOUS
  <2> HIDE DEF r
  <2> QED
    BY <1>1, <1>2, <1>3, <1>4, <2>1, FindLinked
<1> HIDE DEF u
<1>11. EntryKept(c, d, root, u, m, v, p)
  BY <1>4, <1>5, <1>6, <1>7, EntryWritten
<1>12. \A n \in Maps, w \in VPages : n # m => Find(c, root[n], w) = Find(d, root[n], w)
  <2>1. OthersSame(c, d, root, m)
    BY <1>11 DEF EntryKept
  <2> QED
    BY <2>1, OtherMapsSame
<1>13. \A w \in VPages : w # v => Find(c, r, w) = Find(d, r, w)
  BY <1>11 DEF EntryKept
<1>14. Find(c, r, v) \in {p, Find(d, r, v)}
  <2>1. Find(c, r, v) = IF Path(d, r, v)[1] = None THEN None ELSE p
    BY <1>11 DEF EntryKept
  <2>2. Path(d, r, v)[1] = None => Find(d, r, v) = None
    BY DEF Find
  <2> QED
    BY <2>1, <2>2
<1>15. c \in Mems /\ Owned(c, root, u)
  BY <1>11 DEF EntryKept
<1>16. \A n \in Maps, w \in VPages : n # m \/ w # v => Find(c, root[n], w) = Find(e, root[n], w)
  BY <1>9, <1>10, <1>12, <1>13
<1>17. Find(c, r, v) \in {p, Find(e, r, v)}
  BY <1>10, <1>14
<1> QED
  BY <1>6, <1>15, <1>16, <1>17 DEF MapKept, c, u

--------------------------------------------------------------------------------
(* Maps that come and go.                                                        *)

TablesIn(e, R, m) == UNION {At(e, R, m, l) : l \in 1 .. Levels}

LEMMA OwnedDestroyed ==
  ASSUME NEW e, NEW R \in [Maps -> Link], NEW u, Owned(e, R, u), NEW m \in Maps
  PROVE  Owned(e, [R EXCEPT ![m] = None], u \ TablesIn(e, R, m))
<1> DEFINE S == [R EXCEPT ![m] = None]
           w == u \ TablesIn(e, R, m)
<1>1. S[m] = None /\ \A n \in Maps : n # m => S[n] = R[n]
  OBVIOUS
<1> HIDE DEF S
<1>2. \A l \in 1 .. Levels : At(e, S, m, l) = {}
  BY <1>1, NoTree DEF At
<1>3. \A n \in Maps : n # m => \A l : At(e, S, n, l) = At(e, R, n, l)
  BY <1>1 DEF At
<1>4. \A f : f \in w <=> (f \in u /\ \A l \in 1 .. Levels : f \notin At(e, R, m, l))
  BY DEF TablesIn
<1> HIDE DEF w
<1>5. \A n \in Maps, l \in 1 .. Levels : At(e, S, n, l) \subseteq w
  BY <1>2, <1>3, <1>4 DEF Owned, Apart
<1>6. ASSUME NEW f \in w PROVE \E n \in Maps, l \in 1 .. Levels : f \in At(e, S, n, l)
  <2>1. PICK n \in Maps, l \in 1 .. Levels : f \in At(e, R, n, l)
    BY <1>4 DEF Owned
  <2>2. n # m
    BY <1>4, <2>1
  <2> QED
    BY <1>3, <2>1, <2>2
<1>7. Apart(e, S)
  <2>1. SUFFICES ASSUME NEW n \in Maps, NEW o \in Maps, NEW k \in 1 .. Levels, NEW l \in 1 .. Levels,
                        NEW f \in At(e, S, n, k), f \in At(e, S, o, l)
                 PROVE  n = o /\ k = l
    BY DEF Apart
  <2>2. f \in At(e, R, n, k) /\ f \in At(e, R, o, l)
    BY <1>2, <1>3, <2>1
  <2> QED
    BY <2>2 DEF Owned, Apart
<1>8. OneLink(e, S)
  <2>1. SUFFICES ASSUME NEW n \in Maps, NEW k \in 2 .. Levels,
                        NEW f \in At(e, S, n, k), NEW g \in At(e, S, n, k), NEW i \in Slots, NEW j \in Slots,
                        e[f][i] # None, e[f][i] = e[g][j]
                 PROVE  f = g /\ i = j
    BY DEF OneLink
  <2>2. k \in 1 .. Levels
    BY LevelsAre
  <2>3. f \in At(e, R, n, k) /\ g \in At(e, R, n, k)
    BY <1>2, <1>3, <2>1, <2>2
  <2>4. OneLink(e, R)
    BY DEF Owned
  <2> QED
    BY <2>1, <2>3, <2>4 DEF OneLink
<1> QED
  BY <1>5, <1>6, <1>7, <1>8 DEF Owned, S, w

\* An empty frame as a root.
LEMMA RootOnly ==
  ASSUME NEW e, NEW f \in Frames, \A i \in Slots : e[f][i] = None
  PROVE  /\ TablesBelow(e, f)[Levels] = {f}
         /\ \A l \in 1 .. Levels - 1 : TablesBelow(e, f)[l] = {}
         /\ \A v \in VPages : Find(e, f, v) = None
<1> DEFINE T == TablesBelow(e, f)
           U == [l \in 1 .. Levels |-> IF l = Levels THEN {f} ELSE {}]
<1>1. f # None
  BY PageMapAssumption
<1>2. U[Levels] = {f} /\ (\A l \in 1 .. Levels - 1 : U[l] = {}) /\ DOMAIN U = 1 .. Levels
  BY LevelsAre
<1> HIDE DEF U
<1>3. IsTree(U, e, f)
  <2>1. ASSUME NEW l \in 1 .. Levels - 1, NEW g \in U[l + 1], NEW i \in Slots PROVE e[g][i] = None
    <3>1. CASE l + 1 = Levels
      BY <1>2, <2>1, <3>1
    <3>2. CASE l + 1 # Levels
      <4>1. l + 1 \in 1 .. Levels - 1
        BY <3>2, LevelsAre
      <4> QED
        BY <1>2, <2>1, <4>1
    <3> QED
      BY <3>1, <3>2
  <2> QED
    BY <1>1, <1>2, <2>1 DEF IsTree
<1>4. \A l \in 1 .. Levels : T[l] = U[l]
  BY <1>3, TreeUnique
<1>5. ASSUME NEW v \in VPages PROVE Find(e, f, v) = None
  <2>1. Path(e, f, v)[1] \in T[1] \union {None}
    BY PathInTree, LevelsAre
  <2>2. T[1] = {}
    BY <1>2, <1>4, LevelsAre
  <2> QED
    BY <2>1, <2>2 DEF Find
<1> QED
  BY <1>2, <1>4, <1>5, LevelsAre

LEMMA OwnedCreated ==
  ASSUME NEW e, NEW R \in [Maps -> Link], NEW u, Owned(e, R, u), NEW m \in Maps, R[m] = None,
         NEW f \in Frames \ u, \A i \in Slots : e[f][i] = None
  PROVE  Owned(e, [R EXCEPT ![m] = f], u \union {f})
<1> DEFINE S == [R EXCEPT ![m] = f]
           w == u \union {f}
<1>1. S[m] = f /\ \A n \in Maps : n # m => S[n] = R[n]
  OBVIOUS
<1> HIDE DEF S
<1>2. At(e, S, m, Levels) = {f} /\ \A l \in 1 .. Levels - 1 : At(e, S, m, l) = {}
  BY <1>1, RootOnly DEF At
<1>3. \A n \in Maps : n # m => \A l : At(e, S, n, l) = At(e, R, n, l)
  BY <1>1 DEF At
<1>4. \A l \in 1 .. Levels : At(e, R, m, l) = {}
  BY NoTree DEF At
<1>5. \A n \in Maps, l \in 1 .. Levels : \A g :
        g \in At(e, S, n, l) <=> (g \in At(e, R, n, l) \/ (n = m /\ l = Levels /\ g = f))
  <2>1. \A l \in 1 .. Levels : l = Levels \/ l \in 1 .. Levels - 1
    BY LevelsAre
  <2> QED
    BY <1>2, <1>3, <1>4, <2>1
<1>6. \A n \in Maps, l \in 1 .. Levels : At(e, R, n, l) \subseteq u
  BY DEF Owned
<1>7. \A n \in Maps, l \in 1 .. Levels : At(e, S, n, l) \subseteq w
  BY <1>5, <1>6
<1>8. ASSUME NEW g \in w PROVE \E n \in Maps, l \in 1 .. Levels : g \in At(e, S, n, l)
  <2>1. CASE g = f
    BY <1>2, <2>1, LevelsAre
  <2>2. CASE g \in u
    BY <1>5, <2>2 DEF Owned
  <2> QED
    BY <2>1, <2>2
<1>9. Apart(e, S)
  <2>1. SUFFICES ASSUME NEW n \in Maps, NEW o \in Maps, NEW k \in 1 .. Levels, NEW l \in 1 .. Levels,
                        NEW g \in At(e, S, n, k), g \in At(e, S, o, l)
                 PROVE  n = o /\ k = l
    BY DEF Apart
  <2>2. CASE g = f
    BY <1>5, <1>6, <2>1, <2>2
  <2>3. CASE g # f
    <3>1. g \in At(e, R, n, k) /\ g \in At(e, R, o, l)
      BY <1>5, <2>1, <2>3
    <3> QED
      BY <3>1 DEF Owned, Apart
  <2> QED
    BY <2>2, <2>3
<1>10. OneLink(e, S)
  <2>1. SUFFICES ASSUME NEW n \in Maps, NEW k \in 2 .. Levels,
                        NEW g \in At(e, S, n, k), NEW h \in At(e, S, n, k), NEW i \in Slots, NEW j \in Slots,
                        e[g][i] # None, e[g][i] = e[h][j]
                 PROVE  g = h /\ i = j
    BY DEF OneLink
  <2>2. k \in 1 .. Levels
    BY LevelsAre
  <2>3. g # f /\ h # f
    BY <2>1
  <2>4. g \in At(e, R, n, k) /\ h \in At(e, R, n, k)
    BY <1>5, <2>1, <2>2, <2>3
  <2>5. OneLink(e, R)
    BY DEF Owned
  <2> QED
    BY <2>1, <2>4, <2>5 DEF OneLink
<1> QED
  BY <1>7, <1>8, <1>9, <1>10 DEF Owned, S, w

\* d has the tables below r once more, in the frames of g.
CopyOf(d, e, r, g) ==
  /\ \A l \in 2 .. Levels : \A t \in TablesBelow(e, r)[l], i \in Slots :
       d[g[t]][i] = IF e[t][i] = None THEN None ELSE g[e[t][i]]
  /\ \A t \in TablesBelow(e, r)[1] : d[g[t]] = e[t]
  /\ \A f \in Frames : (\A t \in DOMAIN g : g[t] # f) => d[f] = e[f]

\* The frames of g are new, one for each table below r.
CopyFrames(e, r, u, g) ==
  /\ DOMAIN g = UNION {TablesBelow(e, r)[l] : l \in 1 .. Levels}
  /\ \A t \in DOMAIN g : g[t] \in Frames \ u
  /\ \A s, t \in DOMAIN g : g[s] = g[t] => s = t

LEMMA TreeCopied ==
  ASSUME NEW e, NEW r \in Frames, NEW u, NEW g, CopyFrames(e, r, u, g), NEW d, CopyOf(d, e, r, g)
  PROVE  /\ \A l \in 1 .. Levels : \A f :
              f \in TablesBelow(d, g[r])[l] <=> \E t \in TablesBelow(e, r)[l] : f = g[t]
         /\ \A v \in VPages : Find(d, g[r], v) = Find(e, r, v)
<1> DEFINE T == TablesBelow(e, r)
           U == [l \in 1 .. Levels |-> {g[t] : t \in T[l]}]
<1>1. IsTree(T, e, r)
  BY TreeIs
<1>2. r # None
  BY PageMapAssumption
<1>3. DOMAIN U = 1 .. Levels /\ \A l \in 1 .. Levels : \A f : f \in U[l] <=> \E t \in T[l] : f = g[t]
  OBVIOUS
<1>4. \A l \in 1 .. Levels : \A t \in T[l] : t \in DOMAIN g /\ g[t] # None
  BY PageMapAssumption DEF CopyFrames
<1>5. \A l \in 1 .. Levels - 1 : \A t \in T[l + 1], i \in Slots :
        d[g[t]][i] = IF e[t][i] = None THEN None ELSE g[e[t][i]]
  <2>1. \A l \in 1 .. Levels - 1 : l + 1 \in 2 .. Levels
    BY LevelsAre
  <2> QED
    BY <2>1 DEF CopyOf
<1>6. \A t \in T[1] : d[g[t]] = e[t]
  BY DEF CopyOf
<1> HIDE DEF U, T
<1>7. \A f : f \in T[Levels] <=> f = r
  BY <1>1, <1>2 DEF IsTree
<1>8. ASSUME NEW f PROVE f \in U[Levels] <=> (f = g[r] /\ f # None)
  BY <1>3, <1>4, <1>7, LevelsAre
<1>9. ASSUME NEW l \in 1 .. Levels - 1, NEW f
      PROVE  f \in U[l] <=> (f # None /\ \E h \in U[l + 1], i \in Slots : f = d[h][i])
  <2>1. l \in 1 .. Levels /\ l + 1 \in 1 .. Levels
    BY LevelsAre
  <2>2. CASE f \in U[l]
    <3>1. PICK t \in T[l] : f = g[t]
      BY <1>3, <2>1, <2>2
    <3>2. t # None /\ \E s \in T[l + 1], i \in Slots : t = e[s][i]
      BY <1>1, <3>1 DEF IsTree
    <3>3. PICK s \in T[l + 1], i \in Slots : t = e[s][i]
      BY <3>2
    <3>4. d[g[s]][i] = f /\ g[s] \in U[l + 1]
      BY <1>3, <1>5, <2>1, <3>1, <3>2, <3>3
    <3> QED
      BY <1>4, <2>1, <2>2, <3>1, <3>4
  <2>3. CASE f # None /\ \E h \in U[l + 1], i \in Slots : f = d[h][i]
    <3>1. PICK h \in U[l + 1], i \in Slots : f = d[h][i]
      BY <2>3
    <3>2. PICK s \in T[l + 1] : h = g[s]
      BY <1>3, <2>1, <3>1
    <3>3. e[s][i] # None /\ f = g[e[s][i]]
      BY <1>5, <2>3, <3>1, <3>2
    <3>4. e[s][i] \in T[l]
      BY <1>1, <3>2, <3>3 DEF IsTree
    <3> QED
      BY <1>3, <2>1, <2>3, <3>3, <3>4
  <2> QED
    BY <2>2, <2>3
<1>10. IsTree(U, d, g[r])
  BY <1>3, <1>8, <1>9 DEF IsTree
<1>11. \A l \in 1 .. Levels : TablesBelow(d, g[r])[l] = U[l]
  BY <1>10, TreeUnique
<1>12. ASSUME NEW v \in VPages PROVE Find(d, g[r], v) = Find(e, r, v)
  <2> DEFINE P == Path(e, r, v)
             Q == [l \in 1 .. Levels |-> IF P[l] = None THEN None ELSE g[P[l]]]
             x(l) == VAddrIndex(v, l)
  <2>1. IsPath(P, e, r, v)
    BY PathIs
  <2>2. \A l \in 1 .. Levels : P[l] \in T[l] \union {None}
    BY PathInTree DEF T
  <2>3. DOMAIN Q = 1 .. Levels /\ \A l \in 1 .. Levels : Q[l] = IF P[l] = None THEN None ELSE g[P[l]]
    OBVIOUS
  <2>4. \A l \in 1 .. Levels : x(l) \in Slots
    BY IndexInSlots
  <2>5. Find(e, r, v) = IF P[1] = None THEN None ELSE e[P[1]][x(1)]
    BY DEF Find
  <2>6. Find(d, g[r], v) = IF Path(d, g[r], v)[1] = None THEN None ELSE d[Path(d, g[r], v)[1]][x(1)]
    BY DEF Find
  <2> HIDE DEF P, Q
  <2>7. Q[Levels] = g[r]
    BY <1>2, <2>1, <2>3, LevelsAre DEF IsPath
  <2>8. ASSUME NEW l \in 1 .. Levels - 1
        PROVE  Q[l] = IF Q[l + 1] = None THEN None ELSE d[Q[l + 1]][x(l + 1)]
    <3>1. l \in 1 .. Levels /\ l + 1 \in 1 .. Levels
      BY LevelsAre
    <3>2. P[l] = IF P[l + 1] = None THEN None ELSE e[P[l + 1]][x(l + 1)]
      BY <2>1 DEF IsPath
    <3>3. x(l + 1) \in Slots
      BY <2>4, <3>1
    <3> HIDE DEF x
    <3>4. CASE P[l + 1] = None
      BY <2>3, <3>1, <3>2, <3>4
    <3>5. CASE P[l + 1] # None
      <4>1. P[l + 1] \in T[l + 1] /\ Q[l + 1] = g[P[l + 1]] /\ Q[l + 1] # None
        BY <1>4, <2>2, <2>3, <3>1, <3>5
      <4>2. d[Q[l + 1]][x(l + 1)] = IF P[l] = None THEN None ELSE g[P[l]]
        BY <1>5, <3>2, <3>3, <3>5, <4>1
      <4> QED
        BY <2>3, <3>1, <4>1, <4>2
    <3> QED
      BY <3>4, <3>5
  <2>9. IsPath(Q, d, g[r], v)
    BY <2>3, <2>7, <2>8 DEF IsPath
  <2>10. Path(d, g[r], v)[1] = Q[1]
    BY <2>9, PathUnique, LevelsAre
  <2> HIDE DEF x
  <2>11. CASE P[1] = None
    BY <2>3, <2>5, <2>6, <2>10, <2>11, LevelsAre
  <2>12. CASE P[1] # None
    <3>1. P[1] \in T[1] /\ Q[1] = g[P[1]] /\ Q[1] # None
      BY <1>4, <2>2, <2>3, <2>12, LevelsAre
    <3> QED
      BY <1>6, <2>5, <2>6, <2>10, <2>12, <3>1
  <2> QED
    BY <2>11, <2>12
<1> QED
  BY <1>3, <1>11, <1>12 DEF T

\* The tables with the copy of n in m: each has its owner, and the other maps stay.
CopyKept(d, e, R, u, m, n, g) ==
  /\ Owned(d, [R EXCEPT ![m] = g[R[n]]], u \union {g[t] : t \in DOMAIN g})
  /\ \A o \in Maps, w \in VPages : Find(d, R[o], w) = Find(e, R[o], w)

LEMMA OwnedCopied ==
  ASSUME NEW e \in Mems, NEW R \in [Maps -> Link], NEW u \in SUBSET Frames, Owned(e, R, u),
         NEW m \in Maps, R[m] = None, NEW n \in Maps, R[n] \in Frames,
         NEW g, CopyFrames(e, R[n], u, g), NEW d \in Mems, CopyOf(d, e, R[n], g)
  PROVE  CopyKept(d, e, R, u, m, n, g)
<1> DEFINE r == R[n]
           q == g[r]
           S == [R EXCEPT ![m] = q]
           x == u \union {g[t] : t \in DOMAIN g}
           T == TablesBelow(e, r)
<1>1. S[m] = q /\ \A o \in Maps : o # m => S[o] = R[o]
  OBVIOUS
<1> HIDE DEF S
<1>2. CopyFrames(e, r, u, g) /\ CopyOf(d, e, r, g) /\ r \in Frames
  OBVIOUS
<1>3. \A l : T[l] = At(e, R, n, l)
  BY DEF At
<1> HIDE DEF r
<1>4. \A l \in 1 .. Levels : \A f : f \in At(d, S, m, l) <=> \E t \in T[l] : f = g[t]
  BY <1>1, <1>2, TreeCopied DEF At
<1> HIDE DEF q
<1>5. \A f \in Frames : f \in u => d[f] = e[f]
  BY <1>2 DEF CopyOf, CopyFrames
<1>6. \A o \in Maps, l \in 1 .. Levels : At(e, R, o, l) \subseteq u
  BY DEF Owned
<1>7. \A o \in Maps, l \in 2 .. Levels : \A f \in At(e, R, o, l) : d[f] = e[f]
  BY <1>5, <1>6, LevelsAre
<1>8. Owned(d, R, u) /\ \A o \in Maps, l \in 1 .. Levels : At(d, R, o, l) = At(e, R, o, l)
  BY <1>7, OwnedSame
<1>9. \A o \in Maps : o # m => \A l \in 1 .. Levels : At(d, S, o, l) = At(e, R, o, l)
  BY <1>1, <1>8 DEF At
<1>10. /\ \A l \in 1 .. Levels : \A t \in T[l] : t \in DOMAIN g
       /\ \A t \in DOMAIN g : g[t] \in Frames /\ g[t] \notin u /\ \E l \in 1 .. Levels : t \in T[l]
       /\ \A s, t \in DOMAIN g : g[s] = g[t] => s = t
  BY <1>2 DEF CopyFrames
<1>11. \A f : f \in x <=> (f \in u \/ \E t \in DOMAIN g : f = g[t])
  OBVIOUS
<1>12. \A l \in 1 .. Levels : At(e, R, m, l) = {}
  BY NoTree DEF At
<1>13. Levelled(e, r, u)
  BY OwnedIsLevelled DEF r
<1>14. IsTree(T, e, r)
  BY TreeIs
<1> HIDE DEF T, x
<1>15. \A o \in Maps, l \in 1 .. Levels : At(d, S, o, l) \subseteq x
  BY <1>4, <1>6, <1>9, <1>10, <1>11
<1>16. ASSUME NEW f \in x PROVE \E o \in Maps, l \in 1 .. Levels : f \in At(d, S, o, l)
  <2>1. CASE f \in u
    <3>1. PICK o \in Maps, l \in 1 .. Levels : f \in At(e, R, o, l)
      BY <2>1 DEF Owned
    <3>2. o # m
      BY <1>12, <3>1
    <3> QED
      BY <1>9, <3>1, <3>2
  <2>2. CASE f \notin u
    <3>1. PICK t \in DOMAIN g : f = g[t]
      BY <1>11, <2>2
    <3>2. PICK l \in 1 .. Levels : t \in T[l]
      BY <1>10
    <3> QED
      BY <1>4, <3>1, <3>2
  <2> QED
    BY <2>1, <2>2
<1>17. \A o \in Maps, l \in 1 .. Levels : \A f \in At(d, S, o, l) :
         \/ o # m /\ f \in u /\ f \in At(e, R, o, l)
         \/ o = m /\ f \notin u /\ \E t \in T[l] : f = g[t]
  BY <1>4, <1>6, <1>9, <1>10
<1>18. Apart(d, S)
  <2>1. SUFFICES ASSUME NEW o \in Maps, NEW p \in Maps, NEW k \in 1 .. Levels, NEW l \in 1 .. Levels,
                        NEW f \in At(d, S, o, k), f \in At(d, S, p, l)
                 PROVE  o = p /\ k = l
    BY DEF Apart
  <2>2. CASE f \in u
    <3>1. f \in At(e, R, o, k) /\ f \in At(e, R, p, l)
      BY <1>17, <2>1, <2>2
    <3> QED
      BY <3>1 DEF Owned, Apart
  <2>3. CASE f \notin u
    <3>1. /\ o = m /\ p = m
          /\ \E t \in T[k] : f = g[t]
          /\ \E s \in T[l] : f = g[s]
      BY <1>17, <2>1, <2>3
    <3>2. PICK t \in T[k] : f = g[t]
      BY <3>1
    <3>3. PICK s \in T[l] : f = g[s]
      BY <3>1
    <3>4. s = t
      BY <1>10, <3>2, <3>3
    <3> QED
      BY <1>13, <3>1, <3>2, <3>3, <3>4 DEF Levelled, T
  <2> QED
    BY <2>2, <2>3
<1>19. OneLink(d, S)
  <2>1. SUFFICES ASSUME NEW o \in Maps, NEW k \in 2 .. Levels,
                        NEW f \in At(d, S, o, k), NEW h \in At(d, S, o, k), NEW i \in Slots, NEW j \in Slots,
                        d[f][i] # None, d[f][i] = d[h][j]
                 PROVE  f = h /\ i = j
    BY DEF OneLink
  <2>2. k \in 1 .. Levels /\ k - 1 \in 1 .. Levels - 1 /\ k - 1 \in 1 .. Levels /\ (k - 1) + 1 = k
    BY LevelsAre
  <2>3. OneLink(e, R)
    BY DEF Owned
  <2>4. CASE o # m
    <3>1. f \in At(e, R, o, k) /\ h \in At(e, R, o, k) /\ d[f] = e[f] /\ d[h] = e[h]
      BY <1>7, <1>17, <2>1, <2>2, <2>4
    <3> QED
      BY <2>1, <2>3, <3>1 DEF OneLink
  <2>5. CASE o = m
    <3>1. PICK s \in T[k] : f = g[s]
      BY <1>17, <2>1, <2>2, <2>5
    <3>2. PICK t \in T[k] : h = g[t]
      BY <1>17, <2>1, <2>2, <2>5
    <3>3. ASSUME NEW b \in T[k], NEW c \in Slots, d[g[b]][c] # None
          PROVE  e[b][c] # None /\ d[g[b]][c] = g[e[b][c]] /\ e[b][c] \in DOMAIN g
      <4>1. e[b][c] # None /\ d[g[b]][c] = g[e[b][c]]
        BY <1>2, <3>3 DEF CopyOf, T
      <4>2. e[b][c] \in T[k - 1]
        BY <1>14, <2>2, <4>1 DEF IsTree
      <4> QED
        BY <1>10, <2>2, <4>1, <4>2
    <3>4. e[s][i] # None /\ d[f][i] = g[e[s][i]] /\ e[s][i] \in DOMAIN g
      BY <2>1, <3>1, <3>3
    <3>5. d[h][j] = g[e[t][j]] /\ e[t][j] \in DOMAIN g
      BY <2>1, <3>2, <3>3
    <3>6. e[s][i] = e[t][j]
      BY <1>10, <2>1, <3>4, <3>5
    <3>7. s \in At(e, R, n, k) /\ t \in At(e, R, n, k)
      BY <1>3, <3>1, <3>2
    <3>8. s = t /\ i = j
      BY <2>3, <3>4, <3>6, <3>7 DEF OneLink
    <3> QED
      BY <3>1, <3>2, <3>8
  <2> QED
    BY <2>4, <2>5
<1>20. ASSUME NEW o \in Maps, NEW w \in VPages PROVE Find(d, R[o], w) = Find(e, R[o], w)
  <2> DEFINE a == R[o]
  <2>1. \A l \in 1 .. Levels : \A f \in TablesBelow(e, a)[l] : d[f] = e[f]
    BY <1>5, <1>6 DEF At
  <2> HIDE DEF a
  <2>2. \A l \in 2 .. Levels : \A f \in TablesBelow(e, a)[l] : d[f] = e[f]
    BY <2>1, LevelsAre
  <2>3. Path(d, a, w)[1] = Path(e, a, w)[1]
    BY <2>2, PathSame, LevelsAre
  <2>4. Path(e, a, w)[1] \in TablesBelow(e, a)[1] \union {None}
    BY PathInTree, LevelsAre
  <2> QED
    BY <2>1, <2>3, <2>4, LevelsAre DEF Find, a
<1> QED
  BY <1>15, <1>16, <1>18, <1>19, <1>20 DEF CopyKept, Owned, S, x, q, r

--------------------------------------------------------------------------------
(* The invariant, and what is seen through the processor's walk.                 *)

Runs == [op : {"map", "unmap", "remap"}, m : Maps, at : Int, bound : Int, offset : Int]

\* The pages a range call has before it.
Running ==
  run # None =>
    /\ run \in Runs /\ root[run.m] # None /\ run.at < run.bound
    /\ \A a \in run.at .. run.bound - 1 : /\ a \in VPages
                                          /\ run.op # "unmap" => a + run.offset \in VPages
                                          /\ run.op = "map" => a \in PPages

Typed ==
  /\ root \in [Maps -> Link] /\ mem \in Mems /\ used \in SUBSET Frames
  /\ pc \in {"ok", "fault", "stale"}

IInv == Typed /\ Running /\ Owned(mem, root, used)

SpaceOf(e, R) ==
  [m \in Maps |-> IF R[m] = None THEN None ELSE [v \in VPages |-> Find(e, R[m], v)]]

Space == SpaceOf(mem, root)

\* The page v of the map m is p.
Changed(S, m, v, p) == [S EXCEPT ![m] = [@ EXCEPT ![v] = p]]

LEMMA SpaceIsTranslate ==
  Space = [m \in Maps |-> IF root[m] = None THEN None ELSE [v \in VPages |-> Translate(m, v)]]
BY DEF Space, SpaceOf, Find, Translate, GetPage

LEMMA SpaceMapped ==
  ASSUME NEW d, NEW e, NEW R \in [Maps -> Link], NEW u, NEW m \in Maps, NEW v \in VPages, NEW p,
         R[m] # None, MapKept(d, e, R, u, m, v, p)
  PROVE  \/ SpaceOf(d, R) = SpaceOf(e, R)
         \/ SpaceOf(d, R) = Changed(SpaceOf(e, R), m, v, p)
<1> DEFINE S == SpaceOf(e, R)
           D == SpaceOf(d, R)
<1>1. \A n \in Maps, w \in VPages : n # m \/ w # v => Find(d, R[n], w) = Find(e, R[n], w)
  BY DEF MapKept
<1>2. CASE Find(d, R[m], v) = Find(e, R[m], v)
  <2>1. \A n \in Maps, w \in VPages : Find(d, R[n], w) = Find(e, R[n], w)
    BY <1>1, <1>2
  <2> QED
    BY <2>1 DEF SpaceOf
<1>3. CASE Find(d, R[m], v) = p
  <2> DEFINE q == [[w \in VPages |-> Find(e, R[m], w)] EXCEPT ![v] = p]
  <2>1. q = [w \in VPages |-> Find(d, R[m], w)]
    BY <1>1, <1>3
  <2>2. [S EXCEPT ![m] = [@ EXCEPT ![v] = p]] =
          [n \in Maps |-> IF n = m THEN q ELSE IF R[n] = None THEN None ELSE [w \in VPages |-> Find(e, R[n], w)]]
    BY DEF SpaceOf
  <2>3. \A n \in Maps : n # m => [w \in VPages |-> Find(e, R[n], w)] = [w \in VPages |-> Find(d, R[n], w)]
    BY <1>1
  <2>4. D = [n \in Maps |-> IF R[n] = None THEN None ELSE [w \in VPages |-> Find(d, R[n], w)]]
    BY DEF SpaceOf
  <2> HIDE DEF S, D, q
  <2>5. D = Changed(S, m, v, p)
    BY <2>1, <2>2, <2>3, <2>4 DEF Changed
  <2> QED
    BY <2>5 DEF D, S
<1> QED
  BY <1>2, <1>3 DEF MapKept

LEMMA SpaceUnmapped ==
  ASSUME NEW d, NEW e, NEW R \in [Maps -> Link], NEW u, NEW m \in Maps, NEW v \in VPages,
         R[m] # None, EntryKept(d, e, R, u, m, v, None)
  PROVE  SpaceOf(d, R) = Changed(SpaceOf(e, R), m, v, None)
<1> DEFINE S == SpaceOf(e, R)
           D == SpaceOf(d, R)
           q == [[w \in VPages |-> Find(e, R[m], w)] EXCEPT ![v] = None]
<1>1. \A n \in Maps, w \in VPages : n # m => Find(d, R[n], w) = Find(e, R[n], w)
  <2>1. OthersSame(d, e, R, m)
    BY DEF EntryKept
  <2> QED
    BY <2>1, OtherMapsSame
<1>2. q = [w \in VPages |-> Find(d, R[m], w)]
  BY DEF EntryKept
<1>3. [S EXCEPT ![m] = [@ EXCEPT ![v] = None]] =
        [n \in Maps |-> IF n = m THEN q ELSE IF R[n] = None THEN None ELSE [w \in VPages |-> Find(e, R[n], w)]]
  BY DEF SpaceOf
<1>4. \A n \in Maps : n # m => [w \in VPages |-> Find(e, R[n], w)] = [w \in VPages |-> Find(d, R[n], w)]
  BY <1>1
<1>5. D = [n \in Maps |-> IF R[n] = None THEN None ELSE [w \in VPages |-> Find(d, R[n], w)]]
  BY DEF SpaceOf
<1> HIDE DEF S, D, q
<1>6. D = Changed(S, m, v, None)
  BY <1>2, <1>3, <1>4, <1>5 DEF Changed
<1> QED
  BY <1>6 DEF S, D

\* Unmapped clears the entry.
LEMMA UnmapWrites ==
  ASSUME IInv, NEW m \in Maps, root[m] # None, NEW v \in VPages
  PROVE  EntryKept(Unmapped(m, v), mem, root, used, m, v, None)
<1> DEFINE d == Unmapped(m, v)
<1>1. EntrySet(d, mem, root[m], v, None)
  BY DEF Unmapped, GetPage, EntrySet
<1>2. mem \in Mems /\ used \in SUBSET Frames /\ Owned(mem, root, used) /\ None \in Entry
  BY DEF IInv, Typed, Entry
<1> HIDE DEF d
<1>3. EntryKept(d, mem, root, used, m, v, None)
  BY <1>1, <1>2, EntryWritten
<1> QED
  BY <1>3 DEF d

LEMMA MapInKeeps ==
  ASSUME IInv, NEW e \in Mems, Owned(e, root, used), NEW m \in Maps, root[m] # None,
         NEW v \in VPages, NEW p \in Entry, SameWays(e, m), MapIn(e, m, v, p)
  PROVE  /\ root' = root /\ pc' \in {"ok", "fault", "stale"} \union {pc}
         /\ (mem' = mem /\ used' = used) \/ MapKept(mem', e, root, used', m, v, p)
<1>1. PICK got \in Injections(Created(m, v), Free) :
        IF \E l \in DOMAIN got : HasEntries(got[l]) THEN Ends("stale")
        ELSE /\ mem' = Mapped(e, m, v, got, p)
             /\ used' = used \union {got[l] : l \in DOMAIN got}
             /\ UNCHANGED <<root, pc>>
  BY DEF MapIn
<1>2. CASE \E l \in DOMAIN got : HasEntries(got[l])
  BY <1>1, <1>2 DEF Ends
<1>3. CASE ~\E l \in DOMAIN got : HasEntries(got[l])
  <2>1. root[m] \in Frames /\ used \in SUBSET Frames
    BY DEF IInv, Typed, Link
  <2>2. MapKept(Mapped(e, m, v, got, p), e, root, used \union {got[l] : l \in DOMAIN got}, m, v, p)
    BY <1>3, <2>1, MapWrites
  <2> QED
    BY <1>1, <1>3, <2>2
<1> QED
  BY <1>2, <1>3

LEMMA KeptTables ==
  ASSUME IInv, NEW e, NEW m \in Maps, NEW v \in VPages, NEW p, MapKept(mem', e, root, used', m, v, p),
         root' = root, pc' \in {"ok", "fault", "stale"}
  PROVE  Typed' /\ Owned(mem', root', used')
BY DEF IInv, Typed, MapKept

\* Map on mem as it is.
LEMMA MapStep ==
  ASSUME IInv, NEW m \in Maps, root[m] # None, NEW v \in VPages, NEW p \in PPages, MapIn(mem, m, v, p)
  PROVE  /\ Typed' /\ Owned(mem, root, used)' /\ root' = root
         /\ Space' = Space \/ Space' = Changed(Space, m, v, p)
<1>1. mem \in Mems /\ Owned(mem, root, used) /\ p \in Entry /\ root \in [Maps -> Link]
  BY DEF IInv, Typed, Entry
<1>2. SameWays(mem, m)
  BY DEF SameWays
<1>3. /\ root' = root /\ pc' \in {"ok", "fault", "stale"} \union {pc}
      /\ (mem' = mem /\ used' = used) \/ MapKept(mem', mem, root, used', m, v, p)
  BY <1>1, <1>2, MapInKeeps
<1>4. pc' \in {"ok", "fault", "stale"}
  BY <1>3 DEF IInv, Typed
<1>5. CASE mem' = mem /\ used' = used
  BY <1>3, <1>4, <1>5 DEF IInv, Typed, Space
<1>6. CASE MapKept(mem', mem, root, used', m, v, p)
  <2>1. Typed' /\ Owned(mem', root', used')
    BY <1>3, <1>4, <1>6, KeptTables
  <2>2. \/ SpaceOf(mem', root) = SpaceOf(mem, root)
        \/ SpaceOf(mem', root) = Changed(SpaceOf(mem, root), m, v, p)
    BY <1>1, <1>6, SpaceMapped
  <2>3. Space' = SpaceOf(mem', root)
    BY <1>3 DEF Space
  <2> QED
    BY <1>3, <2>1, <2>2, <2>3 DEF Space
<1> QED
  BY <1>3, <1>5, <1>6

LEMMA UnmapStep ==
  ASSUME IInv, NEW m \in Maps, root[m] # None, NEW v \in VPages, UnmapIn(m, v)
  PROVE  /\ Typed' /\ Owned(mem, root, used)' /\ root' = root
         /\ Space' = Changed(Space, m, v, None)
<1>1. EntryKept(mem', mem, root, used, m, v, None)
  BY UnmapWrites DEF UnmapIn
<1>2. root' = root /\ used' = used /\ pc' = pc
  BY DEF UnmapIn
<1>3. Typed' /\ Owned(mem, root, used)'
  BY <1>1, <1>2 DEF IInv, Typed, EntryKept
<1>4. root \in [Maps -> Link]
  BY DEF IInv, Typed
<1>5. SpaceOf(mem', root) = Changed(SpaceOf(mem, root), m, v, None)
  BY <1>1, <1>4, SpaceUnmapped
<1> QED
  BY <1>2, <1>3, <1>5 DEF Space

\* What was found at v, or the physical page zero.
Arrives(m, v) == IF Space[m][v] = None THEN 0 ELSE Space[m][v]

Moved(m, v, w) == [Space EXCEPT ![m] = [[@ EXCEPT ![v] = None] EXCEPT ![w] = Arrives(m, v)]]

LEMMA RemapStep ==
  ASSUME IInv, NEW m \in Maps, root[m] # None, NEW v \in VPages, NEW w \in VPages,
         MapIn(Unmapped(m, v), m, w, VAddrToPAddr(m, v))
  PROVE  /\ Typed' /\ Owned(mem, root, used)' /\ root' = root
         /\ \/ Space' = Space
            \/ Space' = Changed(Space, m, v, None)
            \/ Space' = Moved(m, v, w)
<1> DEFINE e == Unmapped(m, v)
           p == VAddrToPAddr(m, v)
           S == SpaceOf(e, root)
<1>1. mem \in Mems /\ root \in [Maps -> Link] /\ used \in SUBSET Frames /\ Owned(mem, root, used)
  BY DEF IInv, Typed
<1>2. EntryKept(e, mem, root, used, m, v, None)
  BY UnmapWrites
<1>3. Space[m][v] = Translate(m, v)
  BY SpaceIsTranslate
<1>4. Translate(m, v) \in Entry
  <2> DEFINE t == GetPage(m, v)
  <2>1. t \in TablesBelow(mem, root[m])[1] \union {None}
    BY PathInTree, LevelsAre DEF GetPage
  <2>2. t # None => t \in Frames
    BY <1>1, <2>1, LevelsAre DEF Owned, At
  <2>3. VAddrIndex(v, 1) \in Slots
    BY IndexInSlots, LevelsAre
  <2>4. Translate(m, v) = IF t = None THEN None ELSE mem[t][VAddrIndex(v, 1)]
    BY DEF Translate
  <2> HIDE DEF t
  <2> QED
    BY <1>1, <2>2, <2>3, <2>4 DEF Mems, Entry
<1>5. p = Arrives(m, v) /\ p \in Entry
  BY <1>3, <1>4, PageMapAssumption DEF VAddrToPAddr, Arrives, Entry
<1>6. MapIn(e, m, w, p)
  OBVIOUS
<1> HIDE DEF e, p
<1>7. e \in Mems /\ Owned(e, root, used) /\ SameWays(e, m)
  BY <1>2 DEF EntryKept, SameWays
<1>8. /\ root' = root /\ pc' \in {"ok", "fault", "stale"} \union {pc}
      /\ (mem' = mem /\ used' = used) \/ MapKept(mem', e, root, used', m, w, p)
  BY <1>5, <1>6, <1>7, MapInKeeps
<1>9. pc' \in {"ok", "fault", "stale"}
  BY <1>8 DEF IInv, Typed
<1>10. CASE mem' = mem /\ used' = used
  BY <1>8, <1>9, <1>10 DEF IInv, Typed, Space
<1>11. CASE MapKept(mem', e, root, used', m, w, p)
  <2>1. Typed' /\ Owned(mem', root', used')
    BY <1>8, <1>9, <1>11, KeptTables
  <2>2. S = Changed(Space, m, v, None)
    BY <1>1, <1>2, SpaceUnmapped DEF Space
  <2>3. SpaceOf(mem', root) = S \/ SpaceOf(mem', root) = Changed(S, m, w, p)
    BY <1>1, <1>11, SpaceMapped
  <2>4. Space' = SpaceOf(mem', root)
    BY <1>8 DEF Space
  <2> HIDE DEF S
  <2>5. DOMAIN Space = Maps
    BY DEF Space, SpaceOf
  <2>6. Changed(S, m, w, p) = Moved(m, v, w)
    BY <1>5, <2>2, <2>5 DEF Moved, Changed
  <2> QED
    BY <1>8, <2>1, <2>2, <2>3, <2>4, <2>6
<1> QED
  BY <1>8, <1>10, <1>11

\* An object has a root exactly if there is a map.
LEMMA SpaceRoots ==
  ASSUME IInv, NEW m \in Maps
  PROVE  Space[m] = None <=> root[m] = None
<1>1. ASSUME NEW v \in VPages PROVE Find(mem, root[m], v) \in Entry
  <2> DEFINE t == Path(mem, root[m], v)[1]
  <2>1. t \in TablesBelow(mem, root[m])[1] \union {None}
    BY PathInTree, LevelsAre
  <2>2. t # None => t \in Frames
    BY <2>1, LevelsAre DEF IInv, Typed, Owned, At
  <2>3. VAddrIndex(v, 1) \in Slots
    BY IndexInSlots, LevelsAre
  <2>4. Find(mem, root[m], v) = IF t = None THEN None ELSE mem[t][VAddrIndex(v, 1)]
    BY DEF Find
  <2>5. mem \in Mems
    BY DEF IInv, Typed
  <2> HIDE DEF t
  <2> QED
    BY <2>2, <2>3, <2>4, <2>5 DEF Mems, Entry
<1>2. [v \in VPages |-> Find(mem, root[m], v)] \in [VPages -> Entry]
  BY <1>1
<1>3. None \notin [VPages -> Entry]
  BY PageMapAssumption DEF Entry
<1>4. Space[m] = IF root[m] = None THEN None ELSE [v \in VPages |-> Find(mem, root[m], v)]
  BY DEF Space, SpaceOf
<1> DEFINE q == [v \in VPages |-> Find(mem, root[m], v)]
<1> HIDE DEF q
<1>5. q # None /\ Space[m] = IF root[m] = None THEN None ELSE q
  BY <1>2, <1>3, <1>4 DEF q
<1> QED
  BY <1>5

Opened(m) == [Space EXCEPT ![m] = [v \in VPages |-> None]]
Closed(m) == [Space EXCEPT ![m] = None]
Duplicated(m, n) == [Space EXCEPT ![m] = Space[n]]

\* What a step of the tables can be to the maps.
SpaceStep ==
  \/ Space' = Space
  \/ \E m \in Maps : Space[m] = None /\ Space' = Opened(m)
  \/ \E m \in Maps : Space[m] # None /\ Space' = Closed(m)
  \/ \E m \in Maps, v \in VPages : Space[m] # None /\ Space' = Changed(Space, m, v, None)
  \/ \E m \in Maps, v \in VPages, p \in PPages : Space[m] # None /\ Space' = Changed(Space, m, v, p)
  \/ \E m \in Maps, v \in VPages, w \in VPages : Space[m] # None /\ Space' = Moved(m, v, w)
  \/ \E m \in Maps, n \in Maps : m # n /\ Space[n] # None /\ Space' = Duplicated(m, n)

LEMMA GoesOn ==
  ASSUME IInv, run # None, NEW s, GoOn(s), root' = root
  PROVE  Running'
<1>1. /\ run \in Runs /\ root[run.m] # None
      /\ \A a \in run.at .. run.bound - 1 : /\ a \in VPages
                                            /\ run.op # "unmap" => a + run.offset \in VPages
                                            /\ run.op = "map" => a \in PPages
  BY DEF IInv, Running
<1>2. CASE run' = None
  BY <1>2 DEF Running
<1>3. CASE run' # None
  <2>1. run' = [run EXCEPT !.at = @ + 1] /\ run.at + 1 < run.bound
    BY <1>3 DEF GoOn
  <2>2. /\ run' \in Runs /\ run'.m = run.m /\ run'.op = run.op /\ run'.at = run.at + 1
        /\ run'.bound = run.bound /\ run'.offset = run.offset /\ run.at \in Int /\ run.bound \in Int
    BY <1>1, <2>1 DEF Runs
  <2>3. \A a \in run'.at .. run'.bound - 1 : a \in run.at .. run.bound - 1
    BY <2>2
  <2>4. run'.at < run'.bound /\ root'[run'.m] # None
    BY <1>1, <2>1, <2>2
  <2>5. \A a \in run'.at .. run'.bound - 1 : /\ a \in VPages
                                             /\ run'.op # "unmap" => a + run'.offset \in VPages
                                             /\ run'.op = "map" => a \in PPages
    BY <1>1, <2>2, <2>3
  <2> QED
    BY <2>2, <2>4, <2>5 DEF Running
<1> QED
  BY <1>2, <1>3

\* The page a range call has come to.
LEMMA RunAt ==
  ASSUME IInv, run # None
  PROVE  /\ run.m \in Maps /\ root[run.m] # None /\ Space[run.m] # None /\ run.at \in VPages
         /\ run.op # "unmap" => run.at + run.offset \in VPages
         /\ run.op = "map" => run.at \in PPages
<1>1. run \in Runs /\ root[run.m] # None /\ run.at < run.bound
  BY DEF IInv, Running
<1>2. run.at \in run.at .. run.bound - 1 /\ run.m \in Maps
  BY <1>1 DEF Runs
<1>3. Space[run.m] # None
  BY <1>1, <1>2, SpaceRoots
<1> QED
  BY <1>1, <1>2, <1>3 DEF IInv, Running

LEMMA MapRangeKeeps ==
  ASSUME IInv, MapRange
  PROVE  IInv' /\ SpaceStep
<1> DEFINE m == run.m
           v == run.at + run.offset
           p == run.at
<1>1. m \in Maps /\ root[m] # None /\ Space[m] # None /\ v \in VPages /\ p \in PPages /\ run # None
  BY RunAt DEF MapRange
<1>2. MapIn(mem, m, v, p) /\ GoOn(MapsAll(m, v))
  BY DEF MapRange
<1> HIDE DEF m, v, p
<1>3. /\ Typed' /\ Owned(mem, root, used)' /\ root' = root
      /\ Space' = Space \/ Space' = Changed(Space, m, v, p)
  BY <1>1, <1>2, MapStep
<1>4. Running'
  BY <1>1, <1>2, <1>3, GoesOn
<1> QED
  BY <1>1, <1>3, <1>4 DEF IInv, SpaceStep

LEMMA UnmapRangeKeeps ==
  ASSUME IInv, UnmapRange
  PROVE  IInv' /\ SpaceStep
<1> DEFINE m == run.m
           v == run.at
<1>1. m \in Maps /\ root[m] # None /\ Space[m] # None /\ v \in VPages /\ run # None
  BY RunAt DEF UnmapRange
<1>2. UnmapIn(m, v) /\ GoOn(GetPage(m, v) # None)
  BY DEF UnmapRange
<1> HIDE DEF m, v
<1>3. /\ Typed' /\ Owned(mem, root, used)' /\ root' = root
      /\ Space' = Changed(Space, m, v, None)
  BY <1>1, <1>2, UnmapStep
<1>4. Running'
  BY <1>1, <1>2, <1>3, GoesOn
<1> QED
  BY <1>1, <1>3, <1>4 DEF IInv, SpaceStep

LEMMA RemapRangeKeeps ==
  ASSUME IInv, RemapRange
  PROVE  IInv' /\ SpaceStep
<1> DEFINE m == run.m
           v == run.at
           w == run.at + run.offset
<1>1. m \in Maps /\ root[m] # None /\ Space[m] # None /\ v \in VPages /\ w \in VPages /\ run # None
  BY RunAt DEF RemapRange
<1>2. /\ MapIn(Unmapped(m, v), m, w, VAddrToPAddr(m, v))
      /\ GoOn(GetPage(m, v) # None /\ MapsAll(m, w))
  BY DEF RemapRange
<1> HIDE DEF m, v, w
<1>3. /\ Typed' /\ Owned(mem, root, used)' /\ root' = root
      /\ \/ Space' = Space
         \/ Space' = Changed(Space, m, v, None)
         \/ Space' = Moved(m, v, w)
  BY <1>1, <1>2, RemapStep
<1>4. Running'
  BY <1>1, <1>2, <1>3, GoesOn
<1> QED
  BY <1>1, <1>3, <1>4 DEF IInv, SpaceStep

\* The calls of one page.
LEMMA SingleCallsKeep ==
  ASSUME IInv, NEW m \in Maps, NEW v \in VPages,
         \/ Unmap(m, v)
         \/ \E p \in PPages \ {0} : Map(m, v, p)
         \/ \E w \in VPages : Remap(m, v, w)
  PROVE  IInv' /\ SpaceStep
<1>1. root[m] # None /\ run = None /\ run' = run
  BY DEF Unmap, Map, Remap, Idle
<1>2. Space[m] # None
  BY <1>1, SpaceRoots
<1>3. Running'
  BY <1>1 DEF Running
<1>4. CASE Unmap(m, v)
  <2>1. /\ Typed' /\ Owned(mem, root, used)' /\ root' = root
        /\ Space' = Changed(Space, m, v, None)
    BY <1>1, <1>4, UnmapStep DEF Unmap
  <2> QED
    BY <1>2, <1>3, <2>1 DEF IInv, SpaceStep
<1>5. ASSUME NEW p \in PPages, Map(m, v, p) PROVE IInv' /\ SpaceStep
  <2>1. /\ Typed' /\ Owned(mem, root, used)' /\ root' = root
        /\ Space' = Space \/ Space' = Changed(Space, m, v, p)
    BY <1>1, <1>5, MapStep DEF Map
  <2> QED
    BY <1>2, <1>3, <2>1 DEF IInv, SpaceStep
<1>6. ASSUME NEW w \in VPages, Remap(m, v, w) PROVE IInv' /\ SpaceStep
  <2>1. /\ Typed' /\ Owned(mem, root, used)' /\ root' = root
        /\ \/ Space' = Space
           \/ Space' = Changed(Space, m, v, None)
           \/ Space' = Moved(m, v, w)
    BY <1>1, <1>6, RemapStep DEF Remap
  <2> QED
    BY <1>2, <1>3, <2>1 DEF IInv, SpaceStep
<1> QED
  BY <1>4, <1>5, <1>6

LEMMA RangeCallKeeps ==
  ASSUME IInv, NEW op \in {"map", "unmap", "remap"}, NEW m \in Maps, NEW base \in VPages, NEW last \in VPages,
         base .. last \subseteq VPages, base < last, NEW offset \in Int,
         op # "unmap" => base + offset .. last + offset \subseteq VPages,
         op = "map" => base .. last \subseteq PPages \ {0},
         RangeCall(op, m, base, last + 1, offset)
  PROVE  IInv' /\ SpaceStep
<1>1. base \in Int /\ last \in Int
  BY PageMapAssumption
<1>2. /\ run' = [op |-> op, m |-> m, at |-> base, bound |-> last + 1, offset |-> offset]
      /\ root' = root /\ mem' = mem /\ used' = used /\ pc' = pc /\ root[m] # None
  BY DEF RangeCall
<1>3. /\ run' \in Runs /\ run'.op = op /\ run'.m = m /\ run'.at = base
      /\ run'.bound = last + 1 /\ run'.offset = offset
  BY <1>1, <1>2 DEF Runs
<1>4. ASSUME NEW a \in base .. last + 1 - 1
      PROVE  /\ a \in VPages
             /\ op # "unmap" => a + offset \in VPages
             /\ op = "map" => a \in PPages
  <2>1. a \in base .. last /\ a + offset \in base + offset .. last + offset
    BY <1>1
  <2> QED
    BY <2>1
<1>5. Running'
  BY <1>1, <1>2, <1>3, <1>4 DEF Running
<1>6. Typed' /\ Owned(mem, root, used)' /\ Space' = Space
  BY <1>2 DEF IInv, Typed, Space
<1> QED
  BY <1>5, <1>6 DEF IInv, SpaceStep

\* The end of a call that does not change a table.
LEMMA EndKeeps ==
  ASSUME IInv, NEW why \in {"fault", "stale"}, Ends(why), run = None, run' = run
  PROVE  IInv' /\ SpaceStep
BY DEF IInv, Typed, Running, Ends, Space, SpaceStep

LEMMA CreateKeeps ==
  ASSUME IInv, NEW m \in Maps, Create(m)
  PROVE  IInv' /\ SpaceStep
<1>1. run = None /\ run' = run /\ root[m] = None /\ pc = "ok"
  BY DEF Create, Idle
<1>2. CASE Ends("fault") \/ Ends("stale")
  BY <1>1, <1>2, EndKeeps
<1>3. CASE ~(Ends("fault") \/ Ends("stale"))
  <2>1. PICK f \in Free : /\ ~HasEntries(f) /\ root' = [root EXCEPT ![m] = f]
                          /\ used' = used \union {f} /\ mem' = mem /\ pc' = pc
    BY <1>3 DEF Create
  <2>2. /\ root \in [Maps -> Link] /\ mem \in Mems /\ used \in SUBSET Frames
        /\ Owned(mem, root, used) /\ f \in Frames \ used
    BY <2>1 DEF IInv, Typed, Free
  <2>3. \A i \in Slots : mem[f][i] = None
    BY <2>1 DEF HasEntries
  <2>4. Owned(mem, [root EXCEPT ![m] = f], used \union {f})
    BY <1>1, <2>2, <2>3, OwnedCreated
  <2>5. Owned(mem, root, used)'
    BY <2>1, <2>4
  <2>6. Typed' /\ Running'
    BY <1>1, <2>1, <2>2 DEF IInv, Typed, Running, Link
  <2>7. \A v \in VPages : Find(mem, f, v) = None
    BY <2>2, <2>3, RootOnly
  <2>8. f # None
    BY <2>2, PageMapAssumption
  <2> DEFINE q == [v \in VPages |-> None]
  <2>9. [v \in VPages |-> Find(mem, f, v)] = q
    BY <2>7
  <2>10. /\ root'[m] = f /\ \A o \in Maps : o # m => root'[o] = root[o]
    BY <2>1, <2>2
  <2>11. Space' = [o \in Maps |-> IF o = m THEN q
                                  ELSE IF root[o] = None THEN None ELSE [v \in VPages |-> Find(mem, root[o], v)]]
    <3>1. \A o \in Maps : (IF root'[o] = None THEN None ELSE [v \in VPages |-> Find(mem, root'[o], v)]) =
                          (IF o = m THEN q
                           ELSE IF root[o] = None THEN None ELSE [v \in VPages |-> Find(mem, root[o], v)])
      <4> HIDE DEF q
      <4> QED
        BY <2>8, <2>9, <2>10
    <3> HIDE DEF q
    <3> QED
      BY <2>1, <3>1 DEF Space, SpaceOf
  <2>12. Space' = Opened(m)
    BY <2>11 DEF Opened, Space, SpaceOf
  <2>13. Space[m] = None
    BY <1>1, SpaceRoots
  <2> QED
    BY <2>5, <2>6, <2>12, <2>13 DEF IInv, SpaceStep
<1> QED
  BY <1>2, <1>3

LEMMA TablesAre ==
  ASSUME NEW m \in Maps
  PROVE  AllTables(m) = TablesIn(mem, root, m)
BY DEF AllTables, Tables, TablesIn, At

LEMMA DestroyKeeps ==
  ASSUME IInv, NEW m \in Maps, Destroy(m)
  PROVE  IInv' /\ SpaceStep
<1>1. /\ run = None /\ run' = run /\ root[m] # None /\ pc' = pc /\ mem' = mem
      /\ used' = used \ AllTables(m) /\ root' = [root EXCEPT ![m] = None]
  BY DEF Destroy, Idle
<1>2. root \in [Maps -> Link] /\ mem \in Mems /\ used \in SUBSET Frames /\ Owned(mem, root, used)
  BY DEF IInv, Typed
<1>3. Owned(mem, [root EXCEPT ![m] = None], used \ TablesIn(mem, root, m))
  BY <1>2, OwnedDestroyed
<1>4. Owned(mem, root, used)'
  BY <1>1, <1>3, TablesAre
<1>5. Typed' /\ Running'
  BY <1>1, <1>2 DEF IInv, Typed, Running, Link
<1>6. root'[m] = None /\ \A o \in Maps : o # m => root'[o] = root[o]
  BY <1>1, <1>2
<1>7. Space' = [o \in Maps |-> IF o = m THEN None
                               ELSE IF root[o] = None THEN None ELSE [v \in VPages |-> Find(mem, root[o], v)]]
  <2>1. \A o \in Maps : (IF root'[o] = None THEN None ELSE [v \in VPages |-> Find(mem, root'[o], v)]) =
                        (IF o = m THEN None
                         ELSE IF root[o] = None THEN None ELSE [v \in VPages |-> Find(mem, root[o], v)])
    BY <1>6
  <2> QED
    BY <1>1, <2>1 DEF Space, SpaceOf
<1>8. Space' = Closed(m)
  BY <1>7 DEF Closed, Space, SpaceOf
<1>9. Space[m] # None
  BY <1>1, SpaceRoots
<1> QED
  BY <1>4, <1>5, <1>8, <1>9 DEF IInv, SpaceStep

\* What the copy writes, when no frame holds an old entry where n has none.
LEMMA CopyWrites ==
  ASSUME IInv, NEW n \in Maps, root[n] # None, NEW u \in SUBSET Frames,
         NEW g, DOMAIN g = AllTables(n), \A t \in DOMAIN g : g[t] \in Frames \ u,
         \A s, t \in DOMAIN g : g[s] = g[t] => s = t,
         \A t \in AllTables(n) \ Tables(n)[1], i \in Slots : mem[t][i] = None => mem[g[t]][i] = None
  PROVE  /\ CopyFrames(mem, root[n], u, g)
         /\ CopyOf(Copied(n, g), mem, root[n], g)
         /\ Copied(n, g) \in Mems
<1> DEFINE r == root[n]
           T == TablesBelow(mem, r)
           d == Copied(n, g)
<1>1. AllTables(n) = UNION {T[l] : l \in 1 .. Levels} /\ Tables(n)[1] = T[1]
  BY DEF AllTables, Tables
<1>2. CopyFrames(mem, r, u, g)
  BY <1>1 DEF CopyFrames
<1>3. mem \in Mems /\ \A l \in 1 .. Levels : T[l] \subseteq Frames
  BY DEF IInv, Typed, Owned, At
<1>4. \A l \in 2 .. Levels : \A t \in T[l] : t \notin T[1]
  BY LevelsAre DEF IInv, Owned, Apart, At
<1>5. IsTree(T, mem, r)
  BY TreeIs
<1>6. \A l \in 2 .. Levels : l \in 1 .. Levels /\ l - 1 \in 1 .. Levels - 1 /\ l - 1 \in 1 .. Levels
                              /\ l - 1 + 1 = l
  BY LevelsAre
<1>7. \A t \in DOMAIN g, i \in Slots : t \notin T[1] /\ mem[t][i] # None => mem[t][i] \in DOMAIN g
  <2> SUFFICES ASSUME NEW t \in DOMAIN g, NEW i \in Slots, t \notin T[1], mem[t][i] # None
               PROVE  mem[t][i] \in DOMAIN g
    OBVIOUS
  <2>1. PICK l \in 1 .. Levels : t \in T[l]
    BY <1>1
  <2>2. l \in 2 .. Levels
    BY <2>1, LevelsAre
  <2>3. mem[t][i] \in T[l - 1]
    BY <1>5, <1>6, <2>1, <2>2 DEF IsTree
  <2> QED
    BY <1>1, <1>6, <2>2, <2>3
<1>8. \A f \in Frames : (\A t \in DOMAIN g : g[t] # f) => d[f] = mem[f]
  BY DEF Copied
<1>9. ASSUME NEW t \in DOMAIN g
      PROVE  /\ g[t] \in Frames
             /\ d[g[t]] = IF t \in T[1] THEN mem[t]
                          ELSE [i \in Slots |-> IF mem[t][i] = None THEN mem[g[t]][i] ELSE g[mem[t][i]]]
  <2> DEFINE f == g[t]
             of == {s \in DOMAIN g : g[s] = f}
  <2>1. of = {t}
    OBVIOUS
  <2>2. f \in Frames
    OBVIOUS
  <2> DEFINE c == CHOOSE s \in of : TRUE
  <2>3. c = t /\ of # {}
    BY <2>1
  <2>4. d[f] = IF of = {} THEN mem[f] ELSE
                 IF c \in Tables(n)[1] THEN mem[c]
                 ELSE [i \in Slots |-> IF mem[c][i] = None THEN mem[f][i] ELSE g[mem[c][i]]]
    BY <2>2 DEF Copied
  <2> HIDE DEF of, d, c
  <2>5. d[f] = IF t \in T[1] THEN mem[t]
               ELSE [i \in Slots |-> IF mem[t][i] = None THEN mem[f][i] ELSE g[mem[t][i]]]
    BY <1>1, <2>3, <2>4
  <2> QED
    BY <2>2, <2>5
<1>10. CopyOf(d, mem, r, g)
  <2>1. ASSUME NEW l \in 2 .. Levels, NEW t \in T[l], NEW i \in Slots
        PROVE  d[g[t]][i] = IF mem[t][i] = None THEN None ELSE g[mem[t][i]]
    <3>1. t \in DOMAIN g /\ t \notin T[1]
      BY <1>1, <1>4, <1>6
    <3>2. d[g[t]][i] = IF mem[t][i] = None THEN mem[g[t]][i] ELSE g[mem[t][i]]
      <4> DEFINE h == [j \in Slots |-> IF mem[t][j] = None THEN mem[g[t]][j] ELSE g[mem[t][j]]]
      <4>1. h[i] = IF mem[t][i] = None THEN mem[g[t]][i] ELSE g[mem[t][i]]
        OBVIOUS
      <4>2. d[g[t]] = h
        BY <1>9, <3>1
      <4> HIDE DEF d, T, h
      <4> QED
        BY <4>1, <4>2
    <3>3. mem[t][i] = None => mem[g[t]][i] = None
      BY <1>1, <3>1
    <3> QED
      BY <3>2, <3>3
  <2>2. ASSUME NEW t \in T[1] PROVE d[g[t]] = mem[t]
    <3>1. t \in DOMAIN g
      BY <1>1, LevelsAre
    <3> QED
      BY <1>9, <3>1
  <2> HIDE DEF d, T
  <2> QED
    BY <1>8, <2>1, <2>2 DEF CopyOf, T
<1>11. d \in Mems
  <2>1. ASSUME NEW f \in Frames PROVE d[f] \in [Slots -> Entry]
    <3>1. CASE \A t \in DOMAIN g : g[t] # f
      BY <1>3, <1>8, <3>1 DEF Mems
    <3>2. ASSUME NEW t \in DOMAIN g, g[t] = f PROVE d[f] \in [Slots -> Entry]
      <4>1. t \in Frames
        BY <1>1, <1>3
      <4>2. CASE t \in T[1]
        BY <1>3, <1>9, <3>2, <4>1, <4>2 DEF Mems
      <4>3. CASE t \notin T[1]
        <5> DEFINE h == [i \in Slots |-> IF mem[t][i] = None THEN mem[f][i] ELSE g[mem[t][i]]]
        <5>1. d[f] = h
          BY <1>9, <3>2, <4>3
        <5>2. ASSUME NEW i \in Slots PROVE (IF mem[t][i] = None THEN mem[f][i] ELSE g[mem[t][i]]) \in Entry
          <6>1. mem[f][i] \in Entry
            BY <1>3 DEF Mems
          <6>2. mem[t][i] # None => g[mem[t][i]] \in Entry
            BY <1>7, <4>3 DEF Entry
          <6> QED
            BY <6>1, <6>2
        <5>3. h \in [Slots -> Entry]
          BY <5>2
        <5> HIDE DEF h, d
        <5> QED
          BY <5>1, <5>3
      <4> QED
        BY <4>2, <4>3
    <3> QED
      BY <3>1, <3>2
  <2>2. \E h : d = [f \in Frames |-> h[f]]
    <3>1. d = [f \in Frames |-> d[f]]
      BY DEF Copied
    <3> HIDE DEF d
    <3> QED
      BY <3>1
  <2> HIDE DEF d
  <2> QED
    BY <2>1, <2>2 DEF Mems
<1> QED
  BY <1>2, <1>10, <1>11

LEMMA CopyKeeps ==
  ASSUME IInv, NEW m \in Maps, NEW n \in Maps, Copy(m, n)
  PROVE  IInv' /\ SpaceStep
<1>1. run = None /\ run' = run /\ root[n] # None /\ m # n /\ CopyIn(m, n) /\ pc = "ok"
  BY DEF Copy, Idle
<1>2. CASE Ends("fault") \/ Ends("stale")
  BY <1>1, <1>2, EndKeeps
<1>3. CASE ~(Ends("fault") \/ Ends("stale"))
  <2> DEFINE u == used \ AllTables(m)
  <2>1. PICK g \in Injections(AllTables(n), Free \union AllTables(m)) :
           /\ ~\E t \in AllTables(n) \ Tables(n)[1], i \in Slots : mem[t][i] = None /\ mem[g[t]][i] # None
           /\ mem' = Copied(n, g)
           /\ used' = (used \ AllTables(m)) \union {g[t] : t \in AllTables(n)}
           /\ root' = [root EXCEPT ![m] = g[root[n]]]
           /\ pc' = pc
    BY <1>1, <1>3 DEF CopyIn
  <2>2. root \in [Maps -> Link] /\ mem \in Mems /\ used \in SUBSET Frames /\ Owned(mem, root, used)
    BY DEF IInv, Typed
  <2>3. /\ DOMAIN g = AllTables(n) /\ \A t \in DOMAIN g : g[t] \in Free \union AllTables(m)
        /\ \A s, t \in DOMAIN g : g[s] = g[t] => s = t
    BY DEF Injections
  <2>4. AllTables(m) \subseteq used
    BY <2>2, TablesAre DEF TablesIn, Owned
  <2>5. u \in SUBSET Frames /\ \A t \in DOMAIN g : g[t] \in Frames \ u
    BY <2>2, <2>3, <2>4 DEF Free
  <2>6. \A t \in AllTables(n) \ Tables(n)[1], i \in Slots : mem[t][i] = None => mem[g[t]][i] = None
    BY <2>1
  <2> DEFINE R == [root EXCEPT ![m] = None]
             r == root[n]
             d == Copied(n, g)
             S == [root EXCEPT ![m] = g[r]]
  <2>7. Owned(mem, R, used \ TablesIn(mem, root, m))
    BY <2>2, OwnedDestroyed
  <2>8. Owned(mem, R, u)
    BY <2>7, TablesAre
  <2>9. R \in [Maps -> Link] /\ R[m] = None /\ \A o \in Maps : o # m => R[o] = root[o]
    BY <2>2 DEF Link
  <2>10. r \in Frames /\ R[n] = r
    BY <1>1, <2>2 DEF Link
  <2> HIDE DEF u
  <2>11. CopyFrames(mem, r, u, g) /\ CopyOf(d, mem, r, g) /\ d \in Mems
    <3> HIDE DEF R, S
    <3> QED
      BY <1>1, <2>3, <2>5, <2>6, CopyWrites
  <2>12. [R EXCEPT ![m] = g[r]] = S
    OBVIOUS
  <2>13. r \in DOMAIN g /\ g[r] \in Frames /\ g[r] # None
    <3>1. IsTree(TablesBelow(mem, r), mem, r)
      BY TreeIs
    <3>2. r \in TablesBelow(mem, r)[Levels]
      BY <2>10, <3>1, PageMapAssumption DEF IsTree
    <3>3. r \in DOMAIN g
      BY <2>11, <3>2, LevelsAre DEF CopyFrames
    <3> QED
      BY <2>5, <3>3, PageMapAssumption
  <2>14. S \in [Maps -> Link] /\ S[m] = g[r] /\ \A o \in Maps : o # m => S[o] = R[o]
    BY <2>2, <2>9, <2>13 DEF Link
  <2>15. mem' = d /\ root' = S /\ used' = u \union {g[t] : t \in DOMAIN g}
    BY <2>1, <2>3 DEF u
  <2> HIDE DEF R, S, d, r
  <2>16. CopyKept(d, mem, R, u, m, n, g)
    <3>1. CopyFrames(mem, R[n], u, g) /\ CopyOf(d, mem, R[n], g) /\ R[n] \in Frames /\ d \in Mems
      BY <2>10, <2>11
    <3>2. R \in [Maps -> Link] /\ R[m] = None /\ u \in SUBSET Frames /\ mem \in Mems
      BY <2>2, <2>5, <2>9
    <3> QED
      BY <2>8, <3>1, <3>2, OwnedCopied
  <2>17. Owned(d, S, u \union {g[t] : t \in DOMAIN g})
    BY <2>10, <2>12, <2>16 DEF CopyKept
  <2>18. Owned(mem, root, used)'
    BY <2>15, <2>17
  <2>19. \A v \in VPages : Find(d, g[r], v) = Find(mem, r, v)
    BY <2>10, <2>11, TreeCopied
  <2>20. used' \in SUBSET Frames
    BY <2>5, <2>15
  <2>21. Typed' /\ Running'
    BY <1>1, <2>1, <2>11, <2>14, <2>15, <2>20 DEF IInv, Typed, Running
  <2>22. Space' = Duplicated(m, n)
    <3> DEFINE q == [v \in VPages |-> Find(mem, r, v)]
    <3>1. [v \in VPages |-> Find(d, S[m], v)] = q
      BY <2>14, <2>19
    <3>2. ASSUME NEW o \in Maps, o # m
          PROVE  /\ S[o] = root[o]
                 /\ [v \in VPages |-> Find(d, S[o], v)] = [v \in VPages |-> Find(mem, root[o], v)]
      BY <2>9, <2>14, <2>16, <3>2 DEF CopyKept
    <3>3. \A o \in Maps : (IF S[o] = None THEN None ELSE [v \in VPages |-> Find(d, S[o], v)]) =
                          (IF o = m THEN q
                           ELSE IF root[o] = None THEN None ELSE [v \in VPages |-> Find(mem, root[o], v)])
      <4> HIDE DEF q
      <4> QED
        BY <2>13, <2>14, <3>1, <3>2
    <3>4. Space[n] = q
      BY <1>1 DEF Space, SpaceOf, r
    <3> HIDE DEF q
    <3>5. Space' = [o \in Maps |-> IF o = m THEN q
                                   ELSE IF root[o] = None THEN None
                                   ELSE [v \in VPages |-> Find(mem, root[o], v)]]
      BY <2>15, <3>3 DEF Space, SpaceOf
    <3> QED
      BY <3>4, <3>5 DEF Duplicated, Space, SpaceOf
  <2>23. Space[n] # None
    BY <1>1, SpaceRoots
  <2> QED
    BY <1>1, <2>18, <2>21, <2>22, <2>23 DEF IInv, SpaceStep
<1> QED
  BY <1>2, <1>3

--------------------------------------------------------------------------------
(* The theorems.                                                                 *)

LEMMA InitHolds ==
  ASSUME Init
  PROVE  IInv /\ Space = [m \in Maps |-> None]
<1>1. \A m \in Maps : root[m] = None
  BY DEF Init
<1>2. \A m \in Maps, l \in 1 .. Levels : At(mem, root, m, l) = {}
  BY <1>1, NoTree DEF At
<1>3. \A l \in 2 .. Levels : l \in 1 .. Levels
  BY LevelsAre
<1>4. Owned(mem, root, used)
  BY <1>2, <1>3 DEF Init, Owned, Apart, OneLink
<1>5. Typed /\ Running
  BY DEF Init, Typed, Running, Link, Mems, Entry
<1>6. Space = [m \in Maps |-> None]
  BY <1>1 DEF Space, SpaceOf
<1> QED
  BY <1>4, <1>5, <1>6 DEF IInv

LEMMA StepKeeps ==
  ASSUME IInv, [Next]_vars
  PROVE  IInv' /\ SpaceStep
<1>1. CASE UNCHANGED vars
  BY <1>1 DEF vars, IInv, Typed, Running, Space, SpaceStep
<1>2. CASE MapRange
  BY <1>2, MapRangeKeeps
<1>3. CASE UnmapRange
  BY <1>3, UnmapRangeKeeps
<1>4. CASE RemapRange
  BY <1>4, RemapRangeKeeps
<1>5. ASSUME NEW m \in Maps, Create(m) PROVE IInv' /\ SpaceStep
  BY <1>5, CreateKeeps
<1>6. ASSUME NEW m \in Maps, Destroy(m) PROVE IInv' /\ SpaceStep
  BY <1>6, DestroyKeeps
<1>7. ASSUME NEW m \in Maps, NEW n \in Maps, Copy(m, n) PROVE IInv' /\ SpaceStep
  BY <1>7, CopyKeeps
<1>8. ASSUME NEW m \in Maps, NEW v \in VPages,
             \/ Unmap(m, v)
             \/ \E p \in PPages \ {0} : Map(m, v, p)
             \/ \E w \in VPages : Remap(m, v, w)
      PROVE  IInv' /\ SpaceStep
  BY <1>8, SingleCallsKeep
<1>9. ASSUME NEW m \in Maps, NEW base \in VPages, NEW last \in VPages,
             base .. last \subseteq VPages, base < last,
             \/ RangeCall("unmap", m, base, last + 1, 0)
             \/ \E offset \in Offsets :
                  /\ base + offset .. last + offset \subseteq VPages
                  /\ \/ RangeCall("remap", m, base, last + 1, offset)
                     \/ /\ base .. last \subseteq PPages \ {0}
                        /\ RangeCall("map", m, base, last + 1, offset)
      PROVE  IInv' /\ SpaceStep
  <2>1. CASE RangeCall("unmap", m, base, last + 1, 0)
    BY <1>9, <2>1, RangeCallKeeps
  <2>2. ASSUME NEW offset \in Offsets, base + offset .. last + offset \subseteq VPages,
               \/ RangeCall("remap", m, base, last + 1, offset)
               \/ /\ base .. last \subseteq PPages \ {0}
                  /\ RangeCall("map", m, base, last + 1, offset)
        PROVE  IInv' /\ SpaceStep
    <3>1. offset \in Int
      BY PageMapAssumption
    <3>2. CASE RangeCall("remap", m, base, last + 1, offset)
      BY <1>9, <2>2, <3>1, <3>2, RangeCallKeeps
    <3>3. CASE base .. last \subseteq PPages \ {0} /\ RangeCall("map", m, base, last + 1, offset)
      BY <1>9, <2>2, <3>1, <3>3, RangeCallKeeps
    <3> QED
      BY <2>2, <3>2, <3>3
  <2> QED
    BY <1>9, <2>1, <2>2
<1> QED
  BY <1>1, <1>2, <1>3, <1>4, <1>5, <1>6, <1>7, <1>8, <1>9 DEF Next

\* The inductive invariant: the variables hold what they may, a range call has pages
\* before it that the calls are about, and every frame in use has one owner.
THEOREM Invariant == Spec => []IInv
<1>1. Init => IInv
  BY InitHolds
<1>2. IInv /\ [Next]_vars => IInv'
  BY StepKeeps
<1> QED
  BY <1>1, <1>2, PTL DEF Spec

\* No table is leaked, freed while a map walks through it, or shared, whichever calls
\* of Create, Map, Unmap, Remap, their ranges, the copies and the destructor come, and
\* wherever the frames run out.
THEOREM TreesOwn == Spec => []TreesOwnFrames
<1>1. IInv => TreesOwnFrames
  BY OwnedIsTreesOwnFrames DEF IInv
<1> QED
  BY <1>1, Invariant, PTL

\* What the processor finds, as the refinement mapping has it.
Seen ==
  [m \in Maps |-> IF root[m] = None THEN None ELSE [v \in VPages |-> Translate(m, v)]]

LEMMA SpaceIsSeen == Space = Seen /\ Space' = Seen'
BY DEF Space, SpaceOf, Seen, Find, Translate, GetPage

\* What a step does to the maps is a step of AddressSpace.
LEMMA StepMaps ==
  ASSUME SpaceStep
  PROVE  [AS!Next]_Seen
<1>1. Space = Seen /\ Space' = Seen'
  BY SpaceIsSeen
<1>2. \A m \in Maps : m \in AS!Live <=> Space[m] # None
  BY <1>1 DEF AS!Live, Seen
<1>3. CASE Space' = Space
  BY <1>1, <1>3
<1>4. ASSUME NEW m \in Maps, Space[m] = None, Space' = Opened(m) PROVE AS!Next
  <2>1. AS!Create(m)
    BY <1>1, <1>4 DEF AS!Create, Opened, Seen
  <2> QED
    BY <2>1 DEF AS!Next
<1>5. ASSUME NEW m \in Maps, Space[m] # None, Space' = Closed(m) PROVE AS!Next
  <2>1. AS!Destroy(m)
    BY <1>1, <1>5 DEF AS!Destroy, Closed, Seen
  <2> QED
    BY <1>2, <1>5, <2>1 DEF AS!Next
<1>6. ASSUME NEW m \in Maps, NEW v \in VPages, Space[m] # None, Space' = Changed(Space, m, v, None)
      PROVE  AS!Next
  <2>1. AS!Unmap(m, v)
    BY <1>1, <1>6 DEF AS!Unmap, Changed, Seen
  <2> QED
    BY <1>2, <1>6, <2>1 DEF AS!Next
<1>7. ASSUME NEW m \in Maps, NEW v \in VPages, NEW p \in PPages,
             Space[m] # None, Space' = Changed(Space, m, v, p)
      PROVE  AS!Next
  <2>1. AS!Map(m, v, p)
    BY <1>1, <1>7 DEF AS!Map, Changed, Seen
  <2> QED
    BY <1>2, <1>7, <2>1 DEF AS!Next
<1>8. ASSUME NEW m \in Maps, NEW v \in VPages, NEW w \in VPages, Space[m] # None, Space' = Moved(m, v, w)
      PROVE  AS!Next
  <2>1. AS!Move(m, v, w)
    BY <1>1, <1>8 DEF AS!Move, Moved, Arrives, Seen
  <2> QED
    BY <1>2, <1>8, <2>1 DEF AS!Next
<1>9. ASSUME NEW m \in Maps, NEW n \in Maps, m # n, Space[n] # None, Space' = Duplicated(m, n)
      PROVE  AS!Next
  <2>1. AS!Copy(m, n)
    BY <1>1, <1>9 DEF AS!Copy, Duplicated, Seen
  <2> QED
    BY <1>2, <1>9, <2>1 DEF AS!Next
<1> QED
  BY <1>3, <1>4, <1>5, <1>6, <1>7, <1>8, <1>9 DEF SpaceStep

\* The trees implement the partial functions AddressSpace promises.
THEOREM Refines == Spec => IsAnAddressSpace
<1>1. Init => AS!Init
  <2> SUFFICES ASSUME Init PROVE AS!Init
    OBVIOUS
  <2>1. Space = [m \in Maps |-> None]
    BY InitHolds
  <2> QED
    BY <2>1, SpaceIsSeen DEF AS!Init, Seen
<1>2. IInv /\ [Next]_vars => [AS!Next]_Seen
  BY StepKeeps, StepMaps
<1> QED
  BY <1>1, <1>2, Invariant, PTL DEF Spec, IsAnAddressSpace, AS!Spec, Seen

================================================================================
