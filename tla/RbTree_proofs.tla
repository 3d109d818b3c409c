------------------------------ MODULE RbTree_proofs ------------------------------
(* That the tree of RbTree stays a search tree, balanced between any two rounds  *)
(* of a repair, and a map from keys to values, for any keys, values and nodes.   *)
EXTENDS RbTree, WellFoundedInduction, TLAPS

Link == Nodes \union {None}
Dirs == {"left", "right"}
Colors == {"BLACK", "RED"}

Fields == [key : Keys \union {None}, val : Values \union {None}, color : Colors,
           left : Link, right : Link, parent : Link]
Trees == [root : Link, node : [Nodes -> Fields]]

Key(t, n) == t.node[n].key
Val(t, n) == t.node[n].val

--------------------------------------------------------------------------------
(* Induction over the nodes, and functions that are defined along them. r numbers *)
(* the nodes so that next leads to a smaller number.                             *)

LEMMA LeastExists ==
  ASSUME NEW T \in SUBSET Nat, T # {}
  PROVE  \E x \in T : \A y \in T : x <= y
<1> DEFINE R == {ss \in Nat \X Nat : ss[1] < ss[2]}
<1>1. IsWellFoundedOn(R, Nat)
  BY NatLessThanWellFounded DEF OpToRel
<1> HIDE DEF R
<1>2. PICK x \in T : \A y \in T : ~(<<y, x>> \in R)
  BY <1>1, WFMin
<1>3. \A y \in T : ~(y < x)
  BY <1>2 DEF R
<1> QED
  BY <1>3

LEMMA Downwards ==
  ASSUME NEW B \in Nat, NEW r \in [Nodes -> 0 .. B], NEW Q,
         \A n \in Nodes : (\A c \in Nodes : r[c] < r[n] => c \in Q) => n \in Q
  PROVE  \A n \in Nodes : n \in Q
<1> DEFINE T == {i \in Nat : \E n \in Nodes : n \notin Q /\ r[n] = i}
<1>1. SUFFICES ASSUME NEW m \in Nodes, m \notin Q PROVE FALSE
  OBVIOUS
<1>2. r[m] \in T
  BY <1>1
<1> HIDE DEF T
<1>3. PICK i \in T : \A j \in T : i <= j
  BY <1>2, LeastExists DEF T
<1>4. PICK n \in Nodes : n \notin Q /\ r[n] = i
  BY DEF T
<1>5. ASSUME NEW c \in Nodes, r[c] < r[n] PROVE c \in Q
  <2>1. c \notin Q => r[c] \in T
    BY DEF T
  <2> QED
    BY <1>3, <1>4, <1>5, <2>1 DEF T
<1> QED
  BY <1>4, <1>5

LEMMA Upwards ==
  ASSUME NEW B \in Nat, NEW r \in [Nodes -> 0 .. B], NEW Q,
         \A n \in Nodes : (\A p \in Nodes : r[n] < r[p] => p \in Q) => n \in Q
  PROVE  \A n \in Nodes : n \in Q
<1> DEFINE T == {i \in Nat : \E n \in Nodes : n \notin Q /\ B - r[n] = i}
<1>1. SUFFICES ASSUME NEW m \in Nodes, m \notin Q PROVE FALSE
  OBVIOUS
<1>2. B - r[m] \in T
  BY <1>1
<1> HIDE DEF T
<1>3. PICK i \in T : \A j \in T : i <= j
  BY <1>2, LeastExists DEF T
<1>4. PICK n \in Nodes : n \notin Q /\ B - r[n] = i
  BY DEF T
<1>5. ASSUME NEW p \in Nodes, r[n] < r[p] PROVE p \in Q
  <2>1. p \notin Q => B - r[p] \in T
    BY DEF T
  <2> QED
    BY <1>3, <1>4, <1>5, <2>1 DEF T
<1> QED
  BY <1>4, <1>5

\* What f is at the nodes numbered below i.
Follows(f, next, base, G, r, i) ==
  \A n \in Nodes : r[n] < i => f[n] = IF next[n] = None THEN base[n] ELSE G[f[next[n]]]

LEMMA AlongExists ==
  ASSUME NEW B \in Nat, NEW r \in [Nodes -> 0 .. B], NEW next \in [Nodes -> Link],
         \A n \in Nodes : next[n] # None => r[next[n]] < r[n],
         NEW V, NEW base \in [Nodes -> V], NEW G \in [V -> V]
  PROVE  \E f \in [Nodes -> V] : Follows(f, next, base, G, r, B + 1)
<1> DEFINE Has(i) == \E f \in [Nodes -> V] : Follows(f, next, base, G, r, i)
           T == {i \in Nat : ~Has(i)}
<1>1. Has(0)
  BY DEF Follows
<1>2. ASSUME NEW i \in Nat, Has(i) PROVE Has(i + 1)
  <2>1. PICK f \in [Nodes -> V] : Follows(f, next, base, G, r, i)
    BY <1>2
  <2> DEFINE g == [n \in Nodes |-> IF r[n] = i THEN IF next[n] = None THEN base[n] ELSE G[f[next[n]]]
                                   ELSE f[n]]
  <2>2. \A n \in Nodes : next[n] # None => next[n] \in Nodes
    BY DEF Link
  <2>3. g \in [Nodes -> V]
    BY <2>2
  <2>4. \A n \in Nodes : r[n] # i => g[n] = f[n]
    OBVIOUS
  <2>5. \A n \in Nodes : r[n] = i => g[n] = IF next[n] = None THEN base[n] ELSE G[f[next[n]]]
    OBVIOUS
  <2> HIDE DEF g
  <2>6. ASSUME NEW n \in Nodes, r[n] < i + 1
        PROVE  g[n] = IF next[n] = None THEN base[n] ELSE G[g[next[n]]]
    <3>1. next[n] # None => g[next[n]] = f[next[n]]
      BY <2>2, <2>4, <2>6
    <3>2. CASE r[n] = i
      BY <2>5, <3>1, <3>2
    <3>3. CASE r[n] # i
      BY <2>1, <2>4, <2>6, <3>1, <3>3 DEF Follows
    <3> QED
      BY <3>2, <3>3
  <2>7. Follows(g, next, base, G, r, i + 1)
    BY <2>6 DEF Follows
  <2> QED
    BY <2>3, <2>7
<1> HIDE DEF Has
<1>3. T = {}
  <2> SUFFICES ASSUME T # {} PROVE FALSE
    OBVIOUS
  <2>1. PICK i \in T : \A j \in T : i <= j
    BY LeastExists
  <2>2. i # 0 /\ i \in Nat
    BY <1>1
  <2>3. i - 1 \in Nat /\ i - 1 \notin T
    BY <2>1, <2>2
  <2>4. Has(i - 1)
    BY <2>3
  <2>5. Has(i - 1 + 1)
    BY <1>2, <2>3, <2>4
  <2>6. i - 1 + 1 = i
    BY <2>2
  <2> QED
    BY <2>5, <2>6
<1>4. Has(B + 1)
  BY <1>3
<1> QED
  BY <1>4 DEF Has

\* A walk along next ends.
LEMMA WalkExists ==
  ASSUME NEW B \in Nat, NEW r \in [Nodes -> 0 .. B], NEW next \in [Nodes -> Link],
         \A n \in Nodes : next[n] # None => r[next[n]] < r[n]
  PROVE  \E w : w = [n \in Nodes |-> IF next[n] = None THEN n ELSE w[next[n]]]
<1> DEFINE id == [n \in Nodes |-> n]
<1>1. id \in [Nodes -> Nodes]
  OBVIOUS
<1>2. PICK f \in [Nodes -> Nodes] : Follows(f, next, id, id, r, B + 1)
  BY <1>1, AlongExists
<1>3. ASSUME NEW n \in Nodes PROVE f[n] = IF next[n] = None THEN n ELSE f[next[n]]
  <2>1. f[n] = IF next[n] = None THEN id[n] ELSE id[f[next[n]]]
    BY <1>2 DEF Follows
  <2>2. next[n] # None => next[n] \in Nodes
    BY DEF Link
  <2> QED
    BY <2>1, <2>2
<1> HIDE DEF id
<1>4. f = [n \in Nodes |-> IF next[n] = None THEN n ELSE f[next[n]]]
  BY <1>3
<1> QED
  BY <1>4

--------------------------------------------------------------------------------
(* What makes a value a search tree. x is the node that is to go, whose key is    *)
(* that of another node.                                                         *)

\* Child and parent links are the inverse of each other, and lead to nodes in use.
Linked(t) ==
  /\ t \in Trees
  /\ \A n \in Nodes : t.node[n] = Unused \/ Key(t, n) \in Keys
  /\ t.root \in Allocated(t) \union {None}
  /\ t.root # None => Parent(t, t.root) = None
  /\ \A n \in Allocated(t), d \in Dirs :
       GetChild(t, n, d) # None => /\ GetChild(t, n, d) \in Allocated(t)
                                   /\ Parent(t, GetChild(t, n, d)) = n
                                   /\ GetChild(t, n, "left") # GetChild(t, n, "right")
  /\ \A n \in Allocated(t) \ {t.root} :
       Parent(t, n) \in Allocated(t) /\ \E d \in Dirs : GetChild(t, Parent(t, n), d) = n

\* The links lead down.
RankedBy(t, B, r) ==
  /\ B \in Nat /\ r \in [Nodes -> 0 .. B]
  /\ \A n \in Nodes, d \in Dirs : GetChild(t, n, d) # None => r[GetChild(t, n, d)] < r[n]

Ranked(t) == \E B, r : RankedBy(t, B, r)

\* Whether a search for j, which is twice a key, or a place between keys, turns to
\* the side d at a node with the key k.
Side(d, j, k) == IF d = "left" THEN j < 2 * k ELSE j > 2 * k

\* S[n] are the places whose search passes n.
OrderedBy(t, x, S) ==
  /\ S \in [Nodes -> SUBSET Int]
  /\ t.root # None => \A j \in Int : j \in S[t.root]
  /\ \A n \in Allocated(t), d \in Dirs : GetChild(t, n, d) # None =>
       \A j \in Int : j \in S[GetChild(t, n, d)] <=> (j \in S[n] /\ Side(d, j, Key(t, n)))
  /\ \A n \in Allocated(t) \ {x} : 2 * Key(t, n) \in S[n]

Ordered(t, x) == \E S : OrderedBy(t, x, S)

Shape(t, x) == Linked(t) /\ Ranked(t) /\ Ordered(t, x)

LEMMA AllocatedIs ==
  ASSUME NEW t, Linked(t)
  PROVE  /\ Allocated(t) \subseteq Nodes /\ None \notin Nodes
         /\ \A n \in Nodes : n \in Allocated(t) <=> Key(t, n) \in Keys
         /\ \A n \in Allocated(t) : Key(t, n) \in Int
         /\ \A n \in Nodes \ Allocated(t) : t.node[n] = Unused
         /\ \A n \in Nodes \ Allocated(t), d \in Dirs : GetChild(t, n, d) = None /\ Parent(t, n) = None
         /\ \A n \in Nodes : Parent(t, n) \in Link /\ \A d \in Dirs : GetChild(t, n, d) \in Link
BY RbTreeAssumption DEF Linked, Allocated, Unused, Key, GetChild, Parent, Dirs, Trees, Fields, Link

\* A node in use is on one side of its parent.
LEMMA GetDirIs ==
  ASSUME NEW t, Linked(t), NEW n \in Allocated(t), n # t.root
  PROVE  /\ GetDir(t, n) \in Dirs /\ GetChild(t, Parent(t, n), GetDir(t, n)) = n
         /\ GetChild(t, Parent(t, n), InvertDir(GetDir(t, n))) # n
         /\ InvertDir(GetDir(t, n)) \in Dirs /\ Parent(t, n) \in Allocated(t)
<1>1. Parent(t, n) \in Allocated(t) /\ \E d \in Dirs : GetChild(t, Parent(t, n), d) = n
  BY DEF Linked
<1>2. n # None
  BY AllocatedIs
<1> QED
  BY <1>1, <1>2 DEF Linked, GetDir, InvertDir, Dirs

LEMMA Convex ==
  ASSUME NEW t, NEW x, Shape(t, x), NEW S, OrderedBy(t, x, S)
  PROVE  \A n \in Allocated(t) : \A a \in S[n], b \in S[n], c \in Int : a <= c /\ c <= b => c \in S[n]
<1> DEFINE Q == {n \in Nodes : n \in Allocated(t) =>
                   \A a \in S[n], b \in S[n], c \in Int : a <= c /\ c <= b => c \in S[n]}
<1>1. PICK B, r : RankedBy(t, B, r)
  BY DEF Shape, Ranked
<1>2. Linked(t)
  BY DEF Shape
<1>3. ASSUME NEW n \in Nodes, \A p \in Nodes : r[n] < r[p] => p \in Q PROVE n \in Q
  <2> SUFFICES ASSUME n \in Allocated(t), NEW a \in S[n], NEW b \in S[n], NEW c \in Int, a <= c, c <= b
               PROVE  c \in S[n]
    OBVIOUS
  <2>1. CASE n = t.root
    BY <2>1, <1>2, AllocatedIs DEF OrderedBy
  <2>2. CASE n # t.root
    <3> DEFINE p == Parent(t, n)
    <3>1. PICK d \in Dirs : GetChild(t, p, d) = n
      BY <1>2, <2>2 DEF Linked
    <3>2. p \in Allocated(t) /\ p \in Nodes /\ n # None
      BY <1>2, <2>2, AllocatedIs DEF Linked
    <3>3. p \in Q
      BY <1>1, <1>3, <3>1, <3>2 DEF RankedBy
    <3>4. a \in Int /\ b \in Int /\ Key(t, p) \in Int
      BY <1>2, <3>2, AllocatedIs DEF OrderedBy
    <3> HIDE DEF p
    <3>5. \A j \in Int : j \in S[n] <=> (j \in S[p] /\ Side(d, j, Key(t, p)))
      BY <3>1, <3>2 DEF OrderedBy
    <3>6. a \in S[p] /\ b \in S[p] /\ Side(d, a, Key(t, p)) /\ Side(d, b, Key(t, p))
      BY <3>4, <3>5
    <3>7. c \in S[p]
      BY <3>2, <3>3, <3>6
    <3>8. Side(d, c, Key(t, p))
      BY <3>4, <3>6 DEF Side
    <3> QED
      BY <3>5, <3>7, <3>8
  <2> QED
    BY <2>1, <2>2
<1> HIDE DEF Q
<1>4. \A n \in Nodes : n \in Q
  BY <1>1, <1>3, Upwards DEF RankedBy
<1> QED
  BY <1>2, <1>4, AllocatedIs DEF Q

--------------------------------------------------------------------------------
(* Searches.                                                                     *)

Down(t, k, n) ==
  IF k < Key(t, n) THEN GetChild(t, n, "left")
  ELSE IF k > Key(t, n) THEN GetChild(t, n, "right") ELSE None

IsWalk(w, t, k) == \A n \in Nodes : w[n] = IF Down(t, k, n) = None THEN n ELSE w[Down(t, k, n)]

LEMMA LastIs ==
  ASSUME NEW t, NEW x, Shape(t, x), NEW k
  PROVE  \E w : IsWalk(w, t, k) /\ Last(t, k) = w[t.root]
<1> DEFINE next == [n \in Nodes |-> Down(t, k, n)]
           Is(w) == w = [n \in Nodes |-> IF Down(t, k, n) = None THEN n ELSE w[Down(t, k, n)]]
           w0 == CHOOSE w : Is(w)
<1>1. PICK B, r : RankedBy(t, B, r)
  BY DEF Shape, Ranked
<1>2. Linked(t)
  BY DEF Shape
<1>3. ASSUME NEW n \in Nodes
      PROVE  Down(t, k, n) \in Link /\ (Down(t, k, n) # None => r[Down(t, k, n)] < r[n])
  BY <1>1, <1>2, AllocatedIs DEF Down, RankedBy, Dirs, Link
<1>4. next \in [Nodes -> Link] /\ \A n \in Nodes : next[n] # None => r[next[n]] < r[n]
  BY <1>3
<1> HIDE DEF next
<1>5. PICK w : w = [n \in Nodes |-> IF next[n] = None THEN n ELSE w[next[n]]]
  BY <1>1, <1>4, WalkExists DEF RankedBy
<1>6. Is(w)
  BY <1>5 DEF next
<1> HIDE DEF Is
<1>7. Is(w0)
  BY <1>6
<1>8. IsWalk(w0, t, k)
  BY <1>7 DEF Is, IsWalk
<1>9. Last(t, k) = w0[t.root]
  BY DEF Last, w0, Is, Down, Key, GetChild
<1> QED
  BY <1>8, <1>9

\* All nodes that a search for k passes lead to the same end ...
LEMMA PassedUp ==
  ASSUME NEW t, NEW x, Shape(t, x), NEW S, OrderedBy(t, x, S), NEW k \in Int, NEW w, IsWalk(w, t, k)
  PROVE  \A n \in Allocated(t) : 2 * k \in S[n] => w[n] = w[t.root]
<1> DEFINE Q == {n \in Nodes : n \in Allocated(t) /\ 2 * k \in S[n] => w[n] = w[t.root]}
<1>1. PICK B, r : RankedBy(t, B, r)
  BY DEF Shape, Ranked
<1>2. Linked(t)
  BY DEF Shape
<1>3. ASSUME NEW n \in Nodes, \A p \in Nodes : r[n] < r[p] => p \in Q PROVE n \in Q
  <2> SUFFICES ASSUME n \in Allocated(t), 2 * k \in S[n], n # t.root PROVE w[n] = w[t.root]
    OBVIOUS
  <2> DEFINE p == Parent(t, n)
  <2>1. PICK d \in Dirs : GetChild(t, p, d) = n
    BY <1>2 DEF Linked
  <2>2. p \in Allocated(t) /\ p \in Nodes /\ n # None /\ Key(t, p) \in Int
    BY <1>2, AllocatedIs DEF Linked
  <2>3. p \in Q
    BY <1>1, <1>3, <2>1, <2>2 DEF RankedBy
  <2> HIDE DEF p
  <2>4. 2 * k \in S[p] /\ Side(d, 2 * k, Key(t, p))
    BY <2>1, <2>2 DEF OrderedBy
  <2>5. Down(t, k, p) = n
    BY <2>1, <2>2, <2>4 DEF Down, Side, Dirs
  <2>6. w[p] = w[n]
    BY <2>2, <2>5 DEF IsWalk
  <2> QED
    BY <2>2, <2>3, <2>4, <2>6
<1> HIDE DEF Q
<1>4. \A n \in Nodes : n \in Q
  BY <1>1, <1>3, Upwards DEF RankedBy
<1> QED
  BY <1>2, <1>4, AllocatedIs DEF Q

\* ... which is passed, and from where it does not go on.
LEMMA PassedDown ==
  ASSUME NEW t, NEW x, Shape(t, x), NEW S, OrderedBy(t, x, S), NEW k \in Int, NEW w, IsWalk(w, t, k)
  PROVE  \A n \in Allocated(t) : 2 * k \in S[n] =>
           w[n] \in Allocated(t) /\ 2 * k \in S[w[n]] /\ Down(t, k, w[n]) = None
<1> DEFINE Ends(n) == w[n] \in Allocated(t) /\ 2 * k \in S[w[n]] /\ Down(t, k, w[n]) = None
           Q == {n \in Nodes : n \in Allocated(t) /\ 2 * k \in S[n] => Ends(n)}
<1>1. PICK B, r : RankedBy(t, B, r)
  BY DEF Shape, Ranked
<1>2. Linked(t)
  BY DEF Shape
<1>3. ASSUME NEW n \in Nodes, \A c \in Nodes : r[c] < r[n] => c \in Q PROVE n \in Q
  <2> SUFFICES ASSUME n \in Allocated(t), 2 * k \in S[n] PROVE Ends(n)
    OBVIOUS
  <2> DEFINE c == Down(t, k, n)
  <2>1. Key(t, n) \in Int
    BY <1>2, AllocatedIs
  <2>2. CASE c = None
    BY <2>2 DEF IsWalk
  <2>3. CASE c # None
    <3>1. PICK d \in Dirs : c = GetChild(t, n, d) /\ Side(d, 2 * k, Key(t, n))
      BY <2>1, <2>3 DEF Down, Side, Dirs
    <3>2. w[n] = w[c]
      BY <2>3 DEF IsWalk
    <3> HIDE DEF c
    <3>3. c \in Allocated(t) /\ 2 * k \in S[c]
      BY <1>2, <2>3, <3>1 DEF Linked, OrderedBy
    <3>4. c \in Nodes /\ r[c] < r[n]
      BY <1>1, <1>2, <2>3, <3>1, <3>3, AllocatedIs DEF RankedBy
    <3>5. Ends(c)
      BY <1>3, <3>3, <3>4
    <3> QED
      BY <3>2, <3>5
  <2> QED
    BY <2>2, <2>3
<1> HIDE DEF Q
<1>4. \A n \in Nodes : n \in Q
  BY <1>1, <1>3, Downwards DEF RankedBy
<1> QED
  BY <1>2, <1>4, AllocatedIs DEF Q

\* A search for the key of a node that stays ends at the node.
LEMMA FindIs ==
  ASSUME NEW t, NEW x, Shape(t, x), t.root # None, NEW k \in Keys
  PROVE  /\ \A n \in Allocated(t) \ {x} : Key(t, n) = k => Last(t, k) = n /\ Find(t, k) = n
         /\ Last(t, k) \in Allocated(t) /\ Down(t, k, Last(t, k)) = None
         /\ Find(t, k) # None => Find(t, k) \in Allocated(t) /\ Key(t, Find(t, k)) = k
         /\ Find(t, k) = None => Key(t, Last(t, k)) # k
<1>1. PICK S : OrderedBy(t, x, S)
  BY DEF Shape, Ordered
<1>2. PICK w : IsWalk(w, t, k) /\ Last(t, k) = w[t.root]
  BY LastIs
<1>3. Linked(t) /\ t.root \in Allocated(t) /\ k \in Int /\ 2 * k \in S[t.root]
  <2>1. Linked(t) /\ t.root \in Allocated(t) /\ k \in Int
    BY RbTreeAssumption DEF Shape, Linked
  <2> QED
    BY <1>1, <2>1 DEF OrderedBy
<1>4. Last(t, k) \in Allocated(t) /\ Down(t, k, Last(t, k)) = None
  <2>1. \A n \in Allocated(t) : 2 * k \in S[n] =>
          w[n] \in Allocated(t) /\ 2 * k \in S[w[n]] /\ Down(t, k, w[n]) = None
    BY <1>1, <1>2, <1>3, PassedDown
  <2> QED
    BY <1>2, <1>3, <2>1
<1>5. ASSUME NEW n \in Allocated(t) \ {x}, Key(t, n) = k PROVE Last(t, k) = n
  <2>1. 2 * k \in S[n] /\ n \in Nodes
    BY <1>1, <1>3, <1>5, AllocatedIs DEF OrderedBy
  <2>2. w[n] = w[t.root]
    BY <1>1, <1>2, <1>3, <2>1, PassedUp
  <2>3. Down(t, k, n) = None
    BY <1>3, <1>5 DEF Down
  <2> QED
    BY <1>2, <2>1, <2>2, <2>3 DEF IsWalk
<1>6. Last(t, k) # None
  BY <1>3, <1>4, AllocatedIs
<1> QED
  BY <1>4, <1>5, <1>6 DEF Find, Key

\* All nodes hang below the root.
LEMMA RootIsAbove ==
  ASSUME NEW t, NEW x, Shape(t, x)
  PROVE  \A n \in Allocated(t) \ {t.root} : t.root # None /\ \E d \in Dirs : GetChild(t, t.root, d) # None
<1> DEFINE Q == {n \in Nodes : n \in Allocated(t) \ {t.root} =>
                   t.root # None /\ \E d \in Dirs : GetChild(t, t.root, d) # None}
<1>1. PICK B, r : RankedBy(t, B, r)
  BY DEF Shape, Ranked
<1>2. Linked(t)
  BY DEF Shape
<1>3. ASSUME NEW n \in Nodes, \A p \in Nodes : r[n] < r[p] => p \in Q PROVE n \in Q
  <2> SUFFICES ASSUME n \in Allocated(t) \ {t.root}
               PROVE  t.root # None /\ \E d \in Dirs : GetChild(t, t.root, d) # None
    OBVIOUS
  <2> DEFINE p == Parent(t, n)
  <2>1. PICK d \in Dirs : GetChild(t, p, d) = n
    BY <1>2 DEF Linked
  <2>2. p \in Allocated(t) /\ p \in Nodes /\ n # None /\ p # None
    BY <1>2, AllocatedIs DEF Linked
  <2>3. p \in Q
    BY <1>1, <1>3, <2>1, <2>2 DEF RankedBy
  <2> HIDE DEF p
  <2> QED
    BY <2>1, <2>2, <2>3
<1> HIDE DEF Q
<1>4. \A n \in Nodes : n \in Q
  BY <1>1, <1>3, Upwards DEF RankedBy
<1> QED
  BY <1>2, <1>4, AllocatedIs DEF Q

\* What SearchTree says.
LEMMA ShapeIsSearchTree ==
  ASSUME Shape(tree, doomed)
  PROVE  SearchTree
<1>1. Linked(tree)
  BY DEF Shape
<1>2. ParentsAgree
  BY <1>1 DEF Linked, ParentsAgree, Dirs
<1>3. EntriesFound
  <2> SUFFICES ASSUME NEW n \in Allocated(tree) \ {doomed} PROVE Find(tree, Key(tree, n)) = n
    BY DEF EntriesFound, Key
  <2>1. Key(tree, n) \in Keys
    BY <1>1, AllocatedIs
  <2>2. tree.root # None
    BY <1>1, RootIsAbove, AllocatedIs
  <2> QED
    BY <2>1, <2>2, FindIs
<1> QED
  BY <1>2, <1>3 DEF SearchTree

--------------------------------------------------------------------------------
(* Changes that leave the shape, and rotations.                                  *)

SameLinks(s, t) ==
  /\ s \in Trees /\ s.root = t.root
  /\ \A n \in Nodes : /\ Key(s, n) = Key(t, n) /\ Parent(s, n) = Parent(t, n)
                      /\ \A d \in Dirs : GetChild(s, n, d) = GetChild(t, n, d)
  /\ \A n \in Nodes \ Allocated(t) : s.node[n] = Unused

LEMMA SameShape ==
  ASSUME NEW t, NEW x, Shape(t, x), NEW s, SameLinks(s, t)
  PROVE  Shape(s, x) /\ Allocated(s) = Allocated(t)
<1>1. Linked(t)
  BY DEF Shape
<1>2. Allocated(s) = Allocated(t)
  <2>1. ASSUME NEW n \in Nodes PROVE n \in Allocated(s) <=> n \in Allocated(t)
    <3>1. CASE n \in Allocated(t)
      <4>1. Key(s, n) \in Keys
        BY <1>1, <3>1, AllocatedIs DEF SameLinks
      <4> QED
        BY <3>1, <4>1, RbTreeAssumption DEF Key, Allocated, Unused
    <3>2. CASE n \notin Allocated(t)
      BY <3>2 DEF SameLinks, Allocated
    <3> QED
      BY <3>1, <3>2
  <2> QED
    BY <2>1 DEF Allocated
<1>3. Linked(s)
  <2>1. \A n \in Nodes : s.node[n] = Unused \/ Key(s, n) \in Keys
    BY <1>1 DEF Linked, SameLinks, Allocated
  <2>2. \A n \in Allocated(t) : n \in Nodes
    BY <1>1, AllocatedIs
  <2>3. \A n \in Allocated(s), d \in Dirs : GetChild(s, n, d) # None =>
           /\ GetChild(s, n, d) \in Allocated(s) /\ Parent(s, GetChild(s, n, d)) = n
           /\ GetChild(s, n, "left") # GetChild(s, n, "right")
    BY <1>1, <1>2, <2>2 DEF Linked, SameLinks, Dirs
  <2>4. \A n \in Allocated(s) \ {s.root} :
          Parent(s, n) \in Allocated(s) /\ \E d \in Dirs : GetChild(s, Parent(s, n), d) = n
    BY <1>1, <1>2, <2>2 DEF Linked, SameLinks
  <2>5. s.root # None => Parent(s, s.root) = None
    BY <1>1, <2>2 DEF Linked, SameLinks
  <2> QED
    BY <1>1, <1>2, <2>1, <2>3, <2>4, <2>5 DEF Linked, SameLinks
<1>4. Ranked(s)
  BY DEF Shape, Ranked, RankedBy, SameLinks
<1>5. Ordered(s, x)
  <2>1. PICK S : OrderedBy(t, x, S)
    BY DEF Shape, Ordered
  <2>2. \A n \in Allocated(t) : n \in Nodes
    BY <1>1, AllocatedIs
  <2>3. OrderedBy(s, x, S)
    BY <1>2, <2>1, <2>2 DEF OrderedBy, SameLinks
  <2> QED
    BY <2>3 DEF Ordered
<1> QED
  BY <1>2, <1>3, <1>4, <1>5 DEF Shape

\* Only colours change.
Painted(s, t, n, c) ==
  /\ SameLinks(s, t)
  /\ \A m \in Nodes : Val(s, m) = Val(t, m) /\ Color(s, m) = IF m = n THEN c ELSE Color(t, m)

LEMMA PaintIs ==
  ASSUME NEW t, Linked(t), NEW n \in Allocated(t), NEW c \in Colors
  PROVE  Painted(Paint(t, n, c), t, n, c)
<1>1. n \in Nodes /\ t \in Trees /\ \A m \in Nodes \ Allocated(t) : t.node[m] = Unused
  BY AllocatedIs DEF Linked
<1> QED
  BY <1>1, RbTreeAssumption
  DEF Paint, Painted, SameLinks, Trees, Fields, Color, Key, Val, Parent, GetChild, Dirs, Link

\* s is t after n has gone down to the side dir.
Rotated(s, t, dir, n) ==
  LET opp   == InvertDir(dir)
      up    == GetChild(t, n, opp)
      inner == GetChild(t, up, dir)
      par   == Parent(t, n)
  IN  /\ s \in Trees /\ s.root = IF par = None THEN up ELSE t.root
      /\ \A m \in Nodes \ Allocated(t) : s.node[m] = Unused
      /\ \A m \in Nodes : /\ Key(s, m) = Key(t, m) /\ Val(s, m) = Val(t, m) /\ Color(s, m) = Color(t, m)
                          /\ Parent(s, m) = IF m = n THEN up ELSE IF m = up THEN par
                                            ELSE IF m = inner THEN n ELSE Parent(t, m)
      /\ \A m \in Nodes, d \in Dirs :
           GetChild(s, m, d) = IF m = n /\ d = opp THEN inner
                               ELSE IF m = up /\ d = dir THEN n
                               ELSE IF m = par /\ GetChild(t, m, d) = n THEN up
                               ELSE GetChild(t, m, d)

\* The nodes a rotation is about.
Apart(t, dir, n) ==
  LET up    == GetChild(t, n, InvertDir(dir))
      inner == GetChild(t, up, dir)
      par   == Parent(t, n)
  IN  /\ up \in Allocated(t) /\ up # n /\ Parent(t, up) = n
      /\ inner = None \/ (inner \in Allocated(t) /\ inner # up /\ inner # n /\ Parent(t, inner) = up)
      /\ IF par = None THEN n = t.root
         ELSE /\ par \in Allocated(t) /\ par # n /\ par # up /\ par # inner /\ n # t.root
              /\ GetDir(t, n) \in Dirs /\ GetChild(t, par, GetDir(t, n)) = n
              /\ GetChild(t, par, InvertDir(GetDir(t, n))) # n

LEMMA ApartIs ==
  ASSUME NEW t, Linked(t), Ranked(t), NEW dir \in Dirs, NEW n \in Allocated(t),
         GetChild(t, n, InvertDir(dir)) # None
  PROVE  Apart(t, dir, n)
<1> DEFINE up    == GetChild(t, n, InvertDir(dir))
           inner == GetChild(t, up, dir)
           par   == Parent(t, n)
<1>1. PICK B, r : RankedBy(t, B, r)
  BY DEF Ranked
<1>2. InvertDir(dir) \in Dirs /\ n \in Nodes /\ n # None
  BY AllocatedIs DEF InvertDir, Dirs
<1>3. up \in Allocated(t) /\ Parent(t, up) = n /\ r[up] < r[n] /\ up \in Nodes
  BY <1>1, <1>2, AllocatedIs DEF Linked, RankedBy
<1> HIDE DEF up
<1>4. inner # None => inner \in Allocated(t) /\ Parent(t, inner) = up /\ r[inner] < r[up] /\ inner \in Nodes
  BY <1>1, <1>3, AllocatedIs DEF Linked, RankedBy
<1> HIDE DEF inner
<1>5. par = None => n = t.root
  BY <1>2, AllocatedIs DEF Linked
<1>6. par # None => /\ n # t.root /\ par \in Allocated(t) /\ par \in Nodes
                    /\ GetDir(t, n) \in Dirs /\ GetChild(t, par, GetDir(t, n)) = n
                    /\ GetChild(t, par, InvertDir(GetDir(t, n))) # n
                    /\ r[n] < r[par]
  <2> SUFFICES ASSUME par # None PROVE /\ n # t.root /\ par \in Allocated(t) /\ par \in Nodes
                    /\ GetDir(t, n) \in Dirs /\ GetChild(t, par, GetDir(t, n)) = n
                    /\ GetChild(t, par, InvertDir(GetDir(t, n))) # n
                    /\ r[n] < r[par]
    OBVIOUS
  <2>1. n # t.root
    BY <1>2 DEF Linked
  <2>2. GetDir(t, n) \in Dirs /\ GetChild(t, par, GetDir(t, n)) = n /\ par \in Allocated(t)
        /\ GetChild(t, par, InvertDir(GetDir(t, n))) # n
    BY <2>1, GetDirIs
  <2> QED
    BY <1>1, <1>2, <2>1, <2>2, AllocatedIs DEF RankedBy
<1> HIDE DEF par
<1>7. r[n] \in Int /\ r[up] \in Int /\ (inner # None => r[inner] \in Int) /\ (par # None => r[par] \in Int)
  BY <1>1, <1>2, <1>3, <1>4, <1>6 DEF RankedBy
<1>8. up # n /\ (inner # None => inner # up /\ inner # n)
  BY <1>3, <1>4, <1>7
<1>9. par # None => par # n /\ par # up /\ par # inner
  BY <1>3, <1>4, <1>6, <1>7
<1> QED
  BY <1>3, <1>4, <1>5, <1>6, <1>8, <1>9 DEF Apart, up, inner, par

LEMMA RotateIs ==
  ASSUME NEW t, Linked(t), NEW dir \in Dirs, NEW n \in Allocated(t), Apart(t, dir, n)
  PROVE  Rotated(Rotate(t, dir, n), t, dir, n)
<1> DEFINE opp   == InvertDir(dir)
           up    == GetChild(t, n, opp)
           inner == GetChild(t, up, dir)
           par   == Parent(t, n)
           s     == Rotate(t, dir, n)
           fn    == [t.node[n] EXCEPT ![opp] = inner, !.parent = up]
           fup   == [t.node[up] EXCEPT ![dir] = n, !.parent = par]
           fin   == [t.node[inner] EXCEPT !.parent = n]
           fpar  == [t.node[par] EXCEPT ![GetDir(t, n)] = up]
           F     == [x \in Nodes |-> CASE x = n -> fn [] x = up -> fup [] x = inner -> fin [] x = par -> fpar
                                        [] OTHER -> t.node[x]]
<1>1. s = [root |-> IF par = None THEN up ELSE t.root, node |-> F]
  BY DEF Rotate
<1>2. /\ opp \in Dirs /\ opp # dir /\ n \in Nodes /\ up \in Nodes /\ inner \in Link /\ par \in Link
      /\ t \in Trees /\ \A m \in Nodes \ Allocated(t) : t.node[m] = Unused
  BY AllocatedIs DEF InvertDir, Dirs, Apart, Linked
<1>3. /\ up \in Allocated(t) /\ up # n
      /\ inner = None \/ (inner \in Allocated(t) /\ inner # up /\ inner # n)
      /\ par = None \/ (/\ par \in Allocated(t) /\ par # n /\ par # up /\ par # inner /\ GetDir(t, n) \in Dirs
                        /\ GetChild(t, par, GetDir(t, n)) = n /\ GetChild(t, par, InvertDir(GetDir(t, n))) # n)
  BY DEF Apart
<1> HIDE DEF opp, up, inner, par, s, F
<1>4. None \notin Nodes /\ n \in Nodes /\ up \in Nodes
  BY <1>2, AllocatedIs
<1>5. /\ fn \in Fields /\ fn.key = Key(t, n) /\ fn.val = Val(t, n) /\ fn.color = t.node[n].color
      /\ fn.parent = up /\ \A d \in Dirs : fn[d] = IF d = opp THEN inner ELSE GetChild(t, n, d)
  BY <1>2, <1>4 DEF Trees, Fields, Dirs, Link, Key, Val, GetChild
<1>6. /\ fup \in Fields /\ fup.key = Key(t, up) /\ fup.val = Val(t, up) /\ fup.color = t.node[up].color
      /\ fup.parent = par /\ \A d \in Dirs : fup[d] = IF d = dir THEN n ELSE GetChild(t, up, d)
  BY <1>2, <1>4 DEF Trees, Fields, Dirs, Link, Key, Val, GetChild
<1>7. inner # None =>
      /\ fin \in Fields /\ fin.key = Key(t, inner) /\ fin.val = Val(t, inner) /\ fin.color = t.node[inner].color
      /\ fin.parent = n /\ \A d \in Dirs : fin[d] = GetChild(t, inner, d)
  BY <1>2, <1>4 DEF Trees, Fields, Dirs, Link, Key, Val, GetChild
<1>8. par # None =>
      /\ fpar \in Fields /\ fpar.key = Key(t, par) /\ fpar.val = Val(t, par) /\ fpar.color = t.node[par].color
      /\ fpar.parent = Parent(t, par) /\ \A d \in Dirs : fpar[d] = IF d = GetDir(t, n) THEN up ELSE GetChild(t, par, d)
  BY <1>2, <1>3, <1>4 DEF Trees, Fields, Dirs, Link, Key, Val, GetChild, Parent
<1> HIDE DEF fn, fup, fin, fpar
<1>9. \A m \in Nodes : F[m] = IF m = n THEN fn ELSE IF m = up THEN fup ELSE IF m = inner THEN fin
                                 ELSE IF m = par THEN fpar ELSE t.node[m]
  <2> SUFFICES ASSUME NEW m \in Nodes
               PROVE  F[m] = IF m = n THEN fn ELSE IF m = up THEN fup ELSE IF m = inner THEN fin
                                 ELSE IF m = par THEN fpar ELSE t.node[m]
    OBVIOUS
  <2>0. m # None
    BY <1>4
  <2>1. F[m] = CASE m = n -> fn [] m = up -> fup [] m = inner -> fin [] m = par -> fpar [] OTHER -> t.node[m]
    BY DEF F
  <2>2. CASE m = n
    BY <1>3, <1>4, <2>1, <2>2
  <2>3. CASE m = up
    BY <1>3, <1>4, <2>1, <2>3
  <2>4. CASE m = inner
    BY <1>3, <1>4, <2>1, <2>4
  <2>5. CASE m = par
    BY <1>3, <1>4, <2>1, <2>5
  <2>6. CASE m # n /\ m # up /\ m # inner /\ m # par
    BY <2>1, <2>6
  <2> QED
    BY <2>2, <2>3, <2>4, <2>5, <2>6
<1>10. s.root = (IF par = None THEN up ELSE t.root) /\ s.node = F
  BY <1>1
<1>11. \A d \in Dirs : par # None => (d = GetDir(t, n) <=> GetChild(t, par, d) = n)
  BY <1>3 DEF Dirs, InvertDir
<1>12. F \in [Nodes -> Fields]
  <2>1. \A m \in Nodes : F[m] \in Fields
    BY <1>2, <1>4, <1>5, <1>6, <1>7, <1>8, <1>9, <1>10 DEF Trees
  <2> QED
    BY <2>1 DEF F
<1>13. s \in Trees
  <2>1. s.root \in Link
    BY <1>2, <1>10 DEF Trees, Link
  <2> QED
    BY <1>1, <1>12, <2>1 DEF Trees
<1>14. \A m \in Nodes \ Allocated(t) : s.node[m] = Unused
  BY <1>2, <1>3, <1>4, <1>9, <1>10
<1>15. \A m \in Nodes : Key(s, m) = Key(t, m) /\ Val(s, m) = Val(t, m) /\ Color(s, m) = Color(t, m)
  BY <1>4, <1>5, <1>6, <1>7, <1>8, <1>9, <1>10 DEF Key, Val, Color
<1>16. \A m \in Nodes : Parent(s, m) = IF m = n THEN up ELSE IF m = up THEN par
                                       ELSE IF m = inner THEN n ELSE Parent(t, m)
  BY <1>4, <1>5, <1>6, <1>7, <1>8, <1>9, <1>10 DEF Parent
<1>17. \A m \in Nodes, d \in Dirs :
           GetChild(s, m, d) = IF m = n /\ d = opp THEN inner
                               ELSE IF m = up /\ d = dir THEN n
                               ELSE IF m = par /\ GetChild(t, m, d) = n THEN up
                               ELSE GetChild(t, m, d)
  <2> SUFFICES ASSUME NEW m \in Nodes, NEW d \in Dirs
               PROVE GetChild(s, m, d) = IF m = n /\ d = opp THEN inner
                               ELSE IF m = up /\ d = dir THEN n
                               ELSE IF m = par /\ GetChild(t, m, d) = n THEN up
                               ELSE GetChild(t, m, d)
    OBVIOUS
  <2>1. CASE m = n
    BY <1>3, <1>4, <1>5, <1>9, <1>10, <2>1 DEF GetChild
  <2>2. CASE m = up
    BY <1>3, <1>4, <1>6, <1>9, <1>10, <2>2 DEF GetChild
  <2>3. CASE m = inner
    BY <1>3, <1>4, <1>7, <1>9, <1>10, <2>3 DEF GetChild
  <2>4. CASE m = par
    BY <1>3, <1>4, <1>8, <1>9, <1>10, <1>11, <2>4 DEF GetChild
  <2>5. CASE m # n /\ m # up /\ m # inner /\ m # par
    BY <1>9, <1>10, <2>5 DEF GetChild
  <2> QED
    BY <2>1, <2>2, <2>3, <2>4, <2>5
<1> QED
  <2> USE DEF opp, up, inner, par
  <2>1. s \in Trees /\ s.root = IF Parent(t, n) = None THEN GetChild(t, n, InvertDir(dir)) ELSE t.root
    BY <1>10, <1>13
  <2> QED
    BY <1>14, <1>15, <1>16, <1>17, <2>1 DEF Rotated, s

\* The same with the nodes named: up comes up, inner changes hands, par is above.
Turned(s, t, dir, opp, n, up, inner, par) ==
  /\ dir \in Dirs /\ opp \in Dirs /\ opp # dir /\ n \in Allocated(t) /\ n # None
  /\ up \in Allocated(t) /\ up # n /\ up # None /\ Parent(t, up) = n /\ GetChild(t, n, opp) = up
  /\ GetChild(t, up, dir) = inner
  /\ inner = None \/ (inner \in Allocated(t) /\ inner # up /\ inner # n /\ Parent(t, inner) = up)
  /\ Parent(t, n) = par
  /\ IF par = None THEN n = t.root
     ELSE par \in Allocated(t) /\ par # n /\ par # up /\ par # inner /\ n # t.root
  /\ s \in Trees /\ s.root = IF par = None THEN up ELSE t.root
  /\ \A m \in Nodes \ Allocated(t) : s.node[m] = Unused
  /\ \A m \in Nodes : /\ Key(s, m) = Key(t, m) /\ Val(s, m) = Val(t, m) /\ Color(s, m) = Color(t, m)
                      /\ Parent(s, m) = IF m = n THEN up ELSE IF m = up THEN par
                                        ELSE IF m = inner THEN n ELSE Parent(t, m)
  /\ \A m \in Nodes, d \in Dirs :
       GetChild(s, m, d) = IF m = n /\ d = opp THEN inner
                           ELSE IF m = up /\ d = dir THEN n
                           ELSE IF m = par /\ GetChild(t, m, d) = n THEN up
                           ELSE GetChild(t, m, d)

LEMMA TurnedIs ==
  ASSUME NEW t, Linked(t), Ranked(t), NEW dir \in Dirs, NEW n \in Allocated(t),
         GetChild(t, n, InvertDir(dir)) # None
  PROVE  LET opp   == InvertDir(dir)
             up    == GetChild(t, n, opp)
             inner == GetChild(t, up, dir)
             par   == Parent(t, n)
         IN  Turned(Rotate(t, dir, n), t, dir, opp, n, up, inner, par)
<1> DEFINE opp   == InvertDir(dir)
           up    == GetChild(t, n, opp)
           inner == GetChild(t, up, dir)
           par   == Parent(t, n)
           s     == Rotate(t, dir, n)
<1>1. Apart(t, dir, n)
  BY ApartIs
<1>2. Rotated(s, t, dir, n)
  BY <1>1, RotateIs
<1>3. opp \in Dirs /\ opp # dir /\ None \notin Allocated(t)
  BY AllocatedIs DEF InvertDir, Dirs
<1>4. /\ up \in Allocated(t) /\ up # n /\ Parent(t, up) = n
      /\ inner = None \/ (inner \in Allocated(t) /\ inner # up /\ inner # n /\ Parent(t, inner) = up)
      /\ IF par = None THEN n = t.root
         ELSE par \in Allocated(t) /\ par # n /\ par # up /\ par # inner /\ n # t.root
  BY <1>1 DEF Apart
<1>5. /\ s \in Trees /\ s.root = IF par = None THEN up ELSE t.root
      /\ \A m \in Nodes \ Allocated(t) : s.node[m] = Unused
      /\ \A m \in Nodes : /\ Key(s, m) = Key(t, m) /\ Val(s, m) = Val(t, m) /\ Color(s, m) = Color(t, m)
                          /\ Parent(s, m) = IF m = n THEN up ELSE IF m = up THEN par
                                            ELSE IF m = inner THEN n ELSE Parent(t, m)
      /\ \A m \in Nodes, d \in Dirs :
           GetChild(s, m, d) = IF m = n /\ d = opp THEN inner
                               ELSE IF m = up /\ d = dir THEN n
                               ELSE IF m = par /\ GetChild(t, m, d) = n THEN up
                               ELSE GetChild(t, m, d)
  BY <1>2 DEF Rotated
<1>6. GetChild(t, n, opp) = up /\ GetChild(t, up, dir) = inner /\ Parent(t, n) = par
  OBVIOUS
<1> HIDE DEF opp, up, inner, par, s
<1>7. Turned(s, t, dir, opp, n, up, inner, par)
  BY <1>3, <1>4, <1>5, <1>6 DEF Turned
<1> QED
  BY <1>7 DEF opp, up, inner, par, s

LEMMA TurnedAllocated ==
  ASSUME NEW s, NEW t, NEW dir, NEW opp, NEW n, NEW up, NEW inner, NEW par,
         Linked(t), Turned(s, t, dir, opp, n, up, inner, par)
  PROVE  Allocated(s) = Allocated(t)
<1>1. ASSUME NEW m \in Nodes PROVE m \in Allocated(s) <=> m \in Allocated(t)
  <2>1. CASE m \in Allocated(t)
    <3>1. Key(s, m) \in Keys
      BY <2>1, AllocatedIs DEF Turned
    <3> QED
      BY <2>1, <3>1, RbTreeAssumption DEF Key, Allocated, Unused
  <2>2. CASE m \notin Allocated(t)
    BY <2>2 DEF Turned, Allocated
  <2> QED
    BY <2>1, <2>2
<1> QED
  BY <1>1 DEF Allocated

LEMMA TurnedLinked ==
  ASSUME NEW s, NEW t, NEW dir, NEW opp, NEW n, NEW up, NEW inner, NEW par,
         Linked(t), Turned(s, t, dir, opp, n, up, inner, par)
  PROVE  Linked(s)
<1>1. Allocated(s) = Allocated(t)
  BY TurnedAllocated
<1>2. Allocated(t) \subseteq Nodes /\ None \notin Nodes
  BY AllocatedIs
<1>3. \A m \in Nodes : s.node[m] = Unused \/ Key(s, m) \in Keys
  BY AllocatedIs DEF Turned
<1>4. s.root \in Allocated(t) \union {None} /\ (s.root # None => Parent(s, s.root) = None)
  BY <1>2 DEF Turned, Linked
<1>5. ASSUME NEW m \in Allocated(t), NEW d \in Dirs, GetChild(s, m, d) # None
      PROVE  /\ GetChild(s, m, d) \in Allocated(t) /\ Parent(s, GetChild(s, m, d)) = m
             /\ GetChild(s, m, "left") # GetChild(s, m, "right")
  <2>1. CASE m = n
    BY <1>2, <1>5, <2>1 DEF Turned, Linked, Dirs
  <2>2. CASE m = up
    BY <1>2, <1>5, <2>2 DEF Turned, Linked, Dirs
  <2>3. CASE m # n /\ m # up
    BY <1>2, <1>5, <2>3 DEF Turned, Linked, Dirs
  <2> QED
    BY <2>1, <2>2, <2>3
<1>6. ASSUME NEW m \in Allocated(t) \ {s.root}
      PROVE  Parent(s, m) \in Allocated(t) /\ \E d \in Dirs : GetChild(s, Parent(s, m), d) = m
  <2>1. CASE m = n
    BY <1>2, <1>6, <2>1 DEF Turned, Linked, Dirs
  <2>2. CASE m = up
    <3>1. par # None /\ n \in Allocated(t) \ {t.root} /\ Parent(t, n) = par
      BY <1>6, <2>2 DEF Turned
    <3>2. PICK d \in Dirs : GetChild(t, par, d) = n
      BY <3>1 DEF Linked
    <3> QED
      BY <1>2, <1>6, <2>2, <3>1, <3>2 DEF Turned
  <2>3. CASE m = inner
    BY <1>2, <1>6, <2>3 DEF Turned, Linked, Dirs
  <2>4. CASE m # n /\ m # up /\ m # inner
    <3>1. m # t.root
      BY <1>6, <2>4 DEF Turned
    <3>2. PICK d \in Dirs : GetChild(t, Parent(t, m), d) = m
      BY <3>1 DEF Linked
    <3>3. Parent(t, m) \in Allocated(t)
      BY <3>1 DEF Linked
    <3>4. GetChild(s, Parent(t, m), d) = m /\ Parent(s, m) = Parent(t, m)
      BY <1>2, <2>4, <3>2, <3>3 DEF Turned
    <3> QED
      BY <3>3, <3>4
  <2> QED
    BY <2>1, <2>2, <2>3, <2>4
<1>7. s \in Trees
  BY DEF Turned
<1> QED
  BY <1>1, <1>3, <1>4, <1>5, <1>6, <1>7 DEF Linked

LEMMA TurnedRanked ==
  ASSUME NEW s, NEW t, NEW dir, NEW opp, NEW n, NEW up, NEW inner, NEW par,
         Linked(t), Ranked(t), Turned(s, t, dir, opp, n, up, inner, par)
  PROVE  Ranked(s)
<1>1. PICK B, r : RankedBy(t, B, r)
  BY DEF Ranked
<1> DEFINE q == [m \in Nodes |-> IF m = n THEN 2 * r[n] - 1 ELSE IF m = up THEN 2 * r[n] ELSE 2 * r[m]]
<1>2. Allocated(t) \subseteq Nodes /\ None \notin Nodes /\ n \in Nodes /\ up \in Nodes
      /\ (inner # None => inner \in Nodes) /\ (par # None => par \in Nodes) /\ dir \in Dirs /\ opp \in Dirs
  BY AllocatedIs DEF Turned
<1>3. \A m \in Nodes : r[m] \in Nat /\ r[m] <= B
  BY <1>1 DEF RankedBy
<1>4. r[up] < r[n] /\ (inner # None => r[inner] < r[up]) /\ B \in Nat
  BY <1>1, <1>2 DEF Turned, RankedBy
<1>5. q \in [Nodes -> 0 .. 2 * B]
  BY <1>2, <1>3, <1>4
<1>6. \A m \in Nodes : q[m] = IF m = n THEN 2 * r[n] - 1 ELSE IF m = up THEN 2 * r[n] ELSE 2 * r[m]
  OBVIOUS
<1> HIDE DEF q
<1>7. ASSUME NEW m \in Nodes, NEW d \in Dirs, GetChild(s, m, d) # None
      PROVE  q[GetChild(s, m, d)] < q[m]
  <2> DEFINE c == GetChild(t, m, d)
  <2>1. c # None => c \in Nodes /\ r[c] < r[m]
    BY <1>1, <1>2, AllocatedIs DEF RankedBy, Link
  <2>2. CASE m = n /\ d = opp
    <3>1. GetChild(s, m, d) = inner
      BY <1>2, <2>2 DEF Turned
    <3> QED
      BY <1>2, <1>3, <1>4, <1>6, <1>7, <2>2, <3>1 DEF Turned
  <2>3. CASE m = up /\ d = dir
    <3>1. GetChild(s, m, d) = n
      BY <1>2, <2>3 DEF Turned
    <3> QED
      BY <1>2, <1>3, <1>4, <1>6, <2>3, <3>1 DEF Turned
  <2>4. CASE m = par /\ c = n
    <3>1. GetChild(s, m, d) = up /\ r[n] < r[m] /\ m # n /\ m # up
      BY <1>2, <2>1, <2>4 DEF Turned
    <3> QED
      BY <1>2, <1>3, <1>6, <2>4, <3>1
  <2>5. CASE ~(m = n /\ d = opp) /\ ~(m = up /\ d = dir) /\ ~(m = par /\ c = n)
    <3>1. GetChild(s, m, d) = c
      BY <2>5 DEF Turned
    <3>2. c \in Nodes /\ c \in Allocated(t) /\ Parent(t, c) = m
      BY <1>7, <2>1, <3>1, AllocatedIs DEF Linked
    <3>3. c # n /\ c # up
      BY <2>5, <3>2, <1>7 DEF Turned, Dirs, Linked
    <3>4. q[c] = 2 * r[c] /\ r[c] < r[m]
      BY <1>6, <1>7, <2>1, <3>1, <3>2, <3>3
    <3> HIDE DEF c
    <3>5. 2 * r[c] < q[m]
      <4>1. CASE m = n
        BY <1>2, <1>3, <1>6, <3>2, <3>4, <4>1
      <4>2. CASE m = up
        BY <1>2, <1>3, <1>4, <1>6, <3>2, <3>4, <4>2
      <4>3. CASE m # n /\ m # up
        BY <1>2, <1>3, <1>6, <3>2, <3>4, <4>3
      <4> QED
        BY <4>1, <4>2, <4>3
    <3> QED
      BY <3>1, <3>4, <3>5
  <2> QED
    BY <2>2, <2>3, <2>4, <2>5
<1>8. RankedBy(s, 2 * B, q)
  BY <1>4, <1>5, <1>7 DEF RankedBy
<1> QED
  BY <1>8 DEF Ranked

LEMMA TurnedOrdered ==
  ASSUME NEW s, NEW t, NEW dir, NEW opp, NEW n, NEW up, NEW inner, NEW par, NEW x,
         Linked(t), Ordered(t, x), Turned(s, t, dir, opp, n, up, inner, par), n # x, up # x
  PROVE  Ordered(s, x)
<1>1. PICK S : OrderedBy(t, x, S)
  BY DEF Ordered
<1> DEFINE kn == Key(t, n)
           ku == Key(t, up)
           R  == [m \in Nodes |-> IF m = up THEN S[n]
                                  ELSE IF m = n THEN {j \in S[n] : Side(dir, j, ku)} ELSE S[m]]
<1>2. Allocated(t) \subseteq Nodes /\ None \notin Nodes /\ n \in Nodes /\ up \in Nodes
      /\ (inner # None => inner \in Nodes) /\ (par # None => par \in Nodes) /\ dir \in Dirs /\ opp \in Dirs
      /\ opp # dir /\ up # n
  BY AllocatedIs DEF Turned
<1>3. kn \in Int /\ ku \in Int /\ \A m \in Allocated(t) : Key(t, m) \in Int
  BY AllocatedIs DEF Turned
<1> HIDE DEF kn, ku
<1>4. R \in [Nodes -> SUBSET Int]
  BY <1>1, <1>2 DEF OrderedBy
<1>5. \A m \in Nodes : m # n /\ m # up => R[m] = S[m]
  OBVIOUS
<1>6. R[up] = S[n] /\ \A j \in Int : j \in R[n] <=> (j \in S[n] /\ Side(dir, j, ku))
  BY <1>2
<1> HIDE DEF R
<1>7. \A j \in Int : j \in S[up] <=> (j \in S[n] /\ Side(opp, j, kn))
  BY <1>1 DEF OrderedBy, Turned, kn
<1>8. 2 * ku \in S[n] /\ Side(opp, 2 * ku, kn) /\ 2 * kn \in S[n]
  BY <1>1, <1>3, <1>7 DEF OrderedBy, Turned, ku, kn
<1>9. \A j \in Int : (Side(dir, j, kn) => Side(dir, j, ku)) /\ (Side(opp, j, ku) => Side(opp, j, kn))
  BY <1>2, <1>3, <1>8 DEF Side, Dirs
<1>10. Side(dir, 2 * kn, ku)
  BY <1>2, <1>3, <1>8 DEF Side, Dirs
<1>11. Allocated(s) = Allocated(t)
  BY TurnedAllocated
<1>12. s.root # None => \A j \in Int : j \in R[s.root]
  <2>1. CASE par = None
    BY <1>1, <1>2, <1>6, <2>1 DEF Turned, OrderedBy
  <2>2. CASE par # None
    BY <1>1, <1>2, <1>5, <2>2 DEF Turned, OrderedBy, Linked
  <2> QED
    BY <2>1, <2>2
<1>13. ASSUME NEW m \in Allocated(t), NEW d \in Dirs, GetChild(s, m, d) # None, NEW j \in Int
       PROVE  j \in R[GetChild(s, m, d)] <=> (j \in R[m] /\ Side(d, j, Key(t, m)))
  <2> DEFINE c == GetChild(t, m, d)
  <2>1. c # None => j \in S[c] <=> (j \in S[m] /\ Side(d, j, Key(t, m)))
    BY <1>1 DEF OrderedBy
  <2>2. CASE m = n /\ d = opp
    <3>1. GetChild(s, m, d) = inner /\ inner # None /\ inner # n /\ inner # up
      BY <1>2, <1>13, <2>2 DEF Turned
    <3>2. j \in S[inner] <=> (j \in S[up] /\ Side(dir, j, ku))
      BY <1>1, <3>1 DEF OrderedBy, Turned, ku
    <3>3. Key(t, m) = kn
      BY <2>2 DEF kn
    <3>4. R[inner] = S[inner]
      BY <1>2, <1>5, <3>1
    <3> QED
      BY <1>6, <1>7, <2>2, <3>1, <3>2, <3>3, <3>4
  <2>3. CASE m = up /\ d = dir
    <3>1. GetChild(s, m, d) = n /\ Key(t, m) = ku
      BY <1>2, <2>3 DEF Turned, ku
    <3> QED
      BY <1>6, <2>3, <3>1
  <2>4. CASE m = par /\ c = n
    <3>1. GetChild(s, m, d) = up /\ m # n /\ m # up /\ n # None
      BY <1>2, <2>4 DEF Turned
    <3> QED
      BY <1>2, <1>5, <1>6, <2>1, <2>4, <3>1
  <2>5. CASE ~(m = n /\ d = opp) /\ ~(m = up /\ d = dir) /\ ~(m = par /\ c = n)
    <3>1. GetChild(s, m, d) = c
      BY <1>2, <2>5 DEF Turned
    <3>2. c # None /\ c \in Nodes /\ c \in Allocated(t) /\ Parent(t, c) = m
      BY <1>2, <1>13, <3>1 DEF Linked
    <3>3. c # n /\ c # up
      BY <2>5, <3>2 DEF Turned, Dirs, Linked
    <3>4. R[c] = S[c]
      BY <1>5, <3>2, <3>3
    <3> HIDE DEF c
    <3>5. CASE m = n
      <4>1. d = dir /\ Key(t, m) = kn
        BY <1>2, <2>5, <3>5 DEF Dirs, kn
      <4> QED
        BY <1>6, <1>9, <2>1, <3>1, <3>2, <3>4, <3>5, <4>1
    <3>6. CASE m = up
      <4>1. d = opp /\ Key(t, m) = ku
        BY <1>2, <2>5, <3>6 DEF Dirs, ku
      <4> QED
        BY <1>6, <1>7, <1>9, <2>1, <3>1, <3>2, <3>4, <3>6, <4>1
    <3>7. CASE m # n /\ m # up
      BY <1>2, <1>5, <2>1, <3>1, <3>2, <3>4, <3>7
    <3> QED
      BY <3>5, <3>6, <3>7
  <2> QED
    BY <2>2, <2>3, <2>4, <2>5
<1>14. ASSUME NEW m \in Allocated(t) \ {x} PROVE 2 * Key(t, m) \in R[m]
  <2>1. CASE m = n
    BY <1>3, <1>6, <1>8, <1>10, <2>1 DEF kn
  <2>2. CASE m = up
    BY <1>6, <1>8, <2>2 DEF ku
  <2>3. CASE m # n /\ m # up
    BY <1>1, <1>2, <1>5, <2>3 DEF OrderedBy
  <2> QED
    BY <2>1, <2>2, <2>3
<1>15. \A m \in Allocated(t) : Key(s, m) = Key(t, m)
  BY <1>2 DEF Turned
<1>16. OrderedBy(s, x, R)
  BY <1>4, <1>11, <1>12, <1>13, <1>14, <1>15 DEF OrderedBy
<1> QED
  BY <1>16 DEF Ordered

LEMMA TurnedShape ==
  ASSUME NEW s, NEW t, NEW dir, NEW opp, NEW n, NEW up, NEW inner, NEW par, NEW x,
         Shape(t, x), Turned(s, t, dir, opp, n, up, inner, par), n # x, up # x
  PROVE  Shape(s, x) /\ Allocated(s) = Allocated(t)
BY TurnedAllocated, TurnedLinked, TurnedRanked, TurnedOrdered DEF Shape

--------------------------------------------------------------------------------
(* Heights. c[m] is what a path that crosses m counts for it.                    *)

Tall(t, c, h) ==
  /\ h \in [Link -> Int] /\ h[None] = 0
  /\ \A m \in Allocated(t), d \in Dirs : h[m] = h[GetChild(t, m, d)] + c[m]

\* All paths down from a node count the same.
Balanced(t, c) == \E h : Tall(t, c, h)

Weight(t, lacking, gone, m) ==
  (IF Color(t, m) = "BLACK" /\ m # gone THEN 1 ELSE 0) + (IF m = lacking THEN 1 ELSE 0)

\* One for a black node that stays, and one more where a repair has to make up for one.
Weights(t, lacking, gone) == [m \in Nodes |-> Weight(t, lacking, gone, m)]

LEMMA TallIsNat ==
  ASSUME NEW t, Linked(t), Ranked(t), NEW c, \A m \in Allocated(t) : c[m] \in Nat,
         NEW h, Tall(t, c, h)
  PROVE  \A m \in Allocated(t) \union {None} : h[m] \in Nat
<1> DEFINE Q == {n \in Nodes : n \in Allocated(t) => h[n] \in Nat}
<1>1. PICK B, r : RankedBy(t, B, r)
  BY DEF Ranked
<1>2. ASSUME NEW n \in Nodes, \A m \in Nodes : r[m] < r[n] => m \in Q PROVE n \in Q
  <2> SUFFICES ASSUME n \in Allocated(t) PROVE h[n] \in Nat
    OBVIOUS
  <2> DEFINE l == GetChild(t, n, "left")
  <2>1. l # None => l \in Allocated(t) /\ l \in Nodes /\ r[l] < r[n]
    BY <1>1, AllocatedIs DEF RankedBy, Linked, Dirs
  <2>2. h[l] \in Nat
    BY <1>2, <2>1 DEF Tall
  <2>3. h[n] = h[l] + c[n]
    BY DEF Tall, Dirs
  <2> HIDE DEF l
  <2> QED
    BY <2>2, <2>3
<1> HIDE DEF Q
<1>3. \A n \in Nodes : n \in Q
  BY <1>1, <1>2, Downwards DEF RankedBy
<1> QED
  BY <1>3, AllocatedIs DEF Q, Tall

\* Only the links count.
LEMMA SameTall ==
  ASSUME NEW t, NEW s, Linked(t), SameLinks(s, t), Allocated(s) = Allocated(t), NEW c, Balanced(t, c)
  PROVE  Balanced(s, c)
<1>1. PICK h : Tall(t, c, h)
  BY DEF Balanced
<1>2. Tall(s, c, h)
  BY <1>1, AllocatedIs DEF Tall, SameLinks
<1> QED
  BY <1>2 DEF Balanced

LEMMA SameWeights ==
  ASSUME NEW t, NEW c, NEW e, \A m \in Allocated(t) : e[m] = c[m], Balanced(t, c)
  PROVE  Balanced(t, e)
<1>1. PICK h : Tall(t, c, h)
  BY DEF Balanced
<1>2. Tall(t, e, h)
  BY <1>1 DEF Tall
<1> QED
  BY <1>2 DEF Balanced

\* What counts at a node may count at both its children.
LEMMA Push ==
  ASSUME NEW t, Linked(t), Ranked(t), NEW c, \A m \in Allocated(t) : c[m] \in Int, Balanced(t, c),
         NEW n \in Allocated(t), \A d \in Dirs : GetChild(t, n, d) # None, NEW i \in Int, NEW e,
         \A m \in Allocated(t) : e[m] = IF m = n THEN c[n] - i
                                        ELSE IF Parent(t, m) = n THEN c[m] + i ELSE c[m]
  PROVE  Balanced(t, e)
<1>1. PICK h : Tall(t, c, h)
  BY DEF Balanced
<1> DEFINE g == [m \in Link |-> IF m # None /\ Parent(t, m) = n THEN h[m] + i ELSE h[m]]
<1>2. None \notin Allocated(t) /\ Allocated(t) \subseteq Link
  BY AllocatedIs DEF Link
<1>3. g \in [Link -> Int] /\ g[None] = 0
  BY <1>1 DEF Tall, Link
<1>4. \A m \in Allocated(t) : g[m] = IF Parent(t, m) = n THEN h[m] + i ELSE h[m]
  BY <1>2
<1> HIDE DEF g
<1>5. Parent(t, n) # n
  <2>1. PICK B, r : RankedBy(t, B, r)
    BY DEF Ranked
  <2>2. r[n] \in Int
    BY <2>1, AllocatedIs DEF RankedBy
  <2>3. Parent(t, n) = n => \E d \in Dirs : GetChild(t, n, d) = n
    BY <1>2 DEF Linked
  <2> QED
    BY <1>2, <2>1, <2>2, <2>3, AllocatedIs DEF RankedBy
<1>6. ASSUME NEW m \in Allocated(t), NEW d \in Dirs PROVE g[m] = g[GetChild(t, m, d)] + e[m]
  <2> DEFINE k == GetChild(t, m, d)
  <2>1. h[m] = h[k] + c[m] /\ h[m] \in Int /\ c[m] \in Int
    BY <1>1, <1>2 DEF Tall
  <2>2. k # None => k \in Allocated(t) /\ Parent(t, k) = m
    BY DEF Linked
  <2> HIDE DEF k
  <2>3. h[k] \in Int
    BY <1>1, <1>2, <2>2 DEF Tall, Link
  <2>4. CASE m = n
    <3>1. k # None
      BY <2>4 DEF k
    <3>2. g[k] = h[k] + i /\ g[m] = h[m] /\ e[m] = c[m] - i
      BY <1>4, <1>5, <2>2, <2>4, <3>1
    <3> QED
      BY <2>1, <2>3, <3>2 DEF k
  <2>5. CASE m # n
    <3>1. g[k] = h[k]
      BY <1>1, <1>3, <1>4, <2>2, <2>5 DEF Tall
    <3>2. g[m] - h[m] = e[m] - c[m]
      BY <1>4, <2>1, <2>5
    <3>3. e[m] \in Int /\ g[m] \in Int
      BY <1>2, <1>3, <2>1, <2>5
    <3> QED
      BY <2>1, <2>3, <3>1, <3>2, <3>3 DEF k
  <2> QED
    BY <2>4, <2>5
<1>7. Tall(t, e, g)
  BY <1>3, <1>6 DEF Tall
<1> QED
  BY <1>7 DEF Balanced

\* All paths cross the root.
LEMMA Raise ==
  ASSUME NEW t, Linked(t), NEW c, \A m \in Allocated(t) : c[m] \in Int, Balanced(t, c), NEW i \in Int, NEW e,
         \A m \in Allocated(t) : e[m] = IF m = t.root THEN c[m] + i ELSE c[m]
  PROVE  Balanced(t, e)
<1>1. PICK h : Tall(t, c, h)
  BY DEF Balanced
<1> DEFINE g == [m \in Link |-> IF m # None /\ m = t.root THEN h[m] + i ELSE h[m]]
<1>2. None \notin Allocated(t) /\ Allocated(t) \subseteq Link
  BY AllocatedIs DEF Link
<1>3. g \in [Link -> Int] /\ g[None] = 0
  BY <1>1 DEF Tall, Link
<1>4. \A m \in Allocated(t) : g[m] = IF m = t.root THEN h[m] + i ELSE h[m]
  BY <1>2
<1> HIDE DEF g
<1>5. ASSUME NEW m \in Allocated(t), NEW d \in Dirs PROVE g[m] = g[GetChild(t, m, d)] + e[m]
  <2> DEFINE k == GetChild(t, m, d)
  <2>1. h[m] = h[k] + c[m] /\ h[m] \in Int /\ c[m] \in Int
    BY <1>1, <1>2 DEF Tall
  <2>2. k # None => k \in Allocated(t) /\ Parent(t, k) = m /\ k # t.root
    BY <1>2 DEF Linked
  <2> HIDE DEF k
  <2>3. h[k] \in Int
    BY <1>1, <1>2, <2>2 DEF Tall, Link
  <2>4. g[k] = h[k]
    BY <1>1, <1>3, <1>4, <2>2 DEF Tall
  <2> QED
    BY <1>4, <2>1, <2>3, <2>4 DEF k
<1>6. Tall(t, e, g)
  BY <1>3, <1>5 DEF Tall
<1> QED
  BY <1>6 DEF Balanced

\* A node that counts nothing changes its count with its parent in a rotation.
LEMMA Swap ==
  ASSUME NEW s, NEW t, NEW dir, NEW opp, NEW n, NEW up, NEW inner, NEW par,
         Linked(t), Turned(s, t, dir, opp, n, up, inner, par),
         NEW c, \A m \in Allocated(t) : c[m] \in Int, Balanced(t, c), c[up] = 0, NEW e,
         \A m \in Allocated(t) : e[m] = IF m = n THEN 0 ELSE IF m = up THEN c[n] ELSE c[m]
  PROVE  Balanced(s, e)
<1>1. PICK h : Tall(t, c, h)
  BY DEF Balanced
<1> DEFINE g == [m \in Link |-> IF m = n THEN h[up] ELSE IF m = up THEN h[n] ELSE h[m]]
<1>2. None \notin Allocated(t) /\ Allocated(t) \subseteq Link /\ Allocated(t) \subseteq Nodes /\ None \in Link
  BY AllocatedIs DEF Link
<1>3. n \in Allocated(t) /\ up \in Allocated(t) /\ n # up /\ n # None /\ up # None /\ dir \in Dirs /\ opp \in Dirs
  BY DEF Turned
<1>4. g \in [Link -> Int] /\ g[None] = 0
  BY <1>1, <1>2, <1>3 DEF Tall
<1>5. g[n] = h[up] /\ g[up] = h[n] /\ \A m \in Link : m # n /\ m # up => g[m] = h[m]
  BY <1>2, <1>3
<1> HIDE DEF g
<1>6. \A m \in Link : h[m] \in Int
  BY <1>1 DEF Tall
<1>7. h[n] = h[up] + c[n] /\ h[up] = h[inner]
  BY <1>1, <1>2, <1>3, <1>6 DEF Tall, Turned
<1>8. ASSUME NEW m \in Allocated(t), NEW d \in Dirs PROVE g[m] = g[GetChild(s, m, d)] + e[m]
  <2> DEFINE k == GetChild(t, m, d)
  <2>1. h[m] = h[k] + c[m] /\ h[m] \in Int /\ c[m] \in Int
    BY <1>1, <1>2 DEF Tall
  <2>2. k # None => k \in Allocated(t) /\ Parent(t, k) = m
    BY DEF Linked
  <2>3. h[k] \in Int
    BY <1>2, <1>6, <2>2
  <2>4. CASE m = n /\ d = opp
    <3>1. GetChild(s, m, d) = inner /\ inner # n /\ inner # up /\ inner \in Link
      BY <1>2, <1>3, <2>4 DEF Turned
    <3>2. g[inner] = h[inner]
      BY <1>5, <3>1
    <3> QED
      BY <1>2, <1>5, <1>6, <1>7, <2>4, <3>1, <3>2
  <2>5. CASE m = up /\ d = dir
    <3>1. GetChild(s, m, d) = n /\ e[m] = c[n]
      BY <1>2, <1>3, <2>5 DEF Turned
    <3> QED
      BY <1>5, <1>7, <2>5, <3>1
  <2>6. CASE m = par /\ k = n
    <3>1. GetChild(s, m, d) = up /\ m # n /\ m # up /\ m # None
      BY <1>2, <2>6 DEF Turned
    <3> QED
      BY <1>2, <1>5, <2>1, <2>6, <3>1
  <2>7. CASE ~(m = n /\ d = opp) /\ ~(m = up /\ d = dir) /\ ~(m = par /\ k = n)
    <3>1. GetChild(s, m, d) = k
      BY <1>2, <2>7 DEF Turned
    <3>2. k # n /\ k # up
      BY <1>3, <2>2, <2>7 DEF Turned, Dirs, Linked
    <3>3. g[k] = h[k]
      BY <1>2, <1>5, <2>2, <3>2
    <3> HIDE DEF k
    <3>4. CASE m = n
      BY <1>2, <1>3, <1>5, <1>6, <1>7, <2>1, <2>3, <3>1, <3>3, <3>4
    <3>5. CASE m = up
      BY <1>3, <1>5, <1>6, <1>7, <2>1, <2>3, <3>1, <3>3, <3>5
    <3>6. CASE m # n /\ m # up
      BY <1>2, <1>5, <2>1, <3>1, <3>3, <3>6
    <3> QED
      BY <3>4, <3>5, <3>6
  <2> QED
    BY <2>4, <2>5, <2>6, <2>7
<1>9. Allocated(s) = Allocated(t)
  BY TurnedAllocated
<1>10. Tall(s, e, g)
  BY <1>4, <1>8, <1>9 DEF Tall
<1> QED
  BY <1>10 DEF Balanced

LEMMA TurnedAre ==
  ASSUME NEW t, NEW x, Shape(t, x), NEW dir \in Dirs, NEW opp, opp = InvertDir(dir), NEW n \in Allocated(t),
         NEW up, up = GetChild(t, n, opp), up # None, NEW inner, inner = GetChild(t, up, dir),
         NEW par, par = Parent(t, n)
  PROVE  Turned(Rotate(t, dir, n), t, dir, opp, n, up, inner, par)
BY TurnedIs DEF Shape

LEMMA SiblingIs ==
  ASSUME NEW t, Linked(t), NEW n \in Allocated(t), n # t.root, NEW s, s = GetSibling(t, n)
  PROVE  /\ s # None => s \in Allocated(t) /\ Parent(t, s) = Parent(t, n)
         /\ s # n
         /\ \A m \in Allocated(t) : Parent(t, m) = Parent(t, n) => m = n \/ m = s
<1> DEFINE p == Parent(t, n)
           d == GetDir(t, n)
<1>1. d \in Dirs /\ GetChild(t, p, d) = n /\ GetChild(t, p, InvertDir(d)) # n /\ InvertDir(d) \in Dirs /\ p \in Allocated(t)
  BY GetDirIs
<1>2. s = GetChild(t, p, InvertDir(d))
  BY DEF GetSibling
<1>3. None \notin Allocated(t)
  BY AllocatedIs
<1>4. Parent(t, n) = p
  OBVIOUS
<1> HIDE DEF p, d
<1>5. ASSUME NEW m \in Allocated(t), Parent(t, m) = p PROVE m = n \/ m = s
  <2>1. m # t.root
    BY <1>1, <1>3, <1>5 DEF Linked
  <2>2. PICK e \in Dirs : GetChild(t, p, e) = m
    BY <1>5, <2>1 DEF Linked
  <2>3. e = d \/ e = InvertDir(d)
    BY <1>1, <2>2 DEF Dirs, InvertDir
  <2> QED
    BY <1>1, <1>2, <2>2, <2>3
<1>6. s # None => s \in Allocated(t) /\ Parent(t, s) = p
  BY <1>1, <1>2 DEF Linked
<1> QED
  BY <1>1, <1>2, <1>4, <1>5, <1>6

--------------------------------------------------------------------------------
(* The invariant.                                                                *)

\* Red under red only at these two places.
Reds(t, low, high) ==
  \A m \in Allocated(t) : Color(t, m) = "RED" /\ Color(t, Parent(t, m)) = "RED" =>
    m = low \/ Parent(t, m) = high

Low  == IF pc = "PostInsertFix" THEN problem ELSE None
Lack == IF pc = "PreDeletionFix" THEN problem ELSE None

\* What the variables of a running call are.
Stage ==
  /\ pc \in {"idle", "PostInsertFix", "PreDeletionFix", "unlink", "fault"}
  /\ pc \in {"idle", "fault"} => problem = None /\ doomed = None
  /\ pc = "fault" => tree.root = None
  /\ pc = "PostInsertFix" =>
       /\ problem \in Allocated(tree) /\ doomed = None
       /\ problem = tree.root \/ (Color(tree, tree.root) = "BLACK" /\ Color(tree, problem) = "RED")
  /\ pc # "PostInsertFix" => Color(tree, tree.root) = "BLACK"
  /\ pc = "PreDeletionFix" => problem \in Allocated(tree) /\ Color(tree, doomed) = "BLACK"
  /\ pc = "unlink" => problem = None
  /\ pc \in {"PreDeletionFix", "unlink"} =>
       doomed \in Allocated(tree) \ {tree.root} /\ \E d \in Dirs : GetChild(tree, doomed, d) = None

\* The entry of a node in use has a value.
Valued(t) == \A n \in Allocated(t) : Val(t, n) \in Values

IInv ==
  /\ Shape(tree, doomed) /\ Valued(tree)
  /\ Balanced(tree, Weights(tree, Lack, doomed))
  /\ Reds(tree, Low, Lack)
  /\ Stage

LEMMA WeightIs ==
  ASSUME NEW t, Linked(t), NEW lacking, NEW gone
  PROVE  \A m \in Allocated(t) :
           /\ Color(t, m) \in Colors
           /\ Weights(t, lacking, gone)[m] = (IF Color(t, m) = "BLACK" /\ m # gone THEN 1 ELSE 0)
                                             + (IF m = lacking THEN 1 ELSE 0)
           /\ Weights(t, lacking, gone)[m] \in Nat
<1>1. ASSUME NEW m \in Allocated(t) PROVE m \in Nodes /\ Color(t, m) \in Colors
  BY AllocatedIs DEF Linked, Trees, Fields, Color, Colors
<1> QED
  BY <1>1 DEF Weights, Weight

LEMMA HeightIs ==
  ASSUME NEW h, Shape(tree, doomed), Tall(tree, Weights(tree, Lack, doomed), h)
  PROVE  \A m \in Allocated(tree) \union {None} : Height[m] = h[m]
<1> DEFINE W == Weights(tree, Lack, doomed)
           P(m) == IF Color(tree, m) = "BLACK" /\ m # doomed THEN 1 ELSE 0
           L(m) == IF pc = "PreDeletionFix" /\ m = problem THEN 1 ELSE 0
           Is(w) == w = [m \in Link |-> IF m = None THEN 0 ELSE w[tree.node[m].left] + P(m) + L(m)]
           g == [m \in Link |-> IF m = None \/ m \in Allocated(tree) THEN h[m] ELSE P(m) + L(m)]
           w0 == CHOOSE w : Is(w)
           Q == {m \in Nodes : m \in Allocated(tree) => w0[m] = h[m]}
<1>1. Linked(tree) /\ Allocated(tree) \subseteq Nodes /\ None \notin Nodes /\ h[None] = 0 /\ h \in [Link -> Int]
  BY AllocatedIs DEF Shape, Tall
<1>2. PICK B, r : RankedBy(tree, B, r)
  BY DEF Shape, Ranked
<1>3. ASSUME NEW m \in Allocated(tree)
      PROVE  h[m] = h[tree.node[m].left] + P(m) + L(m) /\ tree.node[m].left \in Allocated(tree) \union {None}
  <2>1. W[m] = P(m) + L(m)
    BY <1>1, WeightIs, RbTreeAssumption DEF Lack
  <2>2. h[m] = h[GetChild(tree, m, "left")] + W[m]
    BY DEF Tall, Dirs
  <2>3. GetChild(tree, m, "left") = tree.node[m].left
    BY DEF GetChild
  <2>4. GetChild(tree, m, "left") \in Allocated(tree) \union {None}
    BY <1>1 DEF Linked, Dirs
  <2>5. h[GetChild(tree, m, "left")] \in Int
    BY <1>1, <2>4 DEF Link
  <2>6. P(m) \in Int /\ L(m) \in Int
    OBVIOUS
  <2> HIDE DEF P, L
  <2> QED
    BY <2>1, <2>2, <2>3, <2>4, <2>5, <2>6
<1>4. \A m \in Nodes \ Allocated(tree) : tree.node[m].left = None
  BY <1>1, AllocatedIs DEF GetChild, Dirs
<1>5. \A m : P(m) \in Int /\ L(m) \in Int
  OBVIOUS
<1>6. Height = w0
  BY DEF Height, Link
<1> HIDE DEF P, L
<1>7. \A m \in Link : g[m] = IF m = None \/ m \in Allocated(tree) THEN h[m] ELSE P(m) + L(m)
  OBVIOUS
<1>8. g = [m \in Link |-> IF m = None THEN 0 ELSE g[tree.node[m].left] + P(m) + L(m)]
  <2>1. ASSUME NEW m \in Link PROVE g[m] = IF m = None THEN 0 ELSE g[tree.node[m].left] + P(m) + L(m)
    <3>1. CASE m = None
      BY <1>1, <1>7, <3>1
    <3>2. CASE m # None /\ m \in Allocated(tree)
      BY <1>1, <1>3, <1>7, <3>2 DEF Link
    <3>3. CASE m # None /\ m \notin Allocated(tree)
      <4>1. m \in Nodes /\ tree.node[m].left = None /\ g[None] = 0
        BY <1>1, <1>4, <1>7, <3>3 DEF Link
      <4> QED
        BY <1>5, <1>7, <3>3, <4>1
    <3> QED
      BY <3>1, <3>2, <3>3
  <2> QED
    BY <2>1
<1>9. Is(g)
  BY <1>8
<1> HIDE DEF Is, g
<1>10. Is(w0)
  BY <1>9
<1> HIDE DEF w0
<1>11. w0[None] = 0 /\ \A m \in Nodes : w0[m] = w0[tree.node[m].left] + P(m) + L(m)
  BY <1>1, <1>10 DEF Is, Link
<1>12. ASSUME NEW n \in Nodes, \A m \in Nodes : r[m] < r[n] => m \in Q PROVE n \in Q
  <2> SUFFICES ASSUME n \in Allocated(tree) PROVE w0[n] = h[n]
    OBVIOUS
  <2> DEFINE l == tree.node[n].left
  <2>1. l # None => r[l] < r[n]
    BY <1>2 DEF RankedBy, GetChild, Dirs
  <2>2. l \in Allocated(tree) \union {None}
    BY <1>3
  <2>3. w0[l] = h[l]
    BY <1>1, <1>11, <1>12, <2>1, <2>2
  <2> QED
    BY <1>3, <1>11, <2>3
<1> HIDE DEF Q
<1>13. \A n \in Nodes : n \in Q
  BY <1>2, <1>12, Downwards DEF RankedBy
<1> QED
  BY <1>1, <1>6, <1>11, <1>13 DEF Q

LEMMA IInvIsRedBlack ==
  ASSUME IInv
  PROVE  RedBlack
<1>1. HeightsAgree
  <2>1. PICK h : Tall(tree, Weights(tree, Lack, doomed), h)
    BY DEF IInv, Balanced
  <2>2. \A m \in Allocated(tree) \union {None} : Height[m] = h[m]
    BY <2>1, HeightIs DEF IInv
  <2>3. Linked(tree) /\ Allocated(tree) \subseteq Nodes /\ None \notin Nodes
    BY AllocatedIs DEF IInv, Shape
  <2> SUFFICES ASSUME NEW n \in Allocated(tree)
               PROVE  Height[tree.node[n].left] = Height[tree.node[n].right]
    BY DEF HeightsAgree
  <2>4. \A d \in Dirs : GetChild(tree, n, d) \in Allocated(tree) \union {None}
    BY <2>3 DEF Linked
  <2>5. \A d \in Dirs : h[n] = h[GetChild(tree, n, d)] + Weights(tree, Lack, doomed)[n]
    BY <2>1 DEF Tall
  <2>6. Weights(tree, Lack, doomed)[n] \in Int
    BY <2>3, WeightIs
  <2>7. \A m \in Allocated(tree) \union {None} : h[m] \in Int
    BY <2>1, <2>3 DEF Tall, Link
  <2> DEFINE l == GetChild(tree, n, "left")
             q == GetChild(tree, n, "right")
  <2>8. l \in Allocated(tree) \union {None} /\ q \in Allocated(tree) \union {None}
    BY <2>4 DEF Dirs
  <2>9. h[l] = h[q]
    <3> DEFINE c == Weights(tree, Lack, doomed)[n]
    <3>1. h[n] = h[l] + c /\ h[n] = h[q] + c
      BY <2>5 DEF Dirs
    <3>2. h[l] \in Int /\ h[q] \in Int /\ c \in Int
      BY <2>6, <2>7, <2>8
    <3> HIDE DEF c, l, q
    <3>3. \A i, j, k \in Int : i + k = j + k => i = j
      OBVIOUS
    <3>4. h[l] + c = h[q] + c
      BY <3>1
    <3> QED
      BY <3>2, <3>3, <3>4
  <2>10. Height[l] = h[l] /\ Height[q] = h[q]
    BY <2>2, <2>8
  <2> QED
    BY <2>9, <2>10 DEF GetChild
<1>2. RedsApart
  <2>1. None \notin Allocated(tree) /\ Linked(tree)
    BY AllocatedIs DEF IInv, Shape
  <2>2. \A m \in Allocated(tree) : Color(tree, Parent(tree, m)) = "RED" => Parent(tree, m) # None
    BY DEF Color
  <2> QED
    BY <2>1, <2>2 DEF IInv, Reds, RedsApart, Low, Lack
<1>3. pc = "idle" => Color(tree, tree.root) = "BLACK"
  BY DEF IInv, Stage
<1> QED
  BY <1>1, <1>2, <1>3 DEF RedBlack

--------------------------------------------------------------------------------
(* The rounds.                                                                   *)

\* What a change of the links or the colours keeps.
Kept(s, t, x) ==
  /\ Shape(s, x) /\ Allocated(s) = Allocated(t)
  /\ \A m \in Nodes : Key(s, m) = Key(t, m) /\ Val(s, m) = Val(t, m)

\* s is t with a, then b, then d painted.
Dyed(s, t, a, ca, b, cb, d, cd) ==
  /\ SameLinks(s, t)
  /\ \A m \in Nodes : /\ Val(s, m) = Val(t, m)
                      /\ Color(s, m) = IF m = d THEN cd ELSE IF m = b THEN cb
                                       ELSE IF m = a THEN ca ELSE Color(t, m)

LEMMA KeptTwice ==
  ASSUME NEW s, NEW t, NEW u, NEW x, Kept(t, u, x), Kept(s, t, x)
  PROVE  Kept(s, u, x)
BY DEF Kept

LEMMA PaintKeeps ==
  ASSUME NEW t, NEW x, Shape(t, x), NEW n \in Allocated(t), NEW c \in Colors
  PROVE  /\ Painted(Paint(t, n, c), t, n, c) /\ Kept(Paint(t, n, c), t, x)
<1>1. Painted(Paint(t, n, c), t, n, c)
  BY PaintIs DEF Shape
<1> DEFINE s == Paint(t, n, c)
<1> HIDE DEF s
<1>2. Painted(s, t, n, c)
  BY <1>1 DEF s
<1>3. SameLinks(s, t)
  BY <1>2 DEF Painted
<1>4. Shape(s, x) /\ Allocated(s) = Allocated(t)
  BY <1>3, SameShape
<1>5. Kept(s, t, x)
  BY <1>2, <1>4 DEF Kept, Painted, SameLinks
<1> QED
  BY <1>1, <1>5 DEF s

LEMMA DyeTwice ==
  ASSUME NEW t, NEW x, Shape(t, x), NEW a \in Allocated(t), NEW b \in Allocated(t),
         NEW ca \in Colors, NEW cb \in Colors,
         NEW s, s = Paint(Paint(t, a, ca), b, cb)
  PROVE  Dyed(s, t, a, ca, a, ca, b, cb) /\ Kept(s, t, x)
<1> DEFINE p == Paint(t, a, ca)
<1>1. Painted(p, t, a, ca) /\ Kept(p, t, x)
  BY PaintKeeps
<1>2. s = Paint(p, b, cb)
  OBVIOUS
<1> HIDE DEF p
<1>3. Shape(p, x) /\ b \in Allocated(p)
  BY <1>1 DEF Kept
<1>4. Painted(s, p, b, cb) /\ Kept(s, p, x)
  BY <1>2, <1>3, PaintKeeps
<1>5. Kept(s, t, x)
  BY <1>1, <1>4, KeptTwice
<1>6. Dyed(s, t, a, ca, a, ca, b, cb)
  BY <1>1, <1>4 DEF Dyed, Painted, SameLinks, Kept
<1> QED
  BY <1>5, <1>6

LEMMA DyeThrice ==
  ASSUME NEW t, NEW x, Shape(t, x), NEW a \in Allocated(t), NEW b \in Allocated(t), NEW d \in Allocated(t),
         NEW ca \in Colors, NEW cb \in Colors, NEW cd \in Colors,
         NEW s, s = Paint(Paint(Paint(t, a, ca), b, cb), d, cd)
  PROVE  Dyed(s, t, a, ca, b, cb, d, cd) /\ Kept(s, t, x)
<1> DEFINE p == Paint(Paint(t, a, ca), b, cb)
<1>1. Dyed(p, t, a, ca, a, ca, b, cb) /\ Kept(p, t, x)
  BY DyeTwice
<1>2. s = Paint(p, d, cd)
  OBVIOUS
<1> HIDE DEF p
<1>3. Shape(p, x) /\ d \in Allocated(p)
  BY <1>1 DEF Kept
<1>4. Painted(s, p, d, cd) /\ Kept(s, p, x)
  BY <1>2, <1>3, PaintKeeps
<1>5. Kept(s, t, x)
  BY <1>1, <1>4, KeptTwice
<1>6. Dyed(s, t, a, ca, b, cb, d, cd)
  BY <1>1, <1>4 DEF Dyed, Painted, SameLinks, Kept
<1> QED
  BY <1>5, <1>6

LEMMA TurnedKept ==
  ASSUME NEW s, NEW t, NEW dir, NEW opp, NEW n, NEW up, NEW inner, NEW par, NEW x,
         Shape(t, x), Turned(s, t, dir, opp, n, up, inner, par), n # x, up # x
  PROVE  Kept(s, t, x) /\ \A m \in Nodes : Color(s, m) = Color(t, m)
<1>1. Shape(s, x) /\ Allocated(s) = Allocated(t)
  BY TurnedShape
<1> QED
  BY <1>1 DEF Kept, Turned

LEMMA NotOwnParent ==
  ASSUME NEW t, NEW x, Shape(t, x), NEW n \in Allocated(t)
  PROVE  Parent(t, n) # n
<1>1. Linked(t) /\ Allocated(t) \subseteq Nodes /\ None \notin Nodes
  BY AllocatedIs DEF Shape
<1>2. PICK B, r : RankedBy(t, B, r)
  BY DEF Shape, Ranked
<1>3. r[n] \in Int
  BY <1>1, <1>2 DEF RankedBy
<1>4. Parent(t, n) = n => \E d \in Dirs : GetChild(t, n, d) = n
  BY <1>1 DEF Linked
<1> QED
  BY <1>1, <1>2, <1>3, <1>4 DEF RankedBy

LEMMA NotOwnGrandparent ==
  ASSUME NEW t, NEW x, Shape(t, x), NEW n \in Allocated(t), Parent(t, n) \in Allocated(t)
  PROVE  Parent(t, Parent(t, n)) # n
<1> DEFINE p == Parent(t, n)
<1>1. Linked(t) /\ Allocated(t) \subseteq Nodes /\ None \notin Nodes
  BY AllocatedIs DEF Shape
<1>2. PICK B, r : RankedBy(t, B, r)
  BY DEF Shape, Ranked
<1>3. r[n] \in Int /\ r[p] \in Int
  BY <1>1, <1>2 DEF RankedBy
<1>4. \E d \in Dirs : GetChild(t, p, d) = n
  BY <1>1 DEF Linked
<1>5. r[n] < r[p]
  BY <1>1, <1>2, <1>4 DEF RankedBy
<1>6. Parent(t, p) = n => \E d \in Dirs : GetChild(t, n, d) = p
  BY <1>1 DEF Linked
<1>7. Parent(t, p) = n => r[p] < r[n]
  BY <1>1, <1>2, <1>6 DEF RankedBy
<1> QED
  BY <1>3, <1>5, <1>7

\* The insertion repair: a red node p under a red one.
Placed(t, p) == p \in Allocated(t) /\ (p = t.root \/ (Color(t, t.root) = "BLACK" /\ Color(t, p) = "RED"))

InsertFixed(s, t, p) ==
  /\ Kept(s, t, None) /\ Balanced(s, Weights(s, None, None))
  /\ Reds(s, p, None) /\ Placed(s, p)

\* The loop goes two nodes up, or is done.
Climbs(s, q, t, p) ==
  \/ q = Parent(t, Parent(t, p)) /\ \A m \in Nodes : Parent(s, m) = Parent(t, m)
  \/ Color(s, Parent(s, q)) = "BLACK"

\* The uncle is red.
LEMMA RecolorFixes ==
  ASSUME NEW t, Shape(t, None), Balanced(t, Weights(t, None, None)),
         NEW p \in Allocated(t), Reds(t, p, None), Placed(t, p),
         Parent(t, p) # None, Color(t, Parent(t, p)) = "RED",
         Color(t, GetUncle(t, p)) = "RED"
  PROVE  /\ InsertFixed(InsertRound(t, p).t, t, InsertRound(t, p).at)
         /\ Climbs(InsertRound(t, p).t, InsertRound(t, p).at, t, p)
<1> DEFINE P == Parent(t, p)
           G == Parent(t, P)
           U == GetUncle(t, p)
           s == Paint(Paint(Paint(t, P, "BLACK"), U, "BLACK"), G, "RED")
<1>1. Linked(t) /\ Allocated(t) \subseteq Nodes /\ None \notin Nodes
  BY AllocatedIs DEF Shape
<1>2. p # t.root /\ P \in Allocated(t)
  BY <1>1 DEF Linked
<1>3. Color(t, t.root) = "BLACK" /\ Color(t, p) = "RED" /\ P # t.root /\ P # None
  BY <1>2 DEF Placed
<1>4. G \in Allocated(t) /\ G # None
  BY <1>1, <1>2, <1>3 DEF Linked
<1>5. U = GetSibling(t, P) /\ U # None
  BY <1>4 DEF GetUncle, Color
<1>6. U \in Allocated(t) /\ Parent(t, U) = G /\ U # P /\ \A m \in Allocated(t) : Parent(t, m) = G => m = P \/ m = U
  BY <1>1, <1>2, <1>3, <1>5, SiblingIs
<1>7. Color(t, P) = "RED" /\ Color(t, U) = "RED" /\ P # p
  BY <1>1, <1>2, <1>3, NotOwnParent
<1>8. Color(t, G) = "BLACK" /\ G # P /\ G # U
  <2>1. Color(t, G) # "RED"
    BY <1>2, <1>3, <1>4, <1>7 DEF Reds
  <2>2. Color(t, G) \in Colors
    BY <1>1, <1>4, WeightIs
  <2> QED
    BY <1>2, <1>6, <2>1, <2>2, NotOwnParent DEF Colors
<1>9. \A d \in Dirs : GetChild(t, G, d) # None
  <2>1. GetChild(t, G, GetDir(t, P)) = P /\ GetDir(t, P) \in Dirs
    BY <1>1, <1>2, <1>3, GetDirIs
  <2>2. GetChild(t, G, InvertDir(GetDir(t, P))) = U
    BY <1>5 DEF GetSibling
  <2> QED
    BY <1>3, <1>5, <2>1, <2>2 DEF Dirs, InvertDir
<1>10. InsertRound(t, p) = [t |-> s, at |-> G]
  BY DEF InsertRound
<1>11. "BLACK" \in Colors /\ "RED" \in Colors
  BY DEF Colors
<1>23. G = Parent(t, Parent(t, p))
  OBVIOUS
<1> HIDE DEF P, G, U
<1>12. Dyed(s, t, P, "BLACK", U, "BLACK", G, "RED") /\ Kept(s, t, None)
  BY <1>2, <1>4, <1>6, <1>11, DyeThrice
<1> HIDE DEF s
<1>13. \A m \in Allocated(t) : Parent(t, m) = G <=> (m = P \/ m = U)
  BY <1>6 DEF G
<1> DEFINE c == Weights(t, None, None)
           e == Weights(s, None, None)
<1>14. Allocated(s) = Allocated(t) /\ Linked(s) /\ SameLinks(s, t)
  BY <1>12 DEF Kept, Shape, Dyed
<1>15. \A m \in Allocated(t) : c[m] = (IF Color(t, m) = "BLACK" THEN 1 ELSE 0) /\ c[m] \in Int
  BY <1>1, WeightIs
<1>16. \A m \in Allocated(t) : e[m] = (IF Color(s, m) = "BLACK" THEN 1 ELSE 0)
  BY <1>1, <1>14, WeightIs
<1> HIDE DEF c, e
<1>17. \A m \in Allocated(t) : Color(s, m) = IF m = G THEN "RED" ELSE IF m = U \/ m = P THEN "BLACK" ELSE Color(t, m)
  BY <1>1, <1>12 DEF Dyed
<1>18. \A m \in Allocated(t) : e[m] = IF m = G THEN c[G] - 1
                                      ELSE IF Parent(t, m) = G THEN c[m] + 1 ELSE c[m]
  BY <1>7, <1>8, <1>13, <1>15, <1>16, <1>17
<1>19. Balanced(t, e)
  <2>1. Balanced(t, c) /\ Ranked(t)
    BY DEF c, Shape
  <2> QED
    BY <1>1, <1>4, <1>9, <1>15, <1>18, <2>1, Push
<1>20. Balanced(s, e)
  BY <1>1, <1>14, <1>19, SameTall
<1>21. Reds(s, G, None)
  <2> SUFFICES ASSUME NEW m \in Allocated(t), Color(s, m) = "RED", Color(s, Parent(t, m)) = "RED", m # G
               PROVE  FALSE
    BY <1>1, <1>14 DEF Reds, SameLinks
  <2> DEFINE q == Parent(t, m)
  <2>1. q \in Allocated(t)
    BY <1>1 DEF Linked, Color
  <2>2. Color(t, m) = "RED" /\ m # P /\ m # U
    BY <1>17
  <2>3. q # G
    BY <1>13, <2>2
  <2>4. Color(t, q) = "RED" /\ q # P
    BY <1>17, <2>1, <2>3
  <2>5. m = p
    BY <1>1, <2>1, <2>2, <2>4 DEF Reds
  <2> QED
    BY <2>4, <2>5 DEF P
<1>22. Placed(s, G)
  <2>1. s.root = t.root
    BY <1>14 DEF SameLinks
  <2>2. t.root \in Allocated(t)
    BY <1>1, <1>2, RootIsAbove DEF Linked
  <2> QED
    BY <1>3, <1>4, <1>14, <1>17, <2>1, <2>2 DEF Placed
<1>24. Climbs(s, G, t, p)
  BY <1>14, <1>23 DEF Climbs, SameLinks
<1> QED
  BY <1>10, <1>12, <1>20, <1>21, <1>22, <1>24 DEF InsertFixed, e

\* The uncle is black: two red nodes in a line below a black one, ready to be lifted.
InLine(s, t, low, mid, top) ==
  /\ Kept(s, t, None) /\ Balanced(s, Weights(s, None, None)) /\ Reds(s, low, None)
  /\ low \in Allocated(t) /\ mid \in Allocated(t) /\ top \in Allocated(t)
  /\ Parent(s, low) = mid /\ Parent(s, mid) = top
  /\ Color(s, low) = "RED" /\ Color(s, mid) = "RED" /\ Color(s, top) = "BLACK" /\ Color(s, s.root) = "BLACK"
  /\ \A m \in Allocated(t) : Parent(s, m) = top => m = mid \/ Color(s, m) = "BLACK"
  /\ GetChild(s, mid, InvertDir(GetDir(s, mid))) # low

LEMMA KeptItself ==
  ASSUME NEW t, NEW x, Shape(t, x)
  PROVE  Kept(t, t, x)
BY DEF Kept

LEMMA Straighten ==
  ASSUME NEW t, Shape(t, None), Balanced(t, Weights(t, None, None)),
         NEW p \in Allocated(t), Reds(t, p, None), Placed(t, p),
         Parent(t, p) # None, Color(t, Parent(t, p)) = "RED",
         Color(t, GetUncle(t, p)) # "RED"
  PROVE  LET P == Parent(t, p)
             G == Parent(t, P)
         IN  IF Angled(t, p) THEN InLine(Rotate(t, InvertDir(GetDir(t, p)), P), t, P, p, G)
                             ELSE InLine(t, t, p, P, G)
<1> DEFINE P == Parent(t, p)
           G == Parent(t, P)
           U == GetUncle(t, p)
           s == Rotate(t, InvertDir(GetDir(t, p)), P)
<1>1. Linked(t) /\ Allocated(t) \subseteq Nodes /\ None \notin Nodes
  BY AllocatedIs DEF Shape
<1>2. p # t.root /\ P \in Allocated(t)
  BY <1>1 DEF Linked
<1>3. Color(t, t.root) = "BLACK" /\ Color(t, p) = "RED" /\ Color(t, P) = "RED" /\ P # t.root /\ P # None
  BY <1>2 DEF Placed
<1>4. G \in Allocated(t) /\ G # None
  BY <1>1, <1>2, <1>3 DEF Linked
<1>5. U = GetSibling(t, P)
  BY <1>4 DEF GetUncle
<1>6. \A m \in Allocated(t) : Parent(t, m) = G => m = P \/ m = U
  BY <1>1, <1>2, <1>3, <1>5, SiblingIs
<1>7. \A m \in Allocated(t) : Color(t, m) = "BLACK" \/ Color(t, m) = "RED"
  BY <1>1, WeightIs DEF Colors
<1>8. Color(t, G) = "BLACK" /\ G # P /\ P # p
  BY <1>2, <1>3, <1>4, <1>7, NotOwnParent DEF Reds
<1>9. \A m \in Allocated(t) : Parent(t, m) = G => m = P \/ Color(t, m) = "BLACK"
  BY <1>6, <1>7
<1>10. ASSUME ~Angled(t, p) PROVE InLine(t, t, p, P, G)
  <2>1. GetDir(t, P) = GetDir(t, p) /\ GetChild(t, P, InvertDir(GetDir(t, p))) # p
    BY <1>1, <1>2, <1>10, GetDirIs DEF Angled
  <2> QED
    BY <1>2, <1>3, <1>4, <1>8, <1>9, <2>1, KeptItself DEF InLine
<1>11. ASSUME Angled(t, p) PROVE InLine(s, t, P, p, G)
  <2> DEFINE opp   == GetDir(t, p)
             dir   == InvertDir(opp)
             inner == GetChild(t, p, dir)
             c     == Weights(t, None, None)
             e     == Weights(s, None, None)
  <2>1. opp \in Dirs /\ dir \in Dirs /\ opp = InvertDir(dir) /\ GetChild(t, P, opp) = p /\ p # None
    BY <1>1, <1>2, GetDirIs DEF InvertDir, Dirs
  <2>2. s = Rotate(t, dir, P) /\ Parent(t, p) = P /\ Parent(t, P) = G
    OBVIOUS
  <2>18. GetChild(t, G, dir) = P /\ (IF dir = "left" THEN opp = "right" ELSE dir = "right" /\ opp = "left")
    <3>1. GetDir(t, P) # opp
      BY <1>11 DEF Angled
    <3>2. GetDir(t, P) \in Dirs /\ GetChild(t, G, GetDir(t, P)) = P
      BY <1>1, <1>2, <1>3, GetDirIs
    <3> QED
      BY <2>1, <3>1, <3>2 DEF InvertDir, Dirs
  <2> HIDE DEF P, G, U, s, opp, dir
  <2>3. Turned(s, t, dir, opp, P, p, inner, G)
    BY <1>2, <2>1, <2>2, TurnedAre
  <2>4. Kept(s, t, None) /\ \A m \in Nodes : Color(s, m) = Color(t, m)
    BY <1>1, <1>2, <2>3, TurnedKept
  <2>5. \A m \in Allocated(t) : c[m] = (IF Color(t, m) = "BLACK" THEN 1 ELSE 0) /\ c[m] \in Int
    BY <1>1, WeightIs
  <2>6. \A m \in Allocated(t) : e[m] = (IF Color(s, m) = "BLACK" THEN 1 ELSE 0)
    BY <1>1, <2>4, WeightIs DEF Kept, Shape
  <2>7. Balanced(t, c)
    OBVIOUS
  <2> HIDE DEF c, e, inner
  <2>8. \A m \in Allocated(t) : e[m] = IF m = P THEN 0 ELSE IF m = p THEN c[P] ELSE c[m]
    BY <1>1, <1>2, <1>3, <2>4, <2>5, <2>6
  <2>9. c[p] = 0
    BY <1>3, <2>5
  <2>10. Balanced(s, e)
    BY <1>1, <2>3, <2>5, <2>7, <2>8, <2>9, Swap
  <2>11. s.root = t.root /\ Color(s, None) = "BLACK" /\ Color(t, None) = "BLACK"
    BY <1>1, <1>4, <2>3 DEF Turned, Color
  <2>12. t.root \in Allocated(t)
    BY <1>1, <1>2, RootIsAbove DEF Linked
  <2>13. Parent(s, P) = p /\ Parent(s, p) = G
    BY <1>1, <1>2, <1>8, <2>3 DEF Turned
  <2>14. ASSUME NEW m \in Allocated(t), m # P, m # p PROVE Parent(s, m) = IF m = inner THEN P ELSE Parent(t, m)
    BY <1>1, <2>3, <2>14 DEF Turned
  <2>15. inner # None => Parent(t, inner) = p /\ inner # p /\ inner # P
    BY <2>3 DEF Turned
  <2>16. Reds(s, P, None)
    <3> SUFFICES ASSUME NEW m \in Allocated(t), Color(t, m) = "RED", Color(s, Parent(s, m)) = "RED", m # P
                 PROVE  FALSE
      BY <1>1, <2>4 DEF Reds, Kept
    <3>1. m # p
      BY <1>1, <1>4, <1>8, <2>4, <2>13
    <3>2. CASE m = inner
      BY <1>1, <1>2, <1>3, <2>15, <3>1, <3>2 DEF Reds
    <3>3. CASE m # inner
      <4>1. Parent(s, m) = Parent(t, m)
        BY <2>14, <3>1, <3>3
      <4>2. Color(t, Parent(t, m)) = "RED"
        BY <1>1, <2>4, <2>11, <4>1, AllocatedIs DEF Link
      <4> QED
        BY <1>1, <3>1, <4>2 DEF Reds, Color
    <3> QED
      BY <3>2, <3>3
  <2>17. \A m \in Allocated(t) : Parent(s, m) = G => m = p \/ Color(s, m) = "BLACK"
    <3> SUFFICES ASSUME NEW m \in Allocated(t), Parent(s, m) = G, m # p PROVE Color(t, m) = "BLACK"
      BY <1>1, <2>4
    <3>1. m # P
      BY <1>4, <2>3, <2>13 DEF Turned
    <3>2. m # inner \/ Color(t, m) = "BLACK"
      BY <1>1, <1>8, <2>14, <2>15, <3>1
    <3>3. m # inner => Color(t, m) = "BLACK"
      BY <1>9, <2>14, <3>1
    <3> QED
      BY <3>2, <3>3
  <2>19. GetChild(s, p, InvertDir(GetDir(s, p))) # P
    <3>1. p \in Nodes /\ P \in Nodes /\ G \in Nodes /\ p # G /\ Parent(t, G) # P /\ p # P
      BY <1>1, <1>2, <1>4, <1>8, <2>2, <2>3, NotOwnGrandparent DEF Turned
    <3>2. GetChild(s, G, dir) = p
      BY <1>8, <2>1, <2>3, <2>18, <3>1 DEF Turned
    <3>3. GetChild(s, G, opp) # p
      <4>1. GetChild(t, G, opp) # P
        BY <1>1, <1>3, <1>4, <2>1, <2>18 DEF Linked, Dirs
      <4>2. GetChild(t, G, opp) # p
        BY <1>1, <1>4, <1>8, <2>1, <2>2 DEF Linked
      <4> QED
        BY <1>8, <2>1, <2>3, <3>1, <4>1, <4>2 DEF Turned
    <3>4. GetDir(s, p) = dir
      BY <2>13, <2>18, <3>2, <3>3 DEF GetDir
    <3>5. InvertDir(dir) = opp
      BY <2>18 DEF InvertDir
    <3>6. GetChild(s, p, opp) = GetChild(t, p, opp)
      BY <2>1, <2>3, <2>18, <3>1 DEF Turned
    <3>7. GetChild(t, p, opp) # P
      BY <1>1, <2>1, <2>2, <3>1 DEF Linked
    <3> QED
      BY <3>4, <3>5, <3>6, <3>7
  <2> QED
    BY <1>1, <1>2, <1>3, <1>4, <1>8, <2>4, <2>10, <2>11, <2>12, <2>13, <2>16, <2>17, <2>19 DEF InLine, e
<1> QED
  BY <1>10, <1>11

LEMMA LiftFixes ==
  ASSUME NEW t, NEW u, NEW low, NEW mid, NEW top, InLine(t, u, low, mid, top),
         NEW p, p = Paint(Paint(t, mid, "BLACK"), top, "RED"),
         NEW done, done = Rotate(p, InvertDir(GetDir(p, mid)), top)
  PROVE  InsertFixed(done, u, low) /\ Color(done, Parent(done, low)) = "BLACK"
<1> DEFINE s     == Rotate(p, InvertDir(GetDir(p, mid)), top)
           opp   == GetDir(t, mid)
           dir   == InvertDir(opp)
           inner == GetChild(t, mid, dir)
           par   == Parent(t, top)
           c     == Weights(t, None, None)
           e     == Weights(s, None, None)
<1>1. Shape(t, None) /\ Linked(t) /\ Allocated(t) \subseteq Nodes /\ None \notin Nodes /\ Allocated(t) = Allocated(u)
  BY AllocatedIs DEF Shape, InLine, Kept
<1>2. /\ low \in Allocated(t) /\ mid \in Allocated(t) /\ top \in Allocated(t) /\ Parent(t, low) = mid
      /\ Parent(t, mid) = top /\ Color(t, low) = "RED" /\ Color(t, mid) = "RED" /\ Color(t, top) = "BLACK"
      /\ Color(t, t.root) = "BLACK" /\ mid # t.root /\ low # mid /\ mid # top /\ low # top
      /\ \A m \in Allocated(t) : Parent(t, m) = top => m = mid \/ Color(t, m) = "BLACK"
  BY <1>1, NotOwnParent DEF InLine
<1>3. Dyed(p, t, mid, "BLACK", mid, "BLACK", top, "RED") /\ Kept(p, t, None)
  BY <1>1, <1>2, DyeTwice DEF Colors
<1>4. opp \in Dirs /\ dir \in Dirs /\ opp = InvertDir(dir) /\ GetChild(t, top, opp) = mid /\ mid # None /\ top # None
  BY <1>1, <1>2, GetDirIs DEF InvertDir, Dirs
<1>5. GetDir(p, mid) = opp
  BY <1>1, <1>2, <1>3 DEF Dyed, SameLinks, GetDir, Dirs
<1>6. s = Rotate(p, dir, top)
  BY <1>5
<1>23. inner # low /\ s = done
  BY DEF InLine
<1> HIDE DEF s, opp, dir
<1>7. Shape(p, None) /\ Allocated(p) = Allocated(t) /\ Linked(p)
  BY <1>3 DEF Kept, Shape
<1>8. Turned(s, p, dir, opp, top, mid, inner, par)
  <2>1. GetChild(p, top, opp) = mid /\ inner = GetChild(p, mid, dir) /\ par = Parent(p, top)
    BY <1>1, <1>2, <1>3, <1>4 DEF Dyed, SameLinks
  <2> HIDE DEF inner, par
  <2> QED
    BY <1>2, <1>4, <1>6, <1>7, <2>1, TurnedAre
<1>9. Kept(s, p, None) /\ \A m \in Nodes : Color(s, m) = Color(p, m)
  BY <1>1, <1>2, <1>7, <1>8, TurnedKept
<1>10. Kept(s, u, None)
  BY <1>3, <1>9, KeptTwice DEF InLine
<1>11. \A m \in Allocated(t) : Color(s, m) = IF m = top THEN "RED" ELSE IF m = mid THEN "BLACK" ELSE Color(t, m)
  BY <1>1, <1>3, <1>9 DEF Dyed
<1>12. \A m \in Allocated(t) : c[m] = (IF Color(t, m) = "BLACK" THEN 1 ELSE 0) /\ c[m] \in Int
  BY <1>1, WeightIs
<1>13. \A m \in Allocated(t) : e[m] = (IF Color(s, m) = "BLACK" THEN 1 ELSE 0)
  BY <1>1, <1>10, WeightIs DEF Kept, Shape
<1>14. Balanced(t, c)
  BY DEF InLine
<1> HIDE DEF c, e, inner, par
<1>15. SameLinks(p, t)
  BY <1>3 DEF Dyed
<1>16. Balanced(p, c)
  BY <1>1, <1>7, <1>14, <1>15, SameTall
<1>17. \A m \in Allocated(t) : e[m] = IF m = top THEN 0 ELSE IF m = mid THEN c[top] ELSE c[m]
  BY <1>2, <1>11, <1>12, <1>13
<1>18. c[mid] = 0
  BY <1>2, <1>12
<1>19. Balanced(s, e)
  BY <1>7, <1>8, <1>12, <1>16, <1>17, <1>18, Swap
<1>20. /\ Parent(s, top) = mid
       /\ \A m \in Allocated(t) : m # top /\ m # mid => Parent(s, m) = IF m = inner THEN top ELSE Parent(t, m)
       /\ inner # None => Parent(t, inner) = mid
  <2>1. Parent(s, top) = mid
    BY <1>1, <1>2, <1>8 DEF Turned
  <2>2. \A m \in Allocated(t) : m # top /\ m # mid => Parent(s, m) = IF m = inner THEN top ELSE Parent(t, m)
    BY <1>1, <1>8, <1>15 DEF Turned, SameLinks
  <2>3. inner # None => inner \in Nodes /\ Parent(p, inner) = mid
    BY <1>1, <1>7, <1>8 DEF Turned
  <2> QED
    BY <1>15, <2>1, <2>2, <2>3 DEF SameLinks
<1>21. Reds(s, low, None)
  <2> SUFFICES ASSUME NEW m \in Allocated(t), Color(s, m) = "RED", Color(s, Parent(s, m)) = "RED", m # low
               PROVE  FALSE
    BY <1>1, <1>10 DEF Reds, Kept
  <2>1. m # top /\ m # mid /\ Color(t, m) = "RED"
    BY <1>2, <1>11, <1>20
  <2>2. m # inner
    BY <1>2, <1>20, <2>1, <1>1 DEF Reds, InLine
  <2>3. Parent(s, m) = Parent(t, m)
    BY <1>20, <2>1, <2>2
  <2> DEFINE q == Parent(t, m)
  <2>4. q \in Allocated(t)
    BY <1>1, <2>3, AllocatedIs DEF Linked, Color, Link
  <2>5. q # top
    BY <1>2, <2>1
  <2>6. Color(t, q) = "RED"
    BY <1>11, <2>3, <2>4, <2>5
  <2> QED
    BY <1>1, <2>1, <2>4, <2>6 DEF Reds, InLine
<1>22. Placed(s, low)
  <2>1. t.root \in Allocated(t)
    BY <1>1, <1>2, RootIsAbove DEF Linked
  <2>2. s.root = mid \/ (s.root = t.root /\ t.root # top)
    BY <1>1, <1>2, <1>7, <1>8, <1>15 DEF Turned, SameLinks
  <2>3. Color(s, s.root) = "BLACK" /\ Color(s, low) = "RED"
    BY <1>2, <1>11, <2>1, <2>2
  <2> QED
    BY <1>1, <1>2, <1>10, <2>3 DEF Placed, Kept
<1>24. Color(s, Parent(s, low)) = "BLACK"
  BY <1>2, <1>11, <1>20, <1>23
<1> QED
  BY <1>10, <1>19, <1>21, <1>22, <1>23, <1>24 DEF InsertFixed, e

LEMMA InsertRoundFixes ==
  ASSUME NEW t, Shape(t, None), Balanced(t, Weights(t, None, None)),
         NEW p \in Allocated(t), Reds(t, p, None), Placed(t, p),
         Parent(t, p) # None, Color(t, Parent(t, p)) = "RED"
  PROVE  /\ InsertFixed(InsertRound(t, p).t, t, InsertRound(t, p).at)
         /\ Climbs(InsertRound(t, p).t, InsertRound(t, p).at, t, p)
<1>1. CASE Color(t, GetUncle(t, p)) = "RED"
  BY <1>1, RecolorFixes
<1>2. CASE Color(t, GetUncle(t, p)) # "RED"
  <2> DEFINE P     == Parent(t, p)
             G     == Parent(t, P)
             turn  == Angled(t, p)
             s     == IF turn THEN Rotate(t, InvertDir(GetDir(t, p)), P) ELSE t
             low   == IF turn THEN P ELSE p
             mid   == IF turn THEN p ELSE P
             q     == Paint(Paint(s, mid, "BLACK"), G, "RED")
             done  == Rotate(q, InvertDir(GetDir(q, mid)), G)
  <2>1. InLine(s, t, low, mid, G)
    BY <1>2, Straighten
  <2>2. Parent(s, low) = mid
    BY <2>1 DEF InLine
  <2>3. InsertRound(t, p) = [t |-> done, at |-> low]
    BY <1>2, <2>2 DEF InsertRound
  <2> HIDE DEF s, low, mid, G
  <2>4. InsertFixed(done, t, low) /\ Color(done, Parent(done, low)) = "BLACK"
    BY <2>1, LiftFixes
  <2> QED
    BY <2>3, <2>4 DEF Climbs
<1> QED
  BY <1>1, <1>2

\* The repair before a deletion: the subtree of p is one short, x is to go.
Lacks(t, p, x) ==
  /\ Shape(t, x) /\ Balanced(t, Weights(t, p, x)) /\ Reds(t, None, p)
  /\ p \in Allocated(t) /\ Color(t, x) = "BLACK" /\ Color(t, t.root) = "BLACK"
  /\ x \in Allocated(t) \ {t.root} /\ \E d \in Dirs : GetChild(t, x, d) = None

\* There is a sibling, and it and the parent stay.
Around(t, p, x, up, sib) ==
  /\ up \in Allocated(t) /\ sib \in Allocated(t) /\ Parent(t, p) = up /\ Parent(t, sib) = up
  /\ sib # p /\ up # x /\ sib # x /\ p # up /\ sib # up
  /\ \A m \in Allocated(t) : Parent(t, m) = up => m = p \/ m = sib
  /\ \A m \in Allocated(t) : Color(t, m) = "RED" => Color(t, Parent(t, m)) = "BLACK"

LEMMA AroundIs ==
  ASSUME NEW t, NEW p, NEW x, Lacks(t, p, x), p # t.root, Color(t, p) = "BLACK"
  PROVE  Around(t, p, x, Parent(t, p), GetSibling(t, p)) /\ GetSibling(t, p) # None
<1> DEFINE up  == Parent(t, p)
           sib == GetSibling(t, p)
           c   == Weights(t, p, x)
<1>1. Linked(t) /\ Ranked(t) /\ Allocated(t) \subseteq Nodes /\ None \notin Nodes /\ p \in Allocated(t) /\ Shape(t, x)
  BY AllocatedIs DEF Shape, Lacks
<1>2. up \in Allocated(t) /\ p # up /\ up # None
  BY <1>1, NotOwnParent DEF Linked
<1>3. /\ sib # None => sib \in Allocated(t) /\ Parent(t, sib) = up
      /\ sib # p /\ \A m \in Allocated(t) : Parent(t, m) = up => m = p \/ m = sib
  BY <1>1, SiblingIs
<1>4. PICK d \in Dirs : GetChild(t, up, d) = p /\ InvertDir(d) \in Dirs /\ GetChild(t, up, InvertDir(d)) = sib
  BY <1>1, GetDirIs DEF GetSibling
<1>5. PICK h : Tall(t, c, h)
  BY DEF Lacks, Balanced
<1>6. \A m \in Allocated(t) : /\ Color(t, m) \in Colors
                              /\ c[m] = (IF Color(t, m) = "BLACK" /\ m # x THEN 1 ELSE 0) + (IF m = p THEN 1 ELSE 0)
                              /\ c[m] \in Nat
  BY <1>1, WeightIs
<1> HIDE DEF up, sib, c
<1>7. \A m \in Allocated(t) \union {None} : h[m] \in Nat
  BY <1>1, <1>5, <1>6, TallIsNat
<1>8. h[None] = 0 /\ \A m \in Allocated(t), e \in Dirs : h[m] = h[GetChild(t, m, e)] + c[m]
  BY <1>5 DEF Tall
<1>9. h[p] >= 1
  <2> DEFINE k == GetChild(t, p, d)
  <2>1. k \in Allocated(t) \union {None}
    BY <1>1 DEF Linked
  <2>2. h[p] = h[k] + c[p] /\ h[k] \in Nat /\ c[p] \in Nat /\ c[p] >= 1
    BY <1>1, <1>6, <1>7, <1>8, <2>1
  <2> QED
    BY <2>2
<1>10. h[sib] = h[p]
  <2>1. h[up] = h[p] + c[up] /\ h[up] = h[sib] + c[up]
    BY <1>2, <1>4, <1>8
  <2>2. h[sib] \in Int /\ h[p] \in Int /\ c[up] \in Int
    BY <1>1, <1>2, <1>3, <1>6, <1>7
  <2>3. h[sib] + c[up] = h[p] + c[up]
    BY <2>1
  <2>4. \A i, j, k \in Int : i + k = j + k => i = j
    OBVIOUS
  <2> QED
    BY <2>2, <2>3, <2>4
<1>11. sib # None
  BY <1>8, <1>9, <1>10
<1>12. x \in Allocated(t) /\ x # None /\ \E e \in Dirs : GetChild(t, x, e) = None
  BY <1>1 DEF Lacks
<1>13. h[x] = c[x]
  BY <1>6, <1>8, <1>12
<1>14. up # x
  <2> SUFFICES ASSUME up = x PROVE FALSE
    OBVIOUS
  <2>1. h[up] = h[p] + c[up]
    BY <1>2, <1>4, <1>8
  <2> QED
    BY <1>1, <1>2, <1>6, <1>7, <1>9, <1>13, <2>1
<1>15. sib # x
  BY <1>3, <1>6, <1>9, <1>10, <1>12, <1>13
<1>16. sib # up
  BY <1>1, <1>3, <1>11, NotOwnParent
<1>17. \A m \in Allocated(t) : Color(t, m) = "RED" => Color(t, Parent(t, m)) = "BLACK"
  <2> SUFFICES ASSUME NEW m \in Allocated(t), Color(t, m) = "RED" PROVE Color(t, Parent(t, m)) = "BLACK"
    OBVIOUS
  <2>1. Color(t, Parent(t, m)) # "RED"
    BY <1>1 DEF Lacks, Reds
  <2>2. Parent(t, m) \in Allocated(t)
    BY <2>1, <1>1 DEF Lacks, Linked
  <2> QED
    BY <1>6, <2>1, <2>2 DEF Colors
<1>18. Parent(t, p) = up
  BY DEF up
<1>19. Around(t, p, x, up, sib)
  BY <1>2, <1>3, <1>11, <1>14, <1>15, <1>16, <1>17, <1>18 DEF Around
<1> QED
  BY <1>11, <1>19 DEF up, sib

\* What the rounds do to the loop: the lack goes up, comes under a red parent, or
\* finds a red outer nephew.
LackUp(s, q, t, p) ==
  q = Parent(t, p) /\ Color(s, q) = Color(t, q) /\ \A m \in Nodes : Parent(s, m) = Parent(t, m)

RedAbove(s, q, t, p) ==
  q = p /\ Color(t, Parent(t, p)) = "BLACK" /\ Color(s, Parent(s, p)) = "RED"

RedOutside(s, q, t, p) ==
  /\ q = p /\ Parent(s, p) = Parent(t, p) /\ Color(s, Parent(t, p)) = Color(t, Parent(t, p))
  /\ Color(s, GetSibling(s, p)) = "BLACK" /\ Color(s, OuterNephew(s, p)) = "RED"
  /\ \A m \in Nodes : \/ Parent(s, m) = Parent(t, m) \/ m = GetSibling(t, p)
                       \/ Parent(t, m) = GetSibling(t, p) \/ Parent(t, m) = InnerNephew(t, p)

LEMMA BlackFamilyKeeps ==
  ASSUME NEW t, NEW p, NEW x, Lacks(t, p, x), p # t.root, Color(t, p) = "BLACK",
         Color(t, GetSibling(t, p)) = "BLACK",
         Color(t, InnerNephew(t, p)) # "RED", Color(t, OuterNephew(t, p)) # "RED"
  PROVE  /\ Kept(BlackFamily(t, p).t, t, x) /\ Lacks(BlackFamily(t, p).t, BlackFamily(t, p).at, x)
         /\ LackUp(BlackFamily(t, p).t, BlackFamily(t, p).at, t, p)
<1> DEFINE up  == Parent(t, p)
           sib == GetSibling(t, p)
           s   == Paint(t, sib, "RED")
           c   == Weights(t, p, x)
           e   == Weights(s, up, x)
<1>1. Linked(t) /\ Ranked(t) /\ Allocated(t) \subseteq Nodes /\ None \notin Nodes /\ p \in Allocated(t) /\ Shape(t, x)
  BY AllocatedIs DEF Shape, Lacks
<1>2. Around(t, p, x, up, sib) /\ sib # None
  BY AroundIs
<1>3. \A m \in Allocated(t) : Parent(t, m) = sib => Color(t, m) # "RED"
  <2> SUFFICES ASSUME NEW m \in Allocated(t), Parent(t, m) = sib PROVE Color(t, m) # "RED"
    OBVIOUS
  <2>1. m # t.root
    BY <1>1, <1>2 DEF Linked
  <2>2. PICK d \in Dirs : GetChild(t, sib, d) = m
    BY <1>1, <2>1 DEF Linked
  <2>3. GetDir(t, p) \in Dirs
    BY <1>1, GetDirIs
  <2>4. d = GetDir(t, p) \/ d = InvertDir(GetDir(t, p))
    BY <2>3 DEF Dirs, InvertDir
  <2> QED
    BY <2>2, <2>4 DEF InnerNephew, OuterNephew
<1>4. \A d \in Dirs : GetChild(t, up, d) # None
  <2>1. GetChild(t, up, GetDir(t, p)) = p /\ GetDir(t, p) \in Dirs
    BY <1>1, GetDirIs
  <2>2. GetChild(t, up, InvertDir(GetDir(t, p))) = sib
    BY DEF GetSibling
  <2> QED
    BY <1>1, <1>2, <2>1, <2>2 DEF Dirs, InvertDir
<1>5. BlackFamily(t, p) = [t |-> s, at |-> up]
  BY DEF BlackFamily
<1>6. Painted(s, t, sib, "RED") /\ Kept(s, t, x)
  BY <1>1, <1>2, PaintKeeps DEF Around, Colors
<1>7. Color(t, sib) = "BLACK" /\ up = Parent(t, p)
  OBVIOUS
<1> HIDE DEF up, sib, s
<1>8. Shape(s, x) /\ Allocated(s) = Allocated(t) /\ Linked(s) /\ SameLinks(s, t)
      /\ \A m \in Allocated(t) : Color(s, m) = IF m = sib THEN "RED" ELSE Color(t, m)
  BY <1>1, <1>6 DEF Kept, Shape, Painted
<1>9. \A m \in Allocated(t) : /\ c[m] = (IF Color(t, m) = "BLACK" /\ m # x THEN 1 ELSE 0) + (IF m = p THEN 1 ELSE 0)
                              /\ c[m] \in Int
  BY <1>1, WeightIs
<1>10. \A m \in Allocated(t) : e[m] = (IF Color(s, m) = "BLACK" /\ m # x THEN 1 ELSE 0) + (IF m = up THEN 1 ELSE 0)
  BY <1>8, WeightIs
<1>11. Balanced(t, c)
  BY DEF Lacks
<1> HIDE DEF c, e
<1>12. \A m \in Allocated(t) : e[m] = IF m = up THEN c[up] - (-1)
                                       ELSE IF Parent(t, m) = up THEN c[m] + (-1) ELSE c[m]
  BY <1>1, <1>2, <1>7, <1>8, <1>9, <1>10 DEF Around
<1>13. Balanced(t, e)
  BY <1>1, <1>2, <1>4, <1>9, <1>11, <1>12, Push DEF Around
<1>14. Balanced(s, e)
  BY <1>1, <1>8, <1>13, SameTall
<1>15. Reds(s, None, up)
  <2> SUFFICES ASSUME NEW m \in Allocated(t), Color(s, m) = "RED", Color(s, Parent(t, m)) = "RED", Parent(t, m) # up
               PROVE  FALSE
    BY <1>1, <1>8 DEF Reds, SameLinks
  <2>1. m # sib /\ Color(t, m) = "RED"
    BY <1>2, <1>8 DEF Around
  <2>2. Parent(t, m) \in Allocated(t)
    BY <1>1 DEF Linked, Lacks, Color
  <2>3. Parent(t, m) # sib
    BY <1>3, <2>1
  <2>4. Color(t, Parent(t, m)) = "RED"
    BY <1>8, <2>2, <2>3
  <2> QED
    BY <1>2, <2>1, <2>4 DEF Around
<1>16. Color(s, x) = "BLACK" /\ s.root = t.root /\ x \in Allocated(t) \ {t.root} /\ \E d \in Dirs : GetChild(s, x, d) = None
  BY <1>1, <1>2, <1>8 DEF Lacks, Around, SameLinks
<1>17. Color(s, s.root) = "BLACK"
  <2>1. t.root # sib
    BY <1>1, <1>2 DEF Around, Linked
  <2>2. t.root \in Allocated(t)
    BY <1>1, <1>16, RootIsAbove DEF Linked
  <2> QED
    BY <1>8, <1>16, <2>1, <2>2 DEF Lacks
<1>18. up \in Allocated(t)
  BY <1>2 DEF Around
<1>19. Lacks(s, up, x)
  BY <1>8, <1>14, <1>15, <1>16, <1>17, <1>18 DEF Lacks, e
<1>20. LackUp(s, up, t, p)
  BY <1>2, <1>7, <1>8, <1>18 DEF LackUp, SameLinks, Around
<1> QED
  BY <1>5, <1>6, <1>19, <1>20

LEMMA NephewsAre ==
  ASSUME NEW t, NEW p, NEW x, Lacks(t, p, x), p # t.root, Color(t, p) = "BLACK",
         NEW sib, sib = GetSibling(t, p), NEW inn, inn = InnerNephew(t, p), NEW out, out = OuterNephew(t, p)
  PROVE  /\ GetDir(t, p) \in Dirs /\ InvertDir(GetDir(t, p)) \in Dirs
         /\ GetChild(t, Parent(t, p), InvertDir(GetDir(t, p))) = sib
         /\ GetDir(t, sib) = InvertDir(GetDir(t, p))
         /\ GetChild(t, sib, GetDir(t, p)) = inn /\ GetChild(t, sib, InvertDir(GetDir(t, p))) = out
         /\ \A m \in Allocated(t) : Parent(t, m) = sib => m = inn \/ m = out
         /\ out # None => out \in Allocated(t) /\ Parent(t, out) = sib /\ out # inn
         /\ inn # None => inn \in Allocated(t) /\ Parent(t, inn) = sib /\ out # inn
<1> DEFINE up == Parent(t, p)
           d  == GetDir(t, p)
<1>1. Linked(t) /\ Allocated(t) \subseteq Nodes /\ None \notin Nodes /\ p \in Allocated(t)
  BY AllocatedIs DEF Shape, Lacks
<1>2. Around(t, p, x, up, sib) /\ sib # None
  BY AroundIs
<1>3. d \in Dirs /\ InvertDir(d) \in Dirs /\ GetChild(t, up, d) = p /\ GetChild(t, up, InvertDir(d)) = sib
  BY <1>1, GetDirIs DEF GetSibling
<1>4. GetDir(t, sib) = InvertDir(d)
  BY <1>1, <1>2, <1>3 DEF Around, GetDir, InvertDir, Dirs
<1>5. GetChild(t, sib, d) = inn /\ GetChild(t, sib, InvertDir(d)) = out
  BY DEF InnerNephew, OuterNephew
<1> HIDE DEF d, up
<1>6. ASSUME NEW m \in Allocated(t), Parent(t, m) = sib PROVE m = inn \/ m = out
  <2>1. m # t.root
    BY <1>1, <1>2, <1>6 DEF Linked
  <2>2. PICK e \in Dirs : GetChild(t, sib, e) = m
    BY <1>1, <1>6, <2>1 DEF Linked
  <2>3. e = d \/ e = InvertDir(d)
    BY <1>3 DEF Dirs, InvertDir
  <2> QED
    BY <1>5, <2>2, <2>3
<1>7. sib \in Allocated(t) /\ (IF d = "left" THEN InvertDir(d) = "right" ELSE d = "right" /\ InvertDir(d) = "left")
  <2>1. sib \in Allocated(t)
    BY <1>2 DEF Around
  <2>2. IF d = "left" THEN InvertDir(d) = "right" ELSE d = "right" /\ InvertDir(d) = "left"
    BY <1>3 DEF Dirs, InvertDir
  <2> QED
    BY <2>1, <2>2
<1>8. /\ out # None => out \in Allocated(t) /\ Parent(t, out) = sib /\ out # inn
      /\ inn # None => inn \in Allocated(t) /\ Parent(t, inn) = sib /\ out # inn
  BY <1>1, <1>3, <1>5, <1>7 DEF Linked
<1> QED
  BY <1>3, <1>4, <1>5, <1>6, <1>8 DEF d, up

\* What a rotation of a painted tree leaves of the rest.
LEMMA TurnedLacks ==
  ASSUME NEW t, NEW p, NEW x, Lacks(t, p, x), NEW q, Kept(q, t, x), SameLinks(q, t),
         NEW s, NEW dir, NEW opp, NEW n, NEW up, NEW inner, NEW par,
         Turned(s, q, dir, opp, n, up, inner, par), n # x, up # x
  PROVE  /\ Kept(s, t, x) /\ Linked(s) /\ Ranked(s) /\ Linked(q) /\ Ranked(q) /\ Allocated(q) = Allocated(t)
         /\ \A m \in Nodes : Color(s, m) = Color(q, m)
         /\ x \in Allocated(s) \ {s.root} /\ \E d \in Dirs : GetChild(s, x, d) = None
         /\ t.root \in Allocated(t)
         /\ (s.root = up /\ n = t.root) \/ (s.root = t.root /\ t.root # n)
         /\ s.root \in Allocated(t)
         /\ up # n /\ Parent(s, n) = up /\ Parent(s, up) = par
         /\ inner # None => inner \in Allocated(t) /\ Parent(t, inner) = up /\ Parent(s, inner) = n
         /\ \A m \in Allocated(t) : m # n /\ m # up /\ m # inner => Parent(s, m) = Parent(t, m)
<1>1. Shape(q, x) /\ Linked(q) /\ Ranked(q) /\ Allocated(q) = Allocated(t)
  BY DEF Kept, Shape
<1>2. Linked(t) /\ Allocated(t) \subseteq Nodes /\ None \notin Nodes
  BY AllocatedIs DEF Lacks, Shape
<1>3. Kept(s, q, x) /\ \A m \in Nodes : Color(s, m) = Color(q, m)
  BY <1>1, TurnedKept
<1>4. Kept(s, t, x)
  BY <1>3, KeptTwice
<1>5. x \in Allocated(t) /\ x # t.root
  BY DEF Lacks
<1>6. t.root \in Allocated(t)
  BY <1>2, <1>5, RootIsAbove DEF Linked, Lacks
<1>7. (s.root = up /\ n = t.root) \/ (s.root = t.root /\ t.root # n)
  BY DEF Turned, SameLinks
<1>8. n \in Allocated(t) /\ up \in Allocated(t) /\ up # n
  BY <1>1 DEF Turned
<1>9. PICK d \in Dirs : GetChild(t, x, d) = None
  BY DEF Lacks
<1>10. GetChild(q, x, d) = None
  BY <1>2, <1>5, <1>9 DEF SameLinks
<1>11. GetChild(s, x, d) = None
  BY <1>2, <1>5, <1>8, <1>10 DEF Turned
<1>12. up # n /\ Parent(s, n) = up /\ Parent(s, up) = par
  BY <1>2, <1>8 DEF Turned
<1>13. inner # None => inner \in Allocated(t) /\ Parent(t, inner) = up /\ Parent(s, inner) = n
  <2>1. inner # None => inner \in Allocated(t) /\ Parent(q, inner) = up /\ inner # n /\ inner # up
    BY <1>1 DEF Turned
  <2> QED
    BY <1>2, <2>1 DEF Turned, SameLinks
<1>14. \A m \in Allocated(t) : m # n /\ m # up /\ m # inner => Parent(s, m) = Parent(t, m)
  BY <1>2 DEF Turned, SameLinks
<1>15. Linked(s) /\ Ranked(s) /\ Allocated(s) = Allocated(t)
  BY <1>4 DEF Kept, Shape
<1> QED
  BY <1>1, <1>3, <1>4, <1>5, <1>6, <1>7, <1>8, <1>9, <1>11, <1>12, <1>13, <1>14, <1>15

LEMMA RedSiblingKeeps ==
  ASSUME NEW t, NEW p, NEW x, Lacks(t, p, x), p # t.root, Color(t, p) = "BLACK",
         Color(t, GetSibling(t, p)) = "RED"
  PROVE  /\ Kept(RedSibling(t, p).t, t, x) /\ Lacks(RedSibling(t, p).t, RedSibling(t, p).at, x)
         /\ RedAbove(RedSibling(t, p).t, RedSibling(t, p).at, t, p)
<1> DEFINE up    == Parent(t, p)
           sib   == GetSibling(t, p)
           q     == Paint(Paint(t, sib, "BLACK"), up, "RED")
           dir   == GetDir(t, p)
           opp   == InvertDir(dir)
           s     == Rotate(q, dir, up)
           inner == GetChild(q, sib, dir)
           par   == Parent(q, up)
           c     == Weights(t, p, x)
           e     == Weights(s, p, x)
<1>1. Linked(t) /\ Ranked(t) /\ Allocated(t) \subseteq Nodes /\ None \notin Nodes /\ p \in Allocated(t) /\ Shape(t, x)
  BY AllocatedIs DEF Shape, Lacks
<1>2. Around(t, p, x, up, sib) /\ sib # None
  BY AroundIs
<1>3. dir \in Dirs /\ opp \in Dirs /\ GetChild(t, up, opp) = sib
  BY NephewsAre
<1>4. RedSibling(t, p) = [t |-> s, at |-> p]
  BY DEF RedSibling
<1>5. Dyed(q, t, sib, "BLACK", sib, "BLACK", up, "RED") /\ Kept(q, t, x)
  BY <1>1, <1>2, DyeTwice DEF Around, Colors
<1>6. Color(t, sib) = "RED" /\ Color(t, up) = "BLACK" /\ Parent(t, p) = up
  BY <1>2 DEF Around
<1> HIDE DEF up, sib, q, dir
<1>7. SameLinks(q, t) /\ Shape(q, x) /\ Allocated(q) = Allocated(t) /\ up \in Allocated(t) /\ GetChild(q, up, opp) = sib
  BY <1>1, <1>2, <1>3, <1>5 DEF Dyed, Kept, SameLinks, Around
<1> HIDE DEF opp
<1>8. Turned(s, q, dir, opp, up, sib, inner, par)
  BY <1>2, <1>3, <1>7, TurnedAre DEF opp
<1> HIDE DEF s, inner, par
<1>9. up # x /\ sib # x /\ up \in Allocated(t) /\ sib \in Allocated(t) /\ p # up /\ p # sib /\ sib # up
  BY <1>2 DEF Around
<1>10. /\ Kept(s, t, x) /\ Linked(s) /\ Ranked(s) /\ Linked(q)
       /\ x \in Allocated(s) \ {s.root} /\ \E d \in Dirs : GetChild(s, x, d) = None
       /\ (s.root = sib /\ up = t.root) \/ (s.root = t.root /\ t.root # up)
       /\ s.root \in Allocated(t)
       /\ Parent(s, up) = sib
       /\ inner # None => inner \in Allocated(t) /\ Parent(t, inner) = sib /\ Parent(s, inner) = up
       /\ \A m \in Allocated(t) : m # up /\ m # sib /\ m # inner => Parent(s, m) = Parent(t, m)
       /\ \A m \in Nodes : Color(s, m) = Color(q, m)
  BY <1>5, <1>7, <1>8, <1>9, TurnedLacks
<1>11. \A m \in Allocated(t) : Color(s, m) = IF m = up THEN "RED" ELSE IF m = sib THEN "BLACK" ELSE Color(t, m)
  BY <1>1, <1>5, <1>10 DEF Dyed
<1>12. \A m \in Allocated(t) : /\ c[m] = (IF Color(t, m) = "BLACK" /\ m # x THEN 1 ELSE 0) + (IF m = p THEN 1 ELSE 0)
                               /\ c[m] \in Int
  BY <1>1, WeightIs
<1>13. \A m \in Allocated(t) : e[m] = (IF Color(s, m) = "BLACK" /\ m # x THEN 1 ELSE 0) + (IF m = p THEN 1 ELSE 0)
  BY <1>10, WeightIs DEF Kept
<1>14. Balanced(t, c)
  BY DEF Lacks
<1> HIDE DEF c, e
<1>15. Balanced(q, c)
  BY <1>1, <1>7, <1>14, SameTall
<1>16. c[sib] = 0 /\ \A m \in Allocated(t) : e[m] = IF m = up THEN 0 ELSE IF m = sib THEN c[up] ELSE c[m]
  BY <1>6, <1>9, <1>11, <1>12, <1>13
<1>17. Balanced(s, e)
  BY <1>7, <1>8, <1>10, <1>12, <1>15, <1>16, Swap
<1>18. Reds(s, None, p)
  <2> SUFFICES ASSUME NEW m \in Allocated(t), Color(s, m) = "RED", Color(s, Parent(s, m)) = "RED"
               PROVE  FALSE
    BY <1>10 DEF Reds, Kept
  <2>1. m # sib /\ m # up
    BY <1>9, <1>10, <1>11
  <2>2. Color(t, m) = "RED"
    BY <1>11, <2>1
  <2>3. Color(t, Parent(t, m)) = "BLACK"
    BY <1>2, <2>2 DEF Around
  <2>4. m # inner
    BY <1>1, <1>6, <1>10, <2>3
  <2>5. Parent(s, m) = Parent(t, m)
    BY <1>10, <2>1, <2>4
  <2>6. Parent(t, m) \in Allocated(t)
    BY <1>1, <1>10, <2>5, AllocatedIs DEF Linked, Color, Link, Kept
  <2>7. Parent(t, m) = up
    BY <1>11, <2>3, <2>5, <2>6
  <2>8. m = p
    BY <1>2, <2>1, <2>7 DEF Around
  <2> QED
    BY <2>2, <2>8
<1>19. Color(s, x) = "BLACK" /\ Color(s, s.root) = "BLACK"
  BY <1>9, <1>10, <1>11 DEF Lacks
<1>20. Lacks(s, p, x)
  BY <1>1, <1>10, <1>17, <1>18, <1>19 DEF Lacks, Kept, e
<1>21. RedAbove(s, p, t, p)
  <2>1. p # inner
    BY <1>6, <1>9, <1>1, <1>10
  <2>2. Parent(s, p) = up
    BY <1>1, <1>6, <1>9, <1>10, <2>1
  <2> QED
    BY <1>6, <1>9, <1>11, <2>2 DEF RedAbove
<1> QED
  BY <1>4, <1>10, <1>20, <1>21

LEMMA RedInnerNephewKeeps ==
  ASSUME NEW t, NEW p, NEW x, Lacks(t, p, x), p # t.root, Color(t, p) = "BLACK",
         Color(t, GetSibling(t, p)) = "BLACK",
         Color(t, InnerNephew(t, p)) = "RED", Color(t, OuterNephew(t, p)) # "RED"
  PROVE  /\ Kept(RedInnerNephew(t, p).t, t, x) /\ Lacks(RedInnerNephew(t, p).t, RedInnerNephew(t, p).at, x)
         /\ RedOutside(RedInnerNephew(t, p).t, RedInnerNephew(t, p).at, t, p)
<1> DEFINE up    == Parent(t, p)
           sib   == GetSibling(t, p)
           inn   == InnerNephew(t, p)
           out   == OuterNephew(t, p)
           q     == Paint(Paint(t, sib, "RED"), inn, "BLACK")
           dir   == GetDir(t, sib)
           opp   == GetDir(t, p)
           s     == Rotate(q, dir, sib)
           inner == GetChild(q, inn, dir)
           par   == Parent(q, sib)
           c     == Weights(t, p, x)
           e     == Weights(s, p, x)
<1>1. Linked(t) /\ Ranked(t) /\ Allocated(t) \subseteq Nodes /\ None \notin Nodes /\ p \in Allocated(t) /\ Shape(t, x)
  BY AllocatedIs DEF Shape, Lacks
<1>2. Around(t, p, x, up, sib) /\ sib # None
  BY AroundIs
<1>3. Color(t, sib) = "BLACK" /\ Color(t, inn) = "RED" /\ inn # None /\ Color(t, out) # "RED"
  BY DEF Color
<1>4. /\ opp \in Dirs /\ dir \in Dirs /\ dir = InvertDir(opp) /\ GetChild(t, sib, opp) = inn
      /\ inn \in Allocated(t) /\ Parent(t, inn) = sib
      /\ \A m \in Allocated(t) : Parent(t, m) = sib => m = inn \/ m = out
  BY <1>3, NephewsAre
<1>5. opp = InvertDir(dir)
  BY <1>4 DEF InvertDir, Dirs
<1>6. RedInnerNephew(t, p) = [t |-> s, at |-> p]
  BY DEF RedInnerNephew
<1>7. Dyed(q, t, sib, "RED", sib, "RED", inn, "BLACK") /\ Kept(q, t, x)
  BY <1>1, <1>2, <1>4, DyeTwice DEF Around, Colors
<1>22. /\ up = Parent(t, p) /\ sib = GetSibling(t, p) /\ inn = InnerNephew(t, p)
       /\ GetDir(t, p) = opp /\ GetChild(t, up, opp) = p /\ GetChild(t, up, dir) = sib
  BY <1>1, <1>4, GetDirIs, NephewsAre
<1> HIDE DEF up, sib, inn, out, q, dir, opp
<1>8. sib # x /\ sib \in Allocated(t) /\ sib # p /\ inn # x /\ inn # p /\ inn # sib
  BY <1>1, <1>2, <1>3, <1>4, NotOwnParent DEF Around, Lacks
<1>9. SameLinks(q, t) /\ Shape(q, x) /\ Allocated(q) = Allocated(t) /\ GetChild(q, sib, opp) = inn
  BY <1>1, <1>4, <1>7, <1>8 DEF Dyed, Kept, SameLinks
<1>10. Turned(s, q, dir, opp, sib, inn, inner, par)
  BY <1>3, <1>4, <1>5, <1>8, <1>9, TurnedAre
<1> HIDE DEF s, inner, par
<1>11. /\ Kept(s, t, x) /\ Linked(s) /\ Ranked(s) /\ Linked(q)
       /\ x \in Allocated(s) \ {s.root} /\ \E d \in Dirs : GetChild(s, x, d) = None
       /\ (s.root = inn /\ sib = t.root) \/ (s.root = t.root /\ t.root # sib)
       /\ s.root \in Allocated(t)
       /\ Parent(s, sib) = inn
       /\ inner # None => inner \in Allocated(t) /\ Parent(t, inner) = inn /\ Parent(s, inner) = sib
       /\ \A m \in Allocated(t) : m # sib /\ m # inn /\ m # inner => Parent(s, m) = Parent(t, m)
       /\ \A m \in Nodes : Color(s, m) = Color(q, m)
  BY <1>7, <1>8, <1>9, <1>10, TurnedLacks
<1>12. \A m \in Allocated(t) : Color(s, m) = IF m = inn THEN "BLACK" ELSE IF m = sib THEN "RED" ELSE Color(t, m)
  BY <1>1, <1>7, <1>11 DEF Dyed
<1>13. \A m \in Allocated(t) : /\ c[m] = (IF Color(t, m) = "BLACK" /\ m # x THEN 1 ELSE 0) + (IF m = p THEN 1 ELSE 0)
                               /\ c[m] \in Int
  BY <1>1, WeightIs
<1>14. \A m \in Allocated(t) : e[m] = (IF Color(s, m) = "BLACK" /\ m # x THEN 1 ELSE 0) + (IF m = p THEN 1 ELSE 0)
  BY <1>11, WeightIs DEF Kept
<1>15. Balanced(t, c)
  BY DEF Lacks
<1> HIDE DEF c, e
<1>16. Balanced(q, c)
  BY <1>1, <1>9, <1>15, SameTall
<1>17. c[inn] = 0 /\ \A m \in Allocated(t) : e[m] = IF m = sib THEN 0 ELSE IF m = inn THEN c[sib] ELSE c[m]
  BY <1>3, <1>4, <1>8, <1>12, <1>13, <1>14
<1>18. Balanced(s, e)
  BY <1>9, <1>10, <1>11, <1>13, <1>16, <1>17, Swap
<1>19. Reds(s, None, p)
  <2> SUFFICES ASSUME NEW m \in Allocated(t), Color(s, m) = "RED", Color(s, Parent(s, m)) = "RED"
               PROVE  FALSE
    BY <1>11 DEF Reds, Kept
  <2>1. m # sib /\ m # inn
    BY <1>4, <1>8, <1>11, <1>12
  <2>2. Color(t, m) = "RED"
    BY <1>12, <2>1
  <2>3. Color(t, Parent(t, m)) = "BLACK"
    BY <1>2, <2>2 DEF Around
  <2>4. m # inner
    BY <1>1, <1>3, <1>11, <2>3
  <2>5. Parent(s, m) = Parent(t, m)
    BY <1>11, <2>1, <2>4
  <2>6. Parent(t, m) \in Allocated(t)
    BY <1>1, <1>11, <2>5, AllocatedIs DEF Linked, Color, Link, Kept
  <2>7. Parent(t, m) = sib
    BY <1>12, <2>3, <2>5, <2>6
  <2> QED
    BY <1>3, <1>4, <2>1, <2>2, <2>7
<1>20. Color(s, x) = "BLACK" /\ Color(s, s.root) = "BLACK"
  BY <1>8, <1>11, <1>12 DEF Lacks
<1>21. Lacks(s, p, x)
  BY <1>1, <1>11, <1>18, <1>19, <1>20 DEF Lacks, Kept, e
<1>23. /\ up \in Allocated(t) /\ up \in Nodes /\ up # sib /\ up # inn /\ p # up /\ Parent(t, sib) = up
       /\ IF opp = "left" THEN dir = "right" ELSE opp = "right" /\ dir = "left"
  <2>1. up \in Allocated(t) /\ up # sib /\ Parent(t, sib) = up /\ p # up
    BY <1>2 DEF Around
  <2>2. up # inn
    BY <1>1, <1>4, <1>8, <2>1, NotOwnGrandparent
  <2> QED
    BY <1>1, <1>4, <2>1, <2>2 DEF Dirs, InvertDir
<1>24. par = up
  BY <1>1, <1>8, <1>9, <1>23 DEF SameLinks, par
<1>25. GetChild(s, up, opp) = p /\ GetChild(s, up, dir) = inn /\ GetChild(s, inn, dir) = sib
  <2>1. GetChild(q, up, opp) = p /\ GetChild(q, up, dir) = sib
    BY <1>4, <1>9, <1>22, <1>23 DEF SameLinks
  <2>2. GetChild(s, up, opp) = p
    BY <1>4, <1>8, <1>10, <1>23, <2>1 DEF Turned
  <2>3. GetChild(s, up, dir) = inn
    BY <1>4, <1>8, <1>10, <1>23, <1>24, <2>1 DEF Turned
  <2>4. GetChild(s, inn, dir) = sib
    BY <1>1, <1>4, <1>8, <1>10, <1>23 DEF Turned
  <2> QED
    BY <2>2, <2>3, <2>4
<1>26. Parent(s, p) = up
  <2>1. p # inner
    BY <1>1, <1>11, <1>22, <1>23
  <2> QED
    BY <1>1, <1>8, <1>11, <1>22, <2>1
<1>27. GetDir(s, p) = opp /\ GetSibling(s, p) = inn /\ OuterNephew(s, p) = sib
  <2>1. GetDir(s, p) = opp /\ InvertDir(opp) = dir
    BY <1>8, <1>23, <1>25, <1>26 DEF GetDir, InvertDir
  <2>2. GetSibling(s, p) = inn
    BY <1>25, <1>26, <2>1 DEF GetSibling
  <2> QED
    BY <1>25, <2>1, <2>2 DEF OuterNephew
<1>28. \A m \in Nodes : Parent(s, m) = Parent(t, m) \/ m = sib \/ Parent(t, m) = sib \/ Parent(t, m) = inn
  <2>1. \A m \in Nodes : m # sib /\ m # inn /\ m # inner => Parent(s, m) = Parent(t, m)
    BY <1>9, <1>10 DEF Turned, SameLinks
  <2> QED
    BY <1>1, <1>4, <1>11, <2>1
<1>29. RedOutside(s, p, t, p)
  BY <1>4, <1>8, <1>12, <1>22, <1>23, <1>26, <1>27, <1>28 DEF RedOutside
<1> QED
  BY <1>6, <1>11, <1>21, <1>29

LEMMA RedOuterNephewKeeps ==
  ASSUME NEW t, NEW p, NEW x, Lacks(t, p, x), p # t.root, Color(t, p) = "BLACK",
         Color(t, GetSibling(t, p)) = "BLACK", Color(t, OuterNephew(t, p)) = "RED"
  PROVE  Kept(RedOuterNephew(t, p).t, t, x) /\ Lacks(RedOuterNephew(t, p).t, RedOuterNephew(t, p).at, x)
<1> DEFINE up    == Parent(t, p)
           sib   == GetSibling(t, p)
           inn   == InnerNephew(t, p)
           out   == OuterNephew(t, p)
           col   == Color(t, up)
           q     == Paint(Paint(Paint(t, sib, col), up, "BLACK"), out, "BLACK")
           dir   == GetDir(t, p)
           opp   == InvertDir(dir)
           s     == Rotate(q, dir, up)
           inner == GetChild(q, sib, dir)
           par   == Parent(q, up)
           c     == Weights(t, p, x)
           c1    == [m \in Nodes |-> IF m = up THEN c[up] - (-1)
                                     ELSE IF Parent(t, m) = up THEN c[m] + (-1) ELSE c[m]]
           c2    == [m \in Nodes |-> IF m = up THEN 0 ELSE IF m = sib THEN c1[up] ELSE c1[m]]
           c3    == [m \in Nodes |-> IF m = sib THEN c2[sib] - 1
                                     ELSE IF Parent(s, m) = sib THEN c2[m] + 1 ELSE c2[m]]
           e     == Weights(s, s.root, x)
<1>1. Linked(t) /\ Ranked(t) /\ Allocated(t) \subseteq Nodes /\ None \notin Nodes /\ p \in Allocated(t) /\ Shape(t, x)
  BY AllocatedIs DEF Shape, Lacks
<1>2. Around(t, p, x, up, sib) /\ sib # None
  BY AroundIs
<1>3. Color(t, sib) = "BLACK" /\ Color(t, out) = "RED" /\ out # None
  BY DEF Color
<1>4. /\ dir \in Dirs /\ opp \in Dirs /\ GetChild(t, up, opp) = sib /\ GetChild(t, sib, opp) = out
      /\ GetChild(t, sib, dir) = inn
      /\ out \in Allocated(t) /\ Parent(t, out) = sib /\ out # inn
      /\ \A m \in Allocated(t) : Parent(t, m) = sib => m = inn \/ m = out
  BY <1>3, NephewsAre
<1>5. RedOuterNephew(t, p) = [t |-> s, at |-> s.root]
  BY DEF RedOuterNephew
<1>6. col \in Colors /\ "BLACK" \in Colors /\ up \in Allocated(t)
  BY <1>1, <1>2, WeightIs DEF Around, Colors
<1>7. Dyed(q, t, sib, col, up, "BLACK", out, "BLACK") /\ Kept(q, t, x)
  BY <1>1, <1>2, <1>4, <1>6, DyeThrice DEF Around
<1>8. /\ up # x /\ sib # x /\ up \in Allocated(t) /\ sib \in Allocated(t) /\ p # up /\ p # sib /\ sib # up
      /\ Parent(t, p) = up /\ Parent(t, sib) = up /\ \A m \in Allocated(t) : Parent(t, m) = up => m = p \/ m = sib
  BY <1>2 DEF Around
<1>9. up # t.root \/ col = "BLACK"
  BY DEF Lacks
<1>10. out # x /\ out # p /\ out # sib /\ out # up
  BY <1>1, <1>3, <1>4, <1>8, NotOwnParent, NotOwnGrandparent DEF Lacks
<1>11. \A m \in Allocated(t) : Color(t, m) = "RED" => Color(t, Parent(t, m)) = "BLACK"
  BY <1>2 DEF Around
<1>12. \A d \in Dirs : GetChild(t, up, d) # None
  <2>1. GetChild(t, up, dir) = p
    BY <1>1, GetDirIs
  <2>2. opp # dir
    BY <1>4 DEF InvertDir, Dirs
  <2> QED
    BY <1>1, <1>2, <1>4, <2>1, <2>2 DEF Dirs
<1>13. SameLinks(q, t) /\ Shape(q, x) /\ Linked(q) /\ Allocated(q) = Allocated(t)
  BY <1>7 DEF Dyed, Kept, Shape
<1>14. Color(t, up) = col
  OBVIOUS
<1> HIDE DEF up, sib, inn, out, col, q, dir
<1>15. GetChild(q, up, opp) = sib /\ inner = inn /\ GetChild(q, sib, opp) = out
  BY <1>1, <1>4, <1>8, <1>13 DEF SameLinks
<1> HIDE DEF opp
<1>16. Turned(s, q, dir, opp, up, sib, inner, par)
  BY <1>2, <1>4, <1>8, <1>13, <1>15, TurnedAre DEF opp
<1> HIDE DEF s, inner, par
<1>17. /\ Kept(s, t, x) /\ Linked(s) /\ Ranked(s)
       /\ x \in Allocated(s) \ {s.root} /\ \E d \in Dirs : GetChild(s, x, d) = None
       /\ (s.root = sib /\ up = t.root) \/ (s.root = t.root /\ t.root # up)
       /\ s.root \in Allocated(t)
       /\ Parent(s, up) = sib /\ Parent(s, sib) = par
       /\ inner # None => inner \in Allocated(t) /\ Parent(t, inner) = sib /\ Parent(s, inner) = up
       /\ \A m \in Allocated(t) : m # up /\ m # sib /\ m # inner => Parent(s, m) = Parent(t, m)
       /\ \A m \in Nodes : Color(s, m) = Color(q, m)
  BY <1>7, <1>8, <1>13, <1>16, TurnedLacks
<1>18. Shape(s, x) /\ Allocated(s) = Allocated(t)
  BY <1>17 DEF Kept
<1>19. \A m \in Allocated(t) : Color(s, m) = IF m = up \/ m = out THEN "BLACK" ELSE IF m = sib THEN col ELSE Color(t, m)
  BY <1>1, <1>7, <1>17 DEF Dyed
<1>20. \A m \in Allocated(t) : Parent(s, m) = sib <=> (m = up \/ m = out)
  <2>1. Parent(s, out) = sib
    BY <1>4, <1>10, <1>15, <1>17
  <2>2. ASSUME NEW m \in Allocated(t), Parent(s, m) = sib PROVE m = up \/ m = out
    <3>1. m # sib
      BY <1>18, <2>2, NotOwnParent
    <3>2. m # None
      BY <1>1
    <3>3. m = inner => Parent(s, m) = up
      BY <1>17, <3>2
    <3>4. m # up /\ m # inner => Parent(t, m) = sib
      BY <1>17, <2>2, <3>1
    <3> QED
      BY <1>4, <1>8, <1>15, <2>2, <3>3, <3>4
  <2> QED
    BY <1>17, <2>1, <2>2
<1>21. \A d \in Dirs : GetChild(s, sib, d) # None
  <2>1. GetChild(s, sib, dir) = up
    BY <1>1, <1>8, <1>4, <1>16 DEF Turned
  <2>2. GetChild(s, sib, opp) = out
    BY <1>1, <1>8, <1>4, <1>15, <1>16 DEF Turned
  <2>3. opp # dir
    BY <1>16 DEF Turned
  <2> QED
    BY <1>1, <1>3, <1>4, <1>8, <2>1, <2>2, <2>3 DEF Dirs
<1>22. \A m \in Allocated(t) : /\ c[m] = (IF Color(t, m) = "BLACK" /\ m # x THEN 1 ELSE 0) + (IF m = p THEN 1 ELSE 0)
                               /\ c[m] \in Int
  BY <1>1, WeightIs
<1>23. \A m \in Allocated(t) : e[m] = (IF Color(s, m) = "BLACK" /\ m # x THEN 1 ELSE 0) + (IF m = s.root THEN 1 ELSE 0)
  BY <1>17, WeightIs DEF Kept
<1>24. Balanced(t, c)
  BY DEF Lacks
<1> HIDE DEF c, e
<1>25. \A m \in Allocated(t) : c1[m] = IF m = up THEN c[up] - (-1)
                                      ELSE IF Parent(t, m) = up THEN c[m] + (-1) ELSE c[m]
  BY <1>1
<1> HIDE DEF c1
<1>26. Balanced(t, c1)
  <2>1. /\ Linked(t) /\ Ranked(t) /\ up \in Allocated(t) /\ -1 \in Int
        /\ \A m \in Allocated(t) : c[m] \in Int
    BY <1>1, <1>8, <1>22
  <2> QED
    BY <1>12, <1>24, <1>25, <2>1, Push
<1>27. \A m \in Allocated(t) : c1[m] \in Int
  BY <1>8, <1>22, <1>25
<1>28. c1[sib] = 0
  BY <1>3, <1>8, <1>22, <1>25
<1>29. Balanced(q, c1)
  BY <1>1, <1>13, <1>26, SameTall
<1>30. \A m \in Allocated(t) : c2[m] = IF m = up THEN 0 ELSE IF m = sib THEN c1[up] ELSE c1[m]
  BY <1>1
<1> HIDE DEF c2
<1>31. Balanced(s, c2)
  BY <1>13, <1>16, <1>27, <1>28, <1>29, <1>30, Swap
<1>32. \A m \in Allocated(t) : c2[m] \in Int
  BY <1>8, <1>27, <1>30
<1>33. \A m \in Allocated(t) : c3[m] = IF m = sib THEN c2[sib] - 1
                                      ELSE IF Parent(s, m) = sib THEN c2[m] + 1 ELSE c2[m]
  BY <1>1
<1> HIDE DEF c3
<1>34. Balanced(s, c3)
  BY <1>8, <1>17, <1>18, <1>21, <1>31, <1>32, <1>33, Push
<1>35. \A m \in Allocated(t) : c3[m] \in Int
  BY <1>8, <1>32, <1>33
<1>36. \A m \in Allocated(t) : e[m] = IF m = s.root THEN c3[m] + 1 ELSE c3[m]
  <2> SUFFICES ASSUME NEW m \in Allocated(t) PROVE e[m] = IF m = s.root THEN c3[m] + 1 ELSE c3[m]
    OBVIOUS
  <2>1. c3[m] = IF Color(s, m) = "BLACK" /\ m # x THEN 1 ELSE 0
    <3>1. CASE m = sib
      <4>1. c3[m] = c[up]
        BY <1>8, <1>22, <1>25, <1>30, <1>33, <3>1
      <4>2. c[up] = IF col = "BLACK" THEN 1 ELSE 0
        BY <1>8, <1>14, <1>22
      <4> QED
        BY <1>8, <1>10, <1>19, <3>1, <4>1, <4>2
    <3>2. CASE m = up
      BY <1>8, <1>19, <1>20, <1>30, <1>33, <3>2
    <3>3. CASE m = out
      <4>1. c[m] = 0
        BY <1>3, <1>4, <1>10, <1>22, <3>3
      <4>2. c1[m] = c[m]
        BY <1>2, <1>4, <1>8, <1>10, <1>25, <3>3
      <4>3. c3[m] = 1
        BY <1>4, <1>10, <1>20, <1>30, <1>33, <3>3, <4>1, <4>2
      <4> QED
        BY <1>4, <1>10, <1>19, <3>3, <4>3
    <3>4. CASE m # sib /\ m # up /\ m # out
      <4>1. c3[m] = c1[m]
        BY <1>20, <1>30, <1>33, <3>4
      <4>2. c1[m] = IF m = p THEN c[m] + (-1) ELSE c[m]
        BY <1>8, <1>25, <3>4
      <4>3. c1[m] = IF Color(t, m) = "BLACK" /\ m # x THEN 1 ELSE 0
        BY <1>22, <4>2
      <4> QED
        BY <1>19, <3>4, <4>1, <4>3
    <3> QED
      BY <3>1, <3>2, <3>3, <3>4
  <2> QED
    BY <1>23, <2>1
<1>37. Balanced(s, e)
  BY <1>17, <1>18, <1>34, <1>35, <1>36, Raise
<1>38. Reds(s, None, s.root)
  <2> SUFFICES ASSUME NEW m \in Allocated(t), Color(s, m) = "RED", Color(s, Parent(s, m)) = "RED"
               PROVE  FALSE
    BY <1>18 DEF Reds
  <2>1. m # up /\ m # out
    BY <1>19
  <2>2. Parent(s, m) \in Allocated(t) /\ Parent(s, m) # up
    <3>1. Parent(s, m) \in Allocated(t)
      BY <1>1, <1>17, <1>18, AllocatedIs DEF Linked, Color, Link
    <3>2. Color(s, up) = "BLACK"
      BY <1>8, <1>19
    <3> QED
      BY <3>1, <3>2
  <2>3. CASE m = sib
    <3>1. col = "RED"
      BY <1>19, <2>1, <2>3
    <3>2. Parent(s, sib) = Parent(t, up)
      BY <1>1, <1>8, <1>13, <1>16, <1>17 DEF Turned, SameLinks
    <3>3. Color(t, Parent(t, up)) = "BLACK"
      BY <1>8, <1>11, <1>14, <3>1
    <3>4. Parent(s, sib) # sib /\ Parent(s, sib) # out
      BY <1>8, <1>11, <1>18, <1>4, <1>3, <3>2, <3>3, NotOwnParent
    <3> QED
      BY <1>19, <2>2, <2>3, <3>2, <3>3, <3>4
  <2>4. CASE m # sib
    <3>1. m # inner
      BY <1>1, <1>17, <2>2
    <3>2. Parent(s, m) = Parent(t, m)
      BY <1>17, <2>1, <2>4, <3>1
    <3>3. Color(t, Parent(t, m)) = "BLACK"
      BY <1>11, <1>19, <2>1, <2>4
    <3>4. Parent(t, m) = sib
      BY <1>19, <2>2, <3>2, <3>3
    <3> QED
      BY <1>4, <1>15, <2>1, <3>1, <3>4
  <2> QED
    BY <2>3, <2>4
<1>39. Color(s, x) = "BLACK" /\ Color(s, s.root) = "BLACK"
  <2>1. x \in Allocated(t) /\ Color(t, x) = "BLACK" /\ Color(t, t.root) = "BLACK" /\ t.root # sib
    BY <1>1, <1>2, <1>8 DEF Lacks, Linked
  <2> QED
    BY <1>8, <1>9, <1>10, <1>17, <1>19, <2>1
<1>40. Lacks(s, s.root, x)
  BY <1>17, <1>18, <1>37, <1>38, <1>39 DEF Lacks, e
<1> QED
  BY <1>5, <1>17, <1>40

\* Each of the four rounds brings the loop nearer to its end.
Nearer(s, q, t, p) ==
  LET sib == GetSibling(t, p)
  IN  \/ q = s.root
      \/ Color(t, sib) = "BLACK" /\ LackUp(s, q, t, p)
      \/ Color(t, sib) = "RED" /\ RedAbove(s, q, t, p)
      \/ /\ Color(t, sib) = "BLACK" /\ RedOutside(s, q, t, p)
         /\ Color(t, OuterNephew(t, p)) = "BLACK" /\ Color(t, InnerNephew(t, p)) = "RED"

LEMMA DeletionRoundKeeps ==
  ASSUME NEW t, NEW p, NEW x, Lacks(t, p, x), p # t.root, Color(t, p) = "BLACK"
  PROVE  /\ GetSibling(t, p) # None
         /\ Kept(DeletionRound(t, p).t, t, x) /\ Lacks(DeletionRound(t, p).t, DeletionRound(t, p).at, x)
         /\ Nearer(DeletionRound(t, p).t, DeletionRound(t, p).at, t, p)
<1> DEFINE sib == GetSibling(t, p)
           inn == InnerNephew(t, p)
           out == OuterNephew(t, p)
<1>1. Linked(t) /\ Allocated(t) \subseteq Nodes /\ None \notin Nodes
  BY AllocatedIs DEF Shape, Lacks
<1>2. Around(t, p, x, Parent(t, p), sib) /\ sib # None
  BY AroundIs
<1>3. Color(t, sib) \in Colors
  BY <1>1, <1>2, WeightIs DEF Around
<1>4. Color(t, out) \in Colors /\ Color(t, inn) \in Colors
  <2>1. out # None => out \in Allocated(t)
    BY NephewsAre
  <2>2. inn # None => inn \in Allocated(t)
    BY NephewsAre
  <2>3. \A m \in Allocated(t) : Color(t, m) \in Colors
    BY <1>1, WeightIs
  <2>4. Color(t, None) \in Colors
    BY DEF Color, Colors
  <2> QED
    BY <2>1, <2>2, <2>3, <2>4
<1>5. CASE Color(t, sib) = "RED"
  <2>1. DeletionRound(t, p) = RedSibling(t, p)
    BY <1>5 DEF DeletionRound
  <2> QED
    BY <1>2, <1>5, <2>1, RedSiblingKeeps DEF Nearer
<1>6. CASE Color(t, sib) = "BLACK" /\ Color(t, out) = "RED"
  <2>1. DeletionRound(t, p) = RedOuterNephew(t, p)
    BY <1>6 DEF DeletionRound
  <2> QED
    BY <1>2, <1>6, <2>1, RedOuterNephewKeeps DEF Nearer, RedOuterNephew
<1>7. CASE Color(t, sib) = "BLACK" /\ Color(t, out) = "BLACK" /\ Color(t, inn) = "RED"
  <2>1. DeletionRound(t, p) = RedInnerNephew(t, p)
    BY <1>7 DEF DeletionRound
  <2> QED
    BY <1>2, <1>7, <2>1, RedInnerNephewKeeps DEF Nearer
<1>8. CASE Color(t, sib) = "BLACK" /\ Color(t, out) = "BLACK" /\ Color(t, inn) # "RED"
  <2>1. DeletionRound(t, p) = BlackFamily(t, p)
    BY <1>8 DEF DeletionRound
  <2> QED
    BY <1>2, <1>8, <2>1, BlackFamilyKeeps DEF Nearer
<1> QED
  BY <1>3, <1>4, <1>5, <1>6, <1>7, <1>8 DEF Colors

--------------------------------------------------------------------------------
(* Insertion.                                                                    *)

\* s is t with a new red leaf under n.
Hung(s, t, new, n, dir, k, v) ==
  /\ s \in Trees /\ s.root = t.root /\ new \in Nodes \ Allocated(t) /\ n \in Allocated(t) /\ dir \in Dirs
  /\ k \in Keys /\ GetChild(t, n, dir) = None
  /\ Key(s, new) = k /\ Val(s, new) = v /\ Color(s, new) = "RED" /\ Parent(s, new) = n
  /\ \A d \in Dirs : GetChild(s, new, d) = None
  /\ \A m \in Nodes : m # new =>
       /\ Key(s, m) = Key(t, m) /\ Val(s, m) = Val(t, m) /\ Color(s, m) = Color(t, m)
       /\ Parent(s, m) = Parent(t, m)
       /\ \A d \in Dirs : GetChild(s, m, d) = IF m = n /\ d = dir THEN new ELSE GetChild(t, m, d)
  /\ \A m \in Nodes \ Allocated(t) : m # new => s.node[m] = Unused

LEMMA NewNodeIs ==
  ASSUME NEW k, NEW v, NEW c, NEW p
  PROVE  NewNode(k, v, c, p) = [key |-> k, val |-> v, color |-> c, left |-> None, right |-> None, parent |-> p]
<1> DEFINE u  == [key |-> None, val |-> None, color |-> "BLACK", left |-> None, right |-> None, parent |-> None]
           u1 == [u EXCEPT !.key = k]
           u2 == [u1 EXCEPT !.val = v]
           u3 == [u2 EXCEPT !.color = c]
           u4 == [u3 EXCEPT !.parent = p]
<1>1. u1 = [key |-> k, val |-> None, color |-> "BLACK", left |-> None, right |-> None, parent |-> None]
  OBVIOUS
<1> HIDE DEF u1
<1>2. u2 = [key |-> k, val |-> v, color |-> "BLACK", left |-> None, right |-> None, parent |-> None]
  BY <1>1
<1> HIDE DEF u2
<1>3. u3 = [key |-> k, val |-> v, color |-> c, left |-> None, right |-> None, parent |-> None]
  BY <1>2
<1> HIDE DEF u3
<1>4. u4 = [key |-> k, val |-> v, color |-> c, left |-> None, right |-> None, parent |-> p]
  BY <1>3
<1> QED
  BY <1>4 DEF u4, u3, u2, u1, NewNode, Unused

LEMMA FreshIs ==
  ASSUME NEW t, Allocated(t) # Nodes
  PROVE  Fresh(t) \in Nodes \ Allocated(t)
<1>1. \E n \in Nodes \ Allocated(t) : TRUE
  BY DEF Allocated
<1> QED
  BY <1>1 DEF Fresh

LEMMA LeafIs ==
  ASSUME NEW t, Linked(t), Allocated(t) # Nodes, NEW n \in Allocated(t), NEW k \in Keys, NEW v \in Values,
         NEW dir, dir = (IF k < Key(t, n) THEN "left" ELSE "right"), GetChild(t, n, dir) = None
  PROVE  Hung(Leaf(t, n, k, v), t, Fresh(t), n, dir, k, v)
<1> DEFINE new == Fresh(t)
           fn  == [t.node[n] EXCEPT ![dir] = new]
           fm  == NewNode(k, v, "RED", n)
           F   == [t.node EXCEPT ![new] = fm, ![n][dir] = new]
           s   == [t EXCEPT !.node = F]
<1>1. Leaf(t, n, k, v) = s
  BY DEF Leaf, Key
<1>2. new \in Nodes \ Allocated(t)
  BY FreshIs
<1>3. t \in Trees /\ n \in Nodes /\ Allocated(t) \subseteq Nodes /\ None \notin Nodes /\ dir \in Dirs /\ k \in Int
  BY AllocatedIs, RbTreeAssumption DEF Linked, Dirs
<1>4. \A m \in Nodes \ Allocated(t) : t.node[m] = Unused
  BY DEF Allocated
<1> HIDE DEF new
<1>5. new # n /\ t.node \in [Nodes -> Fields] /\ t.node[n] \in Fields
  BY <1>2, <1>3 DEF Trees
<1>6. /\ fm \in Fields /\ fm.key = k /\ fm.val = v /\ fm.color = "RED" /\ fm.parent = n
      /\ \A d \in Dirs : fm[d] = None
  <2>1. fm = [key |-> k, val |-> v, color |-> "RED", left |-> None, right |-> None, parent |-> n]
    BY NewNodeIs
  <2> HIDE DEF fm
  <2> QED
    BY <1>3, <2>1 DEF Fields, Colors, Link, Dirs
<1>7. /\ fn \in Fields /\ fn.key = Key(t, n) /\ fn.val = Val(t, n) /\ fn.color = t.node[n].color
      /\ fn.parent = Parent(t, n) /\ \A d \in Dirs : fn[d] = IF d = dir THEN new ELSE GetChild(t, n, d)
  BY <1>2, <1>3, <1>5 DEF Fields, Link, Dirs, Key, Val, Parent, GetChild
<1>8. F \in [Nodes -> Fields] /\ F[new] = fm /\ F[n] = fn /\ \A m \in Nodes : m # new /\ m # n => F[m] = t.node[m]
  <2> HIDE DEF fm
  <2>1. F = [m \in Nodes |-> IF m = n THEN fn ELSE IF m = new THEN fm ELSE t.node[m]]
    BY <1>2, <1>3, <1>5
  <2> HIDE DEF F, fn
  <2>2. \A m \in Nodes : F[m] = IF m = n THEN fn ELSE IF m = new THEN fm ELSE t.node[m]
    BY <2>1
  <2>3. \A m \in Nodes : F[m] \in Fields
    BY <1>5, <1>6, <1>7, <2>2
  <2> QED
    BY <1>2, <1>3, <1>5, <2>1, <2>2, <2>3
<1> HIDE DEF F, fn, fm
<1>9. s.node = F /\ s.root = t.root /\ s \in Trees
  BY <1>3, <1>8 DEF Trees
<1> HIDE DEF s
<1>10. \A m \in Nodes : m # new =>
       /\ Key(s, m) = Key(t, m) /\ Val(s, m) = Val(t, m) /\ Color(s, m) = Color(t, m)
       /\ Parent(s, m) = Parent(t, m)
       /\ \A d \in Dirs : GetChild(s, m, d) = IF m = n /\ d = dir THEN new ELSE GetChild(t, m, d)
  <2> SUFFICES ASSUME NEW m \in Nodes, m # new
               PROVE /\ Key(s, m) = Key(t, m) /\ Val(s, m) = Val(t, m) /\ Color(s, m) = Color(t, m)
                     /\ Parent(s, m) = Parent(t, m)
                     /\ \A d \in Dirs : GetChild(s, m, d) = IF m = n /\ d = dir THEN new ELSE GetChild(t, m, d)
    OBVIOUS
  <2>1. CASE m = n
    BY <1>7, <1>8, <1>9, <2>1 DEF Key, Val, Color, Parent, GetChild
  <2>2. CASE m # n
    BY <1>8, <1>9, <2>2 DEF Key, Val, Color, Parent, GetChild
  <2> QED
    BY <2>1, <2>2
<1>11. \A m \in Nodes \ Allocated(t) : m # new => s.node[m] = Unused
  BY <1>4, <1>8, <1>9
<1>12. /\ Key(s, new) = k /\ Val(s, new) = v /\ Color(s, new) = "RED" /\ Parent(s, new) = n
       /\ \A d \in Dirs : GetChild(s, new, d) = None
  BY <1>2, <1>3, <1>6, <1>8, <1>9 DEF Key, Val, Color, Parent, GetChild
<1>13. Hung(s, t, new, n, dir, k, v)
  BY <1>2, <1>3, <1>9, <1>10, <1>11, <1>12 DEF Hung
<1> QED
  BY <1>1, <1>13 DEF new

LEMMA HungShape ==
  ASSUME NEW t, NEW s, NEW new, NEW n, NEW dir, NEW k, NEW v, Shape(t, None),
         Hung(s, t, new, n, dir, k, v), NEW S, OrderedBy(t, None, S), 2 * k \in S[n], Side(dir, 2 * k, Key(t, n))
  PROVE  Shape(s, None) /\ Allocated(s) = Allocated(t) \union {new}
<1>1. /\ Linked(t) /\ Ranked(t) /\ Allocated(t) \subseteq Nodes /\ None \notin Nodes /\ n \in Allocated(t)
      /\ new \in Nodes /\ new \notin Allocated(t) /\ new # n /\ new # None
  BY AllocatedIs DEF Shape, Hung
<1>2. Allocated(s) = Allocated(t) \union {new}
  <2>1. ASSUME NEW m \in Nodes PROVE m \in Allocated(s) <=> (m \in Allocated(t) \/ m = new)
    <3>1. CASE m \in Allocated(t) \/ m = new
      <4>1. Key(s, m) \in Keys
        BY <1>1, <3>1, AllocatedIs DEF Hung
      <4> QED
        BY <3>1, <4>1, RbTreeAssumption DEF Key, Allocated, Unused
    <3>2. CASE ~(m \in Allocated(t) \/ m = new)
      BY <3>2 DEF Hung, Allocated
    <3> QED
      BY <3>1, <3>2
  <2> QED
    BY <1>1, <2>1 DEF Allocated
<1>3. \A m \in Allocated(t) : Key(s, m) = Key(t, m) /\ Key(t, m) \in Keys
  BY <1>1, AllocatedIs DEF Hung
<1>4. ASSUME NEW m \in Allocated(t), NEW d \in Dirs
      PROVE  GetChild(s, m, d) = IF m = n /\ d = dir THEN new ELSE GetChild(t, m, d)
  BY <1>1 DEF Hung
<1>5. \A m \in Allocated(t) : Parent(s, m) = Parent(t, m)
  BY <1>1 DEF Hung
<1>6. Parent(s, new) = n /\ Key(s, new) = k /\ k \in Keys /\ \A d \in Dirs : GetChild(s, new, d) = None
  BY DEF Hung
<1>7. s.root = t.root /\ s \in Trees /\ dir \in Dirs /\ GetChild(t, n, dir) = None
  BY DEF Hung
<1>8. \A m \in Allocated(t), d \in Dirs : GetChild(t, m, d) # None =>
        GetChild(t, m, d) \in Allocated(t) /\ Parent(t, GetChild(t, m, d)) = m /\ GetChild(t, m, "left") # GetChild(t, m, "right")
  BY <1>1 DEF Linked
<1>9. Linked(s)
  <2>1. \A m \in Nodes : s.node[m] = Unused \/ Key(s, m) \in Keys
    BY <1>2, <1>3, <1>6 DEF Allocated
  <2>2. s.root \in Allocated(s) \union {None} /\ (s.root # None => Parent(s, s.root) = None)
    BY <1>1, <1>2, <1>5, <1>7 DEF Linked
  <2>3. ASSUME NEW m \in Allocated(s), NEW d \in Dirs, GetChild(s, m, d) # None
        PROVE  /\ GetChild(s, m, d) \in Allocated(s) /\ Parent(s, GetChild(s, m, d)) = m
               /\ GetChild(s, m, "left") # GetChild(s, m, "right")
    <3>1. m \in Allocated(t)
      BY <1>2, <1>6, <2>3
    <3>2. CASE m = n
      <4>1. CASE d = dir
        BY <1>1, <1>2, <1>4, <1>6, <1>7, <1>8, <3>1, <3>2, <4>1 DEF Dirs
      <4>2. CASE d # dir
        <5>1. GetChild(s, m, d) = GetChild(t, m, d) /\ GetChild(t, m, d) \in Allocated(t) /\ Parent(t, GetChild(t, m, d)) = m
          BY <1>4, <1>8, <2>3, <3>1, <4>2
        <5>2. GetChild(s, m, d) # new /\ GetChild(s, m, dir) = new
          BY <1>1, <1>4, <1>7, <3>1, <3>2, <5>1
        <5>3. GetChild(s, m, "left") # GetChild(s, m, "right")
          BY <1>7, <4>2, <5>2 DEF Dirs
        <5> QED
          BY <1>2, <1>5, <5>1, <5>3
      <4> QED
        BY <4>1, <4>2
    <3>3. CASE m # n
      <4>1. \A f \in Dirs : GetChild(s, m, f) = GetChild(t, m, f)
        BY <1>4, <3>1, <3>3
      <4> QED
        BY <1>2, <1>5, <1>8, <2>3, <3>1, <4>1 DEF Dirs
    <3> QED
      BY <3>2, <3>3
  <2>4. ASSUME NEW m \in Allocated(s) \ {s.root}
        PROVE  Parent(s, m) \in Allocated(s) /\ \E d \in Dirs : GetChild(s, Parent(s, m), d) = m
    <3>1. CASE m = new
      BY <1>1, <1>2, <1>4, <1>6, <1>7, <3>1
    <3>2. CASE m # new
      <4>1. m \in Allocated(t) /\ Parent(t, m) \in Allocated(t)
        BY <1>1, <1>2, <1>7, <2>4, <3>2 DEF Linked
      <4>2. PICK d \in Dirs : GetChild(t, Parent(t, m), d) = m
        BY <1>1, <1>7, <2>4, <4>1 DEF Linked
      <4>3. GetChild(s, Parent(t, m), d) = m
        BY <1>1, <1>4, <1>7, <4>1, <4>2
      <4> QED
        BY <1>2, <1>5, <4>1, <4>3
    <3> QED
      BY <3>1, <3>2
  <2> QED
    BY <1>7, <2>1, <2>2, <2>3, <2>4 DEF Linked
<1>10. Ranked(s)
  <2>1. PICK B, r : RankedBy(t, B, r)
    BY <1>1 DEF Ranked
  <2> DEFINE q == [m \in Nodes |-> IF m = new THEN 0 ELSE r[m] + 1]
  <2>2. B \in Nat /\ r \in [Nodes -> 0 .. B] /\ \A m \in Nodes, d \in Dirs : GetChild(t, m, d) # None => r[GetChild(t, m, d)] < r[m]
    BY <2>1 DEF RankedBy
  <2>3. q \in [Nodes -> 0 .. (B + 1)] /\ q[new] = 0 /\ \A m \in Nodes : m # new => q[m] = r[m] + 1 /\ r[m] \in Nat
    BY <1>1, <2>2
  <2> HIDE DEF q
  <2>4. ASSUME NEW m \in Nodes, NEW d \in Dirs, GetChild(s, m, d) # None PROVE q[GetChild(s, m, d)] < q[m]
    <3>1. m # new
      BY <1>6, <2>4
    <3>2. CASE m = n /\ d = dir
      BY <1>1, <1>4, <2>3, <3>1, <3>2
    <3>3. CASE ~(m = n /\ d = dir)
      <4>1. GetChild(s, m, d) = GetChild(t, m, d)
        BY <3>1, <3>3 DEF Hung
      <4>2. m \in Allocated(t)
        BY <1>1, <2>4, <4>1, AllocatedIs
      <4>3. GetChild(t, m, d) \in Nodes /\ GetChild(t, m, d) # new
        BY <1>1, <1>8, <2>4, <4>1, <4>2
      <4> QED
        BY <2>2, <2>3, <2>4, <3>1, <4>1, <4>3
    <3> QED
      BY <3>2, <3>3
  <2>5. RankedBy(s, B + 1, q)
    BY <2>2, <2>3, <2>4 DEF RankedBy
  <2> QED
    BY <2>5 DEF Ranked
<1>11. Ordered(s, None)
  <2> DEFINE R == [m \in Nodes |-> IF m = new THEN {j \in S[n] : Side(dir, j, Key(t, n))} ELSE S[m]]
  <2>1. R \in [Nodes -> SUBSET Int]
    BY <1>1 DEF OrderedBy
  <2>2. (\A j \in Int : j \in R[new] <=> (j \in S[n] /\ Side(dir, j, Key(t, n)))) /\ \A m \in Nodes : m # new => R[m] = S[m]
    BY <1>1
  <2> HIDE DEF R
  <2>3. s.root # None => \A j \in Int : j \in R[s.root]
    BY <1>1, <1>7, <2>2 DEF OrderedBy, Linked
  <2>4. ASSUME NEW m \in Allocated(s), NEW d \in Dirs, GetChild(s, m, d) # None, NEW j \in Int
        PROVE  j \in R[GetChild(s, m, d)] <=> (j \in R[m] /\ Side(d, j, Key(s, m)))
    <3>1. m \in Allocated(t) /\ m # new /\ Key(s, m) = Key(t, m) /\ R[m] = S[m]
      BY <1>1, <1>2, <1>3, <1>6, <2>2, <2>4
    <3>2. CASE m = n /\ d = dir
      BY <1>4, <2>2, <3>1, <3>2
    <3>3. CASE ~(m = n /\ d = dir)
      <4>1. GetChild(s, m, d) = GetChild(t, m, d) /\ GetChild(t, m, d) \in Allocated(t)
        BY <1>4, <1>8, <2>4, <3>1, <3>3
      <4>2. R[GetChild(t, m, d)] = S[GetChild(t, m, d)]
        BY <1>1, <2>2, <4>1
      <4> QED
        BY <2>4, <3>1, <4>1, <4>2 DEF OrderedBy
    <3> QED
      BY <3>2, <3>3
  <2>5. \A m \in Allocated(s) \ {None} : 2 * Key(s, m) \in R[m]
    <3>1. 2 * k \in Int
      BY <1>6, RbTreeAssumption
    <3>2. 2 * Key(s, new) \in R[new]
      BY <1>6, <2>2, <3>1
    <3> QED
      BY <1>1, <1>2, <1>3, <2>2, <3>2 DEF OrderedBy
  <2>6. OrderedBy(s, None, R)
    BY <2>1, <2>3, <2>4, <2>5 DEF OrderedBy
  <2> QED
    BY <2>6 DEF Ordered
<1> QED
  BY <1>2, <1>9, <1>10, <1>11 DEF Shape

\* An insertion before its repair.
Grown(s, t, new, k, v) ==
  /\ Shape(s, None) /\ Allocated(s) = Allocated(t) \union {new} /\ new \in Nodes \ Allocated(t)
  /\ Key(s, new) = k /\ Val(s, new) = v
  /\ \A m \in Allocated(t) : Key(s, m) = Key(t, m) /\ Val(s, m) = Val(t, m)
  /\ Balanced(s, Weights(s, None, None)) /\ Reds(s, new, None) /\ Placed(s, new)

LEMMA LastHas ==
  ASSUME NEW t, NEW x, Shape(t, x), t.root # None, NEW k \in Keys, NEW S, OrderedBy(t, x, S)
  PROVE  2 * k \in S[Last(t, k)]
<1>1. PICK w : IsWalk(w, t, k) /\ Last(t, k) = w[t.root]
  BY LastIs
<1>2. Linked(t) /\ t.root \in Allocated(t) /\ k \in Int
  BY RbTreeAssumption DEF Shape, Linked
<1>3. 2 * k \in S[t.root]
  BY <1>2 DEF OrderedBy
<1>4. \A n \in Allocated(t) : 2 * k \in S[n] =>
        w[n] \in Allocated(t) /\ 2 * k \in S[w[n]] /\ Down(t, k, w[n]) = None
  BY <1>1, <1>2, PassedDown
<1> QED
  BY <1>1, <1>2, <1>3, <1>4

LEMMA LeafGrows ==
  ASSUME NEW t, Shape(t, None), Balanced(t, Weights(t, None, None)), Reds(t, None, None),
         Color(t, t.root) = "BLACK", t.root # None, Allocated(t) # Nodes,
         NEW k \in Keys, NEW v \in Values, Find(t, k) = None
  PROVE  Grown(Leaf(t, Last(t, k), k, v), t, Fresh(t), k, v)
<1> DEFINE n   == Last(t, k)
           new == Fresh(t)
           s   == Leaf(t, n, k, v)
           dir == IF k < Key(t, n) THEN "left" ELSE "right"
           c   == Weights(t, None, None)
           e   == Weights(s, None, None)
<1>1. Linked(t) /\ Allocated(t) \subseteq Nodes /\ None \notin Nodes /\ t.root \in Allocated(t) /\ k \in Int
  BY AllocatedIs, RbTreeAssumption DEF Shape, Linked
<1>2. n \in Allocated(t) /\ Down(t, k, n) = None /\ Key(t, n) # k
  BY FindIs
<1>3. Key(t, n) \in Int
  BY <1>1, <1>2, AllocatedIs
<1>4. PICK S : OrderedBy(t, None, S)
  BY DEF Shape, Ordered
<1>5. 2 * k \in S[n]
  BY <1>4, LastHas
<1> HIDE DEF n, new
<1>6. GetChild(t, n, dir) = None /\ Side(dir, 2 * k, Key(t, n)) /\ dir \in Dirs
  BY <1>1, <1>2, <1>3 DEF Down, Side, Dirs
<1> HIDE DEF dir
<1>7. Hung(s, t, new, n, dir, k, v)
  BY <1>1, <1>2, <1>6, LeafIs DEF dir, new
<1> HIDE DEF s
<1>8. Shape(s, None) /\ Allocated(s) = Allocated(t) \union {new}
  BY <1>4, <1>5, <1>6, <1>7, HungShape
<1>9. new \in Nodes /\ new \notin Allocated(t) /\ new # None /\ Linked(s) /\ Color(s, new) = "RED" /\ Parent(s, new) = n
      /\ \A m \in Allocated(t) : Color(s, m) = Color(t, m) /\ Parent(s, m) = Parent(t, m)
  BY <1>1, <1>7, <1>8 DEF Hung, Shape
<1>10. \A m \in Allocated(t) : c[m] = (IF Color(t, m) = "BLACK" THEN 1 ELSE 0) /\ c[m] \in Int
  BY <1>1, WeightIs
<1>11. \A m \in Allocated(s) : e[m] = (IF Color(s, m) = "BLACK" THEN 1 ELSE 0)
  BY <1>1, <1>8, <1>9, WeightIs
<1>12. PICK h : Tall(t, c, h)
  BY DEF Balanced
<1> HIDE DEF c, e
<1> DEFINE g == [m \in Link |-> IF m = new THEN 0 ELSE h[m]]
<1>13. h \in [Link -> Int] /\ h[None] = 0 /\ \A m \in Allocated(t), d \in Dirs : h[m] = h[GetChild(t, m, d)] + c[m]
  BY <1>12 DEF Tall
<1>14. g \in [Link -> Int] /\ g[None] = 0 /\ g[new] = 0 /\ \A m \in Link : m # new => g[m] = h[m]
  BY <1>9, <1>13 DEF Link
<1> HIDE DEF g
<1>15. ASSUME NEW m \in Allocated(s), NEW d \in Dirs PROVE g[m] = g[GetChild(s, m, d)] + e[m]
  <2>1. CASE m = new
    <3>1. GetChild(s, m, d) = None /\ e[m] = 0
      BY <1>7, <1>8, <1>9, <1>11, <2>1 DEF Hung
    <3> QED
      BY <1>14, <2>1, <3>1
  <2>2. CASE m # new
    <3>1. m \in Allocated(t) /\ e[m] = c[m] /\ m \in Link
      BY <1>1, <1>8, <1>9, <1>10, <1>11, <2>2 DEF Link
    <3>2. CASE m = n /\ d = dir
      <4>1. GetChild(s, m, d) = new /\ GetChild(t, m, d) = None
        BY <1>1, <1>6, <1>7, <2>2, <3>1, <3>2 DEF Hung
      <4> QED
        BY <1>9, <1>13, <1>14, <2>2, <3>1, <4>1
    <3>3. CASE ~(m = n /\ d = dir)
      <4>1. GetChild(s, m, d) = GetChild(t, m, d)
        BY <1>1, <1>7, <2>2, <3>1, <3>3 DEF Hung
      <4>2. GetChild(t, m, d) \in Allocated(t) \union {None}
        BY <1>1, <3>1 DEF Linked
      <4>3. g[GetChild(t, m, d)] = h[GetChild(t, m, d)]
        BY <1>1, <1>9, <1>14, <4>2 DEF Link
      <4> QED
        BY <1>13, <1>14, <2>2, <3>1, <4>1, <4>3
    <3> QED
      BY <3>2, <3>3
  <2> QED
    BY <2>1, <2>2
<1>16. Balanced(s, e)
  BY <1>14, <1>15 DEF Balanced, Tall
<1>17. Reds(s, new, None)
  <2> SUFFICES ASSUME NEW m \in Allocated(s), Color(s, m) = "RED", Color(s, Parent(s, m)) = "RED", m # new
               PROVE  FALSE
    BY DEF Reds
  <2>1. m \in Allocated(t) /\ Color(t, m) = "RED" /\ Parent(s, m) = Parent(t, m)
    BY <1>8, <1>9
  <2>2. Parent(t, m) \in Allocated(t)
    BY <1>1, <2>1 DEF Linked, Color
  <2>3. Color(t, Parent(t, m)) = "RED"
    BY <1>9, <2>1, <2>2
  <2> QED
    BY <1>1, <2>1, <2>2, <2>3 DEF Reds
<1>18. Placed(s, new)
  BY <1>1, <1>7, <1>8, <1>9 DEF Placed, Hung
<1>19. /\ Key(s, new) = k /\ Val(s, new) = v
       /\ \A m \in Allocated(t) : Key(s, m) = Key(t, m) /\ Val(s, m) = Val(t, m)
  BY <1>1, <1>7, <1>9 DEF Hung
<1>20. Grown(s, t, new, k, v)
  BY <1>8, <1>9, <1>16, <1>17, <1>18, <1>19 DEF Grown, e
<1> QED
  BY <1>20 DEF s, n, new

LEMMA FirstGrows ==
  ASSUME NEW t, Shape(t, None), t.root = None, Allocated(t) # Nodes, NEW k \in Keys, NEW v \in Values,
         NEW s, s = [root |-> Fresh(t), node |-> [t.node EXCEPT ![Fresh(t)] = NewNode(k, v, "BLACK", None)]]
  PROVE  Grown(s, t, Fresh(t), k, v)
<1> DEFINE new == Fresh(t)
           fm  == NewNode(k, v, "BLACK", None)
           F   == [t.node EXCEPT ![new] = fm]
           e   == Weights(s, None, None)
           g   == [m \in Link |-> IF m = new THEN 1 ELSE 0]
           S   == [m \in Nodes |-> Int]
           r   == [m \in Nodes |-> 0]
<1>1. Linked(t) /\ Allocated(t) \subseteq Nodes /\ None \notin Nodes /\ k \in Int
  BY AllocatedIs, RbTreeAssumption DEF Shape, Linked
<1>2. Allocated(t) = {}
  BY <1>1, RootIsAbove
<1>3. new \in Nodes
  BY FreshIs
<1>4. t.node \in [Nodes -> Fields] /\ \A m \in Nodes : t.node[m] = Unused
  BY <1>1, <1>2 DEF Linked, Trees, Allocated
<1>5. fm = [key |-> k, val |-> v, color |-> "BLACK", left |-> None, right |-> None, parent |-> None]
  BY NewNodeIs
<1>6. s.root = new /\ s.node = F
  OBVIOUS
<1> HIDE DEF new, fm
<1>7. fm \in Fields
  BY <1>5 DEF Fields, Colors, Link
<1>8. F \in [Nodes -> Fields] /\ F[new] = fm /\ \A m \in Nodes : m # new => F[m] = t.node[m]
  BY <1>3, <1>4, <1>7
<1>9. s \in Trees
  <2>1. s = [root |-> new, node |-> F]
    BY DEF new, fm
  <2> HIDE DEF F
  <2>2. new \in Link /\ F \in [Nodes -> Fields]
    BY <1>3, <1>8 DEF Link
  <2>3. [root |-> new, node |-> F] \in Trees
    BY Zenon, <2>2 DEF Trees
  <2> QED
    BY Zenon, <2>1, <2>3
<1> HIDE DEF F
<1>10. /\ Key(s, new) = k /\ Val(s, new) = v /\ Color(s, new) = "BLACK" /\ Parent(s, new) = None
       /\ \A d \in Dirs : GetChild(s, new, d) = None
  BY <1>1, <1>3, <1>5, <1>6, <1>8 DEF Key, Val, Color, Parent, GetChild, Dirs
<1>11. \A m \in Nodes : m # new => s.node[m] = Unused
  BY <1>4, <1>6, <1>8
<1>12. \A m \in Nodes, d \in Dirs : GetChild(s, m, d) = None
  BY <1>10, <1>11 DEF GetChild, Unused, Dirs
<1>13. Allocated(s) = {new}
  <2>1. s.node[new] # Unused
    BY <1>10, RbTreeAssumption DEF Key, Unused
  <2> QED
    BY <1>3, <1>11, <2>1 DEF Allocated
<1>14. Linked(s)
  BY <1>6, <1>9, <1>10, <1>11, <1>12, <1>13 DEF Linked
<1>15. RankedBy(s, 0, r)
  BY <1>12 DEF RankedBy
<1>16. OrderedBy(s, None, S)
  BY <1>1, <1>3, <1>6, <1>10, <1>12, <1>13 DEF OrderedBy
<1>17. Shape(s, None)
  BY <1>14, <1>15, <1>16 DEF Shape, Ranked, Ordered
<1>18. e[new] = 1
  BY <1>1, <1>3, <1>10, <1>13, <1>14, WeightIs
<1> HIDE DEF e
<1>19. Tall(s, e, g)
  <2>1. g \in [Link -> Int] /\ g[None] = 0 /\ g[new] = 1
    BY <1>1, <1>3 DEF Link
  <2> HIDE DEF g
  <2> QED
    BY <1>3, <1>12, <1>13, <1>18, <2>1 DEF Tall
<1>20. Reds(s, new, None) /\ Placed(s, new)
  BY <1>6, <1>13 DEF Reds, Placed
<1>21. Balanced(s, e)
  BY <1>19 DEF Balanced
<1>22. Grown(s, t, new, k, v)
  BY <1>2, <1>3, <1>10, <1>13, <1>17, <1>20, <1>21 DEF Grown, e
<1> QED
  BY <1>22 DEF new

--------------------------------------------------------------------------------
(* Deletion: the node that goes in place of another is next to it in the order.  *)

LEMMA EndIs ==
  ASSUME NEW t, NEW x, Shape(t, x), NEW S, OrderedBy(t, x, S), NEW k \in Int,
         NEW n \in Allocated(t), 2 * k \in S[n], Down(t, k, n) = None
  PROVE  Last(t, k) = n
<1>1. PICK w : IsWalk(w, t, k) /\ Last(t, k) = w[t.root]
  BY LastIs
<1>2. \A m \in Allocated(t) : 2 * k \in S[m] => w[m] = w[t.root]
  BY <1>1, PassedUp
<1>3. n \in Nodes
  BY AllocatedIs DEF Shape
<1>4. w[n] = n
  BY <1>1, <1>3 DEF IsWalk
<1> QED
  BY <1>1, <1>2, <1>4

\* One node has one key.
LEMMA KeysDiffer ==
  ASSUME NEW t, NEW x, Shape(t, x), NEW m \in Allocated(t) \ {x}, NEW n \in Allocated(t) \ {x}, Key(t, m) = Key(t, n)
  PROVE  m = n
<1>1. Linked(t) /\ Key(t, m) \in Keys
  BY AllocatedIs DEF Shape
<1>2. t.root # None
  BY <1>1, RootIsAbove, AllocatedIs
<1>3. Last(t, Key(t, m)) = m /\ Last(t, Key(t, m)) = n
  BY <1>1, <1>2, FindIs
<1> QED
  BY <1>3

ExtremeIn(t, dir, S, e, n) ==
  /\ e \in Allocated(t) /\ GetChild(t, e, dir) = None /\ 2 * Key(t, e) \in S[n]
  /\ \A j \in S[n] : j = 2 * Key(t, e) \/ Side(dir, j, Key(t, e)) => j \in S[e]

LEMMA ExtremeIs ==
  ASSUME NEW t, Shape(t, None), NEW S, OrderedBy(t, None, S), NEW dir \in Dirs, NEW n \in Allocated(t)
  PROVE  ExtremeIn(t, dir, S, Extreme(t, n, dir), n)
<1> DEFINE next == [m \in Nodes |-> GetChild(t, m, dir)]
           Is(w) == w = [m \in Nodes |-> IF t.node[m][dir] = None THEN m ELSE w[t.node[m][dir]]]
           w0 == CHOOSE w : Is(w)
           Q == {m \in Nodes : m \in Allocated(t) => ExtremeIn(t, dir, S, w0[m], m)}
<1>1. Linked(t) /\ Allocated(t) \subseteq Nodes /\ None \notin Nodes
  BY AllocatedIs DEF Shape
<1>2. PICK B, r : RankedBy(t, B, r)
  BY DEF Shape, Ranked
<1>3. next \in [Nodes -> Link] /\ \A m \in Nodes : next[m] # None => r[next[m]] < r[m]
  BY <1>1, <1>2, AllocatedIs DEF RankedBy
<1> HIDE DEF next
<1>4. PICK w : w = [m \in Nodes |-> IF next[m] = None THEN m ELSE w[next[m]]]
  BY <1>2, <1>3, WalkExists DEF RankedBy
<1>5. Is(w)
  BY <1>4 DEF next, GetChild
<1> HIDE DEF Is
<1>6. Is(w0)
  BY <1>5
<1>7. Extreme(t, n, dir) = w0[n]
  BY DEF Extreme, w0, Is
<1> HIDE DEF w0
<1>8. \A m \in Nodes : w0[m] = IF GetChild(t, m, dir) = None THEN m ELSE w0[GetChild(t, m, dir)]
  BY <1>6 DEF Is, GetChild
<1>9. ASSUME NEW m \in Nodes, \A c \in Nodes : r[c] < r[m] => c \in Q PROVE m \in Q
  <2> SUFFICES ASSUME m \in Allocated(t) PROVE ExtremeIn(t, dir, S, w0[m], m)
    OBVIOUS
  <2> DEFINE c == GetChild(t, m, dir)
  <2>1. CASE c = None
    BY <1>1, <1>8, <2>1 DEF ExtremeIn, OrderedBy
  <2>2. CASE c # None
    <3>1. c \in Allocated(t) /\ c \in Nodes /\ r[c] < r[m] /\ w0[m] = w0[c]
      BY <1>1, <1>2, <1>8, <2>2 DEF Linked, RankedBy
    <3>2. ExtremeIn(t, dir, S, w0[c], c)
      BY <1>9, <3>1
    <3>3. \A j \in Int : j \in S[c] <=> (j \in S[m] /\ Side(dir, j, Key(t, m)))
      BY <2>2 DEF OrderedBy
    <3> DEFINE e == w0[c]
    <3>4. e \in Allocated(t) /\ GetChild(t, e, dir) = None /\ 2 * Key(t, e) \in S[c]
          /\ \A j \in S[c] : j = 2 * Key(t, e) \/ Side(dir, j, Key(t, e)) => j \in S[e]
      BY <3>2 DEF ExtremeIn
    <3> HIDE DEF e, c
    <3>5. Key(t, e) \in Int /\ Key(t, m) \in Int /\ S[m] \in SUBSET Int
      BY <1>1, <3>4, AllocatedIs DEF OrderedBy
    <3>6. 2 * Key(t, e) \in S[m] /\ Side(dir, 2 * Key(t, e), Key(t, m))
      BY <3>3, <3>4, <3>5
    <3>7. ASSUME NEW j \in S[m], j = 2 * Key(t, e) \/ Side(dir, j, Key(t, e)) PROVE j \in S[e]
      <4>1. Side(dir, j, Key(t, m))
        BY <3>5, <3>6, <3>7 DEF Side
      <4> QED
        BY <3>3, <3>4, <3>5, <3>7, <4>1
    <3> QED
      BY <3>1, <3>4, <3>6, <3>7 DEF ExtremeIn, e
  <2> QED
    BY <2>1, <2>2
<1> HIDE DEF Q
<1>10. \A m \in Nodes : m \in Q
  BY <1>2, <1>9, Downwards DEF RankedBy
<1> QED
  BY <1>1, <1>7, <1>10 DEF Q

\* e is the next node to n on the side opp: no other key is between theirs, and e
\* has no child towards n.
NextTo(t, n, e, dir, opp) ==
  /\ dir \in Dirs /\ opp \in Dirs /\ opp # dir
  /\ e \in Allocated(t) /\ e # n /\ GetChild(t, e, dir) = None /\ Side(opp, 2 * Key(t, e), Key(t, n))
  /\ \A m \in Allocated(t) : ~(Side(dir, 2 * Key(t, m), Key(t, e)) /\ Side(opp, 2 * Key(t, m), Key(t, n)))

LEMMA NextToIs ==
  ASSUME NEW t, Shape(t, None), NEW n \in Allocated(t), NEW dir \in Dirs, NEW opp, opp = InvertDir(dir),
         NEW c, c = GetChild(t, n, opp), c # None
  PROVE  NextTo(t, n, Extreme(t, c, dir), dir, opp)
<1> DEFINE e == Extreme(t, c, dir)
<1>1. Linked(t) /\ Allocated(t) \subseteq Nodes /\ None \notin Nodes /\ opp \in Dirs /\ opp # dir
  BY AllocatedIs DEF Shape, InvertDir, Dirs
<1>2. PICK S : OrderedBy(t, None, S)
  BY DEF Shape, Ordered
<1>3. c \in Allocated(t)
  BY <1>1 DEF Linked
<1>4. ExtremeIn(t, dir, S, e, c)
  BY <1>2, <1>3, ExtremeIs
<1> HIDE DEF e
<1>5. e \in Allocated(t) /\ GetChild(t, e, dir) = None /\ 2 * Key(t, e) \in S[c]
      /\ \A j \in S[c] : j = 2 * Key(t, e) \/ Side(dir, j, Key(t, e)) => j \in S[e]
  BY <1>4 DEF ExtremeIn
<1>6. \A m \in Allocated(t) : Key(t, m) \in Int /\ 2 * Key(t, m) \in S[m] /\ S[m] \in SUBSET Int
  BY <1>1, <1>2, AllocatedIs DEF OrderedBy
<1>7. \A j \in Int : j \in S[c] <=> (j \in S[n] /\ Side(opp, j, Key(t, n)))
  BY <1>1, <1>2 DEF OrderedBy
<1>8. Side(opp, 2 * Key(t, e), Key(t, n)) /\ 2 * Key(t, e) \in S[n]
  BY <1>5, <1>6, <1>7
<1>9. e # n
  BY <1>6, <1>8 DEF Side
<1>10. ASSUME NEW m \in Allocated(t), Side(dir, 2 * Key(t, m), Key(t, e)), Side(opp, 2 * Key(t, m), Key(t, n))
       PROVE  FALSE
  <2> DEFINE k == Key(t, m)
             j == 2 * k
  <2>1. k \in Int /\ j \in Int /\ Key(t, e) \in Int /\ Key(t, n) \in Int
    BY <1>5, <1>6
  <2>2. \A a \in S[n], b \in S[n], i \in Int : a <= i /\ i <= b => i \in S[n]
    BY <1>2, Convex
  <2>3. 2 * Key(t, e) \in S[n] /\ 2 * Key(t, n) \in S[n]
    BY <1>6, <1>8
  <2>4. (2 * Key(t, e) <= j /\ j <= 2 * Key(t, n)) \/ (2 * Key(t, n) <= j /\ j <= 2 * Key(t, e))
    BY <1>1, <1>10, <2>1 DEF Side, Dirs
  <2>5. j \in S[n]
    BY <2>1, <2>2, <2>3, <2>4
  <2>6. j \in S[e]
    BY <1>5, <1>7, <1>10, <2>1, <2>5
  <2>7. Down(t, k, e) = None
    BY <1>1, <1>5, <1>10, <2>1 DEF Down, Side, Dirs
  <2>8. Last(t, k) = e
    BY <1>2, <1>5, <2>1, <2>6, <2>7, EndIs
  <2>9. k \in Keys /\ t.root # None /\ m # None
    BY <1>1, RootIsAbove, AllocatedIs
  <2>10. Last(t, k) = m
    BY <2>9, FindIs
  <2>11. Key(t, m) = Key(t, e)
    BY <2>8, <2>10
  <2> QED
    BY <1>6, <1>10, <2>1, <2>11 DEF Side
<1>11. NextTo(t, n, e, dir, opp)
  BY <1>1, <1>5, <1>8, <1>9, <1>10 DEF NextTo
<1> QED
  BY <1>11 DEF e

\* A place as a search sees it once n has the key a instead of b.
Shifted(f, a, b, dir, opp) ==
  /\ f \in [Int -> Int] /\ f[2 * a] = 2 * b
  /\ \A j \in Int, d \in Dirs : Side(d, j, a) <=> Side(d, f[j], b)
  /\ \A j \in Int : Side(opp, j, a) <=> Side(opp, f[j], a)
  /\ \A k \in Int : k # a /\ k # b /\ ~(Side(dir, 2 * k, a) /\ Side(opp, 2 * k, b)) =>
       f[2 * k] = 2 * k /\ \A j \in Int, d \in Dirs : Side(d, j, k) <=> Side(d, f[j], k)

LEMMA ShiftedExists ==
  ASSUME NEW a \in Int, NEW b \in Int, NEW dir \in Dirs, NEW opp \in Dirs, opp # dir, Side(opp, 2 * a, b)
  PROVE  \E f : Shifted(f, a, b, dir, opp)
<1>1. CASE opp = "left"
  <2> DEFINE f == [j \in Int |-> IF j = 2 * a THEN 2 * b
                                 ELSE IF 2 * a < j /\ j <= 2 * b THEN 2 * b + 1 ELSE j]
  <2>1. dir = "right" /\ a < b
    BY <1>1 DEF Dirs, Side
  <2>2. f \in [Int -> Int] /\ f[2 * a] = 2 * b
    OBVIOUS
  <2>3. \A j \in Int : f[j] = IF j = 2 * a THEN 2 * b
                              ELSE IF 2 * a < j /\ j <= 2 * b THEN 2 * b + 1 ELSE j
    OBVIOUS
  <2> HIDE DEF f
  <2>4. \A j \in Int, d \in Dirs : Side(d, j, a) <=> Side(d, f[j], b)
    BY <2>1, <2>3 DEF Side
  <2>5. \A j \in Int : Side(opp, j, a) <=> Side(opp, f[j], a)
    BY <1>1, <2>1, <2>3 DEF Side
  <2>6. ASSUME NEW k \in Int, k # a, k # b, ~(Side(dir, 2 * k, a) /\ Side(opp, 2 * k, b))
        PROVE  f[2 * k] = 2 * k /\ \A j \in Int, d \in Dirs : Side(d, j, k) <=> Side(d, f[j], k)
    <3>1. k < a \/ b < k
      BY <1>1, <2>1, <2>6 DEF Side
    <3>2. f[2 * k] = 2 * k
      BY <2>1, <2>3, <3>1
    <3>3. \A j \in Int, d \in Dirs : Side(d, j, k) <=> Side(d, f[j], k)
      BY <2>1, <2>3, <3>1 DEF Side
    <3> QED
      BY <3>2, <3>3
  <2>7. Shifted(f, a, b, dir, opp)
    BY <2>2, <2>4, <2>5, <2>6 DEF Shifted
  <2> QED
    BY <2>7
<1>2. CASE opp = "right"
  <2> DEFINE f == [j \in Int |-> IF j = 2 * a THEN 2 * b
                                 ELSE IF 2 * b <= j /\ j < 2 * a THEN 2 * b - 1 ELSE j]
  <2>1. dir = "left" /\ b < a
    BY <1>2 DEF Dirs, Side
  <2>2. f \in [Int -> Int] /\ f[2 * a] = 2 * b
    OBVIOUS
  <2>3. \A j \in Int : f[j] = IF j = 2 * a THEN 2 * b
                              ELSE IF 2 * b <= j /\ j < 2 * a THEN 2 * b - 1 ELSE j
    OBVIOUS
  <2> HIDE DEF f
  <2>4. \A j \in Int, d \in Dirs : Side(d, j, a) <=> Side(d, f[j], b)
    BY <2>1, <2>3 DEF Side
  <2>5. \A j \in Int : Side(opp, j, a) <=> Side(opp, f[j], a)
    BY <1>2, <2>1, <2>3 DEF Side
  <2>6. ASSUME NEW k \in Int, k # a, k # b, ~(Side(dir, 2 * k, a) /\ Side(opp, 2 * k, b))
        PROVE  f[2 * k] = 2 * k /\ \A j \in Int, d \in Dirs : Side(d, j, k) <=> Side(d, f[j], k)
    <3>1. k < b \/ a < k
      BY <1>2, <2>1, <2>6 DEF Side
    <3>2. f[2 * k] = 2 * k
      BY <2>1, <2>3, <3>1
    <3>3. \A j \in Int, d \in Dirs : Side(d, j, k) <=> Side(d, f[j], k)
      BY <2>1, <2>3, <3>1 DEF Side
    <3> QED
      BY <3>2, <3>3
  <2>7. Shifted(f, a, b, dir, opp)
    BY <2>2, <2>4, <2>5, <2>6 DEF Shifted
  <2> QED
    BY <2>7
<1> QED
  BY <1>1, <1>2 DEF Dirs

\* s is t after n has taken over the entry of e.
Transplanted(s, t, n, e) ==
  /\ s \in Trees /\ s.root = t.root
  /\ \A m \in Nodes : /\ Key(s, m) = IF m = n THEN Key(t, e) ELSE Key(t, m)
                      /\ Val(s, m) = IF m = n THEN Val(t, e) ELSE Val(t, m)
                      /\ Parent(s, m) = Parent(t, m) /\ Color(s, m) = Color(t, m)
                      /\ \A d \in Dirs : GetChild(s, m, d) = GetChild(t, m, d)
  /\ \A m \in Nodes \ Allocated(t) : s.node[m] = Unused

LEMMA TransplantIs ==
  ASSUME NEW t, Linked(t), NEW n \in Allocated(t), NEW e \in Allocated(t)
  PROVE  Transplanted(Transplant(t, n, e), t, n, e)
<1> DEFINE fn == [t.node[n] EXCEPT !.key = t.node[e].key, !.val = t.node[e].val]
           F  == [t.node EXCEPT ![n] = fn]
           s  == [t EXCEPT !.node = F]
<1>1. Transplant(t, n, e) = s
  BY DEF Transplant
<1>2. t \in Trees /\ n \in Nodes /\ e \in Nodes /\ None \notin Nodes /\ t.node \in [Nodes -> Fields]
      /\ t.node[n] \in Fields /\ t.node[e] \in Fields
  BY AllocatedIs DEF Linked, Trees
<1>3. \A m \in Nodes \ Allocated(t) : t.node[m] = Unused
  BY DEF Allocated
<1>4. /\ fn \in Fields /\ fn.key = Key(t, e) /\ fn.val = Val(t, e) /\ fn.color = t.node[n].color
      /\ fn.parent = Parent(t, n) /\ \A d \in Dirs : fn[d] = GetChild(t, n, d)
  BY <1>2 DEF Fields, Dirs, Key, Val, Parent, GetChild
<1> HIDE DEF fn
<1>5. F \in [Nodes -> Fields] /\ F[n] = fn /\ \A m \in Nodes : m # n => F[m] = t.node[m]
  BY <1>2, <1>4
<1> HIDE DEF F
<1>6. s.node = F /\ s.root = t.root /\ s \in Trees
  BY <1>2, <1>5 DEF Trees
<1> HIDE DEF s
<1>7. ASSUME NEW m \in Nodes
      PROVE  /\ Key(s, m) = IF m = n THEN Key(t, e) ELSE Key(t, m)
             /\ Val(s, m) = IF m = n THEN Val(t, e) ELSE Val(t, m)
             /\ Parent(s, m) = Parent(t, m) /\ Color(s, m) = Color(t, m)
             /\ \A d \in Dirs : GetChild(s, m, d) = GetChild(t, m, d)
  <2>1. CASE m = n
    BY <1>2, <1>4, <1>5, <1>6, <2>1 DEF Key, Val, Parent, Color, GetChild
  <2>2. CASE m # n
    BY <1>5, <1>6, <2>2 DEF Key, Val, Parent, Color, GetChild
  <2> QED
    BY <2>1, <2>2
<1>8. \A m \in Nodes \ Allocated(t) : s.node[m] = Unused
  BY <1>3, <1>5, <1>6
<1>9. Transplanted(s, t, n, e)
  BY <1>6, <1>7, <1>8 DEF Transplanted
<1> QED
  BY <1>1, <1>9

LEMMA TransplantShape ==
  ASSUME NEW t, Shape(t, None), NEW n \in Allocated(t), NEW e \in Allocated(t),
         e = n \/ \E dir, opp : NextTo(t, n, e, dir, opp),
         NEW s, Transplanted(s, t, n, e)
  PROVE  Shape(s, e) /\ Allocated(s) = Allocated(t)
<1>1. Linked(t) /\ Ranked(t) /\ Allocated(t) \subseteq Nodes /\ None \notin Nodes
  BY AllocatedIs DEF Shape
<1>2. Allocated(s) = Allocated(t)
  <2>1. ASSUME NEW m \in Nodes PROVE m \in Allocated(s) <=> m \in Allocated(t)
    <3>1. CASE m \in Allocated(t)
      <4>1. Key(s, m) \in Keys
        BY <1>1, <3>1, AllocatedIs DEF Transplanted
      <4> QED
        BY <3>1, <4>1, RbTreeAssumption DEF Key, Allocated, Unused
    <3>2. CASE m \notin Allocated(t)
      BY <3>2 DEF Transplanted, Allocated
    <3> QED
      BY <3>1, <3>2
  <2> QED
    BY <2>1 DEF Allocated
<1>3. Linked(s)
  <2>1. \A m \in Nodes : s.node[m] = Unused \/ Key(s, m) \in Keys
    <3>1. \A m \in Allocated(t) : Key(s, m) \in Keys
      BY <1>1, AllocatedIs DEF Transplanted
    <3> QED
      BY <3>1 DEF Transplanted
  <2>2. \A m \in Allocated(s), d \in Dirs : GetChild(s, m, d) # None =>
           /\ GetChild(s, m, d) \in Allocated(s) /\ Parent(s, GetChild(s, m, d)) = m
           /\ GetChild(s, m, "left") # GetChild(s, m, "right")
    BY <1>1, <1>2 DEF Linked, Transplanted, Dirs
  <2>3. \A m \in Allocated(s) \ {s.root} :
          Parent(s, m) \in Allocated(s) /\ \E d \in Dirs : GetChild(s, Parent(s, m), d) = m
    BY <1>1, <1>2 DEF Linked, Transplanted
  <2>4. s.root # None => Parent(s, s.root) = None
    BY <1>1 DEF Linked, Transplanted
  <2> QED
    BY <1>1, <1>2, <2>1, <2>2, <2>3, <2>4 DEF Linked, Transplanted
<1>4. Ranked(s)
  BY <1>1 DEF Ranked, RankedBy, Transplanted
<1>5. Ordered(s, e)
  <2>1. PICK S : OrderedBy(t, None, S)
    BY DEF Shape, Ordered
  <2>2. \A m \in Allocated(t) : m \in Nodes /\ Key(t, m) \in Int
    BY <1>1, AllocatedIs
  <2>3. CASE e = n
    <3>1. OrderedBy(s, e, S)
      BY <1>1, <1>2, <2>1, <2>2, <2>3 DEF OrderedBy, Transplanted
    <3> QED
      BY <3>1 DEF Ordered
  <2>4. CASE e # n
    <3>1. PICK dir, opp : NextTo(t, n, e, dir, opp)
      BY <2>4
    <3> DEFINE a == Key(t, e)
               b == Key(t, n)
    <3>2. a \in Int /\ b \in Int /\ dir \in Dirs /\ opp \in Dirs /\ opp # dir /\ Side(opp, 2 * a, b)
          /\ GetChild(t, e, dir) = None
      BY <2>2, <3>1 DEF NextTo
    <3>3. PICK f : Shifted(f, a, b, dir, opp)
      BY <3>2, ShiftedExists
    <3> DEFINE R == [m \in Nodes |-> {j \in Int : f[j] \in S[m]}]
    <3>4. ASSUME NEW m \in Allocated(t), m # e, m # n
          PROVE  f[2 * Key(t, m)] = 2 * Key(t, m)
                 /\ \A j \in Int, d \in Dirs : Side(d, j, Key(t, m)) <=> Side(d, f[j], Key(t, m))
      <4>1. Key(t, m) # a /\ Key(t, m) # b
        BY <1>1, <3>4, KeysDiffer
      <4>2. ~(Side(dir, 2 * Key(t, m), a) /\ Side(opp, 2 * Key(t, m), b))
        BY <3>1 DEF NextTo
      <4> QED
        BY <2>2, <3>3, <4>1, <4>2 DEF Shifted
    <3>5. \A m \in Nodes, j \in Int : j \in R[m] <=> f[j] \in S[m]
      OBVIOUS
    <3>6. R \in [Nodes -> SUBSET Int]
      OBVIOUS
    <3>7. f[2 * a] = 2 * b /\ (\A j \in Int, d \in Dirs : Side(d, j, a) <=> Side(d, f[j], b))
          /\ (\A j \in Int : Side(opp, j, a) <=> Side(opp, f[j], a)) /\ \A j \in Int : f[j] \in Int
      BY <3>3 DEF Shifted
    <3> HIDE DEF R, a, b
    <3>8. s.root # None => \A j \in Int : j \in R[s.root]
      BY <1>1, <2>1, <3>5, <3>7 DEF OrderedBy, Transplanted, Linked
    <3>9. ASSUME NEW m \in Allocated(s), NEW d \in Dirs, GetChild(s, m, d) # None, NEW j \in Int
          PROVE  j \in R[GetChild(s, m, d)] <=> (j \in R[m] /\ Side(d, j, Key(s, m)))
      <4> DEFINE c == GetChild(t, m, d)
      <4>1. m \in Allocated(t) /\ m \in Nodes /\ GetChild(s, m, d) = c /\ c # None
            /\ Key(s, m) = IF m = n THEN a ELSE Key(t, m)
        BY <1>1, <1>2, <3>9 DEF Transplanted, a
      <4>2. c \in Nodes
        BY <1>1, <4>1 DEF Linked
      <4>3. f[j] \in S[c] <=> (f[j] \in S[m] /\ Side(d, f[j], Key(t, m)))
        BY <2>1, <3>7, <4>1 DEF OrderedBy
      <4>4. Side(d, j, Key(s, m)) <=> Side(d, f[j], Key(t, m))
        <5>1. CASE m = n
          BY <3>7, <4>1, <5>1 DEF b
        <5>2. CASE m = e
          <6>1. d = opp
            BY <3>2, <4>1, <5>2 DEF Dirs
          <6> QED
            BY <2>4, <3>7, <4>1, <5>2, <6>1 DEF a
        <5>3. CASE m # n /\ m # e
          BY <3>4, <4>1, <5>3
        <5> QED
          BY <5>1, <5>2, <5>3
      <4> HIDE DEF c
      <4> QED
        BY <3>5, <4>1, <4>2, <4>3, <4>4
    <3>10. ASSUME NEW m \in Allocated(s) \ {e} PROVE 2 * Key(s, m) \in R[m]
      <4>1. m \in Allocated(t) /\ m \in Nodes /\ Key(s, m) = (IF m = n THEN a ELSE Key(t, m)) /\ 2 * Key(t, m) \in S[m]
        BY <1>1, <1>2, <2>1 DEF Transplanted, OrderedBy, a
      <4>2. CASE m = n
        BY <3>2, <3>5, <3>7, <4>1, <4>2 DEF b
      <4>3. CASE m # n
        BY <2>2, <3>4, <3>5, <4>1, <4>3
      <4> QED
        BY <4>2, <4>3
    <3>11. OrderedBy(s, e, R)
      BY <3>6, <3>8, <3>9, <3>10 DEF OrderedBy
    <3> QED
      BY <3>11 DEF Ordered
  <2> QED
    BY <2>3, <2>4
<1> QED
  BY <1>2, <1>3, <1>4, <1>5 DEF Shape

\* The node that goes, and what is below it.
LEMMA BstDeleteIs ==
  ASSUME NEW t, Shape(t, None), NEW n \in Allocated(t), NEW e, e = BstDelete(t, n)
  PROVE  /\ e \in Allocated(t) /\ \E d \in Dirs : GetChild(t, e, d) = None
         /\ IF e = n THEN \A d \in Dirs : GetChild(t, n, d) = None
            ELSE \E dir, opp : NextTo(t, n, e, dir, opp)
<1> DEFINE l == GetChild(t, n, "left")
           r == GetChild(t, n, "right")
<1>1. e = IF l # None THEN Extreme(t, l, "right") ELSE IF r # None THEN Extreme(t, r, "left") ELSE n
  BY DEF BstDelete, GetChild
<1>2. CASE l # None
  <2>1. NextTo(t, n, Extreme(t, l, "right"), "right", "left")
    BY <1>2, NextToIs DEF Dirs, InvertDir
  <2> QED
    BY <1>1, <1>2, <2>1 DEF NextTo
<1>3. CASE l = None /\ r # None
  <2>1. NextTo(t, n, Extreme(t, r, "left"), "left", "right")
    BY <1>3, NextToIs DEF Dirs, InvertDir
  <2> QED
    BY <1>1, <1>3, <2>1 DEF NextTo
<1>4. CASE l = None /\ r = None
  BY <1>1, <1>4 DEF Dirs
<1> QED
  BY <1>2, <1>3, <1>4

\* A deletion before its repair: n has the entry of e, which is to go.
Moved(s, t, n, e) ==
  /\ Shape(s, e) /\ Allocated(s) = Allocated(t)
  /\ \A m \in Allocated(t) : /\ Key(s, m) = IF m = n THEN Key(t, e) ELSE Key(t, m)
                             /\ Val(s, m) = IF m = n THEN Val(t, e) ELSE Val(t, m)
  /\ s.root = t.root /\ \A m \in Allocated(t) : Color(s, m) = Color(t, m)
  /\ e \in Allocated(t) /\ \E d \in Dirs : GetChild(s, e, d) = None
  /\ Reds(s, None, None)

LEMMA TransplantMoves ==
  ASSUME NEW t, Shape(t, None), Balanced(t, Weights(t, None, None)), Reds(t, None, None),
         NEW n \in Allocated(t), NEW e, e = BstDelete(t, n), NEW s, s = Transplant(t, n, e)
  PROVE  /\ Moved(s, t, n, e)
         /\ Balanced(s, Weights(s, IF Color(t, e) = "BLACK" THEN e ELSE None, e))
<1> DEFINE lack == IF Color(t, e) = "BLACK" THEN e ELSE None
           c    == Weights(t, None, None)
           b    == Weights(s, lack, e)
<1>1. Linked(t) /\ Allocated(t) \subseteq Nodes /\ None \notin Nodes
  BY AllocatedIs DEF Shape
<1>2. /\ e \in Allocated(t) /\ \E d \in Dirs : GetChild(t, e, d) = None
      /\ e = n \/ \E dir, opp : NextTo(t, n, e, dir, opp)
  BY BstDeleteIs
<1>3. Transplanted(s, t, n, e)
  BY <1>1, <1>2, TransplantIs
<1>4. Shape(s, e) /\ Allocated(s) = Allocated(t) /\ Linked(s)
  <2>1. Shape(s, e) /\ Allocated(s) = Allocated(t)
    BY <1>2, <1>3, TransplantShape
  <2> QED
    BY <2>1 DEF Shape
<1>5. \A m \in Allocated(t) : /\ Key(s, m) = IF m = n THEN Key(t, e) ELSE Key(t, m)
                              /\ Val(s, m) = IF m = n THEN Val(t, e) ELSE Val(t, m)
                              /\ Color(s, m) = Color(t, m) /\ Parent(s, m) = Parent(t, m)
                              /\ \A d \in Dirs : GetChild(s, m, d) = GetChild(t, m, d)
  BY <1>1, <1>3 DEF Transplanted
<1>6. Reds(s, None, None)
  <2> SUFFICES ASSUME NEW m \in Allocated(t), Color(s, m) = "RED", Color(s, Parent(t, m)) = "RED"
               PROVE  FALSE
    BY <1>1, <1>4, <1>5 DEF Reds, Color
  <2>1. Parent(t, m) \in Allocated(t)
    BY <1>1, <1>4, <1>5, AllocatedIs DEF Color, Linked
  <2> QED
    BY <1>1, <1>5, <2>1 DEF Reds
<1>7. \A m \in Allocated(t) : c[m] = (IF Color(t, m) = "BLACK" THEN 1 ELSE 0)
  BY <1>1, WeightIs
<1>8. \A m \in Allocated(t) : b[m] = (IF Color(s, m) = "BLACK" /\ m # e THEN 1 ELSE 0) + (IF m = lack THEN 1 ELSE 0)
  BY <1>4, WeightIs
<1> HIDE DEF c, b
<1>9. \A m \in Allocated(t) : b[m] = c[m]
  BY <1>1, <1>5, <1>7, <1>8
<1>10. PICK h : Tall(t, c, h)
  BY DEF Balanced, c
<1>11. Tall(s, b, h)
  BY <1>4, <1>5, <1>9, <1>10 DEF Tall
<1>12. s.root = t.root
  BY <1>3 DEF Transplanted
<1>13. Moved(s, t, n, e)
  BY <1>2, <1>4, <1>5, <1>6, <1>12 DEF Moved
<1> QED
  BY <1>11, <1>13 DEF Balanced, b

--------------------------------------------------------------------------------
(* The end of a deletion.                                                        *)

\* The least set with m that is closed under the links.
Below(t, m) ==
  {y \in Nodes : \A X \in SUBSET Nodes :
     m \in X /\ (\A n \in X, d \in Dirs : GetChild(t, n, d) # None => GetChild(t, n, d) \in X) => y \in X}

IsBelow(f, t) ==
  f[None] = {} /\ \A m \in Nodes : f[m] = {m} \union f[t.node[m].left] \union f[t.node[m].right]

LEMMA BelowIs ==
  ASSUME NEW t, \A n \in Nodes, d \in Dirs : GetChild(t, n, d) \in Link
  PROVE  \E f : f = [m \in Link |-> IF m = None THEN {}
                                    ELSE {m} \union f[t.node[m].left] \union f[t.node[m].right]]
<1> DEFINE f == [m \in Link |-> IF m = None THEN {} ELSE Below(t, m)]
           Closed(X) == \A n \in X, d \in Dirs : GetChild(t, n, d) # None => GetChild(t, n, d) \in X
<1>1. None \notin Nodes
  BY RbTreeAssumption
<1>2. \A m \in Link : f[m] = IF m = None THEN {} ELSE Below(t, m)
  OBVIOUS
<1>3. ASSUME NEW m \in Nodes PROVE m \in Below(t, m) /\ Closed(Below(t, m)) /\ Below(t, m) \in SUBSET Nodes
  <2>1. m \in Below(t, m) /\ Below(t, m) \in SUBSET Nodes
    BY DEF Below
  <2>2. ASSUME NEW n \in Below(t, m), NEW d \in Dirs, GetChild(t, n, d) # None PROVE GetChild(t, n, d) \in Below(t, m)
    <3>1. n \in Nodes /\ GetChild(t, n, d) \in Nodes
      BY <2>2 DEF Below, Link
    <3>2. ASSUME NEW X \in SUBSET Nodes, m \in X, Closed(X) PROVE GetChild(t, n, d) \in X
      <4>1. n \in X
        BY <3>2 DEF Below
      <4> QED
        BY <2>2, <3>2, <4>1
    <3> QED
      BY <3>1, <3>2 DEF Below
  <2> QED
    BY <2>1, <2>2
<1>4. ASSUME NEW m \in Nodes, NEW X \in SUBSET Nodes, m \in X, Closed(X) PROVE Below(t, m) \subseteq X
  BY <1>4 DEF Below
<1>5. ASSUME NEW m \in Nodes PROVE Below(t, m) = {m} \union f[t.node[m].left] \union f[t.node[m].right]
  <2> DEFINE l == t.node[m].left
             r == t.node[m].right
             Y == {m} \union f[l] \union f[r]
  <2>1. l = GetChild(t, m, "left") /\ r = GetChild(t, m, "right") /\ l \in Link /\ r \in Link
    BY DEF GetChild, Dirs
  <2>2. \A c \in Link : c # None => c \in Nodes /\ f[c] = Below(t, c)
    BY <1>2 DEF Link
  <2>3. f[None] = {}
    BY <1>2 DEF Link
  <2> HIDE DEF f, l, r
  <2>4. Y \in SUBSET Nodes
    BY <1>3, <2>1, <2>2, <2>3
  <2>5. Closed(Y)
    <3> SUFFICES ASSUME NEW n \in Y, NEW d \in Dirs, GetChild(t, n, d) # None PROVE GetChild(t, n, d) \in Y
      OBVIOUS
    <3>1. CASE n = m
      <4>1. GetChild(t, n, d) = l \/ GetChild(t, n, d) = r
        BY <2>1, <3>1 DEF Dirs
      <4> QED
        BY <1>3, <2>1, <2>2, <4>1
    <3>2. CASE n \in f[l]
      BY <1>3, <2>1, <2>2, <2>3, <3>2
    <3>3. CASE n \in f[r]
      BY <1>3, <2>1, <2>2, <2>3, <3>3
    <3> QED
      BY <3>1, <3>2, <3>3
  <2>6. Below(t, m) \subseteq Y
    BY <1>4, <2>4, <2>5
  <2>7. Y \subseteq Below(t, m)
    <3>1. m \in Below(t, m) /\ Closed(Below(t, m)) /\ Below(t, m) \in SUBSET Nodes
      BY <1>3
    <3>2. l # None => l \in Below(t, m) /\ f[l] \subseteq Below(t, m)
      BY <1>4, <2>1, <2>2, <3>1 DEF Dirs
    <3>3. r # None => r \in Below(t, m) /\ f[r] \subseteq Below(t, m)
      BY <1>4, <2>1, <2>2, <3>1 DEF Dirs
    <3> QED
      BY <2>3, <3>1, <3>2, <3>3
  <2> QED
    BY <2>6, <2>7 DEF l, r
<1> HIDE DEF f
<1>6. \A m \in Link : f[m] = IF m = None THEN {} ELSE {m} \union f[t.node[m].left] \union f[t.node[m].right]
  BY <1>2, <1>5 DEF Link
<1>7. f = [m \in Link |-> IF m = None THEN {} ELSE {m} \union f[t.node[m].left] \union f[t.node[m].right]]
  BY <1>6 DEF f
<1> QED
  BY <1>7

LEMMA SubtreeIs ==
  ASSUME NEW t, \A n \in Nodes, d \in Dirs : GetChild(t, n, d) \in Link
  PROVE  \E f : IsBelow(f, t) /\ \A n : Subtree(t, n) = f[n]
<1> DEFINE Is(f) == f = [m \in Link |-> IF m = None THEN {}
                                        ELSE {m} \union f[t.node[m].left] \union f[t.node[m].right]]
           f0 == CHOOSE f : Is(f)
<1>1. \E f : Is(f)
  BY BelowIs
<1>2. \A n : Subtree(t, n) = f0[n]
  BY DEF Subtree, Link
<1> HIDE DEF Is
<1>3. Is(f0)
  BY <1>1
<1> HIDE DEF f0
<1>4. None \notin Nodes
  BY RbTreeAssumption
<1>5. IsBelow(f0, t)
  BY <1>3, <1>4 DEF Is, IsBelow, Link
<1> QED
  BY <1>2, <1>5

\* A leaf, or a node above one leaf.
LEMMA SmallSubtree ==
  ASSUME NEW t, \A n \in Nodes, d \in Dirs : GetChild(t, n, d) \in Link,
         NEW n \in Nodes, NEW c \in Link, NEW d \in Dirs, GetChild(t, n, d) = None, GetChild(t, n, InvertDir(d)) = c,
         c # None => \A e \in Dirs : GetChild(t, c, e) = None
  PROVE  Subtree(t, n) = {n, c} \ {None}
<1>1. PICK f : IsBelow(f, t) /\ Subtree(t, n) = f[n]
  BY SubtreeIs
<1>2. None \notin Nodes
  BY RbTreeAssumption
<1>3. f[None] = {} /\ f[n] = {n} \union f[GetChild(t, n, "left")] \union f[GetChild(t, n, "right")]
  BY <1>1 DEF IsBelow, GetChild
<1>4. f[n] = {n} \union f[c]
  BY <1>3 DEF Dirs, InvertDir
<1>5. c # None => f[c] = {c}
  <2> SUFFICES ASSUME c # None PROVE f[c] = {c}
    OBVIOUS
  <2>1. c \in Nodes /\ GetChild(t, c, "left") = None /\ GetChild(t, c, "right") = None
    BY DEF Link, Dirs
  <2>2. f[c] = {c} \union f[GetChild(t, c, "left")] \union f[GetChild(t, c, "right")]
    BY <1>1, <2>1 DEF IsBelow, GetChild
  <2> QED
    BY <1>3, <2>1, <2>2
<1> QED
  BY <1>1, <1>2, <1>3, <1>4, <1>5

\* s is t without x and c.
Cut(s, t, x, c) ==
  /\ s \in Trees /\ s.root = t.root
  /\ \A m \in Nodes : m = x \/ m = c => s.node[m] = Unused
  /\ \A m \in Nodes : m # x /\ m # c =>
       /\ Key(s, m) = Key(t, m) /\ Val(s, m) = Val(t, m) /\ Color(s, m) = Color(t, m)
       /\ Parent(s, m) = Parent(t, m)
       /\ \A d \in Dirs : GetChild(s, m, d) = IF GetChild(t, m, d) = x THEN None ELSE GetChild(t, m, d)
  /\ \A m \in Nodes : m # x /\ m # c /\ m \notin Allocated(t) => s.node[m] = Unused

LEMMA CutIs ==
  ASSUME NEW t, NEW x, Shape(t, x), x \in Allocated(t), x # t.root,
         NEW c \in Link, NEW d \in Dirs, GetChild(t, x, d) = None, GetChild(t, x, InvertDir(d)) = c,
         c # None => \A e \in Dirs : GetChild(t, c, e) = None
  PROVE  Cut(Destroy(Unlinked(t, x), x), t, x, c)
<1> DEFINE P == Parent(t, x)
           g == GetDir(t, x)
           f == [t.node[P] EXCEPT ![g] = None]
           F == [t.node EXCEPT ![P] = f]
           u == [t EXCEPT !.node = F]
           D == Subtree(u, x)
           H == [m \in Nodes |-> IF m \in D THEN Unused ELSE u.node[m]]
           s == [u EXCEPT !.node = H]
<1>1. /\ Linked(t) /\ Allocated(t) \subseteq Nodes /\ None \notin Nodes /\ t \in Trees
      /\ \A m \in Nodes \ Allocated(t) : t.node[m] = Unused
  BY AllocatedIs DEF Shape, Linked
<1>2. g \in Dirs /\ GetChild(t, P, g) = x /\ GetChild(t, P, InvertDir(g)) # x /\ P \in Allocated(t) /\ P # x
  BY <1>1, GetDirIs, NotOwnParent
<1>3. Unlinked(t, x) = u
  BY DEF Unlinked
<1>4. Destroy(u, x) = s
  BY DEF Destroy
<1> HIDE DEF P, g
<1>5. t.node \in [Nodes -> Fields] /\ t.node[P] \in Fields /\ P \in Nodes /\ x \in Nodes
  BY <1>1, <1>2 DEF Trees
<1>6. /\ f \in Fields /\ f.key = Key(t, P) /\ f.val = Val(t, P) /\ f.color = t.node[P].color
      /\ f.parent = Parent(t, P) /\ \A e \in Dirs : f[e] = IF e = g THEN None ELSE GetChild(t, P, e)
  BY <1>1, <1>2, <1>5 DEF Fields, Link, Dirs, Key, Val, Parent, GetChild
<1> HIDE DEF f
<1>7. F \in [Nodes -> Fields] /\ \A m \in Nodes : F[m] = IF m = P THEN f ELSE t.node[m]
  BY <1>5, <1>6
<1> HIDE DEF F
<1>8. u.node = F /\ u.root = t.root /\ u \in Trees
  BY <1>1, <1>7 DEF Trees
<1> HIDE DEF u
<1>9. \A m \in Nodes :
       /\ Key(u, m) = Key(t, m) /\ Val(u, m) = Val(t, m) /\ Color(u, m) = Color(t, m)
       /\ Parent(u, m) = Parent(t, m)
       /\ \A e \in Dirs : GetChild(u, m, e) = IF m = P /\ e = g THEN None ELSE GetChild(t, m, e)
  <2> SUFFICES ASSUME NEW m \in Nodes
               PROVE  /\ Key(u, m) = Key(t, m) /\ Val(u, m) = Val(t, m) /\ Color(u, m) = Color(t, m)
                      /\ Parent(u, m) = Parent(t, m)
                      /\ \A e \in Dirs : GetChild(u, m, e) = IF m = P /\ e = g THEN None ELSE GetChild(t, m, e)
    OBVIOUS
  <2>1. CASE m = P
    BY <1>1, <1>6, <1>7, <1>8, <2>1 DEF Key, Val, Color, Parent, GetChild
  <2>2. CASE m # P
    BY <1>1, <1>7, <1>8, <2>2 DEF Key, Val, Color, Parent, GetChild
  <2> QED
    BY <2>1, <2>2
<1>10. \A m \in Nodes, e \in Dirs : GetChild(t, m, e) \in Link
  BY <1>1, AllocatedIs
<1>11. \A m \in Nodes, e \in Dirs : GetChild(u, m, e) \in Link
  BY <1>9, <1>10 DEF Link
<1>12. InvertDir(d) \in Dirs
  BY DEF InvertDir, Dirs
<1>13. GetChild(u, x, d) = None /\ GetChild(u, x, InvertDir(d)) = c
  BY <1>2, <1>5, <1>9, <1>12
<1>14. c # None => \A e \in Dirs : GetChild(u, c, e) = None
  BY <1>9 DEF Link
<1>15. D = {x, c} \ {None}
  BY <1>5, <1>11, <1>13, <1>14, SmallSubtree
<1> HIDE DEF D
<1>16. \A m \in Nodes : H[m] = IF m = x \/ m = c THEN Unused ELSE u.node[m]
  BY <1>1, <1>15
<1>17. H \in [Nodes -> Fields]
  <2>1. Unused \in Fields
    BY DEF Unused, Fields, Colors, Link
  <2> QED
    BY <1>7, <1>8, <2>1
<1> HIDE DEF H
<1>18. s.node = H /\ s.root = t.root /\ s \in Trees
  BY <1>8, <1>17 DEF Trees
<1> HIDE DEF s
<1>19. \A m \in Nodes : m # x /\ m # c => s.node[m] = u.node[m]
  BY <1>16, <1>18
<1>20. \A m \in Nodes : m # x /\ m # c =>
       /\ Key(s, m) = Key(t, m) /\ Val(s, m) = Val(t, m) /\ Color(s, m) = Color(t, m)
       /\ Parent(s, m) = Parent(t, m)
       /\ \A e \in Dirs : GetChild(s, m, e) = GetChild(u, m, e)
  BY <1>1, <1>9, <1>19 DEF Key, Val, Color, Parent, GetChild
<1>21. \A m \in Nodes, e \in Dirs : GetChild(u, m, e) = IF GetChild(t, m, e) = x THEN None ELSE GetChild(t, m, e)
  <2> SUFFICES ASSUME NEW m \in Nodes, NEW e \in Dirs
               PROVE  GetChild(u, m, e) = IF GetChild(t, m, e) = x THEN None ELSE GetChild(t, m, e)
    OBVIOUS
  <2>1. GetChild(t, m, e) = x => m = P
    <3>1. m \notin Allocated(t) => GetChild(t, m, e) = None
      BY <1>1, AllocatedIs
    <3> QED
      BY <1>1, <3>1 DEF Linked, P
  <2>2. m = P /\ e # g => GetChild(t, m, e) # x
    BY <1>2 DEF Dirs, InvertDir
  <2> QED
    BY <1>2, <1>9, <2>1, <2>2
<1>22. \A m \in Nodes : m # x /\ m # c /\ m \notin Allocated(t) => s.node[m] = Unused
  BY <1>1, <1>2, <1>7, <1>8, <1>19
<1>23. \A m \in Nodes : m = x \/ m = c => s.node[m] = Unused
  BY <1>16, <1>18
<1>24. Cut(s, t, x, c)
  BY <1>18, <1>20, <1>21, <1>22, <1>23 DEF Cut
<1> QED
  BY <1>3, <1>4, <1>24 DEF s

LEMMA CutShape ==
  ASSUME NEW t, NEW s, NEW x, NEW c, Shape(t, x), Cut(s, t, x, c), x \in Allocated(t), x # t.root,
         NEW d \in Dirs, GetChild(t, x, d) = None, GetChild(t, x, InvertDir(d)) = c,
         c # None => \A e \in Dirs : GetChild(t, c, e) = None
  PROVE  Shape(s, None) /\ Allocated(s) = Allocated(t) \ {x, c}
<1>1. Linked(t) /\ Ranked(t) /\ Allocated(t) \subseteq Nodes /\ None \notin Nodes /\ x # None
  BY AllocatedIs DEF Shape
<1>2. InvertDir(d) \in Dirs /\ \A e \in Dirs : e = d \/ e = InvertDir(d)
  BY DEF InvertDir, Dirs
<1>3. \A e \in Dirs : GetChild(t, x, e) = None \/ GetChild(t, x, e) = c
  BY <1>2
<1>4. c # None => c \in Allocated(t) /\ Parent(t, c) = x
  BY <1>1, <1>2 DEF Linked
<1>5. Allocated(s) = Allocated(t) \ {x, c}
  <2>1. ASSUME NEW m \in Nodes PROVE m \in Allocated(s) <=> (m \in Allocated(t) /\ m # x /\ m # c)
    <3>1. CASE m \in Allocated(t) /\ m # x /\ m # c
      <4>1. Key(s, m) \in Keys
        BY <1>1, <3>1, AllocatedIs DEF Cut
      <4> QED
        BY <3>1, <4>1, RbTreeAssumption DEF Key, Allocated, Unused
    <3>2. CASE ~(m \in Allocated(t) /\ m # x /\ m # c)
      BY <3>2 DEF Cut, Allocated
    <3> QED
      BY <3>1, <3>2
  <2> QED
    BY <1>1, <2>1 DEF Allocated
<1>6. \A m \in Allocated(s) : /\ m \in Allocated(t) /\ m \in Nodes /\ m # x /\ m # c /\ m # None
                              /\ Key(s, m) = Key(t, m) /\ Parent(s, m) = Parent(t, m)
                              /\ \A e \in Dirs : GetChild(s, m, e) = IF GetChild(t, m, e) = x THEN None ELSE GetChild(t, m, e)
  BY <1>1, <1>5 DEF Cut
<1>7. \A m \in Nodes : m \notin Allocated(s) => s.node[m] = Unused
  BY <1>5 DEF Cut
<1>8. Linked(s)
  <2>1. s \in Trees /\ s.root = t.root /\ \A n \in Nodes : s.node[n] = Unused \/ Key(s, n) \in Keys
    <3>1. \A n \in Allocated(s) : Key(s, n) \in Keys
      BY <1>1, <1>6, AllocatedIs
    <3> QED
      BY <1>7, <3>1 DEF Cut
  <2>2. t.root # c \/ c = None
    BY <1>1, <1>4 DEF Linked
  <2>3. s.root \in Allocated(s) \union {None}
    BY <1>1, <1>5, <2>1, <2>2 DEF Linked
  <2>4. s.root # None => Parent(s, s.root) = None
    BY <1>1, <1>6, <2>1, <2>3 DEF Linked
  <2>5. ASSUME NEW n \in Allocated(s), NEW e \in Dirs, GetChild(s, n, e) # None
        PROVE  /\ GetChild(s, n, e) \in Allocated(s) /\ Parent(s, GetChild(s, n, e)) = n
               /\ GetChild(s, n, "left") # GetChild(s, n, "right")
    <3> DEFINE k == GetChild(t, n, e)
    <3>1. GetChild(s, n, e) = k /\ k # x /\ k # None /\ n \in Allocated(t) /\ n # x
      BY <1>6, <2>5
    <3>2. k \in Allocated(t) /\ Parent(t, k) = n /\ GetChild(t, n, "left") # GetChild(t, n, "right")
      BY <1>1, <3>1 DEF Linked
    <3> HIDE DEF k
    <3>3. k # c
      BY <1>4, <3>1, <3>2
    <3>4. k \in Allocated(s) /\ Parent(s, k) = n
      BY <1>5, <1>6, <3>1, <3>2, <3>3
    <3>5. GetChild(s, n, "left") # GetChild(s, n, "right")
      BY <1>6, <2>5, <3>1, <3>2 DEF Dirs
    <3> QED
      BY <3>1, <3>4, <3>5
  <2>6. ASSUME NEW n \in Allocated(s) \ {s.root}
        PROVE  Parent(s, n) \in Allocated(s) /\ \E e \in Dirs : GetChild(s, Parent(s, n), e) = n
    <3> DEFINE p == Parent(t, n)
    <3>1. n \in Allocated(t) /\ n # t.root /\ n # x /\ n # c /\ n # None /\ Parent(s, n) = p
      BY <1>6, <2>1
    <3>2. PICK e \in Dirs : GetChild(t, p, e) = n
      BY <1>1, <3>1 DEF Linked
    <3>3. p \in Allocated(t)
      BY <1>1, <3>1 DEF Linked
    <3> HIDE DEF p
    <3>4. p # x /\ p # c
      BY <1>1, <1>3, <3>1, <3>2, <3>3
    <3>5. p \in Allocated(s)
      BY <1>5, <3>3, <3>4
    <3>6. GetChild(s, p, e) = n
      BY <1>6, <3>1, <3>2, <3>5
    <3> QED
      BY <3>1, <3>5, <3>6
  <2> QED
    BY <2>1, <2>3, <2>4, <2>5, <2>6 DEF Linked
<1>9. Ranked(s)
  <2>1. PICK B, r : RankedBy(t, B, r)
    BY <1>1 DEF Ranked
  <2>2. ASSUME NEW n \in Nodes, NEW e \in Dirs, GetChild(s, n, e) # None PROVE r[GetChild(s, n, e)] < r[n]
    <3>1. n \in Allocated(s)
      BY <1>7, <2>2 DEF GetChild, Unused, Dirs
    <3>2. GetChild(s, n, e) = GetChild(t, n, e)
      BY <1>6, <2>2, <3>1
    <3> QED
      BY <2>1, <2>2, <3>2 DEF RankedBy
  <2>3. RankedBy(s, B, r)
    BY <2>1, <2>2 DEF RankedBy
  <2> QED
    BY <2>3 DEF Ranked
<1>10. Ordered(s, None)
  <2>1. PICK S : OrderedBy(t, x, S)
    BY DEF Shape, Ordered
  <2>2. s.root = t.root
    BY DEF Cut
  <2>3. \A n \in Allocated(s), e \in Dirs : GetChild(s, n, e) # None => GetChild(s, n, e) = GetChild(t, n, e)
    BY <1>6
  <2>4. \A n \in Allocated(s), e \in Dirs : GetChild(s, n, e) # None =>
          \A j \in Int : j \in S[GetChild(s, n, e)] <=> (j \in S[n] /\ Side(e, j, Key(s, n)))
    BY <1>6, <2>1, <2>3 DEF OrderedBy
  <2>5. \A n \in Allocated(s) \ {None} : 2 * Key(s, n) \in S[n]
    BY <1>6, <2>1 DEF OrderedBy
  <2>6. OrderedBy(s, None, S)
    BY <2>1, <2>2, <2>4, <2>5 DEF OrderedBy
  <2> QED
    BY <2>6 DEF Ordered
<1> QED
  BY <1>5, <1>8, <1>9, <1>10 DEF Shape

\* Below the node that goes is at most a red leaf.
LEMMA RedLeaf ==
  ASSUME NEW t, NEW x, Shape(t, x), Balanced(t, Weights(t, None, x)), Reds(t, None, None), x \in Allocated(t),
         NEW d \in Dirs, GetChild(t, x, d) = None, NEW c, c = GetChild(t, x, InvertDir(d))
  PROVE  /\ c \in Link /\ \E h : Tall(t, Weights(t, None, x), h) /\ h[x] = 0
         /\ c # None => c \in Allocated(t) /\ Parent(t, c) = x /\ \A e \in Dirs : GetChild(t, c, e) = None
<1> DEFINE w == Weights(t, None, x)
<1>1. Linked(t) /\ Ranked(t) /\ Allocated(t) \subseteq Nodes /\ None \notin Nodes /\ x # None /\ InvertDir(d) \in Dirs
  BY AllocatedIs DEF Shape, InvertDir, Dirs
<1>2. PICK h : Tall(t, w, h)
  BY DEF Balanced
<1>3. \A m \in Allocated(t) : /\ Color(t, m) \in Colors /\ w[m] \in Nat
                              /\ w[m] = (IF Color(t, m) = "BLACK" /\ m # x THEN 1 ELSE 0)
  BY <1>1, WeightIs
<1> HIDE DEF w
<1>4. \A m \in Allocated(t) \union {None} : h[m] \in Nat
  BY <1>1, <1>2, <1>3, TallIsNat
<1>5. h[None] = 0 /\ \A m \in Allocated(t), e \in Dirs : h[m] = h[GetChild(t, m, e)] + w[m]
  BY <1>2 DEF Tall
<1>6. h[x] = 0
  BY <1>3, <1>5
<1>7. c \in Link
  BY <1>1, AllocatedIs
<1>8. ASSUME c # None
      PROVE  c \in Allocated(t) /\ Parent(t, c) = x /\ \A e \in Dirs : GetChild(t, c, e) = None
  <2>1. c \in Allocated(t) /\ Parent(t, c) = x
    BY <1>1, <1>8 DEF Linked
  <2>2. c # x
    BY <2>1, NotOwnParent
  <2>3. h[x] = h[c] + w[x] /\ h[c] \in Nat /\ w[x] \in Nat
    BY <1>1, <1>3, <1>4, <1>5, <2>1
  <2>4. h[c] = 0
    BY <1>6, <2>3
  <2>5. ASSUME NEW e \in Dirs, GetChild(t, c, e) # None PROVE FALSE
    <3> DEFINE k == GetChild(t, c, e)
    <3>1. k \in Allocated(t) /\ Parent(t, k) = c
      BY <1>1, <2>1, <2>5 DEF Linked
    <3>2. h[c] = h[k] + w[c] /\ w[c] \in Nat /\ h[k] \in Nat
      BY <1>3, <1>4, <1>5, <2>1, <3>1
    <3>3. w[c] = 0 /\ h[k] = 0
      BY <2>4, <3>2
    <3> HIDE DEF k
    <3>4. Color(t, c) = "RED"
      BY <1>3, <2>1, <2>2, <3>3 DEF Colors
    <3>5. Color(t, k) # "RED"
      BY <1>1, <2>1, <3>1, <3>4 DEF Reds
    <3>6. k # x
      BY <2>1, <3>1, NotOwnGrandparent
    <3>7. w[k] = 1
      BY <1>3, <3>1, <3>5, <3>6 DEF Colors
    <3> DEFINE q == GetChild(t, k, e)
    <3>8. q \in Allocated(t) \union {None}
      BY <1>1, <3>1 DEF Linked
    <3>9. h[k] = h[q] + w[k] /\ h[q] \in Nat
      BY <1>4, <1>5, <3>1, <3>8
    <3> QED
      BY <3>3, <3>7, <3>9
  <2> QED
    BY <2>1, <2>5
<1> QED
  BY <1>2, <1>6, <1>7, <1>8 DEF w

\* A deletion that is done.
Severed(s, t, x, c) ==
  /\ Shape(s, None) /\ Balanced(s, Weights(s, None, None)) /\ Reds(s, None, None)
  /\ Color(s, s.root) = "BLACK" /\ Allocated(s) = Allocated(t) \ {x, c}
  /\ \A m \in Allocated(s) : Key(s, m) = Key(t, m) /\ Val(s, m) = Val(t, m)

LEMMA UnlinkSevers ==
  ASSUME NEW t, NEW x, Shape(t, x), Balanced(t, Weights(t, None, x)), Reds(t, None, None),
         Color(t, t.root) = "BLACK", x \in Allocated(t), x # t.root,
         NEW d \in Dirs, GetChild(t, x, d) = None, NEW c, c = GetChild(t, x, InvertDir(d))
  PROVE  Severed(Destroy(Unlinked(t, x), x), t, x, c)
<1> DEFINE s == Destroy(Unlinked(t, x), x)
           w == Weights(t, None, x)
           v == Weights(s, None, None)
<1>1. /\ c \in Link /\ \E h : Tall(t, w, h) /\ h[x] = 0
      /\ c # None => c \in Allocated(t) /\ Parent(t, c) = x /\ \A e \in Dirs : GetChild(t, c, e) = None
  BY RedLeaf
<1>2. PICK h : Tall(t, w, h) /\ h[x] = 0
  BY <1>1
<1>3. Linked(t) /\ Allocated(t) \subseteq Nodes /\ None \notin Nodes
  BY AllocatedIs DEF Shape
<1>4. Cut(s, t, x, c)
  BY <1>1, CutIs
<1> HIDE DEF s
<1>5. Shape(s, None) /\ Allocated(s) = Allocated(t) \ {x, c}
  BY <1>1, <1>4, CutShape
<1>6. Linked(s) /\ s.root = t.root
  BY <1>4, <1>5 DEF Shape, Cut
<1>7. \A m \in Allocated(s) : /\ m \in Allocated(t) /\ m \in Nodes /\ m # x /\ m # c
                              /\ Key(s, m) = Key(t, m) /\ Val(s, m) = Val(t, m) /\ Color(s, m) = Color(t, m)
                              /\ Parent(s, m) = Parent(t, m)
                              /\ \A e \in Dirs : GetChild(s, m, e) = IF GetChild(t, m, e) = x THEN None ELSE GetChild(t, m, e)
  BY <1>3, <1>4, <1>5 DEF Cut
<1>8. \A m \in Allocated(t) : w[m] = (IF Color(t, m) = "BLACK" /\ m # x THEN 1 ELSE 0)
  BY <1>3, WeightIs
<1>9. \A m \in Allocated(s) : v[m] = (IF Color(s, m) = "BLACK" THEN 1 ELSE 0)
  BY <1>3, <1>6, <1>7, WeightIs
<1> HIDE DEF w, v
<1>10. \A m \in Allocated(s) : v[m] = w[m]
  BY <1>7, <1>8, <1>9
<1>11. Tall(s, v, h)
  BY <1>2, <1>7, <1>10 DEF Tall
<1>12. Balanced(s, v)
  BY <1>11 DEF Balanced
<1>13. Reds(s, None, None)
  <2> SUFFICES ASSUME NEW m \in Allocated(s), Color(s, m) = "RED", Color(s, Parent(s, m)) = "RED"
               PROVE  FALSE
    BY DEF Reds
  <2>1. Parent(s, m) \in Allocated(s)
    BY <1>6 DEF Linked, Color
  <2> QED
    BY <1>3, <1>7, <2>1 DEF Reds
<1>14. Color(s, s.root) = "BLACK"
  <2>1. s.root \in Allocated(s) => Color(s, s.root) = "BLACK"
    BY <1>6, <1>7
  <2>2. Color(s, None) = "BLACK"
    BY DEF Color
  <2> QED
    BY <1>6, <2>1, <2>2 DEF Linked
<1> QED
  BY <1>5, <1>7, <1>12, <1>13, <1>14 DEF Severed, s, v

--------------------------------------------------------------------------------
(* Between the calls.                                                            *)

\* A tree with no repair to do; x is to go.
Sound(t, x) ==
  Shape(t, x) /\ Balanced(t, Weights(t, None, x)) /\ Reds(t, None, None) /\ Color(t, t.root) = "BLACK"

LEMMA EmptyIsSound ==
  ASSUME NEW t \in Trees, t.root = None, \A m \in Nodes : t.node[m] = Unused
  PROVE  Sound(t, None) /\ Allocated(t) = {}
<1> DEFINE S == [m \in Nodes |-> Int]
           r == [m \in Nodes |-> 0]
           h == [m \in Link |-> 0]
<1>1. Allocated(t) = {}
  BY DEF Allocated
<1>2. \A m \in Nodes, d \in Dirs : GetChild(t, m, d) = None
  BY DEF GetChild, Unused, Dirs
<1>3. Linked(t)
  BY <1>1 DEF Linked
<1>4. RankedBy(t, 0, r)
  BY <1>2 DEF RankedBy
<1>5. OrderedBy(t, None, S)
  BY <1>1 DEF OrderedBy
<1>6. Tall(t, Weights(t, None, None), h)
  BY <1>1 DEF Tall, Link
<1> QED
  BY <1>1, <1>3, <1>4, <1>5, <1>6 DEF Sound, Shape, Ranked, Ordered, Balanced, Reds, Color

\* The destructor of a root without children.
LEMMA LastGoes ==
  ASSUME NEW t, Sound(t, None), t.root # None, BstDelete(t, t.root) = t.root,
         NEW s, s = [Destroy(t, t.root) EXCEPT !.root = None]
  PROVE  /\ Allocated(t) = {t.root} /\ s \in Trees /\ s.root = None
         /\ \A m \in Nodes : s.node[m] = Unused
<1> DEFINE n == t.root
           D == Subtree(t, n)
           H == [m \in Nodes |-> IF m \in D THEN Unused ELSE t.node[m]]
<1>1. Shape(t, None) /\ Linked(t) /\ None \notin Nodes /\ t \in Trees /\ n \in Allocated(t) /\ Allocated(t) \subseteq Nodes
  BY AllocatedIs DEF Sound, Shape, Linked
<1>2. \A d \in Dirs : GetChild(t, n, d) = None
  BY <1>1, BstDeleteIs
<1>3. Allocated(t) = {n}
  BY <1>1, <1>2, RootIsAbove
<1>4. D = {n}
  <2>1. GetChild(t, n, "left") = None /\ GetChild(t, n, InvertDir("left")) = None /\ "left" \in Dirs
    BY <1>2 DEF Dirs, InvertDir
  <2>2. \A m \in Nodes, d \in Dirs : GetChild(t, m, d) \in Link
    BY <1>1, AllocatedIs
  <2>3. None \in Link /\ n \in Nodes
    BY <1>1 DEF Link
  <2>4. D = {n, None} \ {None}
    BY <2>1, <2>2, <2>3, SmallSubtree
  <2> QED
    BY <1>1, <2>3, <2>4
<1>5. s = [[t EXCEPT !.node = H] EXCEPT !.root = None]
  BY DEF Destroy
<1> HIDE DEF n, D
<1>6. \A m \in Nodes : H[m] = Unused
  BY <1>3, <1>4 DEF Allocated
<1>7. H \in [Nodes -> Fields]
  <2>1. Unused \in Fields
    BY DEF Unused, Fields, Colors, Link
  <2> QED
    BY <1>1, <2>1 DEF Trees
<1> HIDE DEF H
<1>8. s \in Trees /\ s.root = None /\ s.node = H
  BY <1>1, <1>5, <1>7 DEF Trees, Link
<1> QED
  BY <1>3, <1>6, <1>8 DEF n

\* PostInsertFix paints the root.
LEMMA InsertEnds ==
  ASSUME NEW t, Shape(t, None), Balanced(t, Weights(t, None, None)), NEW p, Reds(t, p, None), Placed(t, p),
         Parent(t, p) # None => Color(t, Parent(t, p)) # "RED",
         NEW s, s = Paint(t, t.root, "BLACK")
  PROVE  Kept(s, t, None) /\ Sound(s, None)
<1> DEFINE c == Weights(t, None, None)
           e == Weights(s, None, None)
           i == IF Color(t, t.root) = "BLACK" THEN 0 ELSE 1
<1>1. Linked(t) /\ None \notin Nodes /\ p \in Allocated(t) /\ Allocated(t) \subseteq Nodes
  BY AllocatedIs DEF Shape, Placed
<1>2. t.root \in Allocated(t)
  BY <1>1, AllocatedIs, RootIsAbove DEF Linked
<1>3. Painted(s, t, t.root, "BLACK") /\ Kept(s, t, None)
  BY <1>2, PaintKeeps DEF Colors
<1>4. /\ s.root = t.root /\ Allocated(s) = Allocated(t) /\ Linked(s)
      /\ \A m \in Nodes : /\ Parent(s, m) = Parent(t, m) /\ \A d \in Dirs : GetChild(s, m, d) = GetChild(t, m, d)
                          /\ Color(s, m) = IF m = t.root THEN "BLACK" ELSE Color(t, m)
  BY <1>3 DEF Painted, SameLinks, Kept, Shape
<1>5. \A m \in Allocated(t) : c[m] = (IF Color(t, m) = "BLACK" THEN 1 ELSE 0) /\ c[m] \in Int
  BY <1>1, WeightIs
<1>6. \A m \in Allocated(t) : e[m] = (IF Color(s, m) = "BLACK" THEN 1 ELSE 0)
  BY <1>1, <1>4, WeightIs
<1> HIDE DEF c, e
<1>7. i \in Int /\ \A m \in Allocated(t) : e[m] = IF m = t.root THEN c[m] + i ELSE c[m]
  BY <1>1, <1>4, <1>5, <1>6
<1> HIDE DEF i
<1>8. Balanced(t, e)
  BY <1>1, <1>5, <1>7, Raise DEF c
<1>9. Balanced(s, e)
  BY <1>1, <1>3, <1>4, <1>8, SameTall DEF Painted
<1>10. Reds(s, None, None)
  <2> SUFFICES ASSUME NEW m \in Allocated(s), Color(s, m) = "RED", Color(s, Parent(s, m)) = "RED"
               PROVE  FALSE
    BY DEF Reds
  <2>1. m \in Allocated(t) /\ Color(t, m) = "RED" /\ Parent(s, m) = Parent(t, m)
    BY <1>1, <1>4
  <2>2. Parent(t, m) \in Allocated(t)
    BY <1>1, <1>4, <2>1 DEF Linked, Color
  <2>3. Color(t, Parent(t, m)) = "RED"
    BY <1>1, <1>4, <2>1, <2>2
  <2> QED
    BY <1>1, <2>1, <2>2, <2>3 DEF Reds
<1>11. Color(s, s.root) = "BLACK"
  BY <1>1, <1>2, <1>4
<1> QED
  BY <1>3, <1>9, <1>10, <1>11 DEF Sound, Kept, e

\* PreDeletionFix paints the problem node.
LEMMA DeletionFixEnds ==
  ASSUME NEW t, NEW p, NEW x, Lacks(t, p, x), p = t.root \/ Color(t, p) # "BLACK",
         NEW s, s = Paint(t, p, "BLACK")
  PROVE  Kept(s, t, x) /\ Sound(s, x) /\ x \in Allocated(s) \ {s.root} /\ \E d \in Dirs : GetChild(s, x, d) = None
<1> DEFINE c == Weights(t, p, x)
           e == Weights(s, None, x)
           i == IF p = t.root THEN -1 ELSE 0
<1>1. /\ Shape(t, x) /\ Linked(t) /\ None \notin Nodes /\ p \in Allocated(t) /\ Allocated(t) \subseteq Nodes
      /\ Balanced(t, c) /\ Reds(t, None, p) /\ Color(t, x) = "BLACK" /\ Color(t, t.root) = "BLACK"
      /\ x \in Allocated(t) /\ x # t.root /\ \E d \in Dirs : GetChild(t, x, d) = None
  BY AllocatedIs DEF Shape, Lacks
<1>2. p # x /\ t.root \in Link
  BY <1>1, AllocatedIs DEF Linked, Trees
<1>3. Painted(s, t, p, "BLACK") /\ Kept(s, t, x)
  BY <1>1, PaintKeeps DEF Colors
<1>4. /\ s.root = t.root /\ Allocated(s) = Allocated(t) /\ Linked(s)
      /\ \A m \in Nodes : /\ Parent(s, m) = Parent(t, m) /\ \A d \in Dirs : GetChild(s, m, d) = GetChild(t, m, d)
                          /\ Color(s, m) = IF m = p THEN "BLACK" ELSE Color(t, m)
  BY <1>3 DEF Painted, SameLinks, Kept, Shape
<1>5. \A m \in Allocated(t) : /\ c[m] = (IF Color(t, m) = "BLACK" /\ m # x THEN 1 ELSE 0) + (IF m = p THEN 1 ELSE 0)
                              /\ c[m] \in Int /\ Color(t, m) \in Colors
  BY <1>1, WeightIs
<1>6. \A m \in Allocated(t) : e[m] = (IF Color(s, m) = "BLACK" /\ m # x THEN 1 ELSE 0)
  BY <1>1, <1>4, WeightIs
<1> HIDE DEF c, e
<1>7. i \in Int /\ \A m \in Allocated(t) : e[m] = IF m = t.root THEN c[m] + i ELSE c[m]
  <2>1. i \in Int
    OBVIOUS
  <2>2. ASSUME NEW m \in Allocated(t) PROVE e[m] = IF m = t.root THEN c[m] + i ELSE c[m]
    <3>1. m \in Nodes
      BY <1>1
    <3>2. CASE m = p
      BY <1>1, <1>2, <1>4, <1>5, <1>6, <3>1, <3>2
    <3>3. CASE m # p
      BY <1>1, <1>2, <1>4, <1>5, <1>6, <3>1, <3>3
    <3> QED
      BY <3>2, <3>3
  <2> QED
    BY <2>1, <2>2
<1> HIDE DEF i
<1>8. Balanced(t, e)
  BY <1>1, <1>5, <1>7, Raise
<1>9. Balanced(s, e)
  BY <1>1, <1>3, <1>4, <1>8, SameTall DEF Painted
<1>10. Reds(s, None, None)
  <2> SUFFICES ASSUME NEW m \in Allocated(s), Color(s, m) = "RED", Color(s, Parent(s, m)) = "RED"
               PROVE  FALSE
    BY DEF Reds
  <2>1. m \in Allocated(t) /\ Color(t, m) = "RED" /\ Parent(s, m) = Parent(t, m)
    BY <1>1, <1>4
  <2>2. Parent(t, m) \in Allocated(t)
    BY <1>1, <1>4, <2>1 DEF Linked, Color
  <2>3. Color(t, Parent(t, m)) = "RED" /\ Parent(t, m) # p
    BY <1>1, <1>4, <2>1, <2>2
  <2> QED
    BY <1>1, <2>1, <2>2, <2>3 DEF Reds
<1>11. Color(s, s.root) = "BLACK"
  <2>1. t.root \in Nodes => Color(s, t.root) = "BLACK"
    BY <1>1, <1>4
  <2>2. Color(s, None) = "BLACK"
    BY DEF Color
  <2> QED
    BY <1>2, <1>4, <2>1, <2>2 DEF Link
<1>12. \E d \in Dirs : GetChild(s, x, d) = None
  BY <1>1, <1>4
<1> QED
  BY <1>1, <1>3, <1>4, <1>9, <1>10, <1>11, <1>12 DEF Sound, Kept, e

LEMMA UpdateKeeps ==
  ASSUME NEW t, Sound(t, None), NEW n \in Allocated(t), NEW v \in Values, NEW s, s = [t EXCEPT !.node[n].val = v]
  PROVE  /\ Sound(s, None) /\ Allocated(s) = Allocated(t) /\ s.root = t.root
         /\ \A m \in Allocated(t) : Key(s, m) = Key(t, m) /\ Val(s, m) = IF m = n THEN v ELSE Val(t, m)
<1> DEFINE f == [t.node[n] EXCEPT !.val = v]
           F == [t.node EXCEPT ![n] = f]
           c == Weights(t, None, None)
           e == Weights(s, None, None)
<1>1. /\ Linked(t) /\ Shape(t, None) /\ None \notin Nodes /\ Allocated(t) \subseteq Nodes /\ t \in Trees
      /\ \A m \in Nodes \ Allocated(t) : t.node[m] = Unused
  BY AllocatedIs DEF Shape, Sound, Linked
<1>2. t.node \in [Nodes -> Fields] /\ t.node[n] \in Fields /\ n \in Nodes
  BY <1>1 DEF Trees
<1>3. /\ f \in Fields /\ f.key = Key(t, n) /\ f.val = v /\ f.color = t.node[n].color
      /\ f.parent = Parent(t, n) /\ \A d \in Dirs : f[d] = GetChild(t, n, d)
  BY <1>1, <1>2 DEF Fields, Dirs, Key, Parent, GetChild
<1>4. s = [t EXCEPT !.node = F]
  OBVIOUS
<1> HIDE DEF f
<1>5. F \in [Nodes -> Fields] /\ \A m \in Nodes : F[m] = IF m = n THEN f ELSE t.node[m]
  BY <1>2, <1>3
<1> HIDE DEF F
<1>6. s.node = F /\ s.root = t.root /\ s \in Trees
  BY <1>1, <1>4, <1>5 DEF Trees
<1>7. \A m \in Nodes :
        /\ Key(s, m) = Key(t, m) /\ Val(s, m) = (IF m = n THEN v ELSE Val(t, m))
        /\ Color(s, m) = Color(t, m) /\ Parent(s, m) = Parent(t, m)
        /\ \A d \in Dirs : GetChild(s, m, d) = GetChild(t, m, d)
  <2> SUFFICES ASSUME NEW m \in Nodes
               PROVE  /\ Key(s, m) = Key(t, m) /\ Val(s, m) = (IF m = n THEN v ELSE Val(t, m))
                      /\ Color(s, m) = Color(t, m) /\ Parent(s, m) = Parent(t, m)
                      /\ \A d \in Dirs : GetChild(s, m, d) = GetChild(t, m, d)
    OBVIOUS
  <2>1. CASE m = n
    BY <1>1, <1>3, <1>5, <1>6, <2>1 DEF Key, Val, Color, Parent, GetChild
  <2>2. CASE m # n
    BY <1>1, <1>5, <1>6, <2>2 DEF Key, Val, Color, Parent, GetChild
  <2> QED
    BY <2>1, <2>2
<1>8. SameLinks(s, t)
  BY <1>1, <1>2, <1>5, <1>6, <1>7 DEF SameLinks
<1>9. Shape(s, None) /\ Allocated(s) = Allocated(t)
  BY <1>1, <1>8, SameShape
<1>10. Balanced(t, c)
  BY DEF Sound
<1>11. \A m \in Allocated(t) : e[m] = c[m]
  BY <1>1, <1>7 DEF Weights, Weight
<1> HIDE DEF c, e
<1>12. Balanced(s, e)
  <2>1. Balanced(s, c)
    BY <1>1, <1>8, <1>9, <1>10, SameTall
  <2> QED
    BY <1>9, <1>11, <2>1, SameWeights
<1>13. Reds(s, None, None)
  <2> SUFFICES ASSUME NEW m \in Allocated(s), Color(s, m) = "RED", Color(s, Parent(s, m)) = "RED"
               PROVE  FALSE
    BY DEF Reds
  <2>1. Color(t, m) = "RED" /\ Color(s, Parent(t, m)) = "RED" /\ m \in Allocated(t)
    BY <1>1, <1>7, <1>9
  <2>2. Parent(t, m) \in Allocated(t)
    BY <1>1, <2>1 DEF Linked, Color
  <2> QED
    BY <1>1, <1>7, <2>1, <2>2 DEF Reds, Sound
<1>14. Color(s, s.root) = "BLACK"
  <2>1. t.root \in Nodes => Color(s, t.root) = Color(t, t.root)
    BY <1>7
  <2>2. t.root \in Link /\ Color(s, None) = "BLACK"
    BY <1>1 DEF Trees, Color
  <2> QED
    BY <1>6, <2>1, <2>2 DEF Sound, Link
<1> QED
  BY <1>1, <1>6, <1>7, <1>9, <1>12, <1>13, <1>14 DEF Sound, e

--------------------------------------------------------------------------------
(* The map that a tree is, without the node that is to go.                       *)

ContentOf(t, x) ==
  [k \in Keys |-> LET at == {n \in Allocated(t) \ {x} : t.node[n].key = k}
                  IN  IF at = {} THEN None ELSE t.node[CHOOSE n \in at : TRUE].val]

\* Entries(t, x, C): C is that map.
Entries(t, x, C) ==
  /\ C \in [Keys -> Values \union {None}]
  /\ \A n \in Allocated(t) \ {x} : Key(t, n) \in Keys /\ C[Key(t, n)] = Val(t, n)
  /\ \A k \in Keys : (\A n \in Allocated(t) \ {x} : Key(t, n) # k) => C[k] = None

LEMMA ContentIs ==
  ASSUME NEW t, NEW x, Shape(t, x), Valued(t)
  PROVE  Entries(t, x, ContentOf(t, x))
<1> DEFINE At(k) == {n \in Allocated(t) \ {x} : t.node[n].key = k}
           C == ContentOf(t, x)
<1>1. \A k \in Keys : C[k] = IF At(k) = {} THEN None ELSE Val(t, CHOOSE n \in At(k) : TRUE)
  BY DEF ContentOf, Val
<1>2. \A k : At(k) # {} => (CHOOSE n \in At(k) : TRUE) \in At(k)
  OBVIOUS
<1>3. \A k, n : n \in At(k) <=> n \in Allocated(t) \ {x} /\ Key(t, n) = k
  BY DEF Key
<1>4. DOMAIN C = Keys /\ C = [k \in Keys |-> C[k]]
  BY DEF ContentOf
<1> HIDE DEF At, C
<1>5. \A k \in Keys : C[k] \in Values \union {None}
  BY <1>1, <1>2, <1>3 DEF Valued
<1>6. ASSUME NEW n \in Allocated(t) \ {x} PROVE Key(t, n) \in Keys /\ C[Key(t, n)] = Val(t, n)
  <2> DEFINE k == Key(t, n)
             m == CHOOSE j \in At(k) : TRUE
  <2>1. k \in Keys
    BY AllocatedIs DEF Shape
  <2>2. n \in At(k)
    BY <1>3
  <2>3. m \in At(k)
    BY <1>2, <2>2
  <2> HIDE DEF m
  <2>4. m = n
    BY <1>3, <2>3, KeysDiffer
  <2> QED
    BY <1>1, <2>1, <2>2, <2>4 DEF m
<1>7. \A k \in Keys : (\A n \in Allocated(t) \ {x} : Key(t, n) # k) => C[k] = None
  BY <1>1, <1>3
<1>8. C \in [Keys -> Values \union {None}]
  BY <1>4, <1>5
<1> QED
  BY <1>6, <1>7, <1>8 DEF Entries, C

\* The same entries make the same map.
LEMMA SameContent ==
  ASSUME NEW t, NEW x, NEW s, NEW y, NEW B, NEW C, Entries(t, x, B), Entries(s, y, C),
         Allocated(s) \ {y} = Allocated(t) \ {x},
         \A m \in Allocated(t) \ {x} : Key(s, m) = Key(t, m) /\ Val(s, m) = Val(t, m)
  PROVE  C = B
<1>1. \A k \in Keys : C[k] = B[k]
  <2> SUFFICES ASSUME NEW k \in Keys PROVE C[k] = B[k]
    OBVIOUS
  <2>1. CASE \E n \in Allocated(t) \ {x} : Key(t, n) = k
    BY <2>1 DEF Entries
  <2>2. CASE \A n \in Allocated(t) \ {x} : Key(t, n) # k
    BY <2>2 DEF Entries
  <2> QED
    BY <2>1, <2>2
<1> QED
  BY <1>1 DEF Entries

\* A key more, or another value for it.
LEMMA OneSet ==
  ASSUME NEW t, NEW x, NEW s, NEW y, NEW B, NEW C, Entries(t, x, B), Entries(s, y, C),
         NEW k \in Keys, NEW v, NEW n \in Allocated(s) \ {y}, Key(s, n) = k, Val(s, n) = v,
         \A m \in Allocated(t) \ {x} : m = n \/
           (m \in Allocated(s) \ {y} /\ Key(s, m) = Key(t, m) /\ Val(s, m) = Val(t, m)),
         \A m \in Allocated(s) \ {y} : m = n \/ (m \in Allocated(t) \ {x} /\ Key(t, m) = Key(s, m)),
         n \in Allocated(t) \ {x} => Key(t, n) = k
  PROVE  C = [B EXCEPT ![k] = v]
<1>1. \A j \in Keys : C[j] = IF j = k THEN v ELSE B[j]
  <2> SUFFICES ASSUME NEW j \in Keys PROVE C[j] = IF j = k THEN v ELSE B[j]
    OBVIOUS
  <2>1. CASE j = k
    BY <2>1 DEF Entries
  <2>2. CASE j # k /\ \E m \in Allocated(t) \ {x} : Key(t, m) = j
    BY <2>2 DEF Entries
  <2>3. CASE j # k /\ \A m \in Allocated(t) \ {x} : Key(t, m) # j
    BY <2>3 DEF Entries
  <2> QED
    BY <2>1, <2>2, <2>3
<1> QED
  BY <1>1 DEF Entries

\* A key less.
LEMMA OneGone ==
  ASSUME NEW t, NEW x, NEW s, NEW y, NEW B, NEW C, Entries(t, x, B), Entries(s, y, C), NEW k \in Keys,
         \A m \in Allocated(s) \ {y} : Key(s, m) # k,
         \A m \in Allocated(s) \ {y} : \E n \in Allocated(t) \ {x} : Key(t, n) = Key(s, m) /\ Val(t, n) = Val(s, m),
         \A n \in Allocated(t) \ {x} : Key(t, n) = k \/ \E m \in Allocated(s) \ {y} : Key(s, m) = Key(t, n)
  PROVE  C = [B EXCEPT ![k] = None]
<1>1. \A j \in Keys : C[j] = IF j = k THEN None ELSE B[j]
  <2> SUFFICES ASSUME NEW j \in Keys PROVE C[j] = IF j = k THEN None ELSE B[j]
    OBVIOUS
  <2>1. CASE j = k
    BY <2>1 DEF Entries
  <2>2. CASE j # k /\ \E m \in Allocated(s) \ {y} : Key(s, m) = j
    BY <2>2 DEF Entries
  <2>3. CASE j # k /\ \A m \in Allocated(s) \ {y} : Key(s, m) # j
    BY <2>3 DEF Entries
  <2> QED
    BY <2>1, <2>2, <2>3
<1> QED
  BY <1>1 DEF Entries

--------------------------------------------------------------------------------
(* The steps.                                                                    *)

LEMMA ContentIsOf ==
  Content = ContentOf(tree, doomed) /\ Content' = ContentOf(tree', doomed')
BY DEF Content, ContentOf

LEMMA IdleIs ==
  ASSUME IInv, pc = "idle"
  PROVE  /\ Sound(tree, None) /\ Shape(tree, None) /\ Valued(tree) /\ problem = None /\ doomed = None
         /\ Entries(tree, None, Content)
<1>1. problem = None /\ doomed = None
  BY DEF IInv, Stage
<1>2. Sound(tree, None) /\ Shape(tree, None) /\ Valued(tree)
  BY <1>1 DEF IInv, Stage, Sound, Low, Lack
<1>3. Entries(tree, None, Content)
  BY <1>1, <1>2, ContentIs, ContentIsOf
<1> QED
  BY <1>1, <1>2, <1>3

LEMMA IdleAgain ==
  ASSUME pc' = "idle", problem' = None, doomed' = None, Sound(tree', None), Valued(tree')
  PROVE  IInv' /\ Entries(tree', None, Content')
<1>1. Shape(tree', None) /\ Reds(tree', None, None) /\ Color(tree', tree'.root) = "BLACK"
      /\ Balanced(tree', Weights(tree', None, None))
  BY DEF Sound
<1>2. Low' = None /\ Lack' = None
  BY DEF Low, Lack
<1>3. Stage'
  BY <1>1 DEF Stage
<1>4. IInv'
  BY <1>1, <1>2, <1>3 DEF IInv
<1>5. Entries(tree', None, Content')
  BY <1>1, ContentIs, ContentIsOf
<1> QED
  BY <1>4, <1>5

\* What Find says of the map.
LEMMA FindHas ==
  ASSUME NEW t, Sound(t, None), Valued(t), NEW C, Entries(t, None, C), NEW k \in Keys
  PROVE  /\ t.root = None => C[k] = None /\ Allocated(t) = {}
         /\ t.root # None /\ Find(t, k) = None => C[k] = None
         /\ t.root # None /\ Find(t, k) # None =>
              /\ Find(t, k) \in Allocated(t) /\ Key(t, Find(t, k)) = k
              /\ C[k] = Val(t, Find(t, k)) /\ C[k] # None
<1>1. Shape(t, None) /\ None \notin Allocated(t)
  BY AllocatedIs DEF Sound, Shape
<1>2. t.root = None => Allocated(t) = {}
  BY <1>1, RootIsAbove
<1>3. t.root = None => C[k] = None
  BY <1>2 DEF Entries
<1>4. ASSUME t.root # None, Find(t, k) = None PROVE C[k] = None
  <2>1. \A n \in Allocated(t) \ {None} : Key(t, n) # k
    BY <1>1, <1>4, FindIs
  <2> QED
    BY <2>1 DEF Entries
<1>5. ASSUME t.root # None, Find(t, k) # None
      PROVE  /\ Find(t, k) \in Allocated(t) /\ Key(t, Find(t, k)) = k
             /\ C[k] = Val(t, Find(t, k)) /\ C[k] # None
  <2>1. Find(t, k) \in Allocated(t) /\ Key(t, Find(t, k)) = k
    BY <1>1, <1>5, FindIs
  <2>2. C[k] = Val(t, Find(t, k))
    BY <1>1, <2>1 DEF Entries
  <2>3. C[k] \in Values
    BY <2>1, <2>2 DEF Valued
  <2> QED
    BY <2>1, <2>2, <2>3, RbTreeAssumption
<1> QED
  BY <1>2, <1>3, <1>4, <1>5

LEMMA InsertKeeps ==
  ASSUME IInv, NEW k \in Keys, NEW v \in Values, Insert(k, v)
  PROVE  /\ IInv' /\ ret' = (Content[k] = None)
         /\ Content' = IF Content[k] = None THEN [Content EXCEPT ![k] = v] ELSE Content
<1> DEFINE new == Fresh(tree)
<1>1. /\ Sound(tree, None) /\ Shape(tree, None) /\ Valued(tree) /\ problem = None /\ doomed = None
      /\ Entries(tree, None, Content) /\ pc = "idle" /\ doomed' = None
  BY IdleIs DEF Insert, Idle
<1>2. CASE tree.root # None /\ Find(tree, k) # None
  <2>1. ret' = FALSE /\ tree' = tree /\ pc' = "idle" /\ problem' = None
    BY <1>1, <1>2 DEF Insert
  <2>2. IInv' /\ Content' = Content
    BY <1>1, <2>1, IdleAgain, ContentIsOf
  <2>3. Content[k] # None
    BY <1>1, <1>2, FindHas
  <2> QED
    BY <2>1, <2>2, <2>3
<1>3. CASE ~(tree.root # None /\ Find(tree, k) # None)
  <2>1. /\ Allocated(tree) # Nodes /\ problem' = new /\ pc' = "PostInsertFix" /\ ret' = TRUE
        /\ tree' = IF tree.root = None
                   THEN [root |-> new, node |-> [tree.node EXCEPT ![new] = NewNode(k, v, "BLACK", None)]]
                   ELSE Leaf(tree, Last(tree, k), k, v)
    BY <1>3 DEF Insert
  <2>2. Content[k] = None
    BY <1>1, <1>3, FindHas
  <2>3. Grown(tree', tree, new, k, v)
    <3>1. CASE tree.root = None
      BY <1>1, <2>1, <3>1, FirstGrows
    <3>2. CASE tree.root # None
      BY <1>1, <1>3, <2>1, <3>2, LeafGrows DEF Sound
    <3> QED
      BY <3>1, <3>2
  <2> HIDE DEF new
  <2>4. /\ Shape(tree', None) /\ Allocated(tree') = Allocated(tree) \union {new} /\ new \notin Allocated(tree)
        /\ Key(tree', new) = k /\ Val(tree', new) = v
        /\ \A m \in Allocated(tree) : Key(tree', m) = Key(tree, m) /\ Val(tree', m) = Val(tree, m)
        /\ Balanced(tree', Weights(tree', None, None)) /\ Reds(tree', new, None) /\ Placed(tree', new)
    BY <2>3 DEF Grown
  <2>5. None \notin Allocated(tree')
    BY <2>4, AllocatedIs DEF Shape
  <2>6. Valued(tree')
    BY <1>1, <2>4 DEF Valued
  <2>7. Low' = new /\ Lack' = None
    BY <2>1 DEF Low, Lack
  <2>8. Stage'
    BY <1>1, <2>1, <2>4 DEF Stage, Placed
  <2>9. IInv'
    BY <1>1, <2>4, <2>6, <2>7, <2>8 DEF IInv
  <2>10. Entries(tree', None, Content')
    BY <1>1, <2>4, <2>6, ContentIs, ContentIsOf
  <2>11. Content' = [Content EXCEPT ![k] = v]
    BY <1>1, <2>4, <2>5, <2>10, OneSet
  <2> QED
    BY <2>1, <2>2, <2>9, <2>11
<1> QED
  BY <1>2, <1>3

\* A change of links or colours alone.
LEMMA KeptContent ==
  ASSUME NEW s, NEW t, NEW x, Kept(s, t, x), Shape(t, x), Valued(t)
  PROVE  Valued(s) /\ ContentOf(s, x) = ContentOf(t, x)
<1>1. Allocated(t) \subseteq Nodes
  BY AllocatedIs DEF Shape
<1>2. Valued(s)
  BY <1>1 DEF Valued, Kept
<1>3. Entries(s, x, ContentOf(s, x)) /\ Entries(t, x, ContentOf(t, x))
  BY <1>2, ContentIs DEF Kept
<1> QED
  BY <1>1, <1>2, <1>3, SameContent DEF Kept

LEMMA PostInsertFixKeeps ==
  ASSUME IInv, PostInsertFix
  PROVE  IInv' /\ Content' = Content /\ ret' = ret
<1> DEFINE s == InsertRound(tree, problem).t
           q == InsertRound(tree, problem).at
<1>1. /\ pc = "PostInsertFix" /\ tree' = s /\ problem' = q /\ pc' = pc /\ doomed' = doomed /\ ret' = ret
      /\ Parent(tree, problem) # None /\ Color(tree, Parent(tree, problem)) = "RED"
  BY DEF PostInsertFix, DoubleRed
<1>2. doomed = None /\ Low = problem /\ Lack = None
  BY <1>1 DEF IInv, Stage, Low, Lack
<1>3. /\ Shape(tree, None) /\ Balanced(tree, Weights(tree, None, None)) /\ problem \in Allocated(tree)
      /\ Reds(tree, problem, None) /\ Placed(tree, problem) /\ Valued(tree)
  BY <1>1, <1>2 DEF IInv, Stage, Placed
<1>4. InsertFixed(s, tree, q)
  BY <1>1, <1>3, InsertRoundFixes
<1> HIDE DEF s, q
<1>5. /\ Kept(s, tree, None) /\ Shape(s, None) /\ Balanced(s, Weights(s, None, None))
      /\ Reds(s, q, None) /\ Placed(s, q)
  BY <1>4 DEF InsertFixed, Kept
<1>6. Valued(s) /\ ContentOf(s, None) = ContentOf(tree, None)
  BY <1>3, <1>5, KeptContent
<1>7. Low' = q /\ Lack' = None /\ doomed' = None
  BY <1>1, <1>2 DEF Low, Lack
<1>8. Stage'
  BY <1>1, <1>2, <1>5 DEF Stage, Placed
<1>9. IInv'
  BY <1>1, <1>5, <1>6, <1>7, <1>8 DEF IInv
<1>10. Content' = Content
  BY <1>1, <1>2, <1>6, ContentIsOf
<1> QED
  BY <1>1, <1>9, <1>10

LEMMA InsertReturnsKeeps ==
  ASSUME IInv, InsertReturns
  PROVE  IInv' /\ Content' = Content /\ ret' = ret
<1> DEFINE s == Paint(tree, tree.root, "BLACK")
<1>1. /\ pc = "PostInsertFix" /\ tree' = s /\ problem' = None /\ pc' = "idle" /\ doomed' = doomed /\ ret' = ret
      /\ Parent(tree, problem) # None => Color(tree, Parent(tree, problem)) # "RED"
  BY DEF InsertReturns, DoubleRed
<1>2. doomed = None /\ Low = problem /\ Lack = None
  BY <1>1 DEF IInv, Stage, Low, Lack
<1>3. /\ Shape(tree, None) /\ Balanced(tree, Weights(tree, None, None))
      /\ Reds(tree, problem, None) /\ Placed(tree, problem) /\ Valued(tree)
  BY <1>1, <1>2 DEF IInv, Stage, Placed
<1>4. Kept(s, tree, None) /\ Sound(s, None)
  BY <1>1, <1>3, InsertEnds
<1> HIDE DEF s
<1>5. Valued(s) /\ ContentOf(s, None) = ContentOf(tree, None)
  BY <1>3, <1>4, KeptContent
<1>6. IInv'
  BY <1>1, <1>2, <1>4, <1>5, IdleAgain
<1> QED
  BY <1>1, <1>2, <1>5, <1>6, ContentIsOf

LEMMA WalkFromNullKeeps ==
  ASSUME IInv, WalkFromNull
  PROVE  IInv' /\ Content' = Content /\ ret' = ret
<1>1. /\ pc = "idle" /\ pc' = "fault" /\ tree.root = None
      /\ tree' = tree /\ problem' = problem /\ doomed' = doomed /\ ret' = ret
  BY DEF WalkFromNull, Idle
<1>2. Sound(tree, None) /\ problem = None /\ doomed = None
  BY <1>1, IdleIs
<1>3. Low' = None /\ Lack' = None /\ Low = None /\ Lack = None
  BY <1>1 DEF Low, Lack
<1>4. Stage'
  BY <1>1, <1>2 DEF Stage, Sound
<1>5. IInv'
  BY <1>1, <1>3, <1>4 DEF IInv
<1> QED
  BY <1>1, <1>5, ContentIsOf

LEMMA ReadsKeep ==
  ASSUME IInv, NEW k \in Keys, Read(k) \/ DeleteAbsent(k)
  PROVE  /\ IInv' /\ Content' = Content
         /\ Read(k) => ret' = Content[k]
         /\ DeleteAbsent(k) => ret' = FALSE /\ Content[k] = None
<1>1. pc = "idle" /\ pc' = pc /\ tree' = tree /\ problem' = problem /\ doomed' = doomed /\ tree.root # None
  BY DEF Read, DeleteAbsent, CanWalk, Idle
<1>2. /\ Sound(tree, None) /\ Shape(tree, None) /\ Valued(tree) /\ problem = None /\ doomed = None
      /\ Entries(tree, None, Content)
  BY <1>1, IdleIs
<1>3. IInv' /\ Content' = Content
  BY <1>1, <1>2, IdleAgain, ContentIsOf
<1>4. Read(k) => ret' = Content[k]
  BY <1>1, <1>2, FindHas DEF Read, Val
<1>5. DeleteAbsent(k) => ret' = FALSE /\ Content[k] = None
  BY <1>1, <1>2, FindHas DEF DeleteAbsent
<1> QED
  BY <1>3, <1>4, <1>5

LEMMA UpdateStepKeeps ==
  ASSUME IInv, NEW k \in Keys, NEW v \in Values, Update(k, v)
  PROVE  /\ IInv' /\ ret' = (Content[k] # None)
         /\ Content' = IF Content[k] # None THEN [Content EXCEPT ![k] = v] ELSE Content
<1> DEFINE n == Find(tree, k)
<1>1. /\ pc = "idle" /\ pc' = pc /\ problem' = problem /\ doomed' = doomed /\ tree.root # None
      /\ ret' = (n # None) /\ tree' = IF n = None THEN tree ELSE [tree EXCEPT !.node[n].val = v]
  BY DEF Update, CanWalk, Idle
<1>2. /\ Sound(tree, None) /\ Shape(tree, None) /\ Valued(tree) /\ problem = None /\ doomed = None
      /\ Entries(tree, None, Content)
  BY <1>1, IdleIs
<1>3. /\ n = None => Content[k] = None
      /\ n # None => n \in Allocated(tree) /\ Key(tree, n) = k /\ Content[k] # None
  BY <1>1, <1>2, FindHas
<1> HIDE DEF n
<1>4. CASE n = None
  <2>1. tree' = tree
    BY <1>1, <1>4
  <2>2. IInv' /\ Content' = Content
    BY <1>1, <1>2, <2>1, IdleAgain, ContentIsOf
  <2> QED
    BY <1>1, <1>3, <1>4, <2>2
<1>5. CASE n # None
  <2>1. tree' = [tree EXCEPT !.node[n].val = v]
    BY <1>1, <1>5
  <2>2. /\ Sound(tree', None) /\ Allocated(tree') = Allocated(tree)
        /\ \A m \in Allocated(tree) : Key(tree', m) = Key(tree, m) /\ Val(tree', m) = IF m = n THEN v ELSE Val(tree, m)
    BY <1>2, <1>3, <1>5, <2>1, UpdateKeeps
  <2>3. Valued(tree')
    BY <1>2, <2>2 DEF Valued
  <2>4. IInv' /\ Entries(tree', None, Content')
    BY <1>1, <1>2, <2>2, <2>3, IdleAgain
  <2>5. None \notin Allocated(tree)
    BY <1>2, AllocatedIs DEF Shape
  <2>6. Content' = [Content EXCEPT ![k] = v]
    BY <1>2, <1>3, <1>5, <2>2, <2>4, <2>5, OneSet
  <2> QED
    BY <1>1, <1>3, <1>5, <2>4, <2>6
<1> QED
  BY <1>4, <1>5

LEMMA DeleteLastKeeps ==
  ASSUME IInv, NEW k \in Keys, DeleteLast(k)
  PROVE  /\ IInv' /\ ret' = TRUE /\ Content[k] # None
         /\ Content' = [Content EXCEPT ![k] = None]
<1>1. /\ pc = "idle" /\ pc' = pc /\ problem' = problem /\ doomed' = doomed /\ tree.root # None /\ ret' = TRUE
      /\ Find(tree, k) = tree.root /\ BstDelete(tree, tree.root) = tree.root
      /\ tree' = [Destroy(tree, tree.root) EXCEPT !.root = None]
  BY DEF DeleteLast, CanWalk, Idle
<1>2. /\ Sound(tree, None) /\ Shape(tree, None) /\ Valued(tree) /\ problem = None /\ doomed = None
      /\ Entries(tree, None, Content)
  BY <1>1, IdleIs
<1>3. /\ Allocated(tree) = {tree.root} /\ tree' \in Trees /\ tree'.root = None
      /\ \A m \in Nodes : tree'.node[m] = Unused
  BY <1>1, <1>2, LastGoes
<1>4. Sound(tree', None) /\ Allocated(tree') = {}
  BY <1>3, EmptyIsSound
<1>5. IInv' /\ Entries(tree', None, Content')
  BY <1>1, <1>2, <1>4, IdleAgain DEF Valued
<1>6. Key(tree, tree.root) = k /\ Content[k] # None
  BY <1>1, <1>2, FindHas
<1>7. Content' = [Content EXCEPT ![k] = None]
  BY <1>2, <1>3, <1>4, <1>5, <1>6, OneGone
<1> QED
  BY <1>1, <1>5, <1>6, <1>7

LEMMA DeleteKeeps ==
  ASSUME IInv, NEW k \in Keys, Delete(k)
  PROVE  /\ IInv' /\ ret' = TRUE /\ Content[k] # None
         /\ Content' = [Content EXCEPT ![k] = None]
<1> DEFINE n == Find(tree, k)
           e == BstDelete(tree, n)
           lack == IF Color(tree, e) = "BLACK" THEN e ELSE None
<1>1. /\ pc = "idle" /\ tree.root # None /\ n # None /\ ret' = TRUE
      /\ e # tree.root /\ tree' = Transplant(tree, n, e) /\ doomed' = e
      /\ IF Color(tree, e) = "BLACK" THEN pc' = "PreDeletionFix" /\ problem' = e
                                     ELSE pc' = "unlink" /\ problem' = problem
  BY DEF Delete, CanWalk, Idle
<1>2. /\ Sound(tree, None) /\ Shape(tree, None) /\ Valued(tree) /\ problem = None /\ doomed = None
      /\ Entries(tree, None, Content)
  BY <1>1, IdleIs
<1>3. /\ n \in Allocated(tree) /\ Key(tree, n) = k /\ Content[k] # None
  BY <1>1, <1>2, FindHas
<1> HIDE DEF n
<1>4. e = BstDelete(tree, n)
  OBVIOUS
<1> HIDE DEF e
<1>5. Moved(tree', tree, n, e) /\ Balanced(tree', Weights(tree', lack, e))
  BY <1>1, <1>2, <1>3, <1>4, TransplantMoves DEF Sound
<1>6. /\ Shape(tree', e) /\ Allocated(tree') = Allocated(tree)
      /\ \A m \in Allocated(tree) : /\ Key(tree', m) = IF m = n THEN Key(tree, e) ELSE Key(tree, m)
                                    /\ Val(tree', m) = IF m = n THEN Val(tree, e) ELSE Val(tree, m)
      /\ tree'.root = tree.root /\ \A m \in Allocated(tree) : Color(tree', m) = Color(tree, m)
      /\ e \in Allocated(tree) /\ \E d \in Dirs : GetChild(tree', e, d) = None
      /\ Reds(tree', None, None)
  BY <1>5 DEF Moved
<1>7. Valued(tree') /\ None \notin Allocated(tree)
  BY <1>2, <1>6, AllocatedIs DEF Valued, Shape
<1>8. Low' = None /\ Lack' = lack
  BY <1>1 DEF Low, Lack
<1>9. tree.root \in Allocated(tree)
  BY <1>1, <1>2 DEF Shape, Linked
<1>10. Stage'
  <2>1. Color(tree', tree'.root) = "BLACK"
    BY <1>2, <1>6, <1>9 DEF Sound
  <2>2. e \in Allocated(tree') \ {tree'.root} /\ \E d \in Dirs : GetChild(tree', e, d) = None
    BY <1>1, <1>6
  <2>3. Color(tree', e) = Color(tree, e)
    BY <1>6
  <2> QED
    BY <1>1, <1>2, <2>1, <2>2, <2>3 DEF Stage
<1>11. Reds(tree', None, lack)
  BY <1>6 DEF Reds, Color
<1>12. IInv'
  BY <1>1, <1>5, <1>6, <1>7, <1>8, <1>10, <1>11 DEF IInv
<1>13. Entries(tree', e, Content')
  BY <1>1, <1>6, <1>7, ContentIs, ContentIsOf
<1>14. Content' = [Content EXCEPT ![k] = None]
  <2>1. \A m \in Allocated(tree), q \in Allocated(tree) : Key(tree, m) = Key(tree, q) => m = q
    BY <1>2, <1>7, KeysDiffer
  <2>2. \A m \in Allocated(tree') \ {e} : Key(tree', m) # k
    BY <1>3, <1>6, <2>1
  <2>3. \A m \in Allocated(tree') \ {e} : \E q \in Allocated(tree) \ {None} :
          Key(tree, q) = Key(tree', m) /\ Val(tree, q) = Val(tree', m)
    BY <1>6, <1>7
  <2>4. \A q \in Allocated(tree) \ {None} : Key(tree, q) = k \/
          \E m \in Allocated(tree') \ {e} : Key(tree', m) = Key(tree, q)
    BY <1>3, <1>6
  <2> QED
    BY <1>2, <1>13, <2>2, <2>3, <2>4, OneGone
<1> QED
  BY <1>1, <1>3, <1>12, <1>14

LEMMA LacksIs ==
  ASSUME IInv, pc = "PreDeletionFix"
  PROVE  Lacks(tree, problem, doomed) /\ Shape(tree, doomed) /\ Valued(tree)
<1>1. Low = None /\ Lack = problem
  BY DEF Low, Lack
<1> QED
  BY <1>1 DEF IInv, Stage, Lacks

LEMMA PreDeletionFixKeeps ==
  ASSUME IInv, PreDeletionFix
  PROVE  IInv' /\ Content' = Content /\ ret' = ret
<1> DEFINE s == DeletionRound(tree, problem).t
           q == DeletionRound(tree, problem).at
           x == doomed
<1>1. pc = "PreDeletionFix" /\ problem # tree.root /\ Color(tree, problem) = "BLACK" /\ doomed' = doomed /\ ret' = ret
  BY DEF PreDeletionFix, Lacking
<1>2. Lacks(tree, problem, x) /\ Shape(tree, x) /\ Valued(tree)
  BY <1>1, LacksIs
<1>3. GetSibling(tree, problem) # None /\ Kept(s, tree, x) /\ Lacks(s, q, x)
  BY <1>1, <1>2, DeletionRoundKeeps
<1>4. tree' = s /\ problem' = q /\ pc' = pc
  BY <1>3 DEF PreDeletionFix
<1> HIDE DEF s, q
<1>5. Valued(s) /\ ContentOf(s, x) = ContentOf(tree, x)
  BY <1>2, <1>3, KeptContent
<1>6. Low' = None /\ Lack' = q
  BY <1>1, <1>4 DEF Low, Lack
<1>7. Stage'
  BY <1>1, <1>3, <1>4 DEF Stage, Lacks
<1>8. IInv'
  BY <1>1, <1>3, <1>4, <1>5, <1>6, <1>7 DEF IInv, Lacks
<1> QED
  BY <1>1, <1>4, <1>5, <1>8, ContentIsOf

LEMMA PreDeletionFixEndsKeeps ==
  ASSUME IInv, PreDeletionFixEnds
  PROVE  IInv' /\ Content' = Content /\ ret' = ret
<1> DEFINE s == Paint(tree, problem, "BLACK")
           x == doomed
<1>1. /\ pc = "PreDeletionFix" /\ (problem = tree.root \/ Color(tree, problem) # "BLACK") /\ doomed' = doomed /\ ret' = ret
      /\ tree' = s /\ pc' = "unlink" /\ problem' = None
  BY DEF PreDeletionFixEnds, Lacking
<1>2. Lacks(tree, problem, x) /\ Shape(tree, x) /\ Valued(tree)
  BY <1>1, LacksIs
<1>3. Kept(s, tree, x) /\ Sound(s, x) /\ x \in Allocated(s) \ {s.root} /\ \E d \in Dirs : GetChild(s, x, d) = None
  BY <1>1, <1>2, DeletionFixEnds
<1> HIDE DEF s
<1>4. Valued(s) /\ ContentOf(s, x) = ContentOf(tree, x)
  BY <1>2, <1>3, KeptContent
<1>5. Low' = None /\ Lack' = None
  BY <1>1 DEF Low, Lack
<1>6. Stage'
  BY <1>1, <1>3 DEF Stage, Sound
<1>7. IInv'
  BY <1>1, <1>3, <1>4, <1>5, <1>6 DEF IInv, Sound
<1> QED
  BY <1>1, <1>4, <1>7, ContentIsOf

LEMMA UnlinkKeeps ==
  ASSUME IInv, Unlink
  PROVE  IInv' /\ ret' = ret /\ (Content' = Content \/ ChildLost)
<1>1. /\ pc = "unlink" /\ tree' = Destroy(Unlinked(tree, doomed), doomed) /\ pc' = "idle" /\ doomed' = None
      /\ problem' = problem /\ ret' = ret
  BY DEF Unlink
<1>2. /\ Low = None /\ Lack = None /\ problem = None /\ doomed \in Allocated(tree) /\ doomed # tree.root
      /\ \E d \in Dirs : GetChild(tree, doomed, d) = None
      /\ Color(tree, tree.root) = "BLACK"
  BY <1>1 DEF IInv, Stage, Low, Lack
<1>3. PICK d \in Dirs : GetChild(tree, doomed, d) = None
  BY <1>2
<1> DEFINE c == GetChild(tree, doomed, InvertDir(d))
<1>4. /\ Shape(tree, doomed) /\ Balanced(tree, Weights(tree, None, doomed)) /\ Reds(tree, None, None) /\ Valued(tree)
  BY <1>2 DEF IInv
<1>5. Severed(tree', tree, doomed, c)
  BY <1>1, <1>2, <1>3, <1>4, UnlinkSevers
<1>6. c # None => c \in Allocated(tree) /\ Parent(tree, c) = doomed
  BY <1>2, <1>3, <1>4, RedLeaf
<1>7. InvertDir(d) \in Dirs
  BY DEF InvertDir, Dirs
<1>8. c = GetChild(tree, doomed, InvertDir(d))
  OBVIOUS
<1> HIDE DEF c
<1>9. Sound(tree', None) /\ Valued(tree') /\ Allocated(tree') = Allocated(tree) \ {doomed, c}
      /\ \A m \in Allocated(tree') : Key(tree', m) = Key(tree, m) /\ Val(tree', m) = Val(tree, m)
  BY <1>4, <1>5 DEF Severed, Sound, Valued
<1>10. IInv' /\ Entries(tree', None, Content')
  BY <1>1, <1>2, <1>9, IdleAgain
<1>11. Entries(tree, doomed, Content)
  BY <1>4, ContentIs, ContentIsOf
<1>12. None \notin Allocated(tree) /\ Linked(tree)
  BY <1>4, AllocatedIs DEF Shape
<1>13. CASE c = None
  BY <1>1, <1>9, <1>10, <1>11, <1>12, <1>13, SameContent
<1>14. CASE c # None
  <2> DEFINE k == Key(tree, c)
  <2>1. c \in Allocated(tree) /\ c # doomed
    BY <1>4, <1>6, <1>14, NotOwnParent
  <2>2. k \in Keys
    BY <1>12, <2>1, AllocatedIs
  <2>3. \A m \in Allocated(tree') \ {None} : Key(tree', m) # k
    BY <1>4, <1>9, <2>1, KeysDiffer
  <2>4. Content' = [Content EXCEPT ![k] = None]
    BY <1>9, <1>10, <1>11, <1>12, <2>1, <2>2, <2>3, OneGone
  <2>5. ChildLost
    BY <1>1, <1>7, <1>8, <1>14, <2>4 DEF ChildLost, Dirs, Key
  <2> QED
    BY <1>1, <1>10, <2>5
<1> QED
  BY <1>13, <1>14

LEMMA InitIs ==
  ASSUME Init
  PROVE  IInv /\ KV!Init
<1>1. /\ tree = [root |-> None, node |-> [n \in Nodes |-> Unused]]
      /\ pc = "idle" /\ problem = None /\ doomed = None /\ ret = None
  BY DEF Init
<1>2. tree \in Trees /\ tree.root = None /\ \A m \in Nodes : tree.node[m] = Unused
  <2> DEFINE F == [n \in Nodes |-> Unused]
  <2>1. Unused \in Fields
    BY DEF Unused, Fields, Colors, Link
  <2>2. F \in [Nodes -> Fields] /\ \A m \in Nodes : F[m] = Unused
    BY <2>1
  <2>3. None \in Link /\ tree = [root |-> None, node |-> F]
    BY <1>1 DEF Link
  <2> HIDE DEF F
  <2>4. [root |-> None, node |-> F] \in Trees
    BY Zenon, <2>2, <2>3 DEF Trees
  <2>5. tree \in Trees
    BY Zenon, <2>3, <2>4
  <2>6. tree.root = None /\ tree.node = F
    BY <2>3
  <2> QED
    BY <2>2, <2>5, <2>6
<1>3. Sound(tree, None) /\ Allocated(tree) = {}
  BY <1>2, EmptyIsSound
<1>4. Valued(tree) /\ Low = None /\ Lack = None
  BY <1>1, <1>3 DEF Valued, Low, Lack
<1>5. IInv
  BY <1>1, <1>3, <1>4 DEF IInv, Stage, Sound
<1>6. Content = [k \in Keys |-> None]
  BY <1>3 DEF Content
<1> QED
  BY <1>1, <1>5, <1>6 DEF KV!Init

\* A step keeps the invariant, and is one of the map.
LEMMA StepKeeps ==
  ASSUME IInv, Next
  PROVE  IInv' /\ [KV!Next \/ UpdateReturns \/ ChildLost]_<<Content, ret>>
<1> USE DEF Next
<1>1. ASSUME NEW k \in Keys, NEW v \in Values, Insert(k, v)
      PROVE  IInv' /\ KV!Next
  <2>1. /\ IInv' /\ ret' = (Content[k] = None)
        /\ Content' = IF Content[k] = None THEN [Content EXCEPT ![k] = v] ELSE Content
    BY <1>1, InsertKeeps
  <2>2. KV!Insert(k, v)
    BY <2>1 DEF KV!Insert, KV!Has
  <2> QED
    BY <2>1, <2>2 DEF KV!Next
<1>2. ASSUME NEW k \in Keys, NEW v \in Values, Update(k, v)
      PROVE  IInv' /\ UpdateReturns
  BY <1>2, UpdateStepKeeps DEF UpdateReturns, KV!Has
<1>3. ASSUME NEW k \in Keys, Read(k)
      PROVE  IInv' /\ KV!Next
  <2>1. IInv' /\ Content' = Content /\ ret' = Content[k]
    BY <1>3, ReadsKeep
  <2>2. KV!Lookup(k)
    BY <2>1 DEF KV!Lookup
  <2> QED
    BY <2>1, <2>2 DEF KV!Next
<1>4. ASSUME NEW k \in Keys, DeleteAbsent(k)
      PROVE  IInv' /\ KV!Next
  <2>1. IInv' /\ Content' = Content /\ ret' = FALSE /\ Content[k] = None
    BY <1>4, ReadsKeep
  <2>2. Content = [Content EXCEPT ![k] = None]
    BY <2>1 DEF Content
  <2>3. KV!Delete(k)
    BY <2>1, <2>2 DEF KV!Delete, KV!Has
  <2> QED
    BY <2>1, <2>3 DEF KV!Next
<1>5. ASSUME NEW k \in Keys, DeleteLast(k) \/ Delete(k)
      PROVE  IInv' /\ KV!Next
  <2>1. IInv' /\ ret' = TRUE /\ Content[k] # None /\ Content' = [Content EXCEPT ![k] = None]
    BY <1>5, DeleteLastKeeps, DeleteKeeps
  <2>2. KV!Delete(k)
    BY <2>1 DEF KV!Delete, KV!Has
  <2> QED
    BY <2>1, <2>2 DEF KV!Next
<1>6. CASE WalkFromNull
  BY <1>6, WalkFromNullKeeps
<1>7. CASE Round
  <2>1. IInv' /\ ((Content' = Content /\ ret' = ret) \/ ChildLost)
    BY <1>7, PostInsertFixKeeps, InsertReturnsKeeps, PreDeletionFixKeeps, PreDeletionFixEndsKeeps, UnlinkKeeps DEF Round
  <2> QED
    BY <2>1
<1> QED
  BY <1>1, <1>2, <1>3, <1>4, <1>5, <1>6, <1>7

LEMMA StutterKeeps ==
  ASSUME IInv, UNCHANGED vars
  PROVE  IInv' /\ UNCHANGED <<Content, ret>>
BY DEF IInv, vars, Low, Lack, Stage, Content

--------------------------------------------------------------------------------
(* The loops end.                                                                *)

\* IsDepth(d, t): d counts the links up to the root.
IsDepth(d, t) ==
  /\ d \in [Nodes -> Nat]
  /\ \A m \in Nodes : d[m] = IF Parent(t, m) = None THEN 0 ELSE d[Parent(t, m)] + 1

LEMMA UpIsNotRoot ==
  ASSUME NEW t, Linked(t), Allocated(t) \subseteq Nodes, NEW m \in Nodes, Parent(t, m) # None
  PROVE  m \in Allocated(t) /\ m # t.root
<1>1. ASSUME m \notin Allocated(t) PROVE FALSE
  <2>1. t.node[m] = Unused
    BY <1>1 DEF Allocated
  <2>2. Parent(t, m) = None
    BY <2>1 DEF Parent, Unused
  <2> QED
    BY <2>2
<1>2. m # t.root
  BY AllocatedIs DEF Linked
<1> QED
  BY <1>1, <1>2

LEMMA DepthIs ==
  ASSUME NEW t, NEW x, Shape(t, x)
  PROVE  \E d : IsDepth(d, t) /\ \A m : Depth(t, m) = d[m]
<1> DEFINE Is(d) == d = [m \in Nodes |-> IF Parent(t, m) = None THEN 0 ELSE d[Parent(t, m)] + 1]
           d0 == CHOOSE d : Is(d)
           next == [m \in Nodes |-> Parent(t, m)]
           base == [m \in Nodes |-> 0]
           G == [i \in Nat |-> i + 1]
<1>1. Linked(t) /\ Allocated(t) \subseteq Nodes /\ None \notin Nodes
  BY AllocatedIs DEF Shape
<1>2. PICK B, r : RankedBy(t, B, r)
  BY DEF Shape, Ranked
<1>3. B \in Nat /\ r \in [Nodes -> 0 .. B]
  BY <1>2 DEF RankedBy
<1> DEFINE q == [m \in Nodes |-> B - r[m]]
<1>4. q \in [Nodes -> 0 .. B] /\ next \in [Nodes -> Link]
  BY <1>1, <1>3, AllocatedIs
<1>5. ASSUME NEW m \in Nodes, next[m] # None PROVE q[next[m]] < q[m]
  <2> DEFINE p == Parent(t, m)
  <2>0. p # None
    BY <1>5 DEF next
  <2>1. m \in Allocated(t) /\ m # t.root
    BY <1>1, <2>0, UpIsNotRoot DEF p
  <2>2. p \in Nodes /\ \E e \in Dirs : GetChild(t, p, e) = m
    BY <1>1, <2>1 DEF Linked
  <2>3. r[m] < r[p]
    BY <1>1, <1>2, <2>2 DEF RankedBy
  <2> HIDE DEF p
  <2>4. q[p] < q[m]
    BY <1>3, <2>2, <2>3
  <2> QED
    BY <2>4 DEF p
<1> HIDE DEF q
<1>6. base \in [Nodes -> Nat] /\ G \in [Nat -> Nat]
  OBVIOUS
<1> HIDE DEF base, G, next
<1>7. PICK f \in [Nodes -> Nat] : Follows(f, next, base, G, q, B + 1)
  BY <1>3, <1>4, <1>5, <1>6, AlongExists
<1>8. ASSUME NEW m \in Nodes PROVE f[m] = IF Parent(t, m) = None THEN 0 ELSE f[Parent(t, m)] + 1
  <2>1. f[m] = IF next[m] = None THEN base[m] ELSE G[f[next[m]]]
    BY <1>3, <1>4, <1>7 DEF Follows
  <2>2. next[m] = Parent(t, m) /\ base[m] = 0 /\ \A i \in Nat : G[i] = i + 1
    BY DEF next, base, G
  <2>3. Parent(t, m) # None => Parent(t, m) \in Nodes
    BY <1>1, AllocatedIs DEF Link
  <2>4. Parent(t, m) # None => f[Parent(t, m)] \in Nat
    BY <2>3
  <2> QED
    BY <2>1, <2>2, <2>4
<1>9. Is(f)
  BY <1>8
<1>10. \A m : Depth(t, m) = d0[m]
  BY DEF Depth
<1> HIDE DEF Is
<1>11. Is(d0)
  BY <1>9
<1> HIDE DEF d0
<1>12. ASSUME NEW d, Is(d) PROVE \A m \in Nodes : d[m] = IF Parent(t, m) = None THEN 0 ELSE d[Parent(t, m)] + 1
  BY <1>12 DEF Is
<1>13. DOMAIN d0 = Nodes /\ d0 = [m \in Nodes |-> d0[m]]
  BY <1>11 DEF Is
<1>14. \A m \in Nodes : d0[m] = f[m]
  <2> DEFINE Q == {m \in Nodes : d0[m] = f[m]}
  <2>1. ASSUME NEW m \in Nodes, \A p \in Nodes : r[m] < r[p] => p \in Q PROVE m \in Q
    <3>1. CASE Parent(t, m) = None
      BY <1>8, <1>11, <1>12, <3>1
    <3>2. CASE Parent(t, m) # None
      <4>1. Parent(t, m) \in Nodes /\ q[Parent(t, m)] < q[m]
        BY <1>1, <1>5, <3>2, AllocatedIs DEF Link, next
      <4>2. r[m] < r[Parent(t, m)]
        BY <1>3, <4>1 DEF q
      <4>3. d0[Parent(t, m)] = f[Parent(t, m)]
        BY <2>1, <4>1, <4>2
      <4> QED
        BY <1>8, <1>11, <1>12, <3>2, <4>3
    <3> QED
      BY <3>1, <3>2
  <2> HIDE DEF Q
  <2>2. \A m \in Nodes : m \in Q
    BY <1>3, <2>1, Upwards
  <2> QED
    BY <2>2 DEF Q
<1>15. IsDepth(d0, t)
  BY <1>11, <1>12, <1>13, <1>14 DEF IsDepth
<1> QED
  BY <1>10, <1>15

\* Where the links up from a node are the same, its depth is.
LEMMA SameDepth ==
  ASSUME NEW t, NEW s, NEW x, Shape(t, x), Shape(s, x), NEW B, NEW r, RankedBy(t, B, r), NEW i \in Int,
         \A m \in Nodes : i <= r[m] => Parent(s, m) = Parent(t, m)
  PROVE  \A m \in Nodes : i <= r[m] => Depth(s, m) = Depth(t, m)
<1> DEFINE Q == {m \in Nodes : i <= r[m] => Depth(s, m) = Depth(t, m)}
<1>1. Linked(t) /\ Allocated(t) \subseteq Nodes /\ None \notin Nodes
  BY AllocatedIs DEF Shape
<1>2. B \in Nat /\ r \in [Nodes -> 0 .. B]
  BY DEF RankedBy
<1>3. PICK d : IsDepth(d, t) /\ \A m : Depth(t, m) = d[m]
  BY DepthIs
<1>4. PICK f : IsDepth(f, s) /\ \A m : Depth(s, m) = f[m]
  BY DepthIs
<1>5. ASSUME NEW m \in Nodes, \A p \in Nodes : r[m] < r[p] => p \in Q PROVE m \in Q
  <2> SUFFICES ASSUME i <= r[m] PROVE f[m] = d[m]
    BY <1>3, <1>4
  <2> DEFINE p == Parent(t, m)
  <2>1. Parent(s, m) = p
    OBVIOUS
  <2>2. CASE p = None
    BY <1>3, <1>4, <2>1, <2>2 DEF IsDepth
  <2>3. CASE p # None
    <3>1. m \in Allocated(t) /\ m # t.root
      BY <1>1, <2>3, UpIsNotRoot DEF p
    <3>2. p \in Nodes /\ \E e \in Dirs : GetChild(t, p, e) = m
      BY <1>1, <3>1 DEF Linked
    <3>3. r[m] < r[p]
      BY <1>1, <3>2 DEF RankedBy
    <3>4. i <= r[p]
      BY <1>2, <3>2, <3>3
    <3>5. f[p] = d[p]
      BY <1>3, <1>4, <1>5, <3>2, <3>3, <3>4
    <3> QED
      BY <1>3, <1>4, <2>1, <2>3, <3>5 DEF IsDepth
  <2> QED
    BY <2>2, <2>3
<1> HIDE DEF Q
<1>6. \A m \in Nodes : m \in Q
  BY <1>2, <1>5, Upwards
<1> QED
  BY <1>6 DEF Q

LEMMA DepthBelow ==
  ASSUME NEW t, NEW x, Shape(t, x), NEW n \in Nodes
  PROVE  /\ Depth(t, n) \in Nat
         /\ Parent(t, n) # None => Parent(t, n) \in Nodes /\ Depth(t, n) = Depth(t, Parent(t, n)) + 1
<1>1. PICK d : IsDepth(d, t) /\ \A m : Depth(t, m) = d[m]
  BY DepthIs
<1>2. Parent(t, n) \in Link
  BY AllocatedIs DEF Shape
<1> QED
  BY <1>1, <1>2 DEF IsDepth, Link

LEMMA RankUp ==
  ASSUME NEW t, Linked(t), NEW B, NEW r, RankedBy(t, B, r), NEW m \in Nodes, Parent(t, m) # None
  PROVE  Parent(t, m) \in Nodes /\ r[m] < r[Parent(t, m)]
<1>1. Allocated(t) \subseteq Nodes /\ None \notin Nodes
  BY AllocatedIs
<1>2. m \in Allocated(t) /\ m # t.root
  BY <1>1, UpIsNotRoot
<1>3. PICK e \in Dirs : Parent(t, m) \in Nodes /\ GetChild(t, Parent(t, m), e) = m
  BY <1>1, <1>2 DEF Linked
<1> QED
  BY <1>1, <1>3 DEF RankedBy

LEMMA SameLinksUp ==
  ASSUME NEW t, NEW s, NEW x, Shape(t, x), Shape(s, x), \A m \in Nodes : Parent(s, m) = Parent(t, m)
  PROVE  \A m \in Nodes : Depth(s, m) = Depth(t, m)
<1>1. PICK B, r : RankedBy(t, B, r)
  BY DEF Shape, Ranked
<1>2. \A m \in Nodes : 0 <= r[m]
  BY <1>1 DEF RankedBy
<1>3. \A m \in Nodes : 0 <= r[m] => Parent(s, m) = Parent(t, m)
  OBVIOUS
<1>4. \A m \in Nodes : 0 <= r[m] => Depth(s, m) = Depth(t, m)
  BY <1>1, <1>3, SameDepth
<1> QED
  BY <1>2, <1>4

\* Left, of the tree t with the problem node p.
InsertLeft(t, p) ==
  IF Parent(t, p) # None /\ Color(t, Parent(t, p)) = "RED" THEN Depth(t, p) ELSE 0
Within(t, p) ==
  IF Color(t, GetSibling(t, p)) = "RED" THEN 3
  ELSE IF Color(t, OuterNephew(t, p)) = "BLACK" /\ Color(t, InnerNephew(t, p)) = "RED" THEN 2 ELSE 1
DeletionLeft(t, p) ==
  IF p # t.root /\ Color(t, p) = "BLACK"
  THEN Within(t, p) + (IF Color(t, Parent(t, p)) = "RED" THEN 0 ELSE 4 * Depth(t, p))
  ELSE 0

LEMMA InsertRoundLeft ==
  ASSUME NEW t, Shape(t, None), Balanced(t, Weights(t, None, None)),
         NEW p \in Allocated(t), Reds(t, p, None), Placed(t, p),
         Parent(t, p) # None, Color(t, Parent(t, p)) = "RED"
  PROVE  InsertLeft(InsertRound(t, p).t, InsertRound(t, p).at) < InsertLeft(t, p)
<1> DEFINE s == InsertRound(t, p).t
           q == InsertRound(t, p).at
           P == Parent(t, p)
           G == Parent(t, P)
<1>1. Linked(t) /\ Allocated(t) \subseteq Nodes /\ None \notin Nodes
  BY AllocatedIs DEF Shape
<1>2. InsertFixed(s, t, q) /\ Climbs(s, q, t, p)
  BY InsertRoundFixes
<1> SUFFICES InsertLeft(s, q) < InsertLeft(t, p)
  OBVIOUS
<1> HIDE DEF s, q
<1>3. P \in Allocated(t) /\ P # t.root /\ G \in Allocated(t)
  <2>1. p # t.root
    BY <1>1 DEF Linked
  <2>2. P \in Allocated(t) /\ Color(t, t.root) = "BLACK"
    BY <1>1, <2>1 DEF Linked, Placed
  <2>3. P # t.root
    BY <2>2
  <2> QED
    BY <1>1, <2>2, <2>3 DEF Linked
<1>4. Depth(t, p) = Depth(t, P) + 1 /\ Depth(t, P) = Depth(t, G) + 1 /\ Depth(t, G) \in Nat
  <2>1. G # None /\ G \in Nodes /\ P \in Nodes /\ p \in Nodes
    BY <1>1, <1>3
  <2> QED
    BY <2>1, DepthBelow
<1>5. InsertLeft(t, p) = Depth(t, p)
  BY DEF InsertLeft
<1>6. CASE Color(s, Parent(s, q)) = "BLACK"
  <2>1. InsertLeft(s, q) = 0
    BY <1>6 DEF InsertLeft
  <2> QED
    BY <1>4, <1>5, <2>1
<1>7. CASE q = G /\ \A m \in Nodes : Parent(s, m) = Parent(t, m)
  <2>1. Shape(s, None)
    BY <1>2 DEF InsertFixed, Kept
  <2>2. Depth(s, G) = Depth(t, G)
    BY <1>1, <1>3, <1>7, <2>1, SameLinksUp
  <2>3. InsertLeft(s, q) = 0 \/ InsertLeft(s, q) = Depth(t, G)
    BY <1>7, <2>2 DEF InsertLeft
  <2> QED
    BY <1>4, <1>5, <2>3
<1> QED
  BY <1>2, <1>6, <1>7 DEF Climbs

LEMMA WithinIs ==
  ASSUME NEW t, NEW p
  PROVE  Within(t, p) \in 1 .. 3
BY DEF Within

LEMMA DeletionRoundLeft ==
  ASSUME NEW t, NEW p, NEW x, Lacks(t, p, x), p # t.root, Color(t, p) = "BLACK"
  PROVE  DeletionLeft(DeletionRound(t, p).t, DeletionRound(t, p).at) < DeletionLeft(t, p)
<1> DEFINE s == DeletionRound(t, p).t
           q == DeletionRound(t, p).at
           up == Parent(t, p)
           sib == GetSibling(t, p)
           inn == InnerNephew(t, p)
           out == OuterNephew(t, p)
<1>1. /\ Shape(t, x) /\ Linked(t) /\ Allocated(t) \subseteq Nodes /\ None \notin Nodes
      /\ p \in Nodes
  BY AllocatedIs DEF Shape, Lacks
<1>2. Kept(s, t, x) /\ Nearer(s, q, t, p)
  BY DeletionRoundKeeps
<1>3. Around(t, p, x, up, sib) /\ sib # None
  BY AroundIs
<1>4. inn # None => inn \in Allocated(t) /\ Parent(t, inn) = sib
  BY NephewsAre
<1> SUFFICES DeletionLeft(s, q) < DeletionLeft(t, p)
  OBVIOUS
<1> HIDE DEF s, q, inn, out, sib
<1>5. Shape(s, x) /\ up \in Nodes /\ up # None /\ sib \in Nodes /\ Parent(t, sib) = up /\ Color(t, up) \in Colors
  BY <1>1, <1>2, <1>3, WeightIs DEF Kept, Around
<1>6. Depth(t, p) = Depth(t, up) + 1 /\ Depth(t, up) \in Nat
  BY <1>1, <1>5, DepthBelow
<1>7. DeletionLeft(t, p) = Within(t, p) + (IF Color(t, up) = "RED" THEN 0 ELSE 4 * Depth(t, p))
  BY DEF DeletionLeft
<1> HIDE DEF up
<1>8. Within(t, p) \in 1 .. 3 /\ Within(s, q) \in 1 .. 3
  BY WithinIs
<1>9. CASE q = s.root
  <2>1. DeletionLeft(s, q) = 0
    BY <1>9 DEF DeletionLeft
  <2> QED
    BY <1>6, <1>7, <1>8, <2>1
<1>10. CASE LackUp(s, q, t, p)
  <2>1. q = up /\ Color(s, up) = Color(t, up) /\ \A m \in Nodes : Parent(s, m) = Parent(t, m)
    BY <1>10 DEF LackUp, up
  <2>2. Depth(s, up) = Depth(t, up)
    BY <1>1, <1>5, <2>1, SameLinksUp
  <2>3. CASE Color(t, up) = "RED"
    <3>1. DeletionLeft(s, q) = 0
      BY <2>1, <2>3 DEF DeletionLeft
    <3> QED
      BY <1>6, <1>7, <1>8, <3>1
  <2>4. CASE Color(t, up) # "RED"
    <3>1. \/ DeletionLeft(s, q) = 0 \/ DeletionLeft(s, q) = Within(s, q) + 0
          \/ DeletionLeft(s, q) = Within(s, q) + 4 * Depth(t, up)
      BY <2>1, <2>2 DEF DeletionLeft
    <3> QED
      BY <1>6, <1>7, <1>8, <2>4, <3>1
  <2> QED
    BY <2>3, <2>4
<1>11. CASE RedAbove(s, q, t, p) /\ Color(t, sib) = "RED"
  <2>1. q = p /\ Color(t, up) = "BLACK" /\ Color(s, Parent(s, p)) = "RED"
    BY <1>11 DEF RedAbove, up
  <2>2. DeletionLeft(s, q) = 0 \/ DeletionLeft(s, q) = Within(s, q) + 0
    BY <2>1 DEF DeletionLeft
  <2> QED
    BY <1>6, <1>7, <1>8, <2>1, <2>2
<1>12. CASE RedOutside(s, q, t, p) /\ Color(t, sib) = "BLACK" /\ Color(t, out) = "BLACK" /\ Color(t, inn) = "RED"
  <2>1. /\ q = p /\ Parent(s, p) = up /\ Color(s, up) = Color(t, up)
        /\ Color(s, GetSibling(s, p)) = "BLACK" /\ Color(s, OuterNephew(s, p)) = "RED"
        /\ \A m \in Nodes : Parent(s, m) = Parent(t, m) \/ m = sib \/ Parent(t, m) = sib \/ Parent(t, m) = inn
    BY <1>12 DEF RedOutside, up, sib, inn
  <2>2. Within(t, p) = 2
    BY <1>12 DEF Within, sib, out, inn
  <2>3. Within(s, q) = 1
    BY <2>1 DEF Within
  <2>4. PICK B, r : RankedBy(t, B, r)
    BY <1>1 DEF Shape, Ranked
  <2>5. inn \in Nodes /\ Parent(t, inn) = sib
    BY <1>1, <1>4, <1>12 DEF Color
  <2>6. r[inn] < r[sib] /\ r[sib] < r[up]
    BY <1>1, <1>3, <1>5, <2>4, <2>5, RankUp
  <2>7. \A m \in Nodes : r[m] \in Int
    BY <2>4 DEF RankedBy
  <2>8. ASSUME NEW m \in Nodes, r[up] <= r[m] PROVE Parent(s, m) = Parent(t, m)
    <3>1. m # sib
      BY <1>5, <2>6, <2>7, <2>8
    <3>2. Parent(t, m) # sib
      <4>1. Parent(t, m) # None => r[m] < r[Parent(t, m)]
        BY <1>1, <2>4, RankUp
      <4> QED
        BY <1>3, <1>5, <2>6, <2>7, <2>8, <4>1
    <3>3. Parent(t, m) # inn
      <4>1. Parent(t, m) # None => r[m] < r[Parent(t, m)]
        BY <1>1, <2>4, RankUp
      <4> QED
        BY <1>1, <1>5, <2>5, <2>6, <2>7, <2>8, <4>1
    <3> QED
      BY <2>1, <3>1, <3>2, <3>3
  <2>9. r[up] \in Int
    BY <1>5, <2>7
  <2>10. \A m \in Nodes : r[up] <= r[m] => Parent(s, m) = Parent(t, m)
    BY <2>8
  <2>11. \A m \in Nodes : r[up] <= r[m] => Depth(s, m) = Depth(t, m)
    BY <1>1, <1>5, <2>4, <2>9, <2>10, SameDepth
  <2>12. Depth(s, up) = Depth(t, up)
    BY <1>5, <2>9, <2>11
  <2>13. Depth(s, p) = Depth(s, up) + 1
    BY <1>1, <1>5, <2>1, DepthBelow
  <2>14. \/ DeletionLeft(s, q) = 0
         \/ DeletionLeft(s, q) = 1 + (IF Color(t, up) = "RED" THEN 0 ELSE 4 * Depth(t, p))
    BY <1>6, <2>1, <2>3, <2>12, <2>13 DEF DeletionLeft
  <2> QED
    BY <1>6, <1>7, <2>2, <2>14
<1> QED
  BY <1>2, <1>9, <1>10, <1>11, <1>12 DEF Nearer, sib, inn, out

LEMMA LeftIs ==
  /\ pc = "PostInsertFix" => Left = InsertLeft(tree, problem)
  /\ pc = "PreDeletionFix" => Left = DeletionLeft(tree, problem)
BY DEF Left, DoubleRed, Lacking, InsertLeft, DeletionLeft, Within

LEMMA LeftIsNext ==
  /\ pc' = "PostInsertFix" => Left' = InsertLeft(tree', problem')
  /\ pc' = "PreDeletionFix" => Left' = DeletionLeft(tree', problem')
BY DEF Left, DoubleRed, Lacking, InsertLeft, DeletionLeft, Within

LEMMA LeftIsNatural ==
  ASSUME IInv
  PROVE  Left \in Nat
<1>1. CASE pc = "PostInsertFix" \/ pc = "PreDeletionFix"
  <2>1. Shape(tree, doomed) /\ problem \in Nodes
    BY <1>1, AllocatedIs DEF IInv, Stage, Shape
  <2>2. Depth(tree, problem) \in Nat
    BY <2>1, DepthBelow
  <2>3. InsertLeft(tree, problem) \in Nat
    BY <2>2 DEF InsertLeft
  <2>4. DeletionLeft(tree, problem) \in Nat
    BY <2>2, WithinIs DEF DeletionLeft
  <2> QED
    BY <1>1, <2>3, <2>4, LeftIs
<1>2. CASE ~(pc = "PostInsertFix" \/ pc = "PreDeletionFix")
  BY <1>2 DEF Left
<1> QED
  BY <1>1, <1>2

LEMMA RoundNearsEnd ==
  ASSUME IInv, Next, pc # "idle", pc' = pc
  PROVE  Left' < Left
<1>1. PostInsertFix \/ PreDeletionFix
  BY DEF Next, Round, WalkFromNull, CanWalk, Idle, InsertReturns, PreDeletionFixEnds, Unlink,
         Read, DeleteAbsent, DeleteLast, Delete, Insert, Update
<1>2. CASE PostInsertFix
  <2> DEFINE s == InsertRound(tree, problem).t
             q == InsertRound(tree, problem).at
  <2>1. /\ pc = "PostInsertFix" /\ pc' = "PostInsertFix" /\ tree' = s /\ problem' = q
        /\ Parent(tree, problem) # None /\ Color(tree, Parent(tree, problem)) = "RED"
    BY <1>2 DEF PostInsertFix, DoubleRed
  <2>2. doomed = None /\ Low = problem /\ Lack = None
    BY <2>1 DEF IInv, Stage, Low, Lack
  <2>3. /\ Shape(tree, None) /\ Balanced(tree, Weights(tree, None, None)) /\ problem \in Allocated(tree)
        /\ Reds(tree, problem, None) /\ Placed(tree, problem)
    BY <2>1, <2>2 DEF IInv, Stage, Placed
  <2>4. InsertLeft(s, q) < InsertLeft(tree, problem)
    BY <2>1, <2>3, InsertRoundLeft
  <2> HIDE DEF s, q
  <2> QED
    BY <2>1, <2>4, LeftIs, LeftIsNext
<1>3. CASE PreDeletionFix
  <2> DEFINE s == DeletionRound(tree, problem).t
             q == DeletionRound(tree, problem).at
  <2>1. pc = "PreDeletionFix" /\ pc' = "PreDeletionFix" /\ problem # tree.root /\ Color(tree, problem) = "BLACK"
    BY <1>3 DEF PreDeletionFix, Lacking
  <2>2. Lacks(tree, problem, doomed)
    BY <2>1, LacksIs
  <2>3. GetSibling(tree, problem) # None
    BY <2>1, <2>2, DeletionRoundKeeps
  <2>4. tree' = s /\ problem' = q
    BY <1>3, <2>3 DEF PreDeletionFix
  <2>5. DeletionLeft(s, q) < DeletionLeft(tree, problem)
    BY <2>1, <2>2, DeletionRoundLeft
  <2> HIDE DEF s, q
  <2> QED
    BY <2>1, <2>4, <2>5, LeftIs, LeftIsNext
<1> QED
  BY <1>1, <1>2, <1>3

--------------------------------------------------------------------------------
(* The theorems.                                                                 *)

\* Through every round of Insert and Delete the tree keeps its shape, its balance
\* but for what the running loop makes up for, and red nodes apart but at the
\* place the loop is at; and PreDeletionFix never looks for a sibling that is not
\* there (PostInsertFix, PreDeletionFix, Rotate and Delete, rb_tree.h).
THEOREM Invariant == Spec => []IInv
<1>1. Init => IInv
  BY InitIs
<1>2. IInv /\ [Next]_vars => IInv'
  BY StepKeeps, StutterKeeps
<1> QED
  BY <1>1, <1>2, PTL DEF Spec

\* A search for a key ends at its node between any two rounds, and the parent
\* links are the inverse of the child links (Rotate and Transplant, rb_tree.h).
THEOREM StaysSearchTree == Spec => []SearchTree
<1>1. IInv => SearchTree
  BY ShapeIsSearchTree DEF IInv
<1> QED
  BY <1>1, Invariant, PTL

\* Every path from a node down crosses as many black nodes, red nodes are apart,
\* and the root is black when no repair runs: what the comments on PostInsertFix
\* and PreDeletionFix say of their loops.
THEOREM StaysRedBlack == Spec => []RedBlack
<1>1. IInv => RedBlack
  BY IInvIsRedBlack
<1> QED
  BY <1>1, Invariant, PTL

\* The tree implements the map from keys to values, with Update, but for the key
\* that the destructor of an unlinked node takes along (Delete, rb_tree.h).
THEOREM Refines == Spec => IsAMap
<1>1. Init => KV!Init
  BY InitIs
<1>2. IInv /\ [Next]_vars => [KV!Next \/ UpdateReturns \/ ChildLost]_<<Content, ret>>
  BY StepKeeps, StutterKeeps
<1> QED
  BY <1>1, <1>2, Invariant, PTL DEF Spec, IsAMap

\* Every round of a repair brings its loop nearer to the end: PostInsertFix goes two
\* nodes up or is done; PreDeletionFix moves the lack up, or makes its case one that
\* is dealt with in fewer rounds (rb_tree.h:329).
THEOREM RoundsProgress == Spec => LoopsEnd
<1>1. IInv /\ [Next]_vars => [pc # "idle" /\ pc' = pc => Left' < Left]_vars
  BY RoundNearsEnd
<1> QED
  BY <1>1, Invariant, PTL DEF Spec, LoopsEnd

\* What the rounds lower cannot be lowered for ever: it is a natural number in every
\* state, so that no call of Insert or Delete runs on (PostInsertFix and
\* PreDeletionFix, rb_tree.h).
THEOREM RoundsAreFinite == Spec => [](Left \in Nat)
<1>1. IInv => Left \in Nat
  BY LeftIsNatural
<1> QED
  BY <1>1, Invariant, PTL

================================================================================
