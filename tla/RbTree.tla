--------------------------------- MODULE RbTree ---------------------------------
(* ds::RbTree (ds/rb_tree.h), the red-black tree. Insert hangs a red leaf into   *)
(* the tree and repairs the colours afterwards; Delete picks a node at the       *)
(* bottom, repairs the colours as if it were gone, and unlinks it. A repair is a *)
(* loop, and one round of it is one step.                                        *)
(*                                                                               *)
(* A tree is a value [root, node]; node maps every node to its fields, or to     *)
(* Unused. The names of the two child fields are the two directions.             *)
EXTENDS Integers, FiniteSets

CONSTANTS
  Keys, Values,
  Nodes,        \* the memory nodes are allocated in
  MaxNumKeys,   \* bound on num_keys_, which may count keys that are gone
  None          \* nullptr, and ds::NullOpt

ASSUME RbTreeAssumption ==
  /\ Keys \subseteq Int /\ MaxNumKeys \in Nat
  /\ None \notin Nodes \union Keys /\ None \notin Values \union BOOLEAN

VARIABLES
  tree,       \* root_ and the nodes
  num_keys,   \* num_keys_
  pc,         \* "idle"; in the loop of "PostInsertFix" or "PreDeletionFix"; about
              \* to "unlink"; "fault": the call read through a null pointer
  problem,    \* problem_node of the running loop
  doomed,     \* node_to_delete of the running Delete
  ret         \* what the last call returned, or the running one will return

vars == <<tree, num_keys, pc, problem, doomed, ret>>

Unused == [key |-> None, val |-> None, color |-> "BLACK",
           left |-> None, right |-> None, parent |-> None]
NewNode(k, v, color, parent) ==
  [Unused EXCEPT !.key = k, !.val = v, !.color = color, !.parent = parent]

Allocated(t) == {n \in Nodes : t.node[n] # Unused}

\* Which of the free nodes new returns makes no difference.
Fresh(t) == CHOOSE n \in Nodes \ Allocated(t) : TRUE

--------------------------------------------------------------------------------
(* Walks over a tree. NIL is black.                                              *)

InvertDir(dir) == IF dir = "left" THEN "right" ELSE "left"

GetChild(t, n, dir) == t.node[n][dir]
Parent(t, n) == t.node[n].parent
Color(t, n) == IF n = None THEN "BLACK" ELSE t.node[n].color
GetDir(t, n) == IF GetChild(t, Parent(t, n), "left") = n THEN "left" ELSE "right"

Angled(t, n) == GetDir(t, Parent(t, n)) # GetDir(t, n)

GetSibling(t, n) == GetChild(t, Parent(t, n), InvertDir(GetDir(t, n)))
GetUncle(t, n) ==
  IF Parent(t, Parent(t, n)) = None THEN None ELSE GetSibling(t, Parent(t, n))
InnerNephew(t, n) == GetChild(t, GetSibling(t, n), GetDir(t, n))
OuterNephew(t, n) == GetChild(t, GetSibling(t, n), InvertDir(GetDir(t, n)))

\* The last node on the way that key k takes from the root: the one that has the
\* key, or the one it would hang under.
Last(t, k) ==
  LET walk[n \in Nodes] ==
        LET down == IF k < t.node[n].key THEN t.node[n].left
                    ELSE IF k > t.node[n].key THEN t.node[n].right ELSE None
        IN  IF down = None THEN n ELSE walk[down]
  IN  walk[t.root]

Find(t, k) == IF t.node[Last(t, k)].key = k THEN Last(t, k) ELSE None

\* Min with "left", Max with "right".
Extreme(t, n, dir) ==
  LET walk[m \in Nodes] == IF t.node[m][dir] = None THEN m ELSE walk[t.node[m][dir]]
  IN  walk[n]

\* What the destructor of n deletes.
Subtree(t, n) ==
  LET below[m \in Nodes \union {None}] ==
        IF m = None THEN {} ELSE {m} \union below[t.node[m].left] \union below[t.node[m].right]
  IN  below[n]

--------------------------------------------------------------------------------
(* Changes to a tree.                                                            *)

Paint(t, n, color) == [t EXCEPT !.node[n].color = color]

\* Mutant of Rotate: the parent of the inner grandchild is not set.
RotateForgetsInner(t, dir, n) ==
  LET opp == InvertDir(dir)
      up  == GetChild(t, n, opp)
      par == Parent(t, n)
  IN  [root |-> IF par = None THEN up ELSE t.root,
       node |-> [x \in Nodes |->
         CASE x = n  -> [t.node[n] EXCEPT ![opp] = GetChild(t, up, dir), !.parent = up]
           [] x = up -> [t.node[up] EXCEPT ![dir] = n, !.parent = par]
           [] x = par -> [t.node[par] EXCEPT ![GetDir(t, n)] = up]
           [] OTHER  -> t.node[x]]]

\* n goes down to the side dir, and its child on the other side comes up.
Rotate(t, dir, n) ==
  LET opp   == InvertDir(dir)
      up    == GetChild(t, n, opp)
      inner == GetChild(t, up, dir)
      par   == Parent(t, n)
  IN  [root |-> IF par = None THEN up ELSE t.root,
       node |-> [x \in Nodes |->
         CASE x = n     -> [t.node[n] EXCEPT ![opp] = inner, !.parent = up]
           [] x = up    -> [t.node[up] EXCEPT ![dir] = n, !.parent = par]
           [] x = inner -> [t.node[inner] EXCEPT !.parent = n]
           [] x = par   -> [t.node[par] EXCEPT ![GetDir(t, n)] = up]
           [] OTHER     -> t.node[x]]]

Leaf(t, n, k, v) ==
  LET new == Fresh(t)
      dir == IF k < t.node[n].key THEN "left" ELSE "right"
  IN  [t EXCEPT !.node = [@ EXCEPT ![new] = NewNode(k, v, "RED", n), ![n][dir] = new]]

\* The node that goes in place of n: its predecessor, else its successor, else n.
BstDelete(t, n) ==
  IF t.node[n].left # None THEN Extreme(t, t.node[n].left, "right")
  ELSE IF t.node[n].right # None THEN Extreme(t, t.node[n].right, "left") ELSE n

\* Mutant of Transplant: the value stays behind.
TransplantKey(t, n, from) == [t EXCEPT !.node[n].key = t.node[from].key]

\* n takes over key and value of the node that goes.
Transplant(t, n, from) ==
  [t EXCEPT !.node[n] = [@ EXCEPT !.key = t.node[from].key, !.val = t.node[from].val]]

Destroy(t, n) ==
  [t EXCEPT !.node = [x \in Nodes |-> IF x \in Subtree(t, n) THEN Unused ELSE @[x]]]

Unlinked(t, n) == [t EXCEPT !.node[Parent(t, n)][GetDir(t, n)] = None]

--------------------------------------------------------------------------------
(* The rounds of the two repairs: the tree and the problem node after one.       *)

\* A red node under a red node.
InsertRound(t, p) ==
  LET gp    == Parent(t, Parent(t, p))
      uncle == GetUncle(t, p)
  IN  IF Color(t, uncle) = "RED"
      THEN [t |-> Paint(Paint(Paint(t, Parent(t, p), "BLACK"), uncle, "BLACK"), gp, "RED"),
            at |-> gp]
      ELSE LET turns    == Angled(t, p)
               straight == IF turns THEN Rotate(t, InvertDir(GetDir(t, p)), Parent(t, p)) ELSE t
               low      == IF turns THEN Parent(t, p) ELSE p
               mid      == Parent(straight, low)
               painted  == Paint(Paint(straight, mid, "BLACK"), gp, "RED")
           IN  [t |-> Rotate(painted, InvertDir(GetDir(painted, mid)), gp), at |-> low]

\* The four cases of PreDeletionFix at the problem node p, whose subtree has one
\* black node too few on every path.

\* Mutant of BlackFamily: the problem node stays where it is.
BlackFamilyStays(t, p) == [t |-> Paint(t, GetSibling(t, p), "RED"), at |-> p]

\* Sibling and nephews are black: the lack moves up to the parent.
BlackFamily(t, p) == [t |-> Paint(t, GetSibling(t, p), "RED"), at |-> Parent(t, p)]

\* Only the inner nephew is red: it becomes the sibling, with a red outer nephew.
RedInnerNephew(t, p) ==
  LET sib     == GetSibling(t, p)
      painted == Paint(Paint(t, sib, "RED"), InnerNephew(t, p), "BLACK")
  IN  [t |-> Rotate(painted, GetDir(t, sib), sib), at |-> p]

\* Mutant of RedOuterNephew: the sibling does not take the colour of the parent.
RedOuterNephewKeepsColor(t, p) ==
  LET painted == Paint(Paint(t, Parent(t, p), "BLACK"), OuterNephew(t, p), "BLACK")
      lifted  == Rotate(painted, GetDir(t, p), Parent(t, p))
  IN  [t |-> lifted, at |-> lifted.root]

\* The parent comes down on the side of p, black, and makes up for the lack; the
\* loop is sent to the root, where it ends.
RedOuterNephew(t, p) ==
  LET heir    == Paint(t, GetSibling(t, p), Color(t, Parent(t, p)))
      painted == Paint(Paint(heir, Parent(t, p), "BLACK"), OuterNephew(t, p), "BLACK")
      lifted  == Rotate(painted, GetDir(t, p), Parent(t, p))
  IN  [t |-> lifted, at |-> lifted.root]

\* The sibling is red: its inner child becomes the sibling.
RedSibling(t, p) ==
  LET painted == Paint(Paint(t, GetSibling(t, p), "BLACK"), Parent(t, p), "RED")
  IN  [t |-> Rotate(painted, GetDir(t, p), Parent(t, p)), at |-> p]

DeletionRound(t, p) ==
  CASE Color(t, GetSibling(t, p)) = "RED"  -> RedSibling(t, p)
    [] Color(t, GetSibling(t, p)) = "BLACK" /\ Color(t, OuterNephew(t, p)) = "RED" ->
         RedOuterNephew(t, p)
    [] Color(t, GetSibling(t, p)) = "BLACK" /\ Color(t, OuterNephew(t, p)) = "BLACK" ->
         IF Color(t, InnerNephew(t, p)) = "RED" THEN RedInnerNephew(t, p) ELSE BlackFamily(t, p)

--------------------------------------------------------------------------------
Init ==
  /\ tree = [root |-> None, node |-> [n \in Nodes |-> Unused]]
  /\ num_keys = 0
  /\ pc = "idle" /\ problem = None /\ doomed = None
  /\ ret = None

Idle == pc = "idle"

\* The first key becomes a black root. Bound: Nodes.
Insert(k, v) ==
  /\ Idle /\ num_keys < MaxNumKeys
  /\ IF tree.root # None /\ Find(tree, k) # None
     THEN ret' = FALSE /\ UNCHANGED <<tree, pc, problem>>
     ELSE /\ Allocated(tree) # Nodes
          /\ tree' = IF tree.root = None
                     THEN [root |-> Fresh(tree),
                           node |-> [tree.node EXCEPT ![Fresh(tree)] = NewNode(k, v, "BLACK", None)]]
                     ELSE Leaf(tree, Last(tree, k), k, v)
          /\ problem' = Fresh(tree)
          /\ pc' = "PostInsertFix"
          /\ ret' = TRUE
  /\ UNCHANGED <<num_keys, doomed>>

DoubleRed == Parent(tree, problem) # None /\ Color(tree, Parent(tree, problem)) = "RED"

PostInsertFix ==
  /\ pc = "PostInsertFix" /\ DoubleRed
  /\ LET r == InsertRound(tree, problem) IN tree' = r.t /\ problem' = r.at
  /\ UNCHANGED <<num_keys, pc, doomed, ret>>

InsertReturns ==
  /\ pc = "PostInsertFix" /\ ~DoubleRed
  /\ tree' = Paint(tree, tree.root, "BLACK")
  /\ num_keys' = num_keys + 1
  /\ pc' = "idle" /\ problem' = None
  /\ UNCHANGED <<doomed, ret>>

\* The three calls that walk from the root of an empty tree.
WalkFromNull ==
  /\ Idle /\ tree.root = None
  /\ pc' = "fault"
  /\ UNCHANGED <<tree, num_keys, problem, doomed, ret>>

CanWalk == Idle /\ tree.root # None

Read(k) ==
  /\ CanWalk
  /\ ret' = IF Find(tree, k) = None THEN None ELSE tree.node[Find(tree, k)].val
  /\ UNCHANGED <<tree, num_keys, pc, problem, doomed>>

Update(k, v) ==
  /\ CanWalk
  /\ ret' = (Find(tree, k) # None)
  /\ tree' = IF Find(tree, k) = None THEN tree ELSE [tree EXCEPT !.node[Find(tree, k)].val = v]
  /\ UNCHANGED <<num_keys, pc, problem, doomed>>

DeleteAbsent(k) ==
  /\ CanWalk /\ Find(tree, k) = None
  /\ ret' = FALSE
  /\ UNCHANGED <<tree, num_keys, pc, problem, doomed>>

DeleteLast(k) ==
  /\ CanWalk /\ Find(tree, k) = tree.root /\ BstDelete(tree, tree.root) = tree.root
  /\ tree' = [Destroy(tree, tree.root) EXCEPT !.root = None]
  /\ num_keys' = num_keys - 1
  /\ ret' = TRUE
  /\ UNCHANGED <<pc, problem, doomed>>

Delete(k) ==
  /\ CanWalk /\ Find(tree, k) # None
  /\ LET n == BstDelete(tree, Find(tree, k)) IN
     /\ n # tree.root
     /\ tree' = Transplant(tree, Find(tree, k), n)
     /\ doomed' = n
     /\ IF Color(tree, n) = "BLACK" THEN pc' = "PreDeletionFix" /\ problem' = n
                                   ELSE pc' = "unlink" /\ UNCHANGED problem
  /\ ret' = TRUE
  /\ UNCHANGED num_keys

Lacking == problem # tree.root /\ Color(tree, problem) = "BLACK"

PreDeletionFix ==
  /\ pc = "PreDeletionFix" /\ Lacking
  /\ IF GetSibling(tree, problem) = None
     THEN pc' = "fault" /\ UNCHANGED <<tree, problem>>
     ELSE /\ LET r == DeletionRound(tree, problem) IN tree' = r.t /\ problem' = r.at
          /\ UNCHANGED pc
  /\ UNCHANGED <<num_keys, doomed, ret>>

PreDeletionFixEnds ==
  /\ pc = "PreDeletionFix" /\ ~Lacking
  /\ tree' = Paint(tree, problem, "BLACK")
  /\ pc' = "unlink" /\ problem' = None
  /\ UNCHANGED <<num_keys, doomed, ret>>

\* The destructor takes the children along.
Unlink ==
  /\ pc = "unlink"
  /\ tree' = Destroy(Unlinked(tree, doomed), doomed)
  /\ num_keys' = num_keys - 1
  /\ pc' = "idle" /\ doomed' = None
  /\ UNCHANGED <<problem, ret>>

Round == PostInsertFix \/ InsertReturns \/ PreDeletionFix \/ PreDeletionFixEnds \/ Unlink

Next ==
  \/ Round
  \/ WalkFromNull
  \/ \E k \in Keys :
       \/ Read(k) \/ DeleteAbsent(k) \/ DeleteLast(k) \/ Delete(k)
       \/ \E v \in Values : Insert(k, v) \/ Update(k, v)

Spec == Init /\ [][Next]_vars

--------------------------------------------------------------------------------
(* Properties.                                                                   *)

ParentsAgree ==
  /\ tree.root # None => Parent(tree, tree.root) = None
  /\ \A n \in Allocated(tree), dir \in {"left", "right"} :
       GetChild(tree, n, dir) # None => Parent(tree, GetChild(tree, n, dir)) = n

EntriesFound == \A n \in Allocated(tree) \ {doomed} : Find(tree, tree.node[n].key) = n

\* Between any two steps, whatever the repair has rotated so far, every node that
\* stays is where a search for its key ends, and the parent links, along which the
\* repairs walk, are the inverse of the child links.
SearchTree == ParentsAgree /\ EntriesFound

\* The number of black nodes below a link, without the node that is to go. The
\* subtree PreDeletionFix is at has one too few, which its loop makes up for.
Height ==
  LET h[m \in Nodes \union {None}] ==
        IF m = None THEN 0
        ELSE h[tree.node[m].left]
             + (IF Color(tree, m) = "BLACK" /\ m # doomed THEN 1 ELSE 0)
             + (IF pc = "PreDeletionFix" /\ m = problem THEN 1 ELSE 0)
  IN  h

HeightsAgree ==
  LET h == Height
  IN  \A n \in Allocated(tree) : h[tree.node[n].left] = h[tree.node[n].right]

\* Red under red only where the running loop is at.
RedsApart ==
  \A n \in Allocated(tree) :
    Color(tree, n) = "RED" /\ Color(tree, Parent(tree, n)) = "RED" =>
      \/ pc = "PostInsertFix" /\ n = problem
      \/ pc = "PreDeletionFix" /\ Parent(tree, n) = problem

\* The red-black properties, as the loops carry them (what the comments on
\* PostInsertFix and PreDeletionFix say of their loops): every path from a node
\* down crosses as many black nodes, once the node to delete is left out; a red
\* node is under a red one only at the problem node; and the root is black when
\* no repair runs.
RedBlack ==
  /\ HeightsAgree
  /\ RedsApart
  /\ pc = "idle" => Color(tree, tree.root) = "BLACK"

Content ==
  [k \in Keys |-> LET at == {n \in Allocated(tree) \ {doomed} : tree.node[n].key = k}
                  IN  IF at = {} THEN None ELSE tree.node[CHOOSE n \in at : TRUE].val]

KV == INSTANCE KeyValueMap WITH content <- Content, NullOpt <- None

UpdateReturns ==
  \E k \in Keys, v \in Values :
    /\ ret' = KV!Has(k)
    /\ Content' = IF KV!Has(k) THEN [Content EXCEPT ![k] = v] ELSE Content

\* The node that Delete unlinks has a child, and the child's key goes with it.
ChildLost ==
  /\ pc = "unlink"
  /\ \E dir \in {"left", "right"} :
       LET child == GetChild(tree, doomed, dir) IN
       /\ child # None
       /\ Content' = [Content EXCEPT ![tree.node[child].key] = None]
  /\ ret' = ret

\* The tree is a map from keys to values (KeyValueMap, with Update): the repairs
\* change nothing of it and each call does what it returns, but for the one key
\* that Delete takes along with a node that is not a leaf.
IsAMap == KV!Init /\ [][KV!Next \/ UpdateReturns \/ ChildLost]_<<Content, ret>>

Depth(t, n) ==
  LET d[m \in Nodes] == IF Parent(t, m) = None THEN 0 ELSE d[Parent(t, m)] + 1
  IN  d[n]

\* What a round has left to do. A red parent makes it the last place the lack gets
\* to; under a black one it may move up, a red sibling being dealt with first and
\* a red inner nephew turned into an outer one.
Left ==
  LET sib    == GetSibling(tree, problem)
      within == IF Color(tree, sib) = "RED" THEN 3
                ELSE IF Color(tree, OuterNephew(tree, problem)) = "BLACK"
                        /\ Color(tree, InnerNephew(tree, problem)) = "RED" THEN 2 ELSE 1
  IN  CASE pc = "PostInsertFix" -> IF DoubleRed THEN Depth(tree, problem) ELSE 0
        [] pc = "PreDeletionFix" ->
             IF ~Lacking THEN 0
             ELSE within + (IF Color(tree, Parent(tree, problem)) = "RED" THEN 0
                            ELSE 4 * Depth(tree, problem))
        [] OTHER -> 0

\* Every round brings its loop nearer to its end ("prevents indefinite looping in
\* case 4", rb_tree.h:329): PostInsertFix climbs towards the root, PreDeletionFix
\* moves the lack up or turns its case into one that ends, so no call runs on.
LoopsEnd == [][pc # "idle" /\ pc' = pc => Left' < Left]_vars

================================================================================
