-------------------------------- MODULE MCRbTree --------------------------------
EXTENDS RbTree

CONSTANTS NumKeys, Core, Marked

MCKeys == 1 .. NumKeys
MCNodes == 1 .. NumKeys

\* A tree without the addresses of its nodes, which nothing but a comparison of
\* pointers looks at: the node to delete and the one whose key it has given away
\* are the only two with the same key.
Name(n) == IF n = None THEN None ELSE <<tree.node[n].key, n = doomed>>
Addressless ==
  <<{<<Name(n), tree.node[n].val, tree.node[n].color, Name(tree.node[n].left),
       Name(tree.node[n].right), Name(tree.node[n].parent)>> : n \in Allocated(tree)},
    Name(tree.root), num_keys, pc, Name(problem), Name(doomed), ret>>
\* No code looks at a value, so one value on one key shows where values go.
OneMarked == \A n \in Allocated(tree) \ {doomed} :
  tree.node[n].val = Marked => tree.node[n].key = 3

\* Any tree of the keys up to Core; beyond them, trees that hold all the keys up to
\* some key. It takes ten keys to build the tree of seven black nodes in which a
\* lack moves up twice.
Present == {tree.node[n].key : n \in Allocated(tree)}
LargeTreesDense ==
  pc = "idle" => \A k \in Present : k > Core => 1 .. k \subseteq Present
================================================================================
