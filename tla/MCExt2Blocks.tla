------------------------------ MODULE MCExt2Blocks ------------------------------
EXTENDS Ext2Blocks

\* A volume with one file, "a", of a block, behind three blocks of metadata; "b" is an
\* inode that is not in use.
MCFiles == {1, 2}
MCInitBits == 0 .. 3
MCInitDisk == [b \in Blocks |-> [x \in InBlock |-> IF b = 4 THEN Stray ELSE 0]]
MCInitInode ==
  [f \in Files |->
    IF f = 1 THEN [size |-> P, links |-> 1, blocks |-> 2,
                   block |-> [i \in 0 .. D + 2 |-> IF i = 0 THEN 4 ELSE 0]]
    ELSE NoInode]
================================================================================
