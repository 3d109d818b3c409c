--------------------------------- MODULE MCVFS ---------------------------------
(* A mount of four inodes: the root, a directory d in it, a file with two names  *)
(* in d, and one that is free. The pins of an inode, the entries and the mounts  *)
(* are bounded: three pins are two handles on the file, the second of which      *)
(* takes two. A directory is allowed one pin less.                               *)
EXTENDS VFS, TLC

CONSTANTS MaxPins, MaxEntries, MaxMounts

MCPaths == {<<"d">>, <<"d", "f">>, <<"d", "n">>}
MCInitEntries ==
  [i \in Inos |-> CASE i = RootIno -> <<[name |-> "d", ino |-> 3]>>
                    [] i = 3       -> <<[name |-> "f", ino |-> 4],
                                       [name |-> "n", ino |-> 4]>>
                    [] OTHER       -> <<>>]

Bound == /\ num_pins[4] <= MaxPins /\ \A i \in Inos \ {4} : num_pins[i] < MaxPins
         /\ Len(entries[2]) + Len(entries[3]) <= MaxEntries
         /\ \A o \in Objs : num_mnts[o] <= MaxMounts

VNodeSymmetry == Permutations(Objs) \union Permutations(Handles)

================================================================================
