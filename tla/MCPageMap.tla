-------------------------------- MODULE MCPageMap -------------------------------
EXTENDS PageMap, TLC

\* Nothing tells one free frame from another.
FrameSymmetry == Permutations(Frames)

\* Of what is left in a free frame, only where there is an entry makes a difference,
\* and of a state nothing follows, nothing does.
Observable ==
  IF pc # "ok" THEN pc ELSE
  <<root, used, run,
    [f \in Frames |-> IF f \in used THEN mem[f] ELSE {i \in Slots : mem[f][i] # None}]>>

MCOffsets == {-1, 0, 1}
================================================================================
