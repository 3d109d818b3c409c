------------------------------- MODULE MCDiskCache ------------------------------
EXTENDS DiskCache, TLC

\* The contents of sectors are only compared and moved.
ValueSymmetry == Permutations(Values)
================================================================================
