-------------------------------- MODULE MCKHeap --------------------------------
EXTENDS KHeap
================================================================================
