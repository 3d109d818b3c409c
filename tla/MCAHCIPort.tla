------------------------------- MODULE MCAHCIPort -------------------------------
EXTENDS AHCIPort

MCInfo == -1
================================================================================
