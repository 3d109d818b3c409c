-------------------------------- MODULE DiskCommand -----------------------------
(* What SATAPort::DiskReadWrite (sys/sata_port.cpp) comes to for its callers,    *)
(* whatever the controller and the device do meanwhile. AHCIPort is checked to    *)
(* have no other outcomes; DiskCache is built on them.                           *)
EXTENDS Integers

CONSTANT MaxLba   \* max_lba_: the disk has the sectors 0 .. MaxLba - 1

ASSUME DiskCommandAssumption == MaxLba \in Nat \ {0}

OnDisk == 0 .. MaxLba - 1

\* A command on n sectors from a on, when errored says whether an error bit was set
\* before. done are the sectors that were transferred, ok is what is returned, errored
\* whether an error bit is set afterwards. Only the first address is compared with
\* max_lba_; the device refuses what it does not have. Error bits are never cleared: once
\* one is set, every command is reported as failed, done or not.
DiskReadWriteOutcomes(errored, a, n) ==
  LET s == a .. a + n - 1
  IN  IF a > MaxLba THEN {[done |-> {}, ok |-> FALSE, errored |-> errored]}
      ELSE {[done |-> t, ok |-> FALSE, errored |-> TRUE] : t \in SUBSET (s \intersect OnDisk)}
           \union (IF errored \/ ~(s \subseteq OnDisk) THEN {}
                   ELSE {[done |-> s, ok |-> TRUE, errored |-> FALSE]})

================================================================================
