------------------------------ MODULE AddressSpace ------------------------------
(* What PageMap promises: each map object is a partial function from virtual to  *)
(* physical pages, of its own. No table, frame or level is visible here.         *)
CONSTANTS Maps, VPages, PPages, None, Zero

VARIABLE space   \* [Maps -> [VPages -> PPages or None], or None for no object]

Init == space = [m \in Maps |-> None]

Create(m) == space[m] = None /\ space' = [space EXCEPT ![m] = [v \in VPages |-> None]]

Map(m, v, p) == space' = [space EXCEPT ![m][v] = p]

Unmap(m, v) == space' = [space EXCEPT ![m][v] = None]

\* A page that is not there arrives as the physical page zero.
Move(m, v, w) ==
  LET p == IF space[m][v] = None THEN Zero ELSE space[m][v]
  IN  space' = [space EXCEPT ![m] = [[@ EXCEPT ![v] = None] EXCEPT ![w] = p]]

Copy(m, n) == m # n /\ space' = [space EXCEPT ![m] = space[n]]

Destroy(m) == space' = [space EXCEPT ![m] = None]

Live == {m \in Maps : space[m] # None}

Next ==
  \/ \E m \in Maps : Create(m)
  \/ \E m \in Live :
       \/ Destroy(m)
       \/ \E v \in VPages : Unmap(m, v) \/ \E p \in PPages : Map(m, v, p)
       \/ \E v, w \in VPages : Move(m, v, w)
  \/ \E m \in Maps, n \in Live : Copy(m, n)

Spec == Init /\ [][Next]_space

================================================================================
