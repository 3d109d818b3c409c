------------------------------- MODULE MCHashMap -------------------------------
(* Four keys, three of which start at slot 14: the last of fifteen, the first of *)
(* seven and the last of three. Two of them have the same seven low bits.        *)
EXTENDS HashMap

CONSTANTS k1, k2, k3, k4, MaxCapacity

MCHash == [k \in Keys |-> CASE k = k1 -> 14 * 128 + 5
                            [] k = k2 -> 14 * 128 + 5
                            [] k = k3 -> 14 * 128 + 9
                            [] k = k4 -> 7]

\* The table of the greatest capacity is explored until it is full.
Bound == capacity <= MaxCapacity

================================================================================
