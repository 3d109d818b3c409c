--------------------------------- MODULE LRUCache -------------------------------
(* ds::LRUCache (ds/cache.h): a doubly linked list of entries, the most recently *)
(* used one first, and a hash map from keys to entries.                          *)
(*                                                                               *)
(* A cache is a value [mru, lru, entries, prev, next]. An entry is named by its  *)
(* key, as there is one for a key: the clients insert a key after they have      *)
(* looked for it in vain. entries is the set of keys in the hash map; its        *)
(* cardinality is num_entries_. A name outside of it is a pointer to memory that *)
(* has been freed.                                                               *)
EXTENDS Integers, Sequences, FiniteSets

CONSTANTS Keys, None

ASSUME LRUCacheAssumption == IsFiniteSet(Keys) /\ None \notin Keys

EmptyCache == [mru |-> None, lru |-> None, entries |-> {},
               prev |-> [k \in Keys |-> None], next |-> [k \in Keys |-> None]]

NumEntries(c) == Cardinality(c.entries)

\* Insert writes to the entry in front of which it puts the new one. Evict does not
\* reset mru_: once it has taken out the last entry, that one is gone.
InsertStrays(c) == c.mru # None /\ c.mru \notin c.entries

Insert(c, k) ==
  [mru     |-> k,
   lru     |-> IF c.lru = None THEN k ELSE c.lru,
   entries |-> c.entries \union {k},
   prev    |-> [x \in Keys |-> IF x = c.mru THEN k ELSE IF x = k THEN None ELSE c.prev[x]],
   next    |-> [c.next EXCEPT ![k] = c.mru]]

\* Mutant of Lookup: the oldest entry stays the oldest when it is used.
LookupKeepsLru(c, k) ==
  LET p == c.prev[k]
      n == c.next[k]
      front == IF k = c.mru THEN n ELSE c.mru
  IN  [c EXCEPT !.mru = k,
                !.prev = [x \in Keys |-> IF x = k THEN None
                                         ELSE IF x = front THEN k
                                         ELSE IF x = n THEN p ELSE c.prev[x]],
                !.next = [x \in Keys |-> IF x = k THEN front ELSE IF x = p THEN n ELSE c.next[x]]]

\* What Lookup makes of the list when it finds k: k comes to the front.
Lookup(c, k) ==
  LET p == c.prev[k]
      n == c.next[k]
      front == IF k = c.mru THEN n ELSE c.mru
  IN  [c EXCEPT !.mru = k,
                !.lru = IF NumEntries(c) > 1 /\ c.lru = k THEN p ELSE @,
                !.prev = [x \in Keys |-> IF x = k THEN None
                                         ELSE IF x = front THEN k
                                         ELSE IF x = n THEN p ELSE c.prev[x]],
                !.next = [x \in Keys |-> IF x = k THEN front ELSE IF x = p THEN n ELSE c.next[x]]]

\* One round of Evict, without the eviction handler; it takes out lru_.
Evict(c) ==
  LET rest == c.prev[c.lru]
  IN  [c EXCEPT !.lru = rest,
                !.entries = @ \ {c.lru},
                !.next = [x \in Keys |-> IF x = rest THEN None ELSE c.next[x]]]

\* The links of the cache are those of the list s, and the hash map has its keys. Of an
\* empty list mru_ says nothing.
IsList(c, s) ==
  /\ {s[i] : i \in 1 .. Len(s)} = c.entries
  /\ \A i, j \in 1 .. Len(s) : s[i] = s[j] => i = j
  /\ s # <<>> => c.mru = s[1]
  /\ c.lru = IF s = <<>> THEN None ELSE s[Len(s)]
  /\ \A i \in 1 .. Len(s) :
       /\ c.prev[s[i]] = IF i = 1 THEN None ELSE s[i - 1]
       /\ c.next[s[i]] = IF i = Len(s) THEN None ELSE s[i + 1]

================================================================================
