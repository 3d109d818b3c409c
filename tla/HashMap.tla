-------------------------------- MODULE HashMap --------------------------------
(* ds::HashMap (ds/hash_map.h): open addressing with linear probing. A slot is  *)
(* EMPTY, DELETED (it once held an entry and probes go past it) or holds the    *)
(* low seven bits of the hash of its key. Every operation but Rehash is one     *)
(* step; Rehash is one step per slot of the old table, and the call that caused *)
(* it returns when it is done.                                                  *)
EXTENDS Integers, FiniteSets

CONSTANTS
  Keys, Values,
  Hash,            \* [Keys -> Nat], hasher::Hash
  InitialSize,     \* initial_size of the constructor
  InvLoadFactor,   \* inv_load_factor of the template
  NullOpt          \* ds::NullOpt

ASSUME HashMapAssumption ==
  /\ Hash \in [Keys -> Nat]
  /\ InitialSize \in Nat \ {0}
  /\ InvLoadFactor \in Nat \ {0, 1}
  /\ NullOpt \notin Keys \union Values \union BOOLEAN

VARIABLES
  capacity,      \* capacity_
  table,         \* mdata_ and map_: [0 .. capacity - 1 -> Slot]
  num_entries,   \* num_entries_
  next,          \* Rehash: the slot of table it moves next; -1 outside Rehash
  new_table,     \* Rehash: new_mdata and new_map
  ret            \* what the last call returned, or the running one will return

vars == <<capacity, table, num_entries, next, new_table, ret>>

EMPTY == -128
DELETED == -2
H1(h) == h \div 128
H2(h) == h % 128

\* What lies in map_ at a slot without an entry is never read.
Vacant(mark) == [mdata |-> mark, key |-> NullOpt, val |-> NullOpt]
Filled(k, v) == [mdata |-> H2(Hash[k]), key |-> k, val |-> v]
Slot == {Vacant(EMPTY), Vacant(DELETED)} \union {Filled(k, v) : k \in Keys, v \in Values}
EmptyTable(size) == [i \in 0 .. size - 1 |-> Vacant(EMPTY)]

Empty(t)   == {i \in DOMAIN t : t[i].mdata = EMPTY}
Deleted(t) == {i \in DOMAIN t : t[i].mdata = DELETED}
Live(t)    == DOMAIN t \ (Empty(t) \union Deleted(t))

--------------------------------------------------------------------------------
(* Probing: from the slot H1 names, one slot after the other, around the end.   *)

Start(k, size) == H1(Hash[k]) % size
Probes(from, to, size) ==
  IF from <= to THEN from .. to ELSE (from .. size - 1) \union (0 .. to)

\* The probe of key k in a table of the given size ends at i, if it is to end at
\* the first slot of S.
EndsAt(k, size, S, i) == i \in S /\ Probes(Start(k, size), i, size) \intersect S = {i}

Matches(k) == {i \in DOMAIN table : table[i].mdata = H2(Hash[k]) /\ table[i].key = k}

\* Mutant of Finds: a deleted slot ends the probe as well.
FindsBefore(k, i) ==
  i \in Matches(k) /\ EndsAt(k, capacity, Matches(k) \union Empty(table) \union Deleted(table), i)

\* Find(k) returns i; it returns -1 if there is none.
Finds(k, i) == i \in Matches(k) /\ EndsAt(k, capacity, Matches(k) \union Empty(table), i)
Found(k) == \E i \in DOMAIN table : Finds(k, i)

\* Mutant of Overloaded: the factor on the wrong side.
OverloadedLate(n) == n > capacity * InvLoadFactor

Overloaded(n) == n > capacity \div InvLoadFactor

NewCapacity == (capacity + 1) * 2 - 1

--------------------------------------------------------------------------------
Init ==
  /\ capacity = InitialSize /\ table = EmptyTable(InitialSize)
  /\ num_entries = 0
  /\ next = -1 /\ new_table = EmptyTable(0)
  /\ ret = NullOpt

Idle == next = -1

\* The first slot that is free or has the key. num_entries_ counts an entry that
\* takes a deleted slot once more.
Insert(k, v) ==
  \E i \in DOMAIN table :
    /\ EndsAt(k, capacity, Matches(k) \union Empty(table) \union Deleted(table), i)
    /\ IF i \in Matches(k)
       THEN ret' = FALSE /\ UNCHANGED <<table, num_entries, next, new_table>>
       ELSE /\ ret' = TRUE
            /\ table' = [table EXCEPT ![i] = Filled(k, v)]
            /\ num_entries' = num_entries + 1
            /\ IF Overloaded(num_entries + 1)
               THEN next' = 0 /\ new_table' = EmptyTable(NewCapacity)
               ELSE UNCHANGED <<next, new_table>>
    /\ UNCHANGED capacity

\* The caches and the pin tables, which also delete, insert a key when Lookup or
\* Contains has not found it; ReadDir and the table of ACPI tables insert without
\* looking, and delete nothing. (Mount does both: a deleted slot ahead of the one
\* that has the key would take a second entry.)
InsertCall(k, v) == Idle /\ (Found(k) => Deleted(table) = {}) /\ Insert(k, v)

Lookup(k) ==
  /\ Idle
  /\ \/ ~Found(k) /\ ret' = NullOpt
     \/ \E i \in DOMAIN table : Finds(k, i) /\ ret' = table[i].val
  /\ UNCHANGED <<capacity, table, num_entries, next, new_table>>

Contains(k) ==
  /\ Idle
  /\ ret' = Found(k)
  /\ UNCHANGED <<capacity, table, num_entries, next, new_table>>

\* operator[] does not test what Find returns; its callers have called Contains.
Assign(k, v) ==
  /\ Idle
  /\ \E i \in DOMAIN table : Finds(k, i) /\ table' = [table EXCEPT ![i] = Filled(k, v)]
  /\ ret' = v
  /\ UNCHANGED <<capacity, num_entries, next, new_table>>

\* Mutant of Delete: the slot is given back as if it had never been used.
DeleteEmpties(k) ==
  /\ Idle
  /\ \E i \in DOMAIN table : Finds(k, i) /\ table' = [table EXCEPT ![i] = Vacant(EMPTY)]
  /\ ret' = TRUE
  /\ UNCHANGED <<capacity, num_entries, next, new_table>>

\* num_entries_ stays, and Len with it.
Delete(k) ==
  /\ Idle
  /\ \/ ~Found(k) /\ ret' = FALSE /\ UNCHANGED table
     \/ /\ \E i \in DOMAIN table :
             Finds(k, i) /\ table' = [table EXCEPT ![i] = Vacant(DELETED)]
        /\ ret' = TRUE
  /\ UNCHANGED <<capacity, num_entries, next, new_table>>

\* The loop of Rehash: an entry moves to the first empty slot.
RehashStep ==
  /\ next \in DOMAIN table
  /\ IF next \in Live(table)
     THEN \E j \in DOMAIN new_table :
            /\ EndsAt(table[next].key, NewCapacity, Empty(new_table), j)
            /\ new_table' = [new_table EXCEPT ![j] = table[next]]
     ELSE UNCHANGED new_table
  /\ next' = next + 1
  /\ UNCHANGED <<capacity, table, num_entries, ret>>

\* Mutant of RehashEnd: capacity_ is left as it was.
RehashEndSameSize ==
  /\ next = capacity
  /\ table' = new_table /\ new_table' = EmptyTable(0) /\ next' = -1
  /\ UNCHANGED <<capacity, num_entries, ret>>

RehashEnd ==
  /\ next = capacity
  /\ capacity' = NewCapacity /\ table' = new_table
  /\ new_table' = EmptyTable(0) /\ next' = -1
  /\ UNCHANGED <<num_entries, ret>>

Next ==
  \/ \E k \in Keys : \/ Lookup(k) \/ Contains(k) \/ Delete(k)
                     \/ \E v \in Values : InsertCall(k, v) \/ Assign(k, v)
  \/ RehashStep
  \/ RehashEnd

Spec == Init /\ [][Next]_vars

--------------------------------------------------------------------------------
(* Properties.                                                                  *)

\* Type invariant: the arrays have capacity_ slots, the new ones those of the
\* capacity to come.
TypeOK ==
  /\ capacity \in Nat \ {0}
  /\ table \in [0 .. capacity - 1 -> Slot]
  /\ num_entries \in Nat
  /\ next \in -1 .. capacity
  /\ new_table \in [0 .. (IF Idle THEN 0 ELSE NewCapacity) - 1 -> Slot]
  /\ ret \in Values \union {NullOpt} \union BOOLEAN

\* Every probe ends, of Find, of Insert and of Rehash: the table it goes through
\* has an empty slot. Deleted slots are never emptied, so it is num_entries_ and
\* Rehash that have to see to it.
ProbesEnd == IF Idle THEN Empty(table) # {} ELSE Empty(new_table) # {}

\* Whatever was inserted and deleted before it, an entry is found by the probe
\* of its key, and there is one entry for a key.
EachEntryFound(t, size) ==
  \A i \in Live(t) :
    /\ Probes(Start(t[i].key, size), i, size) \intersect Empty(t) = {}
    /\ \A j \in Live(t) : t[j].key = t[i].key => j = i

\* The entries of the table, and those Rehash has moved, are all found by Find
\* (its probe goes over deleted slots and stops at an empty one).
EntriesFound ==
  /\ EachEntryFound(table, capacity)
  /\ ~Idle => EachEntryFound(new_table, NewCapacity)

\* The map the slots of a table stand for.
Content(t) ==
  [k \in Keys |->
     IF \E i \in Live(t) : t[i].key = k
     THEN t[CHOOSE i \in Live(t) : t[i].key = k].val
     ELSE NullOpt]

\* To these clients the table is a map: each call returns what it would on a map,
\* Insert refuses a key that is there, and Rehash is not seen.
Map == INSTANCE KeyValueMap WITH content <- Content(table)
IsAMap == Map!Spec

================================================================================
