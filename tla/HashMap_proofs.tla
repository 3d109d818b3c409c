----------------------------- MODULE HashMap_proofs -----------------------------
(* That ds::HashMap is a map to its clients and that its probes end, for every    *)
(* set of keys, every hash function, every initial size and every load factor.    *)
EXTENDS HashMap, FiniteSetTheorems, TLAPS

Tables(size) == [0 .. size - 1 -> Slot]
Occupied(t) == DOMAIN t \ Empty(t)
Stored(t, i, k, v) == [t EXCEPT ![i] = Filled(k, v)]
InsertAbsent(k, v) == Idle /\ ~Found(k) /\ Insert(k, v)
Erased(t, i) == [t EXCEPT ![i] = Vacant(DELETED)]

--------------------------------------------------------------------------------
(* Slots and tables.                                                             *)

\* The seven low bits are neither mark.
LEMMA HashBits == \A k \in Keys : H2(Hash[k]) \in 0..127 /\ H1(Hash[k]) \in Nat
BY HashMapAssumption DEF H1, H2

\* Filled (the three stores at the end of Insert) makes a slot with an entry.
LEMMA FilledSlot ==
  ASSUME NEW k \in Keys, NEW v \in Values
  PROVE  /\ Filled(k, v) \in Slot
         /\ Filled(k, v).mdata \in 0..127 /\ Filled(k, v).mdata = H2(Hash[k])
         /\ Filled(k, v).key = k /\ Filled(k, v).val = v
BY HashBits DEF Filled, Slot

\* A slot without an entry carries its mark.
LEMMA VacantSlot ==
  /\ Vacant(EMPTY) \in Slot /\ Vacant(EMPTY).mdata = EMPTY
  /\ Vacant(DELETED) \in Slot /\ Vacant(DELETED).mdata = DELETED
BY DEF Vacant, Slot

\* The tag of a live slot is that of the key in it.
LEMMA LiveSlot ==
  ASSUME NEW size \in Nat, NEW t \in Tables(size), NEW i \in Live(t)
  PROVE  /\ t[i].key \in Keys /\ t[i].val \in Values
         /\ t[i].mdata = H2(Hash[t[i].key])
         /\ t[i].mdata \in 0..127
         /\ t[i] = Filled(t[i].key, t[i].val)
<1>1. i \in 0 .. size - 1 /\ t[i] \in Slot /\ t[i].mdata # EMPTY /\ t[i].mdata # DELETED
  BY DEF Tables, Live, Empty, Deleted
<1>2. PICK k \in Keys, v \in Values : t[i] = Filled(k, v)
  BY <1>1, VacantSlot DEF Slot
<1> QED BY <1>2, FilledSlot

\* A table the constructor or Rehash has just allocated holds nothing.
LEMMA EmptyTableFacts ==
  ASSUME NEW size \in Nat
  PROVE  /\ EmptyTable(size) \in Tables(size)
         /\ Empty(EmptyTable(size)) = 0 .. size - 1
         /\ Live(EmptyTable(size)) = {} /\ Occupied(EmptyTable(size)) = {}
BY VacantSlot DEF EmptyTable, Tables, Empty, Live, Occupied

\* Storing an entry in a slot without one (Insert and Rehash).
LEMMA StoreEntry ==
  ASSUME NEW size \in Nat, NEW t \in Tables(size), NEW k \in Keys, NEW v \in Values,
         NEW i \in Empty(t) \union Deleted(t),
         NEW u, u = Stored(t, i, k, v)
  PROVE  /\ u \in Tables(size) /\ u[i] = Filled(k, v)
         /\ \A j \in DOMAIN t \ {i} : u[j] = t[j]
         /\ Empty(u) = Empty(t) \ {i}
         /\ Live(u) = Live(t) \union {i} /\ i \notin Live(t)
         /\ Occupied(u) = Occupied(t) \union {i}
<1>1. i \in 0 .. size - 1 /\ DOMAIN t = 0 .. size - 1
  BY DEF Tables, Empty, Deleted
<1>2. u \in Tables(size) /\ u[i] = Filled(k, v) /\ DOMAIN u = DOMAIN t
      /\ \A j \in DOMAIN t \ {i} : u[j] = t[j]
  BY <1>1, FilledSlot DEF Tables, Stored
<1>3. u[i].mdata # EMPTY /\ u[i].mdata # DELETED
  BY <1>2, FilledSlot DEF EMPTY, DELETED
<1>4. Empty(u) = Empty(t) \ {i} /\ Deleted(u) = Deleted(t) \ {i}
  BY <1>1, <1>2, <1>3 DEF Empty, Deleted
<1>5. Live(u) = Live(t) \union {i} /\ i \notin Live(t) /\ Occupied(u) = Occupied(t) \union {i}
  BY <1>1, <1>2, <1>4 DEF Live, Occupied, Empty, Deleted
<1> QED BY <1>2, <1>4, <1>5

\* The slots of a table are finitely many, so the occupied ones are too.
LEMMA OccupiedFinite ==
  ASSUME NEW size \in Nat, NEW t \in Tables(size)
  PROVE  /\ IsFiniteSet(Occupied(t)) /\ Cardinality(Occupied(t)) \in Nat
         /\ Cardinality(Occupied(t)) < size => Empty(t) # {}
<1>1. IsFiniteSet(0 .. size - 1) /\ Cardinality(0 .. size - 1) = size
  BY FS_Interval
<1>2. DOMAIN t = 0 .. size - 1 /\ Occupied(t) \subseteq 0 .. size - 1
  BY DEF Tables, Occupied
<1>3. IsFiniteSet(Occupied(t)) /\ Cardinality(Occupied(t)) \in Nat
  BY <1>1, <1>2, FS_Subset, FS_CardinalityType
<1>4. Empty(t) = {} => Occupied(t) = 0 .. size - 1
  BY <1>2 DEF Occupied
<1> QED BY <1>1, <1>3, <1>4

--------------------------------------------------------------------------------
(* Probes.                                                                       *)

\* A probe that ends at i has looked at i.
LEMMA ProbesEndpoint ==
  ASSUME NEW from \in Nat, NEW to \in Nat, NEW size \in Nat
  PROVE  to \in Probes(from, to, size)
BY DEF Probes

\* H1 names a slot of the table, or one past what a smaller table has.
LEMMA StartType ==
  ASSUME NEW k \in Keys, NEW size \in Nat \ {0}
  PROVE  Start(k, size) \in Nat
BY HashBits DEF Start

\* A new entry for a key that no entry has, in the slot its probe ends at, is
\* found, and so are the others still.
LEMMA StoreFound ==
  ASSUME NEW size \in Nat \ {0}, NEW t \in Tables(size), NEW k \in Keys, NEW v \in Values,
         EachEntryFound(t, size),
         \A j \in Live(t) : t[j].key # k,
         NEW i \in Empty(t) \union Deleted(t),
         Probes(Start(k, size), i, size) \intersect Empty(t) \subseteq {i},
         NEW u, u = Stored(t, i, k, v)
  PROVE  EachEntryFound(u, size)
<1>1. /\ u \in Tables(size) /\ u[i] = Filled(k, v)
      /\ \A j \in DOMAIN t \ {i} : u[j] = t[j]
      /\ Empty(u) = Empty(t) \ {i}
      /\ Live(u) = Live(t) \union {i} /\ i \notin Live(t)
  <2>1. size \in Nat
    OBVIOUS
  <2> QED BY <2>1, StoreEntry
<1>2. \A j \in Live(t) : u[j] = t[j]
  BY <1>1 DEF Live
<1>3. u[i].key = k
  BY <1>1, FilledSlot
<1>4. ASSUME NEW j \in Live(u)
      PROVE  /\ Probes(Start(u[j].key, size), j, size) \intersect Empty(u) = {}
             /\ \A l \in Live(u) : u[l].key = u[j].key => l = j
  <2>1. CASE j = i
    BY <2>1, <1>1, <1>2, <1>3
  <2>2. CASE j # i
    <3>1. j \in Live(t) /\ u[j] = t[j] /\ u[j].key # k
      BY <2>2, <1>1, <1>2
    <3> QED BY <3>1, <1>1, <1>2, <1>3 DEF EachEntryFound
  <2> QED BY <2>1, <2>2
<1> QED BY <1>4 DEF EachEntryFound

\* A slot that Finds accepts holds the key.
LEMMA FindsLive ==
  ASSUME NEW k \in Keys, table \in Tables(capacity), NEW i, Finds(k, i)
  PROVE  i \in Live(table) /\ table[i].key = k
BY HashBits DEF Finds, Matches, Live, Empty, Deleted, EMPTY, DELETED

\* Find misses no entry: a key it does not find is in no live slot.
LEMMA NotFoundAbsent ==
  ASSUME NEW k \in Keys, capacity \in Nat \ {0}, table \in Tables(capacity),
         EachEntryFound(table, capacity), ~Found(k)
  PROVE  \A i \in Live(table) : table[i].key # k
<1> SUFFICES ASSUME NEW i \in Live(table), table[i].key = k PROVE FALSE
  OBVIOUS
<1>1. capacity \in Nat /\ i \in 0 .. capacity - 1 /\ i \in DOMAIN table /\ i \notin Empty(table)
  BY DEF Live, Tables
<1>2. i \in Matches(k)
  BY <1>1, LiveSlot DEF Matches
<1>3. \A j \in Matches(k) : j \in Live(table) /\ table[j].key = table[i].key
  BY HashBits DEF Matches, Live, Empty, Deleted, EMPTY, DELETED
<1>4. Matches(k) = {i}
  BY <1>2, <1>3 DEF EachEntryFound
<1>5. i \in Probes(Start(k, capacity), i, capacity)
  BY <1>1, StartType, ProbesEndpoint
<1>6. Probes(Start(k, capacity), i, capacity) \intersect Empty(table) = {}
  BY DEF EachEntryFound
<1>7. EndsAt(k, capacity, Matches(k) \union Empty(table), i)
  BY <1>4, <1>5, <1>6 DEF EndsAt
<1> QED BY <1>1, <1>2, <1>7 DEF Found, Finds

--------------------------------------------------------------------------------
(* The map a table stands for.                                                   *)

\* The value of a key that has an entry is the one in its slot.
LEMMA ContentLive ==
  ASSUME NEW size \in Nat, NEW t \in Tables(size), EachEntryFound(t, size),
         NEW i \in Live(t)
  PROVE  Content(t)[t[i].key] = t[i].val
<1>1. t[i].key \in Keys
  BY LiveSlot
<1>2. (CHOOSE j \in Live(t) : t[j].key = t[i].key) = i
  BY DEF EachEntryFound
<1> QED BY <1>1, <1>2 DEF Content

\* A key without an entry has no value.
LEMMA ContentAbsent ==
  ASSUME NEW t, NEW k \in Keys, \A i \in Live(t) : t[i].key # k
  PROVE  Content(t)[k] = NullOpt
BY DEF Content

\* Content is a partial function.
LEMMA ContentType ==
  ASSUME NEW size \in Nat, NEW t \in Tables(size), EachEntryFound(t, size)
  PROVE  /\ Content(t) \in [Keys -> Values \union {NullOpt}]
         /\ \A k \in Keys : Content(t)[k] # NullOpt <=> \E i \in Live(t) : t[i].key = k
<1>1. ASSUME NEW k \in Keys
      PROVE  /\ Content(t)[k] \in Values \union {NullOpt}
             /\ Content(t)[k] # NullOpt <=> \E i \in Live(t) : t[i].key = k
  <2>1. CASE \E i \in Live(t) : t[i].key = k
    <3>1. PICK i \in Live(t) : t[i].key = k
      BY <2>1
    <3>2. Content(t)[k] = t[i].val /\ t[i].val \in Values
      BY <3>1, ContentLive, LiveSlot
    <3> QED BY <3>1, <3>2, HashMapAssumption
  <2>2. CASE ~ \E i \in Live(t) : t[i].key = k
    BY <2>2, ContentAbsent
  <2> QED BY <2>1, <2>2
<1>2. Content(t) = [k \in Keys |-> Content(t)[k]]
  BY DEF Content
<1> QED BY <1>1, <1>2

\* Two tables with the same entries, wherever they are, stand for the same map.
LEMMA SameEntries ==
  ASSUME NEW m \in Nat, NEW t \in Tables(m), EachEntryFound(t, m),
         NEW n \in Nat, NEW u \in Tables(n), EachEntryFound(u, n),
         \A i \in Live(t) : \E j \in Live(u) : u[j] = t[i],
         \A j \in Live(u) : \E i \in Live(t) : t[i] = u[j]
  PROVE  Content(u) = Content(t)
<1>1. ASSUME NEW k \in Keys PROVE Content(u)[k] = Content(t)[k]
  <2>1. CASE \E i \in Live(t) : t[i].key = k
    <3>1. PICK i \in Live(t) : t[i].key = k
      BY <2>1
    <3>2. PICK j \in Live(u) : u[j] = t[i]
      OBVIOUS
    <3>3. Content(u)[u[j].key] = u[j].val /\ Content(t)[t[i].key] = t[i].val
      BY ContentLive
    <3> QED BY <3>1, <3>2, <3>3
  <2>2. CASE \A i \in Live(t) : t[i].key # k
    <3>1. \A j \in Live(u) : u[j].key # k
      BY <2>2
    <3> QED BY <2>2, <3>1, ContentAbsent
  <2> QED BY <2>1, <2>2
<1>2. Content(u) \in [Keys -> Values \union {NullOpt}]
      /\ Content(t) \in [Keys -> Values \union {NullOpt}]
  BY ContentType
<1> QED BY <1>1, <1>2

--------------------------------------------------------------------------------
(* What Assign and Delete do to a live slot.                                     *)

\* Assignment through operator[] leaves the key and the marks as they were.
LEMMA AssignEntry ==
  ASSUME NEW size \in Nat, NEW t \in Tables(size), NEW k \in Keys, NEW v \in Values,
         NEW i \in Live(t), t[i].key = k,
         EachEntryFound(t, size),
         NEW u, u = Stored(t, i, k, v)
  PROVE  /\ u \in Tables(size) /\ u[i] = Filled(k, v)
         /\ \A j \in Live(t) \ {i} : u[j] = t[j]
         /\ Live(u) = Live(t) /\ Occupied(u) = Occupied(t)
         /\ EachEntryFound(u, size)
<1>1. i \in 0 .. size - 1 /\ DOMAIN t = 0 .. size - 1 /\ Live(t) \subseteq DOMAIN t
  BY DEF Tables, Live
<1>2. u \in Tables(size) /\ u[i] = Filled(k, v) /\ DOMAIN u = DOMAIN t
      /\ \A j \in DOMAIN t \ {i} : u[j] = t[j]
  BY <1>1, FilledSlot DEF Tables, Stored
<1>3. u[i].mdata = t[i].mdata /\ u[i].key = t[i].key
  BY <1>2, LiveSlot, FilledSlot
<1>4. \A j \in DOMAIN t : u[j].mdata = t[j].mdata /\ u[j].key = t[j].key
  BY <1>1, <1>2, <1>3
<1>5. Empty(u) = Empty(t) /\ Deleted(u) = Deleted(t)
  BY <1>2, <1>4 DEF Empty, Deleted
<1>6. Live(u) = Live(t) /\ Occupied(u) = Occupied(t)
  BY <1>2, <1>5 DEF Live, Occupied
<1>7. EachEntryFound(u, size)
  BY <1>1, <1>4, <1>5, <1>6 DEF EachEntryFound
<1> QED BY <1>1, <1>2, <1>6, <1>7

\* Delete marks the slot DELETED, and no probe stops there that did not before.
LEMMA DeleteEntry ==
  ASSUME NEW size \in Nat, NEW t \in Tables(size), NEW i \in Live(t),
         EachEntryFound(t, size),
         NEW u, u = Erased(t, i)
  PROVE  /\ u \in Tables(size)
         /\ \A j \in Live(u) : u[j] = t[j]
         /\ Live(u) = Live(t) \ {i} /\ Occupied(u) = Occupied(t)
         /\ EachEntryFound(u, size)
<1>1. i \in 0 .. size - 1 /\ DOMAIN t = 0 .. size - 1 /\ i \notin Empty(t) /\ i \notin Deleted(t)
  BY DEF Tables, Live
<1>2. u \in Tables(size) /\ DOMAIN u = DOMAIN t /\ u[i] = Vacant(DELETED)
      /\ \A j \in DOMAIN t \ {i} : u[j] = t[j]
  BY <1>1, VacantSlot DEF Tables, Erased
<1>3. u[i].mdata = DELETED /\ DELETED # EMPTY
  BY <1>2, VacantSlot DEF EMPTY, DELETED
<1>4. Empty(u) = Empty(t) /\ Deleted(u) = Deleted(t) \union {i}
  BY <1>1, <1>2, <1>3 DEF Empty, Deleted
<1>5. Live(u) = Live(t) \ {i} /\ Occupied(u) = Occupied(t)
  BY <1>2, <1>4 DEF Live, Occupied
<1>6. \A j \in Live(u) : u[j] = t[j]
  BY <1>2, <1>5 DEF Live
<1>7. EachEntryFound(u, size)
  BY <1>4, <1>5, <1>6 DEF EachEntryFound
<1> QED BY <1>2, <1>5, <1>6, <1>7

\* Insert and operator[] change the value of their key and of no other.
LEMMA ContentStored ==
  ASSUME NEW size \in Nat, NEW t \in Tables(size), NEW u \in Tables(size),
         EachEntryFound(t, size), EachEntryFound(u, size),
         NEW k \in Keys, NEW v \in Values, NEW i,
         Live(u) = Live(t) \union {i}, u[i] = Filled(k, v),
         i \in Live(t) => t[i].key = k,
         \A j \in Live(t) \ {i} : u[j] = t[j]
  PROVE  Content(u) = [Content(t) EXCEPT ![k] = v]
<1>1. u[i].key = k /\ u[i].val = v
  BY FilledSlot
<1>2. Content(u)[k] = v
  BY <1>1, ContentLive
<1>3. ASSUME NEW m \in Keys \ {k} PROVE Content(u)[m] = Content(t)[m]
  <2>1. CASE \E j \in Live(t) : t[j].key = m
    <3>1. PICK j \in Live(t) : t[j].key = m
      BY <2>1
    <3>2. j \in Live(u) /\ u[j] = t[j]
      BY <3>1
    <3>3. Content(t)[t[j].key] = t[j].val /\ Content(u)[u[j].key] = u[j].val
      BY <3>2, ContentLive
    <3> QED BY <3>1, <3>2, <3>3
  <2>2. CASE \A j \in Live(t) : t[j].key # m
    <3>1. \A j \in Live(u) : u[j].key # m
      BY <1>1, <2>2
    <3> QED BY <2>2, <3>1, ContentAbsent
  <2> QED BY <2>1, <2>2
<1>4. Content(u) \in [Keys -> Values \union {NullOpt}]
      /\ Content(t) \in [Keys -> Values \union {NullOpt}]
  BY ContentType
<1> QED BY <1>2, <1>3, <1>4

\* Delete takes the value of its key away.
LEMMA ContentDeleted ==
  ASSUME NEW size \in Nat, NEW t \in Tables(size), NEW u \in Tables(size),
         EachEntryFound(t, size), EachEntryFound(u, size),
         NEW i \in Live(t), NEW k \in Keys, t[i].key = k,
         Live(u) = Live(t) \ {i},
         \A j \in Live(u) : u[j] = t[j]
  PROVE  Content(u) = [Content(t) EXCEPT ![k] = NullOpt]
<1>1. \A j \in Live(u) : u[j].key # k
  BY DEF EachEntryFound
<1>2. Content(u)[k] = NullOpt
  BY <1>1, ContentAbsent
<1>3. ASSUME NEW m \in Keys \ {k} PROVE Content(u)[m] = Content(t)[m]
  <2>1. CASE \E j \in Live(t) : t[j].key = m
    <3>1. PICK j \in Live(t) : t[j].key = m
      BY <2>1
    <3>2. j \in Live(u) /\ u[j] = t[j]
      BY <3>1
    <3>3. Content(t)[t[j].key] = t[j].val /\ Content(u)[u[j].key] = u[j].val
      BY <3>2, ContentLive
    <3> QED BY <3>1, <3>2, <3>3
  <2>2. CASE \A j \in Live(t) : t[j].key # m
    <3>1. \A j \in Live(u) : u[j].key # m
      BY <2>2
    <3> QED BY <2>2, <3>1, ContentAbsent
  <2> QED BY <2>1, <2>2
<1>4. Content(u) \in [Keys -> Values \union {NullOpt}]
      /\ Content(t) \in [Keys -> Values \union {NullOpt}]
  BY ContentType
<1> QED BY <1>2, <1>3, <1>4

--------------------------------------------------------------------------------
(* The inductive invariant.                                                      *)

\* num_entries_ bounds the slots that are not empty, and Rehash starts before it
\* reaches the capacity.
Loaded ==
  /\ Cardinality(Occupied(table)) <= num_entries
  /\ num_entries <= capacity /\ (Idle => num_entries < capacity)

MovedSlots == Live(table) \intersect (0 .. next - 1)

\* Rehash has moved the entries of the slots below next, and nothing else.
Moved ==
  ~Idle => /\ \A i \in MovedSlots : \E j \in Live(new_table) : new_table[j] = table[i]
           /\ \A j \in Live(new_table) : \E i \in MovedSlots : table[i] = new_table[j]
           /\ Cardinality(Occupied(new_table)) <= Cardinality(MovedSlots)

IInv == TypeOK /\ EntriesFound /\ Loaded /\ Moved

\* The type invariant, in the words of the lemmas.
LEMMA TypeFacts ==
  ASSUME TypeOK
  PROVE  /\ capacity \in Nat \ {0} /\ capacity \in Nat /\ NewCapacity \in Nat \ {0}
         /\ NewCapacity \in Nat /\ NewCapacity > capacity
         /\ table \in Tables(capacity) /\ DOMAIN table = 0 .. capacity - 1
         /\ Idle => new_table \in Tables(0)
         /\ ~Idle => new_table \in Tables(NewCapacity) /\ next \in 0 .. capacity
BY DEF TypeOK, Tables, NewCapacity, Idle

\* An inserted entry goes to the slot of an absent key: what InsertAbsent does.
LEMMA InsertStores ==
  ASSUME IInv, NEW k \in Keys, NEW v \in Values, InsertAbsent(k, v)
  PROVE  \E i \in Empty(table) \union Deleted(table) :
           /\ table' = Stored(table, i, k, v)
           /\ Probes(Start(k, capacity), i, capacity) \intersect Empty(table) \subseteq {i}
           /\ \A j \in Live(table) : table[j].key # k
           /\ ret' = TRUE /\ num_entries' = num_entries + 1 /\ capacity' = capacity
           /\ IF Overloaded(num_entries + 1)
              THEN next' = 0 /\ new_table' = EmptyTable(NewCapacity)
              ELSE next' = next /\ new_table' = new_table
<1>1. \A j \in Live(table) : table[j].key # k
  BY TypeFacts, NotFoundAbsent DEF IInv, EntriesFound, InsertAbsent
<1>2. Matches(k) = {}
  BY <1>1, HashBits DEF Matches, Live, Empty, Deleted, EMPTY, DELETED
<1>3. PICK i \in DOMAIN table :
        /\ EndsAt(k, capacity, Matches(k) \union Empty(table) \union Deleted(table), i)
        /\ i \notin Matches(k) =>
             /\ ret' = TRUE
             /\ table' = [table EXCEPT ![i] = Filled(k, v)]
             /\ num_entries' = num_entries + 1
             /\ IF Overloaded(num_entries + 1)
                THEN next' = 0 /\ new_table' = EmptyTable(NewCapacity)
                ELSE next' = next /\ new_table' = new_table
        /\ capacity' = capacity
  BY DEF InsertAbsent, Insert
<1>4. i \in Empty(table) \union Deleted(table)
      /\ Probes(Start(k, capacity), i, capacity) \intersect Empty(table) \subseteq {i}
  BY <1>2, <1>3 DEF EndsAt
<1> QED BY <1>1, <1>2, <1>3, <1>4 DEF Stored

\* Two slots of a table: the probe of one goes over the other.
LEMMA ProbesTotal ==
  ASSUME NEW size \in Nat \ {0}, NEW from \in 0 .. size - 1,
         NEW i \in 0 .. size - 1, NEW j \in 0 .. size - 1
  PROVE  i \in Probes(from, j, size) \/ j \in Probes(from, i, size)
BY DEF Probes

\* An Insert of a key that is there comes to its slot and returns false, unless a
\* deleted slot lies before it.
LEMMA InsertSplits ==
  ASSUME IInv, NEW k \in Keys, NEW v \in Values, InsertCall(k, v)
  PROVE  \/ InsertAbsent(k, v)
         \/ /\ Idle /\ Found(k) /\ ret' = FALSE
            /\ UNCHANGED <<capacity, table, num_entries, next, new_table>>
<1>1. CASE ~Found(k)
  BY <1>1 DEF InsertCall, InsertAbsent
<1>2. CASE Found(k)
  <2>1. Idle /\ Deleted(table) = {} /\ Insert(k, v)
    BY <1>2 DEF InsertCall
  <2>2. PICK f \in DOMAIN table : Finds(k, f)
    BY <1>2 DEF Found
  <2>3. PICK i \in DOMAIN table :
          /\ EndsAt(k, capacity, Matches(k) \union Empty(table) \union Deleted(table), i)
          /\ i \in Matches(k) => ret' = FALSE /\ UNCHANGED <<table, num_entries, next, new_table>>
          /\ capacity' = capacity
    BY <2>1 DEF Insert
  <2>4. capacity \in Nat \ {0} /\ DOMAIN table = 0 .. capacity - 1
    BY TypeFacts DEF IInv
  <2>5. Start(k, capacity) \in 0 .. capacity - 1
    BY <2>4, HashBits DEF Start
  <2>6. /\ EndsAt(k, capacity, Matches(k) \union Empty(table), i)
        /\ EndsAt(k, capacity, Matches(k) \union Empty(table), f)
        /\ f \in Matches(k)
    BY <2>1, <2>2, <2>3 DEF Finds, EndsAt
  <2>7. \/ i \in Probes(Start(k, capacity), f, capacity)
        \/ f \in Probes(Start(k, capacity), i, capacity)
    BY <2>4, <2>5, ProbesTotal
  <2>8. i = f
    BY <2>6, <2>7 DEF EndsAt
  <2> QED BY <1>2, <2>1, <2>3, <2>6, <2>8
<1> QED BY <1>1, <1>2

\* A load of a third, or of any integer fraction, leaves room.
LEMMA LoadFactor == \A c \in Nat \ {0} : c \div InvLoadFactor < c
<1> SUFFICES ASSUME NEW c \in Nat \ {0} PROVE c \div InvLoadFactor < c
  OBVIOUS
<1> DEFINE q == c \div InvLoadFactor
<1>1. InvLoadFactor \in Nat /\ InvLoadFactor >= 2
  BY HashMapAssumption
<1>2. q \in Nat /\ InvLoadFactor * q <= c
  BY <1>1
<1>3. 2 * q <= c
  BY <1>1, <1>2
<1>4. c \in Nat /\ c >= 1 /\ c \div InvLoadFactor = q
  OBVIOUS
<1> HIDE DEF q
<1>5. q < c
  BY <1>2, <1>3, <1>4
<1> QED BY <1>4, <1>5

\* The constructor.
LEMMA InitInv == Init => IInv
<1> SUFFICES ASSUME Init PROVE IInv
  OBVIOUS
<1>1. InitialSize \in Nat /\ InitialSize > 0 /\ capacity = InitialSize /\ 0 \in Nat
  BY HashMapAssumption DEF Init
<1>2. /\ table \in Tables(capacity) /\ Live(table) = {} /\ Occupied(table) = {}
      /\ new_table \in Tables(0)
  BY <1>1, EmptyTableFacts DEF Init
<1>3. Cardinality({}) = 0
  BY FS_EmptySet
<1>4. Idle /\ num_entries = 0 /\ next = -1 /\ ret = NullOpt
  BY DEF Init, Idle
<1>5. TypeOK
  BY <1>1, <1>2, <1>4 DEF TypeOK, Tables
<1>6. EntriesFound
  BY <1>2, <1>4 DEF EntriesFound, EachEntryFound
<1> QED BY <1>1, <1>2, <1>3, <1>4, <1>5, <1>6 DEF IInv, Loaded, Moved

\* A call that changes no slot: Lookup, Contains, a Delete that finds nothing.
LEMMA ReadInv ==
  ASSUME IInv, ret' \in Values \union {NullOpt} \union BOOLEAN,
         UNCHANGED <<capacity, table, num_entries, next, new_table>>
  PROVE  IInv'
BY DEF IInv, TypeOK, EntriesFound, EachEntryFound, Loaded, Moved, MovedSlots, Idle,
       NewCapacity, Live, Empty, Deleted, Occupied

\* Insert, and the start of the Rehash it may cause.
LEMMA InsertInv ==
  ASSUME IInv, NEW k \in Keys, NEW v \in Values, InsertAbsent(k, v)
  PROVE  IInv'
<1>1. PICK i \in Empty(table) \union Deleted(table) :
        /\ table' = Stored(table, i, k, v)
        /\ Probes(Start(k, capacity), i, capacity) \intersect Empty(table) \subseteq {i}
        /\ \A j \in Live(table) : table[j].key # k
        /\ ret' = TRUE /\ num_entries' = num_entries + 1 /\ capacity' = capacity
        /\ IF Overloaded(num_entries + 1)
           THEN next' = 0 /\ new_table' = EmptyTable(NewCapacity)
           ELSE next' = next /\ new_table' = new_table
  BY InsertStores
<1>2. /\ capacity \in Nat \ {0} /\ capacity \in Nat /\ table \in Tables(capacity)
      /\ NewCapacity \in Nat /\ EachEntryFound(table, capacity)
      /\ Idle /\ next = -1 /\ new_table \in Tables(0)
      /\ num_entries \in Nat /\ num_entries < capacity
      /\ Cardinality(Occupied(table)) <= num_entries
  BY TypeFacts DEF IInv, EntriesFound, Loaded, InsertAbsent, Idle, TypeOK
<1>3. table' \in Tables(capacity) /\ Occupied(table') = Occupied(table) \union {i}
  BY <1>1, <1>2, StoreEntry
<1>4. EachEntryFound(table', capacity)
  BY <1>1, <1>2, StoreFound
<1>5. Cardinality(Occupied(table')) <= num_entries + 1
  <2>1. IsFiniteSet(Occupied(table)) /\ Cardinality(Occupied(table)) \in Nat
    BY <1>2, OccupiedFinite
  <2>2. \/ Cardinality(Occupied(table')) = Cardinality(Occupied(table))
        \/ Cardinality(Occupied(table')) = Cardinality(Occupied(table)) + 1
    BY <1>3, <2>1, FS_AddElement
  <2> QED BY <1>2, <2>1, <2>2
<1>6. CASE Overloaded(num_entries + 1)
  <2>1. next' = 0 /\ ~Idle' /\ new_table' = EmptyTable(NewCapacity) /\ NewCapacity' = NewCapacity
    BY <1>1, <1>6 DEF Idle, NewCapacity
  <2>2. /\ new_table' \in Tables(NewCapacity) /\ Live(new_table') = {}
        /\ Occupied(new_table') = {}
    BY <1>2, <2>1, EmptyTableFacts
  <2>3. TypeOK'
    BY <1>1, <1>2, <1>3, <2>1, <2>2 DEF TypeOK, Tables
  <2>4. EntriesFound'
    BY <1>1, <1>4, <2>1, <2>2 DEF EntriesFound, EachEntryFound
  <2>5. Loaded'
    BY <1>1, <1>2, <1>5, <2>1 DEF Loaded, Occupied, Empty
  <2>6. MovedSlots' = {}
    BY <2>1 DEF MovedSlots
  <2>7. Cardinality({}) = 0
    BY FS_EmptySet
  <2>8. Moved'
    BY <2>2, <2>6, <2>7 DEF Moved
  <2> QED BY <2>3, <2>4, <2>5, <2>8 DEF IInv
<1>7. CASE ~Overloaded(num_entries + 1)
  <2>1. next' = -1 /\ Idle' /\ new_table' = new_table
    BY <1>1, <1>2, <1>7 DEF Idle
  <2>2. TypeOK'
    BY <1>1, <1>2, <1>3, <2>1 DEF TypeOK, Tables
  <2>3. EntriesFound'
    BY <1>1, <1>4, <2>1 DEF EntriesFound, EachEntryFound, Live, Empty, Deleted
  <2>4. num_entries + 1 < capacity
    <3>1. capacity \div InvLoadFactor < capacity /\ capacity \div InvLoadFactor \in Int
      BY <1>2, LoadFactor, HashMapAssumption
    <3> QED BY <1>2, <1>7, <3>1 DEF Overloaded
  <2>5. Loaded'
    BY <1>1, <1>2, <1>5, <2>1, <2>4 DEF Loaded, Occupied, Empty
  <2>6. Moved'
    BY <2>1 DEF Moved, Idle
  <2> QED BY <2>2, <2>3, <2>5, <2>6 DEF IInv
<1> QED BY <1>6, <1>7

\* The slot Finds names, between calls.
LEMMA FindsFacts ==
  ASSUME IInv, Idle, NEW k \in Keys, NEW i, Finds(k, i)
  PROVE  /\ i \in Live(table) /\ table[i].key = k /\ table[i].val \in Values
         /\ capacity \in Nat /\ table \in Tables(capacity)
         /\ EachEntryFound(table, capacity)
<1>1. capacity \in Nat /\ table \in Tables(capacity) /\ EachEntryFound(table, capacity)
  BY TypeFacts DEF IInv, EntriesFound
<1>2. i \in Live(table) /\ table[i].key = k
  BY <1>1, FindsLive
<1> QED BY <1>1, <1>2, LiveSlot

\* A call that rewrites live slots and leaves the occupied ones alone: Assign and
\* a Delete that finds its key.
LEMMA RewriteInv ==
  ASSUME IInv, Idle, table' \in Tables(capacity), EachEntryFound(table', capacity),
         Occupied(table') = Occupied(table),
         ret' \in Values \union {NullOpt} \union BOOLEAN,
         UNCHANGED <<capacity, num_entries, next, new_table>>
  PROVE  IInv'
<1>1. Idle' /\ next = -1
  BY DEF Idle
<1>2. TypeOK'
  BY <1>1 DEF IInv, TypeOK, Tables, Idle
<1>3. EntriesFound'
  BY <1>1 DEF EntriesFound
<1>4. Loaded'
  BY <1>1 DEF IInv, Loaded
<1>5. Moved'
  BY <1>1 DEF Moved
<1> QED BY <1>2, <1>3, <1>4, <1>5 DEF IInv

\* operator[].
LEMMA AssignInv ==
  ASSUME IInv, NEW k \in Keys, NEW v \in Values, Assign(k, v)
  PROVE  IInv'
<1>1. PICK i \in DOMAIN table : Finds(k, i) /\ table' = Stored(table, i, k, v)
  BY DEF Assign, Stored
<1>2. Idle /\ ret' = v /\ UNCHANGED <<capacity, num_entries, next, new_table>>
  BY DEF Assign
<1>3. /\ i \in Live(table) /\ table[i].key = k
      /\ capacity \in Nat /\ table \in Tables(capacity) /\ EachEntryFound(table, capacity)
  BY <1>1, <1>2, FindsFacts
<1>4. /\ table' \in Tables(capacity) /\ EachEntryFound(table', capacity)
      /\ Occupied(table') = Occupied(table)
  BY <1>1, <1>3, AssignEntry
<1> QED BY <1>2, <1>4, RewriteInv

\* Delete.
LEMMA DeleteInv ==
  ASSUME IInv, NEW k \in Keys, Delete(k)
  PROVE  IInv'
<1>1. Idle /\ UNCHANGED <<capacity, num_entries, next, new_table>>
  BY DEF Delete
<1>2. CASE ret' = FALSE /\ table' = table
  BY <1>1, <1>2, ReadInv
<1>3. CASE /\ \E i \in DOMAIN table :
                Finds(k, i) /\ table' = [table EXCEPT ![i] = Vacant(DELETED)]
           /\ ret' = TRUE
  <2>1. PICK i \in DOMAIN table : Finds(k, i) /\ table' = Erased(table, i)
    BY <1>3 DEF Erased
  <2>2. /\ i \in Live(table) /\ capacity \in Nat /\ table \in Tables(capacity)
        /\ EachEntryFound(table, capacity)
    BY <1>1, <2>1, FindsFacts
  <2>3. /\ table' \in Tables(capacity) /\ EachEntryFound(table', capacity)
        /\ Occupied(table') = Occupied(table)
    BY <2>1, <2>2, DeleteEntry
  <2> QED BY <1>1, <1>3, <2>3, RewriteInv
<1> QED BY <1>2, <1>3 DEF Delete

\* One iteration of the loop of Rehash.
LEMMA RehashStepInv ==
  ASSUME IInv, RehashStep
  PROVE  IInv'
<1>1. /\ capacity \in Nat \ {0} /\ NewCapacity \in Nat \ {0} /\ NewCapacity \in Nat
      /\ table \in Tables(capacity) /\ DOMAIN table = 0 .. capacity - 1
      /\ EachEntryFound(table, capacity)
  BY TypeFacts DEF IInv, EntriesFound
<1>2. /\ next \in 0 .. capacity - 1 /\ next' = next + 1
      /\ UNCHANGED <<capacity, table, num_entries, ret>>
  BY <1>1 DEF RehashStep
<1>3. ~Idle /\ ~Idle' /\ NewCapacity' = NewCapacity /\ next' \in 0 .. capacity
  BY <1>1, <1>2 DEF Idle, NewCapacity
<1>4. new_table \in Tables(NewCapacity) /\ EachEntryFound(new_table, NewCapacity) /\ Moved
  BY <1>3, TypeFacts DEF IInv, EntriesFound
<1>5. \A i \in MovedSlots : i \in Live(table) /\ i # next
  BY <1>2 DEF MovedSlots
<1>6. IsFiniteSet(MovedSlots)
  <2>1. IsFiniteSet(0 .. next - 1) /\ MovedSlots \subseteq 0 .. next - 1
    BY <1>2, FS_Interval DEF MovedSlots
  <2> QED BY <2>1, FS_Subset
<1>7. Loaded'
  BY <1>2, <1>3 DEF IInv, Loaded, Idle, Occupied, Empty
<1>8. CASE next \in Live(table)
  <2>1. PICK j \in DOMAIN new_table :
          /\ EndsAt(table[next].key, NewCapacity, Empty(new_table), j)
          /\ new_table' = [new_table EXCEPT ![j] = table[next]]
    BY <1>8 DEF RehashStep
  <2>2. /\ table[next].key \in Keys /\ table[next].val \in Values
        /\ table[next] = Filled(table[next].key, table[next].val)
    BY <1>1, <1>8, LiveSlot
  <2>3. /\ new_table' = Stored(new_table, j, table[next].key, table[next].val)
        /\ j \in Empty(new_table) \union Deleted(new_table)
        /\ Probes(Start(table[next].key, NewCapacity), j, NewCapacity)
             \intersect Empty(new_table) \subseteq {j}
    BY <2>1, <2>2 DEF Stored, EndsAt
  <2>4. \A l \in Live(new_table) : new_table[l].key # table[next].key
    BY <1>3, <1>4, <1>5, <1>8, <1>1 DEF Moved, EachEntryFound
  <2>5. /\ new_table' \in Tables(NewCapacity) /\ new_table'[j] = table[next]
        /\ \A l \in DOMAIN new_table \ {j} : new_table'[l] = new_table[l]
        /\ Live(new_table') = Live(new_table) \union {j} /\ j \notin Live(new_table)
        /\ Occupied(new_table') = Occupied(new_table) \union {j}
    BY <1>1, <1>4, <2>2, <2>3, StoreEntry
  <2>6. EachEntryFound(new_table', NewCapacity)
    BY <1>1, <1>4, <2>2, <2>3, <2>4, StoreFound
  <2>7. MovedSlots' = MovedSlots \union {next}
    BY <1>2, <1>8 DEF MovedSlots, Live, Empty, Deleted
  <2>8. Cardinality(Occupied(new_table')) <= Cardinality(MovedSlots')
    <3>1. IsFiniteSet(Occupied(new_table)) /\ Cardinality(Occupied(new_table)) \in Nat
      BY <1>1, <1>4, OccupiedFinite
    <3>2. \/ Cardinality(Occupied(new_table')) = Cardinality(Occupied(new_table))
          \/ Cardinality(Occupied(new_table')) = Cardinality(Occupied(new_table)) + 1
      BY <2>5, <3>1, FS_AddElement
    <3>3. Cardinality(MovedSlots') = Cardinality(MovedSlots) + 1
      BY <1>5, <1>6, <2>7, FS_AddElement
    <3>4. Cardinality(MovedSlots) \in Nat
      BY <1>6, FS_CardinalityType
    <3>5. Cardinality(Occupied(new_table)) <= Cardinality(MovedSlots)
      BY <1>3, <1>4 DEF Moved
    <3> QED BY <3>1, <3>2, <3>3, <3>4, <3>5
  <2>9. \A l \in Live(new_table) : new_table'[l] = new_table[l]
    BY <2>5 DEF Live
  <2>10. /\ \A i \in MovedSlots' : \E l \in Live(new_table') : new_table'[l] = table[i]
         /\ \A l \in Live(new_table') : \E i \in MovedSlots' : table[i] = new_table'[l]
    BY <1>3, <1>4, <2>5, <2>7, <2>9 DEF Moved
  <2>11. Moved'
    BY <1>2, <2>8, <2>10 DEF Moved
  <2>12. EntriesFound'
    BY <1>1, <1>2, <1>3, <2>6 DEF EntriesFound
  <2>13. TypeOK'
    BY <1>1, <1>2, <1>3, <2>5 DEF IInv, TypeOK, Tables, Idle
  <2> QED BY <1>7, <2>11, <2>12, <2>13 DEF IInv
<1>9. CASE next \notin Live(table)
  <2>1. new_table' = new_table
    BY <1>9 DEF RehashStep
  <2>2. MovedSlots' = MovedSlots
    BY <1>2, <1>9 DEF MovedSlots, Live, Empty, Deleted
  <2>3. Moved'
    BY <1>2, <1>3, <1>4, <2>1, <2>2 DEF Moved
  <2>4. EntriesFound'
    BY <1>1, <1>2, <1>3, <1>4, <2>1 DEF EntriesFound
  <2>5. TypeOK'
    BY <1>1, <1>2, <1>3, <1>4, <2>1 DEF IInv, TypeOK, Tables, Idle
  <2> QED BY <1>7, <2>3, <2>4, <2>5 DEF IInv
<1> QED BY <1>8, <1>9

\* The end of Rehash: the new arrays replace the old ones.
LEMMA RehashEndInv ==
  ASSUME IInv, RehashEnd
  PROVE  IInv'
<1>1. /\ capacity \in Nat \ {0} /\ NewCapacity \in Nat \ {0} /\ NewCapacity \in Nat
      /\ NewCapacity > capacity /\ table \in Tables(capacity) /\ capacity \in Nat
  BY TypeFacts DEF IInv
<1>2. /\ next = capacity /\ capacity' = NewCapacity /\ table' = new_table
      /\ new_table' = EmptyTable(0) /\ next' = -1 /\ num_entries' = num_entries /\ ret' = ret
  BY DEF RehashEnd
<1>3. ~Idle /\ Idle'
  BY <1>1, <1>2 DEF Idle
<1>4. new_table \in Tables(NewCapacity) /\ EachEntryFound(new_table, NewCapacity)
  BY <1>3, TypeFacts DEF IInv, EntriesFound
<1>5. Cardinality(Occupied(new_table)) <= num_entries
  <2>1. IsFiniteSet(Occupied(table)) /\ Cardinality(Occupied(table)) \in Nat
    BY <1>1, OccupiedFinite
  <2>2. MovedSlots \subseteq Occupied(table)
    BY DEF MovedSlots, Live, Occupied
  <2>3. Cardinality(MovedSlots) <= Cardinality(Occupied(table))
        /\ Cardinality(MovedSlots) \in Nat
    BY <2>1, <2>2, FS_Subset, FS_CardinalityType
  <2>4. Cardinality(Occupied(new_table)) \in Nat
    BY <1>1, <1>4, OccupiedFinite
  <2> QED BY <1>3, <2>1, <2>3, <2>4 DEF IInv, Moved, Loaded, TypeOK
<1>6. num_entries \in Nat /\ num_entries <= capacity /\ ret \in Values \union {NullOpt} \union BOOLEAN
  BY DEF IInv, Loaded, TypeOK
<1>7. 0 \in Nat /\ EmptyTable(0) \in Tables(0)
  BY EmptyTableFacts
<1>8. TypeOK'
  BY <1>1, <1>2, <1>3, <1>4, <1>6, <1>7 DEF TypeOK, Tables
<1>9. EntriesFound'
  BY <1>2, <1>3, <1>4 DEF EntriesFound
<1>10. Loaded'
  BY <1>1, <1>2, <1>5, <1>6 DEF Loaded
<1>11. Moved'
  BY <1>3 DEF Moved
<1> QED BY <1>8, <1>9, <1>10, <1>11 DEF IInv

\* Every operation.
LEMMA NextInv == IInv /\ [Next]_vars => IInv'
<1> SUFFICES ASSUME IInv, [Next]_vars PROVE IInv'
  OBVIOUS
<1>1. ASSUME NEW k \in Keys, Lookup(k) PROVE IInv'
  <2>1. Idle /\ UNCHANGED <<capacity, table, num_entries, next, new_table>>
    BY <1>1 DEF Lookup
  <2>2. ret' \in Values \union {NullOpt}
    BY <1>1, <2>1, FindsFacts DEF Lookup
  <2> QED BY <2>1, <2>2, ReadInv
<1>2. ASSUME NEW k \in Keys, Contains(k) PROVE IInv'
  <2>1. ret' \in BOOLEAN
    BY <1>2 DEF Contains, Found
  <2> QED BY <1>2, <2>1, ReadInv DEF Contains
<1>3. ASSUME NEW k \in Keys, Delete(k) PROVE IInv'
  BY <1>3, DeleteInv
<1>4. ASSUME NEW k \in Keys, NEW v \in Values, InsertCall(k, v) PROVE IInv'
  <2>1. CASE InsertAbsent(k, v)
    BY <2>1, InsertInv
  <2>2. CASE ret' = FALSE /\ UNCHANGED <<capacity, table, num_entries, next, new_table>>
    BY <2>2, ReadInv
  <2> QED BY <1>4, <2>1, <2>2, InsertSplits
<1>5. ASSUME NEW k \in Keys, NEW v \in Values, Assign(k, v) PROVE IInv'
  BY <1>5, AssignInv
<1>6. CASE RehashStep
  BY <1>6, RehashStepInv
<1>7. CASE RehashEnd
  BY <1>7, RehashEndInv
<1>8. CASE UNCHANGED vars
  BY <1>8, ReadInv DEF vars, IInv, TypeOK
<1> QED BY <1>1, <1>2, <1>3, <1>4, <1>5, <1>6, <1>7, <1>8 DEF Next

\* The invariant holds in every state.
THEOREM Invariant == Spec => []IInv
<1> QED BY InitInv, NextInv, PTL DEF Spec

\* capacity_ is the length of the arrays, and every slot is empty, deleted or
\* carries the tag of its key.
THEOREM TypeCorrect == Spec => []TypeOK
<1>1. IInv => TypeOK
  BY DEF IInv
<1> QED BY <1>1, Invariant, PTL

\* No probe of Find, Insert or Rehash goes round and round: the load factor keeps
\* an empty slot in every table, however many keys were deleted.
THEOREM EveryProbeEnds == Spec => []ProbesEnd
<1>1. ASSUME IInv PROVE ProbesEnd
  <2>1. /\ capacity \in Nat /\ NewCapacity \in Nat /\ NewCapacity > capacity
        /\ table \in Tables(capacity) /\ num_entries \in Nat
    BY <1>1, TypeFacts DEF IInv, TypeOK
  <2>2. CASE Idle
    <3>1. Cardinality(Occupied(table)) < capacity
      <4>1. Cardinality(Occupied(table)) \in Nat
        BY <2>1, OccupiedFinite
      <4> QED BY <1>1, <2>1, <2>2, <4>1 DEF IInv, Loaded
    <3> QED BY <2>1, <2>2, <3>1, OccupiedFinite DEF ProbesEnd
  <2>3. CASE ~Idle
    <3>1. new_table \in Tables(NewCapacity) /\ next \in 0 .. capacity
      BY <1>1, <2>3, TypeFacts DEF IInv
    <3>2. IsFiniteSet(0 .. next - 1) /\ Cardinality(0 .. next - 1) = next
      BY <3>1, FS_Interval
    <3>3. Cardinality(MovedSlots) <= next /\ Cardinality(MovedSlots) \in Nat
      BY <3>2, FS_Subset, FS_CardinalityType DEF MovedSlots
    <3>4. Cardinality(Occupied(new_table)) < NewCapacity
      <4>1. Cardinality(Occupied(new_table)) \in Nat
        BY <2>1, <3>1, OccupiedFinite
      <4> QED BY <1>1, <2>1, <2>3, <3>1, <3>3, <4>1 DEF IInv, Moved
    <3> QED BY <2>1, <2>3, <3>1, <3>4, OccupiedFinite DEF ProbesEnd
  <2> QED BY <2>2, <2>3
<1> QED BY <1>1, Invariant, PTL

\* Find reaches every entry from the slot its key hashes to, and a key has one
\* entry, before, during and after a Rehash.
THEOREM EveryEntryFound == Spec => []EntriesFound
<1>1. IInv => EntriesFound
  BY DEF IInv
<1> QED BY <1>1, Invariant, PTL

--------------------------------------------------------------------------------
(* ds::HashMap implements KeyValueMap.                                           *)

\* Between calls, Find succeeds on the keys the map has.
LEMMA FoundIsHas ==
  ASSUME IInv, Idle, NEW k \in Keys
  PROVE  /\ Found(k) <=> Map!Has(k)
         /\ \A i : Finds(k, i) => Content(table)[k] = table[i].val
<1>1. /\ capacity \in Nat \ {0} /\ capacity \in Nat /\ table \in Tables(capacity)
      /\ EachEntryFound(table, capacity)
  BY TypeFacts DEF IInv, EntriesFound
<1>2. \A i : Finds(k, i) => /\ i \in Live(table) /\ table[i].key = k
                           /\ Content(table)[k] = table[i].val
  BY <1>1, FindsFacts, ContentLive
<1>3. Found(k) => Map!Has(k)
  <2>1. Found(k) => \E i \in Live(table) : table[i].key = k
    BY <1>2 DEF Found
  <2> QED BY <1>1, <2>1, ContentType DEF Map!Has
<1>4. ~Found(k) => ~Map!Has(k)
  <2>1. ~Found(k) => \A i \in Live(table) : table[i].key # k
    BY <1>1, NotFoundAbsent
  <2> QED BY <2>1, ContentAbsent DEF Map!Has
<1> QED BY <1>2, <1>3, <1>4

\* An empty table is an empty map.
LEMMA InitMaps == Init => Map!Init
<1> SUFFICES ASSUME Init PROVE Map!Init
  OBVIOUS
<1>1. InitialSize \in Nat
  BY HashMapAssumption
<1>2. Live(table) = {}
  BY <1>1, EmptyTableFacts DEF Init
<1>3. Content(table) = [k \in Keys |-> NullOpt]
  BY <1>2 DEF Content
<1> QED BY <1>3 DEF Init, Map!Init

\* A call that does not touch the slots leaves the map as it was.
LEMMA SameTable == table' = table => Content(table)' = Content(table)
BY DEF Content, Live, Empty, Deleted

\* Lookup and Contains.
LEMMA ReadMaps ==
  ASSUME IInv, NEW k \in Keys
  PROVE  /\ Lookup(k) => Map!Lookup(k)
         /\ Contains(k) => Map!Contains(k)
<1>1. ASSUME Lookup(k) PROVE Map!Lookup(k)
  <2>1. Idle /\ Content(table)' = Content(table)
    BY <1>1, SameTable DEF Lookup
  <2>2. ret' = Content(table)[k]
    BY <1>1, <2>1, FoundIsHas DEF Lookup, Map!Has
  <2> QED BY <2>1, <2>2 DEF Map!Lookup
<1>2. ASSUME Contains(k) PROVE Map!Contains(k)
  <2>1. Idle /\ Content(table)' = Content(table)
    BY <1>2, SameTable DEF Contains
  <2> QED BY <1>2, <2>1, FoundIsHas DEF Contains, Map!Contains, Map!Has, Found
<1> QED BY <1>1, <1>2

\* Insert on a key that is not there.
LEMMA AbsentMaps ==
  ASSUME IInv, NEW k \in Keys, NEW v \in Values, InsertAbsent(k, v)
  PROVE  Map!Insert(k, v)
<1>1. PICK i \in Empty(table) \union Deleted(table) :
        /\ table' = Stored(table, i, k, v)
        /\ Probes(Start(k, capacity), i, capacity) \intersect Empty(table) \subseteq {i}
        /\ \A j \in Live(table) : table[j].key # k
        /\ ret' = TRUE
  BY InsertStores
<1>2. /\ capacity \in Nat \ {0} /\ capacity \in Nat /\ table \in Tables(capacity)
      /\ EachEntryFound(table, capacity)
  BY TypeFacts DEF IInv, EntriesFound
<1>3. EachEntryFound(table', capacity)
  BY <1>1, <1>2, StoreFound
<1>4. /\ table' \in Tables(capacity) /\ table'[i] = Filled(k, v)
      /\ \A j \in DOMAIN table \ {i} : table'[j] = table[j]
      /\ Live(table') = Live(table) \union {i} /\ i \notin Live(table)
  BY <1>1, <1>2, StoreEntry
<1>5. \A j \in Live(table) \ {i} : table'[j] = table[j]
  BY <1>4 DEF Live
<1>6. Content(table') = [Content(table) EXCEPT ![k] = v]
  BY <1>2, <1>3, <1>4, <1>5, ContentStored
<1>7. ~Map!Has(k)
  BY <1>1, ContentAbsent DEF Map!Has
<1> QED BY <1>1, <1>6, <1>7 DEF Map!Insert

\* Insert, with the one that is refused.
LEMMA InsertMaps ==
  ASSUME IInv, NEW k \in Keys, NEW v \in Values, InsertCall(k, v)
  PROVE  Map!Insert(k, v)
<1>1. CASE InsertAbsent(k, v)
  BY <1>1, AbsentMaps
<1>2. CASE /\ Idle /\ Found(k) /\ ret' = FALSE
           /\ UNCHANGED <<capacity, table, num_entries, next, new_table>>
  <2>1. Content(table)' = Content(table)
    BY <1>2, SameTable
  <2>2. Map!Has(k)
    BY <1>2, FoundIsHas
  <2>3. ret' = ~Map!Has(k)
    BY <1>2, <2>2 DEF Map!Has
  <2> QED BY <2>1, <2>2, <2>3 DEF Map!Insert
<1> QED BY <1>1, <1>2, InsertSplits

\* Assignment through operator[].
LEMMA AssignMaps ==
  ASSUME IInv, NEW k \in Keys, NEW v \in Values, Assign(k, v)
  PROVE  Map!Assign(k, v)
<1>1. PICK i \in DOMAIN table : Finds(k, i) /\ table' = Stored(table, i, k, v)
  BY DEF Assign, Stored
<1>2. Idle /\ ret' = v
  BY DEF Assign
<1>3. /\ i \in Live(table) /\ table[i].key = k
      /\ capacity \in Nat /\ table \in Tables(capacity) /\ EachEntryFound(table, capacity)
  BY <1>1, <1>2, FindsFacts
<1>4. /\ table' \in Tables(capacity) /\ EachEntryFound(table', capacity)
      /\ table'[i] = Filled(k, v) /\ Live(table') = Live(table)
      /\ \A j \in Live(table) \ {i} : table'[j] = table[j]
  BY <1>1, <1>3, AssignEntry
<1>5. Live(table') = Live(table) \union {i}
  BY <1>3, <1>4
<1>6. Content(table') = [Content(table) EXCEPT ![k] = v]
  BY <1>3, <1>4, <1>5, ContentStored
<1>7. Map!Has(k)
  BY <1>1, <1>2, FoundIsHas DEF Found
<1> QED BY <1>2, <1>6, <1>7 DEF Map!Assign

\* Delete, of a key that is there and of one that is not.
LEMMA DeleteMaps ==
  ASSUME IInv, NEW k \in Keys, Delete(k)
  PROVE  Map!Delete(k)
<1>1. Idle
  BY DEF Delete
<1>2. /\ capacity \in Nat /\ table \in Tables(capacity) /\ EachEntryFound(table, capacity)
  BY TypeFacts DEF IInv, EntriesFound
<1>3. CASE ~Found(k) /\ ret' = FALSE /\ table' = table
  <2>1. ~Map!Has(k)
    BY <1>1, <1>3, FoundIsHas
  <2>2. Content(table)[k] = NullOpt /\ Content(table) \in [Keys -> Values \union {NullOpt}]
    BY <1>2, <2>1, ContentType DEF Map!Has
  <2>3. Content(table)' = Content(table)
    BY <1>3, SameTable
  <2>4. [Content(table) EXCEPT ![k] = NullOpt] = Content(table)
    BY <2>2
  <2>5. ret' = Map!Has(k)
    BY <1>3, <2>1 DEF Map!Has
  <2> QED BY <2>3, <2>4, <2>5 DEF Map!Delete
<1>4. CASE /\ \E i \in DOMAIN table :
                Finds(k, i) /\ table' = [table EXCEPT ![i] = Vacant(DELETED)]
           /\ ret' = TRUE
  <2>1. PICK i \in DOMAIN table : Finds(k, i) /\ table' = Erased(table, i)
    BY <1>4 DEF Erased
  <2>2. i \in Live(table) /\ table[i].key = k
    BY <1>1, <2>1, FindsFacts
  <2>3. /\ table' \in Tables(capacity) /\ EachEntryFound(table', capacity)
        /\ Live(table') = Live(table) \ {i}
        /\ \A j \in Live(table') : table'[j] = table[j]
    BY <1>2, <2>1, <2>2, DeleteEntry
  <2>4. Content(table') = [Content(table) EXCEPT ![k] = NullOpt]
    BY <1>2, <2>2, <2>3, ContentDeleted
  <2>5. Map!Has(k)
    BY <1>1, <2>1, FoundIsHas DEF Found
  <2> QED BY <1>4, <2>4, <2>5 DEF Map!Delete
<1> QED BY <1>3, <1>4 DEF Delete

\* Rehash moves the entries and is not seen.
LEMMA RehashMaps ==
  ASSUME IInv, RehashEnd
  PROVE  Content(table') = Content(table)
<1>1. /\ capacity \in Nat /\ NewCapacity \in Nat /\ DOMAIN table = 0 .. capacity - 1
      /\ table \in Tables(capacity) /\ next = capacity /\ table' = new_table /\ ~Idle
  BY TypeFacts DEF IInv, RehashEnd, Idle
<1>2. /\ EachEntryFound(table, capacity) /\ EachEntryFound(new_table, NewCapacity)
      /\ new_table \in Tables(NewCapacity)
  BY <1>1, TypeFacts DEF IInv, EntriesFound
<1>3. MovedSlots = Live(table)
  BY <1>1 DEF MovedSlots, Live
<1>4. /\ \A i \in Live(table) : \E j \in Live(new_table) : new_table[j] = table[i]
      /\ \A j \in Live(new_table) : \E i \in Live(table) : table[i] = new_table[j]
  BY <1>1, <1>3 DEF IInv, Moved
<1>5. Content(new_table) = Content(table)
  BY <1>1, <1>2, <1>4, SameEntries
<1> QED BY <1>1, <1>5

\* Every step is a call on the map or is not seen.
LEMMA NextMaps == IInv /\ [Next]_vars => [Map!Next]_<<Content(table), ret>>
<1> SUFFICES ASSUME IInv, [Next]_vars
             PROVE  Map!Next \/ (Content(table)' = Content(table) /\ ret' = ret)
  OBVIOUS
<1>1. ASSUME NEW k \in Keys, Lookup(k) \/ Contains(k) PROVE Map!Next
  BY <1>1, ReadMaps DEF Map!Next
<1>2. ASSUME NEW k \in Keys, Delete(k) PROVE Map!Next
  BY <1>2, DeleteMaps DEF Map!Next
<1>3. ASSUME NEW k \in Keys, NEW v \in Values, InsertCall(k, v) PROVE Map!Next
  BY <1>3, InsertMaps DEF Map!Next
<1>4. ASSUME NEW k \in Keys, NEW v \in Values, Assign(k, v) PROVE Map!Next
  BY <1>4, AssignMaps DEF Map!Next
<1>5. CASE RehashStep
  BY <1>5, SameTable DEF RehashStep
<1>6. CASE RehashEnd
  BY <1>6, RehashMaps DEF RehashEnd
<1>7. CASE UNCHANGED vars
  BY <1>7, SameTable DEF vars
<1> QED BY <1>1, <1>2, <1>3, <1>4, <1>5, <1>6, <1>7 DEF Next

\* The clients of the table cannot tell it from a map: every call
\* of Insert, Lookup, Contains, Delete and operator[] returns what it would on a
\* map, whatever collided, was deleted or was rehashed before.
THEOREM Refines == Spec => IsAMap
<1> QED BY InitMaps, NextMaps, Invariant, PTL DEF Spec, IsAMap, Map!Spec

================================================================================
