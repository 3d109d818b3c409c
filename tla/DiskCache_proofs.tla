---------------------------- MODULE DiskCache_proofs ----------------------------
(* That the sector cache gives back what was written last, loses no write as long *)
(* as the device does not fail, and evicts in the order of use, for a disk and a *)
(* cache of any size, requests of any length, and any contents.                  *)
EXTENDS DiskCache, FiniteSetTheorems, SequenceTheorems, WellFoundedInduction, TLAPS

Link == Keys \union {None}

Caches == [mru : Link, lru : Link, entries : SUBSET Keys, prev : [Keys -> Link], next : [Keys -> Link]]

--------------------------------------------------------------------------------
(* The operations of LRUCache on a list.                                          *)

\* What Lookup, Insert and Evict return is a cache again.
LEMMA CacheTypes ==
  ASSUME NEW c \in Caches, NEW k \in Keys
  PROVE  /\ Insert(c, k) \in Caches /\ Insert(c, k).entries = c.entries \union {k}
         /\ Lookup(c, k) \in Caches /\ Lookup(c, k).entries = c.entries
         /\ c.lru # None => Evict(c) \in Caches /\ Evict(c).entries = c.entries \ {c.lru}
<1> USE LRUCacheAssumption DEF Caches, Link
<1>1. Insert(c, k) \in Caches /\ Insert(c, k).entries = c.entries \union {k}
  BY DEF Insert
<1>2. Lookup(c, k) \in Caches /\ Lookup(c, k).entries = c.entries
  BY DEF Lookup
<1>3. c.lru # None => Evict(c) \in Caches /\ Evict(c).entries = c.entries \ {c.lru}
  BY DEF Evict
<1> QED
  BY <1>1, <1>2, <1>3

\* Insert puts a new key at the front, unless it strays.
LEMMA InsertIsList ==
  ASSUME NEW c \in Caches, NEW s \in Seq(Keys), IsList(c, s),
         NEW k \in Keys, k \notin c.entries, ~InsertStrays(c)
  PROVE  <<k>> \o s \in Seq(Keys) /\ IsList(Insert(c, k), <<k>> \o s)
<1> DEFINE t == <<k>> \o s
           d == Insert(c, k)
<1>1. /\ t \in Seq(Keys) /\ Len(t) = Len(s) + 1
      /\ t[1] = k /\ \A i \in 2 .. Len(t) : t[i] = s[i - 1]
  OBVIOUS
<1>2. /\ Len(s) \in Nat /\ (s = <<>> <=> Len(s) = 0)
      /\ \A i \in 1 .. Len(s) : s[i] \in Keys /\ s[i] # k /\ s[i] \in c.entries
  BY DEF IsList
<1>3. s = <<>> => c.mru = None
  BY <1>2 DEF IsList, InsertStrays
<1>4. {t[i] : i \in 1 .. Len(t)} = c.entries \union {k}
  <2>1. ASSUME NEW x \in c.entries PROVE \E i \in 1 .. Len(t) : t[i] = x
    <3>1. PICK i \in 1 .. Len(s) : s[i] = x
      BY DEF IsList
    <3>2. i + 1 \in 1 .. Len(t) /\ t[i + 1] = x
      BY <1>1, <1>2, <3>1
    <3> QED
      BY <3>2
  <2>2. ASSUME NEW i \in 1 .. Len(t) PROVE t[i] \in c.entries \union {k}
    BY <1>1, <1>2
  <2>3. 1 \in 1 .. Len(t)
    BY <1>1, <1>2
  <2> HIDE DEF t
  <2> QED
    BY <1>1, <2>1, <2>2, <2>3
<1>5. \A i, j \in 1 .. Len(t) : t[i] = t[j] => i = j
  <2> HIDE DEF t
  <2>1. ASSUME NEW i \in 1 .. Len(t), NEW j \in 1 .. Len(t), t[i] = t[j]
        PROVE  i = j
    <3>1. (i = 1) <=> (j = 1)
      BY <1>1, <1>2, <2>1
    <3>2. i # 1 => i - 1 \in 1 .. Len(s) /\ j - 1 \in 1 .. Len(s) /\ s[i - 1] = s[j - 1]
      BY <1>1, <1>2, <2>1, <3>1
    <3>3. i # 1 => i - 1 = j - 1
      BY <3>2 DEF IsList
    <3> QED
      BY <1>1, <1>2, <3>1, <3>3
  <2> QED
    BY <2>1
<1>6. d.mru = t[1] /\ d.lru = t[Len(t)]
  <2> HIDE DEF t
  <2> QED
    BY <1>1, <1>2, LRUCacheAssumption DEF IsList, Insert
<1>7. ASSUME NEW i \in 1 .. Len(t)
      PROVE  /\ d.prev[t[i]] = IF i = 1 THEN None ELSE t[i - 1]
             /\ d.next[t[i]] = IF i = Len(t) THEN None ELSE t[i + 1]
  <2> HIDE DEF t
  <2>1. CASE i = 1
    BY <2>1, <1>1, <1>2, <1>3, LRUCacheAssumption DEF IsList, Insert, Caches
  <2>2. CASE i > 1
    <3>1. i - 1 \in 1 .. Len(s) /\ t[i] = s[i - 1]
      BY <1>1, <1>2, <2>2
    <3>2. d.next[t[i]] = c.next[s[i - 1]]
      BY <1>2, <3>1 DEF Insert, Caches
    <3>3. d.prev[t[i]] = IF i = 2 THEN k ELSE c.prev[s[i - 1]]
      BY <1>2, <3>1 DEF Insert, Caches, IsList
    <3>4. c.next[s[i - 1]] = IF i = Len(t) THEN None ELSE t[i + 1]
      BY <1>1, <1>2, <2>2, <3>1 DEF IsList
    <3>5. i > 2 => c.prev[s[i - 1]] = t[i - 1]
      <4>1. i > 2 => i - 1 # 1 /\ t[i - 1] = s[(i - 1) - 1]
        BY <1>1, <1>2, <3>1
      <4> QED
        BY <3>1, <4>1 DEF IsList
    <3> QED
      BY <1>1, <1>2, <2>2, <3>2, <3>3, <3>4, <3>5
  <2> QED
    BY <1>1, <1>2, <2>1, <2>2
<1>8. d.entries = c.entries \union {k}
  BY DEF Insert
<1>9. t # <<>>
  BY <1>1, <1>2
<1> HIDE DEF t, d
<1>10. IsList(d, t)
  BY <1>4, <1>5, <1>6, <1>7, <1>8, <1>9 DEF IsList
<1> QED
  BY <1>1, <1>10 DEF t, d

\* Lookup brings a key to the front.
LEMMA LookupIsList ==
  ASSUME NEW c \in Caches, NEW s \in Seq(Keys), IsList(c, s), NEW k \in c.entries
  PROVE  ToFront(s, k) \in Seq(Keys) /\ IsList(Lookup(c, k), ToFront(s, k))
<1> DEFINE m == CHOOSE i \in 1 .. Len(s) : s[i] = k
           t == ToFront(s, k)
           d == Lookup(c, k)
           l == Len(s)
<1>1. m \in 1 .. Len(s) /\ s[m] = k
  <2>1. \E i \in 1 .. Len(s) : s[i] = k
    BY DEF IsList
  <2> QED
    BY <2>1
<1>2. t = [x \in 1 .. l |-> IF x = 1 THEN k ELSE IF x <= m THEN s[x - 1] ELSE s[x]]
  BY DEF ToFront
<1> HIDE DEF m, t
<1>3. /\ l \in Nat /\ l >= 1 /\ m \in 1 .. l /\ s[m] = k /\ s # <<>> /\ k \in Keys
      /\ \A i \in 1 .. l : s[i] \in Keys
  BY <1>1 DEF Caches
<1> HIDE DEF l
<1>4. t \in Seq(Keys) /\ Len(t) = l /\ t # <<>>
  <2>1. \A x \in 1 .. l : t[x] \in Keys
    BY <1>2, <1>3
  <2>2. t \in [1 .. l -> Keys]
    BY <1>2, <2>1
  <2>3. Len(t) = l /\ t \in Seq(Keys)
    BY <1>3, <2>2
  <2> QED
    BY <1>3, <2>3
<1>5. /\ t[1] = k
      /\ \A x \in 2 .. m : t[x] = s[x - 1]
      /\ \A x \in m + 1 .. l : t[x] = s[x]
  BY <1>2, <1>3
\* Where t has the elements of s, and s those of t.
<1>6. \A x \in 1 .. l : \E y \in 1 .. l : t[x] = s[y] /\ y = IF x = 1 THEN m ELSE IF x <= m THEN x - 1 ELSE x
  BY <1>3, <1>5
<1>7. \A y \in 1 .. l : \E x \in 1 .. l : t[x] = s[y]
  <2> TAKE y \in 1 .. l
  <2>1. CASE y = m
    BY <1>3, <1>5, <2>1
  <2>2. CASE y < m
    <3>1. y + 1 \in 2 .. m /\ (y + 1) - 1 = y /\ y + 1 \in 1 .. l
      BY <1>3, <2>2
    <3> QED
      BY <1>5, <3>1
  <2>3. CASE y > m
    BY <1>3, <1>5, <2>3
  <2> QED
    BY <1>3, <2>1, <2>2, <2>3
<1>8. \A i, j \in 1 .. l : s[i] = s[j] => i = j
  BY DEF IsList, l
<1>9. {t[x] : x \in 1 .. Len(t)} = d.entries
  <2>1. d.entries = {s[i] : i \in 1 .. l}
    BY DEF Lookup, IsList, Caches, l
  <2> HIDE DEF d
  <2>2. \A x \in 1 .. Len(t) : t[x] \in d.entries
    BY <1>4, <1>6, <2>1
  <2>3. \A k2 \in d.entries : \E x \in 1 .. Len(t) : t[x] = k2
    BY <1>4, <1>7, <2>1
  <2> QED
    BY <2>2, <2>3
<1>10. \A i, j \in 1 .. Len(t) : t[i] = t[j] => i = j
  <2>1. ASSUME NEW i \in 1 .. l, NEW j \in 1 .. l, t[i] = t[j]
        PROVE  i = j
    <3>1. (IF i = 1 THEN m ELSE IF i <= m THEN i - 1 ELSE i) = (IF j = 1 THEN m ELSE IF j <= m THEN j - 1 ELSE j)
      BY <1>6, <1>8, <2>1
    <3> QED
      BY <1>3, <3>1
  <2> QED
    BY <1>4, <2>1
\* k's neighbours, and the key that k comes to stand before.
<1> DEFINE p == c.prev[k]
           n == c.next[k]
           front == IF k = c.mru THEN n ELSE c.mru
<1>11. /\ p = IF m = 1 THEN None ELSE s[m - 1]
       /\ n = IF m = l THEN None ELSE s[m + 1]
       /\ c.mru = s[1] /\ (k = c.mru <=> m = 1)
       /\ c.lru = s[l] /\ (k = c.lru <=> m = l)
  BY <1>3 DEF IsList, l
<1> HIDE DEF p, n
<1>12. /\ front = IF l = 1 THEN None ELSE t[2]
       /\ m # 1 => p = t[m]
       /\ n = IF m = l THEN None ELSE t[m + 1]
  <2>1. m # 1 => front = s[1] /\ 2 \in 2 .. m /\ t[2] = s[2 - 1]
    BY <1>3, <1>5, <1>11
  <2>2. m = 1 /\ l # 1 => t[2] = s[2] /\ front = n
    <3>1. m = 1 /\ l # 1 => 2 \in m + 1 .. l
      BY <1>3
    <3> QED
      BY <1>5, <1>11, <3>1
  <2>3. m # 1 => t[m] = s[m - 1]
    BY <1>3, <1>5
  <2>4. m # l => t[m + 1] = s[m + 1]
    BY <1>3, <1>5
  <2>5. front = IF l = 1 THEN None ELSE t[2]
    <3>1. CASE m = 1
      BY <1>3, <1>11, <2>2, <3>1
    <3>2. CASE m # 1
      <4>1. l # 1 /\ 2 - 1 = 1
        BY <1>3, <3>2
      <4> QED
        BY <2>1, <3>2, <4>1
    <3> QED
      BY <3>1, <3>2
  <2> QED
    BY <1>11, <2>3, <2>4, <2>5
<1>13. NumEntries(c) > 1 <=> l > 1
  <2>1. IsFiniteSet(c.entries) /\ Cardinality(c.entries) \in Nat
    BY LRUCacheAssumption, FS_Subset, FS_CardinalityType DEF Caches
  <2>2. CASE l = 1
    <3>1. c.entries = {s[1]}
      BY <2>2 DEF IsList, l
    <3> QED
      BY <2>2, <3>1, FS_Singleton DEF NumEntries
  <2>3. CASE l > 1
    <3>1. s[1] \in c.entries /\ s[2] \in c.entries /\ s[1] # s[2]
      BY <1>3, <2>3 DEF IsList, l
    <3>2. Cardinality({s[1], s[2]}) = 2
      <4>1. {s[1], s[2]} = {s[1]} \union {s[2]} /\ s[2] \notin {s[1]}
        BY <3>1
      <4>2. IsFiniteSet({s[1]}) /\ Cardinality({s[1]}) = 1
        BY FS_Singleton
      <4>3. Cardinality({s[1]} \union {s[2]}) = Cardinality({s[1]}) + 1
        BY <4>1, <4>2, FS_AddElement
      <4> QED
        BY <4>1, <4>2, <4>3
    <3>3. Cardinality({s[1], s[2]}) <= Cardinality(c.entries)
      BY <2>1, <3>1, FS_Subset
    <3> QED
      BY <2>1, <2>3, <3>2, <3>3 DEF NumEntries
  <2>4. l = 1 \/ l > 1
    BY <1>3
  <2> QED
    BY <2>2, <2>3, <2>4
<1>14. /\ d.mru = k
       /\ d.lru = IF l > 1 /\ k = c.lru THEN p ELSE c.lru
       /\ \A x \in Keys : d.prev[x] = IF x = k THEN None ELSE IF x = front THEN k
                                      ELSE IF x = n THEN p ELSE c.prev[x]
       /\ \A x \in Keys : d.next[x] = IF x = k THEN front ELSE IF x = p THEN n ELSE c.next[x]
  BY <1>13 DEF Lookup, Caches, p, n
<1> HIDE DEF d, p, n, front
<1>15. d.lru = t[Len(t)]
  BY <1>3, <1>4, <1>5, <1>11, <1>12, <1>14
<1>16. ASSUME NEW x \in 1 .. Len(t)
       PROVE  /\ d.prev[t[x]] = IF x = 1 THEN None ELSE t[x - 1]
              /\ d.next[t[x]] = IF x = Len(t) THEN None ELSE t[x + 1]
  <2>1. t[x] \in Keys /\ None \notin Keys
    BY <1>4, LRUCacheAssumption
  <2>2. t[x] = k <=> x = 1
    BY <1>3, <1>4, <1>5, <1>10
  <2>3. t[x] = front <=> x = 2
    BY <1>3, <1>4, <1>10, <1>12, <2>1
  <2>4. t[x] = n <=> x = m + 1
    BY <1>3, <1>4, <1>10, <1>12, <2>1
  <2>5. t[x] = p <=> x = m /\ m # 1
    BY <1>3, <1>4, <1>10, <1>11, <1>12, <2>1
  <2>6. CASE x = 1
    BY <1>4, <1>12, <1>14, <2>1, <2>2, <2>6
  <2>7. d.prev[t[x]] = IF x = 1 THEN None ELSE t[x - 1]
    <3>1. CASE x = 2
      BY <1>5, <1>14, <2>1, <2>2, <2>3, <3>1
    <3>2. CASE x = m + 1 /\ x > 2
      <4>1. x - 1 = m /\ m # 1 /\ x # 1 /\ x # 2
        BY <1>3, <3>2
      <4> QED
        BY <1>12, <1>14, <2>1, <2>2, <2>3, <2>4, <3>2, <4>1
    <3>3. CASE x > 2 /\ x # m + 1
      <4>1. d.prev[t[x]] = c.prev[t[x]]
        BY <1>14, <2>1, <2>2, <2>3, <2>4, <3>3
      <4>2. CASE x <= m
        <5>1. /\ x \in 2 .. m /\ x - 1 \in 2 .. m /\ x - 1 \in 1 .. l /\ x - 1 # 1
              /\ t[x] = s[x - 1] /\ t[x - 1] = s[(x - 1) - 1]
          BY <1>3, <1>4, <1>5, <3>3, <4>2
        <5> QED
          BY <4>1, <5>1 DEF IsList, l
      <4>3. CASE x > m + 1
        <5>1. /\ x - 1 \in m + 1 .. l /\ x \in m + 1 .. l /\ x # 1
              /\ t[x] = s[x] /\ t[x - 1] = s[x - 1]
          BY <1>3, <1>4, <1>5, <3>3, <4>3
        <5> QED
          BY <1>4, <4>1, <5>1 DEF IsList, l
      <4> QED
        BY <1>3, <3>3, <4>2, <4>3
    <3> QED
      BY <1>4, <2>6, <3>1, <3>2, <3>3
  <2>8. d.next[t[x]] = IF x = Len(t) THEN None ELSE t[x + 1]
    <3>1. CASE x = m /\ m # 1
      BY <1>3, <1>4, <1>12, <1>14, <2>1, <2>2, <2>5, <3>1
    <3>2. CASE x # m /\ x # 1
      <4>1. d.next[t[x]] = c.next[t[x]]
        BY <1>14, <2>1, <2>2, <2>5, <3>2
      <4>2. CASE x < m
        <5>1. /\ x \in 2 .. m /\ x + 1 \in 2 .. m /\ x - 1 \in 1 .. l /\ x - 1 # l
              /\ t[x] = s[x - 1] /\ t[x + 1] = s[(x - 1) + 1] /\ x # Len(t)
          BY <1>3, <1>4, <1>5, <3>2, <4>2
        <5> QED
          BY <4>1, <5>1 DEF IsList, l
      <4>3. CASE x > m
        <5>1. /\ x \in m + 1 .. l /\ t[x] = s[x]
              /\ x # l => x + 1 \in m + 1 .. l /\ t[x + 1] = s[x + 1]
          BY <1>3, <1>4, <1>5, <3>2, <4>3
        <5> QED
          BY <1>3, <1>4, <4>1, <5>1 DEF IsList, l
      <4> QED
        BY <1>3, <3>2, <4>2, <4>3
    <3> QED
      BY <2>6, <3>1, <3>2
  <2> QED
    BY <2>7, <2>8
<1>17. IsList(d, t)
  BY <1>4, <1>5, <1>9, <1>10, <1>14, <1>15, <1>16 DEF IsList, l
<1> QED
  BY <1>4, <1>17 DEF d, t

\* Evict takes the last key out.
LEMMA EvictIsList ==
  ASSUME NEW c \in Caches, NEW s \in Seq(Keys), IsList(c, s), c.entries # {}
  PROVE  /\ c.lru \in c.entries
         /\ SubSeq(s, 1, Len(s) - 1) \in Seq(Keys)
         /\ IsList(Evict(c), SubSeq(s, 1, Len(s) - 1))
<1> DEFINE l == Len(s)
           t == SubSeq(s, 1, l - 1)
           d == Evict(c)
<1>1. /\ l \in Nat \ {0} /\ s # <<>>
      /\ \A i \in 1 .. l : s[i] \in Keys
  BY DEF IsList
<1> HIDE DEF l
<1>2. /\ t \in Seq(Keys) /\ Len(t) = l - 1 /\ (t = <<>> <=> l = 1)
      /\ \A i \in 1 .. l - 1 : t[i] = s[i]
  <2>1. l - 1 \in Int /\ 1 \in Int /\ \A i \in 1 .. l - 1 : s[i] \in Keys
    BY <1>1
  <2> HIDE DEF t
  <2>2. /\ t \in Seq(Keys)
        /\ Len(t) = IF 1 <= l - 1 THEN (l - 1) - 1 + 1 ELSE 0
        /\ \A i \in 1 .. (l - 1) - 1 + 1 : t[i] = s[1 + i - 1]
    BY <2>1, SubSeqProperties DEF t
  <2>3. Len(t) = l - 1 /\ \A i \in 1 .. l - 1 : t[i] = s[i]
    BY <1>1, <2>2
  <2> QED
    BY <1>1, <2>2, <2>3
<1> HIDE DEF t
<1>3. /\ c.lru = s[l] /\ c.lru \in c.entries /\ c.lru # None
      /\ c.prev[c.lru] = IF l = 1 THEN None ELSE s[l - 1]
  <2>1. l \in 1 .. l
    BY <1>1
  <2>2. c.lru = s[l] /\ s[l] \in c.entries
    BY <1>1, <2>1 DEF IsList, l
  <2>3. c.prev[s[l]] = IF l = 1 THEN None ELSE s[l - 1]
    BY <2>1 DEF IsList, l
  <2> QED
    BY <1>1, <2>1, <2>2, <2>3, LRUCacheAssumption
<1>4. \A i, j \in 1 .. l : s[i] = s[j] => i = j
  BY DEF IsList, l
<1>5. {t[i] : i \in 1 .. Len(t)} = d.entries
  <2>1. d.entries = {s[i] : i \in 1 .. l} \ {s[l]}
    BY <1>3 DEF Evict, IsList, l
  <2> QED
    BY <1>1, <1>2, <1>4, <2>1
<1>6. \A i, j \in 1 .. Len(t) : t[i] = t[j] => i = j
  BY <1>1, <1>2, <1>4
<1>7. t # <<>> => d.mru = t[1]
  BY <1>1, <1>2 DEF Evict, IsList
<1>8. d.lru = IF t = <<>> THEN None ELSE t[Len(t)]
  BY <1>1, <1>2, <1>3 DEF Evict, Caches
<1>9. ASSUME NEW i \in 1 .. Len(t)
      PROVE  /\ d.prev[t[i]] = IF i = 1 THEN None ELSE t[i - 1]
             /\ d.next[t[i]] = IF i = Len(t) THEN None ELSE t[i + 1]
  <2>1. i \in 1 .. l /\ i # l /\ t[i] = s[i] /\ s[i] \in Keys
    BY <1>1, <1>2
  <2>2. d.prev[t[i]] = c.prev[s[i]]
    BY <2>1 DEF Evict, Caches
  <2>3. d.next[t[i]] = IF i = Len(t) THEN None ELSE c.next[s[i]]
    BY <1>1, <1>2, <1>3, <1>4, <2>1, LRUCacheAssumption DEF Evict, Caches
  <2> QED
    BY <1>1, <1>2, <2>1, <2>2, <2>3 DEF IsList, l
<1> HIDE DEF d
<1>10. IsList(d, t)
  BY <1>5, <1>6, <1>7, <1>8, <1>9 DEF IsList
<1> QED
  BY <1>2, <1>3, <1>10 DEF t, d, l

--------------------------------------------------------------------------------
(* The sector cache.                                                              *)

Contents == Values \union {None}

\* A range of a request, with the data that a write has for it.
Ranges(write) == [addr : Sectors, data : Seq(IF write THEN Values ELSE Contents)]

Calls == [write : BOOLEAN, addr : Sectors, n : Nat, i : Nat, j : Nat, hit : Link,
          ok : BOOLEAN, ranges : Seq(Ranges(FALSE))]

\* The values of the variables.
Typed ==
  /\ cache \in Caches
  /\ sector \in [Sectors -> Contents] /\ latest \in [Sectors -> Contents]
  /\ dirty \subseteq cache.entries
  /\ disk \in [OnDisk -> Values]
  /\ errored \in BOOLEAN
  /\ call \in Calls /\ call.ranges \in Seq(Ranges(call.write))
  /\ buff \in Seq(Contents)
  /\ pc \in {"idle", "scan", "insert", "link", "return", "flush", "down", "dangling"}
  /\ recency \in Seq(Sectors)

\* Every cached sector is cached with its latest contents, also once the device has failed,
\* and the disk has those of the others as long as it has not.
CachedIsLatest ==
  /\ \A k \in Sectors : sector[k] \in IF k \in cache.entries THEN Values ELSE {None}
  /\ \A k \in cache.entries : sector[k] = latest[k]
  /\ ~errored => \A k \in OnDisk : k \notin dirty => disk[k] = latest[k]

\* The call in progress. A write has its data in the buffer; a read that has not failed
\* has the latest contents of the sectors that the loop has come past; those that are
\* still to be inserted are not in the cache.
CallInProgress ==
  /\ call.j <= call.i /\ call.i <= call.n /\ call.n = Len(buff)
  /\ \A x \in 1 .. call.n : call.addr + x - 1 \in Sectors
  /\ call.write => \A x \in 1 .. call.n : buff[x] \in Values
  /\ ~call.write /\ call.ok =>
       \A x \in 1 .. call.i : buff[x] \in Values /\ buff[x] = latest[call.addr + x - 1]
  /\ pc \in {"scan", "insert", "link"} => call.ok
  /\ pc \in {"insert", "link"} =>
       /\ call.hit = IF call.i < call.n THEN call.addr + call.i ELSE None
       /\ \A x \in call.j .. call.i - 1 : call.addr + x \notin cache.entries
  /\ pc = "return" /\ call.ok => call.i = call.n

IInv == Typed /\ CachedIsLatest /\ CallInProgress /\ ListIsRecency

\* The outcomes of a command, as far as the cache depends on them.
LEMMA OutcomesOfCommand ==
  ASSUME NEW e \in BOOLEAN, NEW a \in Nat, NEW n \in Nat \ {0},
         NEW r \in DiskReadWriteOutcomes(e, a, n)
  PROVE  /\ r.done \subseteq OnDisk /\ r.done \subseteq a .. a + n - 1
         /\ r.ok \in BOOLEAN /\ r.errored \in BOOLEAN
         /\ r.ok => ~e /\ ~r.errored /\ a .. a + n - 1 \subseteq OnDisk
         /\ ~r.errored => ~e /\ (r.done = a .. a + n - 1 \/ a > MaxLba)
<1> USE DiskCommandAssumption
<1> DEFINE s == a .. a + n - 1
<1>1. CASE a > MaxLba
  <2>1. r = [done |-> {}, ok |-> FALSE, errored |-> e]
    BY <1>1 DEF DiskReadWriteOutcomes
  <2> QED
    BY <1>1, <2>1
<1>2. CASE ~(a > MaxLba)
  <2>1. \/ \E t \in SUBSET (s \intersect OnDisk) : r = [done |-> t, ok |-> FALSE, errored |-> TRUE]
        \/ ~e /\ s \subseteq OnDisk /\ r = [done |-> s, ok |-> TRUE, errored |-> FALSE]
    BY <1>2 DEF DiskReadWriteOutcomes
  <2> HIDE DEF s
  <2>2. CASE \E t \in SUBSET (s \intersect OnDisk) : r = [done |-> t, ok |-> FALSE, errored |-> TRUE]
    BY <2>2 DEF s
  <2>3. CASE ~e /\ s \subseteq OnDisk /\ r = [done |-> s, ok |-> TRUE, errored |-> FALSE]
    BY <2>3 DEF s
  <2> QED
    BY <2>1, <2>2, <2>3
<1> QED
  BY <1>1, <1>2

\* Of a set of numbers there is a least one.
LEMMA LeastExists ==
  ASSUME NEW T \in SUBSET Nat, T # {}
  PROVE  \E x \in T : \A y \in T : x <= y
<1> DEFINE R == {ss \in Nat \X Nat : ss[1] < ss[2]}
<1>1. IsWellFoundedOn(R, Nat)
  BY NatLessThanWellFounded DEF OpToRel
<1> HIDE DEF R
<1>2. PICK x \in T : \A y \in T : ~(<<y, x>> \in R)
  BY <1>1, WFMin
<1>3. \A y \in T : ~(y < x)
  BY <1>2 DEF R
<1> QED
  BY <1>3

\* One eviction: the list stays in order, and what was only in the cache comes to the disk
\* or the device has failed.
LEMMA EvictionStep ==
  ASSUME Typed, CachedIsLatest, ListIsRecency, EvictOldest, latest' = latest
  PROVE  /\ cache' \in Caches /\ cache'.entries \subseteq cache.entries
         /\ sector' \in [Sectors -> Contents]
         /\ dirty' \subseteq cache'.entries
         /\ disk' \in [OnDisk -> Values] /\ errored' \in BOOLEAN
         /\ recency' \in Seq(Sectors)
         /\ CachedIsLatest' /\ ListIsRecency'
<1> DEFINE k == cache.lru
<1>1. /\ k \in cache.entries /\ k \in Sectors
      /\ recency' \in Seq(Sectors) /\ ListIsRecency'
  BY EvictIsList DEF EvictOldest, Typed, Caches, ListIsRecency, Sectors
<1>2. cache' \in Caches /\ cache'.entries = cache.entries \ {k}
  BY <1>1, CacheTypes, LRUCacheAssumption DEF EvictOldest, Typed, Sectors
<1>3. sector' = [sector EXCEPT ![k] = None] /\ dirty' = dirty \ {k}
  BY DEF EvictOldest, HandleEviction, Forget
<1>4. /\ disk' \in [OnDisk -> Values] /\ errored' \in BOOLEAN
      /\ ~errored' => ~errored /\ \A x \in OnDisk : disk'[x] = IF x = k /\ k \in dirty THEN sector[x] ELSE disk[x]
  <2>1. CASE k \notin dirty
    BY <2>1 DEF EvictOldest, HandleEviction, Typed
  <2>2. CASE k \in dirty
    <3>1. PICK r \in DiskReadWrite(k, 1) :
            /\ errored' = r.errored
            /\ disk' = [x \in OnDisk |-> IF x \in r.done THEN sector[x] ELSE disk[x]]
      BY <2>2 DEF EvictOldest, HandleEviction
    <3>2. k \in Nat /\ 1 \in Nat \ {0} /\ k .. k + 1 - 1 = {k}
      BY <1>1, DiskCacheAssumption
    <3>3. /\ r.done \subseteq OnDisk /\ r.done \subseteq {k} /\ r.errored \in BOOLEAN
          /\ ~r.errored => ~errored /\ (r.done = {k} \/ k > MaxLba)
      BY <3>1, <3>2, OutcomesOfCommand DEF DiskReadWrite, Typed
    <3>4. \A x \in r.done : sector[x] \in Values
      BY <1>1, <3>3 DEF CachedIsLatest
    <3>5. k > MaxLba => k \notin OnDisk
      BY <3>2, DiskCommandAssumption DEF OnDisk
    <3> QED
      BY <2>2, <3>1, <3>3, <3>4, <3>5 DEF Typed
  <2> QED
    BY <2>1, <2>2
<1> HIDE DEF k
<1>5. CachedIsLatest'
  <2>1. \A x \in Sectors : sector'[x] \in IF x \in cache'.entries THEN Values ELSE {None}
    BY <1>1, <1>2, <1>3 DEF CachedIsLatest, Typed
  <2>2. \A x \in cache'.entries : sector'[x] = latest'[x]
    BY <1>1, <1>2, <1>3 DEF CachedIsLatest, Typed, Caches, Sectors
  <2>3. ~errored' => \A x \in OnDisk : x \notin dirty' => disk'[x] = latest'[x]
    BY <1>1, <1>3, <1>4 DEF CachedIsLatest
  <2> QED
    BY <2>1, <2>2, <2>3 DEF CachedIsLatest
<1> QED
  BY <1>1, <1>2, <1>3, <1>4, <1>5 DEF Typed, Contents

\* A sequence over a set is one over a larger set.
LEMMA SeqGrows ==
  ASSUME NEW A, NEW B, A \subseteq B, NEW t \in Seq(A)
  PROVE  t \in Seq(B)
<1>1. Len(t) \in Nat /\ t \in [1 .. Len(t) -> A]
  OBVIOUS
<1> QED
  BY <1>1, SeqDef

\* A function on 1 .. n is a sequence of length n.
LEMMA FunctionIsSeq ==
  ASSUME NEW n \in Nat, NEW A, NEW f \in [1 .. n -> A]
  PROVE  f \in Seq(A) /\ Len(f) = n
OBVIOUS

\* A single element is a sequence.
LEMMA OneIsSeq ==
  ASSUME NEW A, NEW x \in A
  PROVE  <<x>> \in Seq(A)
OBVIOUS

\* A call, or the next range of one, begins: nothing is in the buffer yet but what a write
\* brings.
LEMMA BeginStep ==
  ASSUME IInv, NEW w \in BOOLEAN, NEW range \in Ranges(w), NEW rs \in Seq(Ranges(w)),
         CacheReadWrite(w, range, rs)
  PROVE  IInv'
<1> DEFINE n == Len(range.data)
<1>1. /\ range.addr \in Sectors /\ range.data \in Seq(Contents) /\ n \in Nat
      /\ w => range.data \in Seq(Values)
      /\ rs \in Seq(Ranges(FALSE))
  <2>1. Ranges(w) \subseteq Ranges(FALSE)
    BY DEF Ranges, Contents
  <2>2. rs \in Seq(Ranges(FALSE))
    BY <2>1, SeqGrows
  <2>3. range.addr \in Sectors /\ range.data \in Seq(IF w THEN Values ELSE Contents)
    BY DEF Ranges
  <2>4. range.data \in Seq(Contents) /\ (w => range.data \in Seq(Values))
    <3>1. Values \subseteq Contents
      BY DEF Contents
    <3> QED
      BY <2>3, <3>1, SeqGrows
  <2>5. Len(range.data) \in Nat
    BY <2>3
  <2> QED
    BY <2>2, <2>3, <2>4, <2>5
<1>2. call' = [write |-> w, addr |-> range.addr, n |-> n, i |-> 0, j |-> 0, hit |-> None,
               ok |-> TRUE, ranges |-> rs]
  BY DEF CacheReadWrite, NoCall
<1>3. buff' = range.data /\ pc' = "scan" /\ UNCHANGED <<cache, sector, dirty, disk, errored, recency, latest>>
  BY DEF CacheReadWrite, store
<1>4. \A x \in 1 .. n : range.addr + x - 1 \in Sectors
  <2>1. range.addr + n - 1 \in Sectors
    BY DEF CacheReadWrite
  <2> HIDE DEF n
  <2> QED
    BY <1>1, <2>1, DiskCacheAssumption, DiskCommandAssumption
<1>5. w => \A x \in 1 .. n : range.data[x] \in Values
  BY <1>1
<1> HIDE DEF n
<1>6. Typed'
  BY <1>1, <1>2, <1>3 DEF IInv, Typed, Calls, Link
<1>7. CachedIsLatest' /\ ListIsRecency'
  BY <1>3 DEF IInv, CachedIsLatest, ListIsRecency
<1>8. CallInProgress'
  BY <1>1, <1>2, <1>3, <1>4, <1>5 DEF CallInProgress, n
<1> QED
  BY <1>6, <1>7, <1>8 DEF IInv

\* Scan passes over sectors that are not in the cache, to the first that is.
LEMMA ScanStep ==
  ASSUME IInv, Scan
  PROVE  IInv'
<1> DEFINE i == IF Hits = {} THEN call.n ELSE CHOOSE i \in Hits : \A j \in Hits : i <= j
           a == call.addr
<1>1. /\ call \in Calls /\ call.i <= call.n /\ call.ok /\ call.n = Len(buff)
      /\ \A x \in 1 .. call.n : a + x - 1 \in Sectors
  BY DEF IInv, Typed, CallInProgress, Scan
<1>2. call.i \in Nat /\ call.n \in Nat /\ call.j \in Nat /\ a \in Sectors /\ a \in Nat
  BY <1>1, DiskCacheAssumption DEF Calls
<1>3. /\ i \in call.i .. call.n
      /\ i < call.n <=> Hits # {}
      /\ i < call.n => a + i \in cache.entries
      /\ \A x \in call.i .. i - 1 : a + x \notin cache.entries
  <2>1. Hits \in SUBSET Nat
    BY <1>2 DEF Hits
  <2>2. CASE Hits = {}
    BY <1>1, <1>2, <2>2 DEF Hits
  <2>3. CASE Hits # {}
    <3>1. i \in Hits /\ \A j \in Hits : i <= j
      BY <2>1, <2>3, LeastExists
    <3> HIDE DEF i
    <3> QED
      BY <1>2, <2>3, <3>1 DEF Hits
  <2> QED
    BY <2>2, <2>3
<1> DEFINE found == [call EXCEPT !.i = i, !.j = call.i, !.hit = IF i < call.n THEN a + i ELSE None]
<1>4. /\ IF Hits # {}
         THEN cache' = Lookup(cache, found.hit) /\ recency' = ToFront(recency, found.hit)
         ELSE UNCHANGED <<cache, recency>>
      /\ UNCHANGED <<sector, dirty, disk, latest>>
  BY DEF Scan
<1>5. \/ /\ i = call.i \/ call.write
         /\ call' = found /\ pc' = "insert"
         /\ UNCHANGED <<buff, errored>>
      \/ /\ i # call.i /\ ~call.write
         /\ \E r \in DiskReadWrite(a + call.i, i - call.i) :
              /\ errored' = r.errored
              /\ call' = [found EXCEPT !.ok = r.ok]
              /\ buff' = IF r.ok THEN [x \in 1 .. call.n |->
                                         IF x \in call.i + 1 .. i THEN disk[a + x - 1] ELSE buff[x]]
                         ELSE buff
              /\ pc' = IF r.ok THEN "insert" ELSE "return"
  BY DEF Scan
<1> HIDE DEF i, a
<1>6. /\ found \in Calls /\ found.i = i /\ found.j = call.i
      /\ found.hit = IF i < call.n THEN a + i ELSE None
      /\ found.n = call.n /\ found.addr = call.addr /\ found.write = call.write
      /\ found.ranges = call.ranges /\ found.ok = call.ok
  <2>1. i < call.n => a + i \in Sectors
    <3>1. i < call.n => i + 1 \in 1 .. call.n /\ a + (i + 1) - 1 = a + i
      BY <1>2, <1>3
    <3> QED
      BY <1>1, <3>1
  <2>2. (IF i < call.n THEN a + i ELSE None) \in Link /\ i \in Nat
    BY <1>2, <1>3, <2>1 DEF Link, Sectors
  <2> QED
    BY <1>1, <1>2, <2>2 DEF Calls
<1> HIDE DEF found
\* The cache has the same sectors, in the new order.
<1>7. /\ cache' \in Caches /\ cache'.entries = cache.entries
      /\ recency' \in Seq(Sectors) /\ ListIsRecency'
  <2>1. CASE Hits # {}
    <3>1. found.hit \in cache.entries /\ found.hit \in Sectors
      BY <1>3, <1>6, <2>1 DEF IInv, Typed, Caches, Sectors
    <3> QED
      BY <1>4, <2>1, <3>1, CacheTypes, LookupIsList DEF IInv, Typed, ListIsRecency, Sectors
  <2>2. CASE Hits = {}
    BY <1>4, <2>2 DEF IInv, Typed, ListIsRecency
  <2> QED
    BY <2>1, <2>2

<1>8. CASE /\ i = call.i \/ call.write
           /\ call' = found /\ pc' = "insert"
           /\ UNCHANGED <<buff, errored>>
  <2>1. Typed'
    BY <1>4, <1>6, <1>7, <1>8 DEF IInv, Typed
  <2>2. CachedIsLatest'
    BY <1>4, <1>7, <1>8 DEF IInv, CachedIsLatest
  <2>3. CallInProgress'
    <3>1. /\ call' = found /\ pc' = "insert" /\ buff' = buff /\ latest' = latest
          /\ ~call.write => i = call.i
      BY <1>4, <1>8
    <3>2. /\ call.write => \A x \in 1 .. call.n : buff[x] \in Values
          /\ ~call.write => \A x \in 1 .. call.i : buff[x] \in Values /\ buff[x] = latest[a + x - 1]
      BY <1>1 DEF IInv, CallInProgress, a
    <3>3. /\ call'.j <= call'.i /\ call'.i <= call'.n /\ call'.n = Len(buff')
          /\ \A x \in 1 .. call'.n : call'.addr + x - 1 \in Sectors
      BY <1>1, <1>2, <1>3, <1>6, <3>1 DEF a
    <3>4. /\ call'.write => \A x \in 1 .. call'.n : buff'[x] \in Values
          /\ ~call'.write /\ call'.ok =>
               \A x \in 1 .. call'.i : buff'[x] \in Values /\ buff'[x] = latest'[call'.addr + x - 1]
      BY <1>6, <3>1, <3>2 DEF a
    <3>5. \A x \in call'.j .. call'.i - 1 : call'.addr + x \notin cache'.entries
      BY <1>3, <1>6, <1>7, <3>1 DEF a
    <3>6. call'.ok /\ call'.hit = IF call'.i < call'.n THEN call'.addr + call'.i ELSE None
      BY <1>1, <1>6, <3>1 DEF a
    <3> QED
      BY <3>1, <3>3, <3>4, <3>5, <3>6 DEF CallInProgress
  <2> QED
    BY <1>7, <2>1, <2>2, <2>3 DEF IInv
<1>9. ASSUME NEW r \in DiskReadWrite(a + call.i, i - call.i),
             i # call.i, ~call.write,
             errored' = r.errored,
             call' = [found EXCEPT !.ok = r.ok],
             buff' = IF r.ok THEN [x \in 1 .. call.n |->
                                     IF x \in call.i + 1 .. i THEN disk[a + x - 1] ELSE buff[x]]
                     ELSE buff,
             pc' = IF r.ok THEN "insert" ELSE "return"
      PROVE  IInv'
  <2>1. /\ r.ok \in BOOLEAN /\ r.errored \in BOOLEAN
        /\ ~r.errored => ~errored
        /\ r.ok => ~errored /\ \A x \in call.i + 1 .. i : a + x - 1 \in OnDisk
    <3>1. a + call.i \in Nat /\ i - call.i \in Nat \ {0}
      BY <1>2, <1>3, <1>9
    <3>2. /\ r.ok \in BOOLEAN /\ r.errored \in BOOLEAN /\ (~r.errored => ~errored)
          /\ r.ok => ~errored /\ a + call.i .. (a + call.i) + (i - call.i) - 1 \subseteq OnDisk
      BY <1>9, <3>1, OutcomesOfCommand DEF DiskReadWrite, IInv, Typed
    <3>3. \A x \in call.i + 1 .. i : a + x - 1 \in a + call.i .. (a + call.i) + (i - call.i) - 1
      BY <1>2, <1>3
    <3> QED
      BY <3>2, <3>3
  <2>2. /\ call' \in Calls /\ call'.ok = r.ok
        /\ call'.i = i /\ call'.j = call.i
        /\ call'.hit = IF i < call.n THEN a + i ELSE None
        /\ call'.n = call.n /\ call'.addr = call.addr /\ call'.write = FALSE
        /\ call'.ranges = call.ranges
    BY <1>1, <1>6, <1>9, <2>1 DEF Calls
  <2>3. Len(buff) \in Nat /\ \A x \in 1 .. call.n : buff[x] \in Contents
    BY <1>1 DEF IInv, Typed
  \* What was fetched is the latest: the sectors passed over are not in the cache.
  <2>4. ASSUME r.ok, NEW x \in call.i + 1 .. i
        PROVE  disk[a + x - 1] \in Values /\ disk[a + x - 1] = latest[a + x - 1]
    <3>1. a + x - 1 \in OnDisk /\ ~errored
      BY <2>1, <2>4
    <3>2. x - 1 \in call.i .. i - 1 /\ a + (x - 1) = a + x - 1
      BY <1>2, <1>3
    <3>3. a + x - 1 \notin dirty
      BY <1>3, <3>2 DEF IInv, Typed
    <3> QED
      BY <3>1, <3>3 DEF IInv, Typed, CachedIsLatest
  <2>7. call'.ranges \in Seq(Ranges(call'.write))
    BY <1>1, <1>9, <2>2 DEF Calls
  <2>5. CASE r.ok
    <3>1. /\ buff' \in Seq(Contents) /\ Len(buff') = call.n
          /\ \A x \in 1 .. call.n : buff'[x] = IF x \in call.i + 1 .. i THEN disk[a + x - 1] ELSE buff[x]
      <4>1. buff' = [x \in 1 .. call.n |-> IF x \in call.i + 1 .. i THEN disk[a + x - 1] ELSE buff[x]]
        BY <1>9, <2>5
      <4>2. \A x \in 1 .. call.n : (IF x \in call.i + 1 .. i THEN disk[a + x - 1] ELSE buff[x]) \in Contents
        BY <2>3, <2>4, <2>5 DEF Contents
      <4>3. buff' \in [1 .. call.n -> Contents]
        BY <4>1, <4>2
      <4>4. buff' \in Seq(Contents) /\ Len(buff') = call.n
        BY <1>2, <4>3, FunctionIsSeq
      <4> QED
        BY <4>1, <4>4
    <3>2. \A x \in 1 .. i : buff'[x] \in Values /\ buff'[x] = latest[a + x - 1]
      <4>1. \A x \in 1 .. call.i : buff[x] \in Values /\ buff[x] = latest[a + x - 1]
        BY <1>1, <1>9 DEF IInv, CallInProgress, a
      <4>2. \A x \in 1 .. i : x \in 1 .. call.n /\ (x \in 1 .. call.i \/ x \in call.i + 1 .. i)
        BY <1>2, <1>3
      <4>3. \A x \in 1 .. call.i : x \notin call.i + 1 .. i
        BY <1>2, <1>3
      <4> QED
        BY <2>4, <2>5, <3>1, <4>1, <4>2, <4>3
    <3>3. Typed'
      BY <1>4, <1>7, <1>9, <2>1, <2>2, <2>5, <2>7, <3>1 DEF IInv, Typed
    <3>4. CallInProgress'
      <4>1. /\ call'.j <= call'.i /\ call'.i <= call'.n /\ call'.n = Len(buff')
            /\ \A x \in 1 .. call'.n : call'.addr + x - 1 \in Sectors
        BY <1>1, <1>2, <1>3, <2>2, <3>1 DEF a
      <4>2. \A x \in 1 .. call'.i : buff'[x] \in Values /\ buff'[x] = latest'[call'.addr + x - 1]
        BY <1>4, <2>2, <3>2 DEF a
      <4>3. \A x \in call'.j .. call'.i - 1 : call'.addr + x \notin cache'.entries
        BY <1>3, <1>7, <2>2 DEF a
      <4>4. /\ pc' = "insert" /\ call'.ok /\ ~call'.write
            /\ call'.hit = IF call'.i < call'.n THEN call'.addr + call'.i ELSE None
        BY <1>9, <2>2, <2>5 DEF a
      <4> QED
        BY <4>1, <4>2, <4>3, <4>4 DEF CallInProgress
    <3>5. CachedIsLatest'
      BY <1>4, <1>7, <1>9, <2>1 DEF IInv, CachedIsLatest
    <3> QED
      BY <1>7, <3>3, <3>4, <3>5 DEF IInv
  <2>6. CASE ~r.ok
    <3>1. buff' = buff /\ pc' = "return" /\ ~call'.ok
      BY <1>9, <2>2, <2>6
    <3>2. Typed'
      BY <1>4, <1>7, <1>9, <2>1, <2>2, <2>7, <3>1 DEF IInv, Typed
    <3>3. CallInProgress'
      BY <1>1, <1>2, <1>3, <2>2, <3>1 DEF CallInProgress, a
    <3>4. CachedIsLatest'
      BY <1>4, <1>7, <1>9, <2>1 DEF IInv, CachedIsLatest
    <3> QED
      BY <1>7, <3>2, <3>3, <3>4 DEF IInv
  <2> QED
    BY <2>5, <2>6
<1> QED
  BY <1>5, <1>8, <1>9

\* An eviction between two insertions takes out sectors only.
LEMMA MakeRoomStep ==
  ASSUME IInv, MakeRoom
  PROVE  IInv'
<1>1. /\ EvictOldest /\ pc = "insert" /\ pc' = "link"
      /\ call' = call /\ buff' = buff /\ latest' = latest
  BY DEF MakeRoom
<1>2. /\ cache' \in Caches /\ cache'.entries \subseteq cache.entries
      /\ sector' \in [Sectors -> Contents] /\ dirty' \subseteq cache'.entries
      /\ disk' \in [OnDisk -> Values] /\ errored' \in BOOLEAN /\ recency' \in Seq(Sectors)
      /\ CachedIsLatest' /\ ListIsRecency'
  BY <1>1, EvictionStep DEF IInv
<1>3. Typed'
  BY <1>1, <1>2 DEF IInv, Typed
<1>4. CallInProgress'
  BY <1>1, <1>2 DEF IInv, CallInProgress
<1> QED
  BY <1>2, <1>3, <1>4 DEF IInv

\* A counter of the loop is increased.
LEMMA CounterIncreased ==
  ASSUME NEW c \in Calls
  PROVE  /\ [c EXCEPT !.i = @ + 1] \in Calls /\ [c EXCEPT !.j = @ + 1] \in Calls
         /\ [c EXCEPT !.i = @ + 1].i = c.i + 1 /\ [c EXCEPT !.j = @ + 1].j = c.j + 1
<1>1. c.i + 1 \in Nat /\ c.j + 1 \in Nat
  BY DEF Calls
<1> QED
  BY <1>1 DEF Calls

\* A sector that was passed over is inserted with what the call has in the buffer for it.
LEMMA InsertNextStep ==
  ASSUME IInv, InsertNext
  PROVE  IInv'
<1> DEFINE k == call.addr + call.j
           value == buff[call.j + 1]
<1>1. /\ call \in Calls /\ call.j \in Nat /\ call.i \in Nat /\ call.n \in Nat /\ call.addr \in Nat
      /\ call.j < call.i /\ call.i <= call.n /\ call.n = Len(buff) /\ call.ok
      /\ pc \in {"insert", "link"}
  <2>1. call \in Calls /\ pc \in {"insert", "link"} /\ call.j < call.i
    BY DEF IInv, Typed, InsertNext
  <2>2. call.j \in Nat /\ call.i \in Nat /\ call.n \in Nat /\ call.addr \in Nat
    BY <2>1, DiskCacheAssumption DEF Calls
  <2> QED
    BY <2>1, <2>2 DEF IInv, CallInProgress
<1>2. call.j + 1 \in 1 .. call.i /\ call.j + 1 \in 1 .. call.n /\ call.j \in call.j .. call.i - 1
      /\ call.addr + (call.j + 1) - 1 = k
  BY <1>1
<1>3. k \in Sectors /\ k \notin cache.entries
  BY <1>1, <1>2 DEF IInv, CallInProgress
<1>4. value \in Values /\ (~call.write => value = latest[k])
  BY <1>1, <1>2 DEF IInv, CallInProgress
<1>5. CASE InsertStrays(cache)
  <2>1. pc' = "dangling" /\ UNCHANGED <<store, call, latest, buff>>
    BY <1>5 DEF InsertNext
  <2> QED
    BY <1>1, <2>1 DEF IInv, Typed, CachedIsLatest, CallInProgress, ListIsRecency, store
<1>6. CASE ~InsertStrays(cache)
  <2>1. /\ cache' = Insert(cache, k) /\ recency' = <<k>> \o recency
        /\ sector' = [sector EXCEPT ![k] = value]
        /\ dirty' = IF call.write THEN dirty \union {k} ELSE dirty
        /\ latest' = IF call.write THEN [latest EXCEPT ![k] = value] ELSE latest
        /\ call' = [call EXCEPT !.j = @ + 1] /\ pc' = "insert"
        /\ disk' = disk /\ errored' = errored /\ buff' = buff
    BY <1>6 DEF InsertNext
  <2> HIDE DEF k, value
  <2>2. /\ cache' \in Caches /\ cache'.entries = cache.entries \union {k}
        /\ recency' \in Seq(Sectors) /\ ListIsRecency'
    BY <1>3, <1>6, <2>1, CacheTypes, InsertIsList DEF IInv, Typed, ListIsRecency, Sectors
  <2>3. /\ call' \in Calls /\ call'.j = call.j + 1 /\ call'.i = call.i /\ call'.n = call.n
        /\ call'.addr = call.addr /\ call'.hit = call.hit /\ call'.ok = call.ok
        /\ call'.write = call.write /\ call'.ranges = call.ranges
    BY <1>1, <2>1, CounterIncreased DEF Calls
  <2>4. Typed'
    BY <1>3, <1>4, <2>1, <2>2, <2>3 DEF IInv, Typed, Contents
  <2>5. CachedIsLatest'
    <3>1. sector' = [sector EXCEPT ![k] = latest'[k]] /\ latest'[k] \in Values
      BY <1>3, <1>4, <2>1 DEF IInv, Typed
    <3>2. \A x \in Sectors : x # k => latest'[x] = latest[x]
      BY <2>1 DEF IInv, Typed
    <3>3. \A x \in Sectors : sector'[x] \in IF x \in cache'.entries THEN Values ELSE {None}
      BY <1>3, <2>2, <3>1 DEF IInv, Typed, CachedIsLatest
    <3>4. \A x \in cache'.entries : sector'[x] = latest'[x]
      BY <1>3, <2>2, <3>1, <3>2 DEF IInv, Typed, CachedIsLatest, Caches, Sectors
    <3>5. ~errored' => \A x \in OnDisk : x \notin dirty' => disk'[x] = latest'[x]
      <4>1. \A x \in OnDisk : x \notin dirty' => x \notin dirty /\ latest'[x] = latest[x]
        BY <2>1 DEF IInv, Typed
      <4> QED
        BY <2>1, <4>1 DEF IInv, CachedIsLatest
    <3> QED
      BY <3>3, <3>4, <3>5 DEF CachedIsLatest
  <2>6. CallInProgress'
    <3>1. \A x \in call'.j .. call'.i - 1 : call'.addr + x \notin cache'.entries
      <4>1. \A x \in call'.j .. call'.i - 1 : x \in call.j .. call.i - 1 /\ call.addr + x # k
        BY <1>1, <2>3 DEF k
      <4>2. \A x \in call.j .. call.i - 1 : call.addr + x \notin cache.entries
        BY <1>1 DEF IInv, CallInProgress
      <4> QED
        BY <2>2, <2>3, <4>1, <4>2
    <3>2. call'.j <= call'.i
      BY <1>1, <2>3
    <3>3. ~call.write => latest' = latest
      BY <2>1
    <3>4. /\ call'.i <= call'.n /\ call'.n = Len(buff')
          /\ \A x \in 1 .. call'.n : call'.addr + x - 1 \in Sectors
          /\ call'.write => \A x \in 1 .. call'.n : buff'[x] \in Values
          /\ ~call'.write /\ call'.ok =>
               \A x \in 1 .. call'.i : buff'[x] \in Values /\ buff'[x] = latest'[call'.addr + x - 1]
          /\ call'.hit = IF call'.i < call'.n THEN call'.addr + call'.i ELSE None
      BY <1>1, <2>1, <2>3, <3>3 DEF IInv, CallInProgress
    <3> QED
      BY <1>1, <2>1, <2>3, <3>1, <3>2, <3>4 DEF CallInProgress
  <2> QED
    BY <2>2, <2>4, <2>5, <2>6 DEF IInv
<1> QED
  BY <1>5, <1>6

\* The sector that was found is used in the cache.
LEMMA UseHitStep ==
  ASSUME IInv, UseHit
  PROVE  IInv'
<1> DEFINE k == call.hit
           x == call.i + 1
<1>1. /\ call \in Calls /\ call.i \in Nat /\ call.j \in Nat /\ call.n \in Nat /\ call.addr \in Nat
      /\ call.j = call.i /\ call.n = Len(buff) /\ call.ok /\ pc = "insert"
      /\ k \in cache.entries /\ k \in Sectors
  <2>1. call \in Calls /\ pc = "insert" /\ call.j = call.i /\ k \in cache.entries
    BY DEF IInv, Typed, UseHit
  <2>2. call.j \in Nat /\ call.i \in Nat /\ call.n \in Nat /\ call.addr \in Nat
    BY <2>1, DiskCacheAssumption DEF Calls
  <2>3. k \in Sectors
    BY <2>1 DEF IInv, Typed, Caches, Sectors
  <2> QED
    BY <2>1, <2>2, <2>3 DEF IInv, CallInProgress
<1>2. call.i < call.n /\ k = call.addr + call.i
  <2>1. k # None
    BY <1>1, LRUCacheAssumption DEF Sectors
  <2>2. call.hit = IF call.i < call.n THEN call.addr + call.i ELSE None
    BY <1>1 DEF IInv, CallInProgress
  <2> QED
    BY <2>1, <2>2
<1>3. x \in 1 .. call.n /\ call.addr + x - 1 = k
  BY <1>1, <1>2
<1>4. /\ call' = [call EXCEPT !.i = @ + 1]
      /\ pc' = IF call.i + 1 < call.n THEN "scan" ELSE "return"
      /\ cache' = cache /\ disk' = disk /\ errored' = errored /\ recency' = recency
  BY DEF UseHit
<1>5. /\ call.write => /\ sector' = [sector EXCEPT ![k] = buff[x]]
                       /\ latest' = [latest EXCEPT ![k] = buff[x]]
                       /\ dirty' = dirty \union {k} /\ buff' = buff
      /\ ~call.write => /\ buff' = [buff EXCEPT ![x] = sector[k]]
                        /\ sector' = sector /\ latest' = latest /\ dirty' = dirty
  BY DEF UseHit, MarkDirty
<1>6. /\ call' \in Calls /\ call'.j = call.j /\ call'.i = call.i + 1 /\ call'.n = call.n
      /\ call'.addr = call.addr /\ call'.hit = call.hit /\ call'.ok = call.ok
      /\ call'.write = call.write /\ call'.ranges = call.ranges
  BY <1>1, <1>4, CounterIncreased DEF Calls
<1> HIDE DEF k, x
<1>7. ListIsRecency'
  BY <1>4 DEF IInv, ListIsRecency
<1>8. /\ call.write => buff[x] \in Values
      /\ sector[k] \in Values /\ sector[k] = latest[k]
  BY <1>1, <1>3 DEF IInv, CallInProgress, CachedIsLatest
<1>9. CASE call.write
  <2>1. Typed'
    BY <1>1, <1>3, <1>4, <1>5, <1>6, <1>8, <1>9 DEF IInv, Typed, Contents
  <2>2. CachedIsLatest'
    <3>1. \A y \in Sectors : sector'[y] = IF y = k THEN buff[x] ELSE sector[y]
      BY <1>1, <1>5, <1>9 DEF IInv, Typed
    <3>2. \A y \in Sectors : latest'[y] = IF y = k THEN buff[x] ELSE latest[y]
      BY <1>1, <1>5, <1>9 DEF IInv, Typed
    <3>3. \A y \in Sectors : sector'[y] \in IF y \in cache'.entries THEN Values ELSE {None}
      BY <1>1, <1>4, <1>8, <1>9, <3>1 DEF IInv, CachedIsLatest
    <3>4. \A y \in cache'.entries : sector'[y] = latest'[y]
      BY <1>1, <1>4, <3>1, <3>2 DEF IInv, Typed, CachedIsLatest, Caches, Sectors
    <3>5. ~errored' => \A y \in OnDisk : y \notin dirty' => disk'[y] = latest'[y]
      <4>1. \A y \in OnDisk : y \in Sectors
        BY DiskCacheAssumption, DiskCommandAssumption DEF OnDisk
      <4>2. \A y \in OnDisk : y \notin dirty' => y \notin dirty /\ latest'[y] = latest[y]
        BY <1>5, <1>9, <3>2, <4>1
      <4> QED
        BY <1>4, <4>2 DEF IInv, CachedIsLatest
    <3> QED
      BY <3>3, <3>4, <3>5 DEF CachedIsLatest
  <2>3. CallInProgress'
    BY <1>1, <1>2, <1>4, <1>5, <1>6, <1>9 DEF IInv, CallInProgress
  <2> QED
    BY <1>7, <2>1, <2>2, <2>3 DEF IInv
<1>10. CASE ~call.write
  <2>1. /\ buff' \in Seq(Contents) /\ Len(buff') = call.n
        /\ \A y \in 1 .. call.n : buff'[y] = IF y = x THEN sector[k] ELSE buff[y]
    <3>1. buff \in [1 .. call.n -> Contents]
      BY <1>1 DEF IInv, Typed
    <3>2. buff' \in [1 .. call.n -> Contents]
      BY <1>5, <1>8, <1>10, <3>1 DEF Contents
    <3> QED
      BY <1>1, <1>5, <1>10, <3>1, <3>2, FunctionIsSeq
  <2>2. Typed'
    BY <1>4, <1>5, <1>6, <1>10, <2>1 DEF IInv, Typed
  <2>3. CachedIsLatest'
    BY <1>4, <1>5, <1>10 DEF IInv, CachedIsLatest
  <2>4. \A y \in 1 .. call'.i : buff'[y] \in Values /\ buff'[y] = latest'[call'.addr + y - 1]
    <3>1. \A y \in 1 .. call.i : buff[y] \in Values /\ buff[y] = latest[call.addr + y - 1]
      BY <1>1, <1>10 DEF IInv, CallInProgress
    <3>2. \A y \in 1 .. call'.i : y \in 1 .. call.n /\ (y # x => y \in 1 .. call.i)
      BY <1>1, <1>2, <1>6 DEF x
    <3> QED
      BY <1>3, <1>5, <1>6, <1>8, <1>10, <2>1, <3>1, <3>2
  <2>5. CallInProgress'
    BY <1>1, <1>2, <1>4, <1>6, <1>10, <2>1, <2>4 DEF IInv, CallInProgress
  <2> QED
    BY <1>7, <2>2, <2>3, <2>5 DEF IInv
<1> QED
  BY <1>9, <1>10

\* Nothing but the place where the driver stands changes, and the list of the requests.
LEMMA RestStep ==
  ASSUME IInv, HitIsGone \/ NoHit \/ Return \/ Destroy \/ UNCHANGED vars
  PROVE  IInv'
<1>1. UNCHANGED <<store, latest>>
  BY DEF HitIsGone, NoHit, Return, Destroy, vars, store
<1>2. CachedIsLatest' /\ ListIsRecency'
  BY <1>1 DEF IInv, CachedIsLatest, ListIsRecency, store
<1>3. CASE HitIsGone
  <2>1. pc' = "dangling" /\ call' = call /\ buff' = buff
    BY <1>3 DEF HitIsGone
  <2> QED
    BY <1>1, <1>2, <2>1 DEF IInv, Typed, CallInProgress, store
<1>4. CASE NoHit
  <2>1. pc = "insert" /\ pc' = "return" /\ call' = call /\ buff' = buff /\ call.hit = None
    BY <1>4 DEF NoHit
  <2>2. call.i = call.n
    <3>1. /\ call \in Calls /\ call.i <= call.n
          /\ call.hit = IF call.i < call.n THEN call.addr + call.i ELSE None
      BY <2>1 DEF IInv, Typed, CallInProgress
    <3>2. call.i \in Nat /\ call.n \in Nat
      BY <3>1 DEF Calls
    <3>3. call.i < call.n => call.i + 1 \in 1 .. call.n /\ call.addr + (call.i + 1) - 1 = call.addr + call.i
      BY <3>1, <3>2, DiskCacheAssumption DEF Calls
    <3>4. call.i < call.n => call.addr + call.i \in Sectors
      BY <3>3 DEF IInv, CallInProgress
    <3> QED
      BY <2>1, <3>1, <3>2, <3>4, LRUCacheAssumption DEF Sectors
  <2> QED
    BY <1>1, <1>2, <2>1, <2>2 DEF IInv, Typed, CallInProgress, store
<1>5. CASE Return
  <2>1. call' = NoCall /\ buff' = <<>> /\ pc' = "idle"
    BY <1>5 DEF Return
  <2>2. NoCall \in Calls /\ NoCall.ranges = <<>>
    BY DiskCacheAssumption, DiskCommandAssumption DEF NoCall, Calls, Link
  <2>3. Typed'
    BY <1>1, <2>1, <2>2 DEF IInv, Typed, store
  <2>4. CallInProgress'
    BY <2>1 DEF CallInProgress, NoCall
  <2> QED
    BY <1>2, <2>3, <2>4 DEF IInv
<1>6. CASE Destroy
  <2>1. pc' = "flush" /\ call' = call /\ buff' = buff
    BY <1>6 DEF Destroy
  <2> QED
    BY <1>1, <1>2, <2>1 DEF IInv, Typed, CallInProgress, store
<1>7. CASE UNCHANGED vars
  BY <1>2, <1>7 DEF IInv, Typed, CallInProgress, vars
<1> QED
  BY <1>3, <1>4, <1>5, <1>6, <1>7

\* The destructor evicts one sector after the other.
LEMMA FlushStep ==
  ASSUME IInv, Flush
  PROVE  IInv'
<1>1. /\ call' = call /\ buff' = buff /\ latest' = latest /\ pc = "flush" /\ pc' \in {"flush", "down"}
      /\ EvictOldest \/ UNCHANGED store
  BY DEF Flush
<1>2. /\ cache' \in Caches /\ sector' \in [Sectors -> Contents] /\ dirty' \subseteq cache'.entries
      /\ disk' \in [OnDisk -> Values] /\ errored' \in BOOLEAN /\ recency' \in Seq(Sectors)
      /\ CachedIsLatest' /\ ListIsRecency'
  <2>1. CASE EvictOldest
    BY <1>1, <2>1, EvictionStep DEF IInv
  <2>2. CASE UNCHANGED store
    BY <1>1, <2>2 DEF IInv, Typed, CachedIsLatest, ListIsRecency, store
  <2> QED
    BY <1>1, <2>1, <2>2
<1>3. Typed'
  BY <1>1, <1>2 DEF IInv, Typed
<1>4. CallInProgress'
  BY <1>1 DEF IInv, CallInProgress
<1> QED
  BY <1>2, <1>3, <1>4 DEF IInv

\* The calls that the cache is given.
LEMMA RequestStep ==
  ASSUME IInv,
         \/ \E a \in Sectors, n \in 1 .. MaxLen :
              Read(a, n) \/ \E data \in [1 .. n -> Values] : Write(a, data)
         \/ \E a, b \in Sectors :
              ReadRanges(a, b) \/ \E data \in [1 .. 2 -> Values] : WriteRanges(a, b, data)
         \/ NextRange
  PROVE  IInv'
<1>1. \A a \in Sectors, n \in Nat : DiskRange(a, Unread(n)) \in Ranges(FALSE)
  <2>1. \A n \in Nat : Unread(n) \in Seq(Contents)
    BY FunctionIsSeq DEF Unread, Contents
  <2> QED
    BY <2>1 DEF DiskRange, Ranges
<1>2. \A a \in Sectors : \A data \in Seq(Values) : DiskRange(a, data) \in Ranges(TRUE)
  BY DEF DiskRange, Ranges
<1>8. \A w \in BOOLEAN : <<>> \in Seq(Ranges(w))
  OBVIOUS
<1>3. ASSUME NEW a \in Sectors, NEW n \in 1 .. MaxLen, Read(a, n)
      PROVE  IInv'
  <2>1. DiskRange(a, Unread(n)) \in Ranges(FALSE)
    <3>1. n \in Nat
      BY DiskCacheAssumption
    <3> QED
      BY <1>1, <3>1
  <2> QED
    BY <1>8, <1>3, <2>1, BeginStep DEF Read
<1>4. ASSUME NEW a \in Sectors, NEW n \in 1 .. MaxLen, NEW data \in [1 .. n -> Values], Write(a, data)
      PROVE  IInv'
  <2>1. data \in Seq(Values)
    BY FunctionIsSeq
  <2> QED
    BY <1>8, <1>2, <1>4, <2>1, BeginStep DEF Write
<1>5. ASSUME NEW a \in Sectors, NEW b \in Sectors, ReadRanges(a, b)
      PROVE  IInv'
  <2>1. DiskRange(a, Unread(1)) \in Ranges(FALSE) /\ DiskRange(b, Unread(1)) \in Ranges(FALSE)
    BY <1>1
  <2>2. \A x \in Ranges(FALSE) : <<x>> \in Seq(Ranges(FALSE))
    BY OneIsSeq
  <2> QED
    BY <1>5, <2>1, <2>2, BeginStep DEF ReadRanges
<1>6. ASSUME NEW a \in Sectors, NEW b \in Sectors, NEW data \in [1 .. 2 -> Values], WriteRanges(a, b, data)
      PROVE  IInv'
  <2>1. <<data[1]>> \in Seq(Values) /\ <<data[2]>> \in Seq(Values)
    OBVIOUS
  <2>2. DiskRange(a, <<data[1]>>) \in Ranges(TRUE) /\ DiskRange(b, <<data[2]>>) \in Ranges(TRUE)
    BY <1>2, <2>1
  <2>3. \A x \in Ranges(TRUE) : <<x>> \in Seq(Ranges(TRUE))
    BY OneIsSeq
  <2> QED
    BY <1>6, <2>2, <2>3, BeginStep DEF WriteRanges
<1>7. CASE NextRange
  <2>1. /\ call.write \in BOOLEAN /\ call.ranges \in Seq(Ranges(call.write)) /\ call.ranges # <<>>
        /\ CacheReadWrite(call.write, call.ranges[1], Tail(call.ranges))
    BY <1>7 DEF IInv, Typed, Calls, NextRange
  <2>2. call.ranges[1] \in Ranges(call.write) /\ Tail(call.ranges) \in Seq(Ranges(call.write))
    <3> DEFINE A == Ranges(call.write)
               t == call.ranges
    <3>1. t \in Seq(A) /\ t # <<>>
      BY <2>1
    <3> HIDE DEF A, t
    <3>2. t[1] \in A /\ Tail(t) \in Seq(A)
      BY <3>1
    <3> QED
      BY <3>2 DEF A, t
  <2> QED
    BY <2>1, <2>2, BeginStep
<1> QED
  BY <1>3, <1>4, <1>5, <1>6, <1>7

\* The empty cache.
LEMMA InitIInv == Init => IInv
<1> SUFFICES ASSUME Init PROVE IInv
  OBVIOUS
<1> USE DiskCacheAssumption, DiskCommandAssumption, LRUCacheAssumption
<1>1. cache \in Caches /\ cache.entries = {} /\ cache.lru = None
  BY DEF Init, EmptyCache, Caches, Link
<1>2. call \in Calls /\ call.ranges = <<>>
  BY DEF Init, NoCall, Calls, Link
<1>3. \A k \in OnDisk : k \in Sectors /\ latest[k] = disk[k] /\ disk[k] \in Values
  BY DEF Init, OnDisk
<1>4. Typed
  <2>1. /\ call.ranges \in Seq(Ranges(call.write)) /\ buff \in Seq(Contents) /\ recency \in Seq(Sectors)
        /\ dirty = {} /\ pc = "idle" /\ errored = FALSE
    BY <1>2 DEF Init
  <2>2. /\ sector \in [Sectors -> Contents] /\ latest \in [Sectors -> Contents]
        /\ disk \in [OnDisk -> Values]
    BY <1>3 DEF Init, Contents
  <2> QED
    BY <1>1, <1>2, <2>1, <2>2 DEF Typed
<1>5. CachedIsLatest
  BY <1>1, <1>3 DEF Init, CachedIsLatest
<1>6. CallInProgress
  BY DEF Init, NoCall, CallInProgress
<1>7. ListIsRecency
  BY <1>1 DEF Init, ListIsRecency, IsList
<1> QED
  BY <1>4, <1>5, <1>6, <1>7 DEF IInv

\* The inductive invariant.
THEOREM Invariant == Spec => []IInv
<1>1. IInv /\ [Next]_vars => IInv'
  BY RequestStep, ScanStep, MakeRoomStep, InsertNextStep, UseHitStep, RestStep, FlushStep DEF Next
<1> QED
  BY <1>1, InitIInv, PTL DEF Spec

\* Every variable has its type; only cached sectors have contents or are dirty.
THEOREM TypeCorrect == Spec => []TypeOK
<1>1. IInv => TypeOK
  <2> SUFFICES ASSUME IInv PROVE TypeOK
    OBVIOUS
  <2>1. call.i \in 0 .. call.n /\ call.j \in 0 .. call.n /\ call.n = Len(buff)
    <3>1. call.i \in Nat /\ call.j \in Nat /\ call.n \in Nat
      BY DEF IInv, Typed, Calls
    <3>2. call.j <= call.i /\ call.i <= call.n /\ call.n = Len(buff)
      BY DEF IInv, CallInProgress
    <3> QED
      BY <3>1, <3>2
  <2>2. \A k \in Sectors : latest[k] \in Values \union {None}
    BY DEF IInv, Typed, Contents
  <2>3. /\ cache.entries \subseteq Sectors
        /\ cache.mru \in Sectors \union {None} /\ cache.lru \in Sectors \union {None}
        /\ \A k \in Sectors : cache.prev[k] \in Sectors \union {None} /\ cache.next[k] \in Sectors \union {None}
    BY DEF IInv, Typed, Caches, Link, Sectors
  <2> QED
    BY <2>1, <2>2, <2>3 DEF IInv, Typed, CachedIsLatest, TypeOK
<1> QED
  BY <1>1, Invariant, PTL

\* The cached sectors are listed in the order of their last use, so that it is the sector
\* not used longest that is evicted.
THEOREM InOrderOfUse == Spec => []ListIsRecency
<1>1. IInv => ListIsRecency
  BY DEF IInv
<1> QED
  BY <1>1, Invariant, PTL

\* A read that reports success has put the latest contents of its sectors in the buffer.
THEOREM ReadsLatest == Spec => []ReadsAreLatest
<1>1. IInv => ReadsAreLatest
  BY DEF IInv, CallInProgress, ReadsAreLatest
<1> QED
  BY <1>1, Invariant, PTL

\* No write is lost as long as the device has not failed.
THEOREM WritesKept == Spec => []NothingLost
<1>1. IInv => NothingLost
  BY DEF IInv, CachedIsLatest, NothingLost
<1> QED
  BY <1>1, Invariant, PTL

================================================================================
