----------------------------- MODULE KHeap_proofs -----------------------------
(* That the chunks of the kernel heap tile it, know their neighbours, and lie on *)
(* the bins exactly if they are free, for a heap and requests of any size.       *)
EXTENDS KHeap, WellFoundedInduction, TLAPS

--------------------------------------------------------------------------------
(* Bins: each size that a chunk can have has one.                                *)

\* A set of naturals that is not empty has a least element.
LEMMA LeastExists ==
  ASSUME NEW T \in SUBSET Nat, T # {}
  PROVE  \E x \in T : \A y \in T : x <= y
<1> DEFINE R == {ss \in Nat \X Nat : ss[1] < ss[2]}
<1>1. IsWellFoundedOn(R, Nat)
  BY NatLessThanWellFounded DEF OpToRel
<1> HIDE DEF R
<1>2. PICK x \in T : \A y \in T : ~(<<y, x>> \in R)
  BY <1>1, WFMin
<1>3. \A y \in T : ~(y < x)
  BY <1>2 DEF R
<1> QED
  BY <1>3

\* So has one of naturals below a bound a greatest.
LEMMA GreatestExists ==
  ASSUME NEW K \in Nat, NEW T \in SUBSET (0 .. K), T # {}
  PROVE  \E x \in T : \A y \in T : y <= x
<1> DEFINE U == {z \in 0 .. K : K - z \in T}
<1>1. U \in SUBSET Nat /\ U # {}
  <2>1. PICK x \in T : TRUE
    OBVIOUS
  <2>2. K - x \in 0 .. K /\ K - (K - x) = x
    OBVIOUS
  <2>3. K - x \in U
    BY <2>1, <2>2
  <2> QED
    BY <2>3
<1>2. PICK u \in U : \A v \in U : u <= v
  BY <1>1, LeastExists
<1>3. ASSUME NEW y \in T PROVE y <= K - u
  <2>1. K - y \in 0 .. K /\ K - (K - y) = y /\ y \in 0 .. K
    OBVIOUS
  <2>2. K - y \in U
    BY <2>1
  <2> QED
    BY <1>2, <2>1, <2>2
<1> QED
  BY <1>2, <1>3

LEMMA Powers ==
  /\ \A k \in 0 .. 2 * MaxUnits + 1 : 2^k \in Nat
  /\ \A k \in 0 .. 2 * MaxUnits : 2^(k + 1) = 2 * 2^k
  /\ 2^0 = 1 /\ MaxUnits \in Nat \ {0} /\ HeapUnits \in 1 .. MaxUnits
<1>1. MaxUnits \in Nat \ {0} /\ HeapUnits \in 1 .. MaxUnits
  BY KHeapAssumption
<1>2. ASSUME NEW k \in 0 .. 2 * MaxUnits + 1 PROVE 2^k \in Nat
  <2>1. CASE k \in 0 .. 2 * MaxUnits
    BY Zenon, <2>1, KHeapAssumption
  <2>2. CASE k = 2 * MaxUnits + 1
    <3>1. 2 * MaxUnits \in 0 .. 2 * MaxUnits
      BY <1>1
    <3>2. 2^(2 * MaxUnits) \in Nat /\ 2^(2 * MaxUnits + 1) = 2 * 2^(2 * MaxUnits)
      BY Zenon, <3>1, KHeapAssumption
    <3> QED
      BY <2>2, <3>2
  <2> QED
    BY <1>1, <2>1, <2>2
<1> QED
  BY Zenon, <1>1, <1>2, KHeapAssumption

\* 2^k is positive, more than k, and grows with it.
LEMMA PowerAbove ==
  ASSUME NEW k \in 0 .. 2 * MaxUnits + 1
  PROVE  2^k > k
<1> DEFINE T == {j \in 0 .. 2 * MaxUnits + 1 : ~(2^j > j)}
<1>1. SUFFICES ASSUME T # {} PROVE FALSE
  OBVIOUS
<1>2. PICK j \in T : \A i \in T : j <= i
  <2>1. T \in SUBSET Nat
    BY Powers
  <2> QED
    BY <1>1, <2>1, LeastExists
<1>0. j \in 0 .. 2 * MaxUnits + 1 /\ ~(2^j > j) /\ MaxUnits \in Nat
  BY Powers
<1>6. j # 0
  <2>1. 2^0 > 0
    BY Powers
  <2> QED
    BY <1>0, <2>1
<1>3. j \in Nat /\ j # 0 /\ j - 1 \in 0 .. 2 * MaxUnits /\ ~(j <= j - 1) /\ (j - 1) + 1 = j
  BY <1>0, <1>6
<1>4. 2^(j - 1) > j - 1 /\ 2^(j - 1) \in Nat
  BY <1>2, <1>3, Powers
<1>5. 2^j = 2 * 2^(j - 1)
  BY <1>3, Powers
<1> QED
  BY <1>3, <1>4, <1>5

LEMMA PowerGrows ==
  ASSUME NEW i \in 0 .. 2 * MaxUnits + 1, NEW k \in 0 .. 2 * MaxUnits + 1, i <= k
  PROVE  2^i <= 2^k
<1> DEFINE T == {j \in i .. 2 * MaxUnits + 1 : ~(2^i <= 2^j)}
<1>1. SUFFICES ASSUME T # {} PROVE FALSE
  OBVIOUS
<1>2. PICK j \in T : \A x \in T : j <= x
  <2>1. T \in SUBSET Nat
    BY Powers
  <2> QED
    BY <1>1, <2>1, LeastExists
<1>3. j \in i .. 2 * MaxUnits + 1 /\ ~(2^i <= 2^j)
  OBVIOUS
<1>4. 2^i \in Nat /\ 2^j \in Nat
  BY <1>3, Powers
<1>5. j # i
  BY <1>3, <1>4
<1>6. j - 1 \in i .. 2 * MaxUnits + 1 /\ ~(j <= j - 1) /\ (j - 1) + 1 = j /\ j - 1 \in 0 .. 2 * MaxUnits
  BY <1>3, <1>5, Powers
<1>7. 2^i <= 2^(j - 1) /\ 2^(j - 1) \in Nat
  BY <1>2, <1>6, Powers
<1>8. 2^j = 2 * 2^(j - 1)
  BY <1>6, Powers
<1> QED
  BY <1>3, <1>4, <1>7, <1>8

LEMMA Log2Bounds ==
  ASSUME NEW n \in 1 .. 2 * MaxUnits
  PROVE  Log2(n) \in 0 .. n /\ 2^Log2(n) <= n /\ n < 2^(Log2(n) + 1)
<1> DEFINE T == {j \in 0 .. 2 * MaxUnits : n < 2^j}
<1>1. T \in SUBSET Nat /\ n \in T
  BY PowerAbove, Powers
<1>2. PICK j \in T : \A i \in T : j <= i
  BY <1>1, LeastExists
<1>3. j \in 0 .. n /\ j \in Nat /\ n < 2^j
  BY <1>1, <1>2
<1>4. j # 0
  <2>1. ~(n < 2^0)
    BY Powers
  <2> QED
    BY <1>3, <2>1
<1>5. j - 1 \in 0 .. n /\ j - 1 \in 0 .. 2 * MaxUnits /\ ~(j <= j - 1) /\ (j - 1) + 1 = j
  BY <1>3, <1>4, Powers
<1>6. 2^(j - 1) <= n
  BY <1>2, <1>5, Powers
<1>7. \E k \in 0 .. n : 2^k <= n /\ n < 2^(k + 1)
  BY <1>3, <1>5, <1>6
<1> QED
  BY <1>7 DEF Log2

LEMMA Log2Grows ==
  ASSUME NEW b \in 1 .. 2 * MaxUnits,
         NEW i \in Nat, i <= 2 * MaxUnits, 2^i <= b
  PROVE  i <= Log2(b)
<1>1. Log2(b) \in 0 .. b /\ b < 2^(Log2(b) + 1)
  BY Log2Bounds
<1>2. SUFFICES ASSUME Log2(b) + 1 <= i PROVE FALSE
  BY <1>1
<1>3. Log2(b) + 1 \in 0 .. 2 * MaxUnits + 1 /\ i \in 0 .. 2 * MaxUnits + 1
  BY <1>1, <1>2, Powers
<1>4. 2^(Log2(b) + 1) <= 2^i /\ 2^i \in Nat /\ 2^(Log2(b) + 1) \in Nat
  BY <1>2, <1>3, PowerGrows, Powers
<1> QED
  BY <1>1, <1>4

\* Below Fine a bin is a size, from there on it is what Log2 and one more bit make it.
LEMMA CoarseBin ==
  ASSUME NEW n \in Fine .. 2 * MaxUnits
  PROVE  /\ Log2(n) \in Nat /\ Log2(Fine) \in Nat /\ Log2(Fine) <= Log2(n)
         /\ \E x \in {0, 1} : BinIndex(n) = Fine + 2 * (Log2(n) - Log2(Fine)) + x
<1>0. MaxUnits \in Nat /\ Fine \in Nat /\ Fine >= 2
  BY KHeapAssumption
<1>1. n \in 1 .. 2 * MaxUnits /\ Fine \in 1 .. 2 * MaxUnits /\ Fine >= 2 /\ n >= 2 /\ Fine \in Nat
  BY <1>0
<1>2. Log2(n) \in Nat /\ Log2(n) <= 2 * MaxUnits /\ n < 2^(Log2(n) + 1)
  <2>1. Log2(n) \in 0 .. n /\ n < 2^(Log2(n) + 1)
    BY <1>1, Log2Bounds
  <2> QED
    BY <1>0, <1>1, <2>1
<1>3. Log2(Fine) \in Nat /\ Log2(Fine) <= 2 * MaxUnits /\ 2^Log2(Fine) <= Fine
  <2>1. Log2(Fine) \in 0 .. Fine /\ 2^Log2(Fine) <= Fine
    BY <1>1, Log2Bounds
  <2> QED
    BY <1>0, <1>1, <2>1
<1>4. 2^Log2(Fine) \in Nat
  BY <1>3, Powers
<1>5. 2^Log2(Fine) <= n
  BY <1>1, <1>3, <1>4
<1>6. Log2(Fine) <= Log2(n)
  BY <1>1, <1>3, <1>5, Log2Grows
<1>7. Log2(n) # 0
  <2>1. ASSUME Log2(n) = 0 PROVE FALSE
    <3>1. 2^(0 + 1) = 2 * 2^0
      BY Powers
    <3> QED
      BY <1>1, <1>2, <2>1, <3>1, Powers
  <2> QED
    BY <2>1
<1> DEFINE d == 2^(Log2(n) - 1)
           x == (n \div d) % 2
<1>8. d \in Nat /\ d > 0
  <2>1. Log2(n) - 1 \in 0 .. 2 * MaxUnits + 1
    BY <1>0, <1>2, <1>7
  <2> QED
    BY <2>1, PowerAbove, Powers
<1>9. x \in {0, 1}
  <2> HIDE DEF d
  <2>1. n \div d \in Int
    BY <1>1, <1>8
  <2> DEFINE q == n \div d
  <2>2. q \in Int
    BY <2>1
  <2> HIDE DEF q
  <2>3. q % 2 \in {0, 1}
    BY <2>2
  <2> QED
    BY <2>3 DEF q
<1>10. BinIndex(n) = Fine + 2 * (Log2(n) - Log2(Fine)) + x
  <2>1. ~(n < Fine)
    BY <1>1
  <2> QED
    BY <2>1 DEF BinIndex
<1> HIDE DEF x
<1> QED
  BY <1>2, <1>3, <1>6, <1>9, <1>10

LEMMA BinsHaveSizes ==
  ASSUME NEW n \in 0 .. MaxUnits
  PROVE  BinIndex(n) \in Bins /\ BinIndex(n) \in Nat /\ Bins \subseteq Nat
<1> DEFINE M == 2 * MaxUnits
           top == BinIndex(M)
<1>0. M \in Nat /\ n <= M /\ n \in Nat /\ Fine \in Nat /\ Fine >= 2
  BY KHeapAssumption
<1>1. CASE n < Fine
  <2>1. BinIndex(n) = n
    BY <1>1 DEF BinIndex
  <2>2. top \in Nat /\ top >= n
    <3>1. CASE M < Fine
      BY <1>0, <3>1 DEF BinIndex
    <3>2. CASE ~(M < Fine)
      <4>1. M \in Fine .. 2 * MaxUnits
        BY <1>0, <3>2
      <4> QED
        BY <1>0, <1>1, <4>1, CoarseBin
    <3> QED
      BY <3>1, <3>2
  <2> HIDE DEF top
  <2>3. Bins = 0 .. top
    BY DEF Bins, top
  <2> QED
    BY <1>0, <2>1, <2>2, <2>3
<1>2. CASE ~(n < Fine)
  <2>1. n \in Fine .. 2 * MaxUnits /\ M \in Fine .. 2 * MaxUnits
    BY <1>0, <1>2
  <2>2. /\ Log2(n) \in Nat /\ Log2(Fine) \in Nat /\ Log2(Fine) <= Log2(n)
        /\ \E x \in {0, 1} : BinIndex(n) = Fine + 2 * (Log2(n) - Log2(Fine)) + x
    BY <2>1, CoarseBin
  <2>3. /\ Log2(M) \in Nat /\ \E x \in {0, 1} : top = Fine + 2 * (Log2(M) - Log2(Fine)) + x
    BY <2>1, CoarseBin
  <2>4. Log2(n) + 1 <= Log2(M)
    <3>1. n \in 1 .. 2 * MaxUnits /\ M \in 1 .. 2 * MaxUnits /\ 2 * n <= M
      <4>1. MaxUnits \in Nat /\ n \in Nat /\ n <= MaxUnits
        BY Powers
      <4> QED
        BY <1>0, <1>2, <4>1
    <3>2. 2^Log2(n) <= n /\ Log2(n) \in 0 .. n
      BY <3>1, Log2Bounds
    <3>3. Log2(n) \in 0 .. 2 * MaxUnits /\ Log2(n) + 1 \in Nat /\ Log2(n) + 1 <= 2 * MaxUnits
      BY <3>1, <3>2
    <3>4. 2^(Log2(n) + 1) = 2 * 2^Log2(n) /\ 2^Log2(n) \in Nat
      BY <3>3, Powers
    <3>5. 2^(Log2(n) + 1) <= M
      BY <3>1, <3>2, <3>4
    <3> QED
      BY <3>1, <3>3, <3>5, Log2Grows
  <2> HIDE DEF top
  <2>5. Bins = 0 .. top
    BY DEF Bins, top
  <2> HIDE DEF M
  <2>6. BinIndex(n) \in Nat /\ BinIndex(n) <= top /\ top \in Nat
    BY <1>0, <2>2, <2>3, <2>4
  <2> QED
    BY <2>5, <2>6
<1> QED
  BY <1>1, <1>2

LEMMA BinTop == BinIndex(2 * MaxUnits) \in Nat
<1> DEFINE M == 2 * MaxUnits
<1>0. M \in Nat /\ Fine \in Nat
  BY KHeapAssumption
<1>1. CASE M < Fine
  BY <1>0, <1>1 DEF BinIndex
<1>2. CASE ~(M < Fine)
  <2>1. M \in Fine .. 2 * MaxUnits
    BY <1>0, <1>2
  <2>2. /\ Log2(M) \in Nat /\ Log2(Fine) \in Nat /\ Log2(Fine) <= Log2(M)
        /\ \E x \in {0, 1} : BinIndex(M) = Fine + 2 * (Log2(M) - Log2(Fine)) + x
    BY <2>1, CoarseBin
  <2> QED
    BY <1>0, <2>2
<1> QED
  BY <1>1, <1>2

--------------------------------------------------------------------------------
(* What the stores of the operations leave in the headers.                       *)

Addrs == 0 .. MaxUnits
Header == [size : Nat, used : BOOLEAN, psize : Nat, pused : BOOLEAN]
HeapRec == [hdr : [Addrs -> Header], top : Nat, len : Nat, bins : [Bins -> Seq(Nat)]]

LEMMA Addresses ==
  /\ MaxUnits \in Nat /\ Addrs \subseteq Nat /\ 0 \in Addrs
  /\ \A x \in Nat : x \in Addrs <=> x <= MaxUnits
BY Powers DEF Addrs

LEMMA HeadersStored ==
  ASSUME NEW m \in HeapRec, NEW h \in [Addrs -> Header], NEW r, r = [m EXCEPT !.hdr = h]
  PROVE  r \in HeapRec /\ r.top = m.top /\ r.len = m.len /\ r.bins = m.bins /\ r.hdr = h
BY DEF HeapRec

LEMMA TellStores ==
  ASSUME NEW m \in HeapRec, NEW e \in Addrs, NextChunk(m, e) \in Addrs,
         NEW r, r = TellNext(m, e), NEW n, n = NextChunk(m, e)
  PROVE  /\ r \in HeapRec /\ r.top = m.top /\ r.len = m.len /\ r.bins = m.bins
         /\ \A c \in Addrs : c # n => r.hdr[c] = m.hdr[c]
         /\ r.hdr[n].size = m.hdr[n].size /\ r.hdr[n].used = m.hdr[n].used
         /\ r.hdr[n].psize = m.hdr[e].size /\ r.hdr[n].pused = m.hdr[e].used
<1> DEFINE x == [m.hdr[n] EXCEPT !.psize = m.hdr[e].size, !.pused = m.hdr[e].used]
<1>1. m.hdr[n] \in Header /\ m.hdr[e] \in Header /\ m.hdr \in [Addrs -> Header] /\ n \in Addrs
  BY DEF HeapRec
<1>2. /\ x \in Header /\ x.size = m.hdr[n].size /\ x.psize = m.hdr[e].size
      /\ x.used = m.hdr[n].used /\ x.pused = m.hdr[e].used
  BY <1>1 DEF Header
<1>3. r = [m EXCEPT !.hdr = [m.hdr EXCEPT ![n] = x]]
  BY DEF TellNext
<1> HIDE DEF x
<1>4. /\ r \in HeapRec /\ r.top = m.top /\ r.len = m.len /\ r.bins = m.bins
      /\ r.hdr = [m.hdr EXCEPT ![n] = x]
  <2> DEFINE h == [m.hdr EXCEPT ![n] = x]
  <2>1. h \in [Addrs -> Header] /\ r = [m EXCEPT !.hdr = h]
    BY <1>1, <1>2, <1>3
  <2> HIDE DEF h
  <2>2. r \in HeapRec /\ r.top = m.top /\ r.len = m.len /\ r.bins = m.bins /\ r.hdr = h
    BY <2>1, HeadersStored
  <2> QED
    BY <2>2 DEF h
<1>5. \A c \in Addrs : c # n => r.hdr[c] = m.hdr[c]
  BY <1>1, <1>4
<1>6. r.hdr[n] = x
  BY <1>1, <1>4
<1> QED
  BY <1>2, <1>4, <1>5, <1>6

Using(m, e, b) == [m EXCEPT !.hdr[e].used = b]

LEMMA UseStores ==
  ASSUME NEW m \in HeapRec, NEW e \in Addrs, NEW b \in BOOLEAN,
         NEW r, r = Using(m, e, b)
  PROVE  /\ r \in HeapRec /\ r.top = m.top /\ r.len = m.len /\ r.bins = m.bins
         /\ \A c \in Addrs : c # e => r.hdr[c] = m.hdr[c]
         /\ r.hdr[e].size = m.hdr[e].size /\ r.hdr[e].used = b
         /\ r.hdr[e].psize = m.hdr[e].psize /\ r.hdr[e].pused = m.hdr[e].pused
<1> DEFINE x == [m.hdr[e] EXCEPT !.used = b]
<1>1. m.hdr[e] \in Header /\ m.hdr \in [Addrs -> Header]
  BY DEF HeapRec
<1>2. /\ x \in Header /\ x.size = m.hdr[e].size /\ x.psize = m.hdr[e].psize
      /\ x.used = b /\ x.pused = m.hdr[e].pused
  BY <1>1 DEF Header
<1>3. r = [m EXCEPT !.hdr = [m.hdr EXCEPT ![e] = x]]
  BY DEF Using
<1> HIDE DEF x
<1>4. /\ r \in HeapRec /\ r.top = m.top /\ r.len = m.len /\ r.bins = m.bins
      /\ r.hdr = [m.hdr EXCEPT ![e] = x]
  <2>1. [m.hdr EXCEPT ![e] = x] \in [Addrs -> Header]
    BY <1>1, <1>2
  <2> DEFINE h == [m.hdr EXCEPT ![e] = x]
  <2>2. h \in [Addrs -> Header] /\ r = [m EXCEPT !.hdr = h]
    BY <1>3, <2>1
  <2> HIDE DEF h
  <2>3. r \in HeapRec /\ r.top = m.top /\ r.len = m.len /\ r.bins = m.bins /\ r.hdr = h
    BY <2>2, HeadersStored
  <2> QED
    BY <2>3 DEF h
<1>5. \A c \in Addrs : c # e => r.hdr[c] = m.hdr[c]
  BY <1>1, <1>4
<1>6. r.hdr[e] = x
  BY <1>1, <1>4
<1> QED
  BY <1>2, <1>4, <1>5, <1>6

LEMMA CutStores ==
  ASSUME NEW m \in HeapRec, NEW e \in Addrs, NEW u \in Nat \ {0}, u <= m.hdr[e].size,
         NEW n \in Addrs, n = e + u, NEW r, r = Cut(m, e, u)
  PROVE  /\ r \in HeapRec /\ r.top = (IF e = m.top THEN n ELSE m.top)
         /\ r.len = m.len /\ r.bins = m.bins
         /\ \A c \in Addrs : c # e /\ c # n => r.hdr[c] = m.hdr[c]
         /\ r.hdr[e].size = u /\ r.hdr[e].used
         /\ r.hdr[e].psize = m.hdr[e].psize /\ r.hdr[e].pused = m.hdr[e].pused
         /\ r.hdr[n].size = m.hdr[e].size - u /\ ~r.hdr[n].used
         /\ r.hdr[n].psize = u /\ r.hdr[n].pused
<1> DEFINE x == [m.hdr[e] EXCEPT !.size = u, !.used = TRUE]
           y == [size |-> m.hdr[e].size - u, used |-> FALSE, psize |-> u, pused |-> TRUE]
           t == IF e = m.top THEN n ELSE m.top
<1>1. m.hdr[e] \in Header /\ m.hdr \in [Addrs -> Header] /\ m.hdr[e].size \in Nat
  BY DEF HeapRec, Header
<1>2. /\ x \in Header /\ x.size = u /\ x.psize = m.hdr[e].psize
      /\ x.used /\ x.pused = m.hdr[e].pused
  BY <1>1 DEF Header
<1>3. y \in Header /\ y.size = m.hdr[e].size - u /\ ~y.used /\ y.psize = u /\ y.pused
  BY <1>1 DEF Header
<1>4. r = [m EXCEPT !.hdr = [m.hdr EXCEPT ![e] = x, ![n] = y], !.top = t]
  BY DEF Cut
<1>7. n \in Addrs /\ n # e
  BY Addresses
<1>6. t \in Nat
  BY Addresses DEF HeapRec
<1> HIDE DEF x, y, t
<1>9. /\ r \in HeapRec /\ r.top = t /\ r.len = m.len /\ r.bins = m.bins
      /\ r.hdr = [m.hdr EXCEPT ![e] = x, ![n] = y]
  <2> DEFINE h == [m.hdr EXCEPT ![e] = x, ![n] = y]
  <2>1. h \in [Addrs -> Header] /\ r = [m EXCEPT !.hdr = h, !.top = t]
    BY <1>1, <1>2, <1>3, <1>4
  <2> HIDE DEF h
  <2>2. r \in HeapRec /\ r.top = t /\ r.len = m.len /\ r.bins = m.bins /\ r.hdr = h
    BY <1>6, <2>1 DEF HeapRec
  <2> QED
    BY <2>2 DEF h
<1>10. \A c \in Addrs : c # e /\ c # n => r.hdr[c] = m.hdr[c]
  BY <1>1, <1>9
<1>11. r.hdr[e] = x /\ r.hdr[n] = y
  BY <1>1, <1>7, <1>9
<1> QED
  BY <1>2, <1>3, <1>9, <1>10, <1>11 DEF t

LEMMA AbsorbStores ==
  ASSUME NEW m \in HeapRec, NEW e \in Addrs, NEW n \in Addrs, n # e, NEW r, r = Absorb(m, e, n)
  PROVE  /\ r \in HeapRec /\ r.top = (IF n = m.top THEN e ELSE m.top)
         /\ r.len = m.len /\ r.bins = m.bins
         /\ \A c \in Addrs : c # e /\ c # n => r.hdr[c] = m.hdr[c]
         /\ r.hdr[e].size = m.hdr[e].size + m.hdr[n].size /\ r.hdr[e].used = m.hdr[e].used
         /\ r.hdr[e].psize = m.hdr[e].psize /\ r.hdr[e].pused = m.hdr[e].pused
         /\ r.hdr[n].size = 0
<1> DEFINE x == [m.hdr[e] EXCEPT !.size = @ + m.hdr[n].size]
           t == IF n = m.top THEN e ELSE m.top
<1>1. m.hdr[e] \in Header /\ m.hdr[n] \in Header /\ m.hdr \in [Addrs -> Header]
  BY DEF HeapRec
<1>2. /\ x \in Header /\ x.size = m.hdr[e].size + m.hdr[n].size /\ x.psize = m.hdr[e].psize
      /\ x.used = m.hdr[e].used /\ x.pused = m.hdr[e].pused
  BY <1>1 DEF Header
<1>3. NoChunk \in Header /\ NoChunk.size = 0
  BY DEF Header, NoChunk
<1>4. r = [m EXCEPT !.hdr = [m.hdr EXCEPT ![e] = x, ![n] = NoChunk], !.top = t]
  BY DEF Absorb
<1>6. t \in Nat
  BY Addresses DEF HeapRec
<1> HIDE DEF x, t
<1>9. /\ r \in HeapRec /\ r.top = t /\ r.len = m.len /\ r.bins = m.bins
      /\ r.hdr = [m.hdr EXCEPT ![e] = x, ![n] = NoChunk]
  BY <1>1, <1>2, <1>3, <1>4, <1>6 DEF HeapRec
<1>10. \A c \in Addrs : c # e /\ c # n => r.hdr[c] = m.hdr[c]
  BY <1>1, <1>9
<1>11. r.hdr[e] = x /\ r.hdr[n] = NoChunk
  BY <1>1, <1>9
<1> QED
  BY <1>2, <1>3, <1>9, <1>10, <1>11 DEF t

--------------------------------------------------------------------------------
(* Chunks that tile the heap, and what the stores do to them.                    *)

\* The chunks begin at 0 and each ends where the next begins, the top chunk at len.
Tiled(m) ==
  /\ m \in HeapRec /\ m.len <= MaxUnits
  /\ 0 \in ChunksOf(m) /\ m.top \in ChunksOf(m) /\ NextChunk(m, m.top) = m.len
  /\ \A c \in ChunksOf(m) : c <= m.top
  /\ \A c \in ChunksOf(m) \ {m.top} : NextChunk(m, c) \in ChunksOf(m)
  /\ \A c, d \in ChunksOf(m) : d > c => d >= NextChunk(m, c)
  /\ \A c \in ChunksOf(m) \ {0} : \E p \in ChunksOf(m) \ {m.top} : NextChunk(m, p) = c

\* Each chunk knows the one before it, but for those that follow one of X.
Tagged(m, X) ==
  /\ m.hdr[0].psize = 0
  /\ \A c \in ChunksOf(m) \ ({m.top} \union X) :
       /\ m.hdr[NextChunk(m, c)].psize = m.hdr[c].size
       /\ m.hdr[NextChunk(m, c)].pused = m.hdr[c].used

\* What the facts about chunks speak of is there.
LEMMA ChunkFacts ==
  ASSUME NEW m, Tiled(m)
  PROVE  /\ m \in HeapRec /\ m.top \in Nat /\ m.len \in Nat /\ m.len <= MaxUnits
         /\ ChunksOf(m) \subseteq Addrs /\ ChunksOf(m) \subseteq Nat
         /\ \A c \in Addrs : m.hdr[c].size \in Nat /\ NextChunk(m, c) = c + m.hdr[c].size
         /\ \A c \in Addrs : c \in ChunksOf(m) <=> m.hdr[c].size > 0
         /\ \A c \in Addrs : m.hdr[c].used \in BOOLEAN /\ m.hdr[c].pused \in BOOLEAN
         /\ \A c \in Addrs : m.hdr[c].psize \in Nat
         /\ \A c \in ChunksOf(m) : /\ m.hdr[c].size \in 1 .. MaxUnits /\ c < NextChunk(m, c)
                                   /\ NextChunk(m, c) \in Addrs /\ NextChunk(m, c) <= m.len
         /\ \A c \in ChunksOf(m) : c < m.len
<1>1. m \in HeapRec /\ m.top \in Nat /\ m.len \in Nat /\ m.len <= MaxUnits
  BY DEF Tiled, HeapRec
<1>2. \A c \in Addrs : /\ m.hdr[c].size \in Nat /\ m.hdr[c].psize \in Nat
                       /\ m.hdr[c].used \in BOOLEAN /\ m.hdr[c].pused \in BOOLEAN
  BY <1>1 DEF HeapRec, Header
<1>3. ChunksOf(m) = {c \in Addrs : m.hdr[c].size > 0}
  BY <1>1 DEF ChunksOf, HeapRec
<1>4. \A c \in Addrs : NextChunk(m, c) = c + m.hdr[c].size
  BY DEF NextChunk
<1>5. ChunksOf(m) \subseteq Addrs /\ ChunksOf(m) \subseteq Nat
  BY <1>3, Addresses
<1>6. ASSUME NEW c \in ChunksOf(m)
      PROVE  /\ m.hdr[c].size \in 1 .. MaxUnits /\ c < NextChunk(m, c)
             /\ NextChunk(m, c) \in Addrs /\ NextChunk(m, c) <= m.len /\ c < m.len
  <2>1. c \in Nat /\ m.hdr[c].size \in Nat /\ m.hdr[c].size > 0 /\ NextChunk(m, c) = c + m.hdr[c].size
    BY <1>2, <1>3, <1>4, <1>5
  <2>2. NextChunk(m, c) <= m.len
    <3>1. CASE c = m.top
      BY <1>1, <2>1, <3>1 DEF Tiled
    <3>2. CASE c # m.top
      <4>1. NextChunk(m, c) <= m.top
        BY <3>2 DEF Tiled
      <4>2. m.top + m.hdr[m.top].size = m.len /\ m.hdr[m.top].size \in Nat
        BY <1>2, <1>4, <1>5 DEF Tiled
      <4> QED
        BY <1>1, <2>1, <4>1, <4>2
    <3> QED
      BY <3>1, <3>2
  <2>3. NextChunk(m, c) \in Nat /\ NextChunk(m, c) <= MaxUnits
    BY <1>1, <2>1, <2>2, Addresses
  <2>4. NextChunk(m, c) \in Addrs
    BY <2>3, Addresses
  <2> QED
    BY <1>1, <2>1, <2>2, <2>3, <2>4, Addresses
<1> QED
  BY Zenon, <1>1, <1>2, <1>3, <1>4, <1>5, <1>6

\* Different chunks end in different places.
LEMMA EndsDiffer ==
  ASSUME NEW m, Tiled(m), NEW c \in ChunksOf(m), NEW d \in ChunksOf(m), c # d
  PROVE  NextChunk(m, c) # NextChunk(m, d)
<1>1. c \in Nat /\ d \in Nat /\ NextChunk(m, c) \in Nat /\ NextChunk(m, d) \in Nat
  BY ChunkFacts, Addresses
<1>2. c < NextChunk(m, c) /\ d < NextChunk(m, d)
  BY ChunkFacts
<1>3. CASE c < d
  <2>1. d >= NextChunk(m, c)
    BY <1>3 DEF Tiled
  <2> QED
    BY <1>1, <1>2, <2>1
<1>4. CASE d < c
  <2>1. c >= NextChunk(m, d)
    BY <1>4 DEF Tiled
  <2> QED
    BY <1>1, <1>2, <2>1
<1> QED
  BY <1>1, <1>3, <1>4

\* Sizes and the top chunk decide what tiles the heap.
LEMMA SameTiles ==
  ASSUME NEW m, Tiled(m), NEW r \in HeapRec, r.top = m.top, r.len = m.len,
         \A c \in Addrs : r.hdr[c].size = m.hdr[c].size
  PROVE  /\ Tiled(r) /\ ChunksOf(r) = ChunksOf(m)
         /\ \A c \in Addrs : NextChunk(r, c) = NextChunk(m, c)
<1>1. ChunksOf(r) = {c \in Addrs : r.hdr[c].size > 0} /\ ChunksOf(m) = {c \in Addrs : m.hdr[c].size > 0}
  BY ChunkFacts DEF ChunksOf, HeapRec
<1>2. ChunksOf(r) = ChunksOf(m)
  BY <1>1
<1>3. \A c \in Addrs : NextChunk(r, c) = NextChunk(m, c)
  BY DEF NextChunk
<1>4. ChunksOf(m) \subseteq Addrs
  BY <1>1
<1>5. Tiled(r)
  <2>1. r \in HeapRec /\ r.len <= MaxUnits
    BY ChunkFacts
  <2>2. 0 \in ChunksOf(r) /\ r.top \in ChunksOf(r) /\ NextChunk(r, r.top) = r.len
    BY <1>2, <1>3, <1>4 DEF Tiled
  <2>3. \A c \in ChunksOf(r) : c <= r.top
    BY <1>2 DEF Tiled
  <2>4. \A c \in ChunksOf(r) \ {r.top} : NextChunk(r, c) \in ChunksOf(r)
    BY <1>2, <1>3, <1>4 DEF Tiled
  <2>5. \A c, d \in ChunksOf(r) : d > c => d >= NextChunk(r, c)
    BY <1>2, <1>3, <1>4 DEF Tiled
  <2>6. \A c \in ChunksOf(r) \ {0} : \E p \in ChunksOf(r) \ {r.top} : NextChunk(r, p) = c
    BY Zenon, <1>2, <1>3, <1>4 DEF Tiled
  <2> QED
    BY Zenon, <2>1, <2>2, <2>3, <2>4, <2>5, <2>6 DEF Tiled
<1> QED
  BY <1>2, <1>3, <1>5

\* What the operations leave of the heap they are given.
Told(m, r) ==
  /\ ChunksOf(r) = ChunksOf(m) /\ r.top = m.top /\ r.len = m.len /\ r.bins = m.bins
  /\ \A c \in Addrs : /\ r.hdr[c].size = m.hdr[c].size /\ r.hdr[c].used = m.hdr[c].used
                      /\ NextChunk(r, c) = NextChunk(m, c)

InUse(m, e, b, r) ==
  /\ ChunksOf(r) = ChunksOf(m) /\ r.top = m.top /\ r.len = m.len /\ r.bins = m.bins
  /\ \A c \in Addrs : /\ r.hdr[c].size = m.hdr[c].size
                      /\ NextChunk(r, c) = NextChunk(m, c)
                      /\ r.hdr[c].psize = m.hdr[c].psize /\ r.hdr[c].pused = m.hdr[c].pused
  /\ \A c \in Addrs : c # e => r.hdr[c].used = m.hdr[c].used
  /\ r.hdr[e].used = b

InTwo(m, e, n, r) ==
  /\ ChunksOf(r) = ChunksOf(m) \union {n} /\ n \notin ChunksOf(m) /\ n \in Addrs
  /\ r.top = (IF e = m.top THEN n ELSE m.top) /\ r.len = m.len /\ r.bins = m.bins
  /\ \A c \in Addrs : c # e /\ c # n => r.hdr[c] = m.hdr[c] /\ NextChunk(r, c) = NextChunk(m, c)
  /\ r.hdr[e].size = n - e /\ r.hdr[e].used /\ NextChunk(r, e) = n
  /\ r.hdr[n].size = m.hdr[e].size - (n - e) /\ ~r.hdr[n].used
  /\ NextChunk(r, n) = NextChunk(m, e)

InOne(m, e, n, r) ==
  /\ ChunksOf(r) = ChunksOf(m) \ {n} /\ n \in ChunksOf(m) /\ n # e /\ n # 0
  /\ r.top = (IF n = m.top THEN e ELSE m.top) /\ r.len = m.len /\ r.bins = m.bins
  /\ \A c \in Addrs : c # e /\ c # n => r.hdr[c] = m.hdr[c] /\ NextChunk(r, c) = NextChunk(m, c)
  /\ r.hdr[e].size = m.hdr[e].size + m.hdr[n].size /\ r.hdr[e].used = m.hdr[e].used
  /\ r.hdr[e].psize = m.hdr[e].psize /\ r.hdr[e].pused = m.hdr[e].pused
  /\ NextChunk(r, e) = NextChunk(m, n)

\* Telling the next chunk mends what it knows.
LEMMA TellTiles ==
  ASSUME NEW m, Tiled(m), NEW e \in ChunksOf(m), e # m.top, NEW X, Tagged(m, X \union {e}),
         NEW r, r = TellNext(m, e)
  PROVE  Tiled(r) /\ Tagged(r, X) /\ Told(m, r)
<1> DEFINE n == NextChunk(m, e)
<1>1. m \in HeapRec /\ e \in Addrs /\ n \in Addrs /\ n # 0 /\ n \in Nat
  BY ChunkFacts, Addresses
<1> HIDE DEF n
<1>2. /\ r \in HeapRec /\ r.top = m.top /\ r.len = m.len /\ r.bins = m.bins
      /\ \A c \in Addrs : c # n => r.hdr[c] = m.hdr[c]
      /\ r.hdr[n].size = m.hdr[n].size /\ r.hdr[n].used = m.hdr[n].used
      /\ r.hdr[n].psize = m.hdr[e].size /\ r.hdr[n].pused = m.hdr[e].used
  BY <1>1, TellStores DEF n
<1>3. \A c \in Addrs : r.hdr[c].size = m.hdr[c].size /\ r.hdr[c].used = m.hdr[c].used
  BY <1>2
<1>4. /\ Tiled(r) /\ ChunksOf(r) = ChunksOf(m)
      /\ \A c \in Addrs : NextChunk(r, c) = NextChunk(m, c)
  BY <1>2, <1>3, SameTiles
<1>5. Tagged(r, X)
  <2>1. r.hdr[0].psize = 0
    BY <1>1, <1>2, Addresses DEF Tagged
  <2>2. ASSUME NEW c \in ChunksOf(r) \ ({r.top} \union X)
        PROVE  /\ r.hdr[NextChunk(r, c)].psize = r.hdr[c].size
               /\ r.hdr[NextChunk(r, c)].pused = r.hdr[c].used
    <3>1. c \in ChunksOf(m) /\ c # m.top /\ c \notin X /\ c \in Addrs /\ NextChunk(m, c) \in Addrs
      BY <1>2, <1>4, ChunkFacts
    <3>2. NextChunk(r, c) = NextChunk(m, c) /\ r.hdr[c].size = m.hdr[c].size /\ r.hdr[c].used = m.hdr[c].used
      BY Zenon, <1>3, <1>4, <3>1
    <3>3. CASE c = e
      BY Zenon, <1>2, <3>2, <3>3 DEF n
    <3>4. CASE c # e
      <4>1. NextChunk(m, c) # n
        BY <3>1, <3>4, EndsDiffer DEF n
      <4>2. r.hdr[NextChunk(m, c)] = m.hdr[NextChunk(m, c)]
        BY <1>2, <3>1, <4>1
      <4>3. c \in ChunksOf(m) \ ({m.top} \union (X \union {e}))
        BY <3>1, <3>4
      <4>4. m.hdr[NextChunk(m, c)].psize = m.hdr[c].size /\ m.hdr[NextChunk(m, c)].pused = m.hdr[c].used
        BY Zenon, <4>3 DEF Tagged
      <4> QED
        BY Zenon, <3>2, <4>2, <4>4
    <3> QED
      BY <3>3, <3>4
  <2> QED
    BY Zenon, <2>1, <2>2 DEF Tagged
<1>6. Told(m, r)
  BY Zenon, <1>2, <1>3, <1>4 DEF Told
<1> QED
  BY Zenon, <1>4, <1>5, <1>6

\* A chunk that is taken or freed has yet to tell the next.
LEMMA UseTiles ==
  ASSUME NEW m, Tiled(m), NEW e \in ChunksOf(m), NEW X, Tagged(m, X), NEW b \in BOOLEAN,
         NEW r, r = Using(m, e, b)
  PROVE  Tiled(r) /\ Tagged(r, X \union {e}) /\ InUse(m, e, b, r)
<1>1. m \in HeapRec /\ e \in Addrs
  BY ChunkFacts
<1>2. /\ r \in HeapRec /\ r.top = m.top /\ r.len = m.len /\ r.bins = m.bins
      /\ \A c \in Addrs : c # e => r.hdr[c] = m.hdr[c]
      /\ r.hdr[e].size = m.hdr[e].size /\ r.hdr[e].used = b
      /\ r.hdr[e].psize = m.hdr[e].psize /\ r.hdr[e].pused = m.hdr[e].pused
  BY <1>1, UseStores
<1>3. /\ \A c \in Addrs : /\ r.hdr[c].size = m.hdr[c].size
                          /\ r.hdr[c].psize = m.hdr[c].psize /\ r.hdr[c].pused = m.hdr[c].pused
      /\ \A c \in Addrs : c # e => r.hdr[c].used = m.hdr[c].used
  BY <1>2
<1>4. /\ Tiled(r) /\ ChunksOf(r) = ChunksOf(m)
      /\ \A c \in Addrs : NextChunk(r, c) = NextChunk(m, c)
  BY <1>2, <1>3, SameTiles
<1>5. Tagged(r, X \union {e})
  <2>1. r.hdr[0].psize = 0
    BY <1>3, Addresses DEF Tagged
  <2>2. ASSUME NEW c \in ChunksOf(r) \ ({r.top} \union (X \union {e}))
        PROVE  /\ r.hdr[NextChunk(r, c)].psize = r.hdr[c].size
               /\ r.hdr[NextChunk(r, c)].pused = r.hdr[c].used
    <3>1. c \in ChunksOf(m) /\ c # m.top /\ c \notin X /\ c # e /\ c \in Addrs /\ NextChunk(m, c) \in Addrs
      BY <1>2, <1>4, ChunkFacts
    <3>2. NextChunk(r, c) = NextChunk(m, c) /\ r.hdr[c] = m.hdr[c]
      BY Zenon, <1>2, <1>4, <3>1
    <3>3. /\ r.hdr[NextChunk(m, c)].psize = m.hdr[NextChunk(m, c)].psize
          /\ r.hdr[NextChunk(m, c)].pused = m.hdr[NextChunk(m, c)].pused
      BY Zenon, <1>3, <3>1
    <3>4. c \in ChunksOf(m) \ ({m.top} \union X)
      BY <3>1
    <3>5. m.hdr[NextChunk(m, c)].psize = m.hdr[c].size /\ m.hdr[NextChunk(m, c)].pused = m.hdr[c].used
      BY Zenon, <3>4 DEF Tagged
    <3> QED
      BY Zenon, <3>2, <3>3, <3>5
  <2> QED
    BY Zenon, <2>1, <2>2 DEF Tagged
<1>6. InUse(m, e, b, r)
  BY <1>2, <1>3, <1>4 DEF InUse
<1> QED
  BY Zenon, <1>4, <1>5, <1>6

\* A chunk cut in two: the first part is in use, the second is free, and the chunk
\* behind has yet to be told.
LEMMA CutTiles ==
  ASSUME NEW m, Tiled(m), NEW e \in ChunksOf(m), NEW u \in Nat \ {0}, u < m.hdr[e].size,
         NEW X, Tagged(m, X \union {e}), e \notin X, NEW r, r = Cut(m, e, u)
  PROVE  Tiled(r) /\ Tagged(r, X \union {e + u}) /\ InTwo(m, e, e + u, r)
<1> DEFINE n == e + u
<1>1. /\ m \in HeapRec /\ e \in Addrs /\ e \in Nat /\ m.hdr[e].size \in Nat
      /\ NextChunk(m, e) = e + m.hdr[e].size /\ NextChunk(m, e) \in Addrs /\ NextChunk(m, e) \in Nat
      /\ NextChunk(m, e) <= m.len /\ m.len \in Nat
  BY ChunkFacts, Addresses
<1>2. n \in Nat /\ e < n /\ n < NextChunk(m, e)
  BY <1>1
<1>3. n \in Addrs
  BY <1>1, <1>2, Addresses
<1>4. n \notin ChunksOf(m)
  <2>1. ASSUME n \in ChunksOf(m) PROVE FALSE
    <3>1. n >= NextChunk(m, e)
      BY <1>2, <2>1 DEF Tiled
    <3> QED
      BY <1>1, <1>2, <3>1
  <2> QED
    BY <2>1
<1>5. /\ r \in HeapRec /\ r.top = (IF e = m.top THEN n ELSE m.top)
      /\ r.len = m.len /\ r.bins = m.bins
      /\ \A c \in Addrs : c # e /\ c # n => r.hdr[c] = m.hdr[c]
      /\ r.hdr[e].size = u /\ r.hdr[e].used
      /\ r.hdr[e].psize = m.hdr[e].psize /\ r.hdr[e].pused = m.hdr[e].pused
      /\ r.hdr[n].size = m.hdr[e].size - u /\ ~r.hdr[n].used
      /\ r.hdr[n].psize = u /\ r.hdr[n].pused
  <2>1. u <= m.hdr[e].size
    BY <1>1
  <2> QED
    <3>1. e \in Addrs /\ n \in Addrs /\ n = e + u /\ m \in HeapRec /\ u \in Nat \ {0}
      BY <1>1, <1>3
    <3> HIDE DEF n
    <3> QED
      BY <2>1, <3>1, CutStores
<1>6. /\ \A c \in Addrs : c # e /\ c # n => NextChunk(r, c) = NextChunk(m, c)
      /\ NextChunk(r, e) = n /\ NextChunk(r, n) = NextChunk(m, e)
  <2>1. \A c \in Addrs : c # e /\ c # n => NextChunk(r, c) = NextChunk(m, c)
    BY <1>5 DEF NextChunk
  <2>2. NextChunk(r, e) = n
    BY <1>5 DEF NextChunk
  <2>3. NextChunk(r, n) = NextChunk(m, e)
    <3>1. NextChunk(r, n) = n + (m.hdr[e].size - u)
      BY <1>5 DEF NextChunk
    <3> QED
      BY <1>1, <3>1
  <2> QED
    BY <2>1, <2>2, <2>3
<1>7. ChunksOf(r) = ChunksOf(m) \union {n}
  <2>1. ChunksOf(r) = {c \in Addrs : r.hdr[c].size > 0} /\ ChunksOf(m) = {c \in Addrs : m.hdr[c].size > 0}
    BY <1>1, <1>5 DEF ChunksOf, HeapRec
  <2>2. r.hdr[n].size > 0 /\ r.hdr[e].size > 0
    BY <1>1, <1>5
  <2> QED
    BY <1>1, <1>3, <1>5, <2>1, <2>2
<1> HIDE DEF n
<1>8. \A c \in ChunksOf(m) \ {e} : c \in Addrs \ {e, n} /\ c \in Nat /\ NextChunk(m, c) \in Nat /\ c < NextChunk(m, c)
  BY <1>4, ChunkFacts, Addresses
<1>9. Tiled(r)
  <2>1. r \in HeapRec /\ r.len <= MaxUnits
    BY <1>5, ChunkFacts
  <2>2. 0 \in ChunksOf(r) /\ r.top \in ChunksOf(r)
    BY <1>5, <1>7 DEF Tiled
  <2>3. NextChunk(r, r.top) = r.len
    <3>1. CASE e = m.top
      BY <1>5, <1>6, <3>1 DEF Tiled
    <3>2. CASE e # m.top
      <4>1. m.top \in ChunksOf(m) \ {e} /\ NextChunk(m, m.top) = m.len
        BY <3>2 DEF Tiled
      <4> QED
        BY <1>5, <1>6, <1>8, <3>2, <4>1
    <3> QED
      BY <3>1, <3>2
  <2>4. \A c \in ChunksOf(r) : c <= r.top
    <3>1. CASE e = m.top
      BY <1>1, <1>2, <1>5, <1>7, <1>8, <3>1 DEF Tiled
    <3>2. CASE e # m.top
      <4>1. n <= m.top
        <5>1. NextChunk(m, e) <= m.top /\ m.top \in Nat
          BY <3>2, ChunkFacts DEF Tiled
        <5> QED
          BY <1>1, <1>2, <5>1
      <4> QED
        BY <1>5, <1>7, <3>2, <4>1 DEF Tiled
    <3> QED
      BY <3>1, <3>2
  <2>5. ASSUME NEW c \in ChunksOf(r) \ {r.top} PROVE NextChunk(r, c) \in ChunksOf(r)
    <3>1. CASE c = e
      BY <1>6, <1>7, <3>1
    <3>2. CASE c = n
      <4>1. e # m.top
        BY <1>5, <2>5, <3>2
      <4>2. NextChunk(m, e) \in ChunksOf(m)
        BY <4>1 DEF Tiled
      <4> QED
        BY <1>6, <1>7, <3>2, <4>2
    <3>3. CASE c # e /\ c # n
      <4>1. c \in ChunksOf(m) \ {e} /\ c \in Addrs \ {e, n}
        BY <1>7, <1>8, <3>3
      <4>2. c # m.top
        BY <1>5, <2>5, <4>1
      <4>3. NextChunk(m, c) \in ChunksOf(m)
        BY <4>1, <4>2 DEF Tiled
      <4> QED
        BY <1>6, <1>7, <4>1, <4>3
    <3> QED
      BY <3>1, <3>2, <3>3
  <2>6. ASSUME NEW c \in ChunksOf(r), NEW d \in ChunksOf(r), d > c PROVE d >= NextChunk(r, c)
    <3>1. CASE c = e
      <4>1. CASE d = n
        BY <1>2, <1>6, <3>1, <4>1
      <4>2. CASE d # n
        <5>1. d \in ChunksOf(m) /\ d > e /\ d \in Nat
          BY <1>7, <2>6, <3>1, <4>2, ChunkFacts
        <5>2. d >= NextChunk(m, e)
          BY <5>1 DEF Tiled
        <5> QED
          BY <1>1, <1>2, <1>6, <3>1, <5>1, <5>2
      <4> QED
        BY <4>1, <4>2
    <3>2. CASE c = n
      <4>1. d \in ChunksOf(m) /\ d \in Nat
        BY <1>2, <1>7, <2>6, <3>2, ChunkFacts
      <4>2. d > e
        BY <1>1, <1>2, <2>6, <3>2, <4>1
      <4>3. d >= NextChunk(m, e)
        BY <4>1, <4>2 DEF Tiled
      <4> QED
        BY <1>6, <3>2, <4>3
    <3>3. CASE c # e /\ c # n
      <4>1. c \in ChunksOf(m) \ {e} /\ c \in Addrs \ {e, n} /\ c \in Nat /\ NextChunk(m, c) \in Nat
        BY <1>7, <1>8, <3>3
      <4>2. NextChunk(r, c) = NextChunk(m, c)
        BY <1>6, <4>1
      <4>3. CASE d = n
        <5>1. e > c
          <6>1. ASSUME c > e PROVE FALSE
            <7>1. c >= NextChunk(m, e)
              BY <4>1, <6>1 DEF Tiled
            <7> QED
              BY <1>1, <1>2, <2>6, <4>1, <4>3, <7>1
          <6> QED
            BY <1>1, <4>1, <6>1
        <5>2. e >= NextChunk(m, c)
          BY <4>1, <5>1 DEF Tiled
        <5> QED
          BY <1>1, <1>2, <4>1, <4>2, <4>3, <5>2
      <4>4. CASE d # n
        <5>1. d \in ChunksOf(m)
          BY <1>7, <4>4
        <5> QED
          BY <2>6, <4>1, <4>2, <5>1 DEF Tiled
      <4> QED
        BY <4>3, <4>4
    <3> QED
      BY <3>1, <3>2, <3>3
  <2>7. ASSUME NEW c \in ChunksOf(r) \ {0} PROVE \E p \in ChunksOf(r) \ {r.top} : NextChunk(r, p) = c
    <3>1. CASE c = n
      <4>1. e \in ChunksOf(r) \ {r.top}
        BY <1>1, <1>2, <1>5, <1>7
      <4> QED
        BY <1>6, <3>1, <4>1
    <3>2. CASE c # n
      <4>1. c \in ChunksOf(m) \ {0}
        BY <1>7, <3>2
      <4>2. PICK p \in ChunksOf(m) \ {m.top} : NextChunk(m, p) = c
        BY <4>1 DEF Tiled
      <4>3. CASE p = e
        <5>1. n \in ChunksOf(r) \ {r.top}
          BY <1>4, <1>5, <1>7, <4>2, <4>3 DEF Tiled
        <5> QED
          BY <1>6, <4>2, <4>3, <5>1
      <4>4. CASE p # e
        <5>1. p \in Addrs \ {e, n}
          BY <1>8, <4>2, <4>4
        <5>2. p \in ChunksOf(r) \ {r.top}
          BY <1>5, <1>7, <4>2, <5>1
        <5> QED
          BY <1>6, <4>2, <5>1, <5>2
      <4> QED
        BY <4>3, <4>4
    <3> QED
      BY <3>1, <3>2
  <2> QED
    BY Zenon, <2>1, <2>2, <2>3, <2>4, <2>5, <2>6, <2>7 DEF Tiled
<1>10. Tagged(r, X \union {n})
  <2>1. r.hdr[0].psize = 0
    <3>1. m.hdr[0].psize = 0 /\ 0 \in Addrs /\ 0 # n
      BY <1>1, <1>2, Addresses DEF Tagged
    <3> QED
      BY <1>5, <3>1
  <2>2. ASSUME NEW c \in ChunksOf(r) \ ({r.top} \union (X \union {n}))
        PROVE  /\ r.hdr[NextChunk(r, c)].psize = r.hdr[c].size
               /\ r.hdr[NextChunk(r, c)].pused = r.hdr[c].used
    <3>1. CASE c = e
      <4>1. r.hdr[NextChunk(r, e)].psize = r.hdr[e].size
        BY <1>5, <1>6
      <4>2. r.hdr[NextChunk(r, e)].pused = r.hdr[e].used
        BY <1>5, <1>6
      <4> QED
        BY Zenon, <3>1, <4>1, <4>2
    <3>2. CASE c # e
      <4>1. c \in ChunksOf(m) \ {e} /\ c \in Addrs \ {e, n}
        BY <1>7, <1>8, <3>2
      <4>2. c # m.top /\ c \notin X
        <5>1. ASSUME c = m.top PROVE FALSE
          BY <1>5, <4>1, <5>1
        <5> QED
          BY <5>1
      <4>3. c \in ChunksOf(m) \ ({m.top} \union (X \union {e}))
        BY <4>1, <4>2
      <4>4. m.hdr[NextChunk(m, c)].psize = m.hdr[c].size /\ m.hdr[NextChunk(m, c)].pused = m.hdr[c].used
        BY Zenon, <4>3 DEF Tagged
      <4>5. NextChunk(m, c) \in ChunksOf(m)
        BY <4>1, <4>2 DEF Tiled
      <4>6. /\ r.hdr[NextChunk(m, c)].psize = m.hdr[NextChunk(m, c)].psize
            /\ r.hdr[NextChunk(m, c)].pused = m.hdr[NextChunk(m, c)].pused
        <5>1. CASE NextChunk(m, c) = e
          BY Zenon, <1>5, <5>1
        <5>2. CASE NextChunk(m, c) # e
          <6>1. NextChunk(m, c) \in Addrs \ {e, n}
            BY <1>8, <4>5, <5>2
          <6> QED
            BY Zenon, <1>5, <6>1
        <5> QED
          BY <5>1, <5>2
      <4>7. NextChunk(r, c) = NextChunk(m, c) /\ r.hdr[c] = m.hdr[c]
        BY Zenon, <1>5, <1>6, <4>1
      <4> QED
        BY Zenon, <4>4, <4>6, <4>7
    <3> QED
      BY <3>1, <3>2
  <2> QED
    BY Zenon, <2>1, <2>2 DEF Tagged
<1>11. \A c \in Addrs : c # e /\ c # n => r.hdr[c] = m.hdr[c] /\ NextChunk(r, c) = NextChunk(m, c)
  BY Zenon, <1>5, <1>6
<1>12. /\ Tiled(r) /\ Tagged(r, X \union {e + u})
       /\ ChunksOf(r) = ChunksOf(m) \union {e + u} /\ e + u \notin ChunksOf(m) /\ e + u \in Addrs
  BY Zenon, <1>3, <1>4, <1>7, <1>9, <1>10 DEF n
<1>13. r.top = (IF e = m.top THEN e + u ELSE m.top) /\ r.len = m.len /\ r.bins = m.bins
  BY <1>5 DEF n
<1>14. \A c \in Addrs : c # e /\ c # e + u => r.hdr[c] = m.hdr[c] /\ NextChunk(r, c) = NextChunk(m, c)
  BY Zenon, <1>11 DEF n
<1>15. /\ r.hdr[e].size = u /\ r.hdr[e].used /\ NextChunk(r, e) = e + u
       /\ r.hdr[e + u].size = m.hdr[e].size - u /\ ~r.hdr[e + u].used
       /\ NextChunk(r, e + u) = NextChunk(m, e)
  BY Zenon, <1>5, <1>6 DEF n
<1>16. (e + u) - e = u
  BY <1>1
<1>17. InTwo(m, e, e + u, r)
  BY Zenon, <1>12, <1>13, <1>14, <1>15, <1>16 DEF InTwo
<1> QED
  BY Zenon, <1>12, <1>17

\* A chunk that has absorbed the next has yet to tell the one behind.
LEMMA AbsorbTiles ==
  ASSUME NEW m, Tiled(m), NEW e \in ChunksOf(m), e # m.top, NEW X, Tagged(m, X),
         NEW n, n = NextChunk(m, e), NEW r, r = Absorb(m, e, n)
  PROVE  Tiled(r) /\ Tagged(r, X \union {e}) /\ InOne(m, e, n, r)
<1>0. n \in ChunksOf(m)
  BY DEF Tiled
<1>1. /\ m \in HeapRec /\ e \in Addrs /\ e \in Nat /\ m.hdr[e].size \in Nat /\ m.hdr[n].size \in Nat
      /\ n = e + m.hdr[e].size /\ n \in Addrs /\ n \in Nat /\ n > e
      /\ NextChunk(m, n) = n + m.hdr[n].size /\ m.hdr[n].size > 0 /\ m.hdr[e].size > 0
      /\ NextChunk(m, n) \in Nat
  BY <1>0, ChunkFacts, Addresses
<1>2. /\ r \in HeapRec /\ r.top = (IF n = m.top THEN e ELSE m.top)
      /\ r.len = m.len /\ r.bins = m.bins
      /\ \A c \in Addrs : c # e /\ c # n => r.hdr[c] = m.hdr[c]
      /\ r.hdr[e].size = m.hdr[e].size + m.hdr[n].size /\ r.hdr[e].used = m.hdr[e].used
      /\ r.hdr[e].psize = m.hdr[e].psize /\ r.hdr[e].pused = m.hdr[e].pused
      /\ r.hdr[n].size = 0
  <2>1. n \in Addrs /\ n # e
    BY <1>1
  <2> QED
    <3>1. m \in HeapRec /\ e \in Addrs
      BY <1>1
    <3>2. r \in HeapRec /\ r.top = (IF n = m.top THEN e ELSE m.top) /\ r.len = m.len /\ r.bins = m.bins
      BY <2>1, <3>1, AbsorbStores
    <3>3. ASSUME NEW c \in Addrs \ {e, n} PROVE r.hdr[c] = m.hdr[c]
      <4>1. \A x \in Addrs : x # e /\ x # n => r.hdr[x] = m.hdr[x]
        BY <2>1, <3>1 DEF Absorb, HeapRec
      <4> QED
        BY <4>1
    <3>4. r.hdr[e].size = m.hdr[e].size + m.hdr[n].size /\ r.hdr[e].psize = m.hdr[e].psize /\ r.hdr[n].size = 0
      BY <2>1, <3>1, AbsorbStores
    <3>5. r.hdr[e].used = m.hdr[e].used
      BY <2>1, <3>1, AbsorbStores
    <3>6. r.hdr[e].pused = m.hdr[e].pused
      BY <2>1, <3>1, AbsorbStores
    <3> QED
      BY Zenon, <3>2, <3>3, <3>4, <3>5, <3>6
<1>3. /\ \A c \in Addrs : c # e /\ c # n => NextChunk(r, c) = NextChunk(m, c)
      /\ NextChunk(r, e) = NextChunk(m, n)
  <2>1. \A c \in Addrs : c # e /\ c # n => NextChunk(r, c) = NextChunk(m, c)
    BY <1>2 DEF NextChunk
  <2>2. NextChunk(r, e) = e + (m.hdr[e].size + m.hdr[n].size)
    BY <1>2 DEF NextChunk
  <2> QED
    BY <1>1, <2>1, <2>2
<1>4. ChunksOf(r) = ChunksOf(m) \ {n}
  <2>1. ChunksOf(r) = {c \in Addrs : r.hdr[c].size > 0} /\ ChunksOf(m) = {c \in Addrs : m.hdr[c].size > 0}
    BY <1>1, <1>2 DEF ChunksOf, HeapRec
  <2>2. r.hdr[e].size > 0 /\ ~(r.hdr[n].size > 0)
    BY <1>1, <1>2
  <2> QED
    BY <1>1, <1>2, <2>1, <2>2
<1>5. \A c \in ChunksOf(r) \ {e} : /\ c \in ChunksOf(m) \ {e, n} /\ c \in Addrs \ {e, n} /\ c \in Nat
                                   /\ NextChunk(m, c) \in Nat /\ c < NextChunk(m, c)
  BY <1>4, ChunkFacts, Addresses
<1>6. \A c \in ChunksOf(r) \ {e} : NextChunk(m, c) # n
  BY <1>5, EndsDiffer
<1>7. ASSUME NEW d \in ChunksOf(r), d > e PROVE d >= NextChunk(m, n)
  <2>1. d \in ChunksOf(m) /\ d # n /\ d \in Nat
    BY <1>1, <1>4, <1>5, <1>7
  <2>2. d >= n
    BY <1>7, <2>1 DEF Tiled
  <2>3. d > n
    BY <1>1, <2>1, <2>2
  <2> QED
    BY <1>0, <2>1, <2>3 DEF Tiled
<1>9. Tiled(r)
  <2>1. r \in HeapRec /\ r.len <= MaxUnits
    BY <1>2, ChunkFacts
  <2>2. 0 \in ChunksOf(r) /\ r.top \in ChunksOf(r)
    BY <1>1, <1>2, <1>4 DEF Tiled
  <2>3. NextChunk(r, r.top) = r.len
    <3>1. CASE n = m.top
      BY <1>2, <1>3, <3>1 DEF Tiled
    <3>2. CASE n # m.top
      <4>1. m.top \in Addrs \ {e, n} /\ NextChunk(m, m.top) = m.len
        BY <3>2, ChunkFacts DEF Tiled
      <4> QED
        BY <1>2, <1>3, <3>2, <4>1
    <3> QED
      BY <3>1, <3>2
  <2>4. ASSUME NEW c \in ChunksOf(r) PROVE c <= r.top
    <3>1. c \in ChunksOf(m) /\ c # n /\ c \in Nat
      BY <1>1, <1>4, ChunkFacts
    <3>2. CASE n = m.top
      <4>1. c <= n
        BY <3>1, <3>2 DEF Tiled
      <4>2. ASSUME c > e PROVE FALSE
        <5>1. c >= n
          BY <3>1, <4>2 DEF Tiled
        <5> QED
          BY <1>1, <3>1, <4>1, <5>1
      <4> QED
        BY <1>1, <1>2, <3>1, <3>2, <4>2
    <3>3. CASE n # m.top
      BY <1>2, <3>1, <3>3 DEF Tiled
    <3> QED
      BY <3>2, <3>3
  <2>5. ASSUME NEW c \in ChunksOf(r) \ {r.top} PROVE NextChunk(r, c) \in ChunksOf(r)
    <3>1. CASE c = e
      <4>1. n # m.top
        BY <1>2, <2>5, <3>1
      <4>2. NextChunk(m, n) \in ChunksOf(m)
        BY <1>0, <4>1 DEF Tiled
      <4>3. NextChunk(m, n) # n
        BY <1>1
      <4> QED
        BY <1>3, <1>4, <3>1, <4>2, <4>3
    <3>2. CASE c # e
      <4>1. c \in ChunksOf(r) \ {e}
        BY <3>2
      <4>2. c \in ChunksOf(m) \ {e, n} /\ c \in Addrs \ {e, n} /\ NextChunk(m, c) # n
        BY <1>5, <1>6, <4>1
      <4>3. c # m.top
        BY <1>2, <2>5, <4>2
      <4>4. NextChunk(m, c) \in ChunksOf(m)
        BY <4>2, <4>3 DEF Tiled
      <4> QED
        BY <1>3, <1>4, <4>2, <4>4
    <3> QED
      BY <3>1, <3>2
  <2>6. ASSUME NEW c \in ChunksOf(r), NEW d \in ChunksOf(r), d > c PROVE d >= NextChunk(r, c)
    <3>1. CASE c = e
      BY <1>3, <1>7, <2>6, <3>1
    <3>2. CASE c # e
      <4>1. c \in ChunksOf(m) \ {e, n} /\ c \in Addrs \ {e, n}
        BY <1>5, <3>2
      <4>2. d \in ChunksOf(m)
        BY <1>4
      <4>3. d >= NextChunk(m, c)
        BY <2>6, <4>1, <4>2 DEF Tiled
      <4> QED
        BY <1>3, <4>1, <4>3
    <3> QED
      BY <3>1, <3>2
  <2>7. ASSUME NEW c \in ChunksOf(r) \ {0} PROVE \E p \in ChunksOf(r) \ {r.top} : NextChunk(r, p) = c
    <3>1. c \in ChunksOf(m) \ {0} /\ c # n
      BY <1>4
    <3>2. PICK p \in ChunksOf(m) \ {m.top} : NextChunk(m, p) = c
      BY <3>1 DEF Tiled
    <3>3. CASE p = n
      <4>1. e \in ChunksOf(r) \ {r.top}
        BY <1>1, <1>2, <1>4, <3>2, <3>3
      <4> QED
        BY <1>3, <3>2, <3>3, <4>1
    <3>4. CASE p # n
      <4>1. p # e
        BY <3>1, <3>2
      <4>2. p \in ChunksOf(r) \ {r.top} /\ p \in Addrs \ {e, n}
        BY <1>2, <1>4, <1>5, <3>2, <3>4, <4>1
      <4> QED
        BY <1>3, <3>2, <4>2
    <3> QED
      BY <3>3, <3>4
  <2> QED
    BY Zenon, <2>1, <2>2, <2>3, <2>4, <2>5, <2>6, <2>7 DEF Tiled
<1>10. Tagged(r, X \union {e})
  <2>1. r.hdr[0].psize = 0
    <3>1. m.hdr[0].psize = 0 /\ 0 \in Addrs /\ 0 # n
      BY <1>1, Addresses DEF Tagged
    <3> QED
      BY <1>2, <3>1
  <2>2. ASSUME NEW c \in ChunksOf(r) \ ({r.top} \union (X \union {e}))
        PROVE  /\ r.hdr[NextChunk(r, c)].psize = r.hdr[c].size
               /\ r.hdr[NextChunk(r, c)].pused = r.hdr[c].used
    <3>1. c \in ChunksOf(r) \ {e}
      OBVIOUS
    <3>2. c \in ChunksOf(m) \ {e, n} /\ c \in Addrs \ {e, n} /\ NextChunk(m, c) # n
      BY <1>5, <1>6, <3>1
    <3>3. c # m.top
      BY <1>2, <3>2, <2>2
    <3>4. c \in ChunksOf(m) \ ({m.top} \union X)
      BY <3>2, <3>3, <2>2
    <3>5. m.hdr[NextChunk(m, c)].psize = m.hdr[c].size /\ m.hdr[NextChunk(m, c)].pused = m.hdr[c].used
      BY Zenon, <3>4 DEF Tagged
    <3>6. NextChunk(m, c) \in Addrs
      BY <3>2, ChunkFacts
    <3>7. /\ r.hdr[NextChunk(m, c)].psize = m.hdr[NextChunk(m, c)].psize
          /\ r.hdr[NextChunk(m, c)].pused = m.hdr[NextChunk(m, c)].pused
      <4>1. CASE NextChunk(m, c) = e
        BY Zenon, <1>2, <4>1
      <4>2. CASE NextChunk(m, c) # e
        <5>1. NextChunk(m, c) \in Addrs \ {e, n}
          BY <3>2, <3>6, <4>2
        <5> QED
          BY Zenon, <1>2, <5>1
      <4> QED
        BY <4>1, <4>2
    <3>8. NextChunk(r, c) = NextChunk(m, c) /\ r.hdr[c] = m.hdr[c]
      BY Zenon, <1>2, <1>3, <3>2
    <3> QED
      BY Zenon, <3>5, <3>7, <3>8
  <2> QED
    BY Zenon, <2>1, <2>2 DEF Tagged
<1>11. \A c \in Addrs : c # e /\ c # n => r.hdr[c] = m.hdr[c] /\ NextChunk(r, c) = NextChunk(m, c)
  BY Zenon, <1>2, <1>3
<1>12. n # e /\ n # 0
  BY <1>1
<1>13. InOne(m, e, n, r)
  BY Zenon, <1>0, <1>1, <1>2, <1>3, <1>4, <1>11, <1>12 DEF InOne
<1> QED
  BY Zenon, <1>9, <1>10, <1>13

--------------------------------------------------------------------------------
(* Bins that hold the chunks of a set S, each once and by its size.              *)

Binned(m, S) ==
  /\ \A c \in S : /\ BinIndex(m.hdr[c].size) \in Bins
                   /\ \E i \in DOMAIN m.bins[BinIndex(m.hdr[c].size)] :
                        m.bins[BinIndex(m.hdr[c].size)][i] = c
  /\ \A b \in Bins : \A i \in DOMAIN m.bins[b] :
       /\ m.bins[b][i] \in S
       /\ BinIndex(m.hdr[m.bins[b][i]].size) = b
       /\ \A j \in DOMAIN m.bins[b] : m.bins[b][j] = m.bins[b][i] => j = i

LEMMA BinnedSame ==
  ASSUME NEW m, NEW S, Binned(m, S), NEW r, r.bins = m.bins,
         \A c \in S : r.hdr[c].size = m.hdr[c].size
  PROVE  Binned(r, S)
<1>1. ASSUME NEW c \in S
      PROVE  /\ BinIndex(r.hdr[c].size) \in Bins
             /\ \E i \in DOMAIN r.bins[BinIndex(r.hdr[c].size)] : r.bins[BinIndex(r.hdr[c].size)][i] = c
  <2>1. r.hdr[c].size = m.hdr[c].size
    OBVIOUS
  <2>2. /\ BinIndex(m.hdr[c].size) \in Bins
        /\ \E i \in DOMAIN m.bins[BinIndex(m.hdr[c].size)] : m.bins[BinIndex(m.hdr[c].size)][i] = c
    BY Zenon DEF Binned
  <2> QED
    BY Zenon, <2>1, <2>2
<1>2. ASSUME NEW b \in Bins, NEW i \in DOMAIN r.bins[b]
      PROVE  /\ r.bins[b][i] \in S
             /\ BinIndex(r.hdr[r.bins[b][i]].size) = b
             /\ \A j \in DOMAIN r.bins[b] : r.bins[b][j] = r.bins[b][i] => j = i
  <2>1. /\ m.bins[b][i] \in S
        /\ BinIndex(m.hdr[m.bins[b][i]].size) = b
        /\ \A j \in DOMAIN m.bins[b] : m.bins[b][j] = m.bins[b][i] => j = i
    BY Zenon DEF Binned
  <2>2. r.hdr[m.bins[b][i]].size = m.hdr[m.bins[b][i]].size
    BY Zenon, <2>1
  <2> QED
    BY Zenon, <2>1, <2>2
<1> QED
  BY Zenon, <1>1, <1>2 DEF Binned

\* A sequence that loses an element keeps the others.
LEMMA WithoutOne ==
  ASSUME NEW s \in Seq(Nat), NEW k \in DOMAIN s, NEW w, w = Without(s, k)
  PROVE  /\ w \in Seq(Nat)
         /\ \A j \in DOMAIN w : \E i \in DOMAIN s \ {k} : w[j] = s[i]
         /\ \A i \in DOMAIN s \ {k} : \E j \in DOMAIN w : w[j] = s[i]
         /\ (\A i, j \in DOMAIN s : s[i] = s[j] => i = j)
              => \A i, j \in DOMAIN w : w[i] = w[j] => i = j
<1> DEFINE l == Len(s)
<1>1. l \in Nat /\ DOMAIN s = 1 .. l /\ \A i \in 1 .. l : s[i] \in Nat
  OBVIOUS
<1>2. w = [j \in 1 .. l - 1 |-> s[IF j < k THEN j ELSE j + 1]]
  BY DEF Without
<1> HIDE DEF l
<1>3. k \in 1 .. l
  BY <1>1
<1>4. DOMAIN w = 1 .. l - 1
  BY <1>2
<1>5. \A j \in 1 .. l - 1 : /\ (j < k => w[j] = s[j] /\ j \in (1 .. l) \ {k})
                            /\ (~(j < k) => w[j] = s[j + 1] /\ j + 1 \in (1 .. l) \ {k})
  BY <1>1, <1>2, <1>3
<1>6. w \in Seq(Nat)
  <2>1. \A j \in 1 .. l - 1 : w[j] \in Nat
    BY <1>1, <1>5
  <2>2. w \in [1 .. l - 1 -> Nat]
    BY <1>2, <2>1
  <2>3. l - 1 \in Nat
    BY <1>1, <1>3
  <2> QED
    BY <2>2, <2>3
<1>7. \A j \in DOMAIN w : \E i \in DOMAIN s \ {k} : w[j] = s[i]
  BY <1>1, <1>4, <1>5
<1>8. ASSUME NEW i \in DOMAIN s \ {k} PROVE \E j \in DOMAIN w : w[j] = s[i]
  <2>1. CASE i < k
    <3>1. i \in 1 .. l - 1 /\ w[i] = s[i]
      BY <1>1, <1>3, <1>5, <2>1
    <3> QED
      BY <1>4, <3>1
  <2>2. CASE ~(i < k)
    <3>1. i - 1 \in 1 .. l - 1 /\ ~(i - 1 < k) /\ (i - 1) + 1 = i
      BY <1>1, <1>3, <2>2
    <3>2. w[i - 1] = s[i]
      BY <1>5, <3>1
    <3> QED
      BY <1>4, <3>1, <3>2
  <2> QED
    BY <2>1, <2>2
<1>9. ASSUME \A i, j \in DOMAIN s : s[i] = s[j] => i = j,
             NEW i \in DOMAIN w, NEW j \in DOMAIN w, w[i] = w[j]
      PROVE  i = j
  <2>1. i \in 1 .. l - 1 /\ j \in 1 .. l - 1
    BY <1>4
  <2>2. CASE i < k /\ j < k
    BY <1>1, <1>5, <1>9, <2>1, <2>2
  <2>3. CASE i < k /\ ~(j < k)
    <3>2. w[i] = s[i] /\ w[j] = s[j + 1] /\ i \in DOMAIN s /\ j + 1 \in DOMAIN s
      BY <1>1, <1>5, <2>1, <2>3
    <3>1. i = j + 1
      BY <1>9, <3>2
    <3> QED
      BY <1>1, <1>3, <2>1, <2>3, <3>1
  <2>4. CASE ~(i < k) /\ j < k
    <3>2. w[i] = s[i + 1] /\ w[j] = s[j] /\ i + 1 \in DOMAIN s /\ j \in DOMAIN s
      BY <1>1, <1>5, <2>1, <2>4
    <3>1. i + 1 = j
      BY <1>9, <3>2
    <3> QED
      BY <1>1, <1>3, <2>1, <2>4, <3>1
  <2>5. CASE ~(i < k) /\ ~(j < k)
    <3>2. w[i] = s[i + 1] /\ w[j] = s[j + 1] /\ i + 1 \in DOMAIN s /\ j + 1 \in DOMAIN s
      BY <1>1, <1>5, <2>1, <2>5
    <3>1. i + 1 = j + 1
      BY <1>9, <3>2
    <3> QED
      BY <1>1, <2>1, <3>1
  <2> QED
    BY <2>2, <2>3, <2>4, <2>5
<1> QED
  BY <1>6, <1>7, <1>8, <1>9

\* The bins with another sequence in one of them.
Rebin(m, b, w) == [m EXCEPT !.bins[b] = w]

LEMMA BinStored ==
  ASSUME NEW m \in HeapRec, NEW b \in Bins, NEW w \in Seq(Nat), NEW r, r = Rebin(m, b, w)
  PROVE  /\ r \in HeapRec /\ r.hdr = m.hdr /\ r.top = m.top /\ r.len = m.len
         /\ r.bins[b] = w /\ \A d \in Bins \ {b} : r.bins[d] = m.bins[d]
<1>1. r = [m EXCEPT !.bins = [m.bins EXCEPT ![b] = w]]
  BY DEF Rebin
<1>2. m.bins \in [Bins -> Seq(Nat)]
  BY DEF HeapRec
<1>3. [m.bins EXCEPT ![b] = w] \in [Bins -> Seq(Nat)]
  BY <1>2
<1> DEFINE B == [m.bins EXCEPT ![b] = w]
<1>4. r = [m EXCEPT !.bins = B] /\ B \in [Bins -> Seq(Nat)]
  BY <1>1, <1>3
<1>5. B[b] = w /\ \A d \in Bins \ {b} : B[d] = m.bins[d]
  BY <1>2
<1> HIDE DEF B
<1>6. r \in HeapRec /\ r.hdr = m.hdr /\ r.top = m.top /\ r.len = m.len /\ r.bins = B
  BY <1>4 DEF HeapRec
<1> QED
  BY <1>5, <1>6

\* A chunk's bin.
LEMMA BinOfChunk ==
  ASSUME NEW m \in HeapRec, NEW e \in Addrs, m.hdr[e].size <= MaxUnits
  PROVE  BinIndex(m.hdr[e].size) \in Bins
<1>1. m.hdr[e].size \in Nat
  BY DEF HeapRec, Header
<1>2. m.hdr[e].size \in 0 .. MaxUnits
  BY <1>1, Addresses
<1> QED
  BY <1>2, BinsHaveSizes

LEMMA RemoveBins ==
  ASSUME NEW m \in HeapRec, NEW S, Binned(m, S), NEW e \in Addrs, m.hdr[e].size <= MaxUnits,
         NEW r, r = Remove(m, e)
  PROVE  /\ r \in HeapRec /\ r.hdr = m.hdr /\ r.top = m.top /\ r.len = m.len
         /\ Binned(r, S \ {e})
<1> DEFINE b  == BinIndex(m.hdr[e].size)
           s  == m.bins[b]
           at == {i \in DOMAIN s : s[i] = e}
           k  == CHOOSE i \in at : TRUE
<1>1. b \in Bins
  BY BinOfChunk
<1>2. s \in Seq(Nat)
  BY <1>1 DEF HeapRec
<1>3. r = IF at = {} THEN m ELSE Rebin(m, b, Without(s, k))
  BY DEF Remove, Rebin
<1>4. \A c \in S : /\ BinIndex(m.hdr[c].size) \in Bins
                   /\ \E i \in DOMAIN m.bins[BinIndex(m.hdr[c].size)] :
                        m.bins[BinIndex(m.hdr[c].size)][i] = c
  BY Zenon DEF Binned
<1>5. \A d \in Bins : \A i \in DOMAIN m.bins[d] :
       /\ m.bins[d][i] \in S
       /\ BinIndex(m.hdr[m.bins[d][i]].size) = d
       /\ \A j \in DOMAIN m.bins[d] : m.bins[d][j] = m.bins[d][i] => j = i
  BY Zenon DEF Binned
<1>6. CASE at = {}
  <2>1. r = m
    BY <1>3, <1>6
  <2>2. e \notin S
    BY <1>4, <1>6
  <2>3. S \ {e} = S
    BY <2>2
  <2> QED
    BY Zenon, <2>1, <2>3
<1>7. CASE at # {}
  <2>1. k \in DOMAIN s /\ s[k] = e
    BY <1>7
  <2> DEFINE w == Without(s, k)
  <2>2. r = Rebin(m, b, w)
    BY <1>3, <1>7
  <2> HIDE DEF k
  <2>3. /\ w \in Seq(Nat)
        /\ \A j \in DOMAIN w : \E i \in DOMAIN s \ {k} : w[j] = s[i]
        /\ \A i \in DOMAIN s \ {k} : \E j \in DOMAIN w : w[j] = s[i]
        /\ (\A i, j \in DOMAIN s : s[i] = s[j] => i = j)
             => \A i, j \in DOMAIN w : w[i] = w[j] => i = j
    <3> HIDE DEF s
    <3> QED
      BY <1>2, <2>1, WithoutOne
  <2> HIDE DEF w
  <2>4. /\ r \in HeapRec /\ r.hdr = m.hdr /\ r.top = m.top /\ r.len = m.len
        /\ r.bins[b] = w /\ \A d \in Bins \ {b} : r.bins[d] = m.bins[d]
    <3> HIDE DEF b
    <3> QED
      BY <1>1, <2>2, <2>3, BinStored
  <2>5. \A i, j \in DOMAIN s : s[i] = s[j] => i = j
    BY Zenon, <1>1, <1>5
  <2>6. \A i, j \in DOMAIN w : w[i] = w[j] => i = j
    BY Zenon, <2>3, <2>5
  <2>7. ASSUME NEW c \in S \ {e}
        PROVE  /\ BinIndex(r.hdr[c].size) \in Bins
               /\ \E i \in DOMAIN r.bins[BinIndex(r.hdr[c].size)] : r.bins[BinIndex(r.hdr[c].size)][i] = c
    <3> DEFINE d == BinIndex(m.hdr[c].size)
    <3>1. PICK i \in DOMAIN m.bins[d] : m.bins[d][i] = c
      BY Zenon, <1>4
    <3>2. CASE d = b
      <4>1. i \in DOMAIN s \ {k} /\ s[i] = c
        BY <2>1, <3>1, <3>2
      <4>2. \E j \in DOMAIN w : w[j] = c
        BY Zenon, <2>3, <4>1
      <4> QED
        BY Zenon, <1>1, <2>4, <3>2, <4>2
    <3>3. CASE d # b
      <4>1. r.hdr[c].size = m.hdr[c].size
        BY <2>4
      <4>2. d \in Bins
        BY Zenon, <1>4
      <4>3. r.bins[d] = m.bins[d]
        BY Zenon, <2>4, <3>3, <4>2
      <4> QED
        BY Zenon, <3>1, <4>1, <4>2, <4>3
    <3> QED
      BY <3>2, <3>3
  <2>8. ASSUME NEW d \in Bins, NEW i \in DOMAIN r.bins[d]
        PROVE  /\ r.bins[d][i] \in S \ {e}
               /\ BinIndex(r.hdr[r.bins[d][i]].size) = d
               /\ \A j \in DOMAIN r.bins[d] : r.bins[d][j] = r.bins[d][i] => j = i
    <3>1. CASE d = b
      <4>1. r.bins[d] = w /\ i \in DOMAIN w
        BY Zenon, <2>4, <3>1
      <4>2. PICK x \in DOMAIN s \ {k} : w[i] = s[x]
        BY Zenon, <2>3, <4>1
      <4>3. s[x] # e
        BY <2>1, <2>5, <4>2
      <4>4. s[x] \in S /\ BinIndex(m.hdr[s[x]].size) = b
        BY Zenon, <1>1, <1>5, <4>2
      <4> QED
        BY Zenon, <2>4, <2>6, <3>1, <4>1, <4>2, <4>3, <4>4
    <3>2. CASE d # b
      <4>1. r.bins[d] = m.bins[d] /\ i \in DOMAIN m.bins[d]
        BY Zenon, <2>4, <3>2
      <4>2. /\ m.bins[d][i] \in S
            /\ BinIndex(m.hdr[m.bins[d][i]].size) = d
            /\ \A j \in DOMAIN m.bins[d] : m.bins[d][j] = m.bins[d][i] => j = i
        BY Zenon, <1>5, <4>1
      <4>3. m.bins[d][i] # e
        BY <3>2, <4>2
      <4> QED
        BY Zenon, <2>4, <4>1, <4>2, <4>3
    <3> QED
      BY <3>1, <3>2
  <2> QED
    BY Zenon, <2>4, <2>7, <2>8 DEF Binned
<1> QED
  BY <1>6, <1>7

LEMMA PushBins ==
  ASSUME NEW m \in HeapRec, NEW S, Binned(m, S), NEW e \in Addrs \ S, m.hdr[e].size <= MaxUnits,
         NEW r, r = PushFront(m, e)
  PROVE  /\ r \in HeapRec /\ r.hdr = m.hdr /\ r.top = m.top /\ r.len = m.len
         /\ Binned(r, S \union {e})
<1> DEFINE b == BinIndex(m.hdr[e].size)
           s == m.bins[b]
           w == <<e>> \o s
<1>1. b \in Bins
  BY BinOfChunk
<1>2. s \in Seq(Nat) /\ e \in Nat
  BY <1>1, Addresses DEF HeapRec
<1>3. r = Rebin(m, b, w)
  BY DEF PushFront, Rebin
<1>4. \A c \in S : /\ BinIndex(m.hdr[c].size) \in Bins
                   /\ \E i \in DOMAIN m.bins[BinIndex(m.hdr[c].size)] :
                        m.bins[BinIndex(m.hdr[c].size)][i] = c
  BY Zenon DEF Binned
<1>5. \A d \in Bins : \A i \in DOMAIN m.bins[d] :
       /\ m.bins[d][i] \in S
       /\ BinIndex(m.hdr[m.bins[d][i]].size) = d
       /\ \A j \in DOMAIN m.bins[d] : m.bins[d][j] = m.bins[d][i] => j = i
  BY Zenon DEF Binned
<1>6. /\ w \in Seq(Nat)
      /\ 1 \in DOMAIN w /\ w[1] = e
      /\ \A i \in DOMAIN s : i \in Nat /\ i + 1 \in DOMAIN w /\ w[i + 1] = s[i]
      /\ \A j \in DOMAIN w : j # 1 => j - 1 \in DOMAIN s /\ w[j] = s[j - 1] /\ j \in Nat
  <2> HIDE DEF s
  <2> DEFINE l == Len(s)
  <2>1. l \in Nat /\ DOMAIN s = 1 .. l
    BY <1>2
  <2>2. w \in Seq(Nat) /\ DOMAIN w = 1 .. l + 1 /\ w[1] = e /\ \A i \in 1 .. l : w[i + 1] = s[i]
    <3>1. <<e>> \in Seq(Nat) /\ Len(<<e>>) = 1 /\ <<e>>[1] = e
      BY <1>2
    <3>2. w \in Seq(Nat) /\ Len(w) = 1 + l /\ DOMAIN w = 1 .. Len(w)
      BY <1>2, <3>1
    <3>3. \A i \in 1 .. l : w[i + 1] = s[i]
      BY <1>2, <3>1
    <3>4. w[1] = e
      BY <1>2, <3>1
    <3> QED
      BY <2>1, <3>2, <3>3, <3>4
  <2> HIDE DEF l, w
  <2>3. ASSUME NEW j \in DOMAIN w, j # 1 PROVE j - 1 \in DOMAIN s /\ w[j] = s[j - 1] /\ j \in Nat
    <3>1. j - 1 \in 1 .. l /\ (j - 1) + 1 = j /\ j \in Nat
      BY <2>1, <2>2, <2>3
    <3>2. w[(j - 1) + 1] = s[j - 1]
      BY <2>2, <3>1
    <3> QED
      BY <2>1, <3>1, <3>2
  <2> QED
    BY <2>1, <2>2, <2>3
<1> HIDE DEF w
<1>7. /\ r \in HeapRec /\ r.hdr = m.hdr /\ r.top = m.top /\ r.len = m.len
      /\ r.bins[b] = w /\ \A d \in Bins \ {b} : r.bins[d] = m.bins[d]
  <2> HIDE DEF b
  <2> QED
    BY <1>1, <1>3, <1>6, BinStored
<1>8. ASSUME NEW c \in S \union {e}
      PROVE  /\ BinIndex(r.hdr[c].size) \in Bins
             /\ \E i \in DOMAIN r.bins[BinIndex(r.hdr[c].size)] : r.bins[BinIndex(r.hdr[c].size)][i] = c
  <2>1. CASE c = e
    BY Zenon, <1>1, <1>6, <1>7, <2>1
  <2>2. CASE c \in S
    <3> DEFINE d == BinIndex(m.hdr[c].size)
    <3>1. PICK i \in DOMAIN m.bins[d] : m.bins[d][i] = c
      BY Zenon, <1>4, <2>2
    <3>2. d \in Bins
      BY Zenon, <1>4, <2>2
    <3>3. CASE d = b
      <4>1. i + 1 \in DOMAIN w /\ w[i + 1] = c
        BY <1>6, <3>1, <3>3
      <4> QED
        BY Zenon, <1>1, <1>7, <3>3, <4>1
    <3>4. CASE d # b
      <4>1. r.bins[d] = m.bins[d]
        BY Zenon, <1>7, <3>2, <3>4
      <4> QED
        BY Zenon, <1>7, <3>1, <3>2, <4>1
    <3> QED
      BY <3>3, <3>4
  <2> QED
    BY <2>1, <2>2
<1>9. ASSUME NEW d \in Bins, NEW i \in DOMAIN r.bins[d]
      PROVE  /\ r.bins[d][i] \in S \union {e}
             /\ BinIndex(r.hdr[r.bins[d][i]].size) = d
             /\ \A j \in DOMAIN r.bins[d] : r.bins[d][j] = r.bins[d][i] => j = i
  <2>1. CASE d = b
    <3>1. r.bins[d] = w /\ i \in DOMAIN w
      BY Zenon, <1>7, <2>1
    <3>2. CASE i = 1
      <4>1. w[i] = e
        BY <1>6, <3>2
      <4>2. ASSUME NEW j \in DOMAIN w, w[j] = e, j # 1 PROVE FALSE
        <5>1. j - 1 \in DOMAIN s /\ w[j] = s[j - 1]
          BY <1>6, <4>2
        <5>2. s[j - 1] \in S
          BY Zenon, <1>1, <1>5, <5>1
        <5> QED
          BY <4>2, <5>1, <5>2
      <4>3. \A j \in DOMAIN w : w[j] = e => j = i
        BY <3>2, <4>2
      <4>4. BinIndex(r.hdr[e].size) = d
        BY Zenon, <1>7, <2>1
      <4> QED
        BY Zenon, <3>1, <4>1, <4>3, <4>4
    <3>3. CASE i # 1
      <4>1. i - 1 \in DOMAIN s /\ w[i] = s[i - 1] /\ i \in Nat
        BY <1>6, <3>1, <3>3
      <4>2. /\ s[i - 1] \in S /\ BinIndex(m.hdr[s[i - 1]].size) = b
            /\ \A j \in DOMAIN s : s[j] = s[i - 1] => j = i - 1
        BY Zenon, <1>1, <1>5, <4>1
      <4>3. ASSUME NEW j \in DOMAIN w, w[j] = w[i] PROVE j = i
        <5>1. j # 1
          <6>1. ASSUME j = 1 PROVE FALSE
            <7>1. w[i] = e
              BY <1>6, <4>3, <6>1
            <7> QED
              BY <4>1, <4>2, <7>1
          <6> QED
            BY <6>1
        <5>2. j - 1 \in DOMAIN s /\ w[j] = s[j - 1] /\ j \in Nat
          BY <1>6, <5>1
        <5>3. j - 1 = i - 1
          BY Zenon, <4>1, <4>2, <4>3, <5>2
        <5> QED
          BY <4>1, <5>2, <5>3
      <4> QED
        BY Zenon, <1>7, <2>1, <3>1, <4>1, <4>2, <4>3
    <3> QED
      BY <3>2, <3>3
  <2>2. CASE d # b
    <3>1. r.bins[d] = m.bins[d] /\ i \in DOMAIN m.bins[d]
      BY Zenon, <1>7, <2>2
    <3>2. /\ m.bins[d][i] \in S
          /\ BinIndex(m.hdr[m.bins[d][i]].size) = d
          /\ \A j \in DOMAIN m.bins[d] : m.bins[d][j] = m.bins[d][i] => j = i
      BY Zenon, <1>5, <3>1
    <3> QED
      BY Zenon, <1>7, <3>1, <3>2
  <2> QED
    BY <2>1, <2>2
<1> QED
  BY Zenon, <1>7, <1>8, <1>9 DEF Binned

\* What FindEntry returns is on a bin, and larger than what was asked for.
LEMMA FindsFree ==
  ASSUME NEW m \in HeapRec, NEW S, Binned(m, S), NEW u, FindEntry(m, u) # None
  PROVE  FindEntry(m, u) \in S /\ m.hdr[FindEntry(m, u)].size > u
<1> DEFINE full == {b \in Bins : b >= BinIndex(u) /\ m.bins[b] # <<>>}
           last == CHOOSE b \in full : \A c \in full : c <= b
           fits == {i \in DOMAIN m.bins[last] : m.hdr[m.bins[last][i]].size > u}
           k    == CHOOSE i \in fits : \A j \in fits : i <= j
<1>1. full # {} /\ fits # {} /\ FindEntry(m, u) = m.bins[last][k]
  BY DEF FindEntry
<1>2. last \in Bins
  <2>1. BinIndex(2 * MaxUnits) \in Nat
    BY BinTop
  <2>2. full \in SUBSET (0 .. BinIndex(2 * MaxUnits))
    BY DEF Bins
  <2> DEFINE K == BinIndex(2 * MaxUnits)
  <2>3. \E b \in full : \A c \in full : c <= b
    <3>1. K \in Nat /\ full \in SUBSET (0 .. K) /\ full # {}
      BY <1>1, <2>1, <2>2
    <3> HIDE DEF full, K
    <3> QED
      BY <3>1, GreatestExists
  <2>4. last \in full
    BY <2>3
  <2> QED
    BY <2>4
<1> HIDE DEF last
<1>3. k \in fits
  <2>1. m.bins[last] \in Seq(Nat)
    BY <1>2 DEF HeapRec
  <2>2. DOMAIN m.bins[last] \subseteq Nat
    BY <2>1
  <2>3. fits \in SUBSET Nat /\ fits # {}
    BY <1>1, <2>2
  <2>4. \E i \in fits : \A j \in fits : i <= j
    <3> HIDE DEF fits
    <3> QED
      BY <2>3, LeastExists
  <2> QED
    BY <2>4
<1> HIDE DEF k
<1>4. k \in DOMAIN m.bins[last] /\ m.hdr[m.bins[last][k]].size > u
  BY <1>3
<1>5. m.bins[last][k] \in S
  BY Zenon, <1>2, <1>4 DEF Binned
<1> QED
  BY Zenon, <1>1, <1>4, <1>5

--------------------------------------------------------------------------------
(* Merging.                                                                      *)

FreeOf(m) == {c \in ChunksOf(m) \ {m.top} : ~m.hdr[c].used}
UsedOf(m) == {c \in ChunksOf(m) : m.hdr[c].used}

\* No free chunk is followed by the top chunk, or by another that is free, where
\* those of X do not count.
Parted(m, X) ==
  \A c \in FreeOf(m) \ X : /\ NextChunk(m, c) # m.top
                           /\ m.hdr[NextChunk(m, c)].used \/ NextChunk(m, c) \in X

\* A heap between two calls.
Good(m) == Tiled(m) /\ Tagged(m, {}) /\ Binned(m, FreeOf(m)) /\ Parted(m, {})

\* A heap in which everything is in order but for what is next to the chunk e, which
\* is on no bin and has not told the next of its state.
Merging(m, e) ==
  /\ Tiled(m) /\ Tagged(m, {e}) /\ e \in ChunksOf(m) \ {m.top} /\ ~m.hdr[m.top].used
  /\ Binned(m, FreeOf(m) \ {e}) /\ Parted(m, {e})

\* From m to r the chunk e has become the chunk p, and those in use have stayed.
Grown(m, e, r, p) ==
  /\ r.hdr[p].used = m.hdr[e].used /\ r.hdr[p].size >= m.hdr[e].size
  /\ r.len = m.len /\ p \in ChunksOf(r)
  /\ UsedOf(r) \ {p} = UsedOf(m) \ {e}
  /\ \A c \in UsedOf(m) \ {e} : r.hdr[c].size = m.hdr[c].size

LEMMA TaggedLess ==
  ASSUME NEW m, NEW X, Tagged(m, X), NEW Y, \A c \in ChunksOf(m) \ {m.top} : c \in X => c \in Y
  PROVE  Tagged(m, Y)
<1>1. ASSUME NEW c \in ChunksOf(m) \ ({m.top} \union Y)
      PROVE  /\ m.hdr[NextChunk(m, c)].psize = m.hdr[c].size
             /\ m.hdr[NextChunk(m, c)].pused = m.hdr[c].used
  <2>1. c \in ChunksOf(m) \ ({m.top} \union X)
    OBVIOUS
  <2> QED
    BY Zenon, <2>1 DEF Tagged
<1> QED
  BY Zenon, <1>1 DEF Tagged

\* Only bins changed.
LEMMA BinsApart ==
  ASSUME NEW m, NEW r, r.hdr = m.hdr, r.top = m.top, r.len = m.len, r \in HeapRec, Tiled(m)
  PROVE  /\ ChunksOf(r) = ChunksOf(m) /\ FreeOf(r) = FreeOf(m) /\ UsedOf(r) = UsedOf(m)
         /\ \A c : NextChunk(r, c) = NextChunk(m, c)
         /\ Tiled(r)
         /\ \A X : Tagged(m, X) => Tagged(r, X)
         /\ \A X : Parted(m, X) => Parted(r, X)
<1>1. ChunksOf(r) = ChunksOf(m) /\ \A c : NextChunk(r, c) = NextChunk(m, c)
  BY Zenon DEF ChunksOf, NextChunk
<1>2. FreeOf(r) = FreeOf(m) /\ UsedOf(r) = UsedOf(m)
  BY Zenon, <1>1 DEF FreeOf, UsedOf
<1>3. Tiled(r)
  BY SameTiles
<1>4. \A X : Tagged(m, X) => Tagged(r, X)
  BY Zenon, <1>1 DEF Tagged
<1>5. \A X : Parted(m, X) => Parted(r, X)
  BY Zenon, <1>1, <1>2 DEF Parted
<1> QED
  BY Zenon, <1>1, <1>2, <1>3, <1>4, <1>5

\* Start is where the chunk before begins if it is free.
LEMMA StartIsFree ==
  ASSUME NEW m, Tiled(m), NEW e \in ChunksOf(m), Tagged(m, {e})
  PROVE  \/ /\ Start(m, e) = e
            /\ \A c \in FreeOf(m) : NextChunk(m, c) # e
         \/ /\ Start(m, e) \in FreeOf(m) /\ Start(m, e) # e
            /\ NextChunk(m, Start(m, e)) = e
<1>1. /\ e \in Addrs /\ e \in Nat /\ m.hdr[e].psize \in Nat /\ m.hdr[e].pused \in BOOLEAN
  BY ChunkFacts, Addresses
<1>2. CASE e = 0
  <2>1. m.hdr[e].psize = 0
    BY <1>2 DEF Tagged
  <2>2. Start(m, e) = e
    BY <2>1 DEF Start
  <2>3. \A c \in FreeOf(m) : NextChunk(m, c) # e
    <3>1. ASSUME NEW c \in FreeOf(m) PROVE NextChunk(m, c) # e
      <4>1. c \in ChunksOf(m) /\ c \in Nat /\ NextChunk(m, c) \in Nat /\ c < NextChunk(m, c)
        BY ChunkFacts, Addresses DEF FreeOf
      <4> QED
        BY <1>2, <4>1
    <3> QED
      BY <3>1
  <2> QED
    BY <2>2, <2>3
<1>3. CASE e # 0
  <2>1. PICK q \in ChunksOf(m) \ {m.top} : NextChunk(m, q) = e
    BY <1>3 DEF Tiled
  <2>2. q \in Nat /\ m.hdr[q].size \in Nat /\ m.hdr[q].size > 0 /\ q + m.hdr[q].size = e /\ q # e
        /\ m.hdr[q].used \in BOOLEAN
    <3>1. q \in Addrs /\ q \in Nat
      BY <2>1, ChunkFacts
    <3>2. m.hdr[q].size \in Nat /\ m.hdr[q].used \in BOOLEAN /\ NextChunk(m, q) = q + m.hdr[q].size /\ q < NextChunk(m, q)
      BY <2>1, <3>1, ChunkFacts
    <3> QED
      BY <1>1, <2>1, <3>1, <3>2
  <2>3. m.hdr[e].psize = m.hdr[q].size /\ m.hdr[e].pused = m.hdr[q].used
    <3>1. q \in ChunksOf(m) \ ({m.top} \union {e})
      BY <2>1, <2>2
    <3> QED
      BY Zenon, <2>1, <3>1 DEF Tagged
  <2>4. CASE m.hdr[q].used
    <3>1. Start(m, e) = e
      BY Zenon, <2>3, <2>4 DEF Start
    <3>2. ASSUME NEW c \in FreeOf(m) PROVE NextChunk(m, c) # e
      <4>1. c \in ChunksOf(m) /\ c # q
        BY <2>4 DEF FreeOf
      <4> QED
        BY <2>1, <4>1, EndsDiffer
    <3> QED
      BY <3>1, <3>2
  <2>5. CASE ~m.hdr[q].used
    <3>1. ~m.hdr[e].pused /\ m.hdr[e].psize > 0 /\ e - m.hdr[e].psize = q
      <4>1. ~m.hdr[e].pused
        BY Zenon, <2>3, <2>5
      <4>2. m.hdr[e].psize > 0 /\ e - m.hdr[e].psize = q
        BY <1>1, <2>2, <2>3
      <4> QED
        BY <4>1, <4>2
    <3>2. Start(m, e) = q
      BY Zenon, <3>1 DEF Start
    <3>3. q \in FreeOf(m)
      BY <2>1, <2>5 DEF FreeOf
    <3> QED
      BY Zenon, <2>1, <2>2, <3>2, <3>3
  <2> QED
    BY <2>2, <2>4, <2>5
<1> QED
  BY <1>2, <1>3

LEMMA PrevMerged ==
  ASSUME NEW m, NEW e, Merging(m, e), NEW p, p = Start(m, e), NEW r, r = MergePrev(m, e)
  PROVE  /\ Merging(r, p) /\ Grown(m, e, r, p) /\ r.top = m.top
         /\ \A c \in FreeOf(r) : NextChunk(r, c) # p
<1>1. /\ Tiled(m) /\ Tagged(m, {e}) /\ e \in ChunksOf(m) /\ e # m.top /\ ~m.hdr[m.top].used
      /\ Binned(m, FreeOf(m) \ {e}) /\ Parted(m, {e})
  BY Zenon DEF Merging
<1>2. /\ m \in HeapRec /\ e \in Addrs /\ e \in Nat /\ m.hdr[e].size \in Nat /\ m.hdr[e].used \in BOOLEAN
      /\ m.hdr[e].size > 0
  BY <1>1, ChunkFacts, Addresses
<1>3. \/ /\ p = e
         /\ \A c \in FreeOf(m) : NextChunk(m, c) # e
      \/ /\ p \in FreeOf(m) /\ p # e /\ NextChunk(m, p) = e
  BY Zenon, <1>1, StartIsFree
<1>4. CASE p = e /\ \A c \in FreeOf(m) : NextChunk(m, c) # e
  <2>1. r = m
    BY <1>4 DEF MergePrev
  <2>2. Grown(m, e, r, p)
    <3>1. m.hdr[e].size >= m.hdr[e].size
      BY <1>2
    <3> QED
      BY Zenon, <1>1, <1>4, <2>1, <3>1 DEF Grown
  <2> QED
    BY Zenon, <1>4, <2>1, <2>2
<1>5. CASE p \in FreeOf(m) /\ p # e /\ NextChunk(m, p) = e
  <2> DEFINE m1 == Remove(m, p)
             m2 == Absorb(m1, p, e)
  <2>1. r = Using(m2, p, m.hdr[e].used)
    BY <1>5 DEF MergePrev, Using
  <2>2. p \in ChunksOf(m) /\ p # m.top /\ ~m.hdr[p].used /\ p \in Addrs /\ p \in Nat
        /\ m.hdr[p].size \in Nat /\ m.hdr[p].size <= MaxUnits
    BY <1>1, <1>5, ChunkFacts, Addresses DEF FreeOf
  <2>3. /\ m1 \in HeapRec /\ m1.hdr = m.hdr /\ m1.top = m.top /\ m1.len = m.len
        /\ Binned(m1, (FreeOf(m) \ {e}) \ {p})
    BY <1>1, <1>2, <2>2, RemoveBins
  <2> HIDE DEF m1
  <2>4. /\ ChunksOf(m1) = ChunksOf(m) /\ \A c : NextChunk(m1, c) = NextChunk(m, c)
        /\ Tiled(m1) /\ Tagged(m1, {e})
    BY Zenon, <1>1, <2>3, BinsApart
  <2>5. /\ Tiled(m2) /\ Tagged(m2, {e} \union {p}) /\ ChunksOf(m2) = ChunksOf(m) \ {e}
        /\ m2.top = m.top /\ m2.len = m.len /\ m2.bins = m1.bins
        /\ \A c \in Addrs : c # p /\ c # e => m2.hdr[c] = m.hdr[c] /\ NextChunk(m2, c) = NextChunk(m, c)
        /\ m2.hdr[p].size = m.hdr[p].size + m.hdr[e].size
        /\ NextChunk(m2, p) = NextChunk(m, e)
    <3>1. p \in ChunksOf(m1) /\ p # m1.top /\ e = NextChunk(m1, p)
      BY Zenon, <1>5, <2>2, <2>3, <2>4
    <3> DEFINE X == {e}
    <3>2. Tiled(m2) /\ Tagged(m2, X \union {p}) /\ InOne(m1, p, e, m2)
      <4>1. Tagged(m1, X)
        BY <2>4
      <4>2. m2 = Absorb(m1, p, e)
        OBVIOUS
      <4> HIDE DEF X, m2
      <4> QED
        BY <2>4, <3>1, <4>1, <4>2, AbsorbTiles
    <3>3. e # m1.top
      BY <1>1, <2>3
    <3> HIDE DEF m2
    <3> QED
      BY Zenon, <2>3, <2>4, <3>2, <3>3 DEF InOne
  <2> HIDE DEF m2
  <2>6. p \in ChunksOf(m2)
    BY <1>5, <2>2, <2>5
  <2>7. /\ Tiled(r) /\ Tagged(r, ({e} \union {p}) \union {p}) /\ ChunksOf(r) = ChunksOf(m2)
        /\ r.top = m2.top /\ r.len = m2.len /\ r.bins = m2.bins
        /\ \A c \in Addrs : r.hdr[c].size = m2.hdr[c].size /\ NextChunk(r, c) = NextChunk(m2, c)
        /\ \A c \in Addrs : c # p => r.hdr[c].used = m2.hdr[c].used
        /\ r.hdr[p].used = m.hdr[e].used
    <3> DEFINE X == {e} \union {p}
               b == m.hdr[e].used
    <3>1. Tagged(m2, X) /\ b \in BOOLEAN /\ r = Using(m2, p, b)
      BY <1>2, <2>1, <2>5
    <3>2. Tiled(r) /\ Tagged(r, X \union {p}) /\ InUse(m2, p, b, r)
      <4> HIDE DEF X, b
      <4> QED
        BY <2>5, <2>6, <3>1, UseTiles
    <3> QED
      BY Zenon, <3>2 DEF InUse
  <2>8. ChunksOf(r) = ChunksOf(m) \ {e} /\ r.top = m.top /\ r.len = m.len /\ r.bins = m1.bins
    BY Zenon, <2>5, <2>7
  <2>9. \A c \in ChunksOf(m) \ {e, p} :
          /\ r.hdr[c].size = m.hdr[c].size /\ r.hdr[c].used = m.hdr[c].used
          /\ NextChunk(r, c) = NextChunk(m, c)
    <3>1. ASSUME NEW c \in ChunksOf(m) \ {e, p}
          PROVE  /\ r.hdr[c].size = m.hdr[c].size /\ r.hdr[c].used = m.hdr[c].used
                 /\ NextChunk(r, c) = NextChunk(m, c)
      <4>1. c \in Addrs \ {p, e} /\ c \in Addrs \ {p} /\ c \in Addrs
        BY <1>1, ChunkFacts
      <4> QED
        BY Zenon, <2>5, <2>7, <4>1
    <3> QED
      BY Zenon, <3>1
  <2>10. r.hdr[p].size = m.hdr[p].size + m.hdr[e].size /\ NextChunk(r, p) = NextChunk(m, e)
    BY Zenon, <2>2, <2>5, <2>7
  <2>11. FreeOf(r) \ {p} = (FreeOf(m) \ {e}) \ {p}
    <3>1. ASSUME NEW c PROVE c \in FreeOf(r) \ {p} <=> c \in (FreeOf(m) \ {e}) \ {p}
      <4>1. CASE c \in ChunksOf(m) \ {e, p}
        BY Zenon, <2>8, <2>9, <4>1 DEF FreeOf
      <4>2. CASE c \notin ChunksOf(m) \ {e, p}
        BY Zenon, <2>8, <4>2 DEF FreeOf
      <4> QED
        BY <4>1, <4>2
    <3> QED
      BY <3>1
  <2>12. Binned(r, FreeOf(r) \ {p})
    <3> DEFINE S == (FreeOf(m) \ {e}) \ {p}
    <3>1. \A c \in S : r.hdr[c].size = m1.hdr[c].size
      <4>1. \A c \in S : c \in ChunksOf(m) \ {e, p}
        BY DEF FreeOf
      <4> QED
        BY Zenon, <2>3, <2>9, <4>1
    <3>2. Binned(m1, S)
      BY <2>3
    <3>3. Binned(r, S)
      <4> HIDE DEF S
      <4> QED
        BY Zenon, <2>8, <3>1, <3>2, BinnedSame
    <3> QED
      BY Zenon, <2>11, <3>3
  <2>13. ASSUME NEW c \in FreeOf(r) \ {p}
         PROVE  /\ NextChunk(r, c) # r.top /\ r.hdr[NextChunk(r, c)].used /\ NextChunk(r, c) # p
    <3>1. c \in FreeOf(m) \ {e} /\ c # p /\ c \in ChunksOf(m) \ {e, p} /\ c # m.top
      BY <2>11 DEF FreeOf
    <3>2. NextChunk(m, c) # m.top /\ (m.hdr[NextChunk(m, c)].used \/ NextChunk(m, c) \in {e})
      BY Zenon, <1>1, <3>1 DEF Parted
    <3>3. NextChunk(m, c) # e
      BY <1>1, <1>5, <2>2, <3>1, EndsDiffer
    <3>4. m.hdr[NextChunk(m, c)].used
      BY Zenon, <3>2, <3>3
    <3>5. NextChunk(m, c) # p
      BY Zenon, <2>2, <3>4
    <3>6. NextChunk(m, c) \in ChunksOf(m)
      BY <1>1, <3>1 DEF Tiled
    <3>7. NextChunk(m, c) \in ChunksOf(m) \ {e, p}
      BY <3>3, <3>5, <3>6
    <3> QED
      BY Zenon, <2>8, <2>9, <3>1, <3>2, <3>4, <3>5, <3>7
  <2>14. Parted(r, {p})
    BY Zenon, <2>13 DEF Parted
  <2>15. Tagged(r, {p})
    <3> DEFINE X == ({e} \union {p}) \union {p}
               Y == {p}
    <3>1. \A c \in ChunksOf(r) \ {r.top} : c \in X => c \in Y
      BY <2>8
    <3>2. Tagged(r, X)
      BY <2>7
    <3>3. Tagged(r, Y)
      <4> HIDE DEF X, Y
      <4> QED
        BY Zenon, <3>1, <3>2, TaggedLess
    <3> QED
      BY <3>3
  <2>16. ~r.hdr[r.top].used
    <3>1. m.top \in ChunksOf(m) \ {e, p}
      BY <1>1, <2>2 DEF Tiled
    <3> QED
      BY Zenon, <1>1, <2>8, <2>9, <3>1
  <2>17. Merging(r, p)
    <3>1. p \in ChunksOf(r) \ {r.top}
      BY <1>5, <2>2, <2>8
    <3> QED
      BY Zenon, <2>7, <2>12, <2>14, <2>15, <2>16, <3>1 DEF Merging
  <2>18. Grown(m, e, r, p)
    <3>1. r.hdr[p].size >= m.hdr[e].size
      BY <1>2, <2>2, <2>10
    <3>2. UsedOf(r) \ {p} = UsedOf(m) \ {e}
      <4>1. ASSUME NEW c PROVE c \in UsedOf(r) \ {p} <=> c \in UsedOf(m) \ {e}
        <5>1. CASE c \in ChunksOf(m) \ {e, p}
          BY Zenon, <2>8, <2>9, <5>1 DEF UsedOf
        <5>2. CASE c \notin ChunksOf(m) \ {e, p}
          BY Zenon, <2>2, <2>8, <5>2 DEF UsedOf
        <5> QED
          BY <5>1, <5>2
      <4> QED
        BY <4>1
    <3>3. ASSUME NEW c \in UsedOf(m) \ {e} PROVE r.hdr[c].size = m.hdr[c].size
      <4>1. c \in ChunksOf(m) \ {e, p}
        BY <2>2 DEF UsedOf
      <4> QED
        BY Zenon, <2>9, <4>1
    <3>4. p \in ChunksOf(r)
      BY <1>5, <2>2, <2>8
    <3> QED
      BY Zenon, <2>7, <2>8, <3>1, <3>2, <3>3, <3>4 DEF Grown
  <2>19. ASSUME NEW c \in FreeOf(r) PROVE NextChunk(r, c) # p
    <3>1. CASE c = p
      <4>1. p \in ChunksOf(r)
        BY <1>5, <2>2, <2>8
      <4>2. p < NextChunk(r, p) /\ NextChunk(r, p) \in Addrs
        BY <2>7, <4>1, ChunkFacts
      <4> QED
        BY <2>2, <3>1, <4>2, Addresses
    <3>2. CASE c # p
      BY Zenon, <2>13, <3>2
    <3> QED
      BY <3>1, <3>2
  <2> QED
    BY Zenon, <2>8, <2>17, <2>18, <2>19
<1> QED
  BY Zenon, <1>3, <1>4, <1>5

\* The chunk p is on no bin, what is next to it is in use, and all else is in order, but
\* for what those that follow one of X know of it.
Alone(m, p, X) ==
  /\ Tiled(m) /\ Tagged(m, X) /\ p \in ChunksOf(m)
  /\ Binned(m, FreeOf(m) \ {p})
  /\ \A c \in FreeOf(m) \ {p} :
       /\ NextChunk(m, c) # m.top /\ NextChunk(m, c) # p /\ m.hdr[NextChunk(m, c)].used
  /\ p # m.top => /\ NextChunk(m, p) # m.top /\ m.hdr[NextChunk(m, p)].used
                  /\ ~m.hdr[m.top].used

\* MergeNext, after MergePrev.
LEMMA NextMerged ==
  ASSUME NEW m, NEW p, Merging(m, p), \A c \in FreeOf(m) : NextChunk(m, c) # p,
         NEW r, r = MergeNext(m, p)
  PROVE  Alone(r, p, {p}) /\ Grown(m, p, r, p)
<1> DEFINE n == NextChunk(m, p)
<1>1. /\ Tiled(m) /\ Tagged(m, {p}) /\ p \in ChunksOf(m) /\ p # m.top /\ ~m.hdr[m.top].used
      /\ Binned(m, FreeOf(m) \ {p}) /\ Parted(m, {p})
  BY Zenon DEF Merging
<1>2. /\ m \in HeapRec /\ p \in Addrs /\ p \in Nat /\ m.hdr[p].size \in Nat
      /\ p < n /\ n \in Nat
  BY <1>1, ChunkFacts, Addresses
<1>3. n \in ChunksOf(m)
  BY <1>1 DEF Tiled
<1>4. /\ n \in Addrs /\ m.hdr[n].size \in Nat /\ m.hdr[n].size <= MaxUnits /\ n < NextChunk(m, n)
      /\ NextChunk(m, n) \in Addrs /\ NextChunk(m, n) \in Nat
  BY <1>1, <1>3, ChunkFacts, Addresses
<1>5. n # p
  BY <1>2
<1>6. r = IF m.hdr[n].used THEN m ELSE Absorb(Remove(m, n), p, n)
  BY DEF MergeNext
<1>7. ASSUME NEW c \in FreeOf(m) \ {p}
      PROVE  NextChunk(m, c) # m.top /\ NextChunk(m, c) # p /\ m.hdr[NextChunk(m, c)].used
  BY <1>1 DEF Parted
<1> HIDE DEF n
<1>8. CASE m.hdr[n].used
  <2>1. r = m /\ n # m.top
    BY Zenon, <1>1, <1>6, <1>8
  <2>2. Alone(r, p, {p})
    BY Zenon, <1>1, <1>7, <1>8, <2>1 DEF Alone, n
  <2>3. m.hdr[p].size >= m.hdr[p].size
    BY <1>2
  <2> QED
    BY Zenon, <1>1, <2>1, <2>2, <2>3 DEF Grown
<1>9. CASE ~m.hdr[n].used
  <2> DEFINE m1 == Remove(m, n)
  <2>1. r = Absorb(m1, p, n)
    BY <1>6, <1>9
  <2>2. /\ m1 \in HeapRec /\ m1.hdr = m.hdr /\ m1.top = m.top /\ m1.len = m.len
        /\ Binned(m1, (FreeOf(m) \ {p}) \ {n})
    BY <1>1, <1>2, <1>4, RemoveBins
  <2> HIDE DEF m1
  <2>3. /\ ChunksOf(m1) = ChunksOf(m) /\ \A c : NextChunk(m1, c) = NextChunk(m, c)
        /\ Tiled(m1) /\ Tagged(m1, {p})
    BY Zenon, <1>1, <2>2, BinsApart
  <2>4. Tiled(r) /\ Tagged(r, {p}) /\ InOne(m1, p, n, r)
    <3> DEFINE X == {p}
    <3>1. Tagged(m1, X) /\ X \union {p} = X
      BY <2>3
    <3>2. p \in ChunksOf(m1) /\ p # m1.top /\ n = NextChunk(m1, p)
      BY Zenon, <1>1, <2>2, <2>3 DEF n
    <3> HIDE DEF X
    <3>3. Tiled(r) /\ Tagged(r, X \union {p}) /\ InOne(m1, p, n, r)
      BY <2>1, <2>3, <3>1, <3>2, AbsorbTiles
    <3> QED
      BY Zenon, <3>1, <3>3 DEF X
  <2>5. /\ ChunksOf(r) = ChunksOf(m) \ {n} /\ r.len = m.len /\ r.bins = m1.bins
        /\ r.top = (IF n = m.top THEN p ELSE m.top)
        /\ \A c \in Addrs : c # p /\ c # n => r.hdr[c] = m.hdr[c] /\ NextChunk(r, c) = NextChunk(m, c)
        /\ r.hdr[p].size = m.hdr[p].size + m.hdr[n].size /\ r.hdr[p].used = m.hdr[p].used
        /\ NextChunk(r, p) = NextChunk(m, n)
    BY Zenon, <2>2, <2>3, <2>4 DEF InOne
  <2>6. \A c \in ChunksOf(m) : c # n /\ c # p =>
          /\ r.hdr[c] = m.hdr[c] /\ NextChunk(r, c) = NextChunk(m, c) /\ c \in ChunksOf(r)
    <3>1. ASSUME NEW c \in ChunksOf(m), c # n, c # p
          PROVE  r.hdr[c] = m.hdr[c] /\ NextChunk(r, c) = NextChunk(m, c) /\ c \in ChunksOf(r)
      <4>1. c \in Addrs /\ c \in ChunksOf(r)
        BY <1>1, <2>5, <3>1, ChunkFacts
      <4> QED
        BY Zenon, <2>5, <3>1, <4>1
    <3> QED
      BY Zenon, <3>1
  <2>7. p \in ChunksOf(r)
    BY <1>1, <1>5, <2>5
  <2>8. FreeOf(r) \ {p} = (FreeOf(m) \ {p}) \ {n}
    <3>1. ASSUME NEW c PROVE c \in FreeOf(r) \ {p} <=> c \in (FreeOf(m) \ {p}) \ {n}
      <4>1. CASE c \in ChunksOf(m) /\ c # n /\ c # p
        <5>1. c = r.top <=> c = m.top
          BY <2>5, <4>1
        <5> QED
          BY Zenon, <2>6, <4>1, <5>1 DEF FreeOf
      <4>2. CASE ~(c \in ChunksOf(m) /\ c # n /\ c # p)
        BY Zenon, <2>5, <4>2 DEF FreeOf
      <4> QED
        BY <4>1, <4>2
    <3> QED
      BY <3>1
  <2>9. Binned(r, FreeOf(r) \ {p})
    <3> DEFINE S == (FreeOf(m) \ {p}) \ {n}
    <3>1. ASSUME NEW c \in S PROVE r.hdr[c].size = m1.hdr[c].size
      <4>1. c \in ChunksOf(m) /\ c # n /\ c # p
        BY DEF FreeOf
      <4> QED
        BY Zenon, <2>2, <2>6, <4>1
    <3>2. Binned(m1, S)
      BY <2>2
    <3>3. Binned(r, S)
      <4> HIDE DEF S
      <4> QED
        BY Zenon, <2>5, <3>1, <3>2, BinnedSame
    <3> QED
      BY Zenon, <2>8, <3>3
  <2>10. ASSUME NEW c \in FreeOf(r) \ {p}
         PROVE  NextChunk(r, c) # r.top /\ NextChunk(r, c) # p /\ r.hdr[NextChunk(r, c)].used
    <3>1. c \in FreeOf(m) \ {p} /\ c \in ChunksOf(m) /\ c # n /\ c # p /\ c # m.top
      BY <2>8 DEF FreeOf
    <3>2. NextChunk(m, c) # m.top /\ NextChunk(m, c) # p /\ m.hdr[NextChunk(m, c)].used
      BY Zenon, <1>7, <3>1
    <3>3. NextChunk(m, c) # n /\ NextChunk(m, c) # r.top
      BY Zenon, <1>9, <2>5, <3>2
    <3>4. NextChunk(m, c) \in ChunksOf(m)
      BY <1>1, <3>1 DEF Tiled
    <3> QED
      BY Zenon, <2>6, <3>1, <3>2, <3>3, <3>4
  <2>11. ASSUME p # r.top
         PROVE  NextChunk(r, p) # r.top /\ r.hdr[NextChunk(r, p)].used /\ ~r.hdr[r.top].used
    <3>1. n # m.top /\ r.top = m.top
      BY Zenon, <2>5, <2>11
    <3>2. n \in FreeOf(m) \ {p}
      BY <1>3, <1>5, <1>9, <3>1 DEF FreeOf
    <3>3. NextChunk(m, n) # m.top /\ m.hdr[NextChunk(m, n)].used
      BY Zenon, <1>7, <3>2
    <3>4. NextChunk(m, n) # n /\ NextChunk(m, n) # p
      BY <1>2, <1>4
    <3>5. NextChunk(m, n) \in ChunksOf(m) /\ m.top \in ChunksOf(m)
      BY <1>1, <1>3, <3>1 DEF Tiled
    <3> QED
      BY Zenon, <1>1, <2>5, <2>6, <3>1, <3>3, <3>4, <3>5
  <2>12. Alone(r, p, {p})
    BY Zenon, <2>4, <2>7, <2>9, <2>10, <2>11 DEF Alone
  <2>13. UsedOf(r) \ {p} = UsedOf(m) \ {p}
    <3>1. ASSUME NEW c PROVE c \in UsedOf(r) \ {p} <=> c \in UsedOf(m) \ {p}
      <4>1. CASE c \in ChunksOf(m) /\ c # n /\ c # p
        BY Zenon, <2>6, <4>1 DEF UsedOf
      <4>2. CASE ~(c \in ChunksOf(m) /\ c # n /\ c # p)
        BY Zenon, <1>9, <2>5, <4>2 DEF UsedOf
      <4> QED
        BY <4>1, <4>2
    <3> QED
      BY <3>1
  <2>14. ASSUME NEW c \in UsedOf(m) \ {p} PROVE r.hdr[c].size = m.hdr[c].size
    <3>1. c \in ChunksOf(m) /\ c # p /\ c # n
      BY Zenon, <1>9 DEF UsedOf
    <3> QED
      BY Zenon, <2>6, <3>1
  <2>15. r.hdr[p].size >= m.hdr[p].size
    BY <1>2, <1>4, <2>5
  <2> QED
    BY Zenon, <2>5, <2>7, <2>12, <2>13, <2>14, <2>15 DEF Grown
<1> QED
  BY <1>8, <1>9

LEMMA ToldSame ==
  ASSUME NEW m, Tiled(m), NEW r, Told(m, r)
  PROVE  /\ FreeOf(r) = FreeOf(m) /\ UsedOf(r) = UsedOf(m)
         /\ \A S : Binned(m, S) /\ S \subseteq ChunksOf(m) => Binned(r, S)
<1>1. /\ ChunksOf(r) = ChunksOf(m) /\ r.top = m.top /\ r.bins = m.bins
      /\ \A c \in Addrs : r.hdr[c].size = m.hdr[c].size /\ r.hdr[c].used = m.hdr[c].used
  BY Zenon DEF Told
<1>2. ChunksOf(m) \subseteq Addrs
  BY ChunkFacts
<1>3. \A c \in ChunksOf(m) : r.hdr[c].size = m.hdr[c].size /\ r.hdr[c].used = m.hdr[c].used
  BY <1>1, <1>2
<1>4. FreeOf(r) = FreeOf(m)
  <2>1. ASSUME NEW c PROVE c \in FreeOf(r) <=> c \in FreeOf(m)
    BY Zenon, <1>1, <1>3 DEF FreeOf
  <2> QED
    BY <2>1
<1>5. UsedOf(r) = UsedOf(m)
  <2>1. ASSUME NEW c PROVE c \in UsedOf(r) <=> c \in UsedOf(m)
    BY Zenon, <1>1, <1>3 DEF UsedOf
  <2> QED
    BY <2>1
<1>6. ASSUME NEW S, Binned(m, S), S \subseteq ChunksOf(m) PROVE Binned(r, S)
  <2>1. \A c \in S : r.hdr[c].size = m.hdr[c].size
    BY <1>3, <1>6
  <2> QED
    BY Zenon, <1>1, <1>6, <2>1, BinnedSame
<1> QED
  BY Zenon, <1>4, <1>5, <1>6

LEMMA AloneTold ==
  ASSUME NEW m, NEW p, Alone(m, p, {p}), p # m.top, NEW r, r = TellNext(m, p)
  PROVE  Alone(r, p, {}) /\ Grown(m, p, r, p)
<1>1. /\ Tiled(m) /\ Tagged(m, {p}) /\ p \in ChunksOf(m)
      /\ Binned(m, FreeOf(m) \ {p})
      /\ NextChunk(m, p) # m.top /\ m.hdr[NextChunk(m, p)].used /\ ~m.hdr[m.top].used
  BY Zenon DEF Alone
<1>2. Tiled(r) /\ Tagged(r, {}) /\ Told(m, r)
  <2> DEFINE X == {}
  <2>1. X \union {p} = {p}
    OBVIOUS
  <2> HIDE DEF X
  <2>2. Tagged(m, X \union {p})
    BY Zenon, <1>1, <2>1
  <2>3. Tiled(r) /\ Tagged(r, X) /\ Told(m, r)
    BY Zenon, <1>1, <2>2, TellTiles
  <2> QED
    BY Zenon, <2>3 DEF X
<1>3. FreeOf(r) = FreeOf(m) /\ UsedOf(r) = UsedOf(m)
  BY Zenon, <1>1, <1>2, ToldSame
<1>4. Binned(r, FreeOf(r) \ {p})
  <2> DEFINE S == FreeOf(m) \ {p}
  <2>1. S \subseteq ChunksOf(m) /\ Binned(m, S)
    BY <1>1 DEF FreeOf
  <2>2. Binned(r, S)
    <3> HIDE DEF S
    <3> QED
      BY Zenon, <1>1, <1>2, <2>1, ToldSame
  <2> QED
    BY Zenon, <1>3, <2>2
<1>5. /\ ChunksOf(r) = ChunksOf(m) /\ r.top = m.top /\ r.len = m.len
      /\ \A c \in Addrs : r.hdr[c].size = m.hdr[c].size /\ r.hdr[c].used = m.hdr[c].used
      /\ \A c \in Addrs : NextChunk(r, c) = NextChunk(m, c)
  BY Zenon, <1>2 DEF Told
<1>6. /\ ChunksOf(m) \subseteq Addrs /\ m.top \in ChunksOf(m)
      /\ \A c \in ChunksOf(m) : NextChunk(m, c) \in Addrs
      /\ m.hdr[p].size \in Nat
  BY <1>1, ChunkFacts DEF Tiled
<1>7. ASSUME NEW c \in FreeOf(r) \ {p}
      PROVE  NextChunk(r, c) # r.top /\ NextChunk(r, c) # p /\ r.hdr[NextChunk(r, c)].used
  <2>1. c \in FreeOf(m) \ {p}
    BY Zenon, <1>3
  <2>2. c \in Addrs /\ NextChunk(m, c) \in Addrs
    BY <1>6, <2>1 DEF FreeOf
  <2>3. NextChunk(m, c) # m.top /\ NextChunk(m, c) # p /\ m.hdr[NextChunk(m, c)].used
    BY Zenon, <2>1 DEF Alone
  <2> QED
    BY Zenon, <1>5, <2>2, <2>3
<1>8. NextChunk(r, p) # r.top /\ r.hdr[NextChunk(r, p)].used /\ ~r.hdr[r.top].used
  <2>1. p \in Addrs /\ m.top \in Addrs /\ NextChunk(m, p) \in Addrs
    BY <1>1, <1>6
  <2> QED
    BY Zenon, <1>1, <1>5, <2>1
<1>9. Alone(r, p, {})
  BY Zenon, <1>1, <1>2, <1>4, <1>5, <1>7, <1>8 DEF Alone
<1>10. r.hdr[p].size >= m.hdr[p].size /\ r.hdr[p].used = m.hdr[p].used
  BY <1>1, <1>5, <1>6
<1>11. ASSUME NEW c \in UsedOf(m) \ {p} PROVE r.hdr[c].size = m.hdr[c].size
  BY <1>5, <1>6 DEF UsedOf
<1> QED
  BY Zenon, <1>1, <1>3, <1>5, <1>9, <1>10, <1>11 DEF Grown

LEMMA GrownTwice ==
  ASSUME NEW m, NEW e, NEW a, NEW p, NEW r, Grown(m, e, a, p), Grown(a, p, r, p),
         m.hdr[e].size \in Nat, a.hdr[p].size \in Nat, r.hdr[p].size \in Nat
  PROVE  Grown(m, e, r, p)
<1>1. r.hdr[p].used = m.hdr[e].used /\ r.len = m.len /\ p \in ChunksOf(r)
  BY Zenon DEF Grown
<1>2. r.hdr[p].size >= m.hdr[e].size
  <2>1. r.hdr[p].size >= a.hdr[p].size /\ a.hdr[p].size >= m.hdr[e].size
    BY Zenon DEF Grown
  <2> QED
    BY <2>1
<1>3. UsedOf(r) \ {p} = UsedOf(m) \ {e} /\ UsedOf(a) \ {p} = UsedOf(m) \ {e}
  BY Zenon DEF Grown
<1>4. ASSUME NEW c \in UsedOf(m) \ {e} PROVE r.hdr[c].size = m.hdr[c].size
  <2>1. c \in UsedOf(a) \ {p}
    BY Zenon, <1>3
  <2> QED
    BY Zenon, <2>1 DEF Grown
<1> QED
  BY Zenon, <1>1, <1>2, <1>3, <1>4 DEF Grown

\* MergeWithNeighbors merges with both sides.
LEMMA Merges ==
  ASSUME NEW m, NEW e, Merging(m, e), NEW p, p = Start(m, e),
         NEW r, r = MergeWithNeighbors(m, e)
  PROVE  Alone(r, p, {}) /\ Grown(m, e, r, p)
<1> DEFINE a == MergePrev(m, e)
           b == MergeNext(a, p)
<1>1. r = IF p = b.top THEN b ELSE TellNext(b, p)
  BY DEF MergeWithNeighbors
<1>2. /\ Merging(a, p) /\ Grown(m, e, a, p)
      /\ \A c \in FreeOf(a) : NextChunk(a, c) # p
  BY Zenon, PrevMerged
<1> HIDE DEF a
<1>3. Alone(b, p, {p}) /\ Grown(a, p, b, p)
  BY Zenon, <1>2, NextMerged
<1> HIDE DEF b
<1>4. m.hdr[e].size \in Nat /\ a.hdr[p].size \in Nat /\ b.hdr[p].size \in Nat
  <2>1. Tiled(m) /\ e \in ChunksOf(m)
    BY DEF Merging
  <2>2. Tiled(a) /\ p \in ChunksOf(a)
    BY <1>2 DEF Merging
  <2>3. Tiled(b) /\ p \in ChunksOf(b)
    BY Zenon, <1>3 DEF Alone
  <2> QED
    BY <2>1, <2>2, <2>3, ChunkFacts
<1>5. Grown(m, e, b, p)
  BY Zenon, <1>2, <1>3, <1>4, GrownTwice
<1>6. CASE p = b.top
  <2> DEFINE X == {p}
             Y == {}
  <2>1. Tagged(b, X) /\ \A c \in ChunksOf(b) \ {b.top} : c \in X => c \in Y
    BY <1>3, <1>6 DEF Alone
  <2>2. Tagged(b, Y)
    <3> HIDE DEF X, Y
    <3> QED
      BY Zenon, <2>1, TaggedLess
  <2>3. Alone(b, p, {})
    BY Zenon, <1>3, <2>2 DEF Alone
  <2> QED
    BY Zenon, <1>1, <1>5, <1>6, <2>3
<1>7. CASE p # b.top
  <2>1. r = TellNext(b, p)
    BY <1>1, <1>7
  <2>2. Alone(r, p, {}) /\ Grown(b, p, r, p)
    BY Zenon, <1>3, <1>7, <2>1, AloneTold
  <2>3. r.hdr[p].size \in Nat
    <3>1. Tiled(r) /\ p \in ChunksOf(r)
      BY Zenon, <2>2 DEF Alone
    <3> QED
      BY <3>1, ChunkFacts
  <2> QED
    BY Zenon, <1>4, <1>5, <2>2, <2>3, GrownTwice
<1> QED
  BY <1>6, <1>7

LEMMA AloneGood ==
  ASSUME NEW m, NEW p, Alone(m, p, {}), p = m.top \/ m.hdr[p].used
  PROVE  Good(m)
<1>1. Tiled(m) /\ Tagged(m, {}) /\ p \in ChunksOf(m) /\ Binned(m, FreeOf(m) \ {p})
  BY Zenon DEF Alone
<1>2. FreeOf(m) \ {p} = FreeOf(m)
  BY DEF FreeOf
<1>3. ASSUME NEW c \in FreeOf(m) \ {} PROVE NextChunk(m, c) # m.top /\ m.hdr[NextChunk(m, c)].used
  <2>1. c \in FreeOf(m) \ {p}
    BY <1>2
  <2> QED
    BY Zenon, <2>1 DEF Alone
<1>4. Parted(m, {})
  BY Zenon, <1>3 DEF Parted
<1> QED
  BY Zenon, <1>1, <1>2, <1>4 DEF Good

LEMMA AlonePushed ==
  ASSUME NEW m, NEW p, Alone(m, p, {}), p # m.top, ~m.hdr[p].used,
         NEW r, r = PushFront(m, p)
  PROVE  /\ Good(r) /\ UsedOf(r) = UsedOf(m)
         /\ r.hdr = m.hdr /\ r.top = m.top /\ r.len = m.len
<1>1. /\ Tiled(m) /\ Tagged(m, {}) /\ p \in ChunksOf(m) /\ Binned(m, FreeOf(m) \ {p})
      /\ NextChunk(m, p) # m.top /\ m.hdr[NextChunk(m, p)].used
  BY Zenon DEF Alone
<1>2. m \in HeapRec /\ p \in Addrs /\ m.hdr[p].size <= MaxUnits
  BY <1>1, ChunkFacts, Addresses
<1> DEFINE S == FreeOf(m) \ {p}
<1>3. p \in Addrs \ S /\ Binned(m, S)
  BY <1>1, <1>2
<1>4. /\ r \in HeapRec /\ r.hdr = m.hdr /\ r.top = m.top /\ r.len = m.len
      /\ Binned(r, S \union {p})
  <2> HIDE DEF S
  <2> QED
    BY <1>2, <1>3, PushBins
<1>5. S \union {p} = FreeOf(m)
  BY <1>1 DEF FreeOf
<1>6. /\ FreeOf(r) = FreeOf(m) /\ UsedOf(r) = UsedOf(m)
      /\ Tiled(r) /\ Tagged(r, {}) /\ (Parted(m, {}) => Parted(r, {}))
  BY Zenon, <1>1, <1>4, BinsApart
<1>7. ASSUME NEW c \in FreeOf(m) \ {} PROVE NextChunk(m, c) # m.top /\ m.hdr[NextChunk(m, c)].used
  <2>1. CASE c = p
    BY Zenon, <1>1, <2>1
  <2>2. CASE c # p
    <3>1. c \in FreeOf(m) \ {p}
      BY <2>2
    <3> QED
      BY Zenon, <3>1 DEF Alone
  <2> QED
    BY <2>1, <2>2
<1>8. Parted(m, {})
  BY Zenon, <1>7 DEF Parted
<1>9. Good(r)
  BY Zenon, <1>4, <1>5, <1>6, <1>8 DEF Good
<1> QED
  BY Zenon, <1>4, <1>6, <1>9

\* A chunk in use may be merged with its neighbours,
LEMMA UsedMerges ==
  ASSUME NEW m, Good(m), ~m.hdr[m.top].used, NEW e \in UsedOf(m)
  PROVE  Merging(m, e)
<1>1. Tiled(m) /\ Tagged(m, {}) /\ Binned(m, FreeOf(m)) /\ Parted(m, {})
  BY Zenon DEF Good
<1>2. e \in ChunksOf(m) \ {m.top} /\ FreeOf(m) \ {e} = FreeOf(m)
  BY DEF UsedOf, FreeOf
<1>3. Tagged(m, {e})
  <2> DEFINE X == {}
             Y == {e}
  <2>1. Tagged(m, X) /\ \A c \in ChunksOf(m) \ {m.top} : c \in X => c \in Y
    BY <1>1
  <2>2. Tagged(m, Y)
    <3> HIDE DEF X, Y
    <3> QED
      BY Zenon, <2>1, TaggedLess
  <2> QED
    BY <2>2
<1>4. Parted(m, {e})
  <2>1. ASSUME NEW c \in FreeOf(m) \ {e} PROVE NextChunk(m, c) # m.top /\ m.hdr[NextChunk(m, c)].used
    <3>1. c \in FreeOf(m) \ {}
      OBVIOUS
    <3> QED
      BY <1>1, <3>1 DEF Parted
  <2> QED
    BY Zenon, <2>1 DEF Parted
<1> QED
  BY Zenon, <1>1, <1>2, <1>3, <1>4 DEF Merging

\* and so may one that has just been freed.
LEMMA FreedMerges ==
  ASSUME NEW m, Good(m), ~m.hdr[m.top].used, NEW e \in UsedOf(m),
         NEW b, b \in BOOLEAN, ~b, NEW r, r = Using(m, e, b)
  PROVE  /\ Merging(r, e) /\ Start(r, e) = Start(m, e) /\ ~r.hdr[e].used /\ r.len = m.len
         /\ UsedOf(r) \ {e} = UsedOf(m) \ {e}
         /\ \A c \in ChunksOf(m) : r.hdr[c].size = m.hdr[c].size
<1>1. Tiled(m) /\ Tagged(m, {}) /\ Binned(m, FreeOf(m)) /\ Parted(m, {})
  BY Zenon DEF Good
<1>2. /\ e \in ChunksOf(m) /\ e # m.top /\ m.hdr[e].used /\ e \in Addrs
      /\ ChunksOf(m) \subseteq Addrs
  BY <1>1, ChunkFacts DEF UsedOf
<1>3. Tiled(r) /\ Tagged(r, {e}) /\ InUse(m, e, b, r)
  <2> DEFINE X == {}
  <2>1. Tagged(m, X) /\ X \union {e} = {e}
    BY <1>1
  <2> HIDE DEF X
  <2>2. Tiled(r) /\ Tagged(r, X \union {e}) /\ InUse(m, e, b, r)
    BY <1>1, <1>2, <2>1, UseTiles
  <2> QED
    BY Zenon, <2>1, <2>2
<1>4. /\ ChunksOf(r) = ChunksOf(m) /\ r.top = m.top /\ r.len = m.len /\ r.bins = m.bins
      /\ \A c \in Addrs : r.hdr[c].size = m.hdr[c].size
      /\ \A c \in Addrs : NextChunk(r, c) = NextChunk(m, c)
      /\ \A c \in Addrs : c # e => r.hdr[c].used = m.hdr[c].used
  BY Zenon, <1>3 DEF InUse
<1>5. r.hdr[e].used = b /\ r.hdr[e].psize = m.hdr[e].psize /\ r.hdr[e].pused = m.hdr[e].pused
  BY Zenon, <1>2, <1>3 DEF InUse
<1>6. \A c \in ChunksOf(m) : c \in Addrs
  BY <1>2
<1>7. FreeOf(r) \ {e} = FreeOf(m)
  <2>1. ASSUME NEW c PROVE c \in FreeOf(r) \ {e} <=> c \in FreeOf(m)
    BY Zenon, <1>2, <1>4, <1>6 DEF FreeOf
  <2> QED
    BY <2>1
<1>8. UsedOf(r) \ {e} = UsedOf(m) \ {e}
  <2>1. ASSUME NEW c PROVE c \in UsedOf(r) \ {e} <=> c \in UsedOf(m) \ {e}
    BY Zenon, <1>4, <1>6 DEF UsedOf
  <2> QED
    BY <2>1
<1>9. Binned(r, FreeOf(r) \ {e})
  <2>1. \A c \in FreeOf(m) : r.hdr[c].size = m.hdr[c].size
    BY <1>4, <1>6 DEF FreeOf
  <2> QED
    BY Zenon, <1>1, <1>4, <1>7, <2>1, BinnedSame
<1>10. Parted(r, {e})
  <2>1. ASSUME NEW c \in FreeOf(r) \ {e}
        PROVE  /\ NextChunk(r, c) # r.top
               /\ r.hdr[NextChunk(r, c)].used \/ NextChunk(r, c) \in {e}
    <3>1. c \in FreeOf(m) \ {} /\ c \in ChunksOf(m) /\ c # m.top
      BY <1>7 DEF FreeOf
    <3>2. NextChunk(m, c) # m.top /\ m.hdr[NextChunk(m, c)].used
      BY <1>1, <3>1 DEF Parted
    <3>3. c \in Addrs /\ NextChunk(m, c) \in Addrs
      BY <1>1, <1>2, <3>1, ChunkFacts
    <3> QED
      BY Zenon, <1>4, <3>2, <3>3
  <2> QED
    BY Zenon, <2>1 DEF Parted
<1>11. ~r.hdr[r.top].used
  <2>1. m.top \in Addrs
    BY <1>1, <1>2 DEF Tiled
  <2> QED
    BY Zenon, <1>2, <1>4, <2>1
<1>12. Merging(r, e)
  <2>1. e \in ChunksOf(r) \ {r.top}
    BY <1>2, <1>4
  <2> QED
    BY Zenon, <1>3, <1>9, <1>10, <1>11, <2>1 DEF Merging
<1>13. Start(r, e) = Start(m, e)
  BY Zenon, <1>5 DEF Start
<1>14. \A c \in ChunksOf(m) : r.hdr[c].size = m.hdr[c].size
  BY Zenon, <1>4, <1>6
<1>15. ~r.hdr[e].used
  BY Zenon, <1>5
<1> QED
  BY Zenon, <1>4, <1>8, <1>12, <1>13, <1>14, <1>15

\* Release, the end of Free.
LEMMA Releases ==
  ASSUME NEW m, Good(m), ~m.hdr[m.top].used, NEW e \in UsedOf(m), NEW r, r = Release(m, e)
  PROVE  /\ Good(r) /\ ~r.hdr[r.top].used /\ r.len = m.len
         /\ UsedOf(r) = UsedOf(m) \ {e}
         /\ \A c \in UsedOf(r) : r.hdr[c].size = m.hdr[c].size
<1> DEFINE f == Using(m, e, FALSE)
           p == Start(m, e)
           a == MergeWithNeighbors(f, e)
<1>1. r = IF p = a.top THEN a ELSE PushFront(a, p)
  BY DEF Release, Using
<1>2. /\ Merging(f, e) /\ Start(f, e) = p /\ ~f.hdr[e].used /\ f.len = m.len
      /\ UsedOf(f) \ {e} = UsedOf(m) \ {e}
      /\ \A c \in ChunksOf(m) : f.hdr[c].size = m.hdr[c].size
  <2> DEFINE b == FALSE
  <2>1. b \in BOOLEAN /\ ~b /\ f = Using(m, e, b)
    OBVIOUS
  <2> HIDE DEF b, f, a
  <2> QED
    BY <2>1, FreedMerges
<1> HIDE DEF f
<1>3. Alone(a, p, {}) /\ Grown(f, e, a, p)
  BY Zenon, <1>2, Merges
<1> HIDE DEF a, p
<1>4. /\ ~a.hdr[p].used /\ a.len = m.len /\ UsedOf(a) \ {p} = UsedOf(m) \ {e}
      /\ \A c \in UsedOf(m) \ {e} : a.hdr[c].size = m.hdr[c].size
  <2>1. \A c \in UsedOf(m) \ {e} : c \in UsedOf(f) \ {e} /\ c \in ChunksOf(m)
    BY <1>2 DEF UsedOf
  <2>2. /\ a.hdr[p].used = f.hdr[e].used /\ a.len = f.len /\ UsedOf(a) \ {p} = UsedOf(f) \ {e}
        /\ \A c \in UsedOf(f) \ {e} : a.hdr[c].size = f.hdr[c].size
    BY Zenon, <1>3 DEF Grown
  <2> QED
    BY Zenon, <1>2, <2>1, <2>2
<1>5. UsedOf(a) = UsedOf(m) \ {e}
  BY <1>4 DEF UsedOf
<1>6. CASE p = a.top
  <2>1. r = a
    BY <1>1, <1>6
  <2>2. Good(a)
    BY Zenon, <1>3, <1>6, AloneGood
  <2> QED
    BY Zenon, <1>4, <1>5, <1>6, <2>1, <2>2
<1>7. CASE p # a.top
  <2>1. r = PushFront(a, p)
    BY <1>1, <1>7
  <2>2. Good(r) /\ UsedOf(r) = UsedOf(a) /\ r.hdr = a.hdr /\ r.top = a.top /\ r.len = a.len
    BY <1>3, <1>4, <1>7, <2>1, AlonePushed
  <2>3. ~a.hdr[a.top].used
    BY Zenon, <1>3, <1>7 DEF Alone
  <2> QED
    BY Zenon, <1>4, <1>5, <2>2, <2>3
<1> QED
  BY <1>6, <1>7

\* What is left of a chunk that is cut is on no bin yet.
LEMMA CutAlone ==
  ASSUME NEW m, NEW e, Alone(m, e, {}), NEW u \in Nat \ {0}, u < m.hdr[e].size,
         NEW n, n = e + u, NEW r, r = Cut(m, e, u)
  PROVE  /\ Alone(r, n, {n}) /\ r.len = m.len /\ r.top = (IF e = m.top THEN n ELSE m.top)
         /\ UsedOf(r) = UsedOf(m) \union {e} /\ ~r.hdr[n].used /\ r.hdr[e].size = u
         /\ e # n /\ \A c \in UsedOf(m) \ {e} : r.hdr[c].size = m.hdr[c].size
<1>1. /\ Tiled(m) /\ Tagged(m, {}) /\ e \in ChunksOf(m) /\ Binned(m, FreeOf(m) \ {e})
      /\ (e # m.top => /\ NextChunk(m, e) # m.top /\ m.hdr[NextChunk(m, e)].used
                       /\ ~m.hdr[m.top].used)
  BY Zenon DEF Alone
<1>2. /\ e \in Nat /\ e < NextChunk(m, e) /\ ChunksOf(m) \subseteq Addrs /\ NextChunk(m, e) \in Nat
      /\ e \in Addrs
  BY <1>1, ChunkFacts, Addresses
<1>3. Tiled(r) /\ Tagged(r, {n}) /\ InTwo(m, e, n, r)
  <2> DEFINE X == {}
             Y == {e}
  <2>1. Tagged(m, X) /\ \A c \in ChunksOf(m) \ {m.top} : c \in X => c \in Y
    BY <1>1
  <2>2. X \union {e} = Y /\ e \notin X /\ X \union {n} = {n}
    OBVIOUS
  <2> HIDE DEF X, Y
  <2>3. Tagged(m, X \union {e})
    BY Zenon, <2>1, <2>2, TaggedLess
  <2>4. Tiled(r) /\ Tagged(r, X \union {e + u}) /\ InTwo(m, e, e + u, r)
    BY <1>1, <2>2, <2>3, CutTiles
  <2> QED
    BY Zenon, <2>2, <2>4
<1>4. /\ ChunksOf(r) = ChunksOf(m) \union {n} /\ n \notin ChunksOf(m) /\ n \in Addrs
      /\ r.top = (IF e = m.top THEN n ELSE m.top) /\ r.len = m.len /\ r.bins = m.bins
      /\ \A c \in Addrs : c # e /\ c # n => r.hdr[c] = m.hdr[c] /\ NextChunk(r, c) = NextChunk(m, c)
      /\ r.hdr[e].used /\ ~r.hdr[n].used /\ NextChunk(r, n) = NextChunk(m, e)
  BY Zenon, <1>3 DEF InTwo
<1>5. r.hdr[e].size = u
  <2>1. r.hdr[e].size = n - e
    BY Zenon, <1>3 DEF InTwo
  <2> QED
    BY <1>2, <2>1
<1>6. \A c \in ChunksOf(m) : c # e =>
        r.hdr[c] = m.hdr[c] /\ NextChunk(r, c) = NextChunk(m, c) /\ c \in ChunksOf(r)
  <2>1. \A c \in ChunksOf(m) : c \in Addrs /\ c # n /\ c \in ChunksOf(r)
    BY <1>2, <1>4
  <2> QED
    BY Zenon, <1>4, <2>1
<1>7. e # n
  BY <1>1, <1>4
<1>8. FreeOf(r) \ {n} = FreeOf(m) \ {e}
  <2>1. ASSUME NEW c PROVE c \in FreeOf(r) \ {n} <=> c \in FreeOf(m) \ {e}
    <3>1. CASE c \in ChunksOf(m) /\ c # e
      <4>1. c # n /\ (c = r.top <=> c = m.top)
        BY <1>4, <3>1
      <4> QED
        BY Zenon, <1>6, <3>1, <4>1 DEF FreeOf
    <3>2. CASE ~(c \in ChunksOf(m) /\ c # e)
      <4>1. c \notin FreeOf(m) \ {e}
        BY <3>2 DEF FreeOf
      <4>2. c \notin FreeOf(r) \ {n}
        BY <1>4, <3>2 DEF FreeOf
      <4> QED
        BY Zenon, <4>1, <4>2
    <3> QED
      BY <3>1, <3>2
  <2> QED
    BY <2>1
<1>9. Binned(r, FreeOf(r) \ {n})
  <2> DEFINE S == FreeOf(m) \ {e}
  <2>1. \A c \in S : r.hdr[c].size = m.hdr[c].size
    BY <1>6 DEF FreeOf
  <2>2. Binned(m, S)
    BY <1>1
  <2>3. Binned(r, S)
    <3> HIDE DEF S
    <3> QED
      BY Zenon, <1>4, <2>1, <2>2, BinnedSame
  <2> QED
    BY Zenon, <1>8, <2>3
<1>10. ASSUME NEW c \in FreeOf(r) \ {n}
       PROVE  NextChunk(r, c) # r.top /\ NextChunk(r, c) # n /\ r.hdr[NextChunk(r, c)].used
  <2>1. c \in FreeOf(m) \ {e} /\ c \in ChunksOf(m) /\ c # e /\ c # m.top
    BY <1>8 DEF FreeOf
  <2>2. NextChunk(m, c) # m.top /\ NextChunk(m, c) # e /\ m.hdr[NextChunk(m, c)].used
    BY Zenon, <2>1 DEF Alone
  <2>3. NextChunk(m, c) \in ChunksOf(m)
    BY <1>1, <2>1 DEF Tiled
  <2>4. NextChunk(m, c) # n /\ NextChunk(m, c) # r.top
    BY Zenon, <1>4, <2>2, <2>3
  <2> QED
    BY Zenon, <1>6, <2>1, <2>2, <2>3, <2>4
<1>11. ASSUME n # r.top
       PROVE  NextChunk(r, n) # r.top /\ r.hdr[NextChunk(r, n)].used /\ ~r.hdr[r.top].used
  <2>1. e # m.top /\ r.top = m.top
    BY Zenon, <1>4, <1>11
  <2>2. NextChunk(m, e) \in ChunksOf(m) /\ m.top \in ChunksOf(m) /\ NextChunk(m, e) # e
    BY <1>1, <1>2, <2>1 DEF Tiled
  <2> QED
    BY Zenon, <1>1, <1>4, <1>6, <2>1, <2>2
<1>12. n \in ChunksOf(r)
  BY <1>4
<1>13. Alone(r, n, {n})
  BY Zenon, <1>3, <1>9, <1>10, <1>11, <1>12 DEF Alone
<1>14. UsedOf(r) = UsedOf(m) \union {e}
  <2>1. ASSUME NEW c PROVE c \in UsedOf(r) <=> c \in UsedOf(m) \union {e}
    <3>1. CASE c \in ChunksOf(m) /\ c # e
      BY Zenon, <1>6, <3>1 DEF UsedOf
    <3>2. CASE c = e
      BY <1>1, <1>4, <3>2 DEF UsedOf
    <3>3. CASE c \notin ChunksOf(m)
      BY <1>1, <1>4, <3>3 DEF UsedOf
    <3> QED
      BY <3>1, <3>2, <3>3
  <2> QED
    BY <2>1
<1>15. \A c \in UsedOf(m) \ {e} : r.hdr[c].size = m.hdr[c].size
  BY <1>6 DEF UsedOf
<1> QED
  BY Zenon, <1>4, <1>5, <1>7, <1>13, <1>14, <1>15

\* SplitAndPush, which every cut of a chunk ends with.
LEMMA Splits ==
  ASSUME NEW m, NEW e, Alone(m, e, {}), NEW u \in Nat \ {0}, u < m.hdr[e].size,
         NEW r, r = SplitAndPush(m, e, u)
  PROVE  /\ Good(r) /\ ~r.hdr[r.top].used /\ r.len = m.len
         /\ UsedOf(r) = UsedOf(m) \union {e} /\ r.hdr[e].size = u
         /\ \A c \in UsedOf(m) \ {e} : r.hdr[c].size = m.hdr[c].size
<1> DEFINE n == e + u
           a == Cut(m, e, u)
           b == TellNext(a, n)
<1>1. /\ Alone(a, n, {n}) /\ a.len = m.len /\ a.top = (IF e = m.top THEN n ELSE m.top)
      /\ UsedOf(a) = UsedOf(m) \union {e} /\ ~a.hdr[n].used /\ a.hdr[e].size = u
      /\ e # n /\ \A c \in UsedOf(m) \ {e} : a.hdr[c].size = m.hdr[c].size
  <2> HIDE DEF n, a
  <2>1. n = e + u /\ a = Cut(m, e, u)
    BY DEF n, a
  <2> QED
    BY <2>1, CutAlone
<1>2. r = IF e = m.top THEN IF n # a.top THEN PushFront(a, n) ELSE a
                       ELSE IF n # b.top THEN PushFront(b, n) ELSE b
  BY DEF SplitAndPush, Split
<1>3. n \notin UsedOf(a) /\ e \in ChunksOf(a) /\ UsedOf(a) \ {n} = UsedOf(a) /\ e \in UsedOf(a)
  BY <1>1 DEF UsedOf
<1> HIDE DEF n, a
<1>4. CASE e = m.top
  <2>1. n = a.top /\ r = a
    BY Zenon, <1>1, <1>2, <1>4
  <2>2. Alone(a, n, {})
    <3> DEFINE X == {n}
               Y == {}
    <3>1. Tagged(a, X) /\ \A c \in ChunksOf(a) \ {a.top} : c \in X => c \in Y
      BY <1>1, <2>1 DEF Alone
    <3>2. Tagged(a, Y)
      <4> HIDE DEF X, Y
      <4> QED
        BY Zenon, <3>1, TaggedLess
    <3> QED
      BY Zenon, <1>1, <3>2 DEF Alone
  <2>3. Good(a)
    BY Zenon, <2>1, <2>2, AloneGood
  <2> QED
    BY Zenon, <1>1, <2>1, <2>3
<1>5. CASE e # m.top
  <2>1. n # a.top
    <3>1. m.top \in ChunksOf(m) /\ e \in ChunksOf(m) /\ Tiled(m)
      BY DEF Alone, Tiled
    <3>2. a.top = m.top
      BY Zenon, <1>1, <1>5
    <3>3. CASE n = a.top
      <4>1. ~m.hdr[m.top].used /\ NextChunk(m, e) # m.top /\ NextChunk(m, e) \in ChunksOf(m)
        BY <1>5, <3>1 DEF Alone, Tiled
      <4>2. /\ e \in Nat /\ m.top \in Nat /\ m.hdr[e].size \in Nat /\ NextChunk(m, e) = e + m.hdr[e].size
        BY <3>1, ChunkFacts
      <4>3. m.top > e => m.top >= NextChunk(m, e)
        BY <3>1 DEF Tiled
      <4> QED
        BY <3>2, <3>3, <4>2, <4>3 DEF n
    <3> QED
      BY <3>3
  <2>2. Alone(b, n, {}) /\ Grown(a, n, b, n)
    BY Zenon, <1>1, <2>1, AloneTold
  <2>3. b.top = a.top
    BY DEF TellNext
  <2> HIDE DEF b
  <2>4. r = PushFront(b, n)
    BY Zenon, <1>2, <1>5, <2>1, <2>3
  <2>5. /\ b.hdr[n].used = a.hdr[n].used /\ b.len = a.len
        /\ UsedOf(b) \ {n} = UsedOf(a) \ {n}
        /\ \A c \in UsedOf(a) \ {n} : b.hdr[c].size = a.hdr[c].size
    BY Zenon, <2>2 DEF Grown
  <2>6. ~b.hdr[n].used /\ n # b.top
    BY Zenon, <1>1, <2>1, <2>3, <2>5
  <2>7. Good(r) /\ UsedOf(r) = UsedOf(b) /\ r.hdr = b.hdr /\ r.top = b.top /\ r.len = b.len
    BY <2>2, <2>4, <2>6, AlonePushed
  <2>8. UsedOf(b) = UsedOf(a)
    <3>1. n \notin UsedOf(b)
      BY <2>6 DEF UsedOf
    <3> QED
      BY <1>3, <2>5, <3>1
  <2>9. ~b.hdr[b.top].used
    BY Zenon, <2>2, <2>6 DEF Alone
  <2>10. ASSUME NEW c \in UsedOf(m) \ {e} PROVE r.hdr[c].size = m.hdr[c].size
    <3>1. c \in UsedOf(a) \ {n}
      BY <1>1, <1>3
    <3> QED
      BY Zenon, <1>1, <2>5, <2>7, <3>1
  <2>11. r.hdr[e].size = u
    BY Zenon, <1>1, <1>3, <2>5, <2>7
  <2> QED
    BY Zenon, <1>1, <2>5, <2>7, <2>8, <2>9, <2>10, <2>11
<1> QED
  BY <1>4, <1>5

\* MarkUsed, the end of Allocate.
LEMMA Marks ==
  ASSUME NEW m, NEW e, Merging(m, e), NEW r, r = MarkUsed(m, e)
  PROVE  /\ Good(r) /\ ~r.hdr[r.top].used /\ r.len = m.len
         /\ UsedOf(r) = UsedOf(m) \union {e}
         /\ \A c \in ChunksOf(m) : r.hdr[c].size = m.hdr[c].size
<1> DEFINE a == Using(m, e, TRUE)
<1>1. r = TellNext(a, e)
  BY DEF MarkUsed, Using
<1>2. /\ Tiled(m) /\ Tagged(m, {e}) /\ e \in ChunksOf(m) /\ e # m.top /\ ~m.hdr[m.top].used
      /\ Binned(m, FreeOf(m) \ {e}) /\ Parted(m, {e})
  BY Zenon DEF Merging
<1>3. Tiled(a) /\ Tagged(a, {e}) /\ InUse(m, e, TRUE, a)
  <2> DEFINE X == {e}
             b == TRUE
  <2>1. Tagged(m, X) /\ X \union {e} = {e} /\ b \in BOOLEAN /\ a = Using(m, e, b)
    BY <1>2
  <2> HIDE DEF X, b, a
  <2>2. Tiled(a) /\ Tagged(a, X \union {e}) /\ InUse(m, e, b, a)
    BY <1>2, <2>1, UseTiles
  <2> QED
    BY Zenon, <2>1, <2>2 DEF b
<1> HIDE DEF a
<1>4. /\ ChunksOf(a) = ChunksOf(m) /\ a.top = m.top /\ a.len = m.len /\ a.bins = m.bins
      /\ \A c \in Addrs : a.hdr[c].size = m.hdr[c].size
      /\ \A c \in Addrs : NextChunk(a, c) = NextChunk(m, c)
      /\ \A c \in Addrs : c # e => a.hdr[c].used = m.hdr[c].used
  BY Zenon, <1>3 DEF InUse
<1>5. a.hdr[e].used
  BY Zenon, <1>3 DEF InUse
<1>6. ChunksOf(m) \subseteq Addrs /\ \A c \in ChunksOf(m) : c \in Addrs /\ NextChunk(m, c) \in Addrs
  BY <1>2, ChunkFacts
<1>7. FreeOf(a) = FreeOf(m) \ {e}
  <2>1. ASSUME NEW c PROVE c \in FreeOf(a) <=> c \in FreeOf(m) \ {e}
    BY Zenon, <1>4, <1>5, <1>6 DEF FreeOf
  <2> QED
    BY <2>1
<1>8. UsedOf(a) = UsedOf(m) \union {e}
  <2>1. ASSUME NEW c PROVE c \in UsedOf(a) <=> c \in UsedOf(m) \union {e}
    <3>1. CASE c = e
      BY <1>2, <1>4, <1>5, <3>1 DEF UsedOf
    <3>2. CASE c # e
      <4>1. c \in ChunksOf(m) => a.hdr[c].used = m.hdr[c].used
        BY Zenon, <1>4, <1>6, <3>2
      <4> QED
        BY Zenon, <1>4, <3>2, <4>1 DEF UsedOf
    <3> QED
      BY <3>1, <3>2
  <2> QED
    BY <2>1
<1>9. Tiled(r) /\ Tagged(r, {}) /\ Told(a, r)
  <2> DEFINE X == {}
  <2>1. X \union {e} = {e} /\ e \in ChunksOf(a) /\ e # a.top
    BY <1>2, <1>4
  <2> HIDE DEF X
  <2>2. Tagged(a, X \union {e})
    BY Zenon, <1>3, <2>1
  <2>3. Tiled(r) /\ Tagged(r, X) /\ Told(a, r)
    BY Zenon, <1>1, <1>3, <2>1, <2>2, TellTiles
  <2> QED
    BY Zenon, <2>3 DEF X
<1>10. /\ ChunksOf(r) = ChunksOf(a) /\ r.top = a.top /\ r.len = a.len
       /\ \A c \in Addrs : r.hdr[c].size = a.hdr[c].size /\ r.hdr[c].used = a.hdr[c].used
       /\ \A c \in Addrs : NextChunk(r, c) = NextChunk(a, c)
  BY Zenon, <1>9 DEF Told
<1>11. FreeOf(r) = FreeOf(a) /\ UsedOf(r) = UsedOf(a)
  BY Zenon, <1>3, <1>9, ToldSame
<1>12. Binned(r, FreeOf(r))
  <2> DEFINE S == FreeOf(m) \ {e}
  <2>1. S \subseteq ChunksOf(a) /\ Binned(m, S) /\ \A c \in S : a.hdr[c].size = m.hdr[c].size
    BY <1>2, <1>4, <1>6 DEF FreeOf
  <2>2. Binned(r, S)
    <3> HIDE DEF S
    <3>1. Binned(a, S)
      BY Zenon, <1>4, <2>1, BinnedSame
    <3> QED
      BY Zenon, <1>3, <1>9, <2>1, <3>1, ToldSame
  <2> QED
    BY Zenon, <1>7, <1>11, <2>2
<1>13. Parted(r, {})
  <2>1. ASSUME NEW c \in FreeOf(r) \ {} PROVE NextChunk(r, c) # r.top /\ r.hdr[NextChunk(r, c)].used
    <3>1. c \in FreeOf(m) \ {e} /\ c \in ChunksOf(m)
      BY <1>7, <1>11 DEF FreeOf
    <3>2. NextChunk(m, c) # m.top /\ (m.hdr[NextChunk(m, c)].used \/ NextChunk(m, c) = e)
      BY <1>2, <3>1 DEF Parted
    <3>3. c \in Addrs /\ NextChunk(m, c) \in Addrs
      BY Zenon, <1>6, <3>1
    <3>4. NextChunk(r, c) = NextChunk(m, c)
      BY Zenon, <1>4, <1>10, <3>3
    <3>5. a.hdr[NextChunk(m, c)].used
      BY Zenon, <1>4, <1>5, <3>2, <3>3
    <3> QED
      BY Zenon, <1>4, <1>10, <3>2, <3>3, <3>4, <3>5
  <2> QED
    BY Zenon, <2>1 DEF Parted
<1>14. Good(r)
  BY Zenon, <1>9, <1>12, <1>13 DEF Good
<1>15. ~r.hdr[r.top].used
  <2>1. m.top \in Addrs
    BY <1>2, <1>6 DEF Tiled
  <2> QED
    BY Zenon, <1>2, <1>4, <1>10, <2>1
<1>16. \A c \in ChunksOf(m) : r.hdr[c].size = m.hdr[c].size
  BY Zenon, <1>4, <1>6, <1>10
<1> QED
  BY Zenon, <1>4, <1>8, <1>10, <1>11, <1>14, <1>15, <1>16

LEMMA AloneMerges ==
  ASSUME NEW m, NEW e, Alone(m, e, {}), e # m.top
  PROVE  Merging(m, e)
<1>1. /\ Tiled(m) /\ Tagged(m, {}) /\ e \in ChunksOf(m) /\ Binned(m, FreeOf(m) \ {e})
      /\ ~m.hdr[m.top].used
  BY Zenon DEF Alone
<1>2. Tagged(m, {e})
  <2> DEFINE X == {}
             Y == {e}
  <2>1. Tagged(m, X) /\ \A c \in ChunksOf(m) \ {m.top} : c \in X => c \in Y
    BY <1>1
  <2>2. Tagged(m, Y)
    <3> HIDE DEF X, Y
    <3> QED
      BY Zenon, <2>1, TaggedLess
  <2> QED
    BY <2>2
<1>3. Parted(m, {e})
  BY Zenon DEF Alone, Parted
<1>4. e \in ChunksOf(m) \ {m.top}
  BY <1>1
<1> QED
  BY Zenon, <1>1, <1>2, <1>3, <1>4 DEF Merging

\* What Allocate takes from a bin, cut or whole.
LEMMA TakesChunk ==
  ASSUME NEW m, Good(m), ~m.hdr[m.top].used, NEW e \in FreeOf(m),
         NEW u \in Nat \ {0}, u < m.hdr[e].size, NEW r, r = TakeChunk(m, e, u)
  PROVE  /\ Good(r) /\ ~r.hdr[r.top].used
         /\ UsedOf(r) = UsedOf(m) \union {e} /\ r.hdr[e].size >= u
         /\ \A c \in UsedOf(m) : r.hdr[c].size = m.hdr[c].size
<1> DEFINE out == Remove(m, e)
           s == SplitAndPush(out, e, u)
<1>1. Tiled(m) /\ Tagged(m, {}) /\ Binned(m, FreeOf(m)) /\ Parted(m, {})
  BY Zenon DEF Good
<1>2. e \in ChunksOf(m) /\ e # m.top /\ ~m.hdr[e].used
  BY DEF FreeOf
<1>3. m \in HeapRec /\ e \in Addrs /\ m.hdr[e].size <= MaxUnits /\ m.hdr[e].size \in Nat
  BY <1>1, <1>2, ChunkFacts, Addresses
<1>4. /\ out \in HeapRec /\ out.hdr = m.hdr /\ out.top = m.top /\ out.len = m.len
      /\ Binned(out, FreeOf(m) \ {e})
  BY <1>1, <1>3, RemoveBins
<1> HIDE DEF out
<1>5. /\ ChunksOf(out) = ChunksOf(m) /\ FreeOf(out) = FreeOf(m) /\ UsedOf(out) = UsedOf(m)
      /\ \A c : NextChunk(out, c) = NextChunk(m, c)
      /\ Tiled(out) /\ Tagged(out, {})
  BY Zenon, <1>1, <1>4, BinsApart
<1>6. ASSUME NEW c \in FreeOf(m)
      PROVE  NextChunk(m, c) # m.top /\ NextChunk(m, c) # e /\ m.hdr[NextChunk(m, c)].used
  <2>1. c \in FreeOf(m) \ {}
    OBVIOUS
  <2>2. NextChunk(m, c) # m.top /\ m.hdr[NextChunk(m, c)].used
    BY <1>1, <2>1 DEF Parted
  <2> QED
    BY Zenon, <1>2, <2>2
<1>7. Alone(out, e, {})
  <2>1. \A c \in FreeOf(out) \ {e} : c \in FreeOf(m)
    BY <1>5
  <2> QED
    BY Zenon, <1>2, <1>4, <1>5, <1>6, <2>1 DEF Alone
<1>8. r = MarkUsed(IF u >= Fine /\ m.hdr[e].size > u THEN s ELSE out, e)
  BY DEF TakeChunk, out
<1>9. \A c \in UsedOf(m) : c # e /\ c \in ChunksOf(m)
  BY <1>2 DEF UsedOf
<1>10. CASE u >= Fine /\ m.hdr[e].size > u
  <2>1. r = MarkUsed(s, e)
    BY Zenon, <1>8, <1>10
  <2>2. /\ Good(s) /\ ~s.hdr[s.top].used /\ UsedOf(s) = UsedOf(out) \union {e} /\ s.hdr[e].size = u
        /\ \A c \in UsedOf(out) \ {e} : s.hdr[c].size = out.hdr[c].size
    <3>1. u < out.hdr[e].size
      BY Zenon, <1>4
    <3> QED
      BY <1>7, <3>1, Splits
  <2> HIDE DEF s
  <2>3. e \in UsedOf(s)
    BY <2>2
  <2>4. Merging(s, e)
    BY Zenon, <2>2, <2>3, UsedMerges
  <2>5. /\ Good(r) /\ ~r.hdr[r.top].used /\ UsedOf(r) = UsedOf(s) \union {e}
        /\ \A c \in ChunksOf(s) : r.hdr[c].size = s.hdr[c].size
    BY <2>1, <2>4, Marks
  <2>6. UsedOf(r) = UsedOf(m) \union {e} /\ e \in ChunksOf(s)
    BY <1>5, <2>2, <2>3, <2>5 DEF UsedOf
  <2>7. r.hdr[e].size = u
    BY Zenon, <2>2, <2>5, <2>6
  <2>8. ASSUME NEW c \in UsedOf(m) PROVE r.hdr[c].size = m.hdr[c].size
    <3>1. c \in UsedOf(out) \ {e} /\ c \in ChunksOf(s)
      BY <1>5, <1>9, <2>2 DEF UsedOf
    <3> QED
      BY Zenon, <1>4, <2>2, <2>5, <3>1
  <2> QED
    BY <2>5, <2>6, <2>7, <2>8
<1>11. CASE ~(u >= Fine /\ m.hdr[e].size > u)
  <2>1. r = MarkUsed(out, e)
    BY Zenon, <1>8, <1>11
  <2>2. Merging(out, e)
    BY Zenon, <1>2, <1>4, <1>7, AloneMerges
  <2>3. /\ Good(r) /\ ~r.hdr[r.top].used /\ UsedOf(r) = UsedOf(out) \union {e}
        /\ \A c \in ChunksOf(out) : r.hdr[c].size = out.hdr[c].size
    BY <2>1, <2>2, Marks
  <2>4. \A c \in ChunksOf(m) : r.hdr[c].size = m.hdr[c].size
    BY Zenon, <1>4, <1>5, <2>3
  <2>5. r.hdr[e].size >= u
    BY <1>2, <1>3, <2>4
  <2> QED
    BY Zenon, <1>5, <1>9, <2>3, <2>4, <2>5
<1> QED
  BY <1>10, <1>11

\* What Allocate takes from the top chunk.
LEMMA TakesTop ==
  ASSUME NEW m, Good(m), ~m.hdr[m.top].used, NEW e, e = m.top,
         NEW u \in Nat \ {0}, u < m.hdr[e].size, NEW r, r = TakeTop(m, u)
  PROVE  /\ Good(r) /\ ~r.hdr[r.top].used
         /\ UsedOf(r) = UsedOf(m) \union {e} /\ r.hdr[e].size >= u
         /\ \A c \in UsedOf(m) : r.hdr[c].size = m.hdr[c].size
<1> DEFINE s == SplitAndPush(m, e, u)
<1>1. Tiled(m) /\ Tagged(m, {}) /\ Binned(m, FreeOf(m)) /\ Parted(m, {})
  BY Zenon DEF Good
<1>2. e \in ChunksOf(m) /\ FreeOf(m) \ {e} = FreeOf(m)
  BY <1>1 DEF FreeOf, Tiled
<1>3. Alone(m, e, {})
  <2>1. ASSUME NEW c \in FreeOf(m) \ {e}
        PROVE  NextChunk(m, c) # m.top /\ NextChunk(m, c) # e /\ m.hdr[NextChunk(m, c)].used
    <3>1. c \in FreeOf(m) \ {}
      OBVIOUS
    <3> QED
      BY <1>1, <3>1 DEF Parted
  <2> QED
    BY Zenon, <1>1, <1>2, <2>1 DEF Alone
<1>4. r = MarkUsed(s, e)
  <2>1. Split(m, e, u) = Cut(m, e, u)
    BY DEF Split
  <2>2. Cut(m, e, u).top = e + u
    BY <1>1 DEF Cut, Tiled, HeapRec
  <2>3. s = Cut(m, e, u)
    BY <2>1, <2>2 DEF SplitAndPush
  <2> QED
    BY <2>1, <2>3 DEF TakeTop
<1>5. /\ Good(s) /\ ~s.hdr[s.top].used /\ UsedOf(s) = UsedOf(m) \union {e} /\ s.hdr[e].size = u
      /\ \A c \in UsedOf(m) \ {e} : s.hdr[c].size = m.hdr[c].size
  BY <1>3, Splits
<1> HIDE DEF s
<1>6. e \in UsedOf(s)
  BY <1>5
<1>7. Merging(s, e)
  BY Zenon, <1>5, <1>6, UsedMerges
<1>8. /\ Good(r) /\ ~r.hdr[r.top].used /\ UsedOf(r) = UsedOf(s) \union {e}
      /\ \A c \in ChunksOf(s) : r.hdr[c].size = s.hdr[c].size
  BY <1>4, <1>7, Marks
<1>9. UsedOf(r) = UsedOf(m) \union {e} /\ e \in ChunksOf(s)
  BY <1>5, <1>6, <1>8 DEF UsedOf
<1>10. r.hdr[e].size = u
  BY Zenon, <1>5, <1>8, <1>9
<1>11. ASSUME NEW c \in UsedOf(m) PROVE r.hdr[c].size = m.hdr[c].size
  <2>1. c \in UsedOf(m) \ {e} /\ c \in ChunksOf(s)
    BY <1>5 DEF UsedOf
  <2> QED
    BY Zenon, <1>5, <1>8, <2>1
<1> QED
  BY <1>8, <1>9, <1>10, <1>11

\* The heap doubled, the top chunk with it.
Doubled(m, l) == [m EXCEPT !.len = l, !.hdr[m.top].size = @ + l \div 2]

Longer(m, r) ==
  /\ ChunksOf(r) = ChunksOf(m) /\ r.top = m.top /\ r.bins = m.bins
  /\ \A c \in ChunksOf(m) : c # m.top => r.hdr[c] = m.hdr[c] /\ NextChunk(r, c) = NextChunk(m, c)
  /\ r.hdr[m.top].size >= m.hdr[m.top].size /\ r.hdr[m.top].used = m.hdr[m.top].used
  /\ r.hdr[m.top].psize = m.hdr[m.top].psize /\ r.hdr[m.top].pused = m.hdr[m.top].pused

LEMMA DoublesTiles ==
  ASSUME NEW m, Good(m), NEW l, l = 2 * m.len, l <= MaxUnits,
         NEW r, r = Doubled(m, l)
  PROVE  Tiled(r) /\ Longer(m, r)
<1> DEFINE t == m.top
           x == [m.hdr[t] EXCEPT !.size = @ + m.len]
           h == [m.hdr EXCEPT ![t] = x]
<1>1. Tiled(m) /\ Tagged(m, {}) /\ Binned(m, FreeOf(m)) /\ Parted(m, {})
  BY Zenon DEF Good
<1>2. /\ m \in HeapRec /\ t \in ChunksOf(m) /\ t \in Addrs /\ t \in Nat /\ m.len \in Nat
      /\ m.hdr[t].size \in Nat /\ m.hdr[t].size > 0 /\ NextChunk(m, t) = t + m.hdr[t].size
      /\ NextChunk(m, t) = m.len
  BY <1>1, ChunkFacts, Addresses DEF Tiled
<1>3. l \in Nat /\ l \div 2 = m.len
  BY <1>2
<1>4. m.hdr \in [Addrs -> Header] /\ m.hdr[t] \in Header
  BY <1>2 DEF HeapRec
<1>5. /\ x \in Header /\ x.size = m.hdr[t].size + m.len /\ x.used = m.hdr[t].used
      /\ x.psize = m.hdr[t].psize /\ x.pused = m.hdr[t].pused
  BY <1>2, <1>4 DEF Header
<1>6. r = [m EXCEPT !.len = l, !.hdr = h]
  BY <1>3 DEF Doubled
<1> HIDE DEF x
<1>7. h \in [Addrs -> Header] /\ h[t] = x /\ \A c \in Addrs : c # t => h[c] = m.hdr[c]
  BY <1>2, <1>4, <1>5
<1> HIDE DEF h
<1>8. r \in HeapRec /\ r.len = l /\ r.hdr = h /\ r.top = t /\ r.bins = m.bins
  BY <1>2, <1>3, <1>6, <1>7 DEF HeapRec
<1>9. ChunksOf(m) \subseteq Addrs /\ ChunksOf(m) \subseteq Nat
  BY <1>1, ChunkFacts
<1> HIDE DEF t
<1>10. /\ \A c \in Addrs : c # t => r.hdr[c] = m.hdr[c] /\ NextChunk(r, c) = NextChunk(m, c)
       /\ r.hdr[t].size = m.hdr[t].size + m.len /\ r.hdr[t].used = m.hdr[t].used
       /\ r.hdr[t].psize = m.hdr[t].psize /\ r.hdr[t].pused = m.hdr[t].pused
       /\ NextChunk(r, t) = l
  BY <1>2, <1>5, <1>7, <1>8 DEF NextChunk
<1>11. ChunksOf(r) = ChunksOf(m)
  <2>1. ChunksOf(r) = {c \in Addrs : r.hdr[c].size > 0} /\ ChunksOf(m) = {c \in Addrs : m.hdr[c].size > 0}
    BY <1>2, <1>8 DEF ChunksOf, HeapRec
  <2>2. \A c \in Addrs : r.hdr[c].size > 0 <=> m.hdr[c].size > 0
    BY <1>2, <1>10
  <2> QED
    BY <2>1, <2>2
<1>12. \A c \in ChunksOf(m) : c # t =>
         r.hdr[c] = m.hdr[c] /\ NextChunk(r, c) = NextChunk(m, c) /\ NextChunk(m, c) \in ChunksOf(m)
  BY <1>1, <1>9, <1>10 DEF Tiled, t
<1>13. Tiled(r)
  <2>1. /\ r.len <= MaxUnits /\ 0 \in ChunksOf(r) /\ r.top \in ChunksOf(r)
        /\ NextChunk(r, r.top) = r.len /\ \A c \in ChunksOf(r) : c <= r.top
    BY <1>1, <1>2, <1>8, <1>10, <1>11 DEF Tiled, t
  <2>2. \A c \in ChunksOf(r) \ {r.top} : NextChunk(r, c) \in ChunksOf(r)
    BY <1>8, <1>11, <1>12
  <2>3. ASSUME NEW c \in ChunksOf(r), NEW d \in ChunksOf(r), d > c PROVE d >= NextChunk(r, c)
    <3>1. d <= t /\ c \in Nat /\ d \in Nat
      BY <1>8, <1>9, <1>11, <2>1
    <3>2. c # t
      BY <1>2, <2>3, <3>1
    <3>3. d >= NextChunk(m, c)
      BY <1>1, <1>11, <2>3 DEF Tiled
    <3> QED
      BY <1>11, <1>12, <3>2, <3>3
  <2>4. ASSUME NEW c \in ChunksOf(r) \ {0} PROVE \E p \in ChunksOf(r) \ {r.top} : NextChunk(r, p) = c
    <3>1. c \in ChunksOf(m) \ {0}
      BY <1>11
    <3>2. PICK p \in ChunksOf(m) \ {m.top} : NextChunk(m, p) = c
      BY <1>1, <3>1 DEF Tiled
    <3>3. p \in ChunksOf(r) \ {r.top} /\ NextChunk(r, p) = c
      BY <1>8, <1>11, <1>12, <3>2 DEF t
    <3> QED
      BY <3>3
  <2> QED
    BY Zenon, <1>8, <2>1, <2>2, <2>3, <2>4 DEF Tiled
<1>14. r.hdr[t].size >= m.hdr[t].size
  BY <1>2, <1>10
<1> QED
  BY Zenon, <1>8, <1>10, <1>11, <1>12, <1>13, <1>14 DEF Longer, t

LEMMA Doubles ==
  ASSUME NEW m, Good(m), NEW r, Tiled(r), Longer(m, r)
  PROVE  /\ Good(r) /\ UsedOf(r) = UsedOf(m) /\ r.top = m.top
         /\ r.hdr[r.top].used = m.hdr[m.top].used
         /\ \A c \in UsedOf(m) : r.hdr[c].size >= m.hdr[c].size
<1> DEFINE t == m.top
<1>1. Tiled(m) /\ Tagged(m, {}) /\ Binned(m, FreeOf(m)) /\ Parted(m, {})
  BY Zenon DEF Good
<1>8. r.top = t /\ r.bins = m.bins
  BY Zenon DEF Longer
<1>10. /\ r.hdr[t].size >= m.hdr[t].size /\ r.hdr[t].used = m.hdr[t].used
       /\ r.hdr[t].psize = m.hdr[t].psize /\ r.hdr[t].pused = m.hdr[t].pused
  BY Zenon DEF Longer
<1>11. ChunksOf(r) = ChunksOf(m)
  BY Zenon DEF Longer
<1>12. \A c \in ChunksOf(m) : c # t =>
         r.hdr[c] = m.hdr[c] /\ NextChunk(r, c) = NextChunk(m, c) /\ NextChunk(m, c) \in ChunksOf(m)
  BY <1>1 DEF Longer, Tiled
<1> HIDE DEF t
<1>14. \A c \in ChunksOf(m) : /\ r.hdr[c].used = m.hdr[c].used
                             /\ r.hdr[c].psize = m.hdr[c].psize /\ r.hdr[c].pused = m.hdr[c].pused
  BY Zenon, <1>10, <1>12
<1>15. Tagged(r, {})
  <2>1. r.hdr[0].psize = 0
    <3>1. 0 \in ChunksOf(m) /\ m.hdr[0].psize = 0
      BY <1>1 DEF Tiled, Tagged
    <3> QED
      BY Zenon, <1>14, <3>1
  <2>2. ASSUME NEW c \in ChunksOf(r) \ ({r.top} \union {})
        PROVE  /\ r.hdr[NextChunk(r, c)].psize = r.hdr[c].size
               /\ r.hdr[NextChunk(r, c)].pused = r.hdr[c].used
    <3>1. c \in ChunksOf(m) /\ c # t /\ c \in ChunksOf(m) \ ({m.top} \union {})
      BY <1>8, <1>11 DEF t
    <3>2. m.hdr[NextChunk(m, c)].psize = m.hdr[c].size /\ m.hdr[NextChunk(m, c)].pused = m.hdr[c].used
      BY Zenon, <1>1, <3>1 DEF Tagged
    <3> QED
      BY Zenon, <1>12, <1>14, <3>1, <3>2
  <2> QED
    BY Zenon, <2>1, <2>2 DEF Tagged
<1>16. FreeOf(r) = FreeOf(m) /\ UsedOf(r) = UsedOf(m)
  <2>1. ASSUME NEW c PROVE c \in FreeOf(r) <=> c \in FreeOf(m)
    BY Zenon, <1>8, <1>11, <1>14 DEF FreeOf, t
  <2>2. ASSUME NEW c PROVE c \in UsedOf(r) <=> c \in UsedOf(m)
    BY Zenon, <1>11, <1>14 DEF UsedOf
  <2> QED
    BY <2>1, <2>2
<1>17. Binned(r, FreeOf(r))
  <2>1. \A c \in FreeOf(m) : r.hdr[c].size = m.hdr[c].size
    BY <1>12 DEF FreeOf, t
  <2> DEFINE S == FreeOf(m)
  <2>2. Binned(m, S)
    BY <1>1
  <2>4. r.bins = m.bins
    BY <1>8
  <2>5. \A c \in S : r.hdr[c].size = m.hdr[c].size
    BY <2>1
  <2> HIDE DEF S
  <2>3. Binned(r, S)
    BY Zenon, <2>2, <2>4, <2>5, BinnedSame
  <2> QED
    BY Zenon, <1>16, <2>3 DEF S
<1>18. Parted(r, {})
  <2>1. ASSUME NEW c \in FreeOf(r) \ {} PROVE NextChunk(r, c) # r.top /\ r.hdr[NextChunk(r, c)].used
    <3>1. c \in FreeOf(m) \ {} /\ c \in ChunksOf(m) /\ c # t
      BY <1>16 DEF FreeOf, t
    <3>2. NextChunk(m, c) # m.top /\ m.hdr[NextChunk(m, c)].used
      BY <1>1, <3>1 DEF Parted
    <3> QED
      BY Zenon, <1>8, <1>12, <1>14, <3>1, <3>2 DEF t
  <2> QED
    BY Zenon, <2>1 DEF Parted
<1>19. Good(r)
  BY Zenon, <1>15, <1>17, <1>18 DEF Good
<1>20. ASSUME NEW c \in UsedOf(m) PROVE r.hdr[c].size >= m.hdr[c].size
  <2>1. c \in ChunksOf(m) /\ c \in Addrs /\ m.hdr[c].size \in Nat
    BY <1>1, ChunkFacts DEF UsedOf
  <2>2. CASE c = t
    BY Zenon, <1>10, <2>2
  <2>3. CASE c # t
    <3>1. r.hdr[c].size = m.hdr[c].size
      BY Zenon, <1>12, <2>1, <2>3
    <3> QED
      BY <2>1, <3>1
  <2> QED
    BY <2>2, <2>3
<1>21. r.top = m.top /\ r.hdr[r.top].used = m.hdr[m.top].used
  BY Zenon, <1>8, <1>10 DEF t
<1> QED
  BY Zenon, <1>16, <1>19, <1>20, <1>21

--------------------------------------------------------------------------------
(* What clients hold.                                                            *)

HeldAt(L, f) == {b.at : b \in L} \union (IF f = None THEN {} ELSE {f})

\* The chunks in use are those of the blocks of L and f, one each.
Kept(m, L, f) ==
  /\ \A b \in L : m.hdr[b.at].size >= b.size
  /\ \A a, b \in L : a.at = b.at => a = b
  /\ f # None => \A b \in L : b.at # f
  /\ UsedOf(m) = HeldAt(L, f)

LEMMA HeldIs ==
  ASSUME NEW L, NEW f
  PROVE  /\ \A b \in L : b.at \in HeldAt(L, f)
         /\ f # None => f \in HeldAt(L, f)
         /\ \A c \in HeldAt(L, f) : (\E b \in L : b.at = c) \/ (f # None /\ f = c)
BY DEF HeldAt

\* One more block,
LEMMA KeptMore ==
  ASSUME NEW m, NEW L, NEW f, Kept(m, L, f), NEW r, NEW e, NEW u,
         UsedOf(r) = UsedOf(m) \union {e}, e \notin UsedOf(m), r.hdr[e].size >= u,
         \A c \in UsedOf(m) : r.hdr[c].size = m.hdr[c].size
  PROVE  Kept(r, L \union {Block(e, u)}, f)
<1> DEFINE n == Block(e, u)
<1>1. n.at = e /\ n.size = u
  BY DEF Block
<1> HIDE DEF n
<1>2. UsedOf(m) = HeldAt(L, f)
  BY DEF Kept
<1>3. \A b \in L : b.at \in UsedOf(m) /\ b.at # e
  BY <1>2, HeldIs
<1>4. ASSUME NEW b \in L \union {n} PROVE r.hdr[b.at].size >= b.size
  <2>1. CASE b = n
    BY <1>1, <2>1
  <2>2. CASE b \in L
    <3>1. m.hdr[b.at].size >= b.size /\ r.hdr[b.at].size = m.hdr[b.at].size
      BY <1>3, <2>2 DEF Kept
    <3> QED
      BY Zenon, <3>1
  <2> QED
    BY <2>1, <2>2
<1>5. ASSUME NEW a \in L \union {n}, NEW b \in L \union {n}, a.at = b.at PROVE a = b
  BY <1>1, <1>3, <1>5 DEF Kept
<1>6. ASSUME f # None, NEW b \in L \union {n} PROVE b.at # f
  <2>1. f \in UsedOf(m)
    BY <1>2, <1>6, HeldIs
  <2> QED
    BY <1>1, <1>6, <2>1 DEF Kept
<1>7. HeldAt(L \union {n}, f) = HeldAt(L, f) \union {e}
  BY <1>1 DEF HeldAt
<1>8. UsedOf(r) = HeldAt(L \union {n}, f)
  BY Zenon, <1>2, <1>7
<1> QED
  BY Zenon, <1>4, <1>5, <1>6, <1>8 DEF Kept, n

\* one that is not moved any more,
LEMMA KeptMoved ==
  ASSUME NEW m, NEW L, NEW f, Kept(m, L, f), f # None, NEW r,
         UsedOf(r) = UsedOf(m) \ {f},
         \A c \in UsedOf(r) : r.hdr[c].size = m.hdr[c].size
  PROVE  Kept(r, L, None)
<1>1. UsedOf(m) = HeldAt(L, f) /\ \A b \in L : b.at # f
  BY DEF Kept
<1>2. \A b \in L : b.at \in UsedOf(r)
  BY <1>1, HeldIs
<1>3. ASSUME NEW b \in L PROVE r.hdr[b.at].size >= b.size
  <2>1. m.hdr[b.at].size >= b.size /\ r.hdr[b.at].size = m.hdr[b.at].size
    BY <1>2 DEF Kept
  <2> QED
    BY Zenon, <2>1
<1>4. UsedOf(r) = HeldAt(L, None)
  BY <1>1 DEF HeldAt
<1>5. \A a, b \in L : a.at = b.at => a = b
  BY Zenon DEF Kept
<1> QED
  BY Zenon, <1>3, <1>4, <1>5 DEF Kept

\* one less,
LEMMA KeptLess ==
  ASSUME NEW m, NEW L, NEW f, Kept(m, L, f), NEW b \in L, NEW r,
         UsedOf(r) = UsedOf(m) \ {b.at},
         \A c \in UsedOf(r) : r.hdr[c].size = m.hdr[c].size
  PROVE  Kept(r, L \ {b}, f)
<1>1. UsedOf(m) = HeldAt(L, f) /\ \A d \in L : d.at = b.at => d = b
  BY DEF Kept
<1>2. \A d \in L \ {b} : d.at \in UsedOf(r)
  BY <1>1, HeldIs
<1>3. ASSUME NEW d \in L \ {b} PROVE r.hdr[d.at].size >= d.size
  <2>1. m.hdr[d.at].size >= d.size /\ r.hdr[d.at].size = m.hdr[d.at].size
    BY <1>2 DEF Kept
  <2> QED
    BY Zenon, <2>1
<1>4. f # None => f # b.at
  BY DEF Kept
<1>5. UsedOf(r) = HeldAt(L \ {b}, f)
  <2>1. ASSUME NEW c PROVE c \in UsedOf(m) \ {b.at} <=> c \in HeldAt(L \ {b}, f)
    BY <1>1, <1>4 DEF HeldAt
  <2> QED
    BY <2>1
<1>6. /\ \A a, d \in L \ {b} : a.at = d.at => a = d
      /\ f # None => \A d \in L \ {b} : d.at # f
  BY DEF Kept
<1> QED
  BY Zenon, <1>3, <1>5, <1>6 DEF Kept

\* one that became another,
LEMMA KeptGrown ==
  ASSUME NEW m, NEW L, NEW f, Kept(m, L, f), NEW b \in L, NEW r, NEW p, NEW u,
         UsedOf(r) \ {p} = UsedOf(m) \ {b.at}, p \in UsedOf(r), r.hdr[p].size >= u,
         \A c \in UsedOf(m) : c # b.at => r.hdr[c].size = m.hdr[c].size
  PROVE  Kept(r, (L \ {b}) \union {Block(p, u)}, f)
<1> DEFINE n == Block(p, u)
           K == L \ {b}
<1>1. n.at = p /\ n.size = u
  BY DEF Block
<1> HIDE DEF n
<1>2. UsedOf(m) = HeldAt(L, f) /\ \A d \in L : d.at = b.at => d = b
  BY DEF Kept
<1>3. \A d \in K : d.at \in UsedOf(m) /\ d.at # b.at /\ d.at # p
  <2>1. \A d \in K : d.at \in UsedOf(m) /\ d.at # b.at
    BY <1>2, HeldIs
  <2> QED
    BY <2>1
<1>4. f # None => f \in UsedOf(m) /\ f # b.at /\ f # p
  <2>1. f # None => f \in UsedOf(m) /\ f # b.at
    BY <1>2, HeldIs DEF Kept
  <2> QED
    BY <2>1
<1>5. ASSUME NEW d \in K \union {n} PROVE r.hdr[d.at].size >= d.size
  <2>1. CASE d = n
    BY <1>1, <2>1
  <2>2. CASE d \in K
    <3>1. m.hdr[d.at].size >= d.size /\ r.hdr[d.at].size = m.hdr[d.at].size
      BY <1>3, <2>2 DEF Kept
    <3> QED
      BY Zenon, <3>1
  <2> QED
    BY <2>1, <2>2
<1>6. ASSUME NEW a \in K \union {n}, NEW d \in K \union {n}, a.at = d.at PROVE a = d
  BY <1>1, <1>3, <1>6 DEF Kept
<1>7. ASSUME f # None, NEW d \in K \union {n} PROVE d.at # f
  BY <1>1, <1>4, <1>7 DEF Kept
<1>8. UsedOf(r) = HeldAt(K \union {n}, f)
  <2>1. ASSUME NEW c PROVE c \in UsedOf(r) <=> c \in HeldAt(K \union {n}, f)
    <3>1. CASE c = p
      BY <1>1, <3>1 DEF HeldAt
    <3>2. CASE c # p
      <4>1. c \in UsedOf(r) <=> c \in HeldAt(L, f) /\ c # b.at
        BY <1>2, <3>2
      <4>2. c \in HeldAt(L, f) /\ c # b.at => c \in HeldAt(K, f)
        BY DEF HeldAt
      <4>3. c \in HeldAt(K, f) => c \in HeldAt(L, f) /\ c # b.at
        BY <1>3, <1>4 DEF HeldAt
      <4>4. c \in HeldAt(K \union {n}, f) <=> c \in HeldAt(K, f)
        BY <1>1, <3>2 DEF HeldAt
      <4> QED
        BY Zenon, <4>1, <4>2, <4>3, <4>4
    <3> QED
      BY <3>1, <3>2
  <2> QED
    BY <2>1
<1> QED
  BY Zenon, <1>5, <1>6, <1>7, <1>8 DEF Kept, n

\* one that became another and is moved from now on,
LEMMA KeptMoving ==
  ASSUME NEW m, NEW L, Kept(m, L, None), NEW b \in L, NEW r, NEW g, g # None,
         UsedOf(r) \ {g} = UsedOf(m) \ {b.at}, g \in UsedOf(r),
         \A c \in UsedOf(m) : c # b.at => r.hdr[c].size = m.hdr[c].size
  PROVE  Kept(r, L \ {b}, g)
<1> DEFINE K == L \ {b}
<1>2. UsedOf(m) = HeldAt(L, None) /\ \A d \in L : d.at = b.at => d = b
  BY DEF Kept
<1>3. \A d \in K : d.at \in UsedOf(m) /\ d.at # b.at /\ d.at # g
  <2>1. \A d \in K : d.at \in UsedOf(m) /\ d.at # b.at
    BY <1>2, HeldIs
  <2> QED
    BY <2>1
<1>5. ASSUME NEW d \in K PROVE r.hdr[d.at].size >= d.size
  <2>1. m.hdr[d.at].size >= d.size /\ r.hdr[d.at].size = m.hdr[d.at].size
    BY <1>3 DEF Kept
  <2> QED
    BY Zenon, <2>1
<1>6. \A a, d \in K : a.at = d.at => a = d
  BY DEF Kept
<1>8. UsedOf(r) = HeldAt(K, g)
  <2>1. ASSUME NEW c PROVE c \in UsedOf(r) <=> c \in HeldAt(K, g)
    <3>1. CASE c = g
      BY <3>1 DEF HeldAt
    <3>2. CASE c # g
      <4>1. c \in UsedOf(r) <=> c \in HeldAt(L, None) /\ c # b.at
        BY <1>2, <3>2
      <4>2. c \in HeldAt(L, None) /\ c # b.at => c \in HeldAt(K, g)
        BY DEF HeldAt
      <4>3. c \in HeldAt(K, g) => c \in HeldAt(L, None) /\ c # b.at
        BY <1>3, <3>2 DEF HeldAt
      <4> QED
        BY Zenon, <4>1, <4>2, <4>3
    <3> QED
      BY <3>1, <3>2
  <2> QED
    BY <2>1
<1> QED
  BY Zenon, <1>3, <1>5, <1>6, <1>8 DEF Kept

\* and the same ones in a greater heap.
LEMMA KeptLonger ==
  ASSUME NEW m, Tiled(m), NEW L, \A b \in L : b.size \in Nat, NEW f, Kept(m, L, f),
         NEW r, Tiled(r), UsedOf(r) = UsedOf(m),
         \A c \in UsedOf(m) : r.hdr[c].size >= m.hdr[c].size
  PROVE  Kept(r, L, f)
<1>1. UsedOf(m) = HeldAt(L, f)
  BY DEF Kept
<1>2. ASSUME NEW b \in L PROVE r.hdr[b.at].size >= b.size
  <2>1. b.at \in UsedOf(m)
    BY <1>1, HeldIs
  <2>2. r.hdr[b.at].size \in Nat /\ m.hdr[b.at].size \in Nat
    BY <2>1, ChunkFacts DEF UsedOf
  <2>3. r.hdr[b.at].size >= m.hdr[b.at].size /\ m.hdr[b.at].size >= b.size
    BY <2>1 DEF Kept
  <2> QED
    BY <2>2, <2>3
<1> QED
  BY Zenon, <1>1, <1>2 DEF Kept

LEMMA GoodTyped ==
  ASSUME NEW m, Good(m)
  PROVE  HeapType(m)
<1>1. Tiled(m) /\ Tagged(m, {}) /\ Binned(m, FreeOf(m))
  BY Zenon DEF Good
<1>2. m \in HeapRec /\ DOMAIN m.hdr = 0 .. MaxUnits /\ DOMAIN m.bins = Bins
  BY <1>1, ChunkFacts DEF HeapRec, Addrs
<1>3. /\ m.len \in Nat /\ m.len <= MaxUnits /\ MaxUnits \in Nat
      /\ m.top \in ChunksOf(m) /\ ChunksOf(m) \subseteq Addrs /\ ChunksOf(m) \subseteq Nat
  BY <1>1, ChunkFacts, Addresses DEF Tiled
<1>4. ASSUME NEW c \in ChunksOf(m)
      PROVE  /\ m.hdr[c].size \in 1 .. m.len /\ c \in 0 .. m.len - 1
             /\ m.hdr[c].used \in BOOLEAN /\ m.hdr[c].pused \in BOOLEAN
             /\ m.hdr[c].psize \in Nat
  <2>1. c \in Addrs /\ c \in Nat
    BY <1>3
  <2>2. /\ m.hdr[c].size \in Nat /\ m.hdr[c].size > 0 /\ NextChunk(m, c) = c + m.hdr[c].size
        /\ NextChunk(m, c) <= m.len /\ c < m.len
    BY <1>1, <2>1, ChunkFacts
  <2>3. m.hdr[c].used \in BOOLEAN /\ m.hdr[c].pused \in BOOLEAN /\ m.hdr[c].psize \in Nat
    BY <1>1, <2>1, ChunkFacts
  <2>4. m.hdr[c].size \in 1 .. m.len /\ c \in 0 .. m.len - 1
    BY <1>3, <2>1, <2>2
  <2> QED
    BY <2>3, <2>4
<1>5. m.len \in 1 .. MaxUnits
  <2>1. m.top \in 0 .. m.len - 1
    BY <1>3, <1>4
  <2> QED
    BY <1>3, <2>1
<1>6. ASSUME NEW c \in ChunksOf(m) PROVE m.hdr[c].psize \in 0 .. m.len
  <2>1. CASE c = 0
    BY <1>1, <1>3, <2>1 DEF Tagged
  <2>2. CASE c # 0
    <3>1. PICK p \in ChunksOf(m) \ {m.top} : NextChunk(m, p) = c
      BY <1>1, <2>2 DEF Tiled
    <3>2. p \in ChunksOf(m) \ ({m.top} \union {})
      BY <3>1
    <3>3. m.hdr[c].psize = m.hdr[p].size
      BY Zenon, <1>1, <3>1, <3>2 DEF Tagged
    <3>4. m.hdr[p].size \in 1 .. m.len
      BY <1>4, <3>1
    <3> QED
      BY <1>3, <3>3, <3>4
  <2> QED
    BY <2>1, <2>2
<1>7. ASSUME NEW b \in Bins, NEW i \in DOMAIN m.bins[b] PROVE m.bins[b][i] \in ChunksOf(m)
  <2>1. m.bins[b][i] \in FreeOf(m)
    BY Zenon, <1>1 DEF Binned
  <2> QED
    BY <2>1 DEF FreeOf
<1>8. ChunksOf(m) \subseteq 0 .. m.len - 1
  BY <1>4
<1> QED
  BY Zenon, <1>2, <1>3, <1>4, <1>5, <1>6, <1>7, <1>8 DEF HeapType

--------------------------------------------------------------------------------
(* The inductive invariant.                                                      *)

Typed ==
  /\ \A b \in live : b.at \in Nat /\ b.size \in Requests
  /\ large \in [Large -> LargeStates]
  /\ pc \in {"idle", "allocate", "hang", "fault", "strayed"}
  /\ want \in Nat /\ (want = 0 \/ Asked \in Requests)
  /\ from # None => from \in Nat

\* The top chunk is in use only while Reallocate moves a chunk that has grown to the
\* whole of the heap.
TopFree ==
  /\ pc = "idle" => ~heap.hdr[heap.top].used
  /\ pc = "allocate" => \/ ~heap.hdr[heap.top].used
                        \/ heap.top = 0 /\ from # None /\ from = 0

\* Only a size with a second header gets to the page allocator from the middle of a call.
Running ==
  /\ pc = "idle" => from = None
  /\ pc = "allocate" => Asked \in Requests /\ (from = None => want < Threshold)

IInv ==
  /\ Typed
  /\ Sound => Good(heap) /\ Kept(heap, live, from)
  /\ TopFree
  /\ Running

LEMMA WantBounds ==
  ASSUME NEW u \in Requests
  PROVE  u \in Nat \ {0}
BY KHeapAssumption

\* What Allocate looks for is what was asked for, or a unit more.
LEMMA AsksForMore ==
  ASSUME Typed, Asked \in Requests
  PROVE  want \in Nat \ {0} /\ Asked \in Nat \ {0} /\ want >= Asked
<1>1. want \in Nat /\ Asked \in Nat \ {0}
  BY WantBounds DEF Typed
<1> QED
  BY <1>1 DEF Asked

\* Chunks with which the invariant can go on, when a call ends,
LEMMA Settles ==
  ASSUME Typed', Good(heap'), Kept(heap', live', from'), ~heap'.hdr[heap'.top].used,
         pc' # "allocate", from' = None
  PROVE  IInv'
BY Zenon DEF IInv, TopFree, Running

\* and when nothing more is said of them.
LEMMA Strays ==
  ASSUME Typed', pc' = "strayed"
  PROVE  IInv'
<1>1. ~(Sound)' /\ pc' # "idle" /\ pc' # "allocate"
  BY DEF Sound
<1> QED
  BY Zenon, <1>1 DEF IInv, TopFree, Running

\* Allocate hands out e of the chunks m, and Reallocate frees what it moved from.
LEMMA ReturnsKeeps ==
  ASSUME IInv, pc = "allocate", NEW m, NEW e \in Nat, Returns(m, e),
         Good(m), ~m.hdr[m.top].used, e \notin UsedOf(heap),
         UsedOf(m) = UsedOf(heap) \union {e}, m.hdr[e].size >= want,
         \A c \in UsedOf(heap) : m.hdr[c].size = heap.hdr[c].size
  PROVE  IInv'
<1> DEFINE u == Asked
           L == live \union {Block(e, u)}
<1>1. /\ Typed /\ u \in Requests /\ Good(heap) /\ Kept(heap, live, from)
  BY DEF IInv, Running, Sound
<1>2. Kept(m, L, from)
  <2>1. e \in UsedOf(m) /\ Tiled(m)
    BY DEF Good
  <2>2. m.hdr[e].size \in Nat
    BY <2>1, ChunkFacts DEF UsedOf
  <2>3. m.hdr[e].size >= u
    BY <1>1, <2>2, AsksForMore
  <2> HIDE DEF u
  <2> QED
    BY <1>1, <2>3, KeptMore
<1>3. /\ live' = L /\ want' = 0 /\ from' = None /\ large' = large
      /\ \/ from = None /\ heap' = m
         \/ from # None /\ heap' = Release(m, from)
      /\ pc' \in {"idle", "hang", "strayed"}
  BY DEF Returns, Verified
<1>4. Typed'
  <2>1. \A b \in L : b.at \in Nat /\ b.size \in Requests
    BY <1>1 DEF Typed, Block
  <2> QED
    BY <1>1, <1>3, <2>1 DEF Typed
<1> HIDE DEF L, u
<1>5. CASE from = None
  BY Zenon, <1>2, <1>3, <1>4, <1>5, Settles
<1>6. CASE from # None
  <2>1. heap' = Release(m, from)
    BY <1>3, <1>6
  <2>2. from \in UsedOf(m)
    BY <1>2, <1>6, HeldIs DEF Kept
  <2>3. /\ Good(heap') /\ ~heap'.hdr[heap'.top].used /\ UsedOf(heap') = UsedOf(m) \ {from}
        /\ \A c \in UsedOf(heap') : heap'.hdr[c].size = m.hdr[c].size
    BY <2>1, <2>2, Releases
  <2>4. Kept(heap', L, None)
    BY Zenon, <1>2, <1>6, <2>3, KeptMoved
  <2>5. pc' # "allocate"
    BY <1>3
  <2> QED
    BY Zenon, <1>3, <1>4, <2>3, <2>4, <2>5, Settles
<1> QED
  BY <1>5, <1>6

LEMMA AllocateKeeps ==
  ASSUME IInv, NEW u \in Requests, Allocate(u)
  PROVE  IInv'
<1>1. /\ pc = "idle" /\ pc' = "allocate" /\ want' = u
      /\ heap' = heap /\ live' = live /\ large' = large /\ from' = from
  BY DEF Allocate
<1>2. Typed /\ Good(heap) /\ Kept(heap, live, from) /\ ~heap.hdr[heap.top].used
  BY <1>1 DEF IInv, Sound, TopFree
<1>3. pc' # "idle" /\ Asked' \in Requests /\ want' \in Nat /\ want' < Threshold
  BY <1>1, WantBounds DEF Allocate, IInv, Running, Asked
<1>4. Typed'
  BY <1>1, <1>2, <1>3 DEF Typed
<1>5. Good(heap') /\ Kept(heap', live', from') /\ ~heap'.hdr[heap'.top].used
  BY Zenon, <1>1, <1>2
<1> QED
  BY Zenon, <1>3, <1>4, <1>5 DEF IInv, TopFree, Running

LEMMA AllocateFromBinKeeps ==
  ASSUME IInv, AllocateFromBin
  PROVE  IInv'
<1> DEFINE e == FindEntry(heap, want)
           m == TakeChunk(heap, e, want)
<1>1. pc = "allocate" /\ e # None /\ Returns(m, e)
  BY DEF AllocateFromBin, OnHeap
<1>2. /\ Good(heap) /\ want \in Nat \ {0}
      /\ ~heap.hdr[heap.top].used \/ heap.top = 0
  <2>1. Typed /\ Asked \in Requests
    BY <1>1 DEF IInv, Running
  <2> QED
    BY <1>1, <2>1, AsksForMore DEF IInv, Sound, TopFree
<1>3. Tiled(heap) /\ Binned(heap, FreeOf(heap))
  BY <1>2 DEF Good
<1>4. e \in FreeOf(heap) /\ heap.hdr[e].size > want
  <2> DEFINE S == FreeOf(heap)
  <2>1. heap \in HeapRec /\ Binned(heap, S)
    BY <1>3, ChunkFacts
  <2> HIDE DEF S
  <2>2. FindEntry(heap, want) \in S /\ heap.hdr[FindEntry(heap, want)].size > want
    BY <1>1, <2>1, FindsFree
  <2> QED
    BY <2>2 DEF S
<1> HIDE DEF e, m
<1>5. e \in ChunksOf(heap) /\ e # heap.top /\ ~heap.hdr[e].used /\ e \in Nat /\ heap.hdr[e].size \in Nat
  <2>1. e \in ChunksOf(heap) /\ e # heap.top /\ ~heap.hdr[e].used
    BY <1>4 DEF FreeOf
  <2> QED
    BY <1>3, <2>1, ChunkFacts
<1>6. ~heap.hdr[heap.top].used
  <2>1. e <= heap.top
    BY <1>3, <1>5 DEF Tiled
  <2> QED
    BY <1>2, <1>5, <2>1
<1>7. want < heap.hdr[e].size
  BY <1>2, <1>4, <1>5
<1>8. m = TakeChunk(heap, e, want)
  BY DEF m
<1>9. /\ Good(m) /\ ~m.hdr[m.top].used
      /\ UsedOf(m) = UsedOf(heap) \union {e} /\ m.hdr[e].size >= want
      /\ \A c \in UsedOf(heap) : m.hdr[c].size = heap.hdr[c].size
  BY <1>2, <1>4, <1>6, <1>7, <1>8, TakesChunk
<1>10. e \notin UsedOf(heap)
  BY <1>5 DEF UsedOf
<1> QED
  BY <1>1, <1>5, <1>9, <1>10, ReturnsKeeps

LEMMA AllocateFromTopKeeps ==
  ASSUME IInv, AllocateFromTop
  PROVE  IInv'
<1> DEFINE e == heap.top
           m == TakeTop(heap, want)
<1>1. pc = "allocate" /\ TopSuffices /\ Returns(m, e)
  BY DEF AllocateFromTop, OnHeap
<1>2. /\ Typed /\ Good(heap) /\ want \in Nat \ {0} /\ Asked \in Requests
      /\ ~heap.hdr[e].used \/ (e = 0 /\ from # None /\ from = 0)
  <2>1. Typed /\ Asked \in Requests
    BY <1>1 DEF IInv, Running
  <2> QED
    BY <1>1, <2>1, AsksForMore DEF IInv, Sound, TopFree
<1>3. e \in ChunksOf(heap) /\ e \in Nat /\ heap.hdr[e].size \in Nat
  <2>1. Tiled(heap)
    BY <1>2 DEF Good
  <2>2. e \in ChunksOf(heap)
    BY <2>1 DEF Tiled
  <2> QED
    BY <2>1, <2>2, ChunkFacts
<1>4. want < heap.hdr[e].size \/ (want = heap.hdr[e].size /\ heap.hdr[e].used)
  BY <1>1 DEF TopSuffices
<1>5. m = TakeTop(heap, want)
  OBVIOUS
<1> HIDE DEF m
<1>6. CASE ~heap.hdr[e].used
  <2>1. want < heap.hdr[e].size
    BY <1>4, <1>6
  <2> HIDE DEF e
  <2>2. e = heap.top /\ ~heap.hdr[heap.top].used
    BY <1>6 DEF e
  <2>3. /\ Good(m) /\ ~m.hdr[m.top].used
        /\ UsedOf(m) = UsedOf(heap) \union {e} /\ m.hdr[e].size >= want
        /\ \A c \in UsedOf(heap) : m.hdr[c].size = heap.hdr[c].size
    BY <1>2, <1>5, <2>1, <2>2, TakesTop
  <2>4. e \notin UsedOf(heap)
    BY <1>6 DEF UsedOf
  <2> QED
    BY <1>1, <1>3, <2>3, <2>4, ReturnsKeeps
<1>7. CASE e = 0 /\ from # None /\ from = 0
  <2>1. /\ pc' = "strayed" /\ live' = live \union {Block(e, Asked)} /\ want' = 0 /\ from' = None
        /\ large' = large
    BY <1>1, <1>7 DEF Returns
  <2>2. Block(e, Asked).at = e /\ Block(e, Asked).size = Asked
    BY DEF Block
  <2>3. \A b \in live' : b.at \in Nat /\ b.size \in Requests
    BY <1>2, <1>3, <2>1, <2>2 DEF Typed
  <2>4. Typed'
    BY <1>2, <2>1, <2>3 DEF Typed
  <2> QED
    BY <2>1, <2>4, Strays
<1> QED
  BY <1>2, <1>6, <1>7

\* The page allocator has nothing, and somebody uses what it returned.
LEMMA NoMemoryKeeps ==
  ASSUME IInv, pc \in {"idle", "allocate"}, NoMemory, want' = want, from' = from
  PROVE  IInv'
<1>1. /\ Typed /\ Good(heap) /\ Kept(heap, live, from)
      /\ heap' = heap /\ live' = live /\ large' = large /\ pc' \in {"fault", "strayed"}
  BY DEF IInv, Sound, NoMemory
<1>2. Typed'
  BY <1>1 DEF Typed, Asked
<1>3. Good(heap') /\ Kept(heap', live', from')
  BY Zenon, <1>1
<1>4. pc' # "idle" /\ pc' # "allocate"
  BY <1>1
<1> QED
  BY Zenon, <1>2, <1>3, <1>4 DEF IInv, TopFree, Running

LEMMA GrowHeapKeeps ==
  ASSUME IInv, GrowHeap
  PROVE  IInv'
<1>1. pc = "allocate" /\ live' = live /\ large' = large /\ want' = want /\ from' = from
  BY DEF GrowHeap, OnHeap, NoMemory
<1>2. /\ Typed /\ Good(heap) /\ Kept(heap, live, from) /\ Asked \in Requests
      /\ ~heap.hdr[heap.top].used \/ (heap.top = 0 /\ from # None /\ from = 0)
  BY <1>1 DEF IInv, Sound, TopFree, Running
<1> DEFINE l == IF 2 * heap.len > MaxUnits THEN MaxUnits ELSE 2 * heap.len
<1>3. \/ NoMemory
      \/ /\ heap' = Doubled(heap, l)
         /\ pc' = IF l = 2 * heap.len THEN "allocate" ELSE "strayed"
  BY DEF GrowHeap, Doubled
<1>4. Typed' /\ Asked' = Asked
  BY <1>1, <1>2, <1>3 DEF Typed, Asked, NoMemory
<1>5. CASE NoMemory
  BY <1>1, <1>5, NoMemoryKeeps
<1>6. CASE l # 2 * heap.len /\ pc' = "strayed"
  BY <1>4, <1>6, Strays
<1>7. CASE l = 2 * heap.len /\ pc' = "allocate" /\ heap' = Doubled(heap, l)
  <2>1. Tiled(heap) /\ l = 2 * heap.len /\ l <= MaxUnits
    <3>1. Tiled(heap)
      BY <1>2 DEF Good
    <3>2. heap.len \in Nat /\ MaxUnits \in Nat
      BY <3>1, ChunkFacts, Addresses
    <3> QED
      BY <1>7, <3>1, <3>2
  <2> HIDE DEF l
  <2> DEFINE r == heap'
  <2>2. r = Doubled(heap, l)
    BY <1>7
  <2> HIDE DEF r
  <2>3. Tiled(r) /\ Longer(heap, r)
    BY <1>2, <2>1, <2>2, DoublesTiles
  <2>4. /\ Good(r) /\ UsedOf(r) = UsedOf(heap) /\ r.top = heap.top
        /\ r.hdr[r.top].used = heap.hdr[heap.top].used
        /\ \A c \in UsedOf(heap) : r.hdr[c].size >= heap.hdr[c].size
    BY Zenon, <1>2, <2>3, Doubles
  <2>5. \A b \in live : b.size \in Nat
    BY <1>2, WantBounds DEF Typed
  <2>6. Kept(r, live, from)
    BY Zenon, <1>2, <2>1, <2>3, <2>4, <2>5, KeptLonger
  <2>7. Good(heap') /\ Kept(heap', live', from')
    BY Zenon, <1>1, <2>4, <2>6 DEF r
  <2>8. ~heap'.hdr[heap'.top].used \/ (heap'.top = 0 /\ from' # None /\ from' = 0)
    BY Zenon, <1>1, <1>2, <2>4 DEF r
  <2>9. pc' # "idle" /\ Asked' \in Requests /\ (from' = None => want' < Threshold)
    BY <1>1, <1>2, <1>4, <1>7 DEF IInv, Running
  <2> QED
    BY Zenon, <1>4, <2>7, <2>8, <2>9 DEF IInv, TopFree, Running
<1> QED
  BY <1>3, <1>5, <1>6, <1>7

\* A block is let go.
LEMMA ReleaseKeeps ==
  ASSUME IInv, pc = "idle", NEW b \in live, heap' = Release(heap, b.at), Verified,
         live' = live \ {b}, want' = want, from' = from, large' \in [Large -> LargeStates]
  PROVE  IInv'
<1>1. /\ Typed /\ Good(heap) /\ Kept(heap, live, from) /\ ~heap.hdr[heap.top].used /\ from = None
  BY DEF IInv, Sound, TopFree, Running
<1>2. pc' \in {"idle", "hang"}
  BY DEF Verified
<1>3. Typed'
  BY <1>1, <1>2 DEF Typed, Asked
<1>4. b.at \in UsedOf(heap)
  BY <1>1, HeldIs DEF Kept
<1> DEFINE r == heap'
<1>5. r = Release(heap, b.at)
  OBVIOUS
<1> HIDE DEF r
<1>6. /\ Good(r) /\ ~r.hdr[r.top].used /\ UsedOf(r) = UsedOf(heap) \ {b.at}
      /\ \A c \in UsedOf(r) : r.hdr[c].size = heap.hdr[c].size
  BY <1>1, <1>4, <1>5, Releases
<1>7. Kept(r, live \ {b}, from)
  BY Zenon, <1>1, <1>6, KeptLess
<1>8. Good(heap') /\ Kept(heap', live', from') /\ ~heap'.hdr[heap'.top].used
  BY Zenon, <1>6, <1>7 DEF r
<1>9. pc' # "allocate" /\ from' = None
  BY <1>1, <1>2
<1> QED
  BY Zenon, <1>3, <1>8, <1>9, Settles

\* What Reallocate makes of the chunk of a block and its neighbours.
LEMMA ReallocateMerges ==
  ASSUME IInv, pc = "idle", NEW b \in live, NEW p, p = Start(heap, b.at),
         NEW m, m = MergeWithNeighbors(heap, b.at)
  PROVE  /\ Typed /\ from = None /\ Kept(heap, live, None)
         /\ Alone(m, p, {}) /\ Good(m) /\ p \in Nat /\ m.hdr[p].size \in Nat
         /\ p \in UsedOf(m) /\ UsedOf(m) \ {p} = UsedOf(heap) \ {b.at}
         /\ \A c \in UsedOf(heap) : c # b.at => m.hdr[c].size = heap.hdr[c].size
         /\ (p # m.top => ~m.hdr[m.top].used)
<1> DEFINE e == b.at
<1>1. /\ Typed /\ Good(heap) /\ Kept(heap, live, None) /\ ~heap.hdr[heap.top].used /\ from = None
  BY DEF IInv, Sound, TopFree, Running
<1>2. e \in UsedOf(heap) /\ heap.hdr[e].used
  BY <1>1, HeldIs DEF Kept, UsedOf
<1> HIDE DEF e
<1>3. Merging(heap, e)
  BY Zenon, <1>1, <1>2, UsedMerges
<1>4. Alone(m, p, {}) /\ Grown(heap, e, m, p)
  <2>1. p = Start(heap, e) /\ m = MergeWithNeighbors(heap, e)
    BY DEF e
  <2> QED
    BY Zenon, <1>3, <2>1, Merges
<1>5. /\ m.hdr[p].used = heap.hdr[e].used /\ p \in ChunksOf(m)
      /\ UsedOf(m) \ {p} = UsedOf(heap) \ {e}
  BY Zenon, <1>4 DEF Grown
<1>6. \A c \in UsedOf(heap) : c # e => m.hdr[c].size = heap.hdr[c].size
  <2>1. \A c \in UsedOf(heap) \ {e} : m.hdr[c].size = heap.hdr[c].size
    BY Zenon, <1>4 DEF Grown
  <2> QED
    BY <2>1
<1>7. m.hdr[p].used /\ p \in UsedOf(m)
  BY Zenon, <1>2, <1>5 DEF UsedOf
<1>8. Good(m)
  BY Zenon, <1>4, <1>7, AloneGood
<1>9. p \in Nat /\ m.hdr[p].size \in Nat
  <2>1. Tiled(m)
    BY <1>8 DEF Good
  <2> QED
    BY <1>5, <2>1, ChunkFacts
<1>10. p # m.top => ~m.hdr[m.top].used
  BY Zenon, <1>4 DEF Alone
<1> QED
  BY Zenon, <1>1, <1>4, <1>5, <1>6, <1>7, <1>8, <1>9, <1>10 DEF e

LEMMA ReallocateMergedKeeps ==
  ASSUME IInv, pc = "idle", NEW b \in live, NEW u \in Requests, ReallocateMerged(b, u)
  PROVE  IInv'
<1> DEFINE p == Start(heap, b.at)
           m == MergeWithNeighbors(heap, b.at)
           L == (live \ {b}) \union {Block(p, u)}
<1>1. /\ Typed /\ from = None /\ Kept(heap, live, None)
      /\ Alone(m, p, {}) /\ Good(m) /\ p \in Nat /\ m.hdr[p].size \in Nat
      /\ p \in UsedOf(m) /\ UsedOf(m) \ {p} = UsedOf(heap) \ {b.at}
      /\ \A c \in UsedOf(heap) : c # b.at => m.hdr[c].size = heap.hdr[c].size
      /\ (p # m.top => ~m.hdr[m.top].used)
  <2>1. p = Start(heap, b.at) /\ m = MergeWithNeighbors(heap, b.at)
    OBVIOUS
  <2> HIDE DEF p, m
  <2> QED
    BY <2>1, ReallocateMerges
<1>2. /\ m.hdr[p].size >= u
      /\ heap' = IF m.hdr[p].size > u THEN SplitAndPush(m, p, u) ELSE m
      /\ live' = L /\ large' = large /\ want' = want /\ from' = from
      /\ pc' \in {"idle", "hang", "strayed"} /\ (pc' = "idle" => p # heap'.top)
  BY DEF ReallocateMerged, Verified
<1> HIDE DEF p, m
<1>3. Typed'
  <2>1. \A d \in L : d.at \in Nat /\ d.size \in Requests
    BY <1>1 DEF Typed, Block
  <2> HIDE DEF L
  <2> QED
    BY <1>1, <1>2, <2>1 DEF Typed, Asked
<1>4. u \in Nat \ {0}
  BY WantBounds
<1> DEFINE r == heap'
<1>5. /\ Good(r) /\ p \in UsedOf(r) /\ UsedOf(r) \ {p} = UsedOf(heap) \ {b.at}
      /\ r.hdr[p].size >= u
      /\ \A c \in UsedOf(heap) : c # b.at => r.hdr[c].size = heap.hdr[c].size
      /\ (p # r.top => ~r.hdr[r.top].used)
  <2>1. CASE m.hdr[p].size > u
    <3>1. r = SplitAndPush(m, p, u) /\ u < m.hdr[p].size
      BY <1>1, <1>2, <1>4, <2>1
    <3> HIDE DEF r
    <3>2. /\ Good(r) /\ ~r.hdr[r.top].used
          /\ UsedOf(r) = UsedOf(m) \union {p} /\ r.hdr[p].size = u
          /\ \A c \in UsedOf(m) \ {p} : r.hdr[c].size = m.hdr[c].size
      BY <1>1, <1>4, <3>1, Splits
    <3>3. p \in UsedOf(r) /\ UsedOf(r) \ {p} = UsedOf(heap) \ {b.at}
      BY <1>1, <3>2
    <3>4. ASSUME NEW c \in UsedOf(heap), c # b.at PROVE r.hdr[c].size = heap.hdr[c].size
      <4>1. c \in UsedOf(m) \ {p}
        BY <1>1, <3>4
      <4> QED
        BY Zenon, <1>1, <3>2, <3>4, <4>1
    <3>5. r.hdr[p].size >= u
      BY <1>4, <3>2
    <3> QED
      BY Zenon, <3>2, <3>3, <3>4, <3>5
  <2>2. CASE ~(m.hdr[p].size > u)
    <3>1. r = m
      BY <1>2, <2>2
    <3> HIDE DEF r
    <3> QED
      BY Zenon, <1>1, <1>2, <3>1
  <2> QED
    BY <2>1, <2>2
<1> HIDE DEF r, L
<1>6. Kept(r, L, None)
  <2>1. Kept(r, (live \ {b}) \union {Block(p, u)}, None)
    BY Zenon, <1>1, <1>5, KeptGrown
  <2> QED
    BY <2>1 DEF L
<1>7. /\ Good(heap') /\ Kept(heap', live', from') /\ from' = None
      /\ (p # heap'.top => ~heap'.hdr[heap'.top].used)
  BY Zenon, <1>1, <1>2, <1>5, <1>6 DEF r
<1>8. pc' # "allocate"
  BY <1>2
<1> QED
  BY Zenon, <1>2, <1>3, <1>7, <1>8 DEF IInv, TopFree, Running

LEMMA ReallocateMoveKeeps ==
  ASSUME IInv, pc = "idle", NEW b \in live, NEW u \in Requests, ReallocateMove(b, u)
  PROVE  IInv'
<1> DEFINE p == Start(heap, b.at)
           m == MergeWithNeighbors(heap, b.at)
<1>1. /\ Typed /\ from = None /\ Kept(heap, live, None)
      /\ Alone(m, p, {}) /\ Good(m) /\ p \in Nat /\ m.hdr[p].size \in Nat
      /\ p \in UsedOf(m) /\ UsedOf(m) \ {p} = UsedOf(heap) \ {b.at}
      /\ \A c \in UsedOf(heap) : c # b.at => m.hdr[c].size = heap.hdr[c].size
      /\ (p # m.top => ~m.hdr[m.top].used)
  <2>1. p = Start(heap, b.at) /\ m = MergeWithNeighbors(heap, b.at)
    OBVIOUS
  <2> HIDE DEF p, m
  <2> QED
    BY <2>1, ReallocateMerges
<1>2. /\ heap' = m /\ live' = live \ {b} /\ want' = u + 1 /\ from' = p /\ large' = large
      /\ pc' \in {"allocate", "hang", "fault"} /\ (pc' = "allocate" => Verify(m))
  BY DEF ReallocateMove
<1> HIDE DEF p, m
<1>3. p # None
  BY <1>1, KHeapAssumption
<1>4. Asked' \in Requests /\ want' \in Nat
  BY <1>2, <1>3, WantBounds DEF Asked
<1>5. Typed'
  BY <1>1, <1>2, <1>4 DEF Typed
<1>6. Kept(m, live \ {b}, p)
  BY Zenon, <1>1, <1>3, KeptMoving
<1>7. Good(heap') /\ Kept(heap', live', from')
  BY Zenon, <1>1, <1>2, <1>6
<1>8. pc' = "allocate" => \/ ~heap'.hdr[heap'.top].used
                          \/ heap'.top = 0 /\ from' # None /\ from' = 0
  <2>1. Verify(m) => m.top = 0 \/ ~m.hdr[m.top].used
    BY Zenon DEF Verify
  <2> QED
    BY Zenon, <1>1, <1>2, <1>3, <2>1
<1>9. pc' # "idle"
  BY <1>2
<1> QED
  BY Zenon, <1>2, <1>3, <1>4, <1>5, <1>7, <1>8, <1>9 DEF IInv, TopFree, Running

\* The page allocator's blocks are none of the heap's.
LEMMA LargeKeeps ==
  ASSUME IInv, pc = "idle", heap' = heap, live' = live, want' = want, from' = from,
         large' \in [Large -> LargeStates], pc' \in {"idle", "strayed"}
  PROVE  IInv'
<1>1. /\ Typed /\ Good(heap) /\ Kept(heap, live, from) /\ ~heap.hdr[heap.top].used /\ from = None
  BY DEF IInv, Sound, TopFree, Running
<1>2. Typed'
  BY <1>1 DEF Typed, Asked
<1>3. pc' # "allocate" /\ from' = None
  BY <1>1
<1>4. Good(heap') /\ Kept(heap', live', from') /\ ~heap'.hdr[heap'.top].used
  BY Zenon, <1>1
<1> QED
  BY Zenon, <1>2, <1>3, <1>4, Settles

\* The top chunk is in no bin and has nothing behind it: that it is not in use any more
\* changes nothing else.
LEMMA TopLetGo ==
  ASSUME NEW m, Good(m), NEW e, e = m.top, NEW r, r = [m EXCEPT !.hdr[e].used = FALSE]
  PROVE  /\ Good(r) /\ ~r.hdr[r.top].used /\ UsedOf(r) = UsedOf(m) \ {e}
         /\ \A c \in UsedOf(r) : r.hdr[c].size = m.hdr[c].size
<1> DEFINE a == Using(m, e, FALSE)
<1>1. Tiled(m) /\ Tagged(m, {}) /\ Binned(m, FreeOf(m)) /\ Parted(m, {})
  BY Zenon DEF Good
<1>2. e \in ChunksOf(m) /\ ChunksOf(m) \subseteq Addrs
  BY <1>1, ChunkFacts DEF Tiled
<1>3. Tiled(a) /\ InUse(m, e, FALSE, a)
  <2> DEFINE X == {}
             b == FALSE
  <2>1. Tagged(m, X) /\ b \in BOOLEAN /\ a = Using(m, e, b)
    BY <1>1
  <2> HIDE DEF X, b, a
  <2>2. Tiled(a) /\ Tagged(a, X \union {e}) /\ InUse(m, e, b, a)
    BY <1>1, <1>2, <2>1, UseTiles
  <2> QED
    BY <2>2 DEF b
<1> HIDE DEF a
<1>4. /\ ChunksOf(a) = ChunksOf(m) /\ a.top = e /\ a.bins = m.bins /\ ~a.hdr[e].used
      /\ \A c \in Addrs : /\ a.hdr[c].size = m.hdr[c].size /\ NextChunk(a, c) = NextChunk(m, c)
                          /\ a.hdr[c].psize = m.hdr[c].psize /\ a.hdr[c].pused = m.hdr[c].pused
      /\ \A c \in Addrs : c # e => a.hdr[c].used = m.hdr[c].used
  BY Zenon, <1>3 DEF InUse
<1>5. FreeOf(a) = FreeOf(m) /\ UsedOf(a) = UsedOf(m) \ {e}
  BY <1>2, <1>4 DEF FreeOf, UsedOf
<1>6. Tagged(a, {})
  <2>1. a.hdr[0].psize = 0
    BY <1>1, <1>2, <1>4 DEF Tagged, Tiled
  <2>2. ASSUME NEW c \in ChunksOf(a) \ ({a.top} \union {})
        PROVE  /\ a.hdr[NextChunk(a, c)].psize = a.hdr[c].size
               /\ a.hdr[NextChunk(a, c)].pused = a.hdr[c].used
    <3>1. c \in ChunksOf(m) \ ({m.top} \union {}) /\ c # e /\ c \in Addrs
      BY <1>2, <1>4
    <3>2. NextChunk(m, c) \in Addrs
      BY <1>1, <1>2, <3>1 DEF Tiled
    <3>3. /\ m.hdr[NextChunk(m, c)].psize = m.hdr[c].size
          /\ m.hdr[NextChunk(m, c)].pused = m.hdr[c].used
      BY Zenon, <1>1, <3>1 DEF Tagged
    <3> QED
      BY Zenon, <1>4, <3>1, <3>2, <3>3
  <2> QED
    BY Zenon, <2>1, <2>2 DEF Tagged
<1>7. Parted(a, {})
  <2>1. ASSUME NEW c \in FreeOf(a) \ {}
        PROVE  NextChunk(a, c) # a.top /\ a.hdr[NextChunk(a, c)].used
    <3>1. c \in FreeOf(m) \ {} /\ c \in ChunksOf(m) \ {m.top} /\ c \in Addrs
      BY <1>2, <1>5 DEF FreeOf
    <3>2. NextChunk(m, c) \in Addrs
      BY <1>1, <1>2, <3>1 DEF Tiled
    <3>3. NextChunk(m, c) # m.top /\ m.hdr[NextChunk(m, c)].used
      BY <1>1, <3>1 DEF Parted
    <3> QED
      BY Zenon, <1>4, <3>1, <3>2, <3>3
  <2> QED
    BY Zenon, <2>1 DEF Parted
<1>8. Binned(a, FreeOf(a))
  <2>1. \A c \in FreeOf(m) : a.hdr[c].size = m.hdr[c].size
    BY <1>2, <1>4 DEF FreeOf
  <2> DEFINE S == FreeOf(m)
  <2>2. Binned(m, S) /\ a.bins = m.bins /\ \A c \in S : a.hdr[c].size = m.hdr[c].size
    BY <1>1, <1>4, <2>1
  <2> HIDE DEF S
  <2>3. Binned(a, S)
    BY Zenon, <2>2, BinnedSame
  <2> QED
    BY <1>5, <2>3 DEF S
<1>9. r = a
  BY DEF a, Using
<1>10. \A c \in UsedOf(a) : a.hdr[c].size = m.hdr[c].size
  BY <1>2, <1>4 DEF UsedOf
<1>11. Good(a)
  BY Zenon, <1>3, <1>6, <1>7, <1>8 DEF Good
<1> QED
  BY Zenon, <1>4, <1>5, <1>9, <1>10, <1>11

LEMMA AllocateMovedLargeKeeps ==
  ASSUME IInv, NEW l \in Large, AllocateMovedLarge(l)
  PROVE  IInv'
<1>1. pc = "allocate" /\ want >= Threshold
  BY DEF AllocateMovedLarge
<1>2. /\ Typed /\ Good(heap) /\ Kept(heap, live, from) /\ from # None
      /\ ~heap.hdr[heap.top].used \/ heap.top = from
  <2>1. from # None
    BY <1>1, KHeapAssumption DEF IInv, Running, Typed
  <2> QED
    BY <1>1, <2>1 DEF IInv, Sound, TopFree
<1>3. CASE NoMemory /\ want' = want /\ from' = from
  BY <1>1, <1>3, NoMemoryKeeps
<1>4. CASE ~(NoMemory /\ want' = want /\ from' = from)
  <2>1. /\ want' = 0 /\ from' = None /\ live' = live /\ large' = [large EXCEPT ![l] = "marked"]
        /\ pc' \in {"idle", "hang", "strayed"}
        /\ \/ heap.top # from /\ heap' = Release(heap, from)
           \/ heap.top = from /\ heap' = [heap EXCEPT !.hdr[from].used = FALSE]
    BY <1>4 DEF AllocateMovedLarge, Verified
  <2>2. Typed'
    BY <1>2, <2>1 DEF Typed, LargeStates
  <2>3. from \in UsedOf(heap)
    BY <1>2, HeldIs DEF Kept
  <2> DEFINE m == heap
             r == heap'
             e == from
  <2>4. /\ Good(r) /\ ~r.hdr[r.top].used /\ UsedOf(r) = UsedOf(m) \ {e}
        /\ \A c \in UsedOf(r) : r.hdr[c].size = m.hdr[c].size
    <3>1. /\ Good(m) /\ e \in UsedOf(m) /\ (~m.hdr[m.top].used \/ m.top = e)
          /\ \/ m.top # e /\ r = Release(m, e)
             \/ m.top = e /\ r = [m EXCEPT !.hdr[e].used = FALSE]
      BY <1>2, <2>1, <2>3
    <3> HIDE DEF m, r, e
    <3>2. CASE m.top # e
      BY <3>1, <3>2, Releases
    <3>3. CASE m.top = e
      BY <3>1, <3>3, TopLetGo
    <3> QED
      BY <3>2, <3>3
  <2>5. Kept(r, live, None)
    <3> HIDE DEF r
    <3> QED
      BY Zenon, <1>2, <2>4, KeptMoved
  <2>6. Good(heap') /\ Kept(heap', live', from') /\ ~heap'.hdr[heap'.top].used
    BY Zenon, <2>1, <2>4, <2>5
  <2>7. pc' # "allocate"
    BY <2>1
  <2> QED
    BY Zenon, <2>1, <2>2, <2>6, <2>7, Settles
<1> QED
  BY <1>3, <1>4

LEMMA InitHolds ==
  ASSUME Init
  PROVE  IInv
<1>1. /\ HeapUnits \in Nat /\ HeapUnits > 0 /\ MaxUnits \in Nat /\ HeapUnits <= MaxUnits
      /\ 0 \in Addrs /\ Addrs \subseteq Nat
  BY KHeapAssumption, Addresses
<1>2. /\ DOMAIN heap.hdr = Addrs /\ heap.top = 0 /\ heap.len = HeapUnits
      /\ \A c \in Addrs : /\ heap.hdr[c].size = (IF c = 0 THEN HeapUnits ELSE 0)
                          /\ ~heap.hdr[c].used /\ heap.hdr[c].psize = 0 /\ ~heap.hdr[c].pused
      /\ \A b \in Bins : heap.bins[b] = <<>>
      /\ heap \in HeapRec
  <2> DEFINE x(a) == [NoChunk EXCEPT !.size = IF a = 0 THEN HeapUnits ELSE 0]
             h == [a \in Addrs |-> x(a)]
             B == [b \in Bins |-> <<>>]
  <2>1. ASSUME NEW a \in Addrs
        PROVE  /\ x(a) \in Header /\ x(a).size = (IF a = 0 THEN HeapUnits ELSE 0)
               /\ ~x(a).used /\ x(a).psize = 0 /\ ~x(a).pused
    BY <1>1 DEF NoChunk, Header
  <2>2. heap = [hdr |-> h, top |-> 0, len |-> HeapUnits, bins |-> B]
    BY DEF Init, Addrs
  <2>3. B \in [Bins -> Seq(Nat)] /\ \A b \in Bins : B[b] = <<>>
    OBVIOUS
  <2> HIDE DEF x
  <2>4. h \in [Addrs -> Header] /\ \A c \in Addrs : h[c] = x(c)
    BY <2>1
  <2> HIDE DEF h, B
  <2>5. heap.hdr = h /\ heap.top = 0 /\ heap.len = HeapUnits /\ heap.bins = B /\ heap \in HeapRec
    BY <1>1, <2>2, <2>3, <2>4 DEF HeapRec
  <2>6. DOMAIN heap.hdr = Addrs
    BY <2>4, <2>5
  <2> QED
    BY Zenon, <2>1, <2>3, <2>4, <2>5, <2>6
<1>3. ChunksOf(heap) = {0}
  <2>1. ChunksOf(heap) = {c \in Addrs : heap.hdr[c].size > 0}
    BY <1>2 DEF ChunksOf
  <2>2. \A c \in Addrs : heap.hdr[c].size > 0 <=> c = 0
    BY <1>1, <1>2
  <2> QED
    BY <1>1, <2>1, <2>2
<1>4. NextChunk(heap, 0) = HeapUnits
  BY <1>1, <1>2 DEF NextChunk
<1>5. Tiled(heap)
  BY <1>1, <1>2, <1>3, <1>4 DEF Tiled
<1>6. FreeOf(heap) = {} /\ UsedOf(heap) = {}
  BY <1>1, <1>2, <1>3 DEF FreeOf, UsedOf
<1>7. Tagged(heap, {})
  <2>1. heap.hdr[0].psize = 0 /\ ChunksOf(heap) \ ({heap.top} \union {}) = {}
    BY <1>1, <1>2, <1>3
  <2> QED
    BY <2>1 DEF Tagged
<1>8. Binned(heap, FreeOf(heap))
  <2>1. \A b \in Bins : DOMAIN heap.bins[b] = {}
    BY <1>2
  <2> QED
    BY <1>6, <2>1 DEF Binned
<1>9. Parted(heap, {})
  BY <1>6 DEF Parted
<1>10. Kept(heap, live, from)
  BY <1>6 DEF Init, Kept, HeldAt
<1>11. Typed
  BY DEF Init, Typed, LargeStates
<1>12. TopFree /\ Running
  BY <1>1, <1>2 DEF Init, TopFree, Running
<1>13. Good(heap)
  BY Zenon, <1>5, <1>7, <1>8, <1>9 DEF Good
<1> QED
  BY Zenon, <1>10, <1>11, <1>12, <1>13 DEF IInv

\* One case for each action.
LEMMA StepKeeps ==
  ASSUME IInv, [Next]_vars
  PROVE  IInv'
<1>1. CASE UNCHANGED vars
  <2>1. /\ heap' = heap /\ live' = live /\ large' = large /\ pc' = pc
        /\ want' = want /\ from' = from
    BY <1>1 DEF vars
  <2> QED
    BY <2>1 DEF IInv, Typed, Asked, Sound, TopFree, Running
<1>2. CASE AllocateFromBin
  BY <1>2, AllocateFromBinKeeps
<1>3. CASE AllocateFromTop
  BY <1>3, AllocateFromTopKeeps
<1>4. CASE GrowHeap
  BY <1>4, GrowHeapKeeps
<1>5. CASE \E u \in Requests : Allocate(u)
  BY <1>5, AllocateKeeps
<1>6. CASE \E u \in Requests, b \in live : Reallocate(b, u)
  BY <1>6, ReallocateMergedKeeps, ReallocateMoveKeeps DEF Reallocate
<1>7. CASE \E b \in live : Free(b)
  <2>1. PICK b \in live : Free(b)
    BY <1>7
  <2>2. large \in [Large -> LargeStates]
    BY DEF IInv, Typed
  <2> QED
    BY <2>1, <2>2, ReleaseKeeps DEF Free
<1>8. CASE \E b \in live : FreeTakenForLarge(b)
  <2>1. PICK b \in live : FreeTakenForLarge(b)
    BY <1>8
  <2>2. Typed' /\ pc' = "strayed"
    BY <2>1 DEF FreeTakenForLarge, IInv, Typed, Asked
  <2> QED
    BY <2>2, Strays
<1>9. CASE \E l \in Large : AllocateLarge(l) \/ ReallocateLarge(l) \/ FreeLarge(l)
  <2>1. PICK l \in Large : AllocateLarge(l) \/ ReallocateLarge(l) \/ FreeLarge(l)
    BY <1>9
  <2>2. pc = "idle" /\ want' = want /\ from' = from
    BY <2>1 DEF AllocateLarge, ReallocateLarge, FreeLarge
  <2>3. CASE NoMemory
    BY <2>2, <2>3, NoMemoryKeeps
  <2>4. CASE ~NoMemory
    <3>1. heap' = heap /\ live' = live /\ pc' \in {"idle", "strayed"}
      BY <2>1, <2>2, <2>4 DEF AllocateLarge, ReallocateLarge, FreeLarge
    <3>2. large' \in [Large -> LargeStates]
      BY <2>1, <2>4 DEF AllocateLarge, ReallocateLarge, FreeLarge, IInv, Typed, LargeStates
    <3> QED
      BY <2>2, <3>1, <3>2, LargeKeeps
  <2> QED
    BY <2>3, <2>4
<1>10. CASE \E l \in Large, b \in live : ReallocateToLarge(b, l)
  <2>1. PICK l \in Large, b \in live : ReallocateToLarge(b, l)
    BY <1>10
  <2>2. CASE NoMemory
    BY <2>1, <2>2, NoMemoryKeeps DEF ReallocateToLarge
  <2>3. CASE ~NoMemory
    <3>1. large' \in [Large -> LargeStates]
      BY <2>1, <2>3 DEF ReallocateToLarge, IInv, Typed, LargeStates
    <3> QED
      BY <2>1, <2>3, <3>1, ReleaseKeeps DEF ReallocateToLarge
  <2> QED
    BY <2>2, <2>3
<1>11. CASE \E l \in Large : AllocateMovedLarge(l)
  BY <1>11, AllocateMovedLargeKeeps
<1> QED
  BY <1>1, <1>2, <1>3, <1>4, <1>5, <1>6, <1>7, <1>8, <1>9, <1>10, <1>11 DEF Next, Continue

\* What the invariant says of the chunks.
LEMMA IInvImplies ==
  ASSUME IInv
  PROVE  TypeOK /\ ChunksTile /\ BinsHoldFree /\ NoFreeNeighbours /\ BlocksKept
<1>1. Typed
  BY DEF IInv
<1>2. CASE ~Sound
  BY <1>1, <1>2 DEF Typed, TypeOK, ChunksTile, BinsHoldFree, NoFreeNeighbours, BlocksKept
<1>3. CASE Sound
  <2>1. Good(heap) /\ Kept(heap, live, from)
    BY <1>3 DEF IInv
  <2>2. Tiled(heap) /\ Tagged(heap, {}) /\ Binned(heap, FreeOf(heap)) /\ Parted(heap, {})
    BY Zenon, <2>1 DEF Good
  <2>3. Chunks = ChunksOf(heap) /\ FreeChunks = FreeOf(heap) /\ FreeOf(heap) \ {} = FreeOf(heap)
    BY DEF Chunks, FreeChunks, FreeOf
  <2>4. TypeOK
    <3>1. HeapType(heap)
      BY <2>1, GoodTyped
    <3> QED
      BY Zenon, <1>1, <3>1 DEF TypeOK, Typed
  <2>5. ChunksTile
    <3>1. ASSUME NEW c \in Chunks \ {heap.top}
          PROVE  /\ NextChunk(heap, c) \in Chunks
                 /\ heap.hdr[NextChunk(heap, c)].psize = heap.hdr[c].size
                 /\ heap.hdr[NextChunk(heap, c)].pused = heap.hdr[c].used
                 /\ \A d \in Chunks : d > c => d >= NextChunk(heap, c)
      <4>1. c \in ChunksOf(heap) \ {heap.top} /\ c \in ChunksOf(heap) \ ({heap.top} \union {})
        BY <2>3
      <4>2. /\ heap.hdr[NextChunk(heap, c)].psize = heap.hdr[c].size
            /\ heap.hdr[NextChunk(heap, c)].pused = heap.hdr[c].used
        BY Zenon, <2>2, <4>1 DEF Tagged
      <4> QED
        BY Zenon, <2>2, <2>3, <4>1, <4>2 DEF Tiled
    <3>2. 0 \in Chunks /\ NextChunk(heap, heap.top) = heap.len
      BY Zenon, <2>2, <2>3 DEF Tiled
    <3> QED
      BY Zenon, <3>1, <3>2 DEF ChunksTile
  <2>6. BinsHoldFree
    BY Zenon, <2>2, <2>3 DEF Binned, BinsHoldFree
  <2>7. NoFreeNeighbours
    <3>1. ASSUME NEW c \in FreeChunks
          PROVE  heap.hdr[NextChunk(heap, c)].used /\ NextChunk(heap, c) # heap.top
      <4>1. c \in FreeOf(heap) \ {}
        BY <2>3
      <4> QED
        BY <2>2, <4>1 DEF Parted
    <3> QED
      BY Zenon, <3>1 DEF NoFreeNeighbours
  <2>8. BlocksKept
    <3>1. UsedOf(heap) = {c \in Chunks : heap.hdr[c].used}
      BY <2>3 DEF UsedOf
    <3>4. UsedOf(heap) = HeldAt(live, from)
      BY <2>1 DEF Kept
    <3>2. ASSUME NEW b \in live
          PROVE  b.at \in Chunks \ FreeChunks /\ heap.hdr[b.at].used /\ heap.hdr[b.at].size >= b.size
      <4>1. b.at \in UsedOf(heap)
        BY <3>4, HeldIs
      <4>2. heap.hdr[b.at].size >= b.size
        BY Zenon, <2>1 DEF Kept
      <4> QED
        BY <2>3, <4>1, <4>2 DEF UsedOf, FreeOf
    <3>3. \A a, b \in live : a.at = b.at => a = b
      BY <2>1 DEF Kept
    <3> QED
      BY Zenon, <3>1, <3>2, <3>3, <3>4 DEF BlocksKept, HeldAt
  <2> QED
    BY <2>4, <2>5, <2>6, <2>7, <2>8
<1> QED
  BY <1>2, <1>3

--------------------------------------------------------------------------------
(* Theorems.                                                                     *)

\* The inductive invariant: as long as no header was overwritten, chunks tile the
\* heap and know the one before, the bins hold the free ones, which have no free
\* neighbours, and the chunks in use are those of the blocks that are held.
THEOREM Invariant == Spec => []IInv
<1> QED
  BY InitHolds, StepKeeps, PTL DEF Spec

\* Chunks lie in the heap, bins hold chunks, and all else is what it says it is.
THEOREM TypeCorrect == Spec => []TypeOK
<1> QED
  BY Invariant, IInvImplies, PTL

\* MergeWithNeighbors finds its neighbours: every unit of the heap is in one chunk,
\* and each chunk knows the size and the in-use bit of the one before it.
THEOREM Tiles == Spec => []ChunksTile
<1> QED
  BY Invariant, IInvImplies, PTL

\* Free chunks are on the bin of their size, once, and nothing else is on a bin:
\* FindEntry never finds a chunk that somebody holds, nor the top chunk.
THEOREM FreeOnBins == Spec => []BinsHoldFree
<1> QED
  BY Invariant, IInvImplies, PTL

\* Free and Reallocate leave no two free chunks side by side.
THEOREM FreeMerged == Spec => []NoFreeNeighbours
<1> QED
  BY Invariant, IInvImplies, PTL

\* No two clients hold the same chunk, each is as large as was asked for, and no
\* chunk in use is lost.
THEOREM HeldKept == Spec => []BlocksKept
<1> QED
  BY Invariant, IInvImplies, PTL
================================================================================
