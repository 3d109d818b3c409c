------------------------ MODULE BuddyAllocator_proofs ------------------------
(* That the lists of the page allocator stay doubly linked, and its blocks stay *)
(* apart and lose no page, until a removal follows an outdated forward_: for a  *)
(* range of any size, any number of orders and requests of any size.            *)
EXTENDS BuddyAllocator, WellFoundedInduction, TLAPS

------------------------------------------------------------------------------
(* Arithmetic: division by a fixed number, and powers of two.                   *)

\* A set of naturals that is not empty has a least element.
LEMMA LeastExists ==
  ASSUME NEW T \in SUBSET Nat, T # {}
  PROVE  \E x \in T : \A y \in T : x <= y
<1> DEFINE R == {ss \in Nat \X Nat : ss[1] < ss[2]}
<1>1. IsWellFoundedOn(R, Nat)
  BY NatLessThanWellFounded DEF OpToRel
<1> HIDE DEF R
<1>2. PICK x \in T : \A y \in T : ~(<<y, x>> \in R)
  BY <1>1, WFMin
<1>3. \A y \in T : ~(y < x)
  BY <1>2 DEF R
<1> QED
  BY <1>3

LEMMA DivMod ==
  ASSUME NEW D \in Nat \ {0}, NEW x \in Nat
  PROVE  x \div D \in Nat /\ x % D \in 0 .. D - 1 /\ x = (x \div D) * D + (x % D)
<1>1. x \div D \in Nat
  BY SMTT(30)
<1>2. x = D * (x \div D) + (x % D) /\ x % D \in 0 .. D - 1 /\ x \div D \in Int
  BY SMTT(60)
<1> DEFINE q == x \div D
           r == x % D
<1>3. q \in Nat /\ r \in 0 .. D - 1 /\ x = D * q + r
  BY <1>1, <1>2
<1> HIDE DEF q, r
<1>4. q \in Nat /\ r \in 0 .. D - 1 /\ x = q * D + r
  BY <1>3
<1> QED
  BY Zenon, <1>4 DEF q, r

LEMMA Quotient ==
  ASSUME NEW D \in Nat \ {0}, NEW q \in Nat, NEW r \in 0 .. D - 1
  PROVE  q * D + r \in Nat /\ (q * D + r) \div D = q /\ (q * D + r) % D = r
BY SMTT(30)

LEMMA Multiple ==
  ASSUME NEW D \in Nat \ {0}, NEW q \in Nat
  PROVE  q * D \in Nat /\ (q * D) % D = 0 /\ (q * D) \div D = q
BY SMTT(30)

LEMMA MultipleBelow ==
  ASSUME NEW D \in Nat \ {0}, NEW p \in Nat, NEW q \in Nat
  PROVE  p < q <=> p * D + D <= q * D
BY SMTT(30)

\* Dividing by 2^k and then by two is dividing by 2^(k+1).
LEMMA Halves ==
  ASSUME NEW D \in Nat \ {0}, NEW x \in Nat
  PROVE  (x \div D) \div 2 = x \div (2 * D)
<1> DEFINE u == x \div D
           t == x % D
           w == u \div 2
           r == u % 2
           D2 == 2 * D
           s == r * D + t
<1>1. u \in Nat /\ t \in 0 .. D - 1 /\ x = u * D + t
  BY DivMod
<1>2. w \in Nat /\ r \in 0 .. 1 /\ u = w * 2 + r
  <2> HIDE DEF u
  <2> QED
    BY <1>1, DivMod
<1> HIDE DEF u, t, w, r
<1>3. D2 \in Nat \ {0} /\ s \in 0 .. D2 - 1 /\ x = w * D2 + s
  <2>1. u * D = (w * 2) * D + r * D
    BY <1>1, <1>2
  <2>2. (w * 2) * D = w * D2 /\ w * D2 \in Nat
    BY <1>2
  <2>3. r * D \in 0 .. D
    BY <1>2
  <2>4. D2 \in Nat \ {0} /\ s \in 0 .. D2 - 1
    BY <1>1, <2>3
  <2> QED
    BY <1>1, <2>1, <2>2, <2>3, <2>4
<1> HIDE DEF D2, s
<1>4. (w * D2 + s) \div D2 = w
  BY <1>2, <1>3, Quotient
<1>5. x \div D2 = w
  BY <1>3, <1>4
<1> QED
  BY <1>5 DEF u, w, D2

\* 2^k is a power of two, and the smaller of two powers divides the larger.
LEMMA Powers ==
  /\ \A k \in 0 .. MaxOrder + 2 : 2^k \in Nat \ {0}
  /\ \A k \in 0 .. MaxOrder + 1 : 2^(k + 1) = 2 * 2^k
  /\ 2^0 = 1
<1>1. 2^(MaxOrder + 1) \in Nat \ {0} /\ 2^(MaxOrder + 1 + 1) = 2 * 2^(MaxOrder + 1)
  BY OrderAssumption, BuddyAssumption
<1>2. MaxOrder + 1 + 1 = MaxOrder + 2
  BY BuddyAssumption
<1>3. 2^(MaxOrder + 2) \in Nat \ {0}
  BY <1>1, <1>2
<1>4. \A k \in 0 .. MaxOrder + 1 : 2^k \in Nat \ {0}
  BY OrderAssumption
<1>5. \A k \in 0 .. MaxOrder + 2 : k = MaxOrder + 2 \/ k \in 0 .. MaxOrder + 1
  BY BuddyAssumption
<1> QED
  BY <1>3, <1>4, <1>5, OrderAssumption

LEMMA PowerDivides ==
  ASSUME NEW j \in 0 .. MaxOrder + 2, NEW k \in 0 .. MaxOrder + 2, j <= k
  PROVE  \E n \in Nat \ {0} : 2^k = n * 2^j
<1> DEFINE Divided(i) == \E n \in Nat \ {0} : 2^i = n * 2^j
           T == {i \in j .. MaxOrder + 2 : ~Divided(i)}
<1>1. SUFFICES ASSUME T # {} PROVE FALSE
  <2>1. k \in j .. MaxOrder + 2
    BY BuddyAssumption
  <2> QED
    BY <2>1
<1>2. T \in SUBSET Nat
  BY BuddyAssumption
<1> HIDE DEF T
<1>3. PICK i \in T : \A y \in T : i <= y
  BY <1>1, <1>2, LeastExists
<1>4. i \in j .. MaxOrder + 2 /\ ~Divided(i)
  BY DEF T
<1>5. i # j
  <2>1. 2^j = 1 * 2^j
    BY Powers
  <2> QED
    BY <1>4, <2>1
<1>6. i - 1 \in j .. MaxOrder + 2 /\ i - 1 \in 0 .. MaxOrder + 1 /\ i - 1 + 1 = i /\ ~(i <= i - 1)
  BY <1>4, <1>5, BuddyAssumption
<1>7. Divided(i - 1)
  BY <1>3, <1>6 DEF T
<1>8. PICK n \in Nat \ {0} : 2^(i - 1) = n * 2^j
  BY <1>7
<1>9. 2^i = 2 * 2^(i - 1) /\ 2^j \in Nat
  BY <1>6, Powers
<1>10. 2^i = (2 * n) * 2^j /\ 2 * n \in Nat \ {0}
  BY <1>8, <1>9
<1> QED
  BY <1>4, <1>10

------------------------------------------------------------------------------
(* Blocks, buddies, and what splitting and merging does to a set of blocks.     *)

\* Where the pages handed out end, rounded up to a block of two pages.
Limit == Catalogued + (Catalogued % 2)

End(b)       == b[1] + 2^b[2]
Aligned(b)   == b \in Nat \X Orders /\ b[1] % 2^b[2] = 0
Covers(b, p) == b[1] <= p /\ p < End(b)
Beside(b, c) == End(b) <= c[1] \/ End(c) <= b[1]

\* Aligned blocks below Limit, side by side.
Tiled(S) == /\ \A b \in S : Aligned(b) /\ End(b) <= Limit
            /\ \A b, c \in S : b # c => Beside(b, c)

CoveredBy(S, p) == \E b \in S : Covers(b, p)

\* An aligned block in terms of its size.
LEMMA AlignedIs ==
  ASSUME NEW k \in Orders, NEW e \in Nat, e % 2^k = 0
  PROVE  e \div 2^k \in Nat /\ e = (e \div 2^k) * 2^k /\ 2^k \in Nat \ {0}
<1> DEFINE D == 2^k
<1>1. D \in Nat \ {0}
  BY Powers, BuddyAssumption DEF Orders
<1> HIDE DEF D
<1> DEFINE q == e \div D
           r == e % D
<1>2. q \in Nat /\ r = 0 /\ e = q * D + r
  <2>1. e % D = 0
    BY DEF D
  <2> QED
    BY <1>1, <2>1, DivMod
<1> HIDE DEF q, r
<1>3. q \in Nat /\ e = q * D /\ D \in Nat \ {0}
  BY <1>1, <1>2
<1> QED
  BY Zenon, <1>3 DEF q, D

\* Of two blocks, the smaller one lies in the larger one or beside it.
LEMMA Nested ==
  ASSUME NEW k \in Orders, NEW j \in Orders, j <= k,
         NEW e \in Nat, e % 2^k = 0, NEW f \in Nat, f % 2^j = 0
  PROVE  \/ f + 2^j <= e
         \/ e + 2^k <= f
         \/ e <= f /\ f + 2^j <= e + 2^k
<1> DEFINE D == 2^j
           E == 2^k
           q == e \div E
           p == f \div D
<1>1. q \in Nat /\ e = q * E /\ E \in Nat \ {0}
  BY AlignedIs
<1>2. p \in Nat /\ f = p * D /\ D \in Nat \ {0}
  BY AlignedIs
<1>3. PICK n \in Nat \ {0} : E = n * D
  BY PowerDivides, BuddyAssumption DEF Orders
<1> SUFFICES \/ f + D <= e
             \/ e + E <= f
             \/ e <= f /\ f + D <= e + E
  OBVIOUS
<1> HIDE DEF D, E, q, p
<1>4. q * n \in Nat /\ e = (q * n) * D
  BY <1>1, <1>2, <1>3
<1>5. q * n + n \in Nat /\ e + E = (q * n + n) * D
  BY <1>2, <1>3, <1>4
<1>6. p < q * n => f + D <= e
  BY <1>2, <1>4, MultipleBelow
<1>7. q * n <= p => e <= f
  <2>1. CASE q * n < p
    <3>1. (q * n) * D + D <= p * D
      BY <1>2, <1>4, <2>1, MultipleBelow
    <3> QED
      BY <1>2, <1>4, <3>1
  <2>2. CASE q * n = p
    BY <1>2, <1>4, <2>2
  <2> QED
    BY <1>2, <1>4, <2>1, <2>2
<1>8. p < q * n + n => f + D <= e + E
  BY <1>2, <1>5, MultipleBelow
<1>9. q * n + n <= p => e + E <= f
  <2>1. CASE q * n + n < p
    <3>1. (q * n + n) * D + D <= p * D
      BY <1>2, <1>5, <2>1, MultipleBelow
    <3> QED
      BY <1>2, <1>5, <3>1
  <2>2. CASE q * n + n = p
    BY <1>2, <1>5, <2>2
  <2> QED
    BY <1>2, <1>5, <2>1, <2>2
<1>10. p < q * n \/ (q * n <= p /\ p < q * n + n) \/ q * n + n <= p
  BY <1>2, <1>4, <1>5
<1> QED
  BY <1>6, <1>7, <1>8, <1>9, <1>10

\* A block aligned to its size is aligned to half of it.
LEMMA AlignedToHalf ==
  ASSUME NEW k \in Orders, k + 1 \in Orders, NEW e \in Nat, e % 2^(k + 1) = 0
  PROVE  e % 2^k = 0
<1> DEFINE D == 2^k
           E == 2^(k + 1)
           q == e \div E
<1>1. D \in Nat \ {0} /\ E = 2 * D
  BY Powers, BuddyAssumption DEF Orders
<1>2. q \in Nat /\ e = q * E
  BY AlignedIs
<1> SUFFICES e % D = 0
  OBVIOUS
<1> HIDE DEF D, E, q
<1>3. e = (2 * q) * D /\ 2 * q \in Nat
  BY <1>1, <1>2
<1> QED
  BY <1>1, <1>3, Multiple

\* The buddy of a block is the other half of a block twice the size, and the block
\* is its buddy's buddy.
LEMMA BuddyIs ==
  ASSUME NEW k \in Orders, NEW e \in Nat, e % 2^k = 0, BuddyOf(e, k) # Null
  PROVE  LET b == BuddyOf(e, k)
         IN  /\ b \in Entries /\ b \in Nat /\ b # e
             /\ b % 2^k = 0
             /\ \/ b = e + 2^k /\ e % 2^(k + 1) = 0
                \/ e = b + 2^k /\ b % 2^(k + 1) = 0
             /\ e \in Entries => BuddyOf(b, k) = e
<1> DEFINE D == 2^k
           E == 2^(k + 1)
           q == e \div D
           w == q \div 2
           b == BuddyOf(e, k)
<1>1. q \in Nat /\ e = q * D /\ D \in Nat \ {0}
  BY AlignedIs
<1>2. E = 2 * D
  BY Powers, BuddyAssumption DEF Orders
<1>3. w \in Nat /\ q % 2 \in 0 .. 1 /\ q = w * 2 + (q % 2)
  <2> HIDE DEF q
  <2> QED
    BY <1>1, DivMod
<1>4. b = IF q % 2 = 0 THEN e + D ELSE e - D
  BY DEF BuddyOf
<1>5. \A x \in Entries : BuddyOf(x, k) = LET c == IF (x \div D) % 2 = 0 THEN x + D ELSE x - D
                                       IN  IF c \in Entries THEN c ELSE Null
  BY DEF BuddyOf
<1>6. b \in Entries /\ b \in Nat
  BY BuddyAssumption DEF BuddyOf, Entries
<1> SUFFICES /\ b # e
             /\ b % D = 0
             /\ \/ b = e + D /\ e % E = 0
                \/ e = b + D /\ b % E = 0
             /\ e \in Entries => BuddyOf(b, k) = e
  BY <1>6
<1>7. CASE q % 2 = 0
  <2> HIDE DEF D, E, q, w, b
  <2>1. b = (q + 1) * D /\ b = e + D /\ e = w * E
    BY <1>1, <1>2, <1>3, <1>4, <1>7
  <2>2. b % D = 0 /\ b \div D = q + 1
    BY <1>1, <2>1, Multiple
  <2>3. e % E = 0
    <3>1. E \in Nat \ {0}
      BY <1>1, <1>2
    <3> QED
      BY <1>3, <2>1, <3>1, Multiple
  <2>4. (q + 1) % 2 # 0
    BY <1>1, <1>7
  <2>5. e \in Entries => BuddyOf(b, k) = e
    BY <1>1, <1>5, <1>6, <2>1, <2>2, <2>4
  <2> QED
    BY <1>1, <2>1, <2>2, <2>3, <2>5
<1>8. CASE q % 2 = 1
  <2> HIDE DEF D, E, q, w, b
  <2>1. b = (q - 1) * D /\ e = b + D /\ b = w * E /\ q - 1 \in Nat
    BY <1>1, <1>2, <1>3, <1>4, <1>8
  <2>2. b % D = 0 /\ b \div D = q - 1
    BY <1>1, <2>1, Multiple
  <2>3. b % E = 0
    BY <1>1, <1>2, <1>3, <2>1, Multiple
  <2>4. (q - 1) % 2 = 0
    BY <1>1, <1>8
  <2>5. e \in Entries => BuddyOf(b, k) = e
    BY <1>1, <1>5, <1>6, <2>1, <2>2, <2>4
  <2> QED
    BY <1>1, <2>1, <2>2, <2>3, <2>5
<1> QED
  BY <1>3, <1>7, <1>8

\* The lower half of a block has the upper half as its buddy.
LEMMA BuddyOfLowerHalf ==
  ASSUME NEW k \in Orders, k + 1 \in Orders, NEW e \in Nat, e % 2^(k + 1) = 0,
         BuddyOf(e, k) # Null
  PROVE  BuddyOf(e, k) = e + 2^k
<1> DEFINE b == BuddyOf(e, k)
<1>1. e % 2^k = 0
  BY AlignedToHalf
<1>2. /\ b \in Nat
      /\ \/ b = e + 2^k
         \/ e = b + 2^k /\ b % 2^(k + 1) = 0
  BY <1>1, BuddyIs
<1> HIDE DEF b
<1>3. 2^k \in Nat \ {0} /\ 2^(k + 1) = 2 * 2^k
  BY Powers, BuddyAssumption DEF Orders
<1>4. CASE e = b + 2^k /\ b % 2^(k + 1) = 0
  <2>1. \/ b + 2^(k + 1) <= e
        \/ e + 2^(k + 1) <= b
        \/ e <= b
    <3>1. k + 1 <= k + 1
      BY DEF Orders
    <3> QED
      BY <1>2, <1>4, <3>1, Nested
  <2> QED
    BY <1>2, <1>3, <1>4, <2>1
<1> QED
  BY <1>2, <1>4 DEF b

\* A block of the largest order has no buddy in the range.
LEMMA LargestHasNoBuddy ==
  ASSUME NEW e \in Entries
  PROVE  BuddyOf(e, MaxOrder) = Null
<1> DEFINE D == 2^MaxOrder
<1>1. D \in Nat \ {0} /\ NumPages < D /\ e \in 0 .. D - 1
  BY Powers, OrderAssumption, BuddyAssumption DEF Entries
<1>2. (0 * D + e) \div D = 0
  <2> HIDE DEF D
  <2> QED
    BY <1>1, Quotient
<1>3. e \div D = 0
  <2> HIDE DEF D
  <2>1. 0 * D + e = e
    BY <1>1
  <2> QED
    BY <1>2, <2>1
<1>4. BuddyOf(e, MaxOrder) = IF e + D \in Entries THEN e + D ELSE Null
  BY <1>3 DEF BuddyOf
<1> HIDE DEF D
<1>5. e + D \notin Entries
  BY <1>1, BuddyAssumption DEF Entries
<1> QED
  BY <1>4, <1>5

LEMMA LimitIsEven ==
  /\ Catalogued \in Nat /\ Catalogued <= Limit /\ Limit <= NumPages
  /\ \E n \in Nat : Limit = 2 * n
<1> DEFINE C == Catalogued
<1>1. C \in Nat
  BY BuddyAssumption DEF Catalogued
<1>2. PICK n \in Nat : C + (C % 2) = 2 * n
  <2> HIDE DEF C
  <2>1. C \div 2 \in Nat /\ C % 2 \in 0 .. 1 /\ C = (C \div 2) * 2 + (C % 2)
    BY <1>1, DivMod
  <2>2. C + (C % 2) = 2 * ((C \div 2) + (C % 2)) /\ (C \div 2) + (C % 2) \in Nat
    BY <1>1, <2>1
  <2> QED
    BY <2>2
<1>3. CASE \E k \in Orders : NumPages = 2^k
  <2>1. C = NumPages - 1
    BY <1>3 DEF Catalogued
  <2>2. PICK k \in Orders : NumPages = 2^k
    BY <1>3
  <2>3. k # 0 => NumPages % 2 = 0
    <3>1. k # 0 => k - 1 \in 0 .. MaxOrder /\ k - 1 + 1 = k
      BY BuddyAssumption DEF Orders
    <3>2. k # 0 => 2^k = 2 * 2^(k - 1) /\ 2^(k - 1) \in Nat
      BY <3>1, Powers, BuddyAssumption
    <3> QED
      BY <2>2, <3>2, BuddyAssumption
  <2>4. k = 0 => NumPages = 1
    BY <2>2, Powers
  <2> HIDE DEF C
  <2>5. C + (C % 2) <= NumPages
    BY <2>1, <2>3, <2>4, BuddyAssumption
  <2> QED
    BY <1>1, <1>2, <2>5 DEF C, Limit
<1>4. CASE ~\E k \in Orders : NumPages = 2^k
  <2>1. C = NumPages - (NumPages % 2)
    BY <1>4 DEF Catalogued
  <2> HIDE DEF C
  <2>2. C % 2 = 0 /\ C <= NumPages
    BY <2>1, BuddyAssumption
  <2> QED
    BY <1>1, <1>2, <2>2 DEF C, Limit
<1> QED
  BY <1>3, <1>4

\* What is known of each block.
LEMMA BlockIs ==
  ASSUME NEW b, Aligned(b)
  PROVE  /\ b[1] \in Nat /\ b[2] \in Orders /\ b = <<b[1], b[2]>>
         /\ End(b) \in Nat /\ b[1] < End(b)
<1>1. b[1] \in Nat /\ b[2] \in Orders /\ b = <<b[1], b[2]>>
  BY DEF Aligned
<1>2. 2^b[2] \in Nat \ {0}
  BY <1>1, Powers, BuddyAssumption DEF Orders
<1> QED
  BY <1>1, <1>2 DEF End

\* Splitting a block covers the same pages.
LEMMA SplitTiled ==
  ASSUME NEW S, Tiled(S), NEW k \in Orders, k + 1 \in Orders,
         NEW e \in Nat, <<e, k + 1>> \in S
  PROVE  LET T == (S \ {<<e, k + 1>>}) \cup {<<e, k>>, <<e + 2^k, k>>}
         IN  Tiled(T) /\ \A p \in Nat : CoveredBy(T, p) <=> CoveredBy(S, p)
<1> DEFINE D == 2^k
           a == <<e, k + 1>>
           l == <<e, k>>
           u == <<e + D, k>>
           T == (S \ {a}) \cup {l, u}
<1>1. D \in Nat \ {0} /\ 2^(k + 1) = 2 * D
  BY Powers, BuddyAssumption DEF Orders
<1>2. e % 2^(k + 1) = 0 /\ e + 2 * D <= Limit
  BY <1>1 DEF Tiled, Aligned, End
<1>3. e % D = 0
  BY <1>2, AlignedToHalf
<1>4. (e + D) % D = 0
  <2>1. e \div D \in Nat /\ e = (e \div D) * D
    BY <1>3, AlignedIs
  <2> DEFINE q == e \div D
  <2>2. q \in Nat /\ e = q * D
    BY <2>1
  <2> HIDE DEF D, q
  <2>3. e + D = (q + 1) * D
    BY <1>1, <2>2
  <2> QED
    BY <1>1, <2>2, <2>3, Multiple
<1>5. End(a) = e + 2 * D /\ End(l) = e + D /\ End(u) = e + 2 * D
  <2>1. a[1] = e /\ a[2] = k + 1 /\ l[1] = e /\ l[2] = k /\ u[1] = e + D /\ u[2] = k
    OBVIOUS
  <2> HIDE DEF a, l, u
  <2>2. End(a) = e + 2^(k + 1) /\ End(l) = e + 2^k /\ End(u) = e + D + 2^k
    BY <2>1 DEF End
  <2> QED
    BY <1>1, <2>2
<1>6. Aligned(l) /\ Aligned(u)
  BY <1>1, <1>3, <1>4 DEF Aligned
<1>7. \A b \in S : /\ Aligned(b) /\ b[1] \in Nat /\ End(b) \in Nat
                  /\ b[1] < End(b) /\ End(b) <= Limit
                  /\ \A c \in S : b # c => Beside(b, c)
  BY BlockIs DEF Tiled
<1>8. /\ a \in S /\ l \in T /\ u \in T
      /\ a[1] = e /\ l[1] = e /\ u[1] = e + D
      /\ \A b : (b \in T) <=> ((b \in S /\ b # a) \/ b = l \/ b = u)
  OBVIOUS
<1> SUFFICES Tiled(T) /\ \A p \in Nat : CoveredBy(T, p) <=> CoveredBy(S, p)
  OBVIOUS
<1> HIDE DEF D, a, l, u, T
<1>9. \A b \in T : Aligned(b) /\ End(b) <= Limit
  BY <1>1, <1>2, <1>5, <1>6, <1>7, <1>8, LimitIsEven
<1>10. \A b, c \in T : b # c => Beside(b, c)
  <2>1. Beside(l, u) /\ Beside(u, l)
    BY <1>1, <1>5, <1>8 DEF Beside
  <2>2. ASSUME NEW b \in S, b # a
        PROVE  Beside(b, l) /\ Beside(b, u) /\ Beside(l, b) /\ Beside(u, b)
    <3>1. End(b) <= e \/ e + 2 * D <= b[1]
      BY <1>5, <1>7, <1>8, <2>2 DEF Beside
    <3> QED
      BY <1>1, <1>5, <1>7, <1>8, <3>1 DEF Beside
  <2> QED
    BY <1>7, <1>8, <2>1, <2>2
<1>11. ASSUME NEW p \in Nat PROVE CoveredBy(T, p) <=> CoveredBy(S, p)
  <2>1. Covers(a, p) <=> (Covers(l, p) \/ Covers(u, p))
    BY <1>1, <1>5, <1>8 DEF Covers
  <2> QED
    BY <1>8, <2>1 DEF CoveredBy
<1> QED
  BY <1>9, <1>10, <1>11 DEF Tiled

\* A block with the page of its buddy's entry, other than the block itself, starts there.
LEMMA BuddyOwner ==
  ASSUME NEW S, Tiled(S), NEW k \in Orders, NEW e \in Nat, <<e, k>> \in S,
         BuddyOf(e, k) # Null, NEW c \in S, c # <<e, k>>, Covers(c, BuddyOf(e, k))
  PROVE  c[1] = BuddyOf(e, k)
<1> DEFINE a == <<e, k>>
           b == BuddyOf(e, k)
           f == c[1]
           j == c[2]
           D == 2^k
           E == 2^(k + 1)
           F == 2^j
<1>1. /\ D \in Nat \ {0} /\ E = 2 * D
      /\ a[1] = e /\ End(a) = e + D
  BY Powers, BuddyAssumption DEF Orders, End
<1>2. /\ f \in Nat /\ j \in Orders /\ f % F = 0 /\ F \in Nat \ {0}
      /\ f <= b /\ b < f + F
      /\ Beside(c, a) /\ End(c) = f + F
  <2>1. Aligned(c) /\ Beside(c, a)
    BY DEF Tiled
  <2>2. f \in Nat /\ j \in Orders /\ f % F = 0
    BY <2>1 DEF Aligned
  <2> QED
    BY <2>1, <2>2, Powers, BuddyAssumption DEF Covers, End, Orders
<1>3. e % D = 0
  BY DEF Tiled, Aligned
<1>4. /\ b \in Nat /\ b % D = 0
      /\ \/ b = e + D /\ e % E = 0
         \/ e = b + D /\ b % E = 0
  BY <1>3, BuddyIs
<1>5. CASE j <= k
  <2>1. f + F <= b \/ b + D <= f \/ b <= f
    <3> HIDE DEF b, f, j
    <3> QED
      BY <1>2, <1>4, <1>5, Nested
  <2> HIDE DEF b, f, F, D
  <2> QED
    BY <1>1, <1>2, <1>4, <2>1 DEF f, b
<1>6. CASE k < j
  <2> DEFINE l == IF b = e + D THEN e ELSE b
  <2>1. l \in Nat /\ l % E = 0 /\ l <= e /\ l <= b /\ e < l + E /\ b < l + E
    <3> HIDE DEF b, D, E
    <3> QED
      BY <1>1, <1>4
  <2>2. k + 1 \in Orders /\ k + 1 <= j
    BY <1>2, <1>6, BuddyAssumption DEF Orders
  <2>3. \/ l + E <= f
        \/ f + F <= l
        \/ f <= l /\ l + E <= f + F
    <3> HIDE DEF l, f, j
    <3> QED
      BY <1>2, <2>1, <2>2, Nested
  <2>4. f + F <= e \/ e + D <= f
    BY <1>1, <1>2 DEF Beside
  <2>5. E \in Nat
    BY <1>1
  <2> HIDE DEF l, f, j, b, D, E, F
  <2> QED
    BY <1>1, <1>2, <1>4, <2>1, <2>3, <2>4, <2>5
<1> QED
  BY <1>2, <1>5, <1>6 DEF Orders

\* Merging a block with its buddy, which is a block or, for a block of one page, a page
\* in no block, covers at least the same pages.
LEMMA MergeTiled ==
  ASSUME NEW S, Tiled(S), NEW k \in Orders, k + 1 \in Orders, NEW e \in Nat,
         <<e, k>> \in S, BuddyOf(e, k) # Null,
         \/ <<BuddyOf(e, k), k>> \in S
         \/ k = 0 /\ ~CoveredBy(S, BuddyOf(e, k))
  PROVE  LET b == BuddyOf(e, k)
             l == Lower(e, b)
             T == (S \ {<<e, k>>, <<b, k>>}) \cup {<<l, k + 1>>}
         IN  /\ Tiled(T)
             /\ \A p \in Nat : CoveredBy(S, p) => CoveredBy(T, p)
             /\ l \in Nat /\ CoveredBy(T, e) /\ CoveredBy(T, b)
<1> DEFINE D == 2^k
           E == 2^(k + 1)
           b == BuddyOf(e, k)
           l == Lower(e, b)
           v == <<e, k>>
           w == <<b, k>>
           a == <<l, k + 1>>
           T == (S \ {v, w}) \cup {a}
<1>1. D \in Nat \ {0} /\ E = 2 * D /\ E \in Nat
  BY Powers, BuddyAssumption DEF Orders
<1>2. v \in S /\ a \in T /\ \A c : (c \in T) <=> ((c \in S /\ c # v /\ c # w) \/ c = a)
  OBVIOUS
<1>3. /\ v[1] = e /\ w[1] = b /\ a[1] = l
      /\ End(v) = e + D /\ End(w) = b + D /\ End(a) = l + E
  BY DEF End
<1>4. e % D = 0
  BY DEF Tiled, Aligned
<1>5. /\ b \in Nat
      /\ \/ b = e + D /\ e % E = 0
         \/ e = b + D /\ b % E = 0
  BY <1>4, BuddyIs
<1>6. /\ l \in Nat /\ l % E = 0
      /\ (l = e /\ b = l + D) \/ (l = b /\ e = l + D)
  <2>1. (e < b => l = e) /\ (~(e < b) => l = b)
    BY DEF Lower
  <2> HIDE DEF b, l, D, E
  <2> QED
    BY <1>1, <1>5, <2>1
<1>7. \A c \in S : /\ Aligned(c) /\ c[1] \in Nat /\ End(c) \in Nat
                  /\ c[1] < End(c) /\ End(c) <= Limit
                  /\ \A d \in S : c # d => Beside(c, d)
  BY BlockIs DEF Tiled
<1>8. w \in S \/ (D = 1 /\ \A c \in S : ~Covers(c, b))
  BY Powers DEF CoveredBy
<1>9. Aligned(a)
  BY <1>6 DEF Aligned
<1> SUFFICES /\ Tiled(T)
             /\ \A p \in Nat : CoveredBy(S, p) => CoveredBy(T, p)
             /\ l \in Nat /\ CoveredBy(T, e) /\ CoveredBy(T, b)
  OBVIOUS
<1> HIDE DEF D, E, b, l, v, w, a, T
<1>10. End(a) <= Limit
  <2>1. CASE w \in S
    <3>1. e + D <= Limit /\ b + D <= Limit
      BY <1>2, <1>3, <1>7, <2>1
    <3> QED
      BY <1>1, <1>3, <1>6, <3>1
  <2>2. CASE D = 1
    <3>1. e + 1 <= Limit
      BY <1>2, <1>3, <1>7, <2>2
    <3>2. l \div E \in Nat /\ l = (l \div E) * E /\ E = 2
      <4>1. E \in Nat \ {0} /\ l \in Nat
        BY <1>1, <1>6
      <4>2. l = (l \div E) * E + (l % E) /\ l \div E \in Nat
        BY <4>1, DivMod
      <4> QED
        BY <1>1, <1>6, <2>2, <4>2
    <3>3. l < Limit
      BY <1>6, <2>2, <3>1, LimitIsEven
    <3> QED
      BY <1>3, <1>6, <3>2, <3>3, LimitIsEven
  <2> QED
    BY <1>8, <2>1, <2>2
<1>11. ASSUME NEW c \in S, c # v, c # w PROVE Beside(c, a) /\ Beside(a, c)
  <2>1. End(c) <= e \/ e + D <= c[1]
    BY <1>2, <1>3, <1>7, <1>11 DEF Beside
  <2>2. End(c) <= b \/ b + D <= c[1]
    <3>1. CASE w \in S
      BY <1>3, <1>7, <1>11, <3>1 DEF Beside
    <3>2. CASE D = 1 /\ ~Covers(c, b)
      BY <1>5, <1>7, <3>2 DEF Covers
    <3> QED
      BY <1>8, <3>1, <3>2
  <2>3. End(c) <= l \/ l + E <= c[1]
    BY <1>1, <1>5, <1>6, <1>7, <2>1, <2>2
  <2> QED
    BY <1>3, <2>3 DEF Beside
<1>12. Tiled(T)
  BY <1>2, <1>7, <1>9, <1>10, <1>11 DEF Tiled
<1>13. Covers(a, e) /\ Covers(a, b)
  BY <1>1, <1>3, <1>5, <1>6 DEF Covers
<1>14. ASSUME NEW p \in Nat, CoveredBy(S, p) PROVE CoveredBy(T, p)
  <2>1. Covers(v, p) \/ Covers(w, p) => Covers(a, p)
    BY <1>1, <1>3, <1>5, <1>6 DEF Covers
  <2> QED
    BY <1>2, <1>14, <2>1 DEF CoveredBy
<1> QED
  BY <1>2, <1>6, <1>12, <1>13, <1>14 DEF CoveredBy

------------------------------------------------------------------------------
(* The free lists.                                                              *)

Maps == [forward : [Entries -> Pointer], backward : [Entries -> Pointer],
         order : [Entries -> -1 .. MaxOrder], free : [Entries -> BOOLEAN],
         head : [Orders -> Pointer]]

\* An entry that is on no list is the head of none.
LEMMA UnlistedIsNoHead ==
  ASSUME NEW m \in Maps, WellLinked(m), NEW e \in Entries, ~Listed(m, e)
  PROVE  /\ m.backward[e] = Null
         /\ \A k \in Orders : m.head[k] # e
         /\ \A x \in Entries : m.backward[x] # e
         /\ \A x \in Entries : Listed(m, x) => m.forward[x] # e
<1>1. m.backward[e] = Null
  BY DEF Listed
<1>2. e # Null
  BY BuddyAssumption DEF Entries
<1>3. ASSUME NEW k \in Orders PROVE m.head[k] # e
  BY <1>2 DEF WellLinked, Listed
<1>4. ASSUME NEW x \in Entries PROVE m.backward[x] # e
  BY <1>2 DEF WellLinked
<1>5. ASSUME NEW x \in Entries, Listed(m, x) PROVE m.forward[x] # e
  <2>1. x # Null
    BY BuddyAssumption DEF Entries
  <2> QED
    BY <1>1, <1>2, <1>5, <2>1 DEF WellLinked
<1> QED
  BY <1>1, <1>3, <1>4, <1>5

\* PushFront puts an entry that is on no list on the list of its new order.
LEMMA PushFrontLinks ==
  ASSUME NEW m \in Maps, NEW k \in Orders, NEW e \in Entries
  PROVE  LET d == PushFront(m, k, e)
         IN  /\ d \in Maps /\ d.free = m.free
             /\ d.order = [m.order EXCEPT ![e] = k]
             /\ WellLinked(m) /\ ~Listed(m, e) =>
                  /\ WellLinked(d)
                  /\ \A x \in Entries : Listed(d, x) <=> (Listed(m, x) \/ x = e)
<1> DEFINE d == PushFront(m, k, e)
           h == m.head[k]
<1>1. /\ h \in Pointer /\ e # Null /\ Null \notin Entries /\ k \in -1 .. MaxOrder
  BY BuddyAssumption DEF Maps, Entries, Pointer, Orders
<1>2. /\ d.order = [m.order EXCEPT ![e] = k] /\ d.free = m.free
      /\ d.forward = [m.forward EXCEPT ![e] = h]
      /\ d.backward = IF h = Null THEN m.backward ELSE [m.backward EXCEPT ![h] = e]
      /\ d.head = [m.head EXCEPT ![k] = e]
  BY DEF PushFront, Store, Maps
<1>3. d \in Maps
  BY <1>1 DEF PushFront, Store, Maps, Pointer
<1> SUFFICES ASSUME WellLinked(m), ~Listed(m, e)
             PROVE  /\ WellLinked(d)
                    /\ \A x \in Entries : Listed(d, x) <=> (Listed(m, x) \/ x = e)
  BY <1>2, <1>3
<1>4. /\ m.backward[e] = Null
      /\ \A j \in Orders : m.head[j] # e
      /\ \A x \in Entries : m.backward[x] # e
      /\ \A x \in Entries : Listed(m, x) => m.forward[x] # e
  BY UnlistedIsNoHead
<1>5. h # Null => h \in Entries /\ m.order[h] = k /\ m.backward[h] = Null /\ h # e
  BY <1>1, <1>4 DEF WellLinked, Pointer
<1> HIDE DEF d, h
<1>6. \A x \in Entries : /\ x # e => d.order[x] = m.order[x] /\ d.forward[x] = m.forward[x]
                        /\ d.backward[x] = IF x = h THEN e ELSE m.backward[x]
  BY <1>1, <1>2 DEF Maps
<1>7. d.order[e] = k /\ d.forward[e] = h /\ d.backward[e] = Null /\ d.head[k] = e
  BY <1>1, <1>2, <1>4, <1>5 DEF Maps
<1>8. \A j \in Orders : j # k => d.head[j] = m.head[j]
  BY <1>2 DEF Maps
<1>9. ASSUME NEW x \in Entries PROVE Listed(d, x) <=> (Listed(m, x) \/ x = e)
  <2>1. CASE x = e
    BY <1>7, <2>1 DEF Listed
  <2>2. CASE x = h /\ x # e
    BY <1>1, <1>5, <1>6, <1>7, <2>2 DEF Listed, h
  <2>3. CASE x # h /\ x # e
    <3>1. m.head[k] = h
      BY DEF h
    <3>2. \A j \in Orders : d.head[j] = x <=> m.head[j] = x
      BY <1>7, <1>8, <2>3, <3>1
    <3> QED
      BY <1>6, <2>3, <3>2 DEF Listed
  <2> QED
    BY <2>1, <2>2, <2>3
<1>10. ASSUME NEW j \in Orders, d.head[j] # Null
       PROVE  d.order[d.head[j]] = j /\ d.backward[d.head[j]] = Null
  <2>1. CASE j = k
    BY <1>7, <2>1
  <2>2. CASE j # k
    <3>1. d.head[j] = m.head[j] /\ m.head[j] \in Entries
      BY <1>8, <1>10, <2>2 DEF Maps, Pointer
    <3>2. m.order[m.head[j]] = j /\ m.backward[m.head[j]] = Null /\ m.head[j] # e /\ m.head[j] # h
      BY <1>4, <1>5, <1>10, <2>2, <3>1 DEF WellLinked
    <3> QED
      BY <1>6, <3>1, <3>2
  <2> QED
    BY <2>1, <2>2
<1>11. ASSUME NEW x \in Entries, d.backward[x] # Null
       PROVE  /\ d.forward[d.backward[x]] = x
              /\ d.order[d.backward[x]] = d.order[x]
              /\ Listed(d, d.backward[x])
  <2>1. x # e
    BY <1>7, <1>11
  <2>2. CASE x = h
    BY <1>1, <1>5, <1>6, <1>7, <1>9, <2>1, <2>2
  <2>3. CASE x # h
    <3> DEFINE b == m.backward[x]
    <3>1. d.backward[x] = b /\ b # e /\ b \in Entries
      BY <1>4, <1>6, <1>11, <2>3 DEF Maps, Pointer
    <3>2. m.forward[b] = x /\ m.order[b] = m.order[x] /\ Listed(m, b)
      BY <1>11, <3>1 DEF WellLinked
    <3> QED
      BY <1>6, <1>9, <2>1, <3>1, <3>2
  <2> QED
    BY <2>2, <2>3
<1>12. ASSUME NEW x \in Entries, Listed(d, x), d.forward[x] # Null
       PROVE  d.backward[d.forward[x]] = x
  <2>1. CASE x = e
    BY <1>5, <1>6, <1>7, <1>12, <2>1
  <2>2. CASE x # e
    <3> DEFINE f == m.forward[x]
    <3>1. d.forward[x] = f /\ f \in Entries /\ Listed(m, x)
      BY <1>6, <1>9, <1>12, <2>2 DEF Maps, Pointer
    <3>2. m.backward[f] = x
      BY <1>12, <3>1 DEF WellLinked
    <3>3. f # h
      BY <1>1, <1>5, <3>1, <3>2
    <3> QED
      BY <1>6, <3>1, <3>2, <3>3
  <2> QED
    BY <2>1, <2>2
<1> QED
  BY <1>9, <1>10, <1>11, <1>12 DEF WellLinked

\* PopFront takes the head off its list.
LEMMA PopFrontLinks ==
  ASSUME NEW m \in Maps, NEW k \in Orders, m.head[k] # Null
  PROVE  LET d == PopFront(m, k)
         IN  /\ d \in Maps /\ d.free = m.free /\ d.order = m.order
             /\ WellLinked(m) =>
                  /\ WellLinked(d)
                  /\ m.order[m.head[k]] = k /\ Listed(m, m.head[k])
                  /\ \A x \in Entries : Listed(d, x) <=> (Listed(m, x) /\ x # m.head[k])
<1> DEFINE d == PopFront(m, k)
           h == m.head[k]
           f == m.forward[h]
<1>1. h \in Entries /\ f \in Pointer /\ Null \notin Entries
  BY BuddyAssumption DEF Maps, Entries, Pointer
<1>2. /\ d.order = m.order /\ d.free = m.free /\ d.forward = m.forward
      /\ d.backward = IF f = Null THEN m.backward ELSE [m.backward EXCEPT ![f] = Null]
      /\ d.head = [m.head EXCEPT ![k] = f]
  BY DEF PopFront, Store, Maps
<1>3. d \in Maps
  BY <1>1 DEF PopFront, Store, Maps, Pointer
<1> SUFFICES ASSUME WellLinked(m)
             PROVE  /\ WellLinked(d) /\ m.order[h] = k /\ Listed(m, h)
                    /\ \A x \in Entries : Listed(d, x) <=> (Listed(m, x) /\ x # h)
  BY <1>2, <1>3
<1>4. m.order[h] = k /\ m.backward[h] = Null /\ Listed(m, h)
  BY DEF WellLinked, Listed
<1>5. f # Null => f \in Entries /\ m.backward[f] = h /\ m.order[f] = k /\ f # h
  BY <1>1, <1>4 DEF WellLinked, Pointer
<1> HIDE DEF d, h, f
<1>6. \A x \in Entries : /\ d.order[x] = m.order[x] /\ d.forward[x] = m.forward[x]
                        /\ d.backward[x] = IF x = f THEN Null ELSE m.backward[x]
  BY <1>1, <1>2 DEF Maps
<1>7. d.head[k] = f /\ \A j \in Orders : j # k => d.head[j] = m.head[j]
  BY <1>2 DEF Maps
<1>8. \A x \in Entries : m.backward[x] = h => x = f
  BY <1>1 DEF WellLinked, f
<1>9. ASSUME NEW x \in Entries PROVE Listed(d, x) <=> (Listed(m, x) /\ x # h)
  <2>1. CASE x = f
    BY <1>1, <1>5, <1>6, <1>7, <2>1 DEF Listed
  <2>2. CASE x = h
    BY <1>1, <1>4, <1>5, <1>6, <1>7, <2>2 DEF Listed
  <2>3. CASE x # f /\ x # h
    BY <1>6, <1>7, <2>3 DEF Listed, h
  <2> QED
    BY <2>1, <2>2, <2>3
<1>10. ASSUME NEW j \in Orders, d.head[j] # Null
       PROVE  d.order[d.head[j]] = j /\ d.backward[d.head[j]] = Null
  <2>1. CASE j = k
    BY <1>1, <1>5, <1>6, <1>7, <1>10, <2>1
  <2>2. CASE j # k
    <3>1. d.head[j] = m.head[j] /\ m.head[j] \in Entries
      BY <1>7, <1>10, <2>2 DEF Maps, Pointer
    <3>2. m.order[m.head[j]] = j /\ m.backward[m.head[j]] = Null
      BY <1>10, <3>1 DEF WellLinked
    <3> QED
      BY <1>6, <3>1, <3>2
  <2> QED
    BY <2>1, <2>2
<1>11. ASSUME NEW x \in Entries, d.backward[x] # Null
       PROVE  /\ d.forward[d.backward[x]] = x
              /\ d.order[d.backward[x]] = d.order[x]
              /\ Listed(d, d.backward[x])
  <2> DEFINE b == m.backward[x]
  <2>1. x # f /\ d.backward[x] = b /\ b \in Entries /\ b # h
    BY <1>6, <1>8, <1>11 DEF Maps, Pointer
  <2>2. m.forward[b] = x /\ m.order[b] = m.order[x] /\ Listed(m, b)
    BY <1>11, <2>1 DEF WellLinked
  <2> QED
    BY <1>6, <1>9, <2>1, <2>2
<1>12. ASSUME NEW x \in Entries, Listed(d, x), d.forward[x] # Null
       PROVE  d.backward[d.forward[x]] = x
  <2> DEFINE g == m.forward[x]
  <2>1. d.forward[x] = g /\ g \in Entries /\ Listed(m, x) /\ x # h
    BY <1>6, <1>9, <1>12 DEF Maps, Pointer
  <2>2. m.backward[g] = x
    BY <1>12, <2>1 DEF WellLinked
  <2>3. g # f
    BY <1>5, <2>1, <2>2, <1>1
  <2> QED
    BY <1>6, <2>1, <2>2, <2>3
<1> QED
  BY <1>4, <1>9, <1>10, <1>11, <1>12 DEF WellLinked

\* Other orders or marks for entries that are on no list.
LEMMA RelabelLinks ==
  ASSUME NEW m \in Maps, WellLinked(m), NEW d \in Maps,
         d.forward = m.forward, d.backward = m.backward, d.head = m.head,
         \A x \in Entries : Listed(m, x) => d.order[x] = m.order[x]
  PROVE  WellLinked(d) /\ \A x \in Entries : Listed(d, x) <=> Listed(m, x)
<1>1. \A x \in Entries : ~Listed(m, x) => /\ m.backward[x] = Null
                                         /\ \A j \in Orders : m.head[j] # x
  BY UnlistedIsNoHead
<1>2. ASSUME NEW x \in Entries PROVE Listed(d, x) <=> Listed(m, x)
  BY <1>1 DEF Listed
<1>3. ASSUME NEW j \in Orders, d.head[j] # Null
      PROVE  d.order[d.head[j]] = j /\ d.backward[d.head[j]] = Null
  <2>1. m.head[j] \in Entries /\ Listed(m, m.head[j])
    BY <1>1, <1>3 DEF Maps, Pointer
  <2> QED
    BY <1>3, <2>1 DEF WellLinked
<1>4. ASSUME NEW x \in Entries, d.backward[x] # Null
      PROVE  /\ d.forward[d.backward[x]] = x
             /\ d.order[d.backward[x]] = d.order[x]
             /\ Listed(d, d.backward[x])
  <2>1. m.backward[x] \in Entries /\ Listed(m, x) /\ Listed(m, m.backward[x])
    BY <1>4 DEF Maps, Pointer, Listed, WellLinked
  <2> QED
    BY <1>2, <1>4, <2>1 DEF WellLinked
<1>5. ASSUME NEW x \in Entries, Listed(d, x), d.forward[x] # Null
      PROVE  d.backward[d.forward[x]] = x
  BY <1>2, <1>5 DEF WellLinked
<1> QED
  BY <1>2, <1>3, <1>4, <1>5 DEF WellLinked

\* Remove takes an entry off its list, and does nothing to the lists if the entry is on
\* none and its forward_ clears no link.
LEMMA RemoveLinks ==
  ASSUME NEW m \in Maps, NEW e \in Entries
  PROVE  LET d == Remove(m, e)
         IN  /\ d \in Maps /\ d.free = m.free /\ d.order = m.order
             /\ WellLinked(m) /\ ~StaleLink(m, e) =>
                  /\ WellLinked(d)
                  /\ \A x \in Entries : Listed(d, x) <=> (Listed(m, x) /\ x # e)
<1> DEFINE d == Remove(m, e)
           f == m.forward[e]
           b == m.backward[e]
           k == m.order[e]
           bw == IF f = Null THEN m.backward ELSE [m.backward EXCEPT ![f] = b]
           fw == IF b = Null THEN m.forward ELSE [m.forward EXCEPT ![b] = f]
<1>1. f \in Pointer /\ b \in Pointer /\ k \in -1 .. MaxOrder /\ Null \notin Entries
  BY BuddyAssumption DEF Maps, Entries
<1>2. /\ d.order = m.order /\ d.free = m.free
      /\ d.backward = [bw EXCEPT ![e] = Null]
      /\ d.forward = [fw EXCEPT ![e] = Null]
      /\ d.head = IF k \in Orders /\ m.head[k] = e THEN [m.head EXCEPT ![k] = f] ELSE m.head
  BY DEF Remove, Store, Maps
<1>3. bw \in [Entries -> Pointer] /\ fw \in [Entries -> Pointer]
  BY <1>1 DEF Maps, Pointer
<1>4. d \in Maps
  <2>1. /\ d.backward \in [Entries -> Pointer] /\ d.forward \in [Entries -> Pointer]
        /\ d.head \in [Orders -> Pointer]
    <3> HIDE DEF d, f, bw, fw
    <3> QED
      BY <1>1, <1>2, <1>3 DEF Maps, Pointer
  <2>2. d = [m EXCEPT !.backward = d.backward, !.forward = d.forward, !.head = d.head]
    BY DEF Remove, Maps
  <2> HIDE DEF d
  <2> QED
    BY <2>1, <2>2 DEF Maps
<1> SUFFICES ASSUME WellLinked(m), ~StaleLink(m, e)
             PROVE  /\ WellLinked(d)
                    /\ \A x \in Entries : Listed(d, x) <=> (Listed(m, x) /\ x # e)
  BY <1>2, <1>4
<1>5. \A x \in Entries :
        /\ d.backward[x] = IF x = e THEN Null ELSE IF x = f THEN b ELSE m.backward[x]
        /\ d.forward[x] = IF x = e THEN Null ELSE IF x = b THEN f ELSE m.forward[x]
  <2>1. \A x \in Entries : bw[x] = IF x = f THEN b ELSE m.backward[x]
    BY <1>1 DEF Maps, Pointer
  <2>2. \A x \in Entries : fw[x] = IF x = b THEN f ELSE m.forward[x]
    BY <1>1 DEF Maps, Pointer
  <2> HIDE DEF d, f, b, bw, fw
  <2> QED
    BY <1>2, <1>3, <2>1, <2>2
<1>6. \A j \in Orders : d.head[j] = IF j = k /\ m.head[k] = e THEN f ELSE m.head[j]
  BY DEF Remove, Maps
<1>7. CASE Listed(m, e)
  <2>1. f # Null => f \in Entries /\ m.backward[f] = e /\ m.order[f] = k /\ Listed(m, f)
    BY <1>1, <1>7 DEF WellLinked, Pointer, Listed
  <2>2. b # Null => b \in Entries /\ m.forward[b] = e /\ m.order[b] = k /\ Listed(m, b)
    BY <1>1 DEF WellLinked, Pointer
  <2>3. b = Null => k \in Orders /\ m.head[k] = e
    BY <1>7 DEF Listed
  <2>4. \A j \in Orders : m.head[j] = e => j = k /\ b = Null
    BY <1>1 DEF WellLinked
  <2>5. f = e => b = e
    BY <1>1, <2>1
  <2>6. \A x \in Entries : Listed(m, x) /\ x # e => m.forward[x] # e \/ x = b
    BY <1>1 DEF WellLinked
  <2>7. \A x \in Entries : m.backward[x] = e => x = f
    BY <1>1 DEF WellLinked
  <2> HIDE DEF d, f, b, k
  <2>8. ASSUME NEW x \in Entries PROVE Listed(d, x) <=> (Listed(m, x) /\ x # e)
    <3>1. CASE x = e
      BY <1>1, <1>2, <1>5, <1>6, <2>4, <2>5, <3>1 DEF Listed, k
    <3>2. CASE x # e /\ x = f
      BY <1>1, <1>2, <1>5, <1>6, <2>1, <2>3, <3>2 DEF Listed, k
    <3>3. CASE x # e /\ x # f
      <4>1. \A j \in Orders : d.head[j] = x <=> m.head[j] = x
        BY <1>6, <2>4, <3>3
      <4> QED
        BY <1>2, <1>5, <3>3, <4>1 DEF Listed
    <3> QED
      BY <3>1, <3>2, <3>3
  <2>9. ASSUME NEW j \in Orders, d.head[j] # Null
        PROVE  d.order[d.head[j]] = j /\ d.backward[d.head[j]] = Null
    <3>1. CASE m.head[j] = e
      BY <1>1, <1>2, <1>5, <1>6, <2>1, <2>4, <2>5, <2>9, <3>1
    <3>2. CASE m.head[j] # e
      <4>1. d.head[j] = m.head[j] /\ m.head[j] \in Entries
        BY <1>6, <2>4, <2>9, <3>2 DEF Maps, Pointer
      <4>2. m.order[m.head[j]] = j /\ m.backward[m.head[j]] = Null
        BY <2>9, <4>1 DEF WellLinked
      <4> QED
        BY <1>1, <1>2, <1>5, <2>1, <3>2, <4>1, <4>2
    <3> QED
      BY <3>1, <3>2
  <2>10. ASSUME NEW x \in Entries, d.backward[x] # Null
         PROVE  /\ d.forward[d.backward[x]] = x
                /\ d.order[d.backward[x]] = d.order[x]
                /\ Listed(d, d.backward[x])
    <3>1. x # e
      BY <1>5, <2>10
    <3>2. CASE x = f
      <4>1. d.backward[x] = b /\ b \in Entries /\ b # e
        BY <1>1, <1>5, <2>2, <2>10, <3>1, <3>2 DEF f, b
      <4> QED
        BY <1>1, <1>2, <1>5, <2>1, <2>2, <2>8, <3>1, <3>2, <4>1
    <3>3. CASE x # f
      <4> DEFINE y == m.backward[x]
      <4>1. d.backward[x] = y /\ y \in Entries /\ y # e
        BY <1>5, <2>7, <2>10, <3>1, <3>3 DEF Maps, Pointer
      <4>2. m.forward[y] = x /\ m.order[y] = m.order[x] /\ Listed(m, y)
        BY <2>10, <4>1 DEF WellLinked
      <4>3. y # b
        BY <1>1, <2>2, <3>1, <4>1, <4>2
      <4> QED
        BY <1>2, <1>5, <2>8, <4>1, <4>2, <4>3
    <3> QED
      BY <3>2, <3>3
  <2>11. ASSUME NEW x \in Entries, Listed(d, x), d.forward[x] # Null
         PROVE  d.backward[d.forward[x]] = x
    <3>1. x # e /\ Listed(m, x)
      BY <2>8, <2>11
    <3>2. CASE x = b
      BY <1>1, <1>5, <2>1, <2>5, <2>11, <3>1, <3>2
    <3>3. CASE x # b
      <4> DEFINE g == m.forward[x]
      <4>1. d.forward[x] = g /\ g \in Entries /\ g # e
        BY <1>5, <2>6, <2>11, <3>1, <3>3 DEF Maps, Pointer
      <4>2. m.backward[g] = x
        BY <2>11, <3>1, <4>1 DEF WellLinked
      <4>3. g # f
        BY <1>1, <2>1, <3>1, <4>1, <4>2
      <4> QED
        BY <1>5, <4>1, <4>2, <4>3
    <3> QED
      BY <3>2, <3>3
  <2> QED
    BY <2>8, <2>9, <2>10, <2>11 DEF WellLinked
<1>8. CASE ~Listed(m, e)
  <2>1. /\ b = Null
        /\ \A j \in Orders : m.head[j] # e
        /\ \A x \in Entries : m.backward[x] # e
        /\ \A x \in Entries : Listed(m, x) => m.forward[x] # e
    BY <1>8, UnlistedIsNoHead
  <2>2. f # Null => f \in Entries /\ m.backward[f] = Null
    BY <1>1, <1>8 DEF StaleLink, Pointer
  <2>3. \A x \in Entries : d.backward[x] = m.backward[x] /\ (x # e => d.forward[x] = m.forward[x])
    <3> HIDE DEF d, f
    <3> QED
      BY <1>1, <1>5, <2>1, <2>2
  <2>4. \A j \in Orders : d.head[j] = m.head[j]
    BY <1>6, <2>1
  <2> HIDE DEF d, f, b, k
  <2>5. ASSUME NEW x \in Entries PROVE Listed(d, x) <=> Listed(m, x)
    BY <1>2, <2>3, <2>4 DEF Listed
  <2>6. ASSUME NEW j \in Orders, d.head[j] # Null
        PROVE  d.order[d.head[j]] = j /\ d.backward[d.head[j]] = Null
    <3>1. m.head[j] \in Entries /\ m.head[j] # Null
      BY <2>4, <2>6 DEF Maps, Pointer
    <3> QED
      BY <1>2, <2>3, <2>4, <3>1 DEF WellLinked
  <2>7. ASSUME NEW x \in Entries, d.backward[x] # Null
        PROVE  /\ d.forward[d.backward[x]] = x
               /\ d.order[d.backward[x]] = d.order[x]
               /\ Listed(d, d.backward[x])
    <3>1. m.backward[x] \in Entries /\ m.backward[x] # Null
      BY <2>3, <2>7 DEF Maps, Pointer
    <3>2. Listed(m, m.backward[x]) /\ m.backward[x] # e
      BY <1>8, <3>1 DEF WellLinked
    <3> QED
      BY <1>2, <2>3, <2>5, <3>1, <3>2 DEF WellLinked
  <2>8. ASSUME NEW x \in Entries, Listed(d, x), d.forward[x] # Null
        PROVE  d.backward[d.forward[x]] = x
    <3>1. Listed(m, x) /\ x # e /\ d.forward[x] = m.forward[x] /\ m.forward[x] \in Entries
      BY <1>8, <2>3, <2>5, <2>8 DEF Maps, Pointer
    <3> QED
      BY <2>3, <2>8, <3>1 DEF WellLinked
  <2> QED
    BY <1>8, <2>5, <2>6, <2>7, <2>8 DEF WellLinked
<1> QED
  BY <1>7, <1>8

------------------------------------------------------------------------------
(* The invariant.                                                               *)

\* The entries a call works on have an order that has a list.
OrdersKnown ==
  /\ \A b \in live : lists.order[b[1]] \in Orders
  /\ pc \in {"merge", "free"} => lists.order[entry] \in Orders
  /\ old # Null => lists.order[old] \in Orders

\* The blocks on the lists, in the hands of clients and in that of the running call lie
\* side by side; each is in one place only.
Apart ==
  /\ Tiled(Blocks)
  /\ live \cap (FreeBlocks \cup InHand) = {}
  /\ pc = "split" => ~Listed(lists, entry)

\* Every page handed out is in one.
Kept == \A p \in 0 .. Catalogued - 1 : CoveredBy(Blocks, p)

\* An entry outside of all blocks, the last page of an odd range or the one behind it,
\* passes for a buddy only of a block of one page.
Unlisted == \A x \in Entries : ~CoveredBy(Blocks, x) => lists.order[x] <= 0

Marked == \A b \in live : lists.order[b[1]] = b[2] /\ ~lists.free[b[1]]

\* What the running call will give back, or merges, is a block.
Pending ==
  /\ pc = "split" /\ old # Null => <<old, lists.order[old]>> \in live
  /\ pc = "free" => <<entry, lists.order[entry]>> \in live
  /\ pc = "merge" => \/ Listed(lists, entry)
                     \/ Mergeable(lists, entry, BuddyOf(entry, lists.order[entry]))

\* Two free buddies are on lists only while one is being merged.
Merged ==
  \A e \in Entries :
    Listed(lists, e) /\ lists.free[e] =>
      LET b == BuddyOf(e, lists.order[e])
      IN  Mergeable(lists, e, b) /\ Listed(lists, b) => pc = "merge" /\ entry \in {e, b}

Sound == WellLinked(lists) /\ Apart /\ Kept /\ Unlisted /\ Marked /\ Pending /\ Merged

IInv == TypeOK /\ OrdersKnown /\ (~stale => Sound)

------------------------------------------------------------------------------
(* Types.                                                                       *)

\* The order Allocate looks for is the least whose blocks are large enough.
LEMMA CeilLog2Is ==
  ASSUME NEW s \in Sizes
  PROVE  CeilLog2(s) \in Orders /\ s <= 2^CeilLog2(s)
<1> DEFINE T == {k \in Orders : s <= 2^k}
<1>1. T \in SUBSET Nat /\ MaxOrder \in T
  BY OrderAssumption, BuddyAssumption DEF Orders
<1>2. PICK k \in T : \A j \in T : k <= j
  <2> HIDE DEF T
  <2> QED
    BY <1>1, LeastExists
<1>3. k \in Orders /\ s <= 2^k /\ \A j \in Orders : s <= 2^j => k <= j
  BY <1>2
<1> QED
  BY <1>3 DEF CeilLog2

LEMMA WordRange ==
  ASSUME NEW x \in Int
  PROVE  x % Word \in 0 .. Word - 1
BY BuddyAssumption

LEMMA SplitTypes ==
  ASSUME NEW m \in Maps, NEW e \in Entries, NEW k \in 1 .. MaxOrder, BuddyOf(e, k - 1) # Null
  PROVE  LET b == BuddyOf(e, k - 1)
             d == SetFree(Split(m, e, k), b, FALSE)
         IN  /\ b \in Entries /\ d \in Maps
             /\ d.order = [m.order EXCEPT ![e] = k - 1, ![b] = k - 1]
<1> DEFINE b == BuddyOf(e, k - 1)
           m1 == Remove(Remove(m, b), e)
           m2 == [m1 EXCEPT !.order[e] = k - 1, !.order[b] = k - 1, !.free[e] = TRUE]
           m3 == PushFront(m2, k - 1, e)
           d == SetFree(m3, b, FALSE)
<1>1. b \in Entries /\ k - 1 \in Orders /\ k - 1 \in -1 .. MaxOrder
  BY BuddyAssumption DEF BuddyOf, Orders
<1>2. m1 \in Maps /\ m1.order = m.order
  BY <1>1, RemoveLinks
<1>3. m2 \in Maps /\ m2.order = [m.order EXCEPT ![e] = k - 1, ![b] = k - 1]
  BY <1>1, <1>2 DEF Maps
<1>4. m3 \in Maps /\ m3.order = [m2.order EXCEPT ![e] = k - 1]
  <2> HIDE DEF m2
  <2> QED
    BY <1>1, <1>3, PushFrontLinks
<1>5. d \in Maps /\ d.order = m3.order
  BY <1>4 DEF Maps, SetFree
<1>6. m3.order = [m.order EXCEPT ![e] = k - 1, ![b] = k - 1]
  BY <1>1, <1>3, <1>4 DEF Maps
<1> QED
  BY <1>1, <1>5, <1>6 DEF Split

LEMMA MergeTypes ==
  ASSUME NEW m \in Maps, NEW e \in Entries, m.order[e] \in Orders,
         Mergeable(m, e, BuddyOf(e, m.order[e]))
  PROVE  LET b == BuddyOf(e, m.order[e])
             l == Lower(e, b)
             d == Merge(SetFree(m, e, TRUE), e, b)
         IN  /\ b \in Entries /\ l \in Entries /\ l \in {e, b}
             /\ m.order[l] = m.order[e] /\ m.order[e] + 1 \in Orders
             /\ d \in Maps
             /\ d.order = [m.order EXCEPT ![l] = m.order[e] + 1]
<1> DEFINE k == m.order[e]
           b == BuddyOf(e, k)
           l == Lower(e, b)
           u == Upper(e, b)
           m0 == SetFree(m, e, TRUE)
           m1 == Remove(Remove(m0, l), u)
           d == PushFront(m1, m1.order[l] + 1, l)
<1>1. b # Null /\ m.order[b] = k /\ b \in Entries
  BY DEF Mergeable, BuddyOf
<1>2. l \in {e, b} /\ u \in {e, b}
  BY DEF Lower, Upper
<1>3. l \in Entries /\ u \in Entries /\ m.order[l] = k
  <2> HIDE DEF b, l, u
  <2> QED
    BY <1>1, <1>2
<1>4. k # MaxOrder
  BY <1>1, LargestHasNoBuddy
<1>5. k + 1 \in Orders
  BY <1>4, BuddyAssumption DEF Orders
<1>6. m0 \in Maps /\ m0.order = m.order
  BY DEF Maps, SetFree
<1>7. m1 \in Maps /\ m1.order = m.order
  <2> HIDE DEF l, u, m0
  <2> QED
    BY <1>3, <1>6, RemoveLinks
<1>8. d \in Maps /\ d.order = [m.order EXCEPT ![l] = k + 1]
  <2> HIDE DEF m1, l, k
  <2> QED
    BY <1>3, <1>5, <1>7, PushFrontLinks
<1> QED
  BY <1>1, <1>2, <1>3, <1>5, <1>8 DEF Merge

LEMMA StartAllocateTypes ==
  ASSUME TypeOK, OrdersKnown, NEW s \in Sizes, NEW o \in Pointer,
         o # Null => lists.order[o] \in Orders,
         StartAllocate(s, o), UNCHANGED <<mem_in_use, live, stale>>
  PROVE  TypeOK' /\ OrdersKnown'
<1> DEFINE want == CeilLog2(s)
           fit == {k \in Orders : k >= want /\ lists.head[k] # Null}
<1>1. want \in Orders /\ 2^want \in Int
  BY CeilLog2Is, Powers, BuddyAssumption DEF Orders
<1>2. lists \in Maps /\ num_blocks \in Int /\ 0 \in Orders
  BY BuddyAssumption DEF TypeOK, Maps, Orders
<1> HIDE DEF want
<1>3. num_blocks' \in 0 .. Word - 1
  <2>1. num_blocks' = (num_blocks - 2^want) % Word
    BY DEF StartAllocate, want
  <2> QED
    BY <1>1, <1>2, <2>1, WordRange
<1>4. CASE AllocateReturns(o) /\ UNCHANGED lists
  <2>1. CASE o = Null
    BY <1>2, <1>3, <1>4, <2>1, BuddyAssumption
       DEF TypeOK, OrdersKnown, AllocateReturns, Return, Pointer
  <2>2. CASE o # Null
    BY <1>2, <1>3, <1>4, <2>2, BuddyAssumption
       DEF TypeOK, OrdersKnown, AllocateReturns, Pointer
  <2> QED
    BY <2>1, <2>2
<1>5. ASSUME NEW k \in fit, pc' = "split", entry' = lists.head[k], cur' = k,
             block_order' = want, old' = o, lists' = PopFront(lists, k)
      PROVE  TypeOK' /\ OrdersKnown'
  <2>1. k \in Orders /\ lists.head[k] # Null /\ k >= want
    OBVIOUS
  <2>2. lists' \in Maps /\ lists'.order = lists.order
    BY <1>2, <1>5, <2>1, PopFrontLinks
  <2>3. lists.head[k] \in Entries
    BY <1>2, <2>1 DEF Maps, Pointer
  <2>4. TypeOK'
    BY <1>1, <1>3, <1>5, <2>1, <2>2, <2>3 DEF TypeOK, Maps, Pointer
  <2>5. OrdersKnown'
    BY <1>5, <2>2 DEF OrdersKnown
  <2> QED
    BY <2>4, <2>5
<1> QED
  BY <1>4, <1>5 DEF StartAllocate, want

LEMMA StartFreeTypes ==
  ASSUME TypeOK, OrdersKnown, NEW p \in Entries, lists.order[p] \in Orders, StartFree(p)
  PROVE  TypeOK' /\ OrdersKnown'
<1> DEFINE k == lists.order[p]
           m == SetFree(lists, p, TRUE)
<1>1. /\ lists \in Maps /\ num_blocks \in Int /\ mem_in_use \in Int /\ 0 \in Orders
      /\ k \in Orders /\ 2^k \in Int /\ 2^(MinOrder + k) \in Int
  BY BuddyAssumption DEF TypeOK, Maps, Orders
<1>2. /\ num_blocks' = (num_blocks + 2^(MinOrder + k)) % Word
      /\ live' = live \ {<<p, k>>} /\ stale' = stale
  BY DEF StartFree
<1>3. num_blocks' \in 0 .. Word - 1
  <2> HIDE DEF k
  <2> QED
    BY <1>1, <1>2, WordRange
<1>4. m \in Maps /\ m.order = lists.order
  BY <1>1 DEF SetFree, Maps
<1>5. CASE lists' = PushFront(m, k, p) /\ mem_in_use' = (mem_in_use - 2^k) % Word /\ Return
  <2>1. mem_in_use' \in 0 .. Word - 1
    <3> HIDE DEF k
    <3> QED
      BY <1>1, <1>5, WordRange
  <2>2. lists' \in Maps /\ lists'.order = lists.order
    <3>1. lists' \in Maps /\ lists'.order = [m.order EXCEPT ![p] = k]
      <4> HIDE DEF m, k
      <4> QED
        BY <1>1, <1>4, <1>5, PushFrontLinks
    <3> QED
      BY <1>1, <1>4, <3>1 DEF Maps
  <2>3. TypeOK'
    BY <1>1, <1>2, <1>3, <1>5, <2>1, <2>2 DEF TypeOK, Maps, Return, Pointer
  <2>4. OrdersKnown'
    BY <1>2, <1>5, <2>2 DEF OrdersKnown, Return
  <2> QED
    BY <2>3, <2>4
<1>6. CASE pc' = "merge" /\ entry' = p /\ UNCHANGED <<lists, mem_in_use, cur, block_order, old>>
  <2>1. TypeOK'
    BY <1>1, <1>2, <1>3, <1>6 DEF TypeOK, Maps, Pointer
  <2>2. OrdersKnown'
    BY <1>1, <1>2, <1>6 DEF OrdersKnown
  <2> QED
    BY <2>1, <2>2
<1> QED
  BY <1>5, <1>6 DEF StartFree

LEMMA SplitStepTypes ==
  ASSUME TypeOK, OrdersKnown, SplitStep
  PROVE  TypeOK' /\ OrdersKnown'
<1> DEFINE b == BuddyOf(entry, cur - 1)
<1>1. /\ lists \in Maps /\ entry \in Entries /\ cur \in 1 .. MaxOrder /\ b # Null
      /\ cur - 1 \in Orders /\ cur - 1 >= block_order
  BY BuddyAssumption DEF TypeOK, Maps, SplitStep, Orders
<1>2. /\ b \in Entries /\ lists' \in Maps
      /\ lists'.order = [lists.order EXCEPT ![entry] = cur - 1, ![b] = cur - 1]
  BY <1>1, SplitTypes DEF SplitStep
<1>3. TypeOK'
  BY <1>1, <1>2 DEF TypeOK, Maps, SplitStep, Pointer
<1>4. \A x \in Entries : lists.order[x] \in Orders => lists'.order[x] \in Orders
  <2> HIDE DEF b
  <2> QED
    BY <1>1, <1>2 DEF Maps
<1>5. OrdersKnown'
  BY <1>1, <1>4 DEF OrdersKnown, TypeOK, SplitStep, Pointer
<1> QED
  BY <1>3, <1>5

LEMMA AllocateEndTypes ==
  ASSUME TypeOK, OrdersKnown, AllocateEnd
  PROVE  TypeOK' /\ OrdersKnown'
<1>1. /\ lists \in Maps /\ entry \in Entries /\ block_order \in Orders /\ 0 \in Orders
      /\ mem_in_use \in Int /\ 2^block_order \in Int /\ block_order \in -1 .. MaxOrder
  BY BuddyAssumption DEF TypeOK, Maps, AllocateEnd, Orders
<1>2. lists' \in Maps /\ lists'.order = [lists.order EXCEPT ![entry] = block_order]
  BY <1>1 DEF AllocateEnd, Maps
<1>3. mem_in_use' \in 0 .. Word - 1
  BY <1>1, WordRange DEF AllocateEnd
<1>4. live' = live \cup {<<entry, block_order>>} /\ live' \subseteq Entries \X Orders
  BY <1>1 DEF TypeOK, AllocateEnd
<1>5. \A x \in Entries : lists.order[x] \in Orders => lists'.order[x] \in Orders
  BY <1>1, <1>2 DEF Maps
<1>6. lists'.order[entry] \in Orders
  BY <1>1, <1>2 DEF Maps
<1>7. \A c \in live' : lists'.order[c[1]] \in Orders
  BY <1>1, <1>4, <1>5, <1>6 DEF OrdersKnown, TypeOK
<1>8. CASE old = Null
  <2>1. TypeOK'
    BY <1>1, <1>2, <1>3, <1>4, <1>8, BuddyAssumption
       DEF TypeOK, Maps, AllocateEnd, AllocateReturns, Return, Pointer
  <2>2. OrdersKnown'
    BY <1>7, <1>8 DEF OrdersKnown, AllocateEnd, AllocateReturns, Return
  <2> QED
    BY <2>1, <2>2
<1>9. CASE old # Null
  <2>1. TypeOK'
    BY <1>1, <1>2, <1>3, <1>4, <1>9, BuddyAssumption
       DEF TypeOK, Maps, AllocateEnd, AllocateReturns, Pointer
  <2>2. OrdersKnown'
    BY <1>5, <1>7, <1>9 DEF OrdersKnown, TypeOK, Pointer, AllocateEnd, AllocateReturns
  <2> QED
    BY <2>1, <2>2
<1> QED
  BY <1>8, <1>9

LEMMA MergeStepTypes ==
  ASSUME TypeOK, OrdersKnown, MergeStep
  PROVE  TypeOK' /\ OrdersKnown'
<1> DEFINE k == lists.order[entry]
           b == BuddyOf(entry, k)
           l == Lower(entry, b)
<1>1. lists \in Maps /\ entry \in Entries /\ k \in Orders /\ Mergeable(lists, entry, b)
  BY DEF TypeOK, OrdersKnown, Maps, MergeStep
<1>2. /\ l \in Entries /\ k + 1 \in Orders /\ lists' \in Maps
      /\ lists'.order = [lists.order EXCEPT ![l] = k + 1]
  BY <1>1, MergeTypes DEF MergeStep
<1>3. /\ entry' = l /\ pc = "merge"
      /\ UNCHANGED <<num_blocks, mem_in_use, live, pc, cur, block_order, old>>
      /\ stale' \in BOOLEAN
  BY DEF MergeStep, TypeOK
<1> HIDE DEF k, b, l
<1>4. TypeOK'
  BY <1>2, <1>3 DEF TypeOK, Maps, Pointer
<1>5. \A x \in Entries : lists.order[x] \in Orders \/ x = l => lists'.order[x] \in Orders
  BY <1>1, <1>2 DEF Maps
<1>6. OrdersKnown'
  BY <1>2, <1>3, <1>5 DEF OrdersKnown, TypeOK, Pointer
<1> QED
  BY <1>4, <1>6

LEMMA FreeEndTypes ==
  ASSUME TypeOK, OrdersKnown, FreeEnd
  PROVE  TypeOK' /\ OrdersKnown'
<1>1. lists.order[entry] \in Orders /\ mem_in_use \in Int /\ 0 \in Orders
  BY BuddyAssumption DEF TypeOK, OrdersKnown, FreeEnd, Orders
<1>2. 2^lists.order[entry] \in Int
  BY <1>1 DEF Orders
<1>3. mem_in_use' \in 0 .. Word - 1
  BY <1>1, <1>2, WordRange DEF FreeEnd
<1> QED
  BY <1>1, <1>3, BuddyAssumption DEF TypeOK, OrdersKnown, FreeEnd, Return, Pointer

LEMMA TypesKept ==
  ASSUME TypeOK, OrdersKnown, [Next]_vars
  PROVE  TypeOK' /\ OrdersKnown'
<1>1. ASSUME NEW s \in Sizes, Allocate(s) PROVE TypeOK' /\ OrdersKnown'
  BY <1>1, StartAllocateTypes DEF Allocate, Pointer
<1>2. ASSUME NEW b \in live PROVE b[1] \in Entries /\ b[1] \in Pointer /\ lists.order[b[1]] \in Orders
  BY DEF TypeOK, OrdersKnown, Pointer
<1>3. ASSUME NEW b \in live, Free(b[1]) PROVE TypeOK' /\ OrdersKnown'
  BY <1>2, <1>3, StartFreeTypes DEF Free
<1>4. ASSUME NEW b \in live, NEW s \in Sizes, ReallocInPlace(b[1], s) PROVE TypeOK' /\ OrdersKnown'
  <2>1. mem_in_use \in Int /\ 2^lists.order[b[1]] \in Int
    BY <1>2, BuddyAssumption DEF TypeOK, Orders
  <2>2. mem_in_use' \in 0 .. Word - 1
    BY <1>4, <2>1, WordRange DEF ReallocInPlace
  <2> QED
    BY <1>4, <2>2 DEF ReallocInPlace, call, TypeOK, OrdersKnown
<1>5. ASSUME NEW b \in live, NEW s \in Sizes, ReallocMove(b[1], s) PROVE TypeOK' /\ OrdersKnown'
  BY <1>2, <1>5, StartAllocateTypes DEF ReallocMove
<1>6. CASE ReallocFree
  BY <1>6, StartFreeTypes DEF ReallocFree, TypeOK, OrdersKnown
<1>7. CASE UNCHANGED vars
  BY <1>7 DEF vars, call, TypeOK, OrdersKnown
<1> QED
  BY <1>1, <1>3, <1>4, <1>5, <1>6, <1>7, SplitStepTypes, AllocateEndTypes, MergeStepTypes, FreeEndTypes
     DEF Next, ClientCall, Continue

------------------------------------------------------------------------------
(* Steps that keep the lists and the blocks sound.                              *)

\* Two free buddies are on the lists of m.
Twins(m, x) ==
  LET b == BuddyOf(x, m.order[x])
  IN  /\ Listed(m, x) /\ m.free[x]
      /\ Mergeable(m, x, b) /\ Listed(m, b)

LEMMA NoTwins ==
  ASSUME Merged, pc # "merge"
  PROVE  \A x \in Entries : ~Twins(lists, x)
BY DEF Merged, Twins

LEMMA NoTwinsNext ==
  ASSUME \A x \in Entries : ~Twins(lists', x)
  PROVE  Merged'
BY DEF Merged, Twins

LEMMA StartAllocateSound ==
  ASSUME TypeOK, Sound, pc = "idle", NEW s \in Sizes, NEW o \in Pointer,
         o # Null => <<o, lists.order[o]>> \in live,
         StartAllocate(s, o), live' = live
  PROVE  Sound'
<1> DEFINE want == CeilLog2(s)
           fit == {k \in Orders : k >= want /\ lists.head[k] # Null}
<1>1. lists \in Maps /\ InHand = {}
  BY DEF TypeOK, Maps, InHand
<1>2. \A x \in Entries : ~Twins(lists, x)
  BY NoTwins DEF Sound
<1>3. CASE AllocateReturns(o) /\ UNCHANGED lists
  <2>1. /\ pc' \in {"idle", "free"}
        /\ pc' = "free" => o # Null /\ entry' = o
    BY <1>3 DEF AllocateReturns, Return
  <2>2. FreeBlocks' = FreeBlocks /\ InHand' = {} /\ Blocks' = Blocks
    BY <1>1, <1>3, <2>1 DEF FreeBlocks, InHand, Blocks
  <2>3. WellLinked(lists)' /\ Kept' /\ Unlisted' /\ Marked'
    BY <1>3, <2>2 DEF Sound, Kept, Unlisted, Marked
  <2>4. Apart'
    BY <1>1, <1>3, <2>1, <2>2 DEF Sound, Apart
  <2>5. Pending'
    BY <1>3, <2>1 DEF Pending
  <2>6. Merged'
    BY <1>2, <1>3, NoTwinsNext
  <2> QED
    BY <2>3, <2>4, <2>5, <2>6 DEF Sound
<1>4. ASSUME NEW k \in fit, pc' = "split", entry' = lists.head[k], cur' = k,
             old' = o, lists' = PopFront(lists, k)
      PROVE  Sound'
  <2> DEFINE h == lists.head[k]
  <2>1. /\ k \in Orders /\ h # Null /\ h \in Entries
    BY <1>1 DEF Maps, Pointer
  <2>2. /\ lists' \in Maps /\ lists'.free = lists.free /\ lists'.order = lists.order
        /\ WellLinked(lists') /\ lists.order[h] = k /\ Listed(lists, h)
        /\ \A x \in Entries : Listed(lists', x) <=> (Listed(lists, x) /\ x # h)
    BY <1>1, <1>4, <2>1, PopFrontLinks DEF Sound
  <2> HIDE DEF h
  <2>3. /\ <<h, k>> \in FreeBlocks /\ FreeBlocks' = FreeBlocks \ {<<h, k>>}
        /\ InHand' = {<<h, k>>}
    <3>1. InHand' = {<<h, k>>}
      BY <1>4 DEF InHand, h
    <3> QED
      BY <2>1, <2>2, <3>1 DEF FreeBlocks
  <2>4. Blocks' = Blocks
    BY <1>1, <2>3 DEF Blocks
  <2>5. Apart'
    <3>1. ~Listed(lists', h)
      BY <2>1, <2>2
    <3> QED
      BY <1>1, <1>4, <2>3, <2>4, <3>1 DEF Sound, Apart, h
  <2>6. Kept' /\ Unlisted' /\ Marked'
    BY <2>2, <2>4 DEF Sound, Kept, Unlisted, Marked
  <2>7. Pending'
    BY <1>4, <2>2 DEF Pending
  <2>8. Merged'
    <3>1. ASSUME NEW x \in Entries PROVE Twins(lists', x) => Twins(lists, x)
      <4>1. BuddyOf(x, lists'.order[x]) # Null => BuddyOf(x, lists.order[x]) \in Entries
        BY <2>2 DEF BuddyOf
      <4> QED
        BY <2>2, <4>1 DEF Twins, Mergeable
    <3> QED
      BY <1>2, <3>1, NoTwinsNext
  <2> QED
    BY <2>2, <2>5, <2>6, <2>7, <2>8 DEF Sound
<1> QED
  BY <1>3, <1>4 DEF StartAllocate

LEMMA StartFreeSound ==
  ASSUME TypeOK, Sound, pc \in {"idle", "free"}, NEW p \in Entries,
         <<p, lists.order[p]>> \in live, StartFree(p)
  PROVE  Sound'
<1> DEFINE k == lists.order[p]
           v == <<p, k>>
           b == BuddyOf(p, k)
           m == SetFree(lists, p, TRUE)
<1>1. /\ lists \in Maps /\ k \in Orders /\ InHand = {} /\ Null \notin Entries
      /\ \A c \in live : c = <<c[1], c[2]>> /\ c[1] \in Entries
  BY BuddyAssumption DEF TypeOK, Maps, InHand, Entries
<1>2. live' = live \ {v} /\ v \in live
  BY DEF StartFree
<1>3. ~Listed(lists, p) /\ v \notin FreeBlocks
  BY <1>1 DEF Sound, Apart, FreeBlocks
<1>4. \A x \in Entries : ~Twins(lists, x)
  BY NoTwins DEF Sound
<1>5. \A c \in live' : c[1] # p
  BY <1>1, <1>2 DEF Sound, Marked
<1>6. CASE /\ ~Mergeable(lists, p, b)
           /\ lists' = PushFront(m, k, p)
           /\ Return
  <2>1. /\ m \in Maps /\ m.order = lists.order /\ m.forward = lists.forward
        /\ m.backward = lists.backward /\ m.head = lists.head
        /\ m.free = [lists.free EXCEPT ![p] = TRUE]
    BY <1>1 DEF SetFree, Maps
  <2>2. WellLinked(m) /\ \A x \in Entries : Listed(m, x) <=> Listed(lists, x)
    <3> HIDE DEF m
    <3> QED
      BY <1>1, <2>1, RelabelLinks DEF Sound
  <2>3. /\ lists' \in Maps /\ lists'.free = m.free /\ WellLinked(lists')
        /\ lists'.order = [m.order EXCEPT ![p] = k]
        /\ \A x \in Entries : Listed(lists', x) <=> (Listed(lists, x) \/ x = p)
    <3> HIDE DEF m, k
    <3> QED
      BY <1>1, <1>3, <1>6, <2>1, <2>2, PushFrontLinks
  <2>4. lists'.order = lists.order
    BY <1>1, <2>1, <2>3 DEF Maps
  <2>5. lists'.free[p] /\ \A x \in Entries : x # p => lists'.free[x] = lists.free[x]
    <3>1. lists'.free = [lists.free EXCEPT ![p] = TRUE] /\ lists.free \in [Entries -> BOOLEAN]
      BY <1>1, <2>1, <2>3 DEF Maps
    <3> QED
      BY Zenon, <3>1
  <2>6. FreeBlocks' = FreeBlocks \cup {v} /\ InHand' = {}
    <3>1. InHand' = {}
      BY <1>6 DEF InHand, Return
    <3> QED
      BY <2>3, <2>4, <3>1 DEF FreeBlocks
  <2>7. Blocks' = Blocks
    BY <1>1, <1>2, <2>6 DEF Blocks
  <2>8. Apart'
    BY <1>1, <1>2, <1>6, <2>6, <2>7 DEF Sound, Apart, Return
  <2>9. Kept' /\ Unlisted'
    BY <2>4, <2>7 DEF Sound, Kept, Unlisted
  <2>10. Marked'
    BY <1>1, <1>2, <1>5, <2>4, <2>5 DEF Sound, Marked
  <2>11. Pending'
    BY <1>6 DEF Pending, Return
  <2>12. Merged'
    <3> SUFFICES ASSUME NEW x \in Entries, Twins(lists', x) PROVE FALSE
      BY NoTwinsNext
    <3> DEFINE y == BuddyOf(x, lists.order[x])
    <3>1. /\ Listed(lists, x) \/ x = p
          /\ y \in Entries /\ (Listed(lists, y) \/ y = p)
          /\ lists.order[y] = lists.order[x]
          /\ lists.free[x] \/ x = p
          /\ lists.free[y] \/ y = p
      BY <2>3, <2>4, <2>5 DEF Twins, Mergeable, BuddyOf
    <3>2. <<x, lists.order[x]>> \in Blocks
      BY <1>2, <3>1 DEF Blocks, FreeBlocks
    <3>3. lists.order[x] \in Orders /\ x % 2^lists.order[x] = 0 /\ x \in Nat
      BY <3>2, BuddyAssumption DEF Sound, Apart, Tiled, Aligned
    <3>4. y # x /\ BuddyOf(y, lists.order[x]) = x
      BY <1>1, <3>1, <3>3, BuddyIs
    <3>5. CASE x = p
      BY <1>1, <1>6, <3>1, <3>4, <3>5 DEF Mergeable
    <3>6. CASE y = p
      BY <1>1, <1>6, <3>1, <3>4, <3>6 DEF Mergeable
    <3>7. CASE x # p /\ y # p
      BY <1>1, <1>4, <3>1, <3>7 DEF Twins, Mergeable
    <3> QED
      BY <3>5, <3>6, <3>7
  <2> QED
    BY <2>3, <2>8, <2>9, <2>10, <2>11, <2>12 DEF Sound
<1>7. CASE /\ Mergeable(lists, p, b)
           /\ pc' = "merge" /\ entry' = p
           /\ UNCHANGED <<lists, cur, block_order, old>>
  <2>1. FreeBlocks' = FreeBlocks /\ InHand' = {v}
    BY <1>7 DEF FreeBlocks, InHand
  <2>2. Blocks' = Blocks
    BY <1>1, <1>2, <2>1 DEF Blocks
  <2>3. Apart'
    BY <1>1, <1>2, <1>3, <1>7, <2>1, <2>2 DEF Sound, Apart
  <2>4. WellLinked(lists)' /\ Kept' /\ Unlisted' /\ Marked'
    BY <1>2, <1>7, <2>2 DEF Sound, Kept, Unlisted, Marked
  <2>5. Pending'
    BY <1>7 DEF Pending
  <2>6. Merged'
    BY <1>4, <1>7, NoTwinsNext
  <2> QED
    BY <2>3, <2>4, <2>5, <2>6 DEF Sound
<1> QED
  BY <1>6, <1>7 DEF StartFree

\* What the calls on the lists in Split do together.
LEMMA SplitLinks ==
  ASSUME NEW m \in Maps, WellLinked(m), NEW e \in Entries, NEW k \in 1 .. MaxOrder,
         BuddyOf(e, k - 1) # Null, BuddyOf(e, k - 1) # e,
         ~StaleRemoval(m, BuddyOf(e, k - 1), e)
  PROVE  LET b == BuddyOf(e, k - 1)
             d == SetFree(Split(m, e, k), b, FALSE)
         IN  /\ WellLinked(d)
             /\ \A x \in Entries : Listed(d, x) <=> ((Listed(m, x) /\ x # b) \/ x = e)
             /\ d.free = [m.free EXCEPT ![e] = TRUE, ![b] = FALSE]
<1> DEFINE b == BuddyOf(e, k - 1)
           m0 == Remove(m, b)
           m1 == Remove(m0, e)
           m2 == [m1 EXCEPT !.order[e] = k - 1, !.order[b] = k - 1, !.free[e] = TRUE]
           m3 == PushFront(m2, k - 1, e)
           d == SetFree(m3, b, FALSE)
<1>1. b \in Entries /\ k - 1 \in Orders /\ k - 1 \in -1 .. MaxOrder /\ b # e
  BY BuddyAssumption DEF BuddyOf, Orders
<1>2. ~StaleLink(m, b) /\ ~StaleLink(m0, e)
  BY DEF StaleRemoval
<1> HIDE DEF b
<1>3. /\ m0 \in Maps /\ m0.free = m.free /\ WellLinked(m0)
      /\ \A x \in Entries : Listed(m0, x) <=> (Listed(m, x) /\ x # b)
  BY <1>1, <1>2, RemoveLinks
<1> HIDE DEF m0
<1>4. /\ m1 \in Maps /\ m1.free = m.free /\ WellLinked(m1)
      /\ \A x \in Entries : Listed(m1, x) <=> (Listed(m, x) /\ x # b /\ x # e)
  BY <1>1, <1>2, <1>3, RemoveLinks
<1> HIDE DEF m1
<1>5. /\ m2 \in Maps /\ m2.free = [m.free EXCEPT ![e] = TRUE]
      /\ m2.forward = m1.forward /\ m2.backward = m1.backward /\ m2.head = m1.head
      /\ \A x \in Entries : x # e /\ x # b => m2.order[x] = m1.order[x]
  BY <1>1, <1>4 DEF Maps
<1> HIDE DEF m2
<1>6. /\ WellLinked(m2)
      /\ \A x \in Entries : Listed(m2, x) <=> (Listed(m, x) /\ x # b /\ x # e)
  BY <1>4, <1>5, RelabelLinks
<1>7. /\ m3 \in Maps /\ m3.free = m2.free /\ WellLinked(m3)
      /\ \A x \in Entries : Listed(m3, x) <=> ((Listed(m, x) /\ x # b) \/ x = e)
  <2> DEFINE j == k - 1
  <2>1. j \in Orders /\ ~Listed(m2, e)
    BY <1>1, <1>6
  <2> HIDE DEF j
  <2>2. /\ m3 \in Maps /\ m3.free = m2.free /\ WellLinked(m3)
        /\ \A x \in Entries : Listed(m3, x) <=> (Listed(m2, x) \/ x = e)
    BY <1>5, <1>6, <2>1, PushFrontLinks DEF j
  <2> HIDE DEF m3
  <2> QED
    BY <1>1, <1>6, <2>2
<1> HIDE DEF m3
<1>8. /\ d \in Maps /\ d.free = [m3.free EXCEPT ![b] = FALSE] /\ d.order = m3.order
      /\ d.forward = m3.forward /\ d.backward = m3.backward /\ d.head = m3.head
  BY <1>7 DEF SetFree, Maps
<1> HIDE DEF d
<1>9. WellLinked(d) /\ \A x \in Entries : Listed(d, x) <=> Listed(m3, x)
  BY <1>7, <1>8, RelabelLinks
<1>10. d.free = [m.free EXCEPT ![e] = TRUE, ![b] = FALSE]
  BY <1>5, <1>7, <1>8
<1> QED
  BY <1>7, <1>9, <1>10 DEF Split, b, m0, m1, m2, m3, d

LEMMA MergeLinks ==
  ASSUME NEW m \in Maps, WellLinked(m), NEW e \in Entries, NEW b \in Entries, b # e,
         m.order[Lower(e, b)] + 1 \in Orders,
         ~StaleRemoval(m, Lower(e, b), Upper(e, b))
  PROVE  LET l == Lower(e, b)
             u == Upper(e, b)
             d == Merge(SetFree(m, e, TRUE), e, b)
         IN  /\ l \in Entries /\ u \in Entries /\ {l, u} = {e, b} /\ l # u
             /\ WellLinked(d)
             /\ \A x \in Entries : Listed(d, x) <=> ((Listed(m, x) /\ x # u) \/ x = l)
             /\ d.free = [m.free EXCEPT ![e] = TRUE]
<1> DEFINE l == Lower(e, b)
           u == Upper(e, b)
           m0 == SetFree(m, e, TRUE)
           m1 == Remove(m0, l)
           m2 == Remove(m1, u)
           d == PushFront(m2, m2.order[l] + 1, l)
<1>1. l \in Entries /\ u \in Entries /\ {l, u} = {e, b} /\ l # u
  BY DEF Lower, Upper
<1>2. /\ m0 \in Maps /\ m0.free = [m.free EXCEPT ![e] = TRUE] /\ m0.order = m.order
      /\ m0.forward = m.forward /\ m0.backward = m.backward /\ m0.head = m.head
  BY DEF SetFree, Maps
<1>3. ~StaleLink(m0, l) /\ ~StaleLink(m1, u)
  <2>1. /\ m1.order = Remove(m, l).order /\ m1.forward = Remove(m, l).forward
        /\ m1.backward = Remove(m, l).backward /\ m1.head = Remove(m, l).head
    <3> HIDE DEF m0, l
    <3> QED
      BY <1>2 DEF Remove, Maps
  <2>2. ~StaleLink(m, l) /\ ~StaleLink(Remove(m, l), u)
    BY DEF StaleRemoval
  <2> HIDE DEF m0, m1, l, u
  <2> QED
    BY <1>2, <2>1, <2>2 DEF StaleLink, Listed
<1>4. m.order[l] + 1 \in Orders
  OBVIOUS
<1> HIDE DEF l, u, m0
<1>5. WellLinked(m0) /\ \A x \in Entries : Listed(m0, x) <=> Listed(m, x)
  BY <1>2, RelabelLinks
<1>6. /\ m1 \in Maps /\ m1.free = m0.free /\ m1.order = m.order /\ WellLinked(m1)
      /\ \A x \in Entries : Listed(m1, x) <=> (Listed(m, x) /\ x # l)
  BY <1>1, <1>2, <1>3, <1>5, RemoveLinks
<1> HIDE DEF m1
<1>7. /\ m2 \in Maps /\ m2.free = m0.free /\ m2.order = m.order /\ WellLinked(m2)
      /\ \A x \in Entries : Listed(m2, x) <=> (Listed(m, x) /\ x # l /\ x # u)
  BY <1>1, <1>3, <1>6, RemoveLinks
<1> HIDE DEF m2
<1>8. /\ WellLinked(d) /\ d.free = m0.free
      /\ \A x \in Entries : Listed(d, x) <=> ((Listed(m, x) /\ x # u) \/ x = l)
  <2>1. m2.order[l] + 1 \in Orders /\ ~Listed(m2, l)
    BY <1>1, <1>4, <1>7
  <2> DEFINE j == m2.order[l] + 1
  <2>2. /\ WellLinked(d) /\ d.free = m2.free
        /\ \A x \in Entries : Listed(d, x) <=> (Listed(m2, x) \/ x = l)
    <3>1. j \in Orders
      BY <2>1
    <3> HIDE DEF j
    <3>2. LET g == PushFront(m2, j, l)
          IN  /\ WellLinked(g) /\ g.free = m2.free
              /\ \A x \in Entries : Listed(g, x) <=> (Listed(m2, x) \/ x = l)
      BY <1>1, <1>7, <2>1, <3>1, PushFrontLinks
    <3> QED
      BY <3>2 DEF j
  <2> HIDE DEF d
  <2> QED
    BY <1>1, <1>7, <2>2
<1> QED
  BY <1>1, <1>2, <1>8 DEF Merge, l, u, m0, m1, m2, d

LEMMA SplitStepSound ==
  ASSUME TypeOK, Sound, SplitStep, ~stale'
  PROVE  Sound'
<1> DEFINE e == entry
           k == cur - 1
           b == BuddyOf(e, k)
           v == <<e, cur>>
           l == <<e, k>>
           u == <<b, k>>
<1>1. /\ lists \in Maps /\ e \in Entries /\ e \in Nat /\ cur \in 1 .. MaxOrder
      /\ k \in Orders /\ k + 1 = cur /\ cur \in Orders /\ b # Null
      /\ \A c \in live : c = <<c[1], c[2]>> /\ c[1] \in Entries
      /\ pc = "split" /\ ~StaleRemoval(lists, b, e)
  <2>1. /\ pc = "split" /\ cur > block_order /\ b # Null /\ ~StaleRemoval(lists, b, e)
    BY DEF SplitStep
  <2>2. /\ lists \in Maps /\ e \in Entries /\ cur \in Orders /\ block_order \in Orders
        /\ \A c \in live : c = <<c[1], c[2]>> /\ c[1] \in Entries
    BY <2>1 DEF TypeOK, Maps
  <2>3. e \in Nat
    BY <2>2, BuddyAssumption DEF Entries
  <2>4. cur \in 1 .. MaxOrder /\ k \in Orders /\ k + 1 = cur
    BY <2>1, <2>2, BuddyAssumption DEF Orders
  <2> QED
    BY <2>1, <2>2, <2>3, <2>4
<1>2. /\ InHand = {v} /\ v \in Blocks /\ ~Listed(lists, e)
      /\ v \notin live /\ v \notin FreeBlocks
  BY <1>1 DEF InHand, Blocks, Sound, Apart, FreeBlocks
<1>3. e % 2^cur = 0 /\ Tiled(Blocks)
  BY <1>2 DEF Sound, Apart, Tiled, Aligned
<1>4. b = e + 2^k /\ b # e /\ b \in Entries /\ 2^k \in Nat \ {0} /\ 2^cur = 2 * 2^k /\ b \in Nat
  <2>1. b = e + 2^k
    BY <1>1, <1>3, BuddyOfLowerHalf
  <2>2. 2^k \in Nat \ {0} /\ 2^(k + 1) = 2 * 2^k
    BY <1>1, Powers, BuddyAssumption DEF Orders
  <2>3. b \in Entries
    BY <1>1 DEF BuddyOf
  <2> HIDE DEF b, e, k
  <2> QED
    BY <1>1, <2>1, <2>2, <2>3
<1>5. /\ lists' \in Maps /\ WellLinked(lists')
      /\ lists'.order = [lists.order EXCEPT ![e] = k, ![b] = k]
      /\ lists'.free = [lists.free EXCEPT ![e] = TRUE, ![b] = FALSE]
      /\ \A x \in Entries : Listed(lists', x) <=> ((Listed(lists, x) /\ x # b) \/ x = e)
  <2> DEFINE d == SetFree(Split(lists, e, cur), b, FALSE)
  <2>1. lists' = d
    BY DEF SplitStep
  <2>2. d \in Maps /\ d.order = [lists.order EXCEPT ![e] = cur - 1, ![b] = cur - 1]
    BY <1>1, SplitTypes
  <2>3. /\ WellLinked(d)
        /\ \A x \in Entries : Listed(d, x) <=> ((Listed(lists, x) /\ x # b) \/ x = e)
        /\ d.free = [lists.free EXCEPT ![e] = TRUE, ![b] = FALSE]
    BY <1>1, <1>4, SplitLinks DEF Sound
  <2> HIDE DEF d, b, e
  <2> QED
    BY <2>1, <2>2, <2>3
<1>6. entry' = b /\ cur' = k /\ pc' = "split" /\ live' = live /\ old' = old
  BY <1>1 DEF SplitStep
\* No other block begins in the one that is split.
<1>7. \A c \in Blocks : c # v => c[1] # e /\ c[1] # b
  <2> SUFFICES ASSUME NEW c \in Blocks, c # v PROVE c[1] # e /\ c[1] # b
    OBVIOUS
  <2>1. End(c) <= e \/ e + 2^cur <= c[1]
    BY <1>2, <1>3 DEF Tiled, Beside, End
  <2>2. c[1] \in Nat /\ End(c) \in Nat /\ c[1] < End(c)
    BY <1>3, BlockIs DEF Tiled
  <2> HIDE DEF b, e, k
  <2> QED
    BY <1>1, <1>4, <2>1, <2>2
<1>8. ~Listed(lists, b)
  <2>1. Listed(lists, b) => <<b, lists.order[b]>> \in Blocks
    BY <1>4 DEF Blocks, FreeBlocks
  <2>2. <<b, lists.order[b]>> # v
    BY <1>4
  <2> QED
    BY <1>7, <2>1, <2>2
<1> HIDE DEF e, k, b
<1>9. \A x \in Entries : Listed(lists', x) <=> (Listed(lists, x) \/ x = e)
  BY <1>5, <1>8
<1>10. \A x \in Entries : x # e /\ x # b =>
         lists'.order[x] = lists.order[x] /\ lists'.free[x] = lists.free[x]
  BY <1>1, <1>5 DEF Maps
<1>11. lists'.order[e] = k /\ lists'.order[b] = k
  BY <1>1, <1>4, <1>5 DEF Maps
<1>12. FreeBlocks' = FreeBlocks \cup {l} /\ InHand' = {u}
  <2>1. InHand' = {u}
    BY <1>6 DEF InHand
  <2>2. \A x \in Entries : Listed(lists, x) => x # e /\ x # b
    BY <1>2, <1>8
  <2>3. FreeBlocks' = FreeBlocks \cup {l}
    BY <1>1, <1>9, <1>10, <1>11, <2>2 DEF FreeBlocks
  <2> QED
    BY <2>1, <2>3
<1>13. Blocks' = (Blocks \ {v}) \cup {l, u}
  BY <1>2, <1>6, <1>12 DEF Blocks
<1>14. Tiled(Blocks') /\ \A p \in Nat : CoveredBy(Blocks', p) <=> CoveredBy(Blocks, p)
  <2>1. <<e, k + 1>> \in Blocks /\ v = <<e, k + 1>> /\ u = <<e + 2^k, k>>
    BY <1>1, <1>2, <1>4
  <2>2. Blocks' = (Blocks \ {<<e, k + 1>>}) \cup {<<e, k>>, <<e + 2^k, k>>}
    BY <1>13, <2>1
  <2> QED
    BY <1>1, <1>3, <2>1, <2>2, SplitTiled
<1>15. \A c \in live : c # v /\ c \in Blocks /\ c[1] # e /\ c[1] # b
  BY <1>2, <1>7 DEF Blocks
<1>16. Apart'
  <2>1. live' \cap (FreeBlocks' \cup InHand') = {}
    BY <1>6, <1>12, <1>15 DEF Sound, Apart
  <2>2. ~Listed(lists', b)
    BY <1>4, <1>8, <1>9
  <2> QED
    BY <1>6, <1>14, <2>1, <2>2 DEF Apart
<1>17. Kept'
  <2>1. \A p \in 0 .. Catalogued - 1 : p \in Nat /\ CoveredBy(Blocks, p)
    BY LimitIsEven DEF Sound, Kept
  <2> QED
    BY <1>14, <2>1 DEF Kept
<1>18. Unlisted'
  <2> SUFFICES ASSUME NEW x \in Entries, ~CoveredBy(Blocks', x) PROVE lists'.order[x] <= 0
    BY DEF Unlisted
  <2>1. x \in Nat /\ ~CoveredBy(Blocks, x)
    BY <1>14, BuddyAssumption DEF Entries
  <2>2. Covers(v, e) /\ Covers(v, b)
    BY <1>1, <1>4 DEF Covers, End
  <2> QED
    BY <1>2, <1>10, <2>1, <2>2 DEF CoveredBy, Sound, Unlisted
<1>19. Marked'
  BY <1>1, <1>6, <1>10, <1>15 DEF Sound, Marked
<1>20. Pending'
  <2>1. old # Null => <<old, lists.order[old]>> \in live
    BY <1>1 DEF Sound, Pending
  <2>2. old # Null => old \in Entries /\ old # e /\ old # b
    BY <1>15, <2>1 DEF TypeOK, Pointer
  <2> QED
    BY <1>6, <1>10, <2>1, <2>2 DEF Pending
<1>21. Merged'
  <2> SUFFICES ASSUME NEW x \in Entries, Twins(lists', x) PROVE FALSE
    BY NoTwinsNext
  <2> DEFINE y == BuddyOf(x, lists'.order[x])
  <2>1. Listed(lists', x) /\ Listed(lists', y) /\ y \in Entries /\ lists'.order[y] = lists'.order[x]
    BY DEF Twins, Mergeable, BuddyOf
  <2>2. x # b /\ y # b
    BY <1>4, <1>8, <1>9, <2>1
  <2>3. CASE x = e
    BY <1>11, <2>2, <2>3 DEF b
  <2>4. CASE x # e /\ y = e
    <3>1. lists'.order[x] = k
      BY <1>11, <2>1, <2>4
    <3>2. <<x, k>> \in FreeBlocks'
      BY <2>1, <3>1 DEF FreeBlocks
    <3>3. x \in Nat /\ x % 2^k = 0
      BY <1>14, <3>2 DEF Blocks, Tiled, Aligned
    <3>4. BuddyOf(x, k) = e /\ BuddyOf(x, k) # Null
      BY <1>1, <2>4, <3>1, BuddyAssumption DEF Entries
    <3>5. BuddyOf(e, k) = x
      BY <1>1, <3>3, <3>4, BuddyIs
    <3> QED
      BY <2>2, <3>5 DEF b
  <2>5. CASE x # e /\ y # e
    <3>1. lists'.order[x] = lists.order[x] /\ lists'.free[x] = lists.free[x]
      BY <1>10, <2>2, <2>5
    <3>2. lists'.order[y] = lists.order[y] /\ lists'.free[y] = lists.free[y]
      BY <1>10, <2>1, <2>2, <2>5
    <3>3. Twins(lists, x)
      BY <1>9, <2>1, <2>5, <3>1, <3>2 DEF Twins, Mergeable
    <3> QED
      BY <1>1, <3>3, NoTwins DEF Sound
  <2> QED
    BY <2>3, <2>4, <2>5
<1> QED
  BY <1>5, <1>16, <1>17, <1>18, <1>19, <1>20, <1>21 DEF Sound

LEMMA AllocateEndSound ==
  ASSUME TypeOK, Sound, AllocateEnd
  PROVE  Sound'
<1> DEFINE e == entry
           v == <<e, cur>>
<1>1. /\ lists \in Maps /\ e \in Entries /\ cur \in Orders /\ cur \in -1 .. MaxOrder
      /\ pc = "split" /\ block_order = cur /\ live' = live \cup {v}
  BY BuddyAssumption DEF TypeOK, Maps, AllocateEnd, Orders
<1>2. /\ InHand = {v} /\ v \in Blocks /\ ~Listed(lists, e)
      /\ v \notin live /\ v \notin FreeBlocks /\ Tiled(Blocks)
  BY <1>1 DEF InHand, Blocks, Sound, Apart, FreeBlocks
<1>3. /\ lists' \in Maps /\ lists'.order = [lists.order EXCEPT ![e] = cur]
      /\ lists'.free = [lists.free EXCEPT ![e] = FALSE]
      /\ lists'.forward = lists.forward /\ lists'.backward = lists.backward
      /\ lists'.head = lists.head
  BY <1>1 DEF AllocateEnd, Maps
<1>4. \A x \in Entries : x # e => lists'.order[x] = lists.order[x] /\ lists'.free[x] = lists.free[x]
  BY <1>1, <1>3 DEF Maps
<1>5. lists'.order[e] = cur /\ ~lists'.free[e]
  BY <1>1, <1>3 DEF Maps
<1>6. /\ WellLinked(lists')
      /\ \A x \in Entries : Listed(lists', x) <=> Listed(lists, x)
  BY <1>1, <1>2, <1>3, <1>4, RelabelLinks DEF Sound
<1>7. \A c \in live : c[1] # e /\ c[1] \in Entries /\ c = <<c[1], c[2]>>
  <2> SUFFICES ASSUME NEW c \in live PROVE c[1] # e
    BY DEF TypeOK
  <2>1. Beside(c, v) /\ Aligned(c) /\ Aligned(v)
    BY <1>2 DEF Blocks, Tiled
  <2>2. c[1] < End(c) /\ v[1] < End(v) /\ c[1] \in Nat /\ v[1] \in Nat /\ End(c) \in Nat /\ End(v) \in Nat
    BY <2>1, BlockIs
  <2>3. v[1] = e
    OBVIOUS
  <2> HIDE DEF v, e
  <2> QED
    BY <2>1, <2>2, <2>3 DEF Beside
<1>8. /\ pc' \in {"idle", "free"} /\ (pc' = "free" => old # Null /\ entry' = old)
      /\ old' = Null
  BY DEF AllocateEnd, AllocateReturns, Return
<1>9. FreeBlocks' = FreeBlocks /\ InHand' = {}
  BY <1>2, <1>4, <1>6, <1>8 DEF FreeBlocks, InHand
<1>10. Blocks' = Blocks
  BY <1>1, <1>2, <1>9 DEF Blocks
<1>11. Apart'
  BY <1>1, <1>2, <1>8, <1>9, <1>10 DEF Sound, Apart
<1>12. Kept'
  BY <1>10 DEF Sound, Kept
<1>13. Unlisted'
  <2>1. Covers(v, e)
    <3>1. e \in Nat /\ 2^cur \in Nat \ {0}
      BY <1>1, Powers, BuddyAssumption DEF Entries, Orders
    <3> HIDE DEF e
    <3> QED
      BY <3>1 DEF Covers, End
  <2> QED
    BY <1>2, <1>4, <1>10, <2>1 DEF Sound, Unlisted, CoveredBy
<1>14. Marked'
  BY <1>1, <1>4, <1>5, <1>7 DEF Sound, Marked
<1>15. Pending'
  <2>1. pc' = "free" => <<old, lists.order[old]>> \in live
    BY <1>1, <1>8 DEF Sound, Pending
  <2>2. pc' = "free" => lists'.order[old] = lists.order[old]
    BY <1>4, <1>7, <2>1
  <2> QED
    BY <1>1, <1>8, <2>1, <2>2 DEF Pending
<1>16. Merged'
  <2> SUFFICES ASSUME NEW x \in Entries, Twins(lists', x) PROVE FALSE
    BY NoTwinsNext
  <2> DEFINE y == BuddyOf(x, lists'.order[x])
  <2>1. Listed(lists', x) /\ Listed(lists', y) /\ y \in Entries
    BY DEF Twins, Mergeable, BuddyOf
  <2>2. x # e /\ y # e
    BY <1>2, <1>6, <2>1
  <2>3. lists'.order[x] = lists.order[x] /\ lists'.free[x] = lists.free[x]
    BY <1>4, <2>2
  <2>4. lists'.order[y] = lists.order[y] /\ lists'.free[y] = lists.free[y]
    BY <1>4, <2>1, <2>2
  <2>5. Twins(lists, x)
    BY <1>6, <2>1, <2>3, <2>4 DEF Twins, Mergeable
  <2> QED
    BY <1>1, <2>5, NoTwins DEF Sound
<1> QED
  BY <1>6, <1>11, <1>12, <1>13, <1>14, <1>15, <1>16 DEF Sound

LEMMA MergeStepSound ==
  ASSUME TypeOK, OrdersKnown, Sound, MergeStep, ~stale'
  PROVE  Sound'
<1> DEFINE e == entry
           k == lists.order[e]
           b == BuddyOf(e, k)
           l == Lower(e, b)
           u == Upper(e, b)
           v == <<e, k>>
           w == <<b, k>>
           a == <<l, k + 1>>
<1>1. /\ lists \in Maps /\ e \in Entries /\ e \in Nat /\ k \in Orders
      /\ pc = "merge" /\ Mergeable(lists, e, b) /\ ~StaleRemoval(lists, l, u)
      /\ \A c \in live : c = <<c[1], c[2]>> /\ c[1] \in Entries /\ c[2] \in Orders
  <2>1. pc = "merge" /\ Mergeable(lists, e, b) /\ ~StaleRemoval(lists, l, u)
    BY DEF MergeStep
  <2>2. /\ lists \in Maps /\ e \in Entries /\ k \in Orders
        /\ \A c \in live : c = <<c[1], c[2]>> /\ c[1] \in Entries /\ c[2] \in Orders
    BY <2>1 DEF TypeOK, OrdersKnown, Maps
  <2>3. e \in Nat
    BY <2>2, BuddyAssumption DEF Entries
  <2> QED
    BY <2>1, <2>2, <2>3
<1>2. b # Null /\ b \in Entries /\ lists.free[b] /\ lists.order[b] = k
  BY <1>1 DEF Mergeable, BuddyOf
<1>3. /\ InHand = {v} /\ v \in Blocks /\ v \notin live /\ Tiled(Blocks)
  BY <1>1 DEF InHand, Blocks, Sound, Apart
<1>4. e % 2^k = 0
  BY <1>3 DEF Tiled, Aligned
<1>5. b # e /\ b \in Nat
  BY <1>1, <1>2, <1>4, BuddyIs
<1>6. /\ k + 1 \in Orders /\ l \in Entries /\ lists.order[l] = k
      /\ lists' \in Maps /\ lists'.order = [lists.order EXCEPT ![l] = k + 1]
  <2> DEFINE d == Merge(SetFree(lists, e, TRUE), e, b)
  <2>1. lists' = d
    BY DEF MergeStep
  <2>2. /\ k + 1 \in Orders /\ l \in Entries /\ lists.order[l] = k
        /\ d \in Maps /\ d.order = [lists.order EXCEPT ![l] = k + 1]
    BY <1>1, MergeTypes
  <2> HIDE DEF d
  <2> QED
    BY <2>1, <2>2
<1>7. /\ u \in Entries /\ {l, u} = {e, b} /\ l # u /\ WellLinked(lists')
      /\ \A x \in Entries : Listed(lists', x) <=> ((Listed(lists, x) /\ x # u) \/ x = l)
      /\ lists'.free = [lists.free EXCEPT ![e] = TRUE]
  <2> DEFINE d == Merge(SetFree(lists, e, TRUE), e, b)
  <2>1. lists' = d
    BY DEF MergeStep
  <2>2. /\ u \in Entries /\ {l, u} = {e, b} /\ l # u /\ WellLinked(d)
        /\ \A x \in Entries : Listed(d, x) <=> ((Listed(lists, x) /\ x # u) \/ x = l)
        /\ d.free = [lists.free EXCEPT ![e] = TRUE]
    <3>1. lists.order[Lower(e, b)] + 1 \in Orders
      BY <1>6
    <3>2. WellLinked(lists) /\ ~StaleRemoval(lists, Lower(e, b), Upper(e, b))
      BY <1>1 DEF Sound
    <3>3. lists \in Maps /\ e \in Entries /\ b \in Entries /\ b # e
      BY <1>1, <1>2, <1>5
    <3> HIDE DEF b, e, l, u, d
    <3>4. LET i == Lower(e, b)
              j == Upper(e, b)
              g == Merge(SetFree(lists, e, TRUE), e, b)
          IN  /\ i \in Entries /\ j \in Entries /\ {i, j} = {e, b} /\ i # j
              /\ WellLinked(g)
              /\ \A x \in Entries : Listed(g, x) <=> ((Listed(lists, x) /\ x # j) \/ x = i)
              /\ g.free = [lists.free EXCEPT ![e] = TRUE]
      BY <3>1, <3>2, <3>3, MergeLinks
    <3> QED
      BY <3>4 DEF l, u, d
  <2> HIDE DEF d, l, u
  <2> QED
    BY <2>1, <2>2
<1>8. entry' = l /\ pc' = "merge" /\ live' = live /\ old' = old
  BY <1>1 DEF MergeStep
\* A block that has the buddy's page is the buddy, and free.
<1>9. ASSUME NEW c \in Blocks, Covers(c, b) PROVE c = w /\ w \in FreeBlocks /\ w \notin live
  <2>1. c # v
    <3>1. \/ b = e + 2^k
          \/ e = b + 2^k
      BY <1>1, <1>2, <1>4, BuddyIs
    <3>2. 2^k \in Nat \ {0}
      BY <1>1, Powers, BuddyAssumption DEF Orders
    <3>3. c = v => e <= b /\ b < e + 2^k
      BY <1>9 DEF Covers, End
    <3> HIDE DEF b, e, k
    <3> QED
      BY <1>1, <1>5, <3>1, <3>2, <3>3
  <2>2. c[1] = b
    BY <1>1, <1>2, <1>3, <1>9, <2>1, BuddyOwner
  <2>3. c \notin live
    BY <1>2, <2>2 DEF Sound, Marked
  <2>4. c \in FreeBlocks
    BY <1>3, <2>1, <2>3 DEF Blocks
  <2>5. c = w
    BY <1>2, <2>2, <2>4 DEF FreeBlocks
  <2> QED
    BY <2>3, <2>4, <2>5
<1>10. w \in Blocks \/ (k = 0 /\ ~CoveredBy(Blocks, b))
  <2>1. CoveredBy(Blocks, b) => w \in Blocks
    BY <1>9 DEF CoveredBy
  <2>2. ~CoveredBy(Blocks, b) => lists.order[b] <= 0
    BY <1>2 DEF Sound, Unlisted
  <2> QED
    BY <1>1, <1>2, <2>1, <2>2, BuddyAssumption DEF Orders
<1>11. w \notin live
  BY <1>1, <1>2 DEF Sound, Marked
<1>12. /\ Tiled((Blocks \ {v, w}) \cup {a})
       /\ \A p \in Nat : CoveredBy(Blocks, p) => CoveredBy((Blocks \ {v, w}) \cup {a}, p)
       /\ l \in Nat
       /\ CoveredBy((Blocks \ {v, w}) \cup {a}, e) /\ CoveredBy((Blocks \ {v, w}) \cup {a}, b)
  <2> HIDE DEF e, k
  <2> QED
    BY <1>1, <1>2, <1>3, <1>6, <1>10, MergeTiled
<1> HIDE DEF e, k, b, l, u
<1>13. \A x \in Entries : x # l => lists'.order[x] = lists.order[x]
  BY <1>1, <1>6 DEF Maps
<1>14. lists'.order[l] = k + 1
  BY <1>1, <1>6 DEF Maps
<1>15. \A x \in Entries : x # e => lists'.free[x] = lists.free[x]
  BY <1>1, <1>7 DEF Maps
<1>16. FreeBlocks' = (FreeBlocks \ {v, w}) \cup {a} /\ InHand' = {a}
  <2>1. InHand' = {a}
    BY <1>8, <1>14 DEF InHand
  <2>2. \A x \in Entries : Listed(lists, x) /\ x # u /\ x # l <=> (Listed(lists, x) /\ x # e /\ x # b)
    BY <1>7
  <2>3. ASSUME NEW c PROVE c \in FreeBlocks' <=> c \in (FreeBlocks \ {v, w}) \cup {a}
    <3>1. c \in FreeBlocks' <=> \E x \in Entries : Listed(lists', x) /\ c = <<x, lists'.order[x]>>
      BY DEF FreeBlocks
    <3>2. c \in FreeBlocks <=> \E x \in Entries : Listed(lists, x) /\ c = <<x, lists.order[x]>>
      BY DEF FreeBlocks
    <3>3. c \in FreeBlocks' <=>
            \/ c = a
            \/ \E x \in Entries : Listed(lists, x) /\ x # e /\ x # b /\ c = <<x, lists.order[x]>>
      BY <1>6, <1>7, <1>13, <1>14, <2>2, <3>1
    <3>4. lists.order[e] = k
      BY DEF k
    <3> QED
      BY <1>1, <1>2, <3>2, <3>3, <3>4
  <2> QED
    BY <2>1, <2>3
<1>17. Blocks' = (Blocks \ {v, w}) \cup {a}
  BY <1>3, <1>8, <1>11, <1>16 DEF Blocks
<1>18. Tiled(Blocks') /\ (\A p \in Nat : CoveredBy(Blocks, p) => CoveredBy(Blocks', p))
       /\ CoveredBy(Blocks', e) /\ CoveredBy(Blocks', b)
  BY <1>12, <1>17
\* No block of a client begins in the merged one.
<1>19. \A c \in live : c # a /\ c[1] # l
  <2> SUFFICES ASSUME NEW c \in live PROVE c # a /\ c[1] # l
    OBVIOUS
  <2>1. c[1] # l
    <3>1. c[1] # b
      BY <1>2 DEF Sound, Marked
    <3>2. c[1] = e => c = v
      BY <1>1 DEF Sound, Marked, k
    <3> QED
      BY <1>3, <1>7, <3>1, <3>2
  <2> QED
    BY <2>1
<1>20. Apart'
  <2>1. live' \cap (FreeBlocks' \cup InHand') = {}
    BY <1>8, <1>16, <1>19 DEF Sound, Apart
  <2> QED
    BY <1>8, <1>18, <2>1 DEF Apart
<1>21. Kept'
  <2>1. \A p \in 0 .. Catalogued - 1 : p \in Nat /\ CoveredBy(Blocks, p)
    BY LimitIsEven DEF Sound, Kept
  <2> QED
    BY <1>18, <2>1 DEF Kept
<1>22. Unlisted'
  <2> SUFFICES ASSUME NEW x \in Entries, ~CoveredBy(Blocks', x) PROVE lists'.order[x] <= 0
    BY DEF Unlisted
  <2>1. x \in Nat /\ ~CoveredBy(Blocks, x) /\ x # e /\ x # b
    BY <1>18, BuddyAssumption DEF Entries
  <2> QED
    BY <1>7, <1>13, <2>1 DEF Sound, Unlisted
<1>23. Marked'
  <2>1. \A c \in live : c[1] # e
    BY <1>1, <1>3 DEF Sound, Marked, k
  <2> QED
    BY <1>1, <1>8, <1>13, <1>15, <1>19, <2>1 DEF Sound, Marked
<1>24. Pending'
  BY <1>6, <1>7, <1>8 DEF Pending
<1>25. Merged'
  <2> SUFFICES ASSUME NEW x \in Entries, Twins(lists', x) PROVE l \in {x, BuddyOf(x, lists'.order[x])}
    BY <1>8 DEF Merged, Twins
  <2> DEFINE y == BuddyOf(x, lists'.order[x])
  <2>1. Listed(lists', x) /\ Listed(lists', y) /\ y \in Entries
    BY DEF Twins, Mergeable, BuddyOf
  <2>2. SUFFICES ASSUME x # l, y # l PROVE FALSE
    OBVIOUS
  <2>3. Listed(lists, x) /\ Listed(lists, y) /\ x \notin {e, b} /\ y \notin {e, b}
    BY <1>7, <2>1, <2>2
  <2>4. lists'.order[x] = lists.order[x] /\ lists'.order[y] = lists.order[y]
    BY <1>13, <2>1, <2>2
  <2>5. lists'.free[x] = lists.free[x] /\ lists'.free[y] = lists.free[y]
    BY <1>15, <2>1, <2>3
  <2>6. Twins(lists, x)
    BY <2>3, <2>4, <2>5 DEF Twins, Mergeable
  <2>7. e \in {x, BuddyOf(x, lists.order[x])}
    BY <2>6 DEF Sound, Merged, Twins, e
  <2> QED
    BY <2>3, <2>4, <2>7
<1> QED
  BY <1>7, <1>20, <1>21, <1>22, <1>23, <1>24, <1>25 DEF Sound

LEMMA FreeEndSound ==
  ASSUME TypeOK, OrdersKnown, Sound, FreeEnd
  PROVE  Sound'
<1> DEFINE e == entry
           k == lists.order[e]
           v == <<e, k>>
<1>1. /\ lists' = lists /\ live' = live /\ pc = "merge" /\ pc' = "idle" /\ old' = Null
      /\ ~Mergeable(lists, e, BuddyOf(e, k))
      /\ lists \in Maps /\ e \in Entries
  BY DEF FreeEnd, Return, TypeOK, Maps
<1>2. Listed(lists, e)
  BY <1>1 DEF Sound, Pending
<1>3. InHand = {v} /\ InHand' = {} /\ FreeBlocks' = FreeBlocks /\ v \in FreeBlocks
  BY <1>1, <1>2 DEF InHand, FreeBlocks
<1>4. Blocks' = Blocks
  BY <1>1, <1>3 DEF Blocks
<1>5. Apart'
  BY <1>1, <1>3, <1>4 DEF Sound, Apart
<1>6. WellLinked(lists)' /\ Kept' /\ Unlisted' /\ Marked' /\ Pending'
  BY <1>1, <1>4 DEF Sound, Kept, Unlisted, Marked, Pending
<1>7. Merged'
  <2> SUFFICES ASSUME NEW x \in Entries, Twins(lists, x) PROVE FALSE
    BY <1>1, NoTwinsNext
  <2> DEFINE y == BuddyOf(x, lists.order[x])
  <2>1. /\ e \in {x, y} /\ y \in Entries /\ Listed(lists, x) /\ lists.free[x]
        /\ lists.order[y] = lists.order[x] /\ y # Null /\ Mergeable(lists, x, y)
    BY DEF Sound, Merged, Twins, Mergeable, BuddyOf
  <2>2. CASE e = x
    BY <1>1, <2>1, <2>2
  <2>3. CASE e = y
    <3>1. <<x, k>> \in Blocks
      BY <2>1, <2>3 DEF Blocks, FreeBlocks
    <3>2. k \in Orders /\ x \in Nat /\ x % 2^k = 0
      BY <3>1 DEF Sound, Apart, Tiled, Aligned
    <3>3. BuddyOf(x, k) = e /\ BuddyOf(x, k) # Null
      BY <2>1, <2>3
    <3>4. BuddyOf(e, k) = x
      BY <3>2, <3>3, BuddyIs
    <3>5. x # Null
      BY BuddyAssumption DEF Entries
    <3> QED
      BY <1>1, <2>1, <2>3, <3>4, <3>5 DEF Mergeable
  <2> QED
    BY <2>1, <2>2, <2>3
<1> QED
  BY <1>5, <1>6, <1>7 DEF Sound

\* A step that changes only the counters.
LEMMA SameStateSound ==
  ASSUME Sound, UNCHANGED <<lists, live, call>>
  PROVE  Sound'
<1>1. FreeBlocks' = FreeBlocks /\ InHand' = InHand
  BY DEF FreeBlocks, InHand, call
<1>2. Blocks' = Blocks
  BY <1>1 DEF Blocks
<1> QED
  BY <1>1, <1>2 DEF Sound, Apart, Kept, Unlisted, Marked, Pending, Merged, call

LEMMA SoundKept ==
  ASSUME TypeOK, OrdersKnown, Sound, [Next]_vars, ~stale'
  PROVE  Sound'
<1>1. ASSUME NEW s \in Sizes, Allocate(s) PROVE Sound'
  BY <1>1, StartAllocateSound DEF Allocate, Pointer
<1>2. ASSUME NEW b \in live
      PROVE  b[1] \in Entries /\ b[1] \in Pointer /\ <<b[1], lists.order[b[1]]>> \in live
  BY DEF TypeOK, Pointer, Sound, Marked
<1>3. ASSUME NEW b \in live, Free(b[1]) PROVE Sound'
  BY <1>2, <1>3, StartFreeSound DEF Free
<1>4. ASSUME NEW b \in live, NEW s \in Sizes, ReallocInPlace(b[1], s) PROVE Sound'
  BY <1>4, SameStateSound DEF ReallocInPlace
<1>5. ASSUME NEW b \in live, NEW s \in Sizes, ReallocMove(b[1], s) PROVE Sound'
  BY <1>2, <1>5, StartAllocateSound DEF ReallocMove
<1>6. CASE ReallocFree
  BY <1>6, StartFreeSound DEF ReallocFree, TypeOK, Sound, Pending
<1>7. CASE UNCHANGED vars
  BY <1>7, SameStateSound DEF vars
<1> QED
  BY <1>1, <1>3, <1>4, <1>5, <1>6, <1>7, SplitStepSound, AllocateEndSound, MergeStepSound, FreeEndSound
     DEF Next, ClientCall, Continue

------------------------------------------------------------------------------
(* What CatalogRange hands out.                                                 *)

LEMMA CatalogueBlock ==
  ASSUME NEW k \in Catalogue
  PROVE  /\ k \in Orders /\ BlockBase(k) \in Nat /\ 2^k \in Nat \ {0}
         /\ BlockBase(k) % 2^k = 0
         /\ BlockBase(k) + 2^k = (Catalogued \div 2^k) * 2^k
         /\ BlockBase(k) + 2^k <= Catalogued
<1> DEFINE C == Catalogued
           D == 2^k
           E == 2^(k + 1)
           q == C \div D
           w == C \div E
<1>1. k \in Orders /\ C \in Nat /\ q % 2 = 1
  BY LimitIsEven DEF Catalogue, HasBlock
<1>2. D \in Nat \ {0} /\ E = 2 * D
  BY <1>1, Powers, BuddyAssumption DEF Orders
<1>3. q \in Nat /\ C % D \in 0 .. D - 1 /\ C = q * D + (C % D)
  <2> HIDE DEF C, D
  <2> QED
    BY <1>1, <1>2, DivMod
<1>4. w = q \div 2
  <2> HIDE DEF C, D, E
  <2> QED
    BY <1>1, <1>2, Halves
<1>5. w \in Nat /\ q = w * 2 + 1
  <2> HIDE DEF q, w
  <2>1. q \div 2 \in Nat /\ q = (q \div 2) * 2 + (q % 2)
    BY <1>3, DivMod
  <2> QED
    BY <1>1, <1>4, <2>1
<1>6. BlockBase(k) = w * E
  BY DEF BlockBase
<1> DEFINE r == C % D
<1>7. r \in Nat /\ C = q * D + r
  BY <1>2, <1>3
<1>8. C = Catalogued /\ q = Catalogued \div D
  OBVIOUS
<1> SUFFICES /\ BlockBase(k) \in Nat /\ BlockBase(k) % D = 0
             /\ BlockBase(k) + D = q * D
             /\ BlockBase(k) + D <= C
  BY <1>1, <1>2
<1> HIDE DEF C, D, E, q, w, r
<1>9. w * E = (w * 2) * D /\ w * 2 \in Nat
  BY <1>2, <1>5
<1>10. w * E \in Nat /\ (w * E) % D = 0
  BY <1>2, <1>9, Multiple
<1>11. w * E + D = q * D
  BY <1>2, <1>5, <1>9
<1>12. q * D \in Nat /\ q * D <= C
  BY <1>2, <1>3, <1>7
<1> QED
  BY <1>6, <1>10, <1>11, <1>12

LEMMA CatalogueApart ==
  ASSUME NEW k \in Catalogue, NEW j \in Catalogue, k < j
  PROVE  BlockBase(j) + 2^j <= BlockBase(k)
<1> DEFINE C == Catalogued
           E == 2^(k + 1)
           F == 2^j
           q == C \div F
           w == C \div E
<1>1. /\ C \in Nat /\ k \in Orders /\ j \in Orders
      /\ k + 1 \in 0 .. MaxOrder + 2 /\ j \in 0 .. MaxOrder + 2 /\ k + 1 <= j
  BY LimitIsEven, BuddyAssumption DEF Catalogue, Orders
<1>2. E \in Nat \ {0} /\ F \in Nat \ {0}
  BY <1>1, Powers
<1>3. PICK n \in Nat \ {0} : F = n * E
  BY <1>1, PowerDivides
<1>4. BlockBase(j) + F = q * F /\ BlockBase(k) = w * E
  BY CatalogueBlock DEF BlockBase
<1> SUFFICES BlockBase(j) + F <= BlockBase(k)
  OBVIOUS
<1>5. /\ q \in Nat /\ w \in Nat
      /\ C % F \in 0 .. F - 1 /\ C = q * F + (C % F)
      /\ C % E \in 0 .. E - 1 /\ C = w * E + (C % E)
  <2> HIDE DEF C, E, F
  <2> QED
    BY <1>1, <1>2, DivMod
<1> DEFINE r == C % F
           t == C % E
<1>6. r \in Nat /\ C = q * F + r /\ t \in 0 .. E - 1 /\ C = w * E + t
  BY <1>2, <1>5
<1> HIDE DEF C, E, F, q, w, r, t
<1>7. q * n \in Nat /\ q * F = (q * n) * E
  BY <1>2, <1>3, <1>5
<1>8. (q * n) * E <= C /\ C < w * E + E
  BY <1>1, <1>2, <1>5, <1>6, <1>7
<1>9. ~(w < q * n)
  <2>1. w < q * n => w * E + E <= (q * n) * E
    BY <1>2, <1>5, <1>7, MultipleBelow
  <2>2. w * E \in Nat /\ (q * n) * E \in Nat
    BY <1>2, <1>5, <1>7
  <2> QED
    BY <1>1, <1>2, <1>8, <2>1, <2>2
<1>10. (q * n) * E <= w * E
  <2>1. q * n < w => (q * n) * E + E <= w * E
    BY <1>2, <1>5, <1>7, MultipleBelow
  <2>2. w * E \in Nat /\ (q * n) * E \in Nat
    BY <1>2, <1>5, <1>7
  <2>3. q * n < w \/ q * n = w
    BY <1>5, <1>7, <1>9
  <2> QED
    BY <1>2, <2>1, <2>2, <2>3
<1> QED
  BY <1>4, <1>7, <1>10

\* Each page is in the block of the first order above which it and the end of the range
\* have the same digits.
LEMMA CatalogueCovers ==
  ASSUME NEW p \in 0 .. Catalogued - 1
  PROVE  \E k \in Catalogue : BlockBase(k) <= p /\ p < BlockBase(k) + 2^k
<1> DEFINE C == Catalogued
           T == {k \in Orders : p \div 2^(k + 1) = C \div 2^(k + 1)}
<1>1. C \in Nat /\ p \in Nat /\ p < C /\ C < 2^MaxOrder /\ MaxOrder \in Orders
  BY LimitIsEven, OrderAssumption, BuddyAssumption DEF Orders
<1>2. MaxOrder \in T
  <2> DEFINE E == 2^(MaxOrder + 1)
  <2>1. E \in Nat \ {0} /\ C < E
    <3>1. E = 2 * 2^MaxOrder /\ 2^MaxOrder \in Nat \ {0}
      BY Powers, BuddyAssumption
    <3> HIDE DEF C, E
    <3> QED
      BY <1>1, <3>1
  <2> HIDE DEF E, C
  <2>2. \A x \in Nat : x < E => x \div E = 0
    <3> SUFFICES ASSUME NEW x \in Nat, x < E PROVE x \div E = 0
      OBVIOUS
    <3>1. x \in 0 .. E - 1 /\ 0 * E + x = x
      BY <2>1
    <3>2. (0 * E + x) \div E = 0
      BY <2>1, <3>1, Quotient
    <3> QED
      BY <3>1, <3>2
  <2>3. p \div E = C \div E
    BY <1>1, <2>1, <2>2
  <2> QED
    BY <1>1, <2>3 DEF E
<1>3. PICK k \in T : \A j \in T : k <= j
  <2>1. T \in SUBSET Nat
    BY BuddyAssumption DEF Orders
  <2> HIDE DEF T
  <2> QED
    BY <1>2, <2>1, LeastExists
<1> DEFINE D == 2^k
           E == 2^(k + 1)
           u == p \div D
           v == C \div D
           w == C \div E
<1>4. k \in Orders /\ p \div E = w
  BY <1>3
<1>5. D \in Nat \ {0} /\ E = 2 * D
  BY <1>4, Powers, BuddyAssumption DEF Orders
<1>6. u # v
  <2>1. CASE k = 0
    <3>1. D = 1
      BY <2>1, Powers
    <3> HIDE DEF D, C
    <3> QED
      BY <1>1, <3>1
  <2>2. CASE k # 0
    <3>1. k - 1 \in Orders /\ k - 1 + 1 = k /\ ~(k <= k - 1)
      BY <1>4, <2>2, BuddyAssumption DEF Orders
    <3>2. k - 1 \notin T
      BY <1>3, <3>1
    <3> QED
      BY <3>1, <3>2
  <2> QED
    BY <2>1, <2>2
<1>7. /\ u \in Nat /\ v \in Nat /\ w \in Nat
      /\ p % D \in 0 .. D - 1 /\ p = u * D + (p % D)
      /\ C % D \in 0 .. D - 1 /\ C = v * D + (C % D)
  <2>1. E \in Nat \ {0}
    BY <1>5
  <2> HIDE DEF C, D, E
  <2> QED
    BY <1>1, <1>5, <2>1, DivMod
<1>8. u \div 2 = w /\ v \div 2 = w
  <2> HIDE DEF C, D, E
  <2> QED
    BY <1>1, <1>4, <1>5, Halves
<1> DEFINE r == p % D
           t == C % D
<1>9. r \in 0 .. D - 1 /\ t \in 0 .. D - 1 /\ p = u * D + r /\ C = v * D + t
  BY <1>7
<1>10. \A i, j \in Nat : i * D + D <= j * D <=> i < j
  <2> HIDE DEF D
  <2> QED
    BY <1>5, MultipleBelow
<1>11. v % 2 = 1 => k \in Catalogue
  BY <1>4 DEF Catalogue, HasBlock
<1>12. BlockBase(k) = w * E
  BY DEF BlockBase
<1> SUFFICES k \in Catalogue /\ BlockBase(k) <= p /\ p < BlockBase(k) + D
  OBVIOUS
<1> HIDE DEF C, D, E, u, v, w, r, t, T
<1>13. u < v
  <2>1. ~(v < u)
    <3>1. v < u => v * D + D <= u * D
      BY <1>7, <1>10
    <3>2. u * D \in Nat /\ v * D \in Nat
      BY <1>5, <1>7
    <3> QED
      BY <1>1, <1>5, <1>9, <3>1, <3>2
  <2> QED
    BY <1>6, <1>7, <2>1
<1>14. u = w * 2 /\ v = w * 2 + 1
  BY <1>7, <1>8, <1>13
<1>15. k \in Catalogue
  BY <1>7, <1>11, <1>14
<1>16. w * E = u * D /\ u * D \in Nat
  BY <1>5, <1>7, <1>14
<1> QED
  BY <1>1, <1>5, <1>9, <1>12, <1>15, <1>16

LEMMA InitTypes ==
  ASSUME Init
  PROVE  TypeOK /\ OrdersKnown
<1>1. PICK junk \in [0 .. MdataPages - 1 -> BOOLEAN] :
        lists = [forward  |-> [e \in Entries |-> Null],
                 backward |-> [e \in Entries |-> Null],
                 order    |-> [e \in Entries |->
                                 IF \E k \in Catalogue : BlockBase(k) = e
                                 THEN CHOOSE k \in Catalogue : BlockBase(k) = e
                                 ELSE IF e < MdataPages THEN -1 ELSE 0],
                 free     |-> [e \in Entries |->
                                 IF e < MdataPages THEN junk[e] ELSE TRUE],
                 head     |-> [k \in Orders |->
                                 IF HasBlock(k) THEN BlockBase(k) ELSE Null]]
  BY DEF Init, CatalogRange
<1>2. lists.forward \in [Entries -> Pointer] /\ lists.backward \in [Entries -> Pointer]
  BY <1>1 DEF Pointer
<1>3. lists.order \in [Entries -> -1 .. MaxOrder]
  <2>1. Catalogue \subseteq -1 .. MaxOrder /\ -1 \in -1 .. MaxOrder /\ 0 \in -1 .. MaxOrder
    BY BuddyAssumption DEF Catalogue, Orders
  <2> QED
    BY <1>1, <2>1
<1>4. lists.free \in [Entries -> BOOLEAN]
  <2>1. \A e \in Entries : e < MdataPages => e \in 0 .. MdataPages - 1
    BY BuddyAssumption DEF Entries
  <2> QED
    BY <1>1, <2>1
<1>5. lists.head \in [Orders -> Pointer]
  <2>1. ASSUME NEW k \in Orders, HasBlock(k) PROVE BlockBase(k) \in Entries
    <3>1. k \in Catalogue
      BY <2>1 DEF Catalogue
    <3>2. /\ BlockBase(k) \in Nat /\ 2^k \in Nat
          /\ BlockBase(k) + 2^k <= Catalogued /\ Catalogued <= NumPages /\ Catalogued \in Nat
      BY <3>1, CatalogueBlock, LimitIsEven, BuddyAssumption DEF Limit
    <3> QED
      BY <3>2, BuddyAssumption DEF Entries
  <2> QED
    BY <1>1, <2>1 DEF Pointer
<1>6. lists \in Maps
  <2>1. lists = [forward |-> lists.forward, backward |-> lists.backward, order |-> lists.order,
                 free |-> lists.free, head |-> lists.head]
    BY <1>1
  <2> QED
    BY <1>2, <1>3, <1>4, <1>5, <2>1 DEF Maps
<1>7. num_blocks \in 0 .. Word - 1 /\ mem_in_use \in 0 .. Word - 1
  <2>1. num_blocks = Catalogued % Word /\ Catalogued \in Int
    BY LimitIsEven DEF Init
  <2>2. num_blocks \in 0 .. Word - 1
    BY <2>1, WordRange
  <2>3. mem_in_use = 0 /\ 0 \in 0 .. Word - 1
    BY BuddyAssumption DEF Init
  <2> QED
    BY <2>2, <2>3
<1>8. /\ live = {} /\ pc = "idle" /\ entry = Null /\ cur = 0 /\ block_order = 0
      /\ old = Null /\ stale = FALSE
  BY DEF Init
<1>9. 0 \in Orders
  BY BuddyAssumption DEF Orders
<1> QED
  BY <1>6, <1>7, <1>8, <1>9 DEF TypeOK, Maps, OrdersKnown, Pointer

LEMMA InitSound ==
  ASSUME Init
  PROVE  Sound
<1>1. /\ lists \in Maps /\ live = {} /\ pc = "idle" /\ old = Null
      /\ lists.backward = [e \in Entries |-> Null]
      /\ lists.forward = [e \in Entries |-> Null]
      /\ lists.head = [k \in Orders |-> IF HasBlock(k) THEN BlockBase(k) ELSE Null]
      /\ lists.order = [e \in Entries |-> IF \E k \in Catalogue : BlockBase(k) = e
                                          THEN CHOOSE k \in Catalogue : BlockBase(k) = e
                                          ELSE IF e < MdataPages THEN -1 ELSE 0]
  <2>1. lists \in Maps
    BY InitTypes DEF TypeOK, Maps
  <2>2. live = {} /\ pc = "idle" /\ old = Null /\ CatalogRange
    BY DEF Init
  <2> QED
    BY <2>1, <2>2 DEF CatalogRange
<1>2. \A k \in Catalogue : /\ k \in Orders /\ HasBlock(k) /\ BlockBase(k) \in Nat
                          /\ 2^k \in Nat \ {0} /\ BlockBase(k) % 2^k = 0
                          /\ BlockBase(k) + 2^k <= Catalogued
                          /\ \A j \in Catalogue : k < j => BlockBase(j) + 2^j <= BlockBase(k)
  BY CatalogueBlock, CatalogueApart DEF Catalogue
<1>3. \A k \in Catalogue : BlockBase(k) \in Entries
  <2>1. Catalogued <= NumPages /\ Catalogued \in Nat
    BY LimitIsEven, BuddyAssumption DEF Limit
  <2> QED
    BY <1>2, <2>1, BuddyAssumption DEF Entries
<1>4. \A k, j \in Catalogue : BlockBase(k) = BlockBase(j) => k = j
  <2> SUFFICES ASSUME NEW k \in Catalogue, NEW j \in Catalogue, BlockBase(k) = BlockBase(j), k < j
               PROVE  FALSE
    BY <1>2 DEF Orders
  <2>1. BlockBase(j) + 2^j <= BlockBase(k) /\ BlockBase(j) \in Nat /\ 2^j \in Nat \ {0}
    BY <1>2
  <2> QED
    BY <2>1
<1>5. \A k \in Catalogue : lists.order[BlockBase(k)] = k /\ lists.head[k] = BlockBase(k)
  <2> SUFFICES ASSUME NEW k \in Catalogue
               PROVE  lists.order[BlockBase(k)] = k /\ lists.head[k] = BlockBase(k)
    OBVIOUS
  <2>1. (CHOOSE j \in Catalogue : BlockBase(j) = BlockBase(k)) = k
    BY <1>4
  <2> QED
    BY <1>1, <1>2, <1>3, <2>1
<1>6. \A k \in Orders : k \notin Catalogue => lists.head[k] = Null
  BY <1>1 DEF Catalogue
<1>7. \A x \in Entries : (\A k \in Catalogue : BlockBase(k) # x) => lists.order[x] \in {-1, 0}
  BY <1>1
<1>8. Null \notin Entries
  BY BuddyAssumption DEF Entries
<1>9. \A x \in Entries : Listed(lists, x) <=> \E k \in Catalogue : BlockBase(k) = x
  <2>1. ASSUME NEW x \in Entries, Listed(lists, x) PROVE \E k \in Catalogue : BlockBase(k) = x
    <3>1. lists.order[x] \in Orders /\ lists.head[lists.order[x]] = x
      BY <1>1, <2>1 DEF Listed
    <3>2. lists.order[x] \in Catalogue
      BY <1>6, <1>8, <3>1
    <3> QED
      BY <1>5, <3>1, <3>2
  <2>2. ASSUME NEW k \in Catalogue PROVE Listed(lists, BlockBase(k))
    BY <1>2, <1>5 DEF Listed
  <2> QED
    BY <2>1, <2>2
<1>10. WellLinked(lists)
  <2>1. ASSUME NEW k \in Orders, lists.head[k] # Null
        PROVE  lists.order[lists.head[k]] = k /\ lists.backward[lists.head[k]] = Null
    BY <1>1, <1>3, <1>5, <1>6, <2>1
  <2>2. \A x \in Entries : lists.backward[x] = Null /\ lists.forward[x] = Null
    BY <1>1
  <2> QED
    BY <2>1, <2>2 DEF WellLinked
<1>11. Blocks = {<<BlockBase(k), k>> : k \in Catalogue} /\ InHand = {}
  <2>1. FreeBlocks = {<<BlockBase(k), k>> : k \in Catalogue}
    BY <1>3, <1>5, <1>9 DEF FreeBlocks
  <2>2. InHand = {}
    BY <1>1 DEF InHand
  <2> QED
    BY <1>1, <2>1, <2>2 DEF Blocks
<1>12. ASSUME NEW k \in Catalogue
       PROVE  LET b == <<BlockBase(k), k>>
              IN  /\ b[1] = BlockBase(k) /\ b[2] = k /\ End(b) = BlockBase(k) + 2^k
                  /\ Aligned(b) /\ End(b) <= Limit
  <2> DEFINE b == <<BlockBase(k), k>>
  <2>1. b[1] = BlockBase(k) /\ b[2] = k /\ b \in Nat \X Orders
    BY <1>2
  <2> HIDE DEF b
  <2>2. End(b) = BlockBase(k) + 2^k /\ Aligned(b)
    BY <1>2, <2>1 DEF End, Aligned
  <2>3. BlockBase(k) + 2^k <= Limit
    <3>1. Catalogued \in Nat /\ Catalogued <= Limit /\ Limit \in Nat
      BY LimitIsEven
    <3> QED
      BY <1>2, <3>1
  <2> QED
    BY <2>1, <2>2, <2>3 DEF b
<1>13. Tiled(Blocks)
  <2>1. ASSUME NEW k \in Catalogue, NEW j \in Catalogue, k # j
        PROVE  Beside(<<BlockBase(k), k>>, <<BlockBase(j), j>>)
    <3>1. k < j \/ j < k
      <4>1. k \in Int /\ j \in Int
        BY <1>2 DEF Orders
      <4> QED
        BY <2>1, <4>1
    <3>2. BlockBase(j) + 2^j <= BlockBase(k) \/ BlockBase(k) + 2^k <= BlockBase(j)
      BY <1>2, <3>1
    <3> QED
      BY <1>12, <3>2 DEF Beside
  <2> QED
    BY <1>11, <1>12, <2>1 DEF Tiled
<1>14. Kept
  <2> SUFFICES ASSUME NEW p \in 0 .. Catalogued - 1 PROVE CoveredBy(Blocks, p)
    BY DEF Kept
  <2>1. PICK k \in Catalogue : BlockBase(k) <= p /\ p < BlockBase(k) + 2^k
    BY CatalogueCovers
  <2>2. Covers(<<BlockBase(k), k>>, p)
    BY <1>12, <2>1 DEF Covers
  <2> QED
    BY <1>11, <2>2 DEF CoveredBy
<1>15. Unlisted
  <2> SUFFICES ASSUME NEW x \in Entries, ~CoveredBy(Blocks, x) PROVE lists.order[x] <= 0
    BY DEF Unlisted
  <2>1. \A k \in Catalogue : BlockBase(k) # x
    <3> SUFFICES ASSUME NEW k \in Catalogue, BlockBase(k) = x PROVE FALSE
      OBVIOUS
    <3>1. BlockBase(k) <= x /\ x < BlockBase(k) + 2^k
      BY <1>2
    <3>2. Covers(<<BlockBase(k), k>>, x)
      BY <1>12, <3>1 DEF Covers
    <3> QED
      BY <1>11, <3>2 DEF CoveredBy
  <2>2. lists.order[x] \in {-1, 0}
    BY <1>7, <2>1
  <2> QED
    BY <2>2
<1>16. Merged
  <2> SUFFICES ASSUME NEW x \in Entries, Twins(lists, x) PROVE FALSE
    BY DEF Merged, Twins
  <2> DEFINE y == BuddyOf(x, lists.order[x])
  <2>1. Listed(lists, x) /\ Listed(lists, y) /\ y \in Entries /\ y # Null
        /\ lists.order[y] = lists.order[x]
    BY DEF Twins, Mergeable, BuddyOf
  <2>2. PICK k \in Catalogue : BlockBase(k) = x
    BY <1>9, <2>1
  <2>3. x = y /\ lists.order[x] = k
    BY <1>5, <1>9, <2>1, <2>2
  <2>4. y # x
    BY <1>2, <2>1, <2>2, <2>3, BuddyIs
  <2> QED
    BY <2>3, <2>4
<1>17. Apart /\ Marked /\ Pending
  BY <1>1, <1>13 DEF Apart, Marked, Pending
<1> QED
  BY <1>10, <1>14, <1>15, <1>16, <1>17 DEF Sound

------------------------------------------------------------------------------
(* The theorems.                                                                *)

\* Every call of the allocator keeps, until a removal goes through an outdated forward_,
\* the lists doubly linked, the blocks apart and every page in one (Allocate, Realloc, Free).
THEOREM Invariant == Spec => []IInv
<1>1. Init => IInv
  BY InitTypes, InitSound DEF IInv
<1>2. IInv /\ [Next]_vars => IInv'
  <2> SUFFICES ASSUME IInv, [Next]_vars PROVE IInv'
    OBVIOUS
  <2>1. TypeOK' /\ OrdersKnown'
    BY TypesKept DEF IInv
  <2>2. stale => stale'
    BY DEF Next, ClientCall, Continue, Allocate, Free, StartFree, ReallocInPlace, ReallocMove,
           SplitStep, AllocateEnd, ReallocFree, MergeStep, FreeEnd, vars
  <2>3. ~stale' => Sound'
    BY <2>2, SoundKept DEF IInv
  <2> QED
    BY <2>1, <2>3 DEF IInv
<1> QED
  BY <1>1, <1>2, PTL DEF Spec

\* Links, orders and the running call's variables stay in range, stale or not.
THEOREM TypeCorrect == Spec => []TypeOK
<1>1. IInv => TypeOK
  BY DEF IInv
<1> QED
  BY <1>1, Invariant, PTL

\* PushFront, PopFront and Remove keep the free lists doubly linked.
THEOREM ListsSound == Spec => []LinksSound
<1>1. IInv => LinksSound
  BY DEF IInv, Sound, LinksSound
<1> QED
  BY <1>1, Invariant, PTL

\* The pages of a block, as a set.
LEMMA ExtentIs ==
  ASSUME NEW b, Aligned(b), NEW p \in Int
  PROVE  (p \in Extent(b)) <=> Covers(b, p)
<1>1. b[1] \in Nat /\ End(b) \in Nat /\ b[1] + 2^b[2] = End(b)
  BY BlockIs DEF End
<1>2. Extent(b) = b[1] .. End(b) - 1
  <2>1. 2^b[2] \in Nat
    BY BlockIs, Powers, BuddyAssumption DEF Orders
  <2>2. End(b) - 1 = b[1] + (2^b[2] - 1)
    BY <1>1, <2>1
  <2> QED
    BY <2>2 DEF Extent
<1> QED
  BY <1>1, <1>2 DEF Covers

\* No page is given out twice, or given out and kept on a list.
THEOREM PagesInOneBlock == Spec => []BlocksDisjoint
<1>1. IInv => BlocksDisjoint
  <2> SUFFICES ASSUME IInv, ~stale
               PROVE  /\ live \cap (FreeBlocks \cup InHand) = {}
                      /\ \A b, c \in Blocks : b # c => Extent(b) \cap Extent(c) = {}
                      /\ \A b \in Blocks : b[1] % 2^b[2] = 0 /\ Extent(b) \subseteq Pages
    BY DEF BlocksDisjoint
  <2>1. /\ live \cap (FreeBlocks \cup InHand) = {}
        /\ \A b \in Blocks : Aligned(b) /\ End(b) <= Limit
        /\ \A b, c \in Blocks : b # c => Beside(b, c)
    BY DEF IInv, Sound, Apart, Tiled
  <2>2. ASSUME NEW b \in Blocks
        PROVE  /\ b[1] \in Nat /\ End(b) \in Nat /\ End(b) <= NumPages
               /\ Extent(b) \subseteq Int
    <3>1. b[1] \in Nat /\ End(b) \in Nat /\ b[1] + 2^b[2] = End(b) /\ End(b) <= Limit
      BY <2>1, BlockIs DEF End
    <3> QED
      BY <3>1, LimitIsEven, BuddyAssumption DEF Extent
  <2>3. ASSUME NEW b \in Blocks, NEW c \in Blocks, b # c
        PROVE  Extent(b) \cap Extent(c) = {}
    <3> SUFFICES ASSUME NEW p \in Extent(b), p \in Extent(c) PROVE FALSE
      OBVIOUS
    <3>1. p \in Int /\ Covers(b, p) /\ Covers(c, p)
      BY <2>1, <2>2, ExtentIs
    <3>2. Beside(b, c)
      BY <2>1, <2>3
    <3> QED
      BY <2>2, <3>1, <3>2 DEF Covers, Beside
  <2>4. ASSUME NEW b \in Blocks PROVE Extent(b) \subseteq Pages
    <3> SUFFICES ASSUME NEW p \in Extent(b) PROVE p \in Pages
      OBVIOUS
    <3>1. p \in Int /\ Covers(b, p)
      BY <2>1, <2>2, ExtentIs
    <3> QED
      BY <2>2, <3>1, BuddyAssumption DEF Covers, Pages
  <2> QED
    BY <2>1, <2>3, <2>4 DEF Aligned
<1> QED
  BY <1>1, Invariant, PTL

\* Splitting and merging lose no page.
THEOREM PagesKept == Spec => []NoPageLost
<1>1. IInv => NoPageLost
  <2> SUFFICES ASSUME IInv, ~stale, NEW p \in 0 .. Catalogued - 1
               PROVE  \E b \in Blocks : p \in Extent(b)
    BY DEF NoPageLost
  <2>1. PICK b \in Blocks : Covers(b, p)
    BY DEF IInv, Sound, Kept, CoveredBy
  <2>2. Aligned(b) /\ p \in Int
    BY DEF IInv, Sound, Apart, Tiled
  <2> QED
    BY <2>1, <2>2, ExtentIs
<1> QED
  BY <1>1, Invariant, PTL

\* What Free reads of a block is what Allocate wrote.
THEOREM HeldBlocksMarked == Spec => []LiveMarked
<1>1. IInv => LiveMarked
  BY DEF IInv, Sound, Marked, LiveMarked
<1> QED
  BY <1>1, Invariant, PTL

\* Free merges as long as it can.
THEOREM FreeBuddiesMerged == Spec => []Coalesced
<1>1. IInv => Coalesced
  BY DEF IInv, Sound, Merged, Coalesced
<1> QED
  BY <1>1, Invariant, PTL

================================================================================
