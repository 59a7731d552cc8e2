------------------------- MODULE VirtualMemoryProofs -------------------------
(***************************************************************************)
(* Proofs about the paged virtual memory, for any widths of the addresses, *)
(* any number of frames that the code can work with, and any program.      *)
(***************************************************************************)
EXTENDS VirtualMemory, DataLemmas

-----------------------------------------------------------------------------
(* Powers of two, and page numbers as ways through the tree.               *)

\* A power of two is a number: it counts the subsets of a set.
LEMMA PowerIs ==
    ASSUME NEW n \in Nat
    PROVE  /\ IsFiniteSet(SUBSET (1 .. n))
           /\ 2 ^ n = Cardinality(SUBSET (1 .. n))
           /\ 2 ^ n \in Nat
<1>1. IsFiniteSet(1 .. n) /\ Cardinality(1 .. n) = n
  BY FS_Interval
<1>2. IsFiniteSet(SUBSET (1 .. n)) /\ Cardinality(SUBSET (1 .. n)) = 2 ^ n
  BY <1>1, FS_SUBSET
<1>3. Cardinality(SUBSET (1 .. n)) \in Nat
  BY <1>2, FS_CardinalityType
<1> QED
  BY <1>2, <1>3

\* One more element doubles the number of subsets.
LEMMA PowerNext ==
    ASSUME NEW n \in Nat
    PROVE  2 ^ (n + 1) = 2 * 2 ^ n
<1> DEFINE A == SUBSET (1 .. n)
           B == {s \union {n + 1} : s \in A}
           f == [s \in A |-> s \union {n + 1}]
           m == n + 1
<1>1. IsFiniteSet(A) /\ 2 ^ n = Cardinality(A) /\ 2 ^ n \in Nat
  BY PowerIs
<1>2. 2 ^ m = Cardinality(SUBSET (1 .. m))
  <2>1. m \in Nat
    OBVIOUS
  <2> HIDE DEF m
  <2> QED
    BY <2>1, PowerIs
<1>3. \A s \in A : n + 1 \notin s
  OBVIOUS
<1>4. f \in Bijection(A, B)
  <2>1. f \in [A -> B] /\ \A b \in B : \E a \in A : f[a] = b
    OBVIOUS
  <2>2. ASSUME NEW a \in A, NEW b \in A, f[a] = f[b] PROVE a = b
    <3>1. a = f[a] \ {n + 1} /\ b = f[b] \ {n + 1}
      BY <1>3
    <3> QED
      BY <2>2, <3>1
  <2> HIDE DEF f, A, B
  <2> QED
    BY <2>1, <2>2 DEF Bijection, Injection, Surjection, IsInjective
<1>5. ExistsBijection(A, B)
  BY <1>4 DEF ExistsBijection
<1>6. SUBSET (1 .. m) = A \union B
  <2>1. ASSUME NEW s \in SUBSET (1 .. m) PROVE s \in A \union B
    <3>1. s \ {n + 1} \in A
      OBVIOUS
    <3>2. n + 1 \in s => s = (s \ {n + 1}) \union {n + 1}
      OBVIOUS
    <3> QED
      BY <3>1, <3>2
  <2>2. ASSUME NEW s \in A \union B PROVE s \in SUBSET (1 .. m)
    <3>1. 1 .. n \subseteq 1 .. m /\ n + 1 \in 1 .. m
      OBVIOUS
    <3> HIDE DEF m
    <3> QED
      BY <3>1
  <2> HIDE DEF A, B, m
  <2> QED
    BY <2>1, <2>2
<1>7. A \cap B = {}
  BY <1>3
<1> HIDE DEF A, B, f
<1>8. IsFiniteSet(B) /\ Cardinality(B) = Cardinality(A)
  BY <1>1, <1>5, FS_Bijection
<1>9. Cardinality(A \union B) = Cardinality(A) + Cardinality(B) - Cardinality(A \cap B)
  BY <1>1, <1>8, FS_Union
<1>10. Cardinality(A \cap B) = 0
  BY <1>7, FS_EmptySet
<1>11. 2 ^ m = 2 * 2 ^ n
  <2> DEFINE x == 2 ^ n
             y == Cardinality(A)
  <2>1. 2 ^ m = y + y - 0
    BY <1>2, <1>6, <1>8, <1>9, <1>10, Zenon
  <2>2. x = y /\ y \in Nat
    BY <1>1
  <2> HIDE DEF x, y
  <2>3. y + y - 0 = 2 * y
    BY <2>2
  <2> QED
    BY <2>1, <2>2, <2>3 DEF x
<1> QED
  BY <1>11 DEF m

\* Powers of 2 are positive numbers.
LEMMA PowerPositive ==
    /\ 2 ^ 0 = 1
    /\ \A n \in Nat : 2 ^ n \in Nat \ {0}
<1>1. 2 ^ 0 = 1
  OBVIOUS
<1> DEFINE N == {n \in Nat : 2 ^ n \notin Nat \ {0}}
<1>2. ASSUME N # {} PROVE FALSE
  <2>1. PICK n \in N : \A m \in N : n <= m
    <3>1. N \in SUBSET Nat
      OBVIOUS
    <3> HIDE DEF N
    <3> QED
      BY <1>2, <3>1, LeastNumber
  <2>2. n # 0
    <3>1. 1 \in Nat \ {0}
      OBVIOUS
    <3> QED
      BY <1>1, <2>1, <3>1, Zenon
  <2>3. n - 1 \in Nat /\ n - 1 \notin N /\ (n - 1) + 1 = n
    BY <2>1, <2>2
  <2>4. 2 ^ (n - 1) \in Nat \ {0}
    BY <2>3
  <2>5. 2 ^ n = 2 * 2 ^ (n - 1)
    BY <2>3, PowerNext
  <2>6. 2 ^ n \in Nat \ {0}
    <3> DEFINE x == 2 ^ (n - 1)
    <3> HIDE DEF x
    <3>1. x \in Nat \ {0} => 2 * x \in Nat \ {0}
      OBVIOUS
    <3> QED
      BY <2>4, <2>5, <3>1 DEF x
  <2> QED
    BY <2>6
<1> QED
  BY <1>1, <1>2

\* Widths add, sizes multiply.
LEMMA PowerSum ==
    ASSUME NEW a \in Nat, NEW b \in Nat
    PROVE  2 ^ (a + b) = 2 ^ a * 2 ^ b
<1> DEFINE N == {n \in Nat : 2 ^ (a + n) # 2 ^ a * 2 ^ n}
<1>1. 2 ^ a \in Nat
  BY PowerIs
<1>2. ASSUME N # {} PROVE FALSE
  <2>1. PICK n \in N : \A m \in N : n <= m
    <3>1. N \in SUBSET Nat
      OBVIOUS
    <3> HIDE DEF N
    <3> QED
      BY <1>2, <3>1, LeastNumber
  <2>2. n # 0
    <3>1. 2 ^ (a + 0) = 2 ^ a * 2 ^ 0
      <4>1. a + 0 = a
        OBVIOUS
      <4>2. 2 ^ a * 1 = 2 ^ a
        BY <1>1
      <4> QED
        BY <4>1, <4>2, PowerPositive
    <3> QED
      BY <3>1
  <2>3. n \in Nat /\ n - 1 \in Nat /\ n - 1 \notin N /\ (n - 1) + 1 = n
    BY <2>1, <2>2
  <2> DEFINE m == n - 1
             x == 2 ^ a
             y == 2 ^ m
             z == 2 ^ (a + m)
  <2>4. m \in Nat /\ a + m \in Nat /\ a + n = (a + m) + 1 /\ n = m + 1
    BY <2>3
  <2>5. z = x * y
    BY <2>3, <2>4
  <2>6. 2 ^ ((a + m) + 1) = 2 * z /\ 2 ^ (m + 1) = 2 * y
    <3> HIDE DEF m
    <3> QED
      BY <2>4, PowerNext
  <2>7. x \in Nat /\ y \in Nat
    <3> HIDE DEF m
    <3> QED
      BY <2>4, PowerIs
  <2>8. 2 * (x * y) = x * (2 * y)
    <3> HIDE DEF x, y
    <3> QED
      BY <2>7
  <2>9. 2 ^ (a + n) = 2 ^ a * 2 ^ n
    <3>1. 2 ^ (a + n) = 2 * z
      BY <2>4, <2>6, Zenon
    <3>2. 2 ^ n = 2 * y
      BY <2>4, <2>6, Zenon
    <3>3. 2 ^ (a + n) = 2 * (x * y)
      BY <2>5, <3>1, Zenon
    <3> QED
      BY <2>8, <3>2, <3>3, Zenon
  <2> QED
    BY <2>9
<1> QED
  BY <1>2

\* The quotient and the remainder of a number.
LEMMA QuotientType ==
    ASSUME NEW a \in Nat, NEW b \in Nat \ {0}
    PROVE  a \div b \in Nat /\ a % b \in 0 .. b - 1 /\ a = b * (a \div b) + (a % b)
OBVIOUS

\* The quotient and the remainder are the only numbers of their kind.
LEMMA QuotientIs ==
    ASSUME NEW a \in Nat, NEW b \in Nat \ {0}, NEW q \in Nat, NEW r \in 0 .. b - 1,
           a = b * q + r
    PROVE  a \div b = q /\ a % b = r
<1>1. a \div b \in Nat /\ a % b \in 0 .. b - 1 /\ a = b * (a \div b) + (a % b)
  BY QuotientType
<1> DEFINE p == a \div b
           s == a % b
<1>2. p \in Nat /\ s \in 0 .. b - 1 /\ b * q + r = b * p + s
  BY <1>1
<1> HIDE DEF p, s
<1>3. p = q
  <2>1. b * (q - p) = s - r
    BY <1>2
  <2>2. CASE q - p >= 1
    <3>1. b * (q - p) >= b
      BY <1>2, <2>2
    <3> QED
      BY <1>2, <2>1, <3>1
  <2>3. CASE q - p <= -1
    <3>1. b * (q - p) <= -b
      BY <1>2, <2>3
    <3> QED
      BY <1>2, <2>1, <3>1
  <2> QED
    BY <1>2, <2>2, <2>3
<1>4. s = r
  BY <1>2, <1>3
<1> QED
  BY <1>3, <1>4 DEF p, s


\* Dividing twice is dividing by the product.
LEMMA QuotientOfQuotient ==
    ASSUME NEW a \in Nat, NEW b \in Nat \ {0}, NEW c \in Nat \ {0}
    PROVE  a \div (b * c) = (a \div b) \div c
<1> DEFINE p == a \div b
           r == a % b
           q == p \div c
           s == p % c
<1>1. p \in Nat /\ r \in 0 .. b - 1 /\ a = b * p + r
  BY QuotientType
<1> HIDE DEF p, r
<1>2. q \in Nat /\ s \in 0 .. c - 1 /\ p = c * q + s
  BY <1>1, QuotientType
<1> HIDE DEF q, s
<1>3. b * c \in Nat \ {0}
  OBVIOUS
<1>4. b * s + r \in 0 .. b * c - 1
  <2>1. b * s + r \in Nat
    BY <1>1, <1>2
  <2>2. b * s <= b * (c - 1)
    BY <1>2
  <2>3. b * (c - 1) = b * c - b
    OBVIOUS
  <2> QED
    BY <1>1, <1>2, <1>3, <2>1, <2>2, <2>3
<1>5. a = (b * c) * q + (b * s + r)
  <2>1. b * (c * q + s) = (b * c) * q + b * s
    BY <1>1, <1>2
  <2> QED
    BY <1>1, <1>2, <2>1
<1>6. a \div (b * c) = q
  <2> DEFINE d == b * c
             e == b * s + r
  <2> HIDE DEF d, e
  <2>1. d \in Nat \ {0} /\ e \in 0 .. d - 1 /\ a = d * q + e
    BY <1>3, <1>4, <1>5 DEF d, e
  <2> QED
    BY <1>2, <2>1, QuotientIs DEF d
<1> QED
  BY <1>6 DEF p, q

\* The widths and the depth of the tree.
LEMMA Widths ==
    /\ OffsetWidth \in Nat \ {0} /\ TablesDepth \in Nat \ {0}
    /\ VirtualAddressWidth \in Nat /\ VirtualAddressWidth - OffsetWidth \in Nat
    /\ OffsetWidth * TablesDepth \in Nat
    /\ OffsetWidth * (TablesDepth - 1) \in Nat
    /\ OffsetWidth * (TablesDepth - 1) < VirtualAddressWidth - OffsetWidth
    /\ VirtualAddressWidth - OffsetWidth <= OffsetWidth * TablesDepth
<1> DEFINE w == OffsetWidth
           v == VirtualAddressWidth
           d == (v - 1) \div w
           r == (v - 1) % w
<1>1. w \in Nat \ {0} /\ v \in Nat /\ v > w
  BY WidthAssumption
<1> HIDE DEF w, v
<1>2. d \in Nat /\ r \in 0 .. w - 1 /\ v - 1 = w * d + r
  <2>1. v - 1 \in Nat
    BY <1>1
  <2> QED
    BY <1>1, <2>1, QuotientType
<1> HIDE DEF d, r
<1>3. d # 0
  <2>1. w * 0 = 0
    BY <1>1
  <2> QED
    BY <1>1, <1>2, <2>1
<1>4. w * d \in Nat /\ w * (d - 1) = w * d - w
  BY <1>1, <1>2
<1>5. w * d >= w
  BY <1>1, <1>2, <1>3
<1>6. TablesDepth = d
  BY DEF TablesDepth, d, v, w
<1>7. /\ w \in Nat \ {0} /\ d \in Nat \ {0}
      /\ v \in Nat /\ v - w \in Nat
      /\ w * d \in Nat
      /\ w * (d - 1) \in Nat
      /\ w * (d - 1) < v - w
      /\ v - w <= w * d
  BY <1>1, <1>2, <1>3, <1>4, <1>5
<1> QED
  BY <1>6, <1>7 DEF w, v


\* The pages below a node after the first n levels: Prefix divides by it.
Shift(n) == 2 ^ (OffsetWidth * (TablesDepth - n))

\* A frame has words and the memory has pages.
LEMMA SizesArePositive == PageSize \in Nat \ {0} /\ NumPages \in Nat \ {0} /\ 2 ^ 0 = 1
<1>1. OffsetWidth \in Nat /\ VirtualAddressWidth - OffsetWidth \in Nat
  BY Widths
<1>2. PageSize \in Nat \ {0}
  BY <1>1, PowerPositive DEF PageSize
<1>3. NumPages \in Nat \ {0}
  BY <1>1, PowerPositive DEF NumPages
<1> QED
  BY <1>2, <1>3, PowerPositive

\* Each level of the tree is a digit of the page number.
LEMMA ShiftFacts ==
    ASSUME NEW n \in 0 .. TablesDepth
    PROVE  /\ OffsetWidth * (TablesDepth - n) \in Nat
           /\ Shift(n) \in Nat \ {0}
           /\ n = TablesDepth => Shift(n) = 1
           /\ n < TablesDepth => Shift(n) = Shift(n + 1) * PageSize
<1>1. OffsetWidth \in Nat \ {0} /\ TablesDepth \in Nat \ {0} /\ n \in Nat /\ n <= TablesDepth
  BY Widths
<1> DEFINE w == OffsetWidth
           d == TablesDepth - n
           x == w * d
<1>2. w \in Nat /\ d \in Nat
  BY <1>1
<1>3. x \in Nat
  <2> HIDE DEF w, d
  <2> QED
    BY <1>2
<1>4. 2 ^ x \in Nat \ {0}
  <2> HIDE DEF x
  <2> QED
    BY <1>3, PowerPositive
<1>5. ASSUME n = TablesDepth PROVE Shift(n) = 1
  <2>1. x = 0
    BY <1>1, <1>5
  <2> QED
    BY <2>1, SizesArePositive DEF Shift
<1>6. ASSUME n < TablesDepth PROVE Shift(n) = Shift(n + 1) * PageSize
  <2> DEFINE y == w * (d - 1)
  <2>1. x = y + w /\ y \in Nat
    <3>1. d - 1 \in Nat
      BY <1>1, <1>6
    <3> HIDE DEF d, w
    <3> QED
      BY <1>2, <3>1
  <2>2. 2 ^ (y + w) = 2 ^ y * 2 ^ w
    <3> HIDE DEF y, w
    <3> QED
      BY <1>2, <2>1, PowerSum
  <2>3. TablesDepth - (n + 1) = d - 1
    BY <1>1
  <2> QED
    BY <2>1, <2>2, <2>3 DEF Shift, PageSize
<1> QED
  BY <1>3, <1>4, <1>5, <1>6 DEF Shift

\* A page number is the row, in each table on the way, of the next one.
LEMMA PrefixFacts ==
    ASSUME NEW page \in Nat
    PROVE  /\ \A n \in 0 .. TablesDepth : Prefix(page, n) \in Nat
           /\ Prefix(page, TablesDepth) = page
           /\ \A n \in 0 .. TablesDepth - 1 :
                 /\ Row(page, n) \in Offsets
                 /\ Prefix(page, n) = Prefix(page, n + 1) \div PageSize
                 /\ Prefix(page, n + 1) = PageSize * Prefix(page, n) + Row(page, n)
<1>1. TablesDepth \in Nat \ {0} /\ PageSize \in Nat \ {0}
  BY Widths, SizesArePositive
<1>2. ASSUME NEW n \in 0 .. TablesDepth
      PROVE  Prefix(page, n) \in Nat /\ Prefix(page, n) = page \div Shift(n)
  <2>1. Shift(n) \in Nat \ {0}
    BY ShiftFacts
  <2>2. page \div Shift(n) \in Nat
    BY <2>1, QuotientType
  <2> QED
    BY <2>2 DEF Prefix, Shift
<1>3. Prefix(page, TablesDepth) = page
  <2>1. Shift(TablesDepth) = 1 /\ TablesDepth \in 0 .. TablesDepth
    BY <1>1, ShiftFacts
  <2>2. page \div 1 = page
    OBVIOUS
  <2> QED
    BY <1>2, <2>1, <2>2
<1>4. ASSUME NEW n \in 0 .. TablesDepth - 1
      PROVE  /\ Row(page, n) \in Offsets
             /\ Prefix(page, n) = Prefix(page, n + 1) \div PageSize
             /\ Prefix(page, n + 1) = PageSize * Prefix(page, n) + Row(page, n)
  <2>1. n + 1 \in 0 .. TablesDepth /\ n \in 0 .. TablesDepth /\ n < TablesDepth
    BY <1>1
  <2>2. Shift(n) = Shift(n + 1) * PageSize
    BY <2>1, ShiftFacts
  <2>3. Shift(n + 1) \in Nat \ {0}
    BY <2>1, ShiftFacts
  <2>4. page \div (Shift(n + 1) * PageSize) = (page \div Shift(n + 1)) \div PageSize
    BY <1>1, <2>3, QuotientOfQuotient
  <2>5. Prefix(page, n) = Prefix(page, n + 1) \div PageSize
    BY <1>2, <2>1, <2>2, <2>4
  <2>6. Prefix(page, n + 1) \in Nat
    BY <1>2, <2>1
  <2> QED
    BY <1>1, <2>5, <2>6, QuotientType DEF Row, Offsets
<1> QED
  BY <1>2, <1>3, <1>4

\* Two ways are the same up to a level if they are the same up to the level
\* before and take the same row there.
LEMMA PrefixSplits ==
    ASSUME NEW p \in Nat, NEW q \in Nat, NEW n \in 0 .. TablesDepth - 1
    PROVE  Prefix(p, n + 1) = Prefix(q, n + 1)
             <=> Prefix(p, n) = Prefix(q, n) /\ Row(p, n) = Row(q, n)
<1>1. ASSUME Prefix(p, n + 1) = Prefix(q, n + 1)
      PROVE  Prefix(p, n) = Prefix(q, n) /\ Row(p, n) = Row(q, n)
  <2>1. Prefix(p, n) = Prefix(p, n + 1) \div PageSize
    BY PrefixFacts
  <2>2. Prefix(q, n) = Prefix(q, n + 1) \div PageSize
    BY PrefixFacts
  <2> QED
    BY <1>1, <2>1, <2>2 DEF Row
<1>2. ASSUME Prefix(p, n) = Prefix(q, n), Row(p, n) = Row(q, n)
      PROVE  Prefix(p, n + 1) = Prefix(q, n + 1)
  <2>1. Prefix(p, n + 1) = PageSize * Prefix(p, n) + Row(p, n)
    BY PrefixFacts
  <2>2. Prefix(q, n + 1) = PageSize * Prefix(q, n) + Row(q, n)
    BY PrefixFacts
  <2> QED
    BY <1>2, <2>1, <2>2
<1> QED
  BY <1>1, <1>2

\* All ways start at the root.
LEMMA PrefixOfRoot ==
    ASSUME NEW page \in Pages
    PROVE  page \in Nat /\ page < NumPages /\ Prefix(page, 0) = 0
<1>1. page \in Nat /\ page < NumPages /\ NumPages \in Nat \ {0}
  BY SizesArePositive DEF Pages
<1> DEFINE v == VirtualAddressWidth - OffsetWidth
           x == OffsetWidth * TablesDepth
           k == x - v
<1>2. v \in Nat /\ x \in Nat /\ k \in Nat /\ x = v + k
  BY Widths
<1>3. 2 ^ x = NumPages * 2 ^ k /\ 2 ^ k \in Nat \ {0}
  <2>1. 2 ^ x = 2 ^ v * 2 ^ k
    <3> HIDE DEF v, x, k
    <3>1. 2 ^ (v + k) = 2 ^ v * 2 ^ k
      BY <1>2, PowerSum
    <3> QED
      BY <1>2, <3>1
  <2>2. 2 ^ k \in Nat \ {0}
    <3> HIDE DEF k
    <3> QED
      BY <1>2, PowerPositive
  <2> QED
    BY <2>1, <2>2 DEF NumPages
<1>4. 2 ^ x \in Nat \ {0} /\ page < 2 ^ x
  <2> DEFINE y == 2 ^ k
             z == 2 ^ x
  <2> HIDE DEF y, z
  <2>1. y \in Nat \ {0} /\ z = NumPages * y
    BY <1>3 DEF y, z
  <2>2. NumPages * y >= NumPages /\ NumPages * y \in Nat
    BY <1>1, <2>1
  <2>3. z \in Nat \ {0} /\ page < z
    BY <1>1, <2>1, <2>2
  <2> QED
    BY <2>3 DEF z
<1>5. page \div 2 ^ x = 0
  <2> DEFINE z == 2 ^ x
  <2>1. z \in Nat \ {0} /\ page < z
    BY <1>4
  <2> HIDE DEF z
  <2>2. page = z * 0 + page /\ page \in 0 .. z - 1 /\ 0 \in Nat
    BY <1>1, <2>1
  <2>3. page \div z = 0
    BY <1>1, <2>1, <2>2, QuotientIs
  <2> QED
    BY <2>3 DEF z
<1>6. TablesDepth - 0 = TablesDepth
  BY Widths
<1> QED
  BY <1>1, <1>5, <1>6 DEF Prefix


\* Every row of a table below the root is on the way to a page.
LEMMA EveryRowIsAWay ==
    ASSUME NEW page \in Pages, NEW n \in 1 .. TablesDepth - 1, NEW o \in Offsets
    PROVE  \E q \in Pages : Prefix(q, n) = Prefix(page, n) /\ Row(q, n) = o
<1> DEFINE s == Shift(n + 1)
           a == Prefix(page, n)
           b == PageSize * a + o
           q == s * b
           v == VirtualAddressWidth - OffsetWidth
           x == OffsetWidth * (TablesDepth - n)
           k == v - x
           y == 2 ^ k
<1>1. /\ TablesDepth \in Nat \ {0} /\ PageSize \in Nat \ {0} /\ NumPages \in Nat \ {0}
      /\ page \in Nat /\ page < NumPages
  BY Widths, SizesArePositive, PrefixOfRoot
<1>2. n \in 0 .. TablesDepth - 1 /\ n + 1 \in 0 .. TablesDepth /\ n \in 0 .. TablesDepth
      /\ n < TablesDepth
  BY <1>1
<1>3. s \in Nat \ {0} /\ Shift(n) = s * PageSize /\ Shift(n) \in Nat \ {0}
  BY <1>2, ShiftFacts
<1>4. a \in Nat /\ o \in 0 .. PageSize - 1 /\ page \div Shift(n) = a
  BY <1>1, <1>2, PrefixFacts DEF Offsets, Prefix, Shift
<1>5. v \in Nat /\ x \in Nat /\ k \in Nat /\ x + k = v
  <2> DEFINE w == OffsetWidth
             d == TablesDepth
  <2>1. w \in Nat /\ d \in Nat /\ v \in Nat /\ w * (d - 1) < v /\ n \in 1 .. d - 1
    BY Widths
  <2> HIDE DEF w, d, v
  <2>2. w * (d - n) <= w * (d - 1) /\ w * (d - n) \in Nat
    <3>1. d - n \in Nat /\ d - n <= d - 1
      BY <2>1
    <3> DEFINE e == d - n
               f == d - 1
    <3>2. e \in Nat /\ f \in Nat /\ e <= f
      BY <2>1, <3>1
    <3> HIDE DEF e, f
    <3>3. w * e <= w * f /\ w * e \in Nat
      BY <2>1, <3>2
    <3> QED
      BY <3>3 DEF e, f
  <2>3. x \in Nat /\ x < v
    <3>1. w * (d - 1) \in Nat
      <4>1. d - 1 \in Nat
        BY <2>1
      <4> QED
        BY <2>1, <4>1
    <3>2. x = w * (d - n)
      BY DEF x, w, d
    <3> HIDE DEF x
    <3> QED
      BY <2>1, <2>2, <3>1, <3>2
  <2> HIDE DEF x
  <2> QED
    BY <2>1, <2>3
<1>6. NumPages = Shift(n) * y /\ y \in Nat \ {0}
  <2>1. 2 ^ v = 2 ^ x * 2 ^ k
    <3> HIDE DEF v, x, k
    <3>1. 2 ^ (x + k) = 2 ^ x * 2 ^ k
      BY <1>5, PowerSum
    <3> QED
      BY <1>5, <3>1
  <2>2. y \in Nat \ {0}
    <3> HIDE DEF k
    <3> QED
      BY <1>5, PowerPositive
  <2> QED
    BY <2>1, <2>2 DEF NumPages, Shift
<1> HIDE DEF s, a, y, k
<1>7. a + 1 <= y
  <2> DEFINE t == Shift(n)
             r == page % t
  <2>1. t \in Nat \ {0} /\ r \in 0 .. t - 1 /\ page = t * a + r
    BY <1>1, <1>3, <1>4, QuotientType
  <2> HIDE DEF r
  <2>2. page < t * y
    BY <1>1, <1>6
  <2> HIDE DEF t
  <2>3. CASE a >= y
    <3>1. t * a >= t * y /\ t * a \in Nat
      BY <1>4, <1>6, <2>1, <2>3
    <3>2. t * y \in Nat
      BY <1>6, <2>1
    <3> QED
      BY <2>1, <2>2, <3>1, <3>2
  <2> QED
    BY <1>4, <1>6, <2>3
<1>8. b \in Nat /\ q \in Nat
  <2>1. b \in Nat
    BY <1>1, <1>4
  <2> HIDE DEF b
  <2> QED
    BY <1>3, <2>1
<1>9. q < NumPages
  <2> DEFINE z == PageSize
  <2>1. b + 1 <= z * y
    <3>1. z \in Nat \ {0} /\ o <= z - 1 /\ o \in Nat
      BY <1>1, <1>4
    <3> HIDE DEF z
    <3>2. z * (a + 1) <= z * y
      BY <1>4, <1>6, <1>7, <3>1
    <3>3. z * (a + 1) = z * a + z /\ z * a \in Nat
      BY <1>4, <3>1
    <3>4. z * y \in Nat
      BY <1>6, <3>1
    <3>5. z * a + o + 1 <= z * y
      BY <3>1, <3>2, <3>3, <3>4
    <3> QED
      BY <3>5 DEF z
  <2>2. z * y \in Nat
    BY <1>1, <1>6
  <2> HIDE DEF b
  <2> DEFINE c == z * y
  <2> HIDE DEF c
  <2>3. s * b < s * c /\ s * c \in Nat
    <3>1. b \in Nat /\ c \in Nat /\ b + 1 <= c
      BY <1>8, <2>1, <2>2 DEF c
    <3>2. s * (b + 1) <= s * c /\ s * (b + 1) = s * b + s
      BY <1>3, <3>1
    <3>3. s * b \in Nat /\ s * c \in Nat
      BY <1>3, <3>1
    <3> QED
      BY <1>3, <3>2, <3>3
  <2>4. s * c = NumPages
    <3>1. s * (z * y) = (s * z) * y
      BY <1>1, <1>3, <1>6
    <3> QED
      BY <1>3, <1>6, <3>1 DEF c
  <2> QED
    BY <2>3, <2>4
<1>10. q \in Pages
  BY <1>1, <1>8, <1>9 DEF Pages
<1>11. Prefix(q, n + 1) = b
  <2> HIDE DEF b
  <2>1. q = s * b + 0 /\ 0 \in 0 .. s - 1 /\ b \in Nat
    BY <1>3, <1>8
  <2>2. q \div s = b
    <3> HIDE DEF q
    <3> QED
      BY <1>3, <1>8, <2>1, QuotientIs
  <2> QED
    BY <2>2 DEF Prefix, Shift, s
<1>12. b \div PageSize = a /\ b % PageSize = o
  <2> HIDE DEF b
  <2>1. b = PageSize * a + o
    BY DEF b
  <2> QED
    BY <1>1, <1>4, <1>8, <2>1, QuotientIs
<1>13. Prefix(q, n) = a /\ Row(q, n) = o
  <2> HIDE DEF b, q
  <2>1. Prefix(q, n) = Prefix(q, n + 1) \div PageSize
    BY <1>2, <1>8, PrefixFacts
  <2> QED
    BY <1>11, <1>12, <2>1 DEF Row
<1> QED
  BY <1>10, <1>13 DEF a

\* Pages and offsets name the addresses.
LEMMA AddressFacts ==
    /\ \A a \in Nat : Offset(a) \in Offsets
    /\ \A a \in Nat : a < VirtualMemorySize => PageIndex(a) \in Pages
    /\ \A a, b \in Nat : PageIndex(a) = PageIndex(b) /\ Offset(a) = Offset(b) => a = b
<1>1. PageSize \in Nat \ {0} /\ NumPages \in Nat \ {0}
  BY SizesArePositive
<1>2. ASSUME NEW a \in Nat
      PROVE  Offset(a) \in Offsets /\ PageIndex(a) \in Nat
             /\ a = PageSize * PageIndex(a) + Offset(a)
  BY <1>1, QuotientType DEF Offset, PageIndex, Offsets
<1>3. VirtualMemorySize = PageSize * NumPages
  <2> DEFINE v == VirtualAddressWidth - OffsetWidth
             w == OffsetWidth
  <2>1. w + v = VirtualAddressWidth /\ w \in Nat /\ v \in Nat
    BY Widths
  <2>2. 2 ^ (w + v) = 2 ^ w * 2 ^ v
    <3> HIDE DEF v, w
    <3> QED
      BY <2>1, PowerSum
  <2> QED
    BY <2>1, <2>2 DEF VirtualMemorySize, PageSize, NumPages
<1>4. ASSUME NEW a \in Nat, a < VirtualMemorySize
      PROVE  PageIndex(a) \in Pages
  <2> DEFINE p == PageIndex(a)
             o == Offset(a)
             s == PageSize
             m == NumPages
  <2>1. p \in Nat /\ o \in Nat /\ a = s * p + o /\ a < s * m /\ s \in Nat \ {0} /\ m \in Nat
    BY <1>1, <1>2, <1>3, <1>4 DEF Offsets
  <2> HIDE DEF p, o, s, m
  <2>2. CASE p >= m
    <3>1. s * p >= s * m /\ s * p \in Nat /\ s * m \in Nat
      BY <2>1, <2>2
    <3> QED
      BY <2>1, <3>1
  <2>3. p \in 0 .. m - 1
    BY <2>1, <2>2
  <2> QED
    BY <2>3 DEF Pages, p, m
<1>5. ASSUME NEW a \in Nat, NEW b \in Nat, PageIndex(a) = PageIndex(b), Offset(a) = Offset(b)
      PROVE  a = b
  BY <1>2, <1>5
<1> QED
  BY <1>2, <1>4, <1>5


-----------------------------------------------------------------------------
(* The tree.                                                               *)

\* The recursive function of FrameAt, for any memory, up to a level.
IsWalk(w, levels, memory, page) ==
    w = [n \in 0 .. levels |->
           IF n = 0 THEN Root
           ELSE IF n > 1 /\ w[n - 1] = Root THEN Root ELSE memory[w[n - 1]][Row(page, n - 1)]]

\* FrameAt in any memory, so that it can be used of the next state.
FrameIn(memory, page, levels) == (CHOOSE w : IsWalk(w, TablesDepth, memory, page))[levels]

\* The walk exists: each of its values is given by the one before.
LEMMA WalkExists ==
    ASSUME NEW memory, NEW page, NEW levels \in Nat
    PROVE  \E w : IsWalk(w, levels, memory, page)
<1> DEFINE N == {k \in Nat : ~ \E w : IsWalk(w, k, memory, page)}
<1>1. ASSUME N # {} PROVE FALSE
  <2>1. PICK k \in N : \A j \in N : k <= j
    <3>1. N \in SUBSET Nat
      OBVIOUS
    <3> HIDE DEF N
    <3> QED
      BY <1>1, <3>1, LeastNumber
  <2>2. k # 0
    <3> DEFINE w == [n \in 0 .. 0 |-> Root]
    <3>1. IsWalk(w, 0, memory, page)
      BY DEF IsWalk
    <3> QED
      BY <2>1, <3>1
  <2>3. k \in Nat /\ k - 1 \in Nat /\ k - 1 \notin N
    BY <2>1, <2>2
  <2>4. PICK w : IsWalk(w, k - 1, memory, page)
    BY <2>3
  <2> DEFINE new == IF k > 1 /\ w[k - 1] = Root THEN Root ELSE memory[w[k - 1]][Row(page, k - 1)]
             u == [n \in 0 .. k |-> IF n = k THEN new ELSE w[n]]
  <2>5. \A n \in 0 .. k - 1 : u[n] = w[n]
    BY <2>3
  <2>6. u[k] = new
    BY <2>3
  <2>7. ASSUME NEW n \in 0 .. k
        PROVE  u[n] = IF n = 0 THEN Root
                      ELSE IF n > 1 /\ u[n - 1] = Root THEN Root
                           ELSE memory[u[n - 1]][Row(page, n - 1)]
    <3>1. CASE n = k
      <4>1. u[n - 1] = w[n - 1] /\ n # 0
        BY <2>2, <2>3, <2>5, <3>1
      <4> HIDE DEF u
      <4> QED
        BY <2>6, <3>1, <4>1
    <3>2. CASE n # k
      <4>1. n \in 0 .. k - 1
        BY <2>3, <3>2
      <4>2. n # 0 => n - 1 \in 0 .. k - 1
        BY <2>3, <4>1
      <4>3. w[n] = IF n = 0 THEN Root
                   ELSE IF n > 1 /\ w[n - 1] = Root THEN Root
                        ELSE memory[w[n - 1]][Row(page, n - 1)]
        BY <2>4, <4>1 DEF IsWalk
      <4>4. u[n] = w[n] /\ (n # 0 => u[n - 1] = w[n - 1])
        BY <2>5, <4>1, <4>2
      <4> HIDE DEF u
      <4> QED
        BY <4>3, <4>4
    <3> QED
      BY <3>1, <3>2
  <2>8. IsWalk(u, k, memory, page)
    <3>1. u = [n \in 0 .. k |-> u[n]]
      OBVIOUS
    <3> HIDE DEF u
    <3> QED
      BY <2>7, <3>1 DEF IsWalk
  <2> QED
    BY <2>1, <2>8
<1> QED
  BY <1>1

\* Where the walk starts, and its step.
LEMMA WalkStep ==
    ASSUME NEW memory, NEW page
    PROVE  /\ FrameIn(memory, page, 0) = Root
           /\ \A n \in 0 .. TablesDepth - 1 :
                 FrameIn(memory, page, n + 1)
                   = IF n > 0 /\ FrameIn(memory, page, n) = Root THEN Root
                     ELSE memory[FrameIn(memory, page, n)][Row(page, n)]
<1> DEFINE w == CHOOSE w : IsWalk(w, TablesDepth, memory, page)
<1>1. TablesDepth \in Nat
  BY Widths
<1>2. IsWalk(w, TablesDepth, memory, page)
  BY <1>1, WalkExists
<1>3. \A n : FrameIn(memory, page, n) = w[n]
  BY DEF FrameIn
<1> HIDE DEF w
<1>4. w[0] = Root
  BY <1>1, <1>2 DEF IsWalk
<1>5. ASSUME NEW n \in 0 .. TablesDepth - 1
      PROVE  w[n + 1] = IF n > 0 /\ w[n] = Root THEN Root ELSE memory[w[n]][Row(page, n)]
  <2>1. n + 1 \in 0 .. TablesDepth /\ n + 1 # 0 /\ (n + 1) - 1 = n /\ (n + 1 > 1 <=> n > 0)
    BY <1>1
  <2>2. w[n + 1] = IF n + 1 = 0 THEN Root
                   ELSE IF n + 1 > 1 /\ w[(n + 1) - 1] = Root THEN Root
                        ELSE memory[w[(n + 1) - 1]][Row(page, (n + 1) - 1)]
    BY <1>2, <2>1, Zenon DEF IsWalk
  <2> QED
    BY <2>1, <2>2
<1> QED
  BY <1>3, <1>4, <1>5

\* FrameAt, now and in the next state.
LEMMA FrameAtIs ==
    /\ \A page, n : FrameAt(page, n) = FrameIn(ram, page, n)
    /\ \A page, n : FrameAt(page, n)' = FrameIn(ram', page, n)
BY DEF FrameAt, FrameIn, IsWalk

\* The same at the place of the walk, which changes too.
LEMMA FrameAtCallIs == FrameAt(Page, call.level)' = FrameIn(ram', Page', call'.level)
BY DEF FrameAt, FrameIn, IsWalk

\* The library's Max of 0 .. k.
LEMMA MaxOfInterval ==
    ASSUME NEW k \in Nat
    PROVE  Max(0 .. k) = k
<1>1. k \in 0 .. k /\ \A y \in 0 .. k : k >= y
  OBVIOUS
<1>2. Max(0 .. k) \in 0 .. k /\ Max(0 .. k) >= k
  BY <1>1 DEF Max
<1> DEFINE m == Max(0 .. k)
<1> HIDE DEF m
<1>3. m \in 0 .. k /\ m >= k
  BY <1>2 DEF m
<1>4. m = k
  BY <1>3
<1> QED
  BY <1>4 DEF m


-----------------------------------------------------------------------------
(* The inductive invariant: besides the properties that the runs check, it *)
(* says that tables hold frames, that the tree is one (the same frame is   *)
(* reached by the same way only), and where the written words are.         *)

\* The root, or another table of the tree.
InTree(page, n) == n = 0 \/ FrameAt(page, n) # Root

\* Every row of a table names a frame.
TablesPoint ==
    \A page \in Pages : \A n \in 0 .. TablesDepth - 1 :
        InTree(page, n) => \A o \in Offsets : ram[FrameAt(page, n)][o] \in Frames

\* It is a tree: a frame is on the ways to two pages only where these
\* coincide.
TreeInv ==
    \A p, q \in Pages : \A n, m \in Levels :
        FrameAt(p, n) = FrameAt(q, m) /\ FrameAt(p, n) # Root
            => n = m /\ Prefix(p, n) = Prefix(q, n)

\* The call that is under way has legal arguments, and has restored only a
\* page.
CallInv ==
    Calling => /\ call.op \in {"read", "write"}
               /\ call.op = "write" => call.value \in Values
               /\ call.address \in Addresses
               /\ call.address < VirtualMemorySize
               /\ call.restored => call.level = TablesDepth

\* The page of the call, whose content has not arrived yet.
Pending(page) == Calling /\ Page = page /\ call.restored

\* A word that was written is in memory, or its page was evicted.
WrittenSomewhere ==
    \A a \in written :
        /\ a < VirtualMemorySize
        /\ \/ PageIndex(a) \in DOMAIN swap
           \/ Resident(PageIndex(a)) /\ ~Pending(PageIndex(a))

\* The inductive invariant.
MemoryInv ==
    /\ TypeOK
    /\ TablesPoint
    /\ TreeInv
    /\ CallInv
    /\ PathIntact
    /\ NoFrameLost
    /\ OnePlace
    /\ WrittenSomewhere


\* A way that has ended does not go on.
LEMMA WayEnds ==
    ASSUME NEW page, NEW n \in Levels, NEW m \in n .. TablesDepth, FrameAt(page, n) = Root
    PROVE  FrameAt(page, m) = Root
<1> DEFINE N == {k \in Nat : n + k <= TablesDepth /\ FrameAt(page, n + k) # Root}
<1>1. TablesDepth \in Nat /\ n \in Nat /\ n > 0 /\ m \in Nat /\ n <= m /\ m <= TablesDepth
  BY Widths DEF Levels
<1>2. ASSUME N # {} PROVE FALSE
  <2>1. PICK k \in N : \A j \in N : k <= j
    <3>1. N \in SUBSET Nat
      OBVIOUS
    <3> HIDE DEF N
    <3> QED
      BY <1>2, <3>1, LeastNumber
  <2>2. k \in Nat /\ n + k <= TablesDepth /\ FrameAt(page, n + k) # Root
    OBVIOUS
  <2>3. k # 0
    <3>1. n + 0 = n
      BY <1>1
    <3> QED
      BY <2>2, <3>1
  <2> DEFINE i == n + (k - 1)
  <2>4. k - 1 \in Nat /\ i \in 0 .. TablesDepth - 1 /\ i > 0 /\ i + 1 = n + k /\ i <= TablesDepth
    BY <1>1, <2>2, <2>3
  <2>5. FrameAt(page, i) = Root
    <3>1. k - 1 \notin N
      BY <2>1, <2>2, <2>4
    <3> QED
      BY <2>4, <3>1
  <2> HIDE DEF i, N
  <2>6. FrameAt(page, i + 1) = Root
    BY <2>4, <2>5, WalkStep, FrameAtIs
  <2> QED
    BY <2>2, <2>4, <2>6
<1>3. m - n \in Nat /\ n + (m - n) = m
  BY <1>1
<1>4. m - n \notin N
  BY <1>2
<1> QED
  BY <1>1, <1>3, <1>4

\* The way up to a level is the way to any page behind it.
LEMMA SameWay ==
    ASSUME NEW memory, NEW p \in Nat, NEW q \in Nat, NEW n \in 0 .. TablesDepth,
           Prefix(p, n) = Prefix(q, n)
    PROVE  /\ FrameIn(memory, p, n) = FrameIn(memory, q, n)
           /\ \A m \in 0 .. n : Prefix(p, m) = Prefix(q, m)
<1> DEFINE Good(m) == /\ FrameIn(memory, p, m) = FrameIn(memory, q, m)
                      /\ \A j \in 0 .. m : Prefix(p, j) = Prefix(q, j)
           N == {m \in Nat : m <= TablesDepth /\ Prefix(p, m) = Prefix(q, m) /\ ~Good(m)}
<1>1. TablesDepth \in Nat /\ n \in Nat /\ n <= TablesDepth
  BY Widths
<1>2. ASSUME N # {} PROVE FALSE
  <2>1. PICK m \in N : \A j \in N : m <= j
    <3>1. N \in SUBSET Nat
      OBVIOUS
    <3> HIDE DEF N
    <3> QED
      BY <1>2, <3>1, LeastNumber
  <2>2. m \in Nat /\ m <= TablesDepth /\ Prefix(p, m) = Prefix(q, m) /\ ~Good(m)
    OBVIOUS
  <2>3. m # 0
    <3>1. Prefix(p, 0) = Prefix(q, 0) => Good(0)
      BY WalkStep
    <3> HIDE DEF Good, N
    <3> QED
      BY <2>2, <3>1
  <2> DEFINE k == m - 1
  <2>4. k \in Nat /\ k \in 0 .. TablesDepth - 1 /\ k + 1 = m /\ k <= TablesDepth
    BY <1>1, <2>2, <2>3
  <2> HIDE DEF k
  <2>5. Prefix(p, k) = Prefix(q, k) /\ Row(p, k) = Row(q, k)
    BY <2>2, <2>4, PrefixSplits
  <2>6. Good(k)
    <3>1. k \notin N
      <4>1. ~ m <= k
        BY <2>2, <2>4
      <4> HIDE DEF N
      <4> QED
        BY <2>1, <4>1
    <3> HIDE DEF Good
    <3> QED
      BY <2>4, <2>5, <3>1
  <2>7. FrameIn(memory, p, m) = FrameIn(memory, q, m)
    BY <2>4, <2>5, <2>6, WalkStep
  <2>8. \A j \in 0 .. m : j = m \/ j \in 0 .. k
    BY <2>2, <2>4
  <2> QED
    BY <2>2, <2>6, <2>7, <2>8
<1>3. n \notin N
  BY <1>2
<1>4. Good(n)
  BY <1>1, <1>3
<1> QED
  BY <1>4

\* Steps of the walk over the tree, and what is on it.
LEMMA FrameFacts ==
    ASSUME TablesPoint, NEW page \in Pages
    PROVE  /\ FrameAt(page, 0) = Root
           /\ \A n \in 0 .. TablesDepth : FrameAt(page, n) \in Frames
           /\ \A n \in 0 .. TablesDepth - 1 :
                 /\ FrameAt(page, n + 1) # Root => InTree(page, n)
                 /\ InTree(page, n) => FrameAt(page, n + 1) = ram[FrameAt(page, n)][Row(page, n)]
<1>1. TablesDepth \in Nat \ {0} /\ page \in Nat /\ Root \in Frames
  BY Widths, PrefixOfRoot, FramesAssumption DEF Root, Frames
<1>2. FrameAt(page, 0) = Root
  BY WalkStep, FrameAtIs
<1>3. ASSUME NEW n \in 0 .. TablesDepth - 1
      PROVE  /\ FrameAt(page, n + 1) # Root => InTree(page, n)
             /\ InTree(page, n) => FrameAt(page, n + 1) = ram[FrameAt(page, n)][Row(page, n)]
  BY WalkStep, FrameAtIs DEF InTree
<1>4. ASSUME NEW n \in 0 .. TablesDepth - 1
      PROVE  FrameAt(page, n + 1) \in Frames
  <2>1. Row(page, n) \in Offsets
    BY <1>1, PrefixFacts
  <2>2. CASE InTree(page, n)
    BY <1>3, <2>1, <2>2 DEF TablesPoint
  <2>3. CASE ~InTree(page, n)
    BY <1>1, <1>3, <2>3
  <2> QED
    BY <2>2, <2>3
<1>5. ASSUME NEW n \in 0 .. TablesDepth
      PROVE  FrameAt(page, n) \in Frames
  <2>1. CASE n = 0
    BY <1>1, <1>2, <2>1
  <2>2. CASE n # 0
    <3> DEFINE k == n - 1
    <3>1. k \in 0 .. TablesDepth - 1 /\ k + 1 = n
      BY <1>1, <2>2
    <3> HIDE DEF k
    <3> QED
      BY <1>4, <3>1
  <2> QED
    BY <2>1, <2>2
<1> QED
  BY <1>2, <1>3, <1>5


\* Where the call's walk stands in the tree.
LEMMA CallFacts ==
    ASSUME MemoryInv, Calling
    PROVE  /\ Page \in Pages /\ call.level \in 0 .. TablesDepth
           /\ call.frame \in Frames /\ call.frame = FrameAt(Page, call.level)
           /\ InTree(Page, call.level)
           /\ call.level < TablesDepth =>
                 /\ call.level \in 0 .. TablesDepth - 1
                 /\ ThisRow \in Offsets
                 /\ Child = FrameAt(Page, call.level + 1)
                 /\ ~call.restored
<1>1. Page \in Pages
  BY AddressFacts, ProgramAssumption DEF MemoryInv, CallInv, Page
<1>2. call.level \in 0 .. TablesDepth /\ call.frame \in Frames
  BY DEF MemoryInv, TypeOK
<1>3. call.frame = FrameAt(Page, call.level) /\ InTree(Page, call.level)
  <2>1. call.frame = FrameAt(Page, call.level) /\ (call.level > 0 => call.frame # Root)
    BY DEF MemoryInv, PathIntact
  <2>2. call.level = 0 \/ call.level > 0
    BY <1>2
  <2> QED
    BY <2>1, <2>2 DEF InTree
<1>4. ASSUME call.level < TablesDepth
      PROVE  /\ call.level \in 0 .. TablesDepth - 1
             /\ ThisRow \in Offsets
             /\ Child = FrameAt(Page, call.level + 1)
             /\ ~call.restored
  <2>1. call.level \in 0 .. TablesDepth - 1
    BY <1>2, <1>4, Widths
  <2>2. ThisRow \in Offsets
    BY <1>1, <2>1, PrefixOfRoot, PrefixFacts DEF ThisRow
  <2>3. Child = FrameAt(Page, call.level + 1)
    <3>1. TablesPoint
      BY DEF MemoryInv
    <3> QED
      BY <1>1, <1>3, <2>1, <3>1, FrameFacts DEF Child, ThisRow
  <2>4. ~call.restored
    <3>1. call.restored => call.level = TablesDepth
      BY DEF MemoryInv, CallInv
    <3> QED
      BY <1>4, <2>1, <3>1
  <2> QED
    BY <2>1, <2>2, <2>3, <2>4
<1> QED
  BY <1>1, <1>2, <1>3, <1>4

\* The frames in use and the last of them.
LEMMA UsedFacts ==
    ASSUME MemoryInv
    PROVE  /\ UsedFrames \in SUBSET Frames /\ Root \in UsedFrames
           /\ Max(UsedFrames) \in UsedFrames /\ Max(UsedFrames) \in Nat
           /\ \A f \in UsedFrames : f <= Max(UsedFrames)
           /\ UsedFrames = 0 .. Max(UsedFrames)
<1>1. TablesPoint /\ NumFrames \in Nat /\ TablesDepth \in Nat \ {0} /\ NumFrames > TablesDepth
  BY FramesAssumption, Widths DEF MemoryInv
<1>2. UsedFrames \in SUBSET Frames /\ Root \in UsedFrames
  <2>1. \A page \in Pages : \A n \in Levels : FrameAt(page, n) \in Frames
    <3>1. \A n \in Levels : n \in 0 .. TablesDepth
      BY <1>1 DEF Levels
    <3> QED
      BY <1>1, <3>1, FrameFacts
  <2> QED
    BY <1>1, <2>1 DEF UsedFrames, Frames, Root
<1> DEFINE U == UsedFrames
           N == {n \in Nat : \E f \in U : n = NumFrames - f}
<1>3. U \in SUBSET (0 .. NumFrames - 1) /\ 0 \in U
  BY <1>2 DEF Frames, Root
<1> HIDE DEF U
<1>4. PICK n \in N : \A m \in N : n <= m
  <2>1. N \in SUBSET Nat
    OBVIOUS
  <2>2. NumFrames \in N
    BY <1>1, <1>3
  <2>3. N # {}
    BY <2>2
  <2> HIDE DEF N
  <2> QED
    BY <2>1, <2>3, LeastNumber
<1>5. PICK f \in U : n = NumFrames - f
  BY <1>4
<1>6. \A g \in U : f >= g
  <2>1. ASSUME NEW g \in U PROVE f >= g
    <3>1. NumFrames - g \in N
      BY <1>1, <1>3
    <3>2. n <= NumFrames - g
      BY <1>4, <3>1
    <3> QED
      BY <1>1, <1>3, <1>5, <3>2
  <2> QED
    BY <2>1
<1>7. Max(U) \in U /\ \A g \in U : Max(U) >= g
  BY <1>5, <1>6 DEF Max
<1>8. Max(U) \in Nat /\ \A g \in U : g <= Max(U)
  <2> DEFINE x == Max(U)
  <2> HIDE DEF x
  <2>1. x \in U /\ \A g \in U : x >= g
    BY <1>7 DEF x
  <2>2. x \in Nat /\ \A g \in U : g <= x
    BY <1>1, <1>3, <2>1
  <2> QED
    BY <2>2 DEF x
<1>9. UsedFrames = 0 .. Max(UsedFrames)
  BY DEF MemoryInv, NoFrameLost
<1> QED
  BY <1>2, <1>7, <1>8, <1>9 DEF U

-----------------------------------------------------------------------------
(* The step that gives the walk a frame, whichever way it was found.       *)

\* What get_frame and the rest of the step have done: the frame has left its
\* old place in the tree, if it had one, and is the child the walk missed.
Placed(frame) ==
    /\ frame \in Frames \ {Root, call.frame}
    /\ frame \in UsedFrames \/ frame = FirstFresh
    /\ ram' \in [Frames -> [Offsets -> Words]]
    /\ ram'[call.frame][ThisRow] = frame
    /\ ~AtLastLevel => \A o \in Offsets : ram'[frame][o] = Root
    /\ \A q \in Pages : \A n \in 0 .. TablesDepth - 1 :
          InTree(q, n) /\ FrameAt(q, n) # frame =>
             /\ \A o \in Offsets : ram'[FrameAt(q, n)][o] \in Frames
             /\ ~(n = call.level /\ Prefix(q, n + 1) = Prefix(Page, n + 1)) =>
                   ram'[FrameAt(q, n)][Row(q, n)]
                     = IF FrameAt(q, n + 1) = frame THEN Root ELSE FrameAt(q, n + 1)
    /\ \A q \in Pages : \A n \in 1 .. TablesDepth - 1 :
          FrameAt(q, n) = frame => FrameAt(q, n + 1) = Root
    /\ \A q \in Pages :
          Resident(q) /\ FrameAt(q, TablesDepth) # frame =>
             ram'[FrameAt(q, TablesDepth)] = ram[FrameAt(q, TablesDepth)]

\* The way to the child that the walk missed.
Below(q, n) == n > call.level /\ Prefix(q, call.level + 1) = Prefix(Page, call.level + 1)

\* The tree after the step.
Moved(q, n, frame) ==
    IF Below(q, n) THEN IF n = call.level + 1 THEN frame ELSE Root
    ELSE IF FrameAt(q, n) = frame THEN Root ELSE FrameAt(q, n)

\* How a step that hangs a frame into the tree changes the way to every page.
LEMMA PlacedMoves ==
    ASSUME MemoryInv, Missing, NEW frame, Placed(frame), NEW q \in Pages
    PROVE  \A n \in 0 .. TablesDepth : FrameAt(q, n)' = Moved(q, n, frame)
<1> DEFINE N == {n \in Nat : n <= TablesDepth /\ FrameAt(q, n)' # Moved(q, n, frame)}
           L == call.level
<1>1. /\ TablesDepth \in Nat \ {0} /\ TablesPoint /\ q \in Nat
      /\ Page \in Pages /\ Page \in Nat /\ L \in 0 .. TablesDepth - 1
      /\ call.frame = FrameAt(Page, L) /\ InTree(Page, L)
      /\ frame # Root /\ frame # call.frame
  BY Widths, CallFacts, PrefixOfRoot DEF MemoryInv, Missing, Walking, Placed
<1> HIDE DEF L
<1>2. ASSUME N # {} PROVE FALSE
  <2>1. PICK n \in N : \A m \in N : n <= m
    <3>1. N \in SUBSET Nat
      OBVIOUS
    <3> HIDE DEF N
    <3> QED
      BY <1>2, <3>1, LeastNumber
  <2>2. n \in Nat /\ n <= TablesDepth /\ FrameAt(q, n)' # Moved(q, n, frame)
    OBVIOUS
  <2>3. n # 0
    <3>1. FrameAt(q, 0) = Root /\ FrameAt(q, 0)' = Root
      BY WalkStep, FrameAtIs
    <3>2. ~Below(q, 0)
      BY <1>1 DEF Below, L
    <3>3. Moved(q, 0, frame) = Root
      BY <3>1, <3>2 DEF Moved
    <3> QED
      BY <2>2, <3>1, <3>3
  <2> DEFINE k == n - 1
  <2>4. k \in Nat /\ k \in 0 .. TablesDepth - 1 /\ k + 1 = n /\ k <= TablesDepth /\ ~ n <= k
    BY <1>1, <2>2, <2>3
  <2> HIDE DEF k
  <2>5. FrameAt(q, k)' = Moved(q, k, frame)
    <3>1. k \notin N
      <4> HIDE DEF N
      <4> QED
        BY <2>1, <2>4
    <3> QED
      BY <2>4, <3>1
  <2> HIDE DEF N
  <2>6. FrameAt(q, n)' = IF k > 0 /\ FrameAt(q, k)' = Root THEN Root
                         ELSE ram'[FrameAt(q, k)'][Row(q, k)]
    BY <2>4, WalkStep, FrameAtIs
  <2>7. CASE Below(q, n)
    <3>1. n > L /\ Prefix(q, L + 1) = Prefix(Page, L + 1)
      BY <2>7 DEF Below, L
    <3>2. CASE n = L + 1
      <4>1. k = L /\ ~Below(q, k)
        BY <1>1, <2>4, <3>2 DEF Below, L
      <4>2. Prefix(q, L) = Prefix(Page, L) /\ Row(q, L) = Row(Page, L)
        BY <1>1, <3>1, PrefixSplits
      <4>3. FrameAt(q, k) = call.frame
        <5>1. L \in 0 .. TablesDepth
          BY <1>1
        <5> QED
          BY <1>1, <4>1, <4>2, <5>1, SameWay, FrameAtIs
      <4>4. FrameAt(q, k)' = call.frame
        BY <1>1, <2>5, <4>1, <4>3 DEF Moved
      <4>5. ~(k > 0 /\ call.frame = Root)
        BY <1>1, <4>1 DEF InTree
      <4>6. ram'[call.frame][Row(q, k)] = frame
        BY <4>1, <4>2 DEF Placed, ThisRow, L
      <4>7. FrameAt(q, n)' = frame
        BY <2>6, <4>4, <4>5, <4>6
      <4>8. Moved(q, n, frame) = frame
        BY <2>7, <3>2 DEF Moved, L
      <4> QED
        BY <2>2, <4>7, <4>8
    <3>3. CASE n # L + 1
      <4>1. k > L /\ Below(q, k) /\ k > 0
        BY <1>1, <2>4, <3>1, <3>3 DEF Below, L
      <4>2. Moved(q, n, frame) = Root
        BY <2>7, <3>3 DEF Moved, L
      <4>3. CASE k = L + 1
        <5>1. FrameAt(q, k)' = frame
          BY <2>5, <4>1, <4>3 DEF Moved, L
        <5>2. ~AtLastLevel
          BY <1>1, <2>4, <4>3 DEF AtLastLevel, L
        <5>3. Row(q, k) \in Offsets
          BY <1>1, <2>4, PrefixFacts
        <5>4. ram'[frame][Row(q, k)] = Root
          BY <5>2, <5>3 DEF Placed
        <5> QED
          BY <1>1, <2>2, <2>6, <4>2, <5>1, <5>4
      <4>4. CASE k # L + 1
        <5>1. FrameAt(q, k)' = Root
          BY <2>5, <4>1, <4>4 DEF Moved, L
        <5> QED
          BY <2>2, <2>6, <4>1, <4>2, <5>1
      <4> QED
        BY <4>3, <4>4
    <3> QED
      BY <3>2, <3>3
  <2>8. CASE ~Below(q, n)
    <3>1. ~Below(q, k)
      BY <1>1, <2>4, <2>8 DEF Below, L
    <3>2. Moved(q, n, frame) = IF FrameAt(q, n) = frame THEN Root ELSE FrameAt(q, n)
      BY <2>8 DEF Moved
    <3>3. Moved(q, k, frame) = IF FrameAt(q, k) = frame THEN Root ELSE FrameAt(q, k)
      BY <3>1 DEF Moved
    <3>4. CASE FrameAt(q, k) = frame
      <4>1. k > 0
        <5>1. FrameAt(q, 0) = Root
          BY WalkStep, FrameAtIs
        <5> QED
          BY <1>1, <2>4, <3>4, <5>1
      <4>2. FrameAt(q, n) = Root
        <5>1. k \in 1 .. TablesDepth - 1
          BY <1>1, <2>4, <4>1
        <5> QED
          BY <2>4, <3>4, <5>1 DEF Placed
      <4> QED
        BY <1>1, <2>2, <2>5, <2>6, <3>2, <3>3, <3>4, <4>1, <4>2
    <3>5. CASE FrameAt(q, k) # frame /\ ~InTree(q, k)
      <4>1. k > 0 /\ FrameAt(q, k) = Root
        BY <2>4, <3>5 DEF InTree
      <4>2. FrameAt(q, n) = Root
        BY <1>1, <2>4, <3>5, FrameFacts
      <4> QED
        BY <1>1, <2>2, <2>5, <2>6, <3>2, <3>3, <3>5, <4>1, <4>2
    <3>6. CASE FrameAt(q, k) # frame /\ InTree(q, k)
      <4>1. FrameAt(q, k)' = FrameAt(q, k)
        BY <2>5, <3>3, <3>6
      <4>2. ~(k > 0 /\ FrameAt(q, k) = Root)
        BY <2>4, <3>6 DEF InTree
      <4>3. ~(k = L /\ Prefix(q, k + 1) = Prefix(Page, k + 1))
        BY <1>1, <2>4, <2>8 DEF Below, L
      <4>4. ram'[FrameAt(q, k)][Row(q, k)]
              = IF FrameAt(q, k + 1) = frame THEN Root ELSE FrameAt(q, k + 1)
        BY <2>4, <3>6, <4>3 DEF Placed, L
      <4> QED
        BY <2>2, <2>4, <2>6, <3>2, <4>1, <4>2, <4>4
    <3> QED
      BY <3>4, <3>5, <3>6
  <2> QED
    BY <2>7, <2>8
<1>3. ASSUME NEW n \in 0 .. TablesDepth
      PROVE  FrameAt(q, n)' = Moved(q, n, frame)
  <2>1. n \in Nat /\ n <= TablesDepth
    BY <1>1
  <2> QED
    BY <1>2, <2>1
<1> QED
  BY <1>3


\* A page behind the missing child was not resident, nor was any table on
\* the rest of its way in the tree.
LEMMA NothingBelow ==
    ASSUME MemoryInv, Missing, NEW q \in Pages, NEW n \in Levels, Below(q, n)
    PROVE  FrameAt(q, n) = Root
<1> DEFINE L == call.level
<1>1. /\ TablesDepth \in Nat \ {0} /\ q \in Nat /\ Page \in Nat /\ L \in 0 .. TablesDepth - 1
      /\ FrameAt(Page, L + 1) = Root /\ n \in 1 .. TablesDepth
  BY Widths, CallFacts, PrefixOfRoot DEF Missing, Walking, Levels
<1> HIDE DEF L
<1>2. n > L /\ Prefix(q, L + 1) = Prefix(Page, L + 1)
  BY DEF Below, L
<1>3. L + 1 \in 0 .. TablesDepth /\ L + 1 \in Levels /\ n \in L + 1 .. TablesDepth
  BY <1>1, <1>2 DEF Levels
<1>4. FrameAt(q, L + 1) = Root
  BY <1>1, <1>2, <1>3, SameWay, FrameAtIs
<1> QED
  BY <1>3, <1>4, WayEnds

\* It is still a tree, with the walk's way intact and every used frame in it.
LEMMA PlacedKeepsTree ==
    ASSUME MemoryInv, Missing, NEW frame, Placed(frame), Descend(frame)
    PROVE  TablesPoint' /\ TreeInv' /\ PathIntact' /\ NoFrameLost'
<1> DEFINE L == call.level
<1>1. /\ TablesDepth \in Nat \ {0} /\ TablesPoint /\ TreeInv
      /\ Page \in Pages /\ L \in 0 .. TablesDepth - 1
      /\ call.frame = FrameAt(Page, L) /\ InTree(Page, L)
      /\ frame # Root /\ frame # call.frame /\ frame \in Frames /\ Root \in Frames
  BY Widths, CallFacts, UsedFacts DEF MemoryInv, Missing, Walking, Placed
<1>2. call' = [call EXCEPT !.level = L + 1, !.frame = frame,
                           !.restored = Child = Root /\ AtLastLevel]
  BY DEF Descend
<1>3. call \in [op : {"none", "read", "write"}, address : Addresses \union {0},
                 value : Values \union {0}, level : 0 .. TablesDepth,
                 frame : Frames, restored : BOOLEAN]
  BY DEF MemoryInv, TypeOK
<1>4. call'.level = L + 1 /\ call'.frame = frame /\ call'.address = call.address
  BY <1>2, <1>3
<1>5. \A q \in Pages : \A n \in 0 .. TablesDepth : FrameAt(q, n)' = Moved(q, n, frame)
  BY PlacedMoves
<1> HIDE DEF L
<1>6. TablesPoint'
  <2> SUFFICES ASSUME NEW q \in Pages, NEW n \in 0 .. TablesDepth - 1,
                      n = 0 \/ FrameAt(q, n)' # Root, NEW o \in Offsets
               PROVE  ram'[FrameAt(q, n)'][o] \in Frames
    BY DEF TablesPoint, InTree
  <2>1. n \in 0 .. TablesDepth /\ n \in Nat
    BY <1>1
  <2>2. FrameAt(q, n)' = Moved(q, n, frame)
    BY <1>5, <2>1
  <2>3. CASE Below(q, n)
    <3>1. n # 0
      BY <1>1, <2>3 DEF Below, L
    <3>2. n = L + 1 /\ FrameAt(q, n)' = frame
      BY <2>2, <2>3, <3>1 DEF Moved, L
    <3>3. ~AtLastLevel
      BY <1>1, <3>2 DEF AtLastLevel, L
    <3> QED
      BY <1>1, <3>2, <3>3 DEF Placed
  <2>4. CASE ~Below(q, n)
    <3>1. FrameAt(q, n)' = IF FrameAt(q, n) = frame THEN Root ELSE FrameAt(q, n)
      BY <2>2, <2>4 DEF Moved
    <3>2. FrameAt(q, 0) = Root
      BY <1>1, FrameFacts
    <3>3. FrameAt(q, n) # frame
      BY <1>1, <3>1, <3>2
    <3>4. InTree(q, n) /\ FrameAt(q, n)' = FrameAt(q, n)
      BY <3>1, <3>3 DEF InTree
    <3> QED
      BY <3>3, <3>4 DEF Placed
  <2> QED
    BY <2>3, <2>4
<1>7. TreeInv'
  <2> SUFFICES ASSUME NEW p \in Pages, NEW q \in Pages, NEW n \in Levels, NEW m \in Levels,
                      FrameAt(p, n)' = FrameAt(q, m)', FrameAt(p, n)' # Root
               PROVE  n = m /\ Prefix(p, n) = Prefix(q, n)
    BY DEF TreeInv
  <2>1. n \in 0 .. TablesDepth /\ m \in 0 .. TablesDepth
    BY <1>1 DEF Levels
  <2>2. FrameAt(p, n)' = Moved(p, n, frame) /\ FrameAt(q, m)' = Moved(q, m, frame)
    BY <1>5, <2>1
  <2>3. Below(p, n) <=> FrameAt(p, n)' = frame
    BY <1>1, <2>2 DEF Moved
  <2>4. Below(q, m) <=> FrameAt(q, m)' = frame
    BY <1>1, <2>2 DEF Moved
  <2>5. CASE Below(p, n)
    <3>1. Below(q, m)
      BY <2>3, <2>4, <2>5
    <3>2. n = L + 1 /\ m = L + 1
      BY <2>2, <2>5, <3>1 DEF Moved, L
    <3> QED
      BY <2>5, <3>1, <3>2 DEF Below, L
  <2>6. CASE ~Below(p, n)
    <3>1. ~Below(q, m)
      BY <2>3, <2>4, <2>6
    <3>2. FrameAt(p, n) = FrameAt(p, n)' /\ FrameAt(q, m) = FrameAt(q, m)'
      BY <2>2, <2>6, <3>1 DEF Moved
    <3>3. FrameAt(p, n) = FrameAt(q, m) /\ FrameAt(p, n) # Root
      BY <3>2
    <3> QED
      BY <1>1, <3>3 DEF TreeInv
  <2> QED
    BY <2>5, <2>6
<1>8. PathIntact'
  <2>1. Page' = Page
    BY <1>4 DEF Page
  <2>2. L + 1 \in 0 .. TablesDepth
    BY <1>1
  <2>3. Below(Page, L + 1)
    BY <1>1 DEF Below, L
  <2>4. FrameIn(ram', Page, L + 1) = frame
    <3>1. Moved(Page, L + 1, frame) = frame
      BY <2>3 DEF Moved, L
    <3>2. \A q \in Pages : \A n \in 0 .. TablesDepth : FrameIn(ram', q, n) = Moved(q, n, frame)
      BY <1>5, FrameAtIs
    <3> QED
      BY <1>1, <2>2, <3>1, <3>2
  <2>5. FrameAt(Page, call.level)' = frame
    BY <1>4, <2>1, <2>4, FrameAtCallIs
  <2> QED
    BY <1>1, <1>4, <2>5 DEF PathIntact
<1>9. NoFrameLost'
  <2>1. \A q \in Pages : \A n \in Levels :
           \/ FrameAt(q, n)' = frame
           \/ FrameAt(q, n)' \in {Root, FrameAt(q, n)}
    <3>1. \A n \in Levels : n \in 0 .. TablesDepth
      BY <1>1 DEF Levels
    <3> QED
      BY <1>5, <3>1 DEF Moved
  <2>2. \A q \in Pages : \A n \in Levels :
           FrameAt(q, n) \in {Root, frame} \/ FrameAt(q, n)' = FrameAt(q, n)
    <3> SUFFICES ASSUME NEW q \in Pages, NEW n \in Levels, FrameAt(q, n) # Root,
                        FrameAt(q, n) # frame
                 PROVE  FrameAt(q, n)' = FrameAt(q, n)
      OBVIOUS
    <3>1. ~Below(q, n)
      BY NothingBelow
    <3>2. n \in 0 .. TablesDepth
      BY <1>1 DEF Levels
    <3> QED
      BY <1>5, <3>1, <3>2 DEF Moved
  <2>4. \E q \in Pages : \E n \in Levels : FrameAt(q, n)' = frame
    <3>1. PICK n \in Levels : n = L + 1
      BY <1>1 DEF Levels
    <3>2. PICK q \in Pages : q = Page
      BY <1>1
    <3>3. Below(q, n) /\ n \in 0 .. TablesDepth
      BY <1>1, <3>1, <3>2 DEF Below, L, Levels
    <3>4. FrameAt(q, n)' = frame
      BY <1>5, <3>1, <3>3 DEF Moved, L
    <3> QED
      BY <3>4
  <2>5. UsedFrames' = {Root} \union {FrameAt(q, n)' : q \in Pages, n \in Levels}
    BY DEF UsedFrames
  <2> DEFINE V == {FrameAt(q, n) : q \in Pages, n \in Levels}
             W == {FrameAt(q, n)' : q \in Pages, n \in Levels}
  <2>6. \A f \in W : f \in V \union {Root, frame}
    BY <2>1
  <2>7. \A f \in V : f \in W \union {Root, frame}
    BY <2>2
  <2>8. frame \in W
    BY <2>4
  <2>9. UsedFrames = {Root} \union V
    BY DEF UsedFrames
  <2> HIDE DEF V, W
  <2>10. UsedFrames' = UsedFrames \union {frame}
    BY <2>5, <2>6, <2>7, <2>8, <2>9 DEF W
  <2> DEFINE M == Max(UsedFrames)
  <2>11. M \in Nat /\ UsedFrames = 0 .. M /\ (frame \in UsedFrames \/ frame = M + 1)
    BY UsedFacts DEF Placed, FirstFresh
  <2> HIDE DEF M
  <2>12. \E k \in Nat : UsedFrames' = 0 .. k
    <3>1. CASE frame \in UsedFrames
      <4>1. UsedFrames' = UsedFrames
        BY <2>10, <3>1
      <4> QED
        BY <2>11, <4>1
    <3>2. CASE frame = M + 1
      <4>1. UsedFrames' = 0 .. M \union {M + 1}
        BY <2>10, <2>11, <3>2
      <4>2. 0 .. M \union {M + 1} = 0 .. M + 1 /\ M + 1 \in Nat
        BY <2>11
      <4> QED
        BY <4>1, <4>2
    <3> QED
      BY <2>11, <3>1, <3>2
  <2> QED
    BY <2>12, MaxOfInterval DEF NoFrameLost
<1> QED
  BY <1>6, <1>7, <1>8, <1>9


\* What the step does to the swap file: the frame was no page's, or its page
\* has been evicted.
Swapped(frame) ==
    \/ /\ swap' = swap
       /\ \A q \in Pages : Resident(q) => FrameAt(q, TablesDepth) # frame
    \/ \E q \in Pages \ {Page} :
          /\ Resident(q)
          /\ FrameAt(q, TablesDepth) = frame
          /\ swap' = PMevict(q, ram[frame])

\* Every page stays where it is, or is evicted with its words, or was away.
Stays(q) ==
    /\ Resident(q) /\ Resident(q)' /\ q # Page
    /\ FrameAt(q, TablesDepth)' = FrameAt(q, TablesDepth)
    /\ ram'[FrameAt(q, TablesDepth)] = ram[FrameAt(q, TablesDepth)]
    /\ q \in DOMAIN swap' <=> q \in DOMAIN swap

\* The page is written to the swap file and leaves the memory.
IsEvicted(q) ==
    /\ Resident(q) /\ ~Resident(q)' /\ q # Page
    /\ q \in DOMAIN swap'
    /\ swap'[q] = ram[FrameAt(q, TablesDepth)]

\* The page was away and stays away, unless it is the one the call wants.
IsAway(q) ==
    /\ ~Resident(q)
    /\ q \in DOMAIN swap' <=> q \in DOMAIN swap
    /\ q \in DOMAIN swap => swap'[q] = swap[q]
    /\ Resident(q)' => q = Page /\ AtLastLevel

\* A step that hangs a frame into the tree does one of the three to every
\* page.
LEMMA PlacedKeepsPages ==
    ASSUME MemoryInv, Missing, NEW frame, Placed(frame), Swapped(frame), NEW q \in Pages
    PROVE  Stays(q) \/ IsEvicted(q) \/ IsAway(q)
<1> DEFINE D == TablesDepth
           L == call.level
<1>1. /\ D \in Nat \ {0} /\ D \in Levels /\ D \in 0 .. D /\ TreeInv
      /\ Page \in Pages /\ L \in 0 .. D - 1 /\ frame # Root /\ q \in Nat /\ Page \in Nat
  BY Widths, CallFacts, PrefixOfRoot DEF MemoryInv, Missing, Walking, Placed, Levels
<1>2. FrameAt(q, D)' = Moved(q, D, frame)
  BY <1>1, PlacedMoves
<1>3. Resident(q) <=> FrameAt(q, D) # Root
  BY DEF Resident
<1>4. Resident(q)' <=> FrameAt(q, D)' # Root
  BY DEF Resident
<1>5. \A p \in Pages : FrameAt(p, D) = FrameAt(q, D) /\ FrameAt(p, D) # Root => p = q
  <2> SUFFICES ASSUME NEW p \in Pages, FrameAt(p, D) = FrameAt(q, D), FrameAt(p, D) # Root
               PROVE  p = q
    OBVIOUS
  <2>1. Prefix(p, D) = Prefix(q, D)
    BY <1>1 DEF TreeInv
  <2>2. Prefix(p, D) = p /\ Prefix(q, D) = q
    BY PrefixFacts, PrefixOfRoot
  <2> QED
    BY <2>1, <2>2
<1>6. ~Resident(Page)
  <2>1. Below(Page, D)
    BY <1>1 DEF Below
  <2> QED
    BY <1>1, <2>1, NothingBelow DEF Resident
<1>7. ~Resident(q) \/ FrameAt(q, D) # frame =>
         /\ q \in DOMAIN swap' <=> q \in DOMAIN swap
         /\ q \in DOMAIN swap => swap'[q] = swap[q]
  <2>1. CASE swap' = swap
    BY <2>1
  <2>2. ASSUME NEW e \in Pages, Resident(e), FrameAt(e, D) = frame,
               swap' = PMevict(e, ram[frame])
        PROVE  q # e => /\ q \in DOMAIN swap' <=> q \in DOMAIN swap
                        /\ q \in DOMAIN swap => swap'[q] = swap[q]
    BY <2>2 DEF PMevict
  <2> QED
    BY <2>1, <2>2 DEF Swapped
<1>8. CASE ~Resident(q)
  <2>1. Resident(q)' => q = Page /\ AtLastLevel
    <3> SUFFICES ASSUME Resident(q)' PROVE q = Page /\ AtLastLevel
      OBVIOUS
    <3>1. FrameAt(q, D) = Root /\ FrameAt(q, D)' # Root
      BY <1>3, <1>4, <1>8
    <3>2. Below(q, D) /\ D = L + 1
      BY <1>1, <1>2, <3>1 DEF Moved
    <3>3. Prefix(q, D) = Prefix(Page, D)
      BY <3>2 DEF Below
    <3>4. Prefix(q, D) = q /\ Prefix(Page, D) = Page
      BY <1>1, PrefixFacts
    <3> QED
      BY <1>1, <3>2, <3>3, <3>4 DEF AtLastLevel
  <2> QED
    BY <1>7, <1>8, <2>1 DEF IsAway
<1>9. CASE Resident(q)
  <2>1. q # Page
    BY <1>6, <1>9
  <2>2. ~Below(q, D)
    BY <1>1, <1>3, <1>9, NothingBelow
  <2>3. FrameAt(q, D)' = IF FrameAt(q, D) = frame THEN Root ELSE FrameAt(q, D)
    BY <1>2, <2>2 DEF Moved
  <2>4. CASE FrameAt(q, D) = frame
    <3>1. PICK e \in Pages : /\ Resident(e) /\ FrameAt(e, D) = frame
                             /\ swap' = PMevict(e, ram[frame])
      BY <1>9, <2>4 DEF Swapped
    <3>2. e = q
      BY <1>1, <1>5, <2>4, <3>1
    <3>3. q \in DOMAIN swap' /\ swap'[q] = ram[frame]
      BY <3>1, <3>2 DEF PMevict
    <3> QED
      BY <1>4, <1>9, <2>1, <2>3, <2>4, <3>3 DEF IsEvicted
  <2>5. CASE FrameAt(q, D) # frame
    <3>1. ram'[FrameAt(q, D)] = ram[FrameAt(q, D)]
      BY <1>9, <2>5 DEF Placed
    <3> QED
      BY <1>3, <1>4, <1>7, <1>9, <2>1, <2>3, <2>5, <3>1 DEF Stays
  <2> QED
    BY <2>4, <2>5
<1> QED
  BY <1>8, <1>9


-----------------------------------------------------------------------------
(* The three ways to find a frame.                                         *)

\* A frame of the tree is a table or a page at one level only.
LEMMA LevelOfFrame ==
    ASSUME MemoryInv, NEW p \in Pages, NEW q \in Pages,
           NEW n \in 0 .. TablesDepth, NEW m \in 0 .. TablesDepth,
           InTree(p, n), InTree(q, m), FrameAt(p, n) = FrameAt(q, m)
    PROVE  n = m /\ Prefix(p, n) = Prefix(q, n)
<1>1. TablesPoint /\ TreeInv /\ TablesDepth \in Nat
  BY Widths DEF MemoryInv
<1>2. FrameAt(p, 0) = Root /\ FrameAt(q, 0) = Root
  BY <1>1, FrameFacts
<1>3. CASE n = 0 /\ m = 0
  BY <1>3, PrefixOfRoot
<1>4. CASE n # 0 \/ m # 0
  <2>1. n # 0 /\ m # 0 /\ FrameAt(p, n) # Root
    BY <1>2, <1>4 DEF InTree
  <2>2. n \in Levels /\ m \in Levels
    BY <1>1, <2>1 DEF Levels
  <2> QED
    BY <1>1, <2>1, <2>2 DEF TreeInv
<1> QED
  BY <1>3, <1>4

\* The memory before a frame is installed: the frame has left the tables.
Unlinked(memory, frame) ==
    /\ memory \in [Frames -> [Offsets -> Words]]
    /\ \A q \in Pages : \A n \in 0 .. TablesDepth - 1 :
          InTree(q, n) =>
             /\ \A o \in Offsets : memory[FrameAt(q, n)][o] \in Frames
             /\ memory[FrameAt(q, n)][Row(q, n)]
                  = IF FrameAt(q, n + 1) = frame THEN Root ELSE FrameAt(q, n + 1)
    /\ \A q \in Pages :
          Resident(q) => memory[FrameAt(q, TablesDepth)] = ram[FrameAt(q, TablesDepth)]

\* Installing a frame that has left the tables, or was never in them, hangs it
\* into the tree.
LEMMA InstallPlaces ==
    ASSUME MemoryInv, Missing, NEW frame \in Frames \ {Root, call.frame},
           frame \in UsedFrames \/ frame = FirstFresh,
           NEW memory, Unlinked(memory, frame), Install(frame, memory),
           \A q \in Pages : \A n \in 1 .. TablesDepth - 1 :
              FrameAt(q, n) = frame => FrameAt(q, n + 1) = Root
    PROVE  Placed(frame) /\ Descend(frame)
<1> DEFINE D == TablesDepth
           L == call.level
           first == [memory EXCEPT ![frame] = IF AtLastLevel THEN @ ELSE ClearedFrame]
<1>1. /\ D \in Nat \ {0} /\ TablesPoint /\ Page \in Pages /\ L \in 0 .. D - 1 /\ L \in 0 .. D
      /\ call.frame = FrameAt(Page, L) /\ InTree(Page, L)
      /\ call.frame \in Frames /\ ThisRow \in Offsets /\ Root \in Frames
  <2>1. call.level < TablesDepth /\ Calling
    BY DEF Missing, Walking
  <2> QED
    BY <2>1, Widths, CallFacts, UsedFacts DEF MemoryInv
<1>2. ram' = [first EXCEPT ![call.frame][ThisRow] = frame] /\ Descend(frame)
  BY DEF Install
<1>3. memory \in [Frames -> [Offsets -> Words]]
  BY DEF Unlinked
<1>4. ClearedFrame \in [Offsets -> Words] /\ \A o \in Offsets : ClearedFrame[o] = Root
  BY <1>1 DEF ClearedFrame, Words, Root
<1>5. /\ first \in [Frames -> [Offsets -> Words]]
      /\ \A f \in Frames \ {frame} : first[f] = memory[f]
      /\ ~AtLastLevel => first[frame] = ClearedFrame
  BY <1>3, <1>4
<1>6. frame \in Words
  BY DEF Words
<1> HIDE DEF first, L, D
<1>7. /\ ram' \in [Frames -> [Offsets -> Words]]
      /\ ram'[call.frame][ThisRow] = frame
      /\ \A f \in Frames \ {call.frame} : ram'[f] = first[f]
      /\ \A o \in Offsets \ {ThisRow} : ram'[call.frame][o] = first[call.frame][o]
  BY <1>1, <1>2, <1>5, <1>6
<1>8. ~AtLastLevel => \A o \in Offsets : ram'[frame][o] = Root
  BY <1>4, <1>5, <1>7
<1>9. ASSUME NEW q \in Pages, NEW n \in 0 .. D - 1, InTree(q, n), FrameAt(q, n) # frame
      PROVE  /\ \A o \in Offsets : ram'[FrameAt(q, n)][o] \in Frames
             /\ ~(n = L /\ Prefix(q, n + 1) = Prefix(Page, n + 1)) =>
                   ram'[FrameAt(q, n)][Row(q, n)]
                     = IF FrameAt(q, n + 1) = frame THEN Root ELSE FrameAt(q, n + 1)
  <2> DEFINE f == FrameAt(q, n)
  <2>1. n \in 0 .. D /\ f \in Frames \ {frame} /\ Row(q, n) \in Offsets
    <3>1. n \in 0 .. D
      BY <1>1
    <3> QED
      BY <1>1, <1>9, <3>1, FrameFacts, PrefixFacts, PrefixOfRoot DEF D
  <2>2. first[f] = memory[f]
    BY <1>5, <2>1
  <2>3. /\ \A o \in Offsets : memory[f][o] \in Frames
        /\ memory[f][Row(q, n)] = IF FrameAt(q, n + 1) = frame THEN Root ELSE FrameAt(q, n + 1)
    BY <1>9 DEF Unlinked, D
  <2>4. \A o \in Offsets : ram'[f][o] = memory[f][o] \/ ram'[f][o] = frame
    <3>1. CASE f = call.frame
      BY <1>7, <2>2, <3>1
    <3>2. CASE f # call.frame
      BY <1>7, <2>1, <2>2, <3>2
    <3> QED
      BY <3>1, <3>2
  <2>5. ASSUME ~(n = L /\ Prefix(q, n + 1) = Prefix(Page, n + 1))
        PROVE  ram'[f][Row(q, n)] = memory[f][Row(q, n)]
    <3>1. CASE f = call.frame
      <4>1. n = L /\ Prefix(q, n) = Prefix(Page, n)
        BY <1>1, <1>9, <2>1, <3>1, LevelOfFrame DEF D
      <4>2. Row(q, n) # Row(Page, n)
        BY <1>1, <1>9, <2>5, <4>1, PrefixSplits, PrefixOfRoot DEF D
      <4>3. Row(q, n) # ThisRow
        BY <4>1, <4>2 DEF ThisRow, L
      <4> QED
        BY <1>7, <2>1, <2>2, <3>1, <4>3
    <3>2. CASE f # call.frame
      BY <1>7, <2>1, <2>2, <3>2
    <3> QED
      BY <3>1, <3>2
  <2>6. \A o \in Offsets : ram'[f][o] \in Frames
    BY <2>3, <2>4
  <2> QED
    BY <2>3, <2>5, <2>6
<1>10. ASSUME NEW q \in Pages, Resident(q), FrameAt(q, D) # frame
       PROVE  ram'[FrameAt(q, D)] = ram[FrameAt(q, D)]
  <2> DEFINE f == FrameAt(q, D)
  <2>1. D \in 0 .. D /\ InTree(q, D)
    BY <1>1, <1>10 DEF InTree, Resident, D
  <2>2. f \in Frames
    BY <1>1, <2>1, FrameFacts DEF D
  <2>3. f # call.frame
    <3>1. D # L
      BY <1>1
    <3> QED
      BY <1>1, <2>1, <3>1, LevelOfFrame DEF D
  <2>4. memory[f] = ram[f]
    BY <1>10 DEF Unlinked, D
  <2> QED
    BY <1>5, <1>7, <1>10, <2>2, <2>3, <2>4
<1>11. frame \in Frames \ {Root, call.frame} /\ (frame \in UsedFrames \/ frame = FirstFresh)
  OBVIOUS
<1>12. Placed(frame)
  BY <1>7, <1>8, <1>9, <1>10, <1>11, Zenon DEF Placed, D, L
<1> QED
  BY <1>2, <1>12


\* What is not the root on a way to a page is in use.
LEMMA InUse ==
    ASSUME MemoryInv, NEW q \in Pages, NEW n \in 0 .. TablesDepth
    PROVE  FrameAt(q, n) \in UsedFrames
<1>1. TablesDepth \in Nat /\ FrameAt(q, 0) = Root
  BY Widths, FrameFacts DEF MemoryInv
<1>2. n = 0 \/ n \in Levels
  BY <1>1 DEF Levels
<1> QED
  BY <1>1, <1>2 DEF UsedFrames

\* Unlinking clears the row that names the frame, and no other.
LEMMA UnlinkUnlinks ==
    ASSUME MemoryInv, NEW page \in Pages, NEW level \in Levels, FrameAt(page, level) # Root
    PROVE  Unlinked(Unlink(page, level), FrameAt(page, level))
<1> DEFINE D == TablesDepth
           l == level - 1
           frame == FrameAt(page, level)
           table == FrameAt(page, l)
           row == Row(page, l)
           memory == Unlink(page, level)
<1>1. /\ D \in Nat \ {0} /\ TablesPoint /\ ram \in [Frames -> [Offsets -> Words]]
      /\ l \in 0 .. D - 1 /\ l \in 0 .. D /\ l + 1 = level /\ level \in 0 .. D
      /\ Root \in Frames /\ Root \in Words
  BY Widths, UsedFacts DEF MemoryInv, TypeOK, Levels, Words
<1>2. table \in Frames /\ row \in Offsets /\ InTree(page, l) /\ InTree(page, level)
  BY <1>1, FrameFacts, PrefixFacts, PrefixOfRoot DEF InTree
<1>3. memory = [ram EXCEPT ![table][row] = Root]
  BY DEF Unlink
<1> HIDE DEF D, l, memory
<1>4. /\ memory \in [Frames -> [Offsets -> Words]]
      /\ memory[table][row] = Root
      /\ \A f \in Frames \ {table} : memory[f] = ram[f]
      /\ \A o \in Offsets \ {row} : memory[table][o] = ram[table][o]
  BY <1>1, <1>2, <1>3
<1>5. ASSUME NEW q \in Pages, NEW n \in 0 .. D - 1, InTree(q, n)
      PROVE  /\ \A o \in Offsets : memory[FrameAt(q, n)][o] \in Frames
             /\ memory[FrameAt(q, n)][Row(q, n)]
                  = IF FrameAt(q, n + 1) = frame THEN Root ELSE FrameAt(q, n + 1)
  <2> DEFINE f == FrameAt(q, n)
  <2>1. /\ n \in 0 .. D /\ n + 1 \in 0 .. D /\ f \in Frames /\ Row(q, n) \in Offsets
        /\ FrameAt(q, n + 1) = ram[f][Row(q, n)]
        /\ \A o \in Offsets : ram[f][o] \in Frames
    <3>1. n \in 0 .. D /\ n + 1 \in 0 .. D
      BY <1>1
    <3>2. \A o \in Offsets : ram[f][o] \in Frames
      BY <1>1, <1>5 DEF TablesPoint, D
    <3> QED
      BY <1>1, <1>5, <3>1, <3>2, FrameFacts, PrefixFacts, PrefixOfRoot DEF D
  <2>2. \A o \in Offsets : memory[f][o] \in {ram[f][o], Root}
    BY <1>4, <2>1
  <2>3. CASE FrameAt(q, n + 1) = frame
    <3>1. InTree(q, n + 1)
      BY <2>3 DEF InTree
    <3>2. n + 1 = level /\ Prefix(q, n + 1) = Prefix(page, level)
      BY <1>1, <1>2, <2>1, <2>3, <3>1, LevelOfFrame DEF D
    <3>3. n = l
      BY <1>1, <3>2
    <3>4. Prefix(q, l) = Prefix(page, l) /\ Row(q, l) = row
      BY <1>1, <3>2, <3>3, PrefixSplits, PrefixOfRoot DEF D
    <3>5. f = table
      BY <1>1, <3>3, <3>4, SameWay, FrameAtIs, PrefixOfRoot DEF D
    <3>6. memory[f][Row(q, n)] = Root
      BY <1>4, <3>3, <3>4, <3>5
    <3> QED
      BY <1>1, <2>1, <2>2, <2>3, <3>6
  <2>4. CASE FrameAt(q, n + 1) # frame
    <3>1. ~(f = table /\ Row(q, n) = row)
      <4> SUFFICES ASSUME f = table, Row(q, n) = row PROVE FALSE
        OBVIOUS
      <4>1. FrameAt(page, l + 1) = ram[table][row]
        BY <1>1, <1>2, FrameFacts DEF D
      <4> QED
        BY <1>1, <2>1, <2>4, <4>1
    <3>2. memory[f][Row(q, n)] = ram[f][Row(q, n)]
      BY <1>4, <2>1, <3>1
    <3> QED
      BY <1>1, <2>1, <2>2, <2>4, <3>2
  <2> QED
    BY <2>3, <2>4
<1>6. ASSUME NEW q \in Pages, Resident(q)
      PROVE  memory[FrameAt(q, D)] = ram[FrameAt(q, D)]
  <2>1. D \in 0 .. D /\ InTree(q, D) /\ D # l
    BY <1>1, <1>6 DEF InTree, Resident, D
  <2>2. FrameAt(q, D) \in Frames
    BY <1>1, <2>1, FrameFacts DEF D
  <2>3. FrameAt(q, D) # table
    BY <1>1, <1>2, <2>1, LevelOfFrame DEF D
  <2> QED
    BY <1>4, <2>2, <2>3
<1>7. Unlinked(memory, frame)
  BY <1>4, <1>5, <1>6, Zenon DEF Unlinked, D
<1> QED
  BY <1>7 DEF memory

\* What a step that gives the walk a frame does.
Gives(frame) ==
    /\ Missing /\ Placed(frame) /\ Swapped(frame) /\ Descend(frame)
    /\ UNCHANGED <<answer, written>>

\* A frame that was never used is free to hang into the tree.
LEMMA TakeFreshGives ==
    ASSUME MemoryInv, TakeFresh
    PROVE  \E frame : Gives(frame)
<1> DEFINE f == FirstFresh
           D == TablesDepth
<1>1. Missing /\ f < NumFrames /\ Install(f, ram) /\ UNCHANGED <<swap, answer, written>>
  BY DEF TakeFresh
<1>2. f \in Nat /\ f \notin UsedFrames /\ f # Root /\ f \in Frames
  <2> DEFINE M == Max(UsedFrames)
  <2>1. M \in Nat /\ UsedFrames = 0 .. M /\ f = M + 1
    BY UsedFacts DEF FirstFresh
  <2> HIDE DEF M
  <2> QED
    BY <1>1, <2>1, FramesAssumption DEF Frames, Root
<1> HIDE DEF f
<1>3. D \in Nat \ {0} /\ TablesPoint /\ ram \in [Frames -> [Offsets -> Words]] /\ Calling
  BY <1>1, Widths DEF MemoryInv, TypeOK, Missing, Walking
<1>4. \A q \in Pages : \A n \in 0 .. D : FrameAt(q, n) # f
  BY <1>2, InUse
<1>5. f # call.frame
  BY <1>3, <1>4, CallFacts
<1>6. Unlinked(ram, f)
  <2>1. ASSUME NEW q \in Pages, NEW n \in 0 .. D - 1, InTree(q, n)
        PROVE  /\ \A o \in Offsets : ram[FrameAt(q, n)][o] \in Frames
               /\ ram[FrameAt(q, n)][Row(q, n)]
                    = IF FrameAt(q, n + 1) = f THEN Root ELSE FrameAt(q, n + 1)
    <3>1. n + 1 \in 0 .. D
      BY <1>3
    <3>2. FrameAt(q, n + 1) # f
      BY <1>4, <3>1
    <3>3. FrameAt(q, n + 1) = ram[FrameAt(q, n)][Row(q, n)]
      BY <1>3, <2>1, FrameFacts
    <3> QED
      BY <1>3, <2>1, <3>2, <3>3 DEF TablesPoint
  <2> QED
    BY <1>3, <2>1 DEF Unlinked
<1>7. \A q \in Pages : \A n \in 1 .. D - 1 : FrameAt(q, n) = f => FrameAt(q, n + 1) = Root
  <2>1. \A n \in 1 .. D - 1 : n \in 0 .. D
    BY <1>3
  <2> QED
    BY <1>4, <2>1
<1>8. Placed(f) /\ Descend(f)
  BY <1>1, <1>2, <1>5, <1>6, <1>7, InstallPlaces DEF f
<1>9. Swapped(f)
  <2>1. D \in 0 .. D
    BY <1>3
  <2> QED
    BY <1>1, <1>4, <2>1 DEF Swapped
<1> QED
  BY <1>1, <1>8, <1>9 DEF Gives

\* The library's Min of a set of numbers.
LEMMA LeastOf ==
    ASSUME NEW N \in SUBSET Nat, N # {}
    PROVE  Min(N) \in N /\ \A n \in N : Min(N) <= n
BY LeastNumber DEF Min

\* A table with no rows, other than the walk's own, can be hung in anew.
LEMMA ReuseTableGives ==
    ASSUME MemoryInv, ReuseTable
    PROVE  \E frame : Gives(frame)
<1> DEFINE D == TablesDepth
           page == Min(PagesBelowEmpty(call.frame))
           level == CHOOSE n \in EmptyTables(page, call.frame) : TRUE
           f == FrameAt(page, level)
<1>1. /\ Missing /\ EmptyTableExists /\ Install(f, Unlink(page, level))
      /\ UNCHANGED <<swap, answer, written>>
  BY DEF ReuseTable
<1>2. page \in PagesBelowEmpty(call.frame)
  <2>1. PagesBelowEmpty(call.frame) \in SUBSET Nat
    BY PrefixOfRoot DEF PagesBelowEmpty
  <2> QED
    BY <1>1, <2>1, LeastOf DEF EmptyTableExists
<1> HIDE DEF page
<1>3. page \in Pages /\ level \in EmptyTables(page, call.frame)
  BY <1>2 DEF PagesBelowEmpty
<1> HIDE DEF level
<1>4. level \in Levels \ {D} /\ f \notin {Root, call.frame} /\ IsEmpty(f)
  BY <1>3 DEF EmptyTables
<1>5. D \in Nat \ {0} /\ TablesPoint /\ level \in 0 .. D /\ level \in 1 .. D - 1
      /\ \A n \in 1 .. D : n \in 0 .. D
  BY <1>4, Widths DEF MemoryInv, Levels
<1>6. f \in Frames /\ f \in UsedFrames /\ InTree(page, level)
  BY <1>3, <1>4, <1>5, FrameFacts, InUse DEF InTree
<1>7. Unlinked(Unlink(page, level), f)
  BY <1>3, <1>4, UnlinkUnlinks
<1>8. ASSUME NEW q \in Pages, NEW n \in 1 .. D - 1, FrameAt(q, n) = f
      PROVE  FrameAt(q, n + 1) = Root
  <2>1. n \in 0 .. D - 1
    BY <1>5
  <2>2. InTree(q, n) /\ Row(q, n) \in Offsets
    BY <1>4, <1>8, <2>1, PrefixFacts, PrefixOfRoot DEF InTree
  <2>3. FrameAt(q, n + 1) = ram[FrameAt(q, n)][Row(q, n)]
    BY <1>5, <2>1, <2>2, FrameFacts
  <2> QED
    BY <1>4, <1>8, <2>2, <2>3 DEF IsEmpty, Root
<1>9. Placed(f) /\ Descend(f)
  <2> HIDE DEF f
  <2> QED
    BY <1>1, <1>4, <1>6, <1>7, <1>8, InstallPlaces
<1>10. ASSUME NEW q \in Pages, Resident(q)
       PROVE  FrameAt(q, D) # f
  <2>1. InTree(q, D) /\ D \in 0 .. D /\ D # level
    BY <1>4, <1>5, <1>10 DEF InTree, Resident
  <2> QED
    BY <1>3, <1>5, <1>6, <2>1, LevelOfFrame
<1>11. Swapped(f)
  BY <1>1, <1>10 DEF Swapped
<1> QED
  BY <1>1, <1>9, <1>11 DEF Gives


\* The cyclic distance of two pages is positive unless they are the same.
LEMMA DistanceFacts ==
    ASSUME NEW p \in Pages, NEW q \in Pages
    PROVE  /\ Distance(p, q) \in 0 .. NumPages
           /\ p # q => Distance(p, q) > 0
<1> DEFINE m == NumPages
           d == IF p > q THEN p - q ELSE q - p
<1>1. m \in Nat \ {0} /\ p \in 0 .. m - 1 /\ q \in 0 .. m - 1
  BY SizesArePositive DEF Pages
<1> HIDE DEF m
<1>2. d \in 0 .. m - 1 /\ (p # q => d > 0)
  BY <1>1
<1>3. Distance(p, q) = IF m - d < d THEN m - d ELSE d
  BY DEF Distance, m
<1> HIDE DEF d
<1> QED
  BY <1>1, <1>2, <1>3 DEF m

\* Of pages to choose from, PageToEvict takes one.
LEMMA PageToEvictIsCandidate ==
    ASSUME NEW page \in Pages, Candidates(page) # {}
    PROVE  PageToEvict(page) \in Candidates(page)
<1> DEFINE C == Candidates(page)
           far == {p \in C : \A q \in C : Distance(page, q) <= Distance(page, p)}
           N == {k \in Nat : \E p \in C : k = NumPages - Distance(page, p)}
<1>1. C \in SUBSET Pages /\ NumPages \in Nat
  BY SizesArePositive DEF Candidates
<1> HIDE DEF C
<1>2. \A p \in C : Distance(page, p) \in 0 .. NumPages /\ NumPages - Distance(page, p) \in N
  <2> SUFFICES ASSUME NEW p \in C
               PROVE  Distance(page, p) \in 0 .. NumPages /\ NumPages - Distance(page, p) \in N
    OBVIOUS
  <2>1. Distance(page, p) \in 0 .. NumPages
    BY <1>1, DistanceFacts
  <2> QED
    BY <1>1, <2>1
<1>3. PICK k \in N : \A j \in N : k <= j
  <2>1. N \in SUBSET Nat
    OBVIOUS
  <2>2. N # {}
    BY <1>2 DEF C
  <2> HIDE DEF N
  <2> QED
    BY <2>1, <2>2, LeastNumber
<1>4. PICK p \in C : k = NumPages - Distance(page, p)
  BY <1>3
<1>5. p \in far
  <2>1. ASSUME NEW q \in C PROVE Distance(page, q) <= Distance(page, p)
    <3>1. k <= NumPages - Distance(page, q)
      BY <1>2, <1>3
    <3>2. Distance(page, q) \in 0 .. NumPages /\ Distance(page, p) \in 0 .. NumPages
      BY <1>2
    <3> QED
      BY <1>1, <1>4, <3>1, <3>2
  <2> QED
    BY <2>1
<1>6. Min(far) \in far
  <2>1. far \in SUBSET Nat /\ far # {}
    BY <1>1, <1>5, PrefixOfRoot
  <2> HIDE DEF far
  <2> QED
    BY <2>1, LeastOf
<1> QED
  BY <1>6 DEF PageToEvict, C

\* The frames behind the walk are too few to be all of the frames.
LEMMA PathIsShort ==
    ASSUME NEW n \in 0 .. TablesDepth - 1, NEW page
    PROVE  \E f \in Frames : \A m \in 0 .. n : FrameAt(page, m) # f
<1> DEFINE g == [m \in 0 .. n |-> FrameAt(page, m)]
           T == {g[m] : m \in 0 .. n}
<1>1. TablesDepth \in Nat /\ NumFrames \in Nat /\ NumFrames > TablesDepth /\ n \in Nat
      /\ n + 1 <= TablesDepth
  BY Widths, FramesAssumption
<1>2. IsFiniteSet(0 .. n) /\ Cardinality(0 .. n) = n + 1
  BY <1>1, FS_Interval
<1>3. g \in Surjection(0 .. n, T)
  BY DEF Surjection
<1>4. \A m \in 0 .. n : g[m] = FrameAt(page, m)
  OBVIOUS
<1> HIDE DEF g
<1>5. IsFiniteSet(T) /\ Cardinality(T) <= n + 1
  <2> HIDE DEF T
  <2> QED
    BY <1>2, <1>3, FS_Surjection
<1>6. IsFiniteSet(Frames) /\ Cardinality(Frames) = NumFrames
  <2>1. 0 \in Int /\ NumFrames - 1 \in Int /\ ~(0 > NumFrames - 1)
        /\ (NumFrames - 1) - 0 + 1 = NumFrames
    BY <1>1
  <2> QED
    BY <2>1, FS_Interval DEF Frames
<1>7. ~(Frames \subseteq T)
  <2> SUFFICES ASSUME Frames \subseteq T PROVE FALSE
    OBVIOUS
  <2>1. Cardinality(Frames) <= Cardinality(T)
    <3> HIDE DEF T
    <3> QED
      BY <1>5, FS_Subset
  <2>2. Cardinality(T) \in Nat
    <3> HIDE DEF T
    <3> QED
      BY <1>5, FS_CardinalityType
  <2> QED
    BY <1>1, <1>5, <1>6, <2>1, <2>2
<1> QED
  BY <1>4, <1>7

\* A table of the tree that is deepest among those off the path of the walk
\* has children, which are off the path too: so the deepest is a page.
LEMMA CandidateThere ==
    ASSUME MemoryInv, MustEvict
    PROVE  Candidates(Page) # {}
<1> DEFINE D == TablesDepth
           L == call.level
           Off(q, n) == FrameAt(q, n) # Root /\ \A m \in 0 .. L : FrameAt(Page, m) # FrameAt(q, n)
           N == {k \in Nat : k < D /\ \E q \in Pages : Off(q, D - k)}
<1>1. /\ D \in Nat \ {0} /\ TablesPoint /\ Calling /\ Page \in Pages /\ L \in 0 .. D - 1
      /\ L \in 0 .. D
      /\ call.frame = FrameAt(Page, L) /\ InTree(Page, L) /\ Child = Root
      /\ Child = FrameAt(Page, L + 1)
  BY Widths, CallFacts DEF MemoryInv, MustEvict, Missing, Walking
<1>2. PagesBelowEmpty(call.frame) = {} /\ FirstFresh >= NumFrames
  BY DEF MustEvict, EmptyTableExists
<1> HIDE DEF D, L
<1>3. PICK f \in Frames : \A m \in 0 .. L : FrameAt(Page, m) # f
  BY <1>1, PathIsShort DEF D
<1>4. f # Root
  <2>1. FrameAt(Page, 0) = Root /\ 0 \in 0 .. L
    BY <1>1, FrameFacts
  <2> QED
    BY <1>3, <2>1
<1>5. f \in UsedFrames
  <2> DEFINE M == Max(UsedFrames)
  <2>1. M \in Nat /\ UsedFrames = 0 .. M /\ M + 1 >= NumFrames
    BY <1>2, UsedFacts DEF FirstFresh
  <2> HIDE DEF M
  <2> QED
    BY <1>3, <2>1, FramesAssumption DEF Frames
<1>6. N # {}
  <2>1. PICK q \in Pages, n \in Levels : f = FrameAt(q, n)
    BY <1>4, <1>5 DEF UsedFrames
  <2>2. D - n \in Nat /\ D - n < D /\ D - (D - n) = n
    BY <1>1 DEF Levels, D
  <2>3. Off(q, n)
    BY <1>3, <1>4, <2>1
  <2>4. D - n \in N
    <3> HIDE DEF Off
    <3> QED
      BY <2>2, <2>3
  <2> QED
    BY <2>4
<1>7. PICK k \in N : \A j \in N : k <= j
  <2>1. N \in SUBSET Nat
    OBVIOUS
  <2> HIDE DEF N
  <2> QED
    BY <1>6, <2>1, LeastNumber
<1>8. k \in Nat /\ k < D
  OBVIOUS
<1>9. PICK q \in Pages : Off(q, D - k)
  OBVIOUS
<1> DEFINE n == D - k
<1>10. n \in 1 .. D /\ n \in 0 .. D /\ n \in Levels /\ FrameAt(q, n) # Root
  BY <1>1, <1>8, <1>9 DEF Levels, D
<1>11. CASE n = D
  <2>1. Resident(q)
    BY <1>10, <1>11 DEF Resident, D
  <2>2. ~Resident(Page)
    <3>1. L + 1 \in Levels /\ D \in L + 1 .. D /\ FrameAt(Page, L + 1) = Root
      BY <1>1 DEF Levels, D
    <3> QED
      BY <3>1, WayEnds DEF Resident, D
  <2>3. q # Page
    BY <2>1, <2>2
  <2>4. Distance(Page, q) > 0
    BY <1>1, <2>3, DistanceFacts
  <2> QED
    BY <2>1, <2>4 DEF Candidates
<1>12. CASE n # D
  <2>1. n \in 1 .. D - 1 /\ n \in Levels \ {D} /\ n \in 0 .. D - 1 /\ n + 1 \in 0 .. D
        /\ k - 1 \in Nat /\ ~(k <= k - 1) /\ k - 1 < D /\ D - (k - 1) = n + 1
    BY <1>1, <1>8, <1>10, <1>12
  <2>2. FrameAt(q, n) # call.frame
    <3>1. L \in 0 .. L
      BY <1>1
    <3> QED
      BY <1>1, <1>9, <3>1
  <2> HIDE DEF n
  <2>3. ~IsEmpty(FrameAt(q, n))
    <3> SUFFICES ASSUME IsEmpty(FrameAt(q, n)) PROVE FALSE
      OBVIOUS
    <3>1. n \in EmptyTables(q, call.frame)
      BY <1>10, <2>1, <2>2 DEF EmptyTables, D
    <3>2. q \in PagesBelowEmpty(call.frame)
      BY <3>1 DEF PagesBelowEmpty
    <3> QED
      BY <1>2, <3>2
  <2>4. PICK o \in Offsets : ram[FrameAt(q, n)][o] # Root
    BY <2>3 DEF IsEmpty, Root
  <2>5. PICK p \in Pages : Prefix(p, n) = Prefix(q, n) /\ Row(p, n) = o
    BY <2>1, EveryRowIsAWay DEF D
  <2>6. FrameAt(p, n) = FrameAt(q, n)
    BY <1>10, <2>5, SameWay, FrameAtIs, PrefixOfRoot DEF D
  <2>7. FrameAt(p, n + 1) # Root
    <3>1. InTree(p, n)
      BY <1>10, <2>6 DEF InTree
    <3> QED
      BY <1>1, <2>1, <2>4, <2>5, <2>6, <3>1, FrameFacts DEF D
  <2>8. ASSUME NEW m \in 0 .. L, FrameAt(Page, m) = FrameAt(p, n + 1)
        PROVE  FALSE
    <3>1. InTree(p, n + 1) /\ m \in 0 .. D
      BY <1>1, <2>7 DEF InTree
    <3>2. InTree(Page, m)
      BY <2>7, <2>8 DEF InTree
    <3>3. m = n + 1 /\ Prefix(Page, n + 1) = Prefix(p, n + 1)
      BY <1>1, <2>1, <2>8, <3>1, <3>2, LevelOfFrame DEF D
    <3>4. Prefix(Page, n) = Prefix(p, n)
      BY <1>1, <2>1, <3>3, PrefixSplits, PrefixOfRoot DEF D
    <3>5. FrameAt(Page, n) = FrameAt(p, n)
      BY <1>1, <1>10, <3>4, SameWay, FrameAtIs, PrefixOfRoot DEF D
    <3>6. n \in 0 .. L
      BY <1>1, <2>1, <3>3
    <3>7. FrameAt(Page, n) # FrameAt(q, n)
      BY <1>9, <3>6 DEF n
    <3> QED
      BY <2>6, <3>5, <3>7
  <2>9. Off(p, n + 1)
    BY <2>7, <2>8
  <2>10. k - 1 \in N
    <3> HIDE DEF Off
    <3> QED
      BY <2>1, <2>9
  <2> QED
    BY <1>7, <2>1, <2>10
<1> QED
  BY <1>11, <1>12


\* The frame of the page evicted, whose words are saved, can be hung in anew.
LEMMA EvictGives ==
    ASSUME MemoryInv, Evict
    PROVE  \E frame : Gives(frame)
<1> DEFINE D == TablesDepth
           page == PageToEvict(Page)
           f == FrameAt(page, D)
<1>1. /\ MustEvict /\ Missing /\ swap' = PMevict(page, ram[f])
      /\ Install(f, Unlink(page, D)) /\ UNCHANGED <<answer, written>>
  BY DEF Evict, MustEvict
<1>2. D \in Nat \ {0} /\ TablesPoint /\ D \in 0 .. D /\ D \in Levels
      /\ (\A n \in 1 .. D - 1 : n # D /\ n \in 0 .. D)
      /\ Calling /\ Page \in Pages /\ call.level \in 0 .. D /\ call.level < D
      /\ call.frame = FrameAt(Page, call.level) /\ InTree(Page, call.level)
  BY <1>1, Widths, CallFacts DEF MemoryInv, Levels, Missing, Walking
<1>3. page \in Candidates(Page)
  BY <1>1, <1>2, CandidateThere, PageToEvictIsCandidate
<1> HIDE DEF page
<1>4. page \in Pages /\ Resident(page) /\ Distance(Page, page) > 0
  BY <1>3 DEF Candidates
<1>5. page # Page
  <2>1. D \in call.level + 1 .. D /\ call.level + 1 \in Levels
    BY <1>2 DEF Levels
  <2>2. FrameAt(Page, call.level + 1) = Root
    BY <1>1, <1>2, CallFacts DEF Missing
  <2>3. ~Resident(Page)
    BY <2>1, <2>2, WayEnds DEF Resident
  <2> QED
    BY <1>4, <2>3
<1>6. f # Root /\ f \in Frames /\ f \in UsedFrames /\ InTree(page, D)
  BY <1>2, <1>4, FrameFacts, InUse DEF Resident, InTree
<1>7. f # call.frame
  <2>1. call.level # D
    BY <1>2
  <2> QED
    BY <1>2, <1>4, <1>6, <2>1, LevelOfFrame
<1>8. Unlinked(Unlink(page, D), f)
  BY <1>2, <1>4, <1>6, UnlinkUnlinks
<1>9. ASSUME NEW q \in Pages, NEW n \in 1 .. D - 1, FrameAt(q, n) = f
      PROVE  FrameAt(q, n + 1) = Root
  <2>1. InTree(q, n)
    BY <1>6, <1>9 DEF InTree
  <2> QED
    BY <1>2, <1>4, <1>6, <1>9, <2>1, LevelOfFrame
<1>10. Placed(f) /\ Descend(f)
  <2> HIDE DEF f
  <2> QED
    BY <1>1, <1>6, <1>7, <1>8, <1>9, InstallPlaces
<1>11. Swapped(f)
  BY <1>1, <1>4, <1>5 DEF Swapped
<1> QED
  BY <1>1, <1>10, <1>11 DEF Gives

-----------------------------------------------------------------------------
(* The invariant's parts, step by step.                                    *)

\* A step that gives the walk a frame keeps the invariant.
LEMMA GivesKeeps ==
    ASSUME MemoryInv, NEW frame, Gives(frame)
    PROVE  MemoryInv'
<1> DEFINE D == TablesDepth
<1>1. /\ Missing /\ Placed(frame) /\ Swapped(frame) /\ Descend(frame) /\ Calling
      /\ answer' = answer /\ written' = written
  BY DEF Gives, Missing, Walking
<1>2. TypeOK
  BY DEF MemoryInv
<1>3. /\ D \in Nat \ {0} /\ Page \in Pages /\ call.level \in 0 .. D - 1 /\ ~call.restored
      /\ frame \in Frames
  BY <1>1, Widths, CallFacts DEF Missing, Walking, Placed
<1>4. call \in [op : {"none", "read", "write"}, address : Addresses \union {0},
                 value : Values \union {0}, level : 0 .. TablesDepth,
                 frame : Frames, restored : BOOLEAN]
  BY <1>2 DEF TypeOK
<1>5. call' = [call EXCEPT !.level = call.level + 1, !.frame = frame,
                           !.restored = Child = Root /\ AtLastLevel]
  BY <1>1 DEF Descend
<1>6. /\ call'.op = call.op /\ call'.address = call.address /\ call'.value = call.value
      /\ call'.level = call.level + 1 /\ call'.frame = frame
      /\ call'.restored = (Child = Root /\ AtLastLevel)
  BY <1>4, <1>5
<1>7. call'.restored <=> AtLastLevel
  BY <1>1, <1>6 DEF Missing
<1>8. call' \in [op : {"none", "read", "write"}, address : Addresses \union {0},
                 value : Values \union {0}, level : 0 .. TablesDepth,
                 frame : Frames, restored : BOOLEAN]
  <2>1. call.level + 1 \in 0 .. D
    BY <1>3
  <2>2. (Child = Root /\ AtLastLevel) \in BOOLEAN
    BY DEF AtLastLevel
  <2> QED
    BY <1>3, <1>4, <1>5, <2>1, <2>2
<1>9. CallInv /\ Page' = Page /\ Calling'
  <2>1. CallInv
    BY DEF MemoryInv
  <2>2. call.op \in {"read", "write"}
    BY <1>1, <2>1 DEF CallInv
  <2> QED
    BY <1>6, <2>1, <2>2 DEF Page, Calling, NoCall
<1>10. CallInv'
  <2>1. AtLastLevel => call.level + 1 = D
    BY <1>3 DEF AtLastLevel
  <2> QED
    BY <1>1, <1>6, <1>7, <1>9, <2>1 DEF CallInv
<1>11. TypeOK'
  <2>1. ram' \in [Frames -> [Offsets -> Words]]
    BY <1>1 DEF Placed
  <2>2. DOMAIN swap' \subseteq Pages /\ \A page \in DOMAIN swap' : swap'[page] \in [Offsets -> Words]
    <3>1. DOMAIN swap \subseteq Pages /\ \A page \in DOMAIN swap : swap[page] \in [Offsets -> Words]
      BY <1>2 DEF TypeOK
    <3>2. CASE swap' = swap
      BY <3>1, <3>2
    <3>3. CASE swap' # swap
      <4>1. PICK q \in Pages : swap' = PMevict(q, ram[frame])
        BY <1>1, <3>3 DEF Swapped
      <4>2. ram[frame] \in [Offsets -> Words]
        BY <1>2, <1>3 DEF TypeOK
      <4> QED
        BY <3>1, <4>1, <4>2 DEF PMevict
    <3> QED
      BY <3>2, <3>3
  <2> QED
    BY <1>1, <1>2, <1>8, <2>1, <2>2 DEF TypeOK
<1>12. TablesPoint' /\ TreeInv' /\ PathIntact' /\ NoFrameLost'
  BY <1>1, PlacedKeepsTree
<1>13. \A q \in Pages : Stays(q) \/ IsEvicted(q) \/ IsAway(q)
  BY <1>1, PlacedKeepsPages
<1>14. OnePlace'
  <2> SUFFICES ASSUME NEW q \in DOMAIN swap', Resident(q)'
               PROVE  Calling' /\ Page' = q /\ call'.restored
    BY DEF OnePlace
  <2>1. q \in Pages
    BY <1>11 DEF TypeOK
  <2>2. OnePlace
    BY DEF MemoryInv
  <2>3. CASE Stays(q)
    BY <1>3, <2>2, <2>3 DEF Stays, OnePlace
  <2>4. CASE IsAway(q)
    BY <1>7, <1>9, <2>4 DEF IsAway
  <2> QED
    BY <1>13, <2>1, <2>3, <2>4 DEF IsEvicted
<1>15. WrittenSomewhere'
  <2> SUFFICES ASSUME NEW a \in written
               PROVE  /\ a < VirtualMemorySize
                      /\ \/ PageIndex(a) \in DOMAIN swap'
                         \/ Resident(PageIndex(a))' /\ ~Pending(PageIndex(a))'
    BY <1>1 DEF WrittenSomewhere
  <2> DEFINE q == PageIndex(a)
  <2>1. a < VirtualMemorySize /\ (q \in DOMAIN swap \/ Resident(q))
    BY DEF MemoryInv, WrittenSomewhere
  <2>2. q \in Pages
    <3>1. a \in Nat
      BY <1>2, ProgramAssumption DEF TypeOK
    <3> QED
      BY <2>1, <3>1, AddressFacts
  <2> HIDE DEF q
  <2>3. q \in DOMAIN swap' \/ (Resident(q)' /\ ~Pending(q)')
    <3>1. CASE Stays(q)
      BY <1>9, <3>1 DEF Stays, Pending
    <3>2. CASE IsEvicted(q)
      BY <3>2 DEF IsEvicted
    <3>3. CASE IsAway(q)
      BY <2>1, <3>3 DEF IsAway
    <3> QED
      BY <1>13, <2>2, <3>1, <3>2, <3>3
  <2> QED
    BY <2>1, <2>3 DEF q
<1> QED
  BY <1>10, <1>11, <1>12, <1>14, <1>15 DEF MemoryInv


\* A tree of the root only.
LEMMA InitKeeps ==
    ASSUME Init
    PROVE  MemoryInv
<1>1. /\ TablesDepth \in Nat \ {0} /\ Root \in Frames /\ Root \in Words
      /\ Values \subseteq Words /\ 0 \in 0 .. TablesDepth
  BY Widths, FramesAssumption DEF Root, Frames, Words
<1>2. PICK garbage \in Values :
        ram = [f \in Frames |-> [o \in Offsets |-> IF f = Root THEN 0 ELSE garbage]]
  BY DEF Init
<1>3. ram \in [Frames -> [Offsets -> Words]] /\ \A o \in Offsets : ram[Root][o] = Root
  BY <1>1, <1>2 DEF Root
<1>4. ASSUME NEW q \in Pages, NEW n \in 0 .. TablesDepth
      PROVE  FrameAt(q, n) = Root
  <2>1. FrameAt(q, 1) = Root
    <3>1. 0 \in 0 .. TablesDepth - 1
      BY <1>1
    <3>2. FrameAt(q, 0) = Root
      BY WalkStep, FrameAtIs
    <3>3. FrameAt(q, 0 + 1) = ram[FrameAt(q, 0)][Row(q, 0)]
      BY <3>1, WalkStep, FrameAtIs
    <3>4. Row(q, 0) \in Offsets
      BY <3>1, PrefixFacts, PrefixOfRoot
    <3> QED
      BY <1>3, <3>2, <3>3, <3>4
  <2>2. CASE n = 0
    BY <2>2, WalkStep, FrameAtIs
  <2>3. CASE n # 0
    <3>1. 1 \in Levels /\ n \in 1 .. TablesDepth
      BY <1>1, <2>3 DEF Levels
    <3> QED
      BY <2>1, <3>1, WayEnds
  <2> QED
    BY <2>2, <2>3
<1>5. /\ swap = <<>> /\ call = NoCall /\ answer = NoAnswer /\ written = {}
      /\ DOMAIN swap = {}
  BY DEF Init
<1>6. TypeOK
  BY <1>1, <1>3, <1>5 DEF TypeOK, NoCall, NoAnswer, Root
<1>7. TablesPoint
  <2> SUFFICES ASSUME NEW q \in Pages, NEW n \in 0 .. TablesDepth - 1, NEW o \in Offsets
               PROVE  ram[FrameAt(q, n)][o] \in Frames
    BY DEF TablesPoint
  <2>1. n \in 0 .. TablesDepth
    BY <1>1
  <2> QED
    BY <1>1, <1>3, <1>4, <2>1
<1>8. \A q \in Pages : \A n \in Levels : FrameAt(q, n) = Root
  <2>1. \A n \in Levels : n \in 0 .. TablesDepth
    BY <1>1 DEF Levels
  <2> QED
    BY <1>4, <2>1
<1>9. TreeInv
  BY <1>8 DEF TreeInv
<1>10. NoFrameLost
  <2>1. UsedFrames = {Root}
    BY <1>8 DEF UsedFrames
  <2>2. {Root} = 0 .. 0
    BY DEF Root
  <2> QED
    BY <2>1, <2>2, MaxOfInterval DEF NoFrameLost
<1>11. ~Calling
  BY <1>5 DEF Calling
<1> QED
  BY <1>5, <1>6, <1>7, <1>9, <1>10, <1>11
     DEF MemoryInv, CallInv, PathIntact, OnePlace, WrittenSomewhere

\* The tree depends on the memory only.
LEMMA TreeStays ==
    ASSUME MemoryInv, UNCHANGED ram
    PROVE  /\ TablesPoint' /\ TreeInv' /\ NoFrameLost'
           /\ \A page, n : FrameAt(page, n)' = FrameAt(page, n)
           /\ \A page : Resident(page)' <=> Resident(page)
<1>1. \A page, n : FrameAt(page, n)' = FrameAt(page, n)
  BY FrameAtIs
<1>2. TablesPoint' /\ TreeInv'
  BY <1>1 DEF MemoryInv, TablesPoint, TreeInv, InTree
<1>3. UsedFrames' = UsedFrames
  BY <1>1 DEF UsedFrames
<1>4. NoFrameLost'
  BY <1>3 DEF MemoryInv, NoFrameLost
<1> QED
  BY <1>1, <1>2, <1>4 DEF Resident

\* The start of a call, and a call that is refused.
LEMMA BeginKeeps ==
    ASSUME MemoryInv, NEW op \in {"read", "write"}, NEW a \in Addresses,
           NEW value, value \in Values \/ (op = "read" /\ value = 0), Begin(op, a, value)
    PROVE  MemoryInv'
<1>1. /\ ~Calling /\ a < VirtualMemorySize
      /\ call' = [op |-> op, address |-> a, value |-> value,
                  level |-> 0, frame |-> Root, restored |-> FALSE]
      /\ UNCHANGED <<ram, swap, answer, written>>
  BY DEF Begin
<1>2. TablesPoint' /\ TreeInv' /\ NoFrameLost' /\ \A page : Resident(page)' <=> Resident(page)
  BY <1>1, TreeStays
<1>3. TypeOK /\ OnePlace /\ WrittenSomewhere
  BY DEF MemoryInv
<1>4. Root \in Frames /\ TablesDepth \in Nat \ {0}
  BY Widths, UsedFacts
<1>5. TypeOK'
  BY <1>1, <1>3, <1>4 DEF TypeOK
<1>6. CallInv'
  BY <1>1, <1>4 DEF CallInv
<1>7. PathIntact'
  <2>1. FrameIn(ram', Page', 0) = Root
    BY WalkStep
  <2>2. FrameAt(Page, call.level)' = Root
    BY <1>1, <2>1, FrameAtCallIs
  <2> QED
    BY <1>1, <2>2 DEF PathIntact
<1>8. OnePlace'
  BY <1>1, <1>2, <1>3 DEF OnePlace
<1>9. WrittenSomewhere'
  BY <1>1, <1>2, <1>3 DEF WrittenSomewhere, Pending
<1> QED
  BY <1>2, <1>5, <1>6, <1>7, <1>8, <1>9 DEF MemoryInv

\* A call with an illegal address changes nothing but the answer.
LEMMA RefuseKeeps ==
    ASSUME MemoryInv, NEW op \in {"read", "write"}, NEW a \in Addresses, Refuse(op, a)
    PROVE  MemoryInv'
<1>1. answer' = Failure(op, a) /\ UNCHANGED <<ram, swap, call, written>>
  BY DEF Refuse
<1>2. /\ TablesPoint' /\ TreeInv' /\ NoFrameLost'
      /\ (\A page, n : FrameAt(page, n)' = FrameAt(page, n))
      /\ \A page : Resident(page)' <=> Resident(page)
  BY <1>1, TreeStays
<1>3. TypeOK /\ OnePlace /\ WrittenSomewhere /\ CallInv /\ PathIntact
  BY DEF MemoryInv
<1>4. 0 \in Words
  BY UsedFacts DEF Words, Root
<1>5. TypeOK'
  BY <1>1, <1>3, <1>4 DEF TypeOK, Failure
<1>6. Calling' = Calling /\ Page' = Page
  BY <1>1 DEF Calling, Page
<1>7. CallInv'
  BY <1>1, <1>3, <1>6 DEF CallInv
<1>8. PathIntact'
  <2>1. FrameAt(Page, call.level)' = FrameAt(Page, call.level)
    BY <1>1, <1>6, FrameAtCallIs, FrameAtIs
  <2> QED
    BY <1>1, <1>3, <1>6, <2>1 DEF PathIntact
<1>9. OnePlace'
  BY <1>1, <1>2, <1>3, <1>6 DEF OnePlace
<1>10. WrittenSomewhere'
  BY <1>1, <1>2, <1>3, <1>6 DEF WrittenSomewhere, Pending
<1> QED
  BY <1>2, <1>5, <1>7, <1>8, <1>9, <1>10 DEF MemoryInv


\* Nothing changes.
LEMMA StutterKeeps ==
    ASSUME MemoryInv, UNCHANGED vars
    PROVE  MemoryInv'
<1>1. UNCHANGED <<ram, swap, call, answer, written>>
  BY DEF vars
<1>2. /\ TablesPoint' /\ TreeInv' /\ NoFrameLost'
      /\ (\A page, n : FrameAt(page, n)' = FrameAt(page, n))
      /\ \A page : Resident(page)' <=> Resident(page)
  BY <1>1, TreeStays
<1>3. TypeOK /\ OnePlace /\ WrittenSomewhere /\ CallInv /\ PathIntact
  BY DEF MemoryInv
<1>4. TypeOK'
  BY <1>1, <1>3 DEF TypeOK
<1>5. Calling' = Calling /\ Page' = Page
  BY <1>1 DEF Calling, Page
<1>6. CallInv'
  BY <1>1, <1>3, <1>5 DEF CallInv
<1>7. PathIntact'
  <2>1. FrameAt(Page, call.level)' = FrameAt(Page, call.level)
    BY <1>1, <1>5, FrameAtCallIs, FrameAtIs
  <2> QED
    BY <1>1, <1>3, <1>5, <2>1 DEF PathIntact
<1>8. OnePlace' /\ WrittenSomewhere'
  BY <1>1, <1>2, <1>3, <1>5 DEF OnePlace, WrittenSomewhere, Pending
<1> QED
  BY <1>2, <1>4, <1>6, <1>7, <1>8 DEF MemoryInv

\* A step down to a child that is there.
LEMMA FollowKeeps ==
    ASSUME MemoryInv, Follow
    PROVE  MemoryInv' /\ ~call.restored /\ ~call'.restored /\ Calling' /\ Page' = Page
<1> DEFINE D == TablesDepth
           L == call.level
<1>1. /\ Calling /\ L < D /\ Child # Root /\ Descend(Child)
      /\ UNCHANGED <<ram, swap, answer, written>>
  BY DEF Follow, Walking
<1>2. /\ TablesPoint' /\ TreeInv' /\ NoFrameLost'
      /\ (\A page, n : FrameAt(page, n)' = FrameAt(page, n))
      /\ \A page : Resident(page)' <=> Resident(page)
  BY <1>1, TreeStays
<1>3. TypeOK /\ OnePlace /\ WrittenSomewhere /\ CallInv /\ TablesPoint
  BY DEF MemoryInv
<1>4. /\ D \in Nat \ {0} /\ Page \in Pages /\ L \in 0 .. D - 1 /\ ~call.restored
      /\ L + 1 \in 0 .. D /\ Child = FrameAt(Page, L + 1)
  BY <1>1, Widths, CallFacts
<1>5. Child \in Frames
  BY <1>3, <1>4, FrameFacts
<1>6. call \in [op : {"none", "read", "write"}, address : Addresses \union {0},
                 value : Values \union {0}, level : 0 .. TablesDepth,
                 frame : Frames, restored : BOOLEAN]
  BY <1>3 DEF TypeOK
<1>7. call' = [call EXCEPT !.level = L + 1, !.frame = Child, !.restored = FALSE]
  BY <1>1 DEF Descend
<1>8. /\ call'.op = call.op /\ call'.address = call.address /\ call'.value = call.value
      /\ call'.level = L + 1 /\ call'.frame = Child /\ call'.restored = FALSE
      /\ call' \in [op : {"none", "read", "write"}, address : Addresses \union {0},
                    value : Values \union {0}, level : 0 .. TablesDepth,
                    frame : Frames, restored : BOOLEAN]
  <2> DEFINE child == Child
             next == L + 1
  <2>1. child \in Frames /\ next \in 0 .. TablesDepth
    BY <1>4, <1>5
  <2>2. call' = [call EXCEPT !.level = next, !.frame = child, !.restored = FALSE]
    BY <1>7
  <2> HIDE DEF child, next
  <2>3. /\ call'.op = call.op /\ call'.address = call.address /\ call'.value = call.value
        /\ call'.level = next /\ call'.frame = child /\ call'.restored = FALSE
        /\ call' \in [op : {"none", "read", "write"}, address : Addresses \union {0},
                      value : Values \union {0}, level : 0 .. TablesDepth,
                      frame : Frames, restored : BOOLEAN]
    BY <1>6, <2>1, <2>2
  <2> QED
    BY <2>3 DEF child, next
<1>9. Page' = Page /\ Calling' /\ call.op \in {"read", "write"}
  <2>1. call.op \in {"read", "write"}
    BY <1>1, <1>3 DEF CallInv
  <2> QED
    BY <1>8, <2>1 DEF Page, Calling, NoCall
<1>10. TypeOK'
  BY <1>1, <1>3, <1>8 DEF TypeOK
<1>11. CallInv'
  BY <1>1, <1>3, <1>8, <1>9 DEF CallInv
<1>12. PathIntact'
  <2>1. FrameAt(Page, call.level)' = FrameAt(Page, L + 1)
    BY <1>1, <1>8, <1>9, FrameAtCallIs, FrameAtIs
  <2> QED
    BY <1>1, <1>4, <1>8, <2>1 DEF PathIntact
<1>13. OnePlace'
  BY <1>1, <1>2, <1>3, <1>4 DEF OnePlace
<1>14. WrittenSomewhere'
  BY <1>1, <1>2, <1>3, <1>8 DEF WrittenSomewhere, Pending
<1> QED
  BY <1>2, <1>4, <1>8, <1>9, <1>10, <1>11, <1>12, <1>13, <1>14 DEF MemoryInv

\* The words of a page are no table.
LEMMA PageWritten ==
    ASSUME MemoryInv, NEW page \in Pages, Resident(page), NEW words \in [Offsets -> Words],
           ram' = [ram EXCEPT ![FrameAt(page, TablesDepth)] = words]
    PROVE  /\ TablesPoint' /\ TreeInv' /\ NoFrameLost'
           /\ \A q \in Pages : \A n \in 0 .. TablesDepth : FrameAt(q, n)' = FrameAt(q, n)
           /\ \A q \in Pages : Resident(q)' <=> Resident(q)
           /\ ram' \in [Frames -> [Offsets -> Words]]
           /\ ram'[FrameAt(page, TablesDepth)] = words
           /\ \A q \in Pages \ {page} :
                 Resident(q) => ram'[FrameAt(q, TablesDepth)] = ram[FrameAt(q, TablesDepth)]
<1> DEFINE D == TablesDepth
           f == FrameAt(page, D)
<1>1. /\ D \in Nat \ {0} /\ D \in 0 .. D /\ TablesPoint /\ InTree(page, D)
      /\ ram \in [Frames -> [Offsets -> Words]] /\ f \in Frames
  BY Widths, FrameFacts DEF MemoryInv, TypeOK, InTree, Resident
<1>2. /\ ram' \in [Frames -> [Offsets -> Words]] /\ ram'[f] = words
      /\ \A g \in Frames \ {f} : ram'[g] = ram[g]
  <2> HIDE DEF f
  <2>1. ram' = [ram EXCEPT ![f] = words]
    BY DEF f
  <2> QED
    BY <1>1, <2>1
<1>3. ASSUME NEW q \in Pages, NEW n \in 0 .. D - 1, InTree(q, n)
      PROVE  ram'[FrameAt(q, n)] = ram[FrameAt(q, n)]
  <2>1. n \in 0 .. D /\ n # D
    BY <1>1
  <2>2. FrameAt(q, n) \in Frames
    BY <1>1, <2>1, FrameFacts
  <2>3. FrameAt(q, n) # f
    BY <1>1, <1>3, <2>1, LevelOfFrame
  <2> QED
    BY <1>2, <2>2, <2>3
<1> HIDE DEF f
<1>4. ASSUME NEW q \in Pages
      PROVE  \A n \in 0 .. D : FrameAt(q, n)' = FrameAt(q, n)
  <2> DEFINE N == {n \in Nat : n <= D /\ FrameAt(q, n)' # FrameAt(q, n)}
  <2>1. ASSUME N # {} PROVE FALSE
    <3>1. PICK n \in N : \A m \in N : n <= m
      <4>1. N \in SUBSET Nat
        OBVIOUS
      <4> HIDE DEF N
      <4> QED
        BY <2>1, <4>1, LeastNumber
    <3>2. n \in Nat /\ n <= D /\ FrameAt(q, n)' # FrameAt(q, n)
      OBVIOUS
    <3>3. n # 0
      <4>1. FrameAt(q, 0)' = FrameAt(q, 0)
        BY WalkStep, FrameAtIs
      <4> QED
        BY <3>2, <4>1
    <3> DEFINE k == n - 1
    <3>4. k \in Nat /\ k \in 0 .. D - 1 /\ k + 1 = n /\ k <= D /\ ~(n <= k)
      BY <1>1, <3>2, <3>3
    <3> HIDE DEF k
    <3>5. FrameAt(q, k)' = FrameAt(q, k)
      <4>1. k \notin N
        <5> HIDE DEF N
        <5> QED
          BY <3>1, <3>4
      <4> QED
        BY <3>4, <4>1
    <3> HIDE DEF N
    <3>6. FrameAt(q, n)' = IF k > 0 /\ FrameAt(q, k)' = Root THEN Root
                           ELSE ram'[FrameAt(q, k)'][Row(q, k)]
      <4>1. FrameIn(ram', q, k + 1)
              = IF k > 0 /\ FrameIn(ram', q, k) = Root THEN Root
                ELSE ram'[FrameIn(ram', q, k)][Row(q, k)]
        BY <3>4, WalkStep
      <4>2. FrameAt(q, n)' = FrameIn(ram', q, k + 1) /\ FrameAt(q, k)' = FrameIn(ram', q, k)
        BY <3>4, FrameAtIs
      <4> QED
        BY <4>1, <4>2
    <3>7. FrameAt(q, n) = IF k > 0 /\ FrameAt(q, k) = Root THEN Root
                          ELSE ram[FrameAt(q, k)][Row(q, k)]
      BY <3>4, WalkStep, FrameAtIs
    <3>8. ~(k > 0 /\ FrameAt(q, k) = Root) => InTree(q, k)
      BY <3>4 DEF InTree
    <3> QED
      BY <1>3, <3>2, <3>4, <3>5, <3>6, <3>7, <3>8
  <2>2. ASSUME NEW n \in 0 .. D PROVE FrameAt(q, n)' = FrameAt(q, n)
    <3>1. n \in Nat /\ n <= D
      BY <1>1
    <3> QED
      BY <2>1, <3>1
  <2> QED
    BY <2>2
<1>5. TablesPoint'
  <2> SUFFICES ASSUME NEW q \in Pages, NEW n \in 0 .. D - 1,
                      n = 0 \/ FrameAt(q, n)' # Root, NEW o \in Offsets
               PROVE  ram'[FrameAt(q, n)'][o] \in Frames
    BY DEF TablesPoint, InTree
  <2>1. n \in 0 .. D
    BY <1>1
  <2>2. FrameAt(q, n)' = FrameAt(q, n) /\ InTree(q, n)
    BY <1>4, <2>1 DEF InTree
  <2>3. ram[FrameAt(q, n)][o] \in Frames
    BY <1>1, <2>2 DEF TablesPoint
  <2> QED
    BY <1>3, <2>2, <2>3
<1>6. \A q \in Pages : \A n \in Levels : FrameAt(q, n)' = FrameAt(q, n)
  <2>1. \A n \in Levels : n \in 0 .. D
    BY <1>1 DEF Levels
  <2> QED
    BY <1>4, <2>1
<1>7. TreeInv'
  BY <1>6 DEF MemoryInv, TreeInv
<1>8. NoFrameLost'
  <2>1. UsedFrames' = UsedFrames
    BY <1>6 DEF UsedFrames
  <2> QED
    BY <2>1 DEF MemoryInv, NoFrameLost
<1>9. \A q \in Pages : Resident(q)' <=> Resident(q)
  BY <1>1, <1>4 DEF Resident
<1>10. ASSUME NEW q \in Pages \ {page}, Resident(q)
       PROVE  ram'[FrameAt(q, D)] = ram[FrameAt(q, D)]
  <2>1. InTree(q, D) /\ FrameAt(q, D) \in Frames
    BY <1>1, <1>10, FrameFacts DEF InTree, Resident
  <2>2. FrameAt(q, D) # f
    <3> SUFFICES ASSUME FrameAt(q, D) = f PROVE FALSE
      OBVIOUS
    <3>1. Prefix(q, D) = Prefix(page, D)
      BY <1>1, <2>1, LevelOfFrame DEF f
    <3>2. Prefix(q, D) = q /\ Prefix(page, D) = page
      BY PrefixFacts, PrefixOfRoot
    <3> QED
      BY <3>1, <3>2
  <2> QED
    BY <1>2, <2>1, <2>2
<1> QED
  BY <1>2, <1>4, <1>5, <1>7, <1>8, <1>9, <1>10 DEF f


\* The words that the call finds in its page.
Found == IF ComesBack THEN swap[Page] ELSE ram[call.frame]

\* The words that it leaves there.
Left == IF call.op = "read" THEN Found
        ELSE [Found EXCEPT ![Offset(call.address)] = call.value]

\* The end of a call.
LEMMA FinishDoes ==
    ASSUME MemoryInv, Finish
    PROVE  /\ Calling /\ Page \in Pages /\ Resident(Page)
           /\ call.address \in Addresses /\ call.address \in Nat
           /\ call.address < VirtualMemorySize
           /\ Offset(call.address) \in Offsets
           /\ Found \in [Offsets -> Words] /\ Left \in [Offsets -> Words]
           /\ call.frame = FrameAt(Page, TablesDepth)
           /\ ram' = [ram EXCEPT ![FrameAt(Page, TablesDepth)] = Left]
           /\ call' = NoCall
           /\ swap' = IF ComesBack THEN Restrict(swap, DOMAIN swap \ {Page}) ELSE swap
           /\ \/ /\ call.op = "read"
                 /\ answer' = Success("read", call.address, Found[Offset(call.address)])
                 /\ written' = written
              \/ /\ call.op = "write" /\ call.value \in Values
                 /\ answer' = Success("write", call.address, call.value)
                 /\ written' = written \union {call.address}
<1> DEFINE D == TablesDepth
<1>1. /\ Calling /\ call.level = D
      /\ Access(Found)
      /\ swap' = IF ComesBack THEN Restrict(swap, DOMAIN swap \ {Page}) ELSE swap
  BY DEF Finish, Found
<1>2. TypeOK /\ CallInv
  BY DEF MemoryInv
<1>3. D \in Nat \ {0} /\ Page \in Pages /\ call.frame \in Frames
      /\ call.frame = FrameAt(Page, D) /\ InTree(Page, D)
  BY <1>1, Widths, CallFacts
<1>4. Resident(Page)
  BY <1>3 DEF Resident, InTree
<1>5. call.address \in Addresses /\ call.address \in Nat /\ call.address < VirtualMemorySize
      /\ (call.op = "read" \/ (call.op = "write" /\ call.value \in Values))
  BY <1>1, <1>2, ProgramAssumption DEF CallInv
<1>6. Offset(call.address) \in Offsets
  BY <1>5, AddressFacts
<1>7. Found \in [Offsets -> Words]
  <2>1. ram[call.frame] \in [Offsets -> Words]
    BY <1>2, <1>3 DEF TypeOK
  <2>2. ComesBack => swap[Page] \in [Offsets -> Words]
    BY <1>2 DEF ComesBack, TypeOK
  <2> QED
    BY <2>1, <2>2 DEF Found
<1>8. Left \in [Offsets -> Words]
  <2>1. call.op = "write" => call.value \in Words
    BY <1>5 DEF Words
  <2> DEFINE found == Found
  <2>2. found \in [Offsets -> Words]
    BY <1>7
  <2> HIDE DEF found
  <2>3. call.op = "write" => [found EXCEPT ![Offset(call.address)] = call.value] \in [Offsets -> Words]
    BY <2>1, <2>2
  <2> QED
    BY <1>5, <1>7, <2>3 DEF Left, found
<1>9. call' = NoCall
  BY <1>1 DEF Access
<1>10. CASE call.op = "read"
  <2>1. /\ ram' = [ram EXCEPT ![call.frame] = Found]
        /\ answer' = Success("read", call.address, Found[Offset(call.address)])
        /\ written' = written
    BY <1>1, <1>10 DEF Access
  <2> QED
    BY <1>1, <1>3, <1>4, <1>5, <1>6, <1>7, <1>8, <1>9, <1>10, <2>1 DEF Left
<1>11. CASE call.op = "write"
  <2>1. /\ ram' = [ram EXCEPT ![call.frame] = [Found EXCEPT ![Offset(call.address)] = call.value]]
        /\ answer' = Success("write", call.address, call.value)
        /\ written' = written \union {call.address}
    BY <1>1, <1>11 DEF Access
  <2> QED
    BY <1>1, <1>3, <1>4, <1>5, <1>6, <1>7, <1>8, <1>9, <1>11, <2>1 DEF Left
<1> QED
  BY <1>5, <1>10, <1>11

\* The access itself, once the page is in memory.
LEMMA FinishKeeps ==
    ASSUME MemoryInv, Finish
    PROVE  MemoryInv'
<1> DEFINE D == TablesDepth
<1>1. /\ Page \in Pages /\ Resident(Page) /\ Left \in [Offsets -> Words]
      /\ ram' = [ram EXCEPT ![FrameAt(Page, D)] = Left]
      /\ call' = NoCall
      /\ swap' = IF ComesBack THEN Restrict(swap, DOMAIN swap \ {Page}) ELSE swap
      /\ call.address \in Addresses /\ call.address < VirtualMemorySize
      /\ written' \in {written, written \union {call.address}}
  BY FinishDoes
<1>2. /\ TablesPoint' /\ TreeInv' /\ NoFrameLost'
      /\ \A q \in Pages : Resident(q)' <=> Resident(q)
      /\ ram' \in [Frames -> [Offsets -> Words]]
  BY <1>1, PageWritten
<1>3. TypeOK /\ OnePlace /\ WrittenSomewhere
  BY DEF MemoryInv
<1>4. /\ DOMAIN swap' \subseteq DOMAIN swap
      /\ \A q \in DOMAIN swap' : swap'[q] = swap[q]
      /\ Page \notin DOMAIN swap'
      /\ \A q \in DOMAIN swap : q = Page \/ q \in DOMAIN swap'
  <2>1. ~ComesBack => Page \notin DOMAIN swap
    BY <1>1, <1>3 DEF OnePlace, ComesBack
  <2> QED
    BY <1>1, <2>1 DEF Restrict
<1>5. ~Calling'
  BY <1>1 DEF Calling
<1>6. TypeOK'
  <2>1. answer' \in [op : {"none", "read", "write"}, address : Addresses \union {0},
                     ok : BOOLEAN, word : Words]
    <3>1. Found \in [Offsets -> Words] /\ Offset(call.address) \in Offsets
      BY FinishDoes
    <3>2. Found[Offset(call.address)] \in Words
      BY <3>1
    <3>3. call.value \in Values => call.value \in Words
      BY DEF Words
    <3>4. \/ answer' = Success("read", call.address, Found[Offset(call.address)])
          \/ call.value \in Values /\ answer' = Success("write", call.address, call.value)
      BY FinishDoes
    <3> DEFINE A == [op : {"none", "read", "write"}, address : Addresses \union {0},
                     ok : BOOLEAN, word : Words]
    <3>5. \A word \in Words : \A op \in {"read", "write"} : Success(op, call.address, word) \in A
      <4> DEFINE a == call.address
      <4>1. a \in Addresses
        BY <1>1
      <4> HIDE DEF a
      <4>2. \A word \in Words : \A op \in {"read", "write"} : Success(op, a, word) \in A
        BY <4>1 DEF Success
      <4> QED
        BY <4>2 DEF a
    <3> HIDE DEF A
    <3>6. answer' \in A
      BY <3>2, <3>3, <3>4, <3>5
    <3> QED
      BY <3>6 DEF A
  <2>2. call' \in [op : {"none", "read", "write"}, address : Addresses \union {0},
                   value : Values \union {0}, level : 0 .. TablesDepth,
                   frame : Frames, restored : BOOLEAN]
    BY <1>1, Widths, UsedFacts DEF NoCall
  <2> QED
    BY <1>1, <1>2, <1>3, <1>4, <2>1, <2>2 DEF TypeOK
<1>7. OnePlace'
  <2> SUFFICES ASSUME NEW q \in DOMAIN swap', Resident(q)'
               PROVE  FALSE
    BY DEF OnePlace
  <2>1. q \in DOMAIN swap /\ q \in Pages /\ q # Page
    BY <1>3, <1>4 DEF TypeOK
  <2> QED
    BY <1>2, <1>3, <2>1 DEF OnePlace
<1>8. WrittenSomewhere'
  <2> SUFFICES ASSUME NEW a \in written'
               PROVE  /\ a < VirtualMemorySize
                      /\ PageIndex(a) \in DOMAIN swap' \/ Resident(PageIndex(a))'
    BY <1>5 DEF WrittenSomewhere, Pending
  <2>1. a \in written \/ a = call.address
    BY <1>1
  <2>2. CASE a = call.address
    <3>1. PageIndex(a) = Page
      BY <2>2 DEF Page
    <3> QED
      BY <1>1, <1>2, <2>2, <3>1
  <2>3. CASE a \in written
    <3> DEFINE q == PageIndex(a)
    <3>1. a < VirtualMemorySize /\ (q \in DOMAIN swap \/ Resident(q))
      BY <1>3, <2>3 DEF WrittenSomewhere
    <3>2. q \in Pages
      <4>1. a \in Nat
        BY <1>3, <2>3, ProgramAssumption DEF TypeOK
      <4> QED
        BY <3>1, <4>1, AddressFacts
    <3> HIDE DEF q
    <3>3. q \in DOMAIN swap' \/ Resident(q)'
      BY <1>1, <1>2, <1>4, <3>1, <3>2
    <3> QED
      BY <3>1, <3>3 DEF q
  <2> QED
    BY <2>1, <2>2, <2>3
<1>9. CallInv' /\ PathIntact'
  BY <1>5 DEF CallInv, PathIntact
<1> QED
  BY <1>2, <1>6, <1>7, <1>8, <1>9 DEF MemoryInv


\* Every step preserves the invariant.
LEMMA NextKeeps ==
    ASSUME MemoryInv, [Next]_vars
    PROVE  MemoryInv'
<1>1. ASSUME NEW a \in Addresses, Begin("read", a, 0)
      PROVE  MemoryInv'
  BY <1>1, BeginKeeps
<1>2. ASSUME NEW a \in Addresses, NEW value \in Values, Begin("write", a, value)
      PROVE  MemoryInv'
  BY <1>2, BeginKeeps
<1>3. ASSUME NEW a \in Addresses, NEW op \in {"read", "write"}, Refuse(op, a)
      PROVE  MemoryInv'
  BY <1>3, RefuseKeeps
<1>4. CASE Follow
  BY <1>4, FollowKeeps
<1>5. CASE ReuseTable
  BY <1>5, ReuseTableGives, GivesKeeps
<1>6. CASE TakeFresh
  BY <1>6, TakeFreshGives, GivesKeeps
<1>7. CASE Evict
  BY <1>7, EvictGives, GivesKeeps
<1>8. CASE Finish
  BY <1>8, FinishKeeps
<1>9. CASE UNCHANGED vars
  BY <1>9, StutterKeeps
<1> QED
  BY <1>1, <1>2, <1>3, <1>4, <1>5, <1>6, <1>7, <1>8, <1>9 DEF Next

-----------------------------------------------------------------------------
(* The theorems.                                                           *)

\* The invariant holds for any program, any widths of the addresses and any
\* number of frames that exceeds the depth of the tree.
THEOREM MemoryInvHolds == Spec => []MemoryInv
<1>1. Init => MemoryInv
  BY InitKeeps
<1>2. MemoryInv /\ [Next]_vars => MemoryInv'
  BY NextKeeps
<1> QED
  BY <1>1, <1>2, PTL DEF Spec

\* Every variable has its type: among others, the walk never leaves the
\* physical memory, and a table refers to frames only.
THEOREM TypeOKHolds == Spec => []TypeOK
<1>1. MemoryInv => TypeOK
  BY DEF MemoryInv
<1> QED
  BY <1>1, MemoryInvHolds, PTL

\* The walk's path is never cut, whatever get_frame takes on the way.
THEOREM PathIntactHolds == Spec => []PathIntact
<1>1. MemoryInv => PathIntact
  BY DEF MemoryInv
<1> QED
  BY <1>1, MemoryInvHolds, PTL

\* A page whose content has arrived has no copy in the swap file.
THEOREM OnePlaceHolds == Spec => []OnePlace
<1>1. MemoryInv => OnePlace
  BY DEF MemoryInv
<1> QED
  BY <1>1, MemoryInvHolds, PTL

\* The frames in use are a prefix of the physical memory.
THEOREM NoFrameLostHolds == Spec => []NoFrameLost
<1>1. MemoryInv => NoFrameLost
  BY DEF MemoryInv
<1> QED
  BY <1>1, MemoryInvHolds, PTL

\* dfs_max_frame always finds a page to evict.
THEOREM CandidateExistsHolds == Spec => []CandidateExists
<1>1. MemoryInv => CandidateExists
  BY CandidateThere DEF CandidateExists
<1> QED
  BY <1>1, MemoryInvHolds, PTL

\* No frame is in two places of the tree.
THEOREM EachFrameOnceHolds == Spec => []EachFrameOnce
<1>1. ASSUME MemoryInv PROVE EachFrameOnce
  <2> DEFINE F == {node[3] : node \in Nodes}
             g == [node \in Nodes |-> node[3]]
  <2>1. \A x \in Nodes : \E page \in Pages, n \in Levels :
           x = <<n, Prefix(page, n), FrameAt(page, n)>> /\ FrameAt(page, n) # Root
    BY DEF Nodes
  <2>2. F \subseteq Frames
    <3>1. \A n \in Levels : n \in 0 .. TablesDepth
      BY Widths DEF Levels
    <3> QED
      BY <1>1, <2>1, <3>1, FrameFacts DEF MemoryInv
  <2>3. IsFiniteSet(F)
    <3>1. IsFiniteSet(Frames)
      <4>1. 0 \in Int /\ NumFrames - 1 \in Int
        BY FramesAssumption
      <4> QED
        BY <4>1, FS_Interval DEF Frames
    <3> HIDE DEF F
    <3> QED
      BY <2>2, <3>1, FS_Subset
  <2>4. ASSUME NEW x \in Nodes, NEW y \in Nodes, x[3] = y[3]
        PROVE  x = y
    <3>1. PICK p \in Pages, n \in Levels :
            x = <<n, Prefix(p, n), FrameAt(p, n)>> /\ FrameAt(p, n) # Root
      BY <2>1
    <3>2. PICK q \in Pages, m \in Levels :
            y = <<m, Prefix(q, m), FrameAt(q, m)>> /\ FrameAt(q, m) # Root
      BY <2>1
    <3>3. FrameAt(p, n) = FrameAt(q, m)
      BY <2>4, <3>1, <3>2
    <3>4. n = m /\ Prefix(p, n) = Prefix(q, n)
      BY <1>1, <3>1, <3>3 DEF MemoryInv, TreeInv
    <3> QED
      BY <3>1, <3>2, <3>3, <3>4
  <2>5. g \in Surjection(Nodes, F)
    BY DEF Surjection
  <2>6. g \in Injection(Nodes, F)
    <3>1. g \in [Nodes -> F] /\ \A x \in Nodes : g[x] = x[3]
      OBVIOUS
    <3> HIDE DEF g, F
    <3> QED
      BY <2>4, <3>1 DEF Injection, IsInjective
  <2> HIDE DEF F, g
  <2>7. IsFiniteSet(Nodes)
    BY <2>3, <2>6, FS_Injection
  <2>8. Cardinality(F) = Cardinality(Nodes)
    BY <2>5, <2>6, <2>7, FS_Surjection
  <2> QED
    BY <2>8 DEF EachFrameOnce, F
<1> QED
  BY <1>1, MemoryInvHolds, PTL


-----------------------------------------------------------------------------
(* Paging is invisible.                                                    *)

\* What address a holds, now and in the next state.
LEMMA ContentIs ==
    ASSUME NEW a, NEW page, page = PageIndex(a)
    PROVE  /\ Content(a) = IF Resident(page) /\ ~Pending(page)
                           THEN ram[FrameAt(page, TablesDepth)][Offset(a)]
                           ELSE IF page \in DOMAIN swap THEN swap[page][Offset(a)] ELSE Unwritten
           /\ Content(a)' = IF Resident(page)' /\ ~Pending(page)'
                            THEN ram'[FrameAt(page, TablesDepth)'][Offset(a)]
                            ELSE IF page \in DOMAIN swap' THEN swap'[page][Offset(a)] ELSE Unwritten
BY DEF Content, Pending

\* The address of a word that was written.
LEMMA WrittenFacts ==
    ASSUME MemoryInv, NEW a \in written
    PROVE  /\ a \in Addresses /\ a \in Nat /\ PageIndex(a) \in Pages /\ Offset(a) \in Offsets
           /\ PageIndex(a) \in DOMAIN swap
              \/ (Resident(PageIndex(a)) /\ ~Pending(PageIndex(a)))
<1>1. a \in Addresses /\ a \in Nat
  BY ProgramAssumption DEF MemoryInv, TypeOK
<1>2. /\ a < VirtualMemorySize
      /\ PageIndex(a) \in DOMAIN swap \/ (Resident(PageIndex(a)) /\ ~Pending(PageIndex(a)))
  BY DEF MemoryInv, WrittenSomewhere
<1> QED
  BY <1>1, <1>2, AddressFacts

\* Steps that leave the memory alone.
LEMMA UnchangedContent ==
    ASSUME UNCHANGED <<ram, swap>>, NEW a,
           Pending(PageIndex(a))' <=> Pending(PageIndex(a))
    PROVE  Content(a)' = Content(a)
<1> DEFINE q == PageIndex(a)
<1>1. FrameAt(q, TablesDepth)' = FrameAt(q, TablesDepth) /\ (Resident(q)' <=> Resident(q))
  BY FrameAtIs DEF Resident
<1>2. Pending(q)' <=> Pending(q)
  OBVIOUS
<1> HIDE DEF q
<1>3. q = PageIndex(a)
  BY DEF q
<1> QED
  BY <1>1, <1>2, <1>3, ContentIs

\* Giving the walk a frame loses no word, wherever the frame comes from.
LEMMA GivesKeepsContent ==
    ASSUME MemoryInv, NEW frame, Gives(frame), NEW a \in written
    PROVE  Content(a)' = Content(a)
<1> DEFINE q == PageIndex(a)
<1>1. /\ Missing /\ Placed(frame) /\ Swapped(frame) /\ Descend(frame) /\ Calling
      /\ call.level < TablesDepth
  BY DEF Gives, Missing, Walking
<1>2. q \in Pages /\ (q \in DOMAIN swap \/ Resident(q)) /\ q = PageIndex(a)
  BY WrittenFacts
<1> HIDE DEF q
<1>3. ~call.restored
  BY <1>1, CallFacts
<1>4. ~Pending(q)
  BY <1>3 DEF Pending
<1>5. Page' = Page /\ Calling' /\ (call'.restored <=> AtLastLevel)
  <2>1. call \in [op : {"none", "read", "write"}, address : Addresses \union {0},
                  value : Values \union {0}, level : 0 .. TablesDepth,
                  frame : Frames, restored : BOOLEAN]
    BY DEF MemoryInv, TypeOK
  <2>2. call'.op = call.op /\ call'.address = call.address
        /\ call'.restored = (Child = Root /\ AtLastLevel)
    BY <1>1, <2>1 DEF Descend
  <2>3. call.op \in {"read", "write"}
    BY <1>1 DEF MemoryInv, CallInv
  <2>4. Page' = Page /\ Calling'
    BY <2>2, <2>3 DEF Page, Calling, NoCall
  <2>5. Child = Root
    BY <1>1 DEF Missing
  <2>6. call'.restored <=> AtLastLevel
    BY <2>2, <2>5
  <2> QED
    BY <2>4, <2>6
<1>6. CASE Stays(q)
  <2>1. ~Pending(q)'
    BY <1>5, <1>6 DEF Stays, Pending
  <2> QED
    BY <1>2, <1>4, <1>6, <2>1, ContentIs DEF Stays
<1>7. CASE IsEvicted(q)
  BY <1>2, <1>4, <1>7, ContentIs DEF IsEvicted
<1>8. CASE IsAway(q)
  <2>1. ~Resident(q) /\ q \in DOMAIN swap /\ q \in DOMAIN swap' /\ swap'[q] = swap[q]
    BY <1>2, <1>8 DEF IsAway
  <2>2. Resident(q)' => Pending(q)'
    BY <1>5, <1>8 DEF IsAway, Pending
  <2> QED
    BY <1>2, <2>1, <2>2, ContentIs
<1> QED
  BY <1>1, <1>2, <1>6, <1>7, <1>8, PlacedKeepsPages

\* The end of a call: its page's words are those that it left there, and no
\* other page has changed.
LEMMA FinishContent ==
    ASSUME MemoryInv, Finish
    PROVE  /\ \A a \in written : PageIndex(a) = Page => Content(a) = Found[Offset(a)]
           /\ \A a : PageIndex(a) = Page => Content(a)' = Left[Offset(a)]
           /\ \A a \in written : PageIndex(a) # Page => Content(a)' = Content(a)
<1> DEFINE D == TablesDepth
<1>1. /\ Calling /\ Page \in Pages /\ Resident(Page) /\ Left \in [Offsets -> Words]
      /\ call.frame = FrameAt(Page, D)
      /\ ram' = [ram EXCEPT ![FrameAt(Page, D)] = Left]
      /\ call' = NoCall
      /\ swap' = IF ComesBack THEN Restrict(swap, DOMAIN swap \ {Page}) ELSE swap
  BY FinishDoes
<1>2. /\ \A q \in Pages : \A n \in 0 .. D : FrameAt(q, n)' = FrameAt(q, n)
      /\ \A q \in Pages : Resident(q)' <=> Resident(q)
      /\ ram'[FrameAt(Page, D)] = Left
      /\ \A q \in Pages \ {Page} : Resident(q) => ram'[FrameAt(q, D)] = ram[FrameAt(q, D)]
  BY <1>1, PageWritten
<1>3. D \in 0 .. D
  BY Widths
<1>4. \A q : ~Pending(q)'
  BY <1>1 DEF Pending, Calling
<1>5. ASSUME NEW a \in written, PageIndex(a) = Page
      PROVE  Content(a) = Found[Offset(a)]
  <2> DEFINE q == PageIndex(a)
  <2>1. q = Page /\ Resident(q) /\ (q \in DOMAIN swap \/ ~Pending(q))
    BY <1>1, <1>5, WrittenFacts
  <2>2. Pending(q) <=> call.restored
    BY <1>1, <2>1 DEF Pending
  <2>3. CASE call.restored
    <3>1. ComesBack /\ Pending(q) /\ q \in DOMAIN swap
      BY <2>1, <2>2, <2>3 DEF ComesBack
    <3>2. Found = swap[q]
      BY <2>1, <3>1 DEF Found
    <3>3. Content(a) = swap[q][Offset(a)]
      BY <3>1, ContentIs
    <3> QED
      BY <3>2, <3>3
  <2>4. CASE ~call.restored
    <3>1. Found = ram[FrameAt(Page, D)] /\ ~Pending(q)
      BY <1>1, <2>2, <2>4 DEF Found, ComesBack
    <3>2. Content(a) = ram[FrameAt(q, D)][Offset(a)]
      BY <2>1, <3>1, ContentIs
    <3> QED
      BY <2>1, <3>1, <3>2
  <2> QED
    BY <2>3, <2>4
<1>6. ASSUME NEW a, PageIndex(a) = Page
      PROVE  Content(a)' = Left[Offset(a)]
  <2>1. PICK q \in Pages : q = Page
    BY <1>1
  <2>2. Resident(q)' /\ ~Pending(q)' /\ FrameAt(q, D)' = FrameAt(q, D)
    BY <1>1, <1>2, <1>3, <1>4, <2>1
  <2>3. Content(a)' = ram'[FrameAt(q, D)][Offset(a)]
    BY <1>6, <2>1, <2>2, ContentIs
  <2> QED
    BY <1>2, <2>1, <2>3
<1>7. ASSUME NEW a \in written, PageIndex(a) # Page
      PROVE  Content(a)' = Content(a)
  <2> DEFINE q == PageIndex(a)
  <2>1. q \in Pages /\ q # Page /\ q = PageIndex(a)
    BY <1>7, WrittenFacts
  <2> HIDE DEF q
  <2>2. ~Pending(q) /\ ~Pending(q)'
    BY <1>4, <2>1 DEF Pending
  <2>3. (q \in DOMAIN swap' <=> q \in DOMAIN swap) /\ (q \in DOMAIN swap => swap'[q] = swap[q])
    BY <1>1, <2>1 DEF Restrict
  <2>4. FrameAt(q, D)' = FrameAt(q, D) /\ (Resident(q)' <=> Resident(q))
        /\ (Resident(q) => ram'[FrameAt(q, D)] = ram[FrameAt(q, D)])
    BY <1>2, <1>3, <2>1
  <2> QED
    BY <2>1, <2>2, <2>3, <2>4, ContentIs
<1> QED
  BY <1>5, <1>6, <1>7


\* The memory of the abstract specification.
FlatMem == [a \in Addresses |-> IF a \in written THEN Content(a) ELSE Unwritten]

\* A step that keeps the content of all written words keeps the memory.
LEMMA FlatMemStays ==
    ASSUME written' = written, \A a \in written : Content(a)' = Content(a)
    PROVE  FlatMem' = FlatMem
BY DEF FlatMem

\* Initially nothing has been written, in either memory.
LEMMA FlatInit ==
    ASSUME Init
    PROVE  Flat!Init
BY DEF Init, Flat!Init, Flat!Unwritten, Flat!NoAnswer, NoAnswer, Unwritten

\* A read returns what was written last, and a write changes its word only.
LEMMA FinishIsFlat ==
    ASSUME MemoryInv, Finish
    PROVE  Flat!Next
<1>0. PICK c \in Addresses : c = call.address
  BY FinishDoes
<1> DEFINE o == Offset(c)
<1>1. /\ c \in Addresses /\ c \in Nat /\ c < VirtualMemorySize /\ o \in Offsets
      /\ Found \in [Offsets -> Words]
      /\ PageIndex(c) = Page
      /\ \/ /\ call.op = "read"
            /\ answer' = Success("read", c, Found[o])
            /\ written' = written
         \/ /\ call.op = "write" /\ call.value \in Values
            /\ answer' = Success("write", c, call.value)
            /\ written' = written \union {c}
  BY <1>0, FinishDoes DEF Page
<1>2. /\ \A a \in written : PageIndex(a) = Page => Content(a) = Found[Offset(a)]
      /\ \A a : PageIndex(a) = Page => Content(a)' = Left[Offset(a)]
      /\ \A a \in written : PageIndex(a) # Page => Content(a)' = Content(a)
  BY FinishContent
<1>3. CASE call.op = "read"
  <2>1. answer' = Success("read", c, Found[o]) /\ written' = written /\ Left = Found
    BY <1>1, <1>3 DEF Left
  <2>2. FlatMem' = FlatMem
    BY <1>2, <2>1, FlatMemStays
  <2>3. FlatMem[c] # Unwritten => FlatMem[c] = Found[o]
    BY <1>1, <1>2 DEF FlatMem
  <2>4. Found[o] \in Words
    BY <1>1
  <2>5. Flat!Read(c)
    <3>1. answer' = Flat!Success("read", c, Found[o]) /\ answer'.word = Found[o]
      BY <2>1 DEF Success, Flat!Success
    <3>2. answer' \in {Flat!Success("read", c, word) : word \in Words}
      BY <2>4, <3>1
    <3> QED
      BY <1>1, <2>2, <2>3, <3>1, <3>2 DEF Flat!Read, Flat!Unwritten, Unwritten, FlatMem
  <2> QED
    BY <1>1, <2>5 DEF Flat!Next
<1>4. CASE call.op = "write"
  <2>1. /\ call.value \in Values /\ answer' = Success("write", c, call.value)
        /\ written' = written \union {c} /\ Left = [Found EXCEPT ![o] = call.value]
    BY <1>0, <1>1, <1>4 DEF Left
  <2>2. Content(c)' = call.value
    BY <1>1, <1>2, <2>1
  <2>3. ASSUME NEW a \in written, a # c PROVE Content(a)' = Content(a)
    <3>1. CASE PageIndex(a) = Page
      <4>1. Offset(a) # o /\ Offset(a) \in Offsets
        BY <1>1, <2>3, <3>1, AddressFacts, WrittenFacts
      <4>2. Left[Offset(a)] = Found[Offset(a)]
        BY <1>1, <2>1, <4>1
      <4> QED
        BY <1>2, <3>1, <4>2
    <3>2. CASE PageIndex(a) # Page
      BY <1>2, <3>2
    <3> QED
      BY <3>1, <3>2
  <2>4. FlatMem' = [FlatMem EXCEPT ![c] = call.value]
    BY <1>1, <2>1, <2>2, <2>3 DEF FlatMem
  <2>5. PICK v \in Values : v = call.value
    BY <2>1
  <2>6. Flat!Write(c, v)
    BY <1>1, <2>1, <2>4, <2>5 DEF Flat!Write, Flat!Success, Success, FlatMem
  <2> QED
    BY <1>1, <2>5, <2>6 DEF Flat!Next
<1> QED
  BY <1>1, <1>3, <1>4

\* The steps before the last are invisible.
LEMMA FlatStutters ==
    ASSUME FlatMem' = FlatMem, answer' = answer
    PROVE  UNCHANGED Flat!vars
BY DEF Flat!vars, FlatMem

\* The flat memory has no step where a call begins.
LEMMA BeginIsInvisible ==
    ASSUME NEW op, NEW a, NEW value, Begin(op, a, value)
    PROVE  UNCHANGED Flat!vars
<1>1. /\ ~Calling /\ call'.restored = FALSE
      /\ UNCHANGED <<ram, swap, answer, written>>
  BY DEF Begin
<1>2. \A b \in written : Content(b)' = Content(b)
  BY <1>1, UnchangedContent DEF Pending
<1> QED
  BY <1>1, <1>2, FlatMemStays, FlatStutters

\* A refused call is refused by the flat memory.
LEMMA RefuseIsFlat ==
    ASSUME NEW op \in {"read", "write"}, NEW a \in Addresses, Refuse(op, a)
    PROVE  Flat!Next
<1>1. a >= VirtualMemorySize /\ answer' = Failure(op, a) /\ UNCHANGED <<ram, swap, call, written>>
  BY DEF Refuse
<1>2. \A b \in written : Content(b)' = Content(b)
  BY <1>1, UnchangedContent DEF Pending, Calling, Page
<1>3. FlatMem' = FlatMem
  BY <1>1, <1>2, FlatMemStays
<1>4. Flat!Refuse(op, a)
  BY <1>1, <1>3 DEF Flat!Refuse, Flat!Failure, Failure, FlatMem
<1> QED
  BY <1>4 DEF Flat!Next

\* Following a row of a table changes no content.
LEMMA FollowIsInvisible ==
    ASSUME MemoryInv, Follow
    PROVE  UNCHANGED Flat!vars
<1>1. UNCHANGED <<ram, swap, answer, written>>
  BY DEF Follow
<1>2. ~call.restored /\ ~call'.restored
  BY FollowKeeps
<1>3. \A b \in written : Content(b)' = Content(b)
  BY <1>1, <1>2, UnchangedContent DEF Pending
<1> QED
  BY <1>1, <1>3, FlatMemStays, FlatStutters

\* Hanging a frame into the tree changes no content: an evicted word is read
\* from the swap file.
LEMMA GivesIsInvisible ==
    ASSUME MemoryInv, NEW frame, Gives(frame)
    PROVE  UNCHANGED Flat!vars
<1>1. answer' = answer /\ written' = written
  BY DEF Gives
<1>2. \A b \in written : Content(b)' = Content(b)
  BY GivesKeepsContent
<1> QED
  BY <1>1, <1>2, FlatMemStays, FlatStutters

\* A step that changes nothing.
LEMMA StutterIsInvisible ==
    ASSUME UNCHANGED vars
    PROVE  UNCHANGED Flat!vars
<1>1. UNCHANGED <<ram, swap, call, answer, written>>
  BY DEF vars
<1>2. \A b \in written : Content(b)' = Content(b)
  BY <1>1, UnchangedContent DEF Pending, Calling, Page
<1> QED
  BY <1>1, <1>2, FlatMemStays, FlatStutters

\* The paged memory implements the flat one: the end of a call is its read or
\* write, a refusal is a refusal, and no other step changes any content.
THEOREM FlatSpecHolds == Spec => FlatSpec
<1>1. Init => Flat!Init
  BY FlatInit
<1>2. ASSUME MemoryInv, [Next]_vars
      PROVE  [Flat!Next]_(Flat!vars)
  <2>1. ASSUME NEW a \in Addresses, Begin("read", a, 0)
        PROVE  UNCHANGED Flat!vars
    BY <2>1, BeginIsInvisible
  <2>2. ASSUME NEW a \in Addresses, NEW value \in Values, Begin("write", a, value)
        PROVE  UNCHANGED Flat!vars
    BY <2>2, BeginIsInvisible
  <2>3. ASSUME NEW a \in Addresses, NEW op \in {"read", "write"}, Refuse(op, a)
        PROVE  Flat!Next
    BY <2>3, RefuseIsFlat
  <2>4. Follow => UNCHANGED Flat!vars
    BY <1>2, FollowIsInvisible
  <2>5. ReuseTable => UNCHANGED Flat!vars
    BY <1>2, ReuseTableGives, GivesIsInvisible
  <2>6. TakeFresh => UNCHANGED Flat!vars
    BY <1>2, TakeFreshGives, GivesIsInvisible
  <2>7. Evict => UNCHANGED Flat!vars
    BY <1>2, EvictGives, GivesIsInvisible
  <2>8. Finish => Flat!Next
    BY <1>2, FinishIsFlat
  <2>9. UNCHANGED vars => UNCHANGED Flat!vars
    BY StutterIsInvisible
  <2> QED
    BY <1>2, <2>1, <2>2, <2>3, <2>4, <2>5, <2>6, <2>7, <2>8, <2>9 DEF Next
<1> QED
  BY <1>1, <1>2, MemoryInvHolds, PTL DEF Spec, FlatSpec, Flat!Spec

=============================================================================
