---------------------------- MODULE DataLemmas ----------------------------
(***************************************************************************)
(* Facts about the data of the models: queues that hold each entry once,   *)
(* and what the operations of a std::vector used as a queue do to them;    *)
(* least elements, from which the inductions of the proofs are made;       *)
(* folds and recursions over finite sets, and the sums of numbers and of   *)
(* bags that they compute; remainders.                                     *)
(***************************************************************************)
EXTENDS Integers, Sequences, SequencesExt, SequenceTheorems, FiniteSetTheorems,
        WellFoundedInduction, TLAPS

-----------------------------------------------------------------------------
(* Queues without duplicates.                                              *)

\* A queue holds no entry twice.
NoDuplicates(q) == \A i, j \in DOMAIN q : q[i] = q[j] => i = j

\* push_back of an entry that is not in the queue.
LEMMA AppendNoDuplicates ==
    ASSUME NEW S, NEW q \in Seq(S), NEW e \in S,
           NoDuplicates(q), e \notin ToSet(q)
    PROVE  /\ Append(q, e) \in Seq(S)
           /\ NoDuplicates(Append(q, e))
           /\ ToSet(Append(q, e)) = ToSet(q) \union {e}
<1> DEFINE r == Append(q, e)
<1>1. r \in Seq(S) /\ Len(r) = Len(q) + 1 /\ DOMAIN r = 1 .. Len(q) + 1
      /\ DOMAIN q = 1 .. Len(q) /\ Len(q) \in Nat
  OBVIOUS
<1>2. \A i \in 1 .. Len(q) : r[i] = q[i]
  OBVIOUS
<1>3. r[Len(q) + 1] = e
  OBVIOUS
<1> HIDE DEF r
<1>4. NoDuplicates(r)
  BY <1>1, <1>2, <1>3 DEF NoDuplicates, ToSet
<1>5. ToSet(r) = ToSet(q) \union {e}
  BY <1>1, <1>2, <1>3 DEF ToSet
<1> QED
  BY <1>1, <1>4, <1>5 DEF r

\* Two queues with nothing in common, one behind the other.
LEMMA ConcatNoDuplicates ==
    ASSUME NEW S, NEW q \in Seq(S), NEW w \in Seq(S),
           NoDuplicates(q), NoDuplicates(w), ToSet(q) \cap ToSet(w) = {}
    PROVE  /\ q \o w \in Seq(S)
           /\ NoDuplicates(q \o w)
           /\ ToSet(q \o w) = ToSet(q) \union ToSet(w)
<1> DEFINE r == q \o w
<1>1. r \in Seq(S) /\ DOMAIN r = 1 .. Len(q) + Len(w)
      /\ DOMAIN q = 1 .. Len(q) /\ DOMAIN w = 1 .. Len(w)
      /\ Len(q) \in Nat /\ Len(w) \in Nat
  OBVIOUS
<1>2. /\ \A i \in 1 .. Len(q) : r[i] = q[i]
      /\ \A i \in 1 .. Len(w) : r[Len(q) + i] = w[i]
  OBVIOUS
<1>3. \A i \in DOMAIN r : \/ i \in DOMAIN q /\ r[i] = q[i]
                          \/ i - Len(q) \in DOMAIN w /\ r[i] = w[i - Len(q)]
  BY <1>1, <1>2
<1> HIDE DEF r
<1>4. NoDuplicates(r)
  <2> SUFFICES ASSUME NEW i \in DOMAIN r, NEW j \in DOMAIN r, r[i] = r[j]
               PROVE  i = j
    BY DEF NoDuplicates
  <2>1. CASE i \in DOMAIN q /\ r[i] = q[i] /\ j \in DOMAIN q /\ r[j] = q[j]
    BY <2>1 DEF NoDuplicates
  <2>2. CASE /\ i - Len(q) \in DOMAIN w /\ r[i] = w[i - Len(q)]
             /\ j - Len(q) \in DOMAIN w /\ r[j] = w[j - Len(q)]
    <3>1. i - Len(q) = j - Len(q)
      BY <2>2 DEF NoDuplicates
    <3> QED
      BY <3>1, <1>1
  <2>3. CASE /\ i \in DOMAIN q /\ r[i] = q[i]
             /\ j - Len(q) \in DOMAIN w /\ r[j] = w[j - Len(q)]
    BY <2>3 DEF ToSet
  <2>4. CASE /\ i - Len(q) \in DOMAIN w /\ r[i] = w[i - Len(q)]
             /\ j \in DOMAIN q /\ r[j] = q[j]
    BY <2>4 DEF ToSet
  <2> QED
    BY <1>3, <2>1, <2>2, <2>3, <2>4
<1>5. ToSet(r) = ToSet(q) \union ToSet(w)
  <2>1. ToSet(r) \subseteq ToSet(q) \union ToSet(w)
    BY <1>3 DEF ToSet
  <2>2. ToSet(q) \subseteq ToSet(r)
    BY <1>1, <1>2 DEF ToSet
  <2>3. ASSUME NEW i \in DOMAIN w PROVE w[i] \in ToSet(r)
    <3>1. Len(q) + i \in DOMAIN r /\ r[Len(q) + i] = w[i]
      BY <1>1, <1>2
    <3> QED
      BY <3>1 DEF ToSet
  <2> QED
    BY <2>1, <2>2, <2>3 DEF ToSet
<1> QED
  BY <1>1, <1>4, <1>5 DEF r

\* pop_front takes the head, and nothing else, from the queue.
LEMMA TailNoDuplicates ==
    ASSUME NEW S, NEW q \in Seq(S), NoDuplicates(q), q # <<>>
    PROVE  /\ Tail(q) \in Seq(S)
           /\ Head(q) \in ToSet(q)
           /\ NoDuplicates(Tail(q))
           /\ ToSet(Tail(q)) = ToSet(q) \ {Head(q)}
<1> DEFINE r == Tail(q)
<1>1. r \in Seq(S) /\ DOMAIN r = 1 .. Len(q) - 1 /\ DOMAIN q = 1 .. Len(q)
      /\ Len(q) \in Nat \ {0}
  OBVIOUS
<1>2. \A i \in DOMAIN r : i + 1 \in DOMAIN q /\ r[i] = q[i + 1]
  OBVIOUS
<1>3. Head(q) = q[1] /\ 1 \in DOMAIN q
  OBVIOUS
<1> HIDE DEF r
<1>4. NoDuplicates(r)
  BY <1>1, <1>2 DEF NoDuplicates
<1>5. \A i \in DOMAIN q : i # 1 => i - 1 \in DOMAIN r /\ r[i - 1] = q[i]
  BY <1>1, <1>2
<1>6. ToSet(r) = ToSet(q) \ {q[1]}
  <2>1. ToSet(r) \subseteq ToSet(q) \ {q[1]}
    BY <1>1, <1>2, <1>3 DEF ToSet, NoDuplicates
  <2>2. ToSet(q) \ {q[1]} \subseteq ToSet(r)
    BY <1>5 DEF ToSet
  <2> QED
    BY <2>1, <2>2
<1> QED
  BY <1>1, <1>3, <1>4, <1>6 DEF r, ToSet

\* erase(it) takes the entry it points to, and nothing else, from the queue.
LEMMA RemoveAtNoDuplicates ==
    ASSUME NEW S, NEW q \in Seq(S), NoDuplicates(q), NEW k \in DOMAIN q
    PROVE  /\ RemoveAt(q, k) \in Seq(S)
           /\ NoDuplicates(RemoveAt(q, k))
           /\ ToSet(RemoveAt(q, k)) = ToSet(q) \ {q[k]}
<1> DEFINE a == SubSeq(q, 1, k - 1)
           b == SubSeq(q, k + 1, Len(q))
<1>1. DOMAIN q = 1 .. Len(q) /\ Len(q) \in Nat /\ k \in 1 .. Len(q)
  OBVIOUS
<1>2. a \in Seq(S) /\ DOMAIN a = 1 .. k - 1 /\ \A i \in DOMAIN a : a[i] = q[i]
  BY <1>1, SubSeqProperties
<1>3. b \in Seq(S) /\ DOMAIN b = 1 .. Len(q) - k
      /\ \A i \in DOMAIN b : b[i] = q[i + k]
  BY <1>1, SubSeqProperties
<1> HIDE DEF a, b
<1>4. NoDuplicates(a)
  BY <1>1, <1>2 DEF NoDuplicates
<1>5. NoDuplicates(b)
  BY <1>1, <1>3 DEF NoDuplicates
<1>6. ToSet(a) \cap ToSet(b) = {}
  BY <1>1, <1>2, <1>3 DEF NoDuplicates, ToSet
<1>7. ToSet(a) \union ToSet(b) = ToSet(q) \ {q[k]}
  <2>1. ASSUME NEW i \in DOMAIN a PROVE a[i] \in ToSet(q) \ {q[k]}
    <3>1. i \in DOMAIN q /\ i # k /\ a[i] = q[i]
      BY <1>1, <1>2
    <3> QED
      BY <3>1 DEF NoDuplicates, ToSet
  <2>2. ASSUME NEW i \in DOMAIN b PROVE b[i] \in ToSet(q) \ {q[k]}
    <3>1. i + k \in DOMAIN q /\ i + k # k /\ b[i] = q[i + k]
      BY <1>1, <1>3
    <3> QED
      BY <3>1 DEF NoDuplicates, ToSet
  <2>3. ASSUME NEW i \in DOMAIN q, i # k PROVE q[i] \in ToSet(a) \union ToSet(b)
    <3>1. CASE i < k
      <4>1. i \in DOMAIN a /\ a[i] = q[i]
        BY <3>1, <1>1, <1>2
      <4> QED
        BY <4>1 DEF ToSet
    <3>2. CASE i > k
      <4>1. i - k \in DOMAIN b /\ b[i - k] = q[(i - k) + k]
        BY <3>2, <1>1, <1>3
      <4>2. (i - k) + k = i
        BY <1>1
      <4> QED
        BY <4>1, <4>2 DEF ToSet
    <3> QED
      BY <3>1, <3>2, <2>3, <1>1
  <2> QED
    BY <2>1, <2>2, <2>3 DEF ToSet
<1>8. RemoveAt(q, k) = a \o b
  BY DEF RemoveAt, a, b
<1> QED
  BY <1>2, <1>3, <1>4, <1>5, <1>6, <1>7, <1>8, ConcatNoDuplicates
-----------------------------------------------------------------------------
(* Induction without a predicate: a set of finite sets, and a set of       *)
(* numbers, has a least element.                                           *)

\* Among finite sets there is one that contains no other: induction over
\* finite sets.
LEMMA SmallestSet ==
    ASSUME NEW S, NEW T \in SUBSET FiniteSubsetsOf(S), T # {}
    PROVE  \E s \in T : \A u \in T : u \subseteq s => u = s
<1>2. IsWellFoundedOn(StrictSubsetOrdering(S), FiniteSubsetsOf(S))
  BY FS_StrictSubsetOrderingWellFounded
<1>3. PICK s \in T : \A u \in T : ~ (<<u, s>> \in StrictSubsetOrdering(S))
  BY <1>2, WFMin
<1>4. \A u \in T : u \subseteq s => u = s
  BY <1>3 DEF StrictSubsetOrdering, FiniteSubsetsOf
<1> QED
  BY <1>4

\* Among natural numbers there is a least one: induction over the numbers.
LEMMA LeastNumber ==
    ASSUME NEW N \in SUBSET Nat, N # {}
    PROVE  \E n \in N : \A m \in N : n <= m
<1> DEFINE T == {0 .. n : n \in N}
<1>1. T \in SUBSET FiniteSubsetsOf(Nat)
  <2>1. ASSUME NEW n \in N
        PROVE  0 .. n \in FiniteSubsetsOf(Nat)
    BY FS_Interval DEF FiniteSubsetsOf
  <2> QED
    BY <2>1
<1>2. T # {}
  OBVIOUS
<1>3. PICK s \in T : \A u \in T : u \subseteq s => u = s
  <2> HIDE DEF T
  <2> QED
    BY <1>1, <1>2, SmallestSet
<1>4. PICK n \in N : s = 0 .. n
  OBVIOUS
<1>5. ASSUME NEW m \in N, m < n
      PROVE  FALSE
  <2>1. 0 .. m \in T /\ 0 .. m \subseteq s /\ n \in s /\ n \notin 0 .. m
    BY <1>4, <1>5
  <2> QED
    BY <1>3, <2>1
<1> QED
  BY <1>5

-----------------------------------------------------------------------------
(* Folds over finite sets: what the recursive functions in the definitions *)
(* of the community modules compute.  The operation and the order are      *)
(* given as functions, step and next.                                      *)

\* g computes the fold on every subset of S.
IsFold(g, S, base, next, step) ==
    g = [s \in SUBSET S |->
            IF s = {} THEN base ELSE step[<<next[s], g[s \ {next[s]}]>>]]

\* Two folds over finite sets agree on the sets both are defined on.
LEMMA FoldsAgree ==
    ASSUME NEW S, IsFiniteSet(S), NEW base, NEW step, NEW next,
           \A s \in SUBSET S : s # {} => next[s] \in s,
           NEW S1 \in SUBSET S, NEW g1, IsFold(g1, S1, base, next, step),
           NEW S2 \in SUBSET S, NEW g2, IsFold(g2, S2, base, next, step),
           NEW u \in SUBSET S1, u \in SUBSET S2
    PROVE  g1[u] = g2[u]
<1> DEFINE T == {s \in SUBSET (S1 \cap S2) : g1[s] # g2[s]}
<1>1. T \in SUBSET FiniteSubsetsOf(S)
  BY FS_Subset DEF FiniteSubsetsOf
<1>2. CASE T = {}
  BY <1>2
<1>3. CASE T # {}
  <2>1. PICK s \in T : \A v \in T : v \subseteq s => v = s
    <3> HIDE DEF T
    <3> QED
      BY <1>1, <1>3, SmallestSet
  <2>2. s \in SUBSET S1 /\ s \in SUBSET S2 /\ g1[s] # g2[s]
    OBVIOUS
  <2>3. CASE s = {}
    BY <2>2, <2>3 DEF IsFold
  <2>4. CASE s # {}
    <3> DEFINE r == s \ {next[s]}
    <3>1. next[s] \in s
      BY <2>2, <2>4
    <3>2. r \in SUBSET (S1 \cap S2) /\ r \subseteq s /\ r # s
      BY <3>1, <2>2
    <3>3. r \notin T
      BY <2>1, <3>2
    <3>4. g1[r] = g2[r]
      BY <3>2, <3>3
    <3>5. g1[s] = step[<<next[s], g1[r]>>] /\ g2[s] = step[<<next[s], g2[r]>>]
      BY <2>2, <2>4 DEF IsFold
    <3> QED
      BY <2>2, <3>4, <3>5
  <2> QED
    BY <2>3, <2>4
<1> QED
  BY <1>2, <1>3

\* A fold over a finite set, by elements chosen in any order, is defined.
LEMMA FoldExists ==
    ASSUME NEW S, IsFiniteSet(S), NEW base, NEW step, NEW next,
           \A s \in SUBSET S : s # {} => next[s] \in s
    PROVE  \E g : IsFold(g, S, base, next, step)
<1> DEFINE Has(s) == \E g : IsFold(g, s, base, next, step)
           T == {s \in SUBSET S : ~Has(s)}
           part(s) == CHOOSE g : IsFold(g, s, base, next, step)
           h(s) == part(s)[s]
<1>1. T \in SUBSET FiniteSubsetsOf(S)
  BY FS_Subset DEF FiniteSubsetsOf
<1>2. CASE T = {}
  BY <1>2
<1>3. CASE T # {}
  <2>1. PICK s \in T : \A v \in T : v \subseteq s => v = s
    <3> HIDE DEF T
    <3> QED
      BY <1>1, <1>3, SmallestSet
  <2>2. s \in SUBSET S /\ ~Has(s)
    OBVIOUS
  <2>3. ASSUME NEW v \in SUBSET s, v # s
        PROVE  IsFold(part(v), v, base, next, step)
    <3>1. v \in SUBSET S /\ v \notin T
      BY <2>1, <2>2, <2>3
    <3>2. Has(v)
      BY <3>1
    <3> QED
      BY <3>2
  <2> HIDE DEF T, part
  <2> DEFINE g == [v \in SUBSET s |-> IF v = {} THEN base ELSE step[<<next[v], h(v \ {next[v]})>>]]
  <2>4. ASSUME NEW v \in SUBSET s, v # s
        PROVE  g[v] = h(v)
    <3>1. part(v)[v] = IF v = {} THEN base ELSE step[<<next[v], part(v)[v \ {next[v]}]>>]
      <4> DEFINE k == part(v)
      <4>1. IsFold(k, v, base, next, step)
        BY <2>3, <2>4
      <4> HIDE DEF k
      <4>2. k[v] = IF v = {} THEN base ELSE step[<<next[v], k[v \ {next[v]}]>>]
        BY <4>1 DEF IsFold
      <4> QED
        BY <4>2 DEF k
    <3>2. CASE v = {}
      BY <3>1, <3>2
    <3>3. CASE v # {}
      <4> DEFINE w == v \ {next[v]}
      <4>1. next[v] \in v
        BY <2>2, <3>3
      <4>2. w \in SUBSET s /\ w # s /\ w \in SUBSET v /\ v \in SUBSET S /\ w \in SUBSET S
        BY <2>2, <2>4, <4>1
      <4>3. IsFold(part(v), v, base, next, step) /\ IsFold(part(w), w, base, next, step)
        BY <2>3, <2>4, <4>2
      <4>4. part(v)[w] = part(w)[w]
        <5> HIDE DEF w
        <5> QED
          BY <4>2, <4>3, FoldsAgree
      <4>5. g[v] = step[<<next[v], h(w)>>]
        BY <3>3
      <4> QED
        BY <3>1, <3>3, <4>4, <4>5
    <3> QED
      BY <3>2, <3>3
  <2>5. \A v \in SUBSET s : v # {} => g[v \ {next[v]}] = h(v \ {next[v]})
    <3> SUFFICES ASSUME NEW v \in SUBSET s, v # {}
                 PROVE  g[v \ {next[v]}] = h(v \ {next[v]})
      OBVIOUS
    <3>1. next[v] \in v
      BY <2>2
    <3>2. v \ {next[v]} \in SUBSET s /\ v \ {next[v]} # s
      BY <3>1
    <3> HIDE DEF g, h
    <3> QED
      BY <3>2, <2>4
  <2>6. IsFold(g, s, base, next, step)
    <3>1. \A v \in SUBSET s :
             g[v] = IF v = {} THEN base ELSE step[<<next[v], g[v \ {next[v]}]>>]
      <4>1. \A v \in SUBSET s :
               g[v] = IF v = {} THEN base ELSE step[<<next[v], h(v \ {next[v]})>>]
        OBVIOUS
      <4> HIDE DEF g, h
      <4> QED
        BY <4>1, <2>5
    <3>2. g = [v \in SUBSET s |-> g[v]]
      OBVIOUS
    <3> HIDE DEF g
    <3> QED
      BY <3>1, <3>2 DEF IsFold
  <2> QED
    BY <2>2, <2>6
<1> QED
  BY <1>2, <1>3
-----------------------------------------------------------------------------
(* Sums: folds with an operation for which the order is all one.           *)

\* plus is a commutative and associative operation on V with zero.
IsPlus(V, zero, plus) ==
    /\ zero \in V
    /\ \A a, b \in V : plus[<<a, b>>] \in V
    /\ \A a \in V : plus[<<a, zero>>] = a
    /\ \A a, b \in V : plus[<<a, b>>] = plus[<<b, a>>]
    /\ \A a, b, c \in V : plus[<<a, plus[<<b, c>>]>>] = plus[<<plus[<<a, b>>], c>>]

\* g computes the sum of f on every subset of S.
IsSum(g, S, f, V, zero, plus) ==
    /\ g \in [SUBSET S -> V]
    /\ g[{}] = zero
    /\ \A s \in SUBSET S : \A x \in s : g[s] = plus[<<f[x], g[s \ {x}]>>]

\* In a sum of three values two may change places.
LEMMA PlusExchange ==
    ASSUME NEW V, NEW zero, NEW plus, IsPlus(V, zero, plus),
           NEW a \in V, NEW b \in V, NEW c \in V
    PROVE  plus[<<a, plus[<<b, c>>]>>] = plus[<<b, plus[<<a, c>>]>>]
<1>1. /\ \A x, y \in V : plus[<<x, y>>] = plus[<<y, x>>]
      /\ \A x, y, z \in V : plus[<<x, plus[<<y, z>>]>>] = plus[<<plus[<<x, y>>], z>>]
  BY Zenon DEF IsPlus
<1>2. plus[<<a, plus[<<b, c>>]>>] = plus[<<plus[<<a, b>>], c>>]
  BY ONLY <1>1, a \in V, b \in V, c \in V, Zenon
<1>3. plus[<<b, plus[<<a, c>>]>>] = plus[<<plus[<<b, a>>], c>>]
  BY ONLY <1>1, a \in V, b \in V, c \in V, Zenon
<1>4. plus[<<a, b>>] = plus[<<b, a>>]
  BY ONLY <1>1, a \in V, b \in V, Zenon
<1> QED
  BY <1>2, <1>3, <1>4, Zenon

\* Whatever the order in which a fold takes the elements, it is a sum.
LEMMA FoldIsSum ==
    ASSUME NEW S, IsFiniteSet(S), NEW V, NEW zero, NEW plus, IsPlus(V, zero, plus),
           NEW f \in [S -> V], NEW next, NEW step,
           \A s \in SUBSET S : s # {} => next[s] \in s,
           \A x \in S : \A v \in V : step[<<x, v>>] = plus[<<f[x], v>>],
           NEW g, IsFold(g, S, zero, next, step)
    PROVE  IsSum(g, S, f, V, zero, plus)
<1> DEFINE Good(s) == g[s] \in V /\ \A x \in s : g[s] = plus[<<f[x], g[s \ {x}]>>]
           T == {s \in SUBSET S : ~Good(s)}
<1>1. T \in SUBSET FiniteSubsetsOf(S)
  BY FS_Subset DEF FiniteSubsetsOf
<1>2. g = [s \in SUBSET S |-> g[s]] /\ g[{}] = zero
  BY DEF IsFold
<1>3. CASE T = {}
  <2>1. \A s \in SUBSET S : Good(s)
    BY <1>3
  <2> QED
    BY <1>2, <2>1 DEF IsSum
<1>4. CASE T # {}
  <2>1. PICK s \in T : \A u \in T : u \subseteq s => u = s
    <3> HIDE DEF T
    <3> QED
      BY <1>1, <1>4, SmallestSet
  <2>2. s \in SUBSET S /\ ~Good(s)
    OBVIOUS
  <2>3. ASSUME NEW u \in SUBSET s, u # s
        PROVE  Good(u)
    BY <2>1, <2>2, <2>3
  <2> HIDE DEF T
  <2>4. CASE s = {}
    BY <1>2, <2>2, <2>4 DEF IsPlus
  <2>5. CASE s # {}
    <3> DEFINE y == next[s]
               r == s \ {y}
    <3>1. y \in s /\ y \in S /\ f[y] \in V
      BY <2>2, <2>5
    <3>2. Good(r)
      BY <2>3, <3>1
    <3>3. g[s] = step[<<y, g[r]>>]
      BY <2>2, <2>5 DEF IsFold
    <3>4. g[s] = plus[<<f[y], g[r]>>] /\ g[s] \in V
      <4> HIDE DEF y, r
      <4>1. g[r] \in V
        BY <3>2
      <4>2. g[s] = plus[<<f[y], g[r]>>]
        BY <3>1, <3>3, <4>1
      <4> QED
        BY <3>1, <4>1, <4>2 DEF IsPlus
    <3> HIDE DEF y
    <3>5. ASSUME NEW x \in s, x # y
          PROVE  g[s] = plus[<<f[x], g[s \ {x}]>>]
      <4> DEFINE q == s \ {x}
                 p == r \ {x}
      <4>1. q \in SUBSET s /\ q # s /\ y \in q /\ q \ {y} = p /\ x \in r
            /\ p \in SUBSET s /\ p # s
        BY <3>1, <3>5
      <4>2. Good(q) /\ Good(p)
        BY <2>3, <4>1
      <4>3. g[q] = plus[<<f[y], g[p]>>] /\ g[r] = plus[<<f[x], g[p]>>] /\ g[p] \in V
        BY <3>2, <4>1, <4>2
      <4>4. f[x] \in V
        BY <2>2
      <4> HIDE DEF q, p, r
      <4>5. plus[<<f[y], plus[<<f[x], g[p]>>]>>] = plus[<<f[x], plus[<<f[y], g[p]>>]>>]
        BY <3>1, <4>3, <4>4, PlusExchange
      <4>6. g[s] = plus[<<f[x], g[q]>>]
        BY <3>4, <4>3, <4>5
      <4> QED
        BY <4>6 DEF q
    <3>6. Good(s)
      BY <3>4, <3>5
    <3> QED
      BY <2>2, <3>6
  <2> QED
    BY <2>4, <2>5
<1> QED
  BY <1>3, <1>4

\* Sums of the same values are equal.
LEMMA SumsAgree ==
    ASSUME NEW V, NEW zero, NEW plus,
           NEW S1, NEW f1, NEW g1, IsSum(g1, S1, f1, V, zero, plus),
           NEW S2, NEW f2, NEW g2, IsSum(g2, S2, f2, V, zero, plus),
           NEW u \in SUBSET S1, u \in SUBSET S2, IsFiniteSet(u),
           \A x \in u : f1[x] = f2[x]
    PROVE  g1[u] = g2[u]
<1> DEFINE T == {s \in SUBSET u : g1[s] # g2[s]}
<1>1. T \in SUBSET FiniteSubsetsOf(u)
  BY FS_Subset DEF FiniteSubsetsOf
<1>2. CASE T = {}
  BY <1>2
<1>3. CASE T # {}
  <2>1. PICK s \in T : \A v \in T : v \subseteq s => v = s
    <3> HIDE DEF T
    <3> QED
      BY <1>1, <1>3, SmallestSet
  <2>2. s \in SUBSET u /\ g1[s] # g2[s]
    OBVIOUS
  <2>3. PICK x \in s : TRUE
    BY <2>2 DEF IsSum
  <2>4. s \ {x} \notin T /\ s \ {x} \in SUBSET u
    BY <2>1, <2>2, <2>3
  <2>5. g1[s \ {x}] = g2[s \ {x}]
    BY <2>4
  <2>6. g1[s] = plus[<<f1[x], g1[s \ {x}]>>] /\ g2[s] = plus[<<f2[x], g2[s \ {x}]>>]
    BY <2>2, <2>3 DEF IsSum
  <2> QED
    BY <2>2, <2>3, <2>5, <2>6
<1> QED
  BY <1>2, <1>3

\* There is a sum.
LEMMA SumExists ==
    ASSUME NEW S, IsFiniteSet(S), NEW V, NEW zero, NEW plus, IsPlus(V, zero, plus),
           NEW f \in [S -> V]
    PROVE  \E g : IsSum(g, S, f, V, zero, plus)
<1> DEFINE next == [s \in SUBSET S |-> CHOOSE x \in s : TRUE]
           step == [a \in S \X V |-> plus[<<f[a[1]], a[2]>>]]
<1>1. \A s \in SUBSET S : s # {} => next[s] \in s
  OBVIOUS
<1>2. \A x \in S : \A v \in V : step[<<x, v>>] = plus[<<f[x], v>>]
  OBVIOUS
<1> HIDE DEF next, step
<1>3. PICK g : IsFold(g, S, zero, next, step)
  BY <1>1, FoldExists
<1>4. IsSum(g, S, f, V, zero, plus)
  BY <1>1, <1>2, <1>3, FoldIsSum
<1> QED
  BY <1>4

\* The sum of all values of f.
Total(f, V, zero, plus) ==
    (CHOOSE g : IsSum(g, DOMAIN f, f, V, zero, plus))[DOMAIN f]
\* It is what any sum of the same values gives.
LEMMA TotalIs ==
    ASSUME NEW S, IsFiniteSet(S), NEW V, NEW zero, NEW plus, IsPlus(V, zero, plus),
           NEW f \in [S -> V], NEW T, NEW h, NEW g, IsSum(g, T, h, V, zero, plus),
           S \subseteq T, \A x \in S : h[x] = f[x]
    PROVE  Total(f, V, zero, plus) = g[S] /\ Total(f, V, zero, plus) \in V
<1> DEFINE k == CHOOSE k : IsSum(k, S, f, V, zero, plus)
<1>1. IsSum(k, S, f, V, zero, plus)
  BY SumExists
<1>2. Total(f, V, zero, plus) = k[S]
  BY DEF Total
<1> HIDE DEF k
<1>3. k[S] = g[S]
  BY <1>1, SumsAgree
<1>4. k[S] \in V
  BY <1>1 DEF IsSum
<1> QED
  BY <1>2, <1>3, <1>4

\* The sum of all values is computed by a sum over the subsets.
LEMMA TotalIsSum ==
    ASSUME NEW S, IsFiniteSet(S), NEW V, NEW zero, NEW plus, IsPlus(V, zero, plus),
           NEW f \in [S -> V]
    PROVE  \E g : IsSum(g, S, f, V, zero, plus) /\ Total(f, V, zero, plus) = g[S]
<1> DEFINE k == CHOOSE k : IsSum(k, S, f, V, zero, plus)
<1>1. IsSum(k, S, f, V, zero, plus)
  BY SumExists
<1>2. Total(f, V, zero, plus) = k[S]
  BY DEF Total
<1> QED
  BY <1>1, <1>2

\* The sum of no values.
LEMMA TotalEmpty ==
    ASSUME NEW V, NEW zero, NEW plus, IsPlus(V, zero, plus),
           NEW S, \A x : x \notin S, NEW f \in [S -> V]
    PROVE  Total(f, V, zero, plus) = zero
<1>1. S = {} /\ IsFiniteSet({})
  BY FS_EmptySet
<1>2. IsFiniteSet(S)
  BY <1>1
<1>3. PICK g : IsSum(g, S, f, V, zero, plus) /\ Total(f, V, zero, plus) = g[S]
  BY <1>2, TotalIsSum
<1> QED
  BY <1>1, <1>3 DEF IsSum

\* One value of the sum and the others.
LEMMA TotalSplit ==
    ASSUME NEW S, IsFiniteSet(S), NEW V, NEW zero, NEW plus, IsPlus(V, zero, plus),
           NEW f \in [S -> V], NEW x \in S,
           NEW h \in [S \ {x} -> V], \A y \in S \ {x} : h[y] = f[y]
    PROVE  /\ Total(f, V, zero, plus) = plus[<<f[x], Total(h, V, zero, plus)>>]
           /\ Total(f, V, zero, plus) \in V /\ Total(h, V, zero, plus) \in V
<1> DEFINE r == S \ {x}
<1>1. PICK g : IsSum(g, S, f, V, zero, plus)
  BY SumExists
<1>2. Total(f, V, zero, plus) = g[S] /\ Total(f, V, zero, plus) \in V
  BY <1>1, TotalIs
<1>3. Total(h, V, zero, plus) = g[r] /\ Total(h, V, zero, plus) \in V
  <2>1. IsFiniteSet(r) /\ r \subseteq S
    BY FS_Subset
  <2>2. h \in [r -> V] /\ \A y \in r : f[y] = h[y]
    OBVIOUS
  <2> HIDE DEF r
  <2> QED
    BY <1>1, <2>1, <2>2, TotalIs
<1>4. g[S] = plus[<<f[x], g[r]>>]
  BY <1>1 DEF IsSum
<1> QED
  BY <1>2, <1>3, <1>4

\* The sums a and b have the same values, but for u and w.
OneDiffers(a, u, b, w, V, plus) ==
    \E others \in V : a = plus[<<u, others>>] /\ b = plus[<<w, others>>]

\* One element changes: the totals differ by that element only.
LEMMA TotalUpdate ==
    ASSUME NEW S, IsFiniteSet(S), NEW V, NEW zero, NEW plus, IsPlus(V, zero, plus),
           NEW f \in [S -> V], NEW h \in [S -> V], NEW x \in S,
           \A y \in S \ {x} : h[y] = f[y]
    PROVE  OneDiffers(Total(f, V, zero, plus), f[x], Total(h, V, zero, plus), h[x], V, plus)
<1> DEFINE k == [y \in S \ {x} |-> f[y]]
<1>1. k \in [S \ {x} -> V] /\ (\A y \in S \ {x} : k[y] = f[y]) /\ (\A y \in S \ {x} : k[y] = h[y])
  OBVIOUS
<1> HIDE DEF k
<1>2. /\ Total(f, V, zero, plus) = plus[<<f[x], Total(k, V, zero, plus)>>]
      /\ Total(k, V, zero, plus) \in V
  BY <1>1, TotalSplit
<1>3. Total(h, V, zero, plus) = plus[<<h[x], Total(k, V, zero, plus)>>]
  BY <1>1, TotalSplit
<1> QED
  BY <1>2, <1>3 DEF OneDiffers

\* The sums of sequences.
LEMMA TotalAppend ==
    ASSUME NEW V, NEW zero, NEW plus, IsPlus(V, zero, plus),
           NEW q \in Seq(V), NEW e \in V
    PROVE  /\ Total(Append(q, e), V, zero, plus) = plus[<<e, Total(q, V, zero, plus)>>]
           /\ Total(q, V, zero, plus) \in V
<1> DEFINE n == Len(q)
           r == Append(q, e)
           S == 1 .. n + 1
           x == n + 1
<1>1. n \in Nat /\ q \in [1 .. n -> V]
  OBVIOUS
<1>2. Len(r) = n + 1 /\ r[n + 1] = e /\ (\A i \in 1 .. n : r[i] = q[i]) /\ r \in Seq(V)
  OBVIOUS
<1>3. r \in [S -> V]
  <2> HIDE DEF r
  <2>1. r \in [1 .. Len(r) -> V]
    BY <1>2
  <2> QED
    BY <1>2, <2>1
<1>4. IsFiniteSet(S)
  BY <1>1, FS_Interval
<1>5. S \ {x} = 1 .. n /\ x \in S
  BY <1>1
<1>6. q \in [S \ {x} -> V] /\ \A i \in S \ {x} : q[i] = r[i]
  BY <1>1, <1>2, <1>5
<1> HIDE DEF S
<1>7. /\ Total(r, V, zero, plus) = plus[<<r[x], Total(q, V, zero, plus)>>]
      /\ Total(q, V, zero, plus) \in V
  <2> HIDE DEF r, x
  <2> QED
    BY <1>3, <1>4, <1>5, <1>6, TotalSplit
<1> QED
  BY <1>2, <1>7

\* The first element of a sequence and the total of the rest.
LEMMA TotalTail ==
    ASSUME NEW V, NEW zero, NEW plus, IsPlus(V, zero, plus),
           NEW q \in Seq(V), q # <<>>
    PROVE  /\ Total(q, V, zero, plus) = plus[<<Head(q), Total(Tail(q), V, zero, plus)>>]
           /\ Total(Tail(q), V, zero, plus) \in V
<1> DEFINE n == Len(q)
           r == Tail(q)
           Up(s) == {i + 1 : i \in s}
<1>1. /\ n \in Nat /\ n > 0 /\ q \in [1 .. n -> V] /\ r \in [1 .. n - 1 -> V]
      /\ q[1] = Head(q) /\ \A i \in 1 .. n - 1 : r[i] = q[i + 1]
  <2>1. n \in Nat /\ n > 0 /\ q \in [1 .. n -> V] /\ q[1] = Head(q)
    OBVIOUS
  <2>2. r \in Seq(V) /\ Len(r) = n - 1 /\ \A i \in 1 .. n - 1 : r[i] = q[i + 1]
    OBVIOUS
  <2> HIDE DEF n, r
  <2>3. r \in [1 .. Len(r) -> V]
    BY <2>2
  <2> QED
    BY <2>1, <2>2, <2>3
<1>2. IsFiniteSet(1 .. n) /\ IsFiniteSet(1 .. n - 1)
  BY <1>1, FS_Interval
<1> HIDE DEF n, r
<1>3. PICK g : IsSum(g, 1 .. n, q, V, zero, plus)
  BY <1>1, <1>2, SumExists
<1>4. PICK h : IsSum(h, 1 .. n - 1, r, V, zero, plus)
  BY <1>1, <1>2, SumExists
<1>5. \A s \in SUBSET (1 .. n - 1) : h[s] = g[Up(s)]
  <2> DEFINE T == {s \in SUBSET (1 .. n - 1) : h[s] # g[Up(s)]}
  <2>1. T \in SUBSET FiniteSubsetsOf(1 .. n - 1)
    BY <1>2, FS_Subset DEF FiniteSubsetsOf
  <2>2. CASE T # {}
    <3>1. PICK s \in T : \A u \in T : u \subseteq s => u = s
      <4> HIDE DEF T
      <4> QED
        BY <2>1, <2>2, SmallestSet
    <3>2. s \in SUBSET (1 .. n - 1) /\ h[s] # g[Up(s)]
      OBVIOUS
    <3>3. CASE s = {}
      <4>1. Up(s) = {}
        BY <3>3
      <4> QED
        BY <1>3, <1>4, <3>2, <3>3, <4>1 DEF IsSum
    <3>4. ASSUME NEW x \in s
          PROVE  FALSE
      <4>1. s \ {x} \in SUBSET (1 .. n - 1) /\ s \ {x} \notin T
        BY <3>1, <3>2
      <4>2. h[s \ {x}] = g[Up(s \ {x})]
        BY <4>1
      <4>3. Up(s \ {x}) = Up(s) \ {x + 1}
        BY <1>1, <3>2
      <4>4. Up(s) \in SUBSET (1 .. n) /\ x + 1 \in Up(s) /\ x \in 1 .. n - 1
        BY <1>1, <3>2
      <4> HIDE DEF T, Up
      <4>5. g[Up(s)] = plus[<<q[x + 1], g[Up(s) \ {x + 1}]>>]
        BY <1>3, <4>4 DEF IsSum
      <4>6. h[s] = plus[<<r[x], h[s \ {x}]>>]
        BY <1>4, <3>2 DEF IsSum
      <4> QED
        BY <1>1, <3>2, <4>2, <4>3, <4>4, <4>5, <4>6
    <3> QED
      BY <3>3, <3>4
  <2> QED
    BY <2>2
<1>6. Up(1 .. n - 1) = (1 .. n) \ {1}
  <2>1. ASSUME NEW j \in 2 .. n PROVE j \in Up(1 .. n - 1)
    <3>1. j - 1 \in 1 .. n - 1 /\ j = (j - 1) + 1
      BY <1>1
    <3> QED
      BY <3>1
  <2>2. (1 .. n) \ {1} = 2 .. n /\ Up(1 .. n - 1) \subseteq 2 .. n
    BY <1>1
  <2> QED
    BY <2>1, <2>2
<1>7. g[1 .. n] = plus[<<q[1], g[(1 .. n) \ {1}]>>]
  <2>1. 1 \in 1 .. n
    BY <1>1
  <2> QED
    BY <1>3, <2>1 DEF IsSum
<1>8. Total(q, V, zero, plus) = g[1 .. n]
  BY <1>1, <1>2, <1>3, TotalIs
<1>9. Total(r, V, zero, plus) = h[1 .. n - 1] /\ Total(r, V, zero, plus) \in V
  BY <1>1, <1>2, <1>4, TotalIs
<1>10. h[1 .. n - 1] = g[Up(1 .. n - 1)]
  BY <1>5
<1> QED
  BY <1>1, <1>6, <1>7, <1>8, <1>9, <1>10 DEF r

-----------------------------------------------------------------------------
(* Bags.                                                                   *)

\* The bags of elements of P, and how often e is in the bag b.
BagsOver(P) == UNION {[D -> Nat \ {0}] : D \in SUBSET P}
Copies(e, b) == IF e \in DOMAIN b THEN b[e] ELSE 0

\* A bag has a positive number of copies of just the elements of its domain.
LEMMA BagFacts ==
    ASSUME NEW P, NEW b \in BagsOver(P)
    PROVE  /\ DOMAIN b \in SUBSET P
           /\ b \in [DOMAIN b -> Nat \ {0}]
           /\ \A e : Copies(e, b) \in Nat
           /\ \A e : Copies(e, b) # 0 <=> e \in DOMAIN b
           /\ BagToSet(b) = DOMAIN b
BY DEF BagsOver, Copies, BagToSet

\* Bags with the same elements are the same.
LEMMA BagsEqual ==
    ASSUME NEW P, NEW a \in BagsOver(P), NEW b \in BagsOver(P),
           \A e \in P : Copies(e, a) = Copies(e, b)
    PROVE  a = b
<1>1. DOMAIN a = DOMAIN b
  BY BagFacts
<1>2. \A e \in DOMAIN a : a[e] = b[e]
  BY <1>1, BagFacts DEF Copies
<1> QED
  BY <1>1, <1>2, BagFacts

\* The bag of a set has each of its elements once.
LEMMA BagOfSet ==
    ASSUME NEW P, NEW S \in SUBSET P
    PROVE  /\ SetToBag(S) \in BagsOver(P)
           /\ \A e : Copies(e, SetToBag(S)) = IF e \in S THEN 1 ELSE 0
BY DEF SetToBag, BagsOver, Copies

\* The empty bag is the only one with no element.
LEMMA BagOfNothing ==
    ASSUME NEW P
    PROVE  /\ EmptyBag \in BagsOver(P)
           /\ \A e : Copies(e, EmptyBag) = 0
           /\ \A b \in BagsOver(P) : BagToSet(b) = {} => b = EmptyBag
<1>1. EmptyBag \in BagsOver(P) /\ \A e : Copies(e, EmptyBag) = 0
  BY BagOfSet DEF EmptyBag
<1>2. ASSUME NEW b \in BagsOver(P), BagToSet(b) = {}
      PROVE  b = EmptyBag
  BY <1>1, <1>2, BagFacts, BagsEqual
<1> QED
  BY <1>1, <1>2

\* In the sum of two bags the copies of each element are added.
LEMMA BagSum ==
    ASSUME NEW P, NEW a \in BagsOver(P), NEW b \in BagsOver(P)
    PROVE  /\ a (+) b \in BagsOver(P)
           /\ \A e : Copies(e, a (+) b) = Copies(e, a) + Copies(e, b)
<1>1. a (+) b = [e \in DOMAIN a \cup DOMAIN b |-> Copies(e, a) + Copies(e, b)]
  BY DEF (+), Copies
<1>2. \A e \in DOMAIN a \cup DOMAIN b : Copies(e, a) + Copies(e, b) \in Nat \ {0}
  BY BagFacts
<1>3. DOMAIN a \cup DOMAIN b \in SUBSET P
  BY BagFacts
<1>4. a (+) b \in BagsOver(P)
  BY <1>1, <1>2, <1>3 DEF BagsOver
<1>5. ASSUME NEW e
      PROVE  Copies(e, a (+) b) = Copies(e, a) + Copies(e, b)
  BY <1>1 DEF Copies
<1> QED
  BY <1>4, <1>5

\* One element is taken out.
LEMMA BagLess ==
    ASSUME NEW P, NEW a \in BagsOver(P), NEW x \in DOMAIN a
    PROVE  /\ a (-) SetToBag({x}) \in BagsOver(P)
           /\ \A e : Copies(e, a (-) SetToBag({x})) =
                        IF e = x THEN Copies(e, a) - 1 ELSE Copies(e, a)
           /\ a = (a (-) SetToBag({x})) (+) SetToBag({x})
<1> DEFINE r == a (-) SetToBag({x})
           D == {e \in DOMAIN a : e = x => a[x] > 1}
           f == [e \in D |-> IF e = x THEN a[e] - 1 ELSE a[e]]
<1>1. r = f
  BY BagFacts DEF (-), SetToBag
<1>2. f \in BagsOver(P)
  <2>1. f \in [D -> Nat \ {0}] /\ D \in SUBSET P
    BY BagFacts
  <2> QED
    BY <2>1 DEF BagsOver
<1>3. \A e : Copies(e, f) = IF e = x THEN Copies(e, a) - 1 ELSE Copies(e, a)
  BY BagFacts DEF Copies
<1> HIDE DEF r, f
<1>4. SetToBag({x}) \in BagsOver(P) /\ \A e : Copies(e, SetToBag({x})) = IF e \in {x} THEN 1 ELSE 0
  BY BagFacts, BagOfSet
<1>5. r (+) SetToBag({x}) \in BagsOver(P)
  BY <1>1, <1>2, <1>4, BagSum
<1>6. ASSUME NEW e \in P
      PROVE  Copies(e, a) = Copies(e, r (+) SetToBag({x}))
  <2>1. Copies(e, r (+) SetToBag({x})) = Copies(e, r) + Copies(e, SetToBag({x}))
    BY <1>1, <1>2, <1>4, BagSum
  <2>2. Copies(e, a) \in Nat
    BY BagFacts
  <2> QED
    BY <1>1, <1>3, <1>4, <2>1, <2>2
<1>7. a = r (+) SetToBag({x})
  BY <1>5, <1>6, BagsEqual
<1> QED
  BY <1>1, <1>2, <1>3, <1>7 DEF r

\* The sum of bags as a function, for the lemmas about sums.
BagPlus(P) == [a \in BagsOver(P) \X BagsOver(P) |-> a[1] (+) a[2]]

\* Addition of bags, as a function, can be totalled.
LEMMA BagPlusIs ==
    ASSUME NEW P
    PROVE  /\ IsPlus(BagsOver(P), EmptyBag, BagPlus(P))
           /\ \A a, b \in BagsOver(P) : BagPlus(P)[<<a, b>>] = a (+) b
<1> DEFINE V == BagsOver(P)
           plus == BagPlus(P)
<1>1. \A a, b \in V : plus[<<a, b>>] = a (+) b /\ a (+) b \in V
  BY BagSum DEF BagPlus
<1>2. EmptyBag \in V
  BY BagOfNothing
<1>3. ASSUME NEW a \in V
      PROVE  a (+) EmptyBag = a
  <2>1. \A e \in P : Copies(e, a (+) EmptyBag) = Copies(e, a)
    BY <1>2, BagSum, BagOfNothing, BagFacts
  <2> QED
    BY <1>1, <1>2, <2>1, BagsEqual
<1>4. ASSUME NEW a \in V, NEW b \in V
      PROVE  a (+) b = b (+) a
  <2>1. ASSUME NEW e \in P
        PROVE  Copies(e, a (+) b) = Copies(e, b (+) a)
    <3>1. Copies(e, a) \in Nat /\ Copies(e, b) \in Nat
      BY BagFacts
    <3>2. /\ Copies(e, a (+) b) = Copies(e, a) + Copies(e, b)
          /\ Copies(e, b (+) a) = Copies(e, b) + Copies(e, a)
      BY BagSum
    <3> QED
      BY <3>1, <3>2
  <2>2. a (+) b \in V /\ b (+) a \in V
    BY BagSum
  <2> QED
    BY <2>1, <2>2, BagsEqual
<1>5. ASSUME NEW a \in V, NEW b \in V, NEW c \in V
      PROVE  a (+) (b (+) c) = (a (+) b) (+) c
  <2>1. b (+) c \in V /\ a (+) b \in V /\ a (+) (b (+) c) \in V /\ (a (+) b) (+) c \in V
    BY <1>1
  <2>2. ASSUME NEW e \in P
        PROVE  Copies(e, a (+) (b (+) c)) = Copies(e, (a (+) b) (+) c)
    <3>1. Copies(e, a) \in Nat /\ Copies(e, b) \in Nat /\ Copies(e, c) \in Nat
      BY BagFacts
    <3>2. /\ Copies(e, b (+) c) = Copies(e, b) + Copies(e, c)
          /\ Copies(e, a (+) b) = Copies(e, a) + Copies(e, b)
      BY BagSum
    <3>3. /\ Copies(e, a (+) (b (+) c)) = Copies(e, a) + Copies(e, b (+) c)
          /\ Copies(e, (a (+) b) (+) c) = Copies(e, a (+) b) + Copies(e, c)
      BY <2>1, BagSum
    <3> QED
      BY <3>1, <3>2, <3>3
  <2> QED
    BY <2>1, <2>2, BagsEqual
<1> HIDE DEF V, plus
<1>6. IsPlus(V, EmptyBag, plus)
  <2>1. ASSUME NEW a \in V PROVE plus[<<a, EmptyBag>>] = a
    <3>1. plus[<<a, EmptyBag>>] = a (+) EmptyBag
      BY <1>1, <1>2
    <3>2. a (+) EmptyBag = a
      BY <1>3
    <3> QED
      BY <3>1, <3>2
  <2>2. ASSUME NEW a \in V, NEW b \in V PROVE plus[<<a, b>>] = plus[<<b, a>>]
    <3>1. plus[<<a, b>>] = a (+) b /\ plus[<<b, a>>] = b (+) a
      BY <1>1
    <3>2. a (+) b = b (+) a
      BY <1>4
    <3> QED
      BY <3>1, <3>2
  <2>3. \A a, b, c \in V : plus[<<a, plus[<<b, c>>]>>] = plus[<<plus[<<a, b>>], c>>]
    BY <1>1, <1>5
  <2>4. \A a, b \in V : plus[<<a, b>>] \in V
    BY <1>1
  <2> QED
    BY <1>2, <2>1, <2>2, <2>3, <2>4 DEF IsPlus
<1> QED
  BY <1>1, <1>6 DEF V, plus

-----------------------------------------------------------------------------
(* Sums of natural numbers, and the number of elements of a bag.           *)

\* Addition of numbers as a function, and the sum of the values of f.
NatPlus == [a \in Nat \X Nat |-> a[1] + a[2]]
NatTotal(f) == Total(f, Nat, 0, NatPlus)

\* Addition of numbers, as a function, can be totalled.
LEMMA NatPlusIs ==
    /\ \A a, b \in Nat : NatPlus[<<a, b>>] = a + b
    /\ IsPlus(Nat, 0, NatPlus)
<1>1. \A a, b \in Nat : NatPlus[<<a, b>>] = a + b
  BY DEF NatPlus
<1> QED
  BY <1>1 DEF IsPlus

\* The sum of two functions is the sum of their sums.
LEMMA NatTotalPlus ==
    ASSUME NEW S, IsFiniteSet(S), NEW e \in [S -> Nat], NEW f \in [S -> Nat],
           NEW h \in [S -> Nat], \A x \in S : h[x] = e[x] + f[x]
    PROVE  NatTotal(h) = NatTotal(e) + NatTotal(f)
<1>1. PICK ge : IsSum(ge, S, e, Nat, 0, NatPlus) /\ NatTotal(e) = ge[S]
  BY TotalIsSum, NatPlusIs DEF NatTotal
<1>2. PICK gf : IsSum(gf, S, f, Nat, 0, NatPlus) /\ NatTotal(f) = gf[S]
  BY TotalIsSum, NatPlusIs DEF NatTotal
<1>3. PICK gh : IsSum(gh, S, h, Nat, 0, NatPlus) /\ NatTotal(h) = gh[S]
  BY TotalIsSum, NatPlusIs DEF NatTotal
<1> DEFINE T == {s \in SUBSET S : gh[s] # ge[s] + gf[s]}
<1>4. T \in SUBSET FiniteSubsetsOf(S)
  BY FS_Subset DEF FiniteSubsetsOf
<1>5. CASE T = {}
  BY <1>1, <1>2, <1>3, <1>5
<1>6. CASE T # {}
  <2>1. PICK s \in T : \A v \in T : v \subseteq s => v = s
    <3> HIDE DEF T
    <3> QED
      BY <1>4, <1>6, SmallestSet
  <2>2. s \in SUBSET S /\ gh[s] # ge[s] + gf[s]
    OBVIOUS
  <2>3. PICK x \in s : TRUE
    <3> HIDE DEF T
    <3>1. ge[{}] = 0 /\ gf[{}] = 0 /\ gh[{}] = 0
      BY <1>1, <1>2, <1>3 DEF IsSum
    <3>2. ASSUME s = {} PROVE FALSE
      <4>1. ge[s] = 0 /\ gf[s] = 0 /\ gh[s] = 0
        BY <3>1, <3>2, Zenon
      <4> QED
        BY <2>2, <4>1
    <3> QED
      BY <3>2
  <2>4. s \ {x} \notin T /\ s \ {x} \in SUBSET S
    BY <2>1, <2>2, <2>3
  <2>5. gh[s \ {x}] = ge[s \ {x}] + gf[s \ {x}]
    BY <2>4
  <2> HIDE DEF T
  <2>6. /\ ge[s \ {x}] \in Nat /\ gf[s \ {x}] \in Nat /\ gh[s \ {x}] \in Nat
        /\ e[x] \in Nat /\ f[x] \in Nat /\ h[x] = e[x] + f[x]
    BY <1>1, <1>2, <1>3, <2>2, <2>3, <2>4 DEF IsSum
  <2>7. /\ ge[s] = NatPlus[<<e[x], ge[s \ {x}]>>]
        /\ gf[s] = NatPlus[<<f[x], gf[s \ {x}]>>]
        /\ gh[s] = NatPlus[<<h[x], gh[s \ {x}]>>]
    BY <1>1, <1>2, <1>3, <2>2, <2>3 DEF IsSum
  <2>8. h[x] \in Nat
    BY <2>6
  <2>9. /\ NatPlus[<<e[x], ge[s \ {x}]>>] = e[x] + ge[s \ {x}]
        /\ NatPlus[<<f[x], gf[s \ {x}]>>] = f[x] + gf[s \ {x}]
        /\ NatPlus[<<h[x], gh[s \ {x}]>>] = h[x] + gh[s \ {x}]
    BY <2>6, <2>8, NatPlusIs
  <2> QED
    BY <2>2, <2>5, <2>6, <2>7, <2>9
<1> QED
  BY <1>5, <1>6

\* Values of zero do not count.
LEMMA NatTotalZeros ==
    ASSUME NEW S, IsFiniteSet(S), NEW R \in SUBSET S, NEW f \in [S -> Nat], NEW h \in [R -> Nat],
           \A x \in R : h[x] = f[x], \A x \in S \ R : f[x] = 0
    PROVE  NatTotal(f) = NatTotal(h)
<1>0. IsFiniteSet(R)
  BY FS_Subset
<1>1. PICK g : IsSum(g, S, f, Nat, 0, NatPlus) /\ NatTotal(f) = g[S]
  BY TotalIsSum, NatPlusIs DEF NatTotal
<1>2. NatTotal(h) = g[R]
  BY <1>0, <1>1, TotalIs, NatPlusIs DEF NatTotal
<1> DEFINE T == {s \in SUBSET S : g[s] # g[s \cap R]}
<1>4. T \in SUBSET FiniteSubsetsOf(S)
  BY FS_Subset DEF FiniteSubsetsOf
<1>5. CASE T = {}
  <2>1. g[S] = g[S \cap R] /\ S \cap R = R
    BY <1>5
  <2> QED
    BY <1>1, <1>2, <2>1
<1>6. CASE T # {}
  <2>1. PICK s \in T : \A v \in T : v \subseteq s => v = s
    <3> HIDE DEF T
    <3> QED
      BY <1>4, <1>6, SmallestSet
  <2>2. s \in SUBSET S /\ g[s] # g[s \cap R]
    OBVIOUS
  <2>3. PICK x \in s : x \notin R
    <3>1. s \cap R # s
      BY <2>2
    <3> QED
      BY <3>1
  <2>4. s \ {x} \notin T /\ s \ {x} \in SUBSET S
    BY <2>1, <2>2, <2>3
  <2>5. g[s \ {x}] = g[(s \ {x}) \cap R] /\ (s \ {x}) \cap R = s \cap R
    BY <2>3, <2>4
  <2> HIDE DEF T
  <2>6. g[s] = NatPlus[<<f[x], g[s \ {x}]>>] /\ g[s \ {x}] \in Nat /\ f[x] = 0
    BY <1>1, <2>2, <2>3, <2>4 DEF IsSum
  <2>7. g[s] = g[s \ {x}]
    BY <2>6, NatPlusIs
  <2> QED
    BY <2>2, <2>5, <2>7
<1> QED
  BY <1>5, <1>6

\* k takes one element after another, in any order.
IsRecursion(k, S, f, V, zero, plus) ==
    /\ k[{}] = zero
    /\ \A s \in SUBSET S : s # {} =>
          \E x \in s : k[s \ {x}] \in V => k[s] = plus[<<f[x], k[s \ {x}]>>]

\* A recursion that takes one element of a set at a time computes the total.
LEMMA RecursionIsTotal ==
    ASSUME NEW S, IsFiniteSet(S), NEW V, NEW zero, NEW plus, IsPlus(V, zero, plus),
           NEW f \in [S -> V], NEW k, IsRecursion(k, S, f, V, zero, plus)
    PROVE  k[S] = Total(f, V, zero, plus)
<1>1. PICK g : IsSum(g, S, f, V, zero, plus) /\ Total(f, V, zero, plus) = g[S]
  BY TotalIsSum
<1> DEFINE T == {s \in SUBSET S : k[s] # g[s]}
<1>2. T \in SUBSET FiniteSubsetsOf(S)
  BY FS_Subset DEF FiniteSubsetsOf
<1>3. CASE T = {}
  <2>1. k[S] = g[S]
    BY <1>3
  <2> QED
    BY <1>1, <2>1
<1>4. CASE T # {}
  <2>1. PICK s \in T : \A v \in T : v \subseteq s => v = s
    <3> HIDE DEF T
    <3> QED
      BY <1>2, <1>4, SmallestSet
  <2>2. s \in SUBSET S /\ k[s] # g[s]
    OBVIOUS
  <2>3. s # {}
    <3> HIDE DEF T
    <3>1. ASSUME s = {} PROVE FALSE
      <4>1. g[{}] = zero
        BY <1>1 DEF IsSum
      <4>2. k[s] = zero /\ g[s] = zero
        BY <3>1, <4>1, Zenon DEF IsRecursion
      <4> QED
        BY <2>2, <4>2
    <3> QED
      BY <3>1
  <2>4. PICK x \in s : k[s \ {x}] \in V => k[s] = plus[<<f[x], k[s \ {x}]>>]
    BY <2>2, <2>3 DEF IsRecursion
  <2>5. s \ {x} \notin T /\ s \ {x} \in SUBSET S
    BY <2>1, <2>2, <2>4
  <2>6. k[s \ {x}] = g[s \ {x}]
    BY <2>5
  <2> HIDE DEF T
  <2>7. g[s] = plus[<<f[x], g[s \ {x}]>>] /\ g[s \ {x}] \in V
    BY <1>1, <2>2, <2>4, <2>5 DEF IsSum
  <2> QED
    BY <2>2, <2>4, <2>6, <2>7
<1> QED
  BY <1>3, <1>4

\* The sum of nothing but zeros.
LEMMA TotalZeros ==
    ASSUME NEW S, IsFiniteSet(S), NEW V, NEW zero, NEW plus, IsPlus(V, zero, plus),
           NEW f \in [S -> V], \A x \in S : f[x] = zero
    PROVE  Total(f, V, zero, plus) = zero
<1> DEFINE k == [s \in SUBSET S |-> zero]
<1>1. \A s \in SUBSET S : k[s] = zero
  OBVIOUS
<1> HIDE DEF k
<1>2. plus[<<zero, zero>>] = zero
  BY DEF IsPlus
<1>3. ASSUME NEW s \in SUBSET S, s # {}
      PROVE  \E x \in s : k[s \ {x}] \in V => k[s] = plus[<<f[x], k[s \ {x}]>>]
  <2>1. PICK x \in s : TRUE
    BY <1>3
  <2>2. x \in S /\ s \ {x} \in SUBSET S
    OBVIOUS
  <2>3. k[s] = zero /\ k[s \ {x}] = zero /\ f[x] = zero
    BY <1>1, <2>2
  <2>4. k[s] = plus[<<f[x], k[s \ {x}]>>]
    BY <1>2, <2>3
  <2> QED
    BY <2>1, <2>4
<1>4. k[{}] = zero
  BY <1>1
<1>5. IsRecursion(k, S, f, V, zero, plus)
  BY <1>3, <1>4, Zenon DEF IsRecursion
<1> QED
  BY <1>1, <1>5, RecursionIsTotal

\* What the folds of the library compute, in the order CHOOSE gives.
LEMMA ChosenSum ==
    ASSUME NEW S, IsFiniteSet(S), NEW f \in [S -> Nat]
    PROVE  (CHOOSE g : g = [s \in SUBSET S |->
               IF s = {} THEN 0
               ELSE f[CHOOSE x \in s : TRUE] + g[s \ {CHOOSE x \in s : TRUE}]])[S] = NatTotal(f)
<1> DEFINE F(k) == [s \in SUBSET S |->
                       IF s = {} THEN 0
                       ELSE f[CHOOSE x \in s : TRUE] + k[s \ {CHOOSE x \in s : TRUE}]]
<1>1. PICK g : IsSum(g, S, f, Nat, 0, NatPlus)
  BY SumExists, NatPlusIs
<1>2. g = F(g)
  <2>1. g \in [SUBSET S -> Nat] /\ g[{}] = 0
    BY <1>1 DEF IsSum
  <2>2. ASSUME NEW s \in SUBSET S, s # {}, NEW x \in s
        PROVE  g[s] = f[x] + g[s \ {x}]
    <3>1. g[s] = NatPlus[<<f[x], g[s \ {x}]>>] /\ g[s \ {x}] \in Nat /\ f[x] \in Nat
      BY <1>1, <2>1 DEF IsSum
    <3> QED
      BY <3>1, NatPlusIs
  <2>3. \A s \in SUBSET S : s # {} =>
           g[s] = f[CHOOSE x \in s : TRUE] + g[s \ {CHOOSE x \in s : TRUE}]
    BY <2>2
  <2>4. \A s \in SUBSET S : g[s] = F(g)[s]
    BY <2>1, <2>3
  <2> QED
    BY <2>1, <2>4
<1> DEFINE c == CHOOSE k : k = F(k)
<1>3. c = F(c)
  <2> HIDE DEF F
  <2> QED
    BY <1>2
<1> HIDE DEF c
<1>4. c[{}] = 0
  BY <1>3
<1>5. ASSUME NEW s \in SUBSET S, s # {}
      PROVE  \E x \in s : c[s \ {x}] \in Nat => c[s] = NatPlus[<<f[x], c[s \ {x}]>>]
  <2> DEFINE x == CHOOSE x \in s : TRUE
  <2>1. x \in s /\ c[s] = f[x] + c[s \ {x}]
    BY <1>3, <1>5
  <2> HIDE DEF x
  <2>2. f[x] \in Nat
    BY <2>1
  <2>3. c[s \ {x}] \in Nat => c[s] = NatPlus[<<f[x], c[s \ {x}]>>]
    BY <2>1, <2>2, NatPlusIs
  <2> QED
    BY <2>1, <2>3
<1> HIDE DEF F
<1>6. c[S] = NatTotal(f)
  <2>1. IsPlus(Nat, 0, NatPlus)
    BY NatPlusIs
  <2>2. IsRecursion(c, S, f, Nat, 0, NatPlus)
    BY <1>4, <1>5, Zenon DEF IsRecursion
  <2> QED
    BY <2>1, <2>2, RecursionIsTotal DEF NatTotal
<1> QED
  BY <1>6 DEF c, F

\* The cardinality of a bag.
LEMMA BagCardinalityIs ==
    ASSUME NEW P, IsFiniteSet(P), NEW b \in BagsOver(P)
    PROVE  /\ BagCardinality(b) = NatTotal([e \in P |-> Copies(e, b)])
           /\ BagCardinality(b) \in Nat
<1>1. /\ DOMAIN b \in SUBSET P /\ b \in [DOMAIN b -> Nat]
      /\ \A e : Copies(e, b) \in Nat
      /\ \A e : Copies(e, b) # 0 <=> e \in DOMAIN b
  BY BagFacts
<1>2. IsFiniteSet(DOMAIN b)
  BY <1>1, FS_Subset
<1> DEFINE D == DOMAIN b
<1>3. BagCardinality(b) = (CHOOSE g : g = [s \in SUBSET D |->
               IF s = {} THEN 0
               ELSE b[CHOOSE x \in s : TRUE] + g[s \ {CHOOSE x \in s : TRUE}]])[D]
  BY DEF BagCardinality
<1>4. BagCardinality(b) = NatTotal(b)
  <2>1. D = DOMAIN b
    OBVIOUS
  <2> HIDE DEF D
  <2> QED
    BY <1>1, <1>2, <1>3, <2>1, ChosenSum
<1> DEFINE f == [e \in P |-> Copies(e, b)]
<1>5. /\ f \in [P -> Nat] /\ \A x \in DOMAIN b : b[x] = f[x]
      /\ \A x \in P \ DOMAIN b : f[x] = 0
  BY <1>1 DEF Copies
<1> HIDE DEF f
<1>6. NatTotal(f) = NatTotal(b)
  BY <1>1, <1>5, NatTotalZeros
<1>7. NatTotal(b) \in Nat
  BY <1>1, <1>2, TotalIsSum, TotalIs, NatPlusIs DEF NatTotal
<1> QED
  BY <1>4, <1>6, <1>7 DEF f

\* The sum over a function and over a subset of its domain.
LEMMA SumFunctionIs ==
    ASSUME NEW S, IsFiniteSet(S), NEW R, S \subseteq R, NEW f \in [R -> Nat]
    PROVE  SumFunctionOnSet(f, S) = NatTotal([x \in S |-> f[x]])
<1> DEFINE h == [x \in S |-> f[x]]
<1>1. h \in [S -> Nat] /\ \A x \in S : h[x] = f[x]
  OBVIOUS
<1> HIDE DEF h
<1> DEFINE P(g) == g = [s \in SUBSET S |->
                           IF s = {} THEN 0
                           ELSE f[CHOOSE x \in s : TRUE] + g[s \ {CHOOSE x \in s : TRUE}]]
           Q(g) == g = [s \in SUBSET S |->
                           IF s = {} THEN 0
                           ELSE h[CHOOSE x \in s : TRUE] + g[s \ {CHOOSE x \in s : TRUE}]]
<1>2. ASSUME NEW g PROVE P(g) <=> Q(g)
  <2>1. \A s \in SUBSET S : s # {} => f[CHOOSE x \in s : TRUE] = h[CHOOSE x \in s : TRUE]
    BY <1>1
  <2> QED
    BY <2>1
<1>3. (CHOOSE g : P(g)) = (CHOOSE g : Q(g))
  <2> HIDE DEF P, Q
  <2> QED
    BY <1>2
<1>4. (CHOOSE g : Q(g))[S] = NatTotal(h)
  BY <1>1, ChosenSum
<1>5. SumFunctionOnSet(f, S) = (CHOOSE g : P(g))[S]
  BY DEF SumFunctionOnSet, FoldFunctionOnSet, MapThenFoldSet
<1> QED
  BY <1>3, <1>4, <1>5 DEF h

\* The cardinalities of the bags that the operations on bags give.
LEMMA BagCardinalities ==
    ASSUME NEW P, IsFiniteSet(P), NEW a \in BagsOver(P)
    PROVE  /\ BagCardinality(EmptyBag) = 0
           /\ BagCardinality(a) \in Nat
           /\ \A x \in P : BagCardinality(SetToBag({x})) = 1
           /\ \A b \in BagsOver(P) : BagCardinality(a (+) b) = BagCardinality(a) + BagCardinality(b)
           /\ BagCardinality(a) = 0 => a = EmptyBag
<1>1. BagCardinality(EmptyBag) = 0
  <2>1. /\ EmptyBag \in BagsOver(P)
        /\ [e \in P |-> Copies(e, EmptyBag)] \in [P -> Nat]
        /\ \A e \in P : [x \in P |-> Copies(x, EmptyBag)][e] = 0
    BY BagOfNothing
  <2> DEFINE f == [e \in P |-> Copies(e, EmptyBag)]
             none == P \ P
             z == [e \in none |-> 0]
  <2>2. z \in [none -> Nat] /\ (\A x : x \notin none) /\ none \in SUBSET P
    OBVIOUS
  <2>3. NatTotal(z) = 0
    <3> HIDE DEF z
    <3> QED
      BY <2>2, TotalEmpty, NatPlusIs DEF NatTotal
  <2>4. f \in [P -> Nat] /\ (\A x \in none : z[x] = f[x]) /\ \A x \in P \ none : f[x] = 0
    BY <2>1
  <2> HIDE DEF f, z, none
  <2>5. NatTotal(f) = NatTotal(z)
    BY <2>2, <2>4, NatTotalZeros
  <2> QED
    BY <2>1, <2>3, <2>5, BagCardinalityIs DEF f
<1>2. ASSUME NEW b \in BagsOver(P)
      PROVE  BagCardinality(a (+) b) = BagCardinality(a) + BagCardinality(b)
  <2> DEFINE e == [x \in P |-> Copies(x, a)]
             f == [x \in P |-> Copies(x, b)]
             h == [x \in P |-> Copies(x, a (+) b)]
  <2>1. a (+) b \in BagsOver(P) /\ \A x \in P : h[x] = e[x] + f[x]
    BY BagSum
  <2>2. e \in [P -> Nat] /\ f \in [P -> Nat] /\ h \in [P -> Nat]
    BY <2>1, BagFacts
  <2>3. BagCardinality(a) = NatTotal(e) /\ BagCardinality(b) = NatTotal(f)
        /\ BagCardinality(a (+) b) = NatTotal(h)
    BY <2>1, BagCardinalityIs
  <2> HIDE DEF e, f, h
  <2> QED
    BY <2>1, <2>2, <2>3, NatTotalPlus
<1>3. ASSUME NEW x \in P PROVE BagCardinality(SetToBag({x})) = 1
  <2> DEFINE b == SetToBag({x})
             f == [y \in P |-> Copies(y, b)]
             h == [y \in {x} |-> 1]
             z == [y \in {x} \ {x} |-> 0]
  <2>1. b \in BagsOver(P) /\ \A y : Copies(y, b) = IF y \in {x} THEN 1 ELSE 0
    BY BagOfSet
  <2>2. f \in [P -> Nat] /\ h \in [{x} -> Nat] /\ z \in [{x} \ {x} -> Nat]
    BY <2>1
  <2>3. \A y \in {x} : h[y] = f[y]
    BY <2>1
  <2>4. \A y \in P \ {x} : f[y] = 0
    BY <2>1
  <2>5. h[x] = 1 /\ \A y \in {x} \ {x} : z[y] = h[y]
    OBVIOUS
  <2>6. BagCardinality(b) = NatTotal(f)
    BY <2>1, BagCardinalityIs
  <2> HIDE DEF b, f, h, z
  <2>7. NatTotal(f) = NatTotal(h)
    BY <2>2, <2>3, <2>4, NatTotalZeros
  <2>8. NatTotal(z) = 0
    <3>1. \A y : y \notin {x} \ {x}
      OBVIOUS
    <3> QED
      BY <2>2, <3>1, TotalEmpty, NatPlusIs DEF NatTotal
  <2>9. NatTotal(h) = NatPlus[<<h[x], NatTotal(z)>>]
    <3>1. IsPlus(Nat, 0, NatPlus) /\ IsFiniteSet({x})
      BY NatPlusIs, FS_Singleton
    <3> QED
      BY <2>2, <2>5, <3>1, TotalSplit DEF NatTotal
  <2> QED
    BY <2>5, <2>6, <2>7, <2>8, <2>9, NatPlusIs DEF b
<1>4. ASSUME BagCardinality(a) = 0 PROVE a = EmptyBag
  <2> DEFINE f == [e \in P |-> Copies(e, a)]
  <2>1. f \in [P -> Nat] /\ NatTotal(f) = 0
    BY <1>4, BagFacts, BagCardinalityIs
  <2>2. PICK g : IsSum(g, P, f, Nat, 0, NatPlus) /\ NatTotal(f) = g[P]
    <3> HIDE DEF f
    <3> QED
      BY <2>1, TotalIsSum, NatPlusIs DEF NatTotal
  <2>3. ASSUME NEW x \in P PROVE Copies(x, a) = 0
    <3>1. g[P] = NatPlus[<<f[x], g[P \ {x}]>>] /\ g[P \ {x}] \in Nat
      BY <2>2 DEF IsSum
    <3>2. f[x] \in Nat /\ f[x] = Copies(x, a)
      BY <2>1
    <3> HIDE DEF f
    <3>3. g[P] = f[x] + g[P \ {x}]
      BY <3>1, <3>2, NatPlusIs
    <3> QED
      BY <2>1, <2>2, <3>1, <3>2, <3>3
  <2> QED
    BY <2>3, BagOfNothing, BagsEqual
<1> QED
  BY <1>1, <1>2, <1>3, <1>4, BagCardinalityIs

\* A set taken as a bag.
LEMMA BagCardinalityOfSet ==
    ASSUME NEW P, IsFiniteSet(P), NEW S \in SUBSET P
    PROVE  BagCardinality(SetToBag(S)) = Cardinality(S)
<1> DEFINE T == {s \in SUBSET S : BagCardinality(SetToBag(s)) # Cardinality(s)}
<1>1. IsFiniteSet(S)
  BY FS_Subset
<1>2. T \in SUBSET FiniteSubsetsOf(S)
  BY <1>1, FS_Subset DEF FiniteSubsetsOf
<1>3. CASE T = {}
  BY <1>3
<1>4. CASE T # {}
  <2>1. PICK s \in T : \A v \in T : v \subseteq s => v = s
    <3> HIDE DEF T
    <3> QED
      BY <1>2, <1>4, SmallestSet
  <2>2. s \in SUBSET S /\ BagCardinality(SetToBag(s)) # Cardinality(s)
    OBVIOUS
  <2>3. s # {}
    <3>1. EmptyBag \in BagsOver(P) /\ SetToBag({}) \in BagsOver(P)
          /\ \A e \in P : Copies(e, EmptyBag) = Copies(e, SetToBag({}))
      BY BagOfNothing, BagOfSet
    <3>2. SetToBag({}) = EmptyBag
      BY <3>1, BagsEqual
    <3>3. BagCardinality(SetToBag({})) = 0
      BY <3>1, <3>2, BagCardinalities
    <3> QED
      BY <2>2, <3>3, FS_EmptySet
  <2>4. PICK x \in s : TRUE
    BY <2>3
  <2>5. s \ {x} \notin T /\ s \ {x} \in SUBSET S
    BY <2>1, <2>2, <2>4
  <2>6. BagCardinality(SetToBag(s \ {x})) = Cardinality(s \ {x})
    BY <2>5
  <2> HIDE DEF T
  <2>7. SetToBag(s) \in BagsOver(P) /\ SetToBag(s \ {x}) \in BagsOver(P)
        /\ SetToBag({x}) \in BagsOver(P) /\ x \in P /\ x \in s
    BY <2>2, <2>4, BagOfSet
  <2>8. SetToBag(s) = SetToBag(s \ {x}) (+) SetToBag({x})
    <3>1. \A e : /\ Copies(e, SetToBag(s)) = IF e \in s THEN 1 ELSE 0
                 /\ Copies(e, SetToBag(s \ {x})) = IF e \in s \ {x} THEN 1 ELSE 0
                 /\ Copies(e, SetToBag({x})) = IF e \in {x} THEN 1 ELSE 0
      BY <2>2, <2>7, BagOfSet
    <3>2. /\ SetToBag(s \ {x}) (+) SetToBag({x}) \in BagsOver(P)
          /\ \A e : Copies(e, SetToBag(s \ {x}) (+) SetToBag({x}))
                      = Copies(e, SetToBag(s \ {x})) + Copies(e, SetToBag({x}))
      BY <2>7, BagSum
    <3>3. \A e \in P : Copies(e, SetToBag(s)) = Copies(e, SetToBag(s \ {x}) (+) SetToBag({x}))
      BY <2>7, <3>1, <3>2
    <3> QED
      BY <2>7, <3>2, <3>3, BagsEqual
  <2>9. BagCardinality(SetToBag(s)) = Cardinality(s \ {x}) + 1
    BY <2>6, <2>7, <2>8, BagCardinalities
  <2>10. IsFiniteSet(s)
    BY <1>1, <2>2, FS_Subset
  <2>11. Cardinality(s \ {x}) = Cardinality(s) - 1 /\ Cardinality(s) \in Nat
    BY <2>7, <2>10, FS_RemoveElement, FS_CardinalityType
  <2> QED
    BY <2>2, <2>9, <2>11
<1> QED
  BY <1>3, <1>4

-----------------------------------------------------------------------------
(* Remainders.                                                             *)

\* What is left of a multiple of M and a number below M.
LEMMA RemainderIs ==
    ASSUME NEW M \in Nat \ {0}, NEW q \in Int, NEW r \in 0 .. M - 1
    PROVE  (q * M + r) % M = r
OBVIOUS

\* Division with remainder.
LEMMA Remainder ==
    ASSUME NEW M \in Nat \ {0}, NEW a \in Nat
    PROVE  \E q \in Nat : \E r \in 0 .. M - 1 : a = q * M + r /\ a % M = r
<1> DEFINE R == {r \in Nat : \E q \in Nat : a = q * M + r}
<1>1. a = 0 * M + a
  OBVIOUS
<1>2. a \in R
  BY <1>1
<1>3. PICK r \in R : \A m \in R : r <= m
  <2> HIDE DEF R
  <2>1. R \in SUBSET Nat
    BY DEF R
  <2> QED
    BY <1>2, <2>1, LeastNumber
<1>4. PICK q \in Nat : a = q * M + r
  OBVIOUS
<1>5. r \in Nat
  OBVIOUS
<1>6. r < M
  <2>1. SUFFICES ASSUME r >= M PROVE FALSE
    BY <1>5
  <2>2. r - M \in Nat /\ q + 1 \in Nat /\ a = (q + 1) * M + (r - M)
    BY <1>4, <1>5, <2>1
  <2>3. r - M \in R
    BY <2>2
  <2> QED
    BY <1>3, <1>5, <2>3
<1>7. r \in 0 .. M - 1
  BY <1>5, <1>6
<1>8. (q * M + r) % M = r
  BY <1>7, RemainderIs
<1> QED
  BY <1>4, <1>7, <1>8

\* A sum may be taken modulo M at any time.
LEMMA ModuloSum ==
    ASSUME NEW M \in Nat \ {0}, NEW a \in Nat, NEW b \in Nat
    PROVE  ((a % M) + b) % M = (a + b) % M /\ a % M \in 0 .. M - 1
<1>1. PICK q \in Nat, r \in 0 .. M - 1 : a = q * M + r /\ a % M = r
  BY Remainder
<1>2. r + b \in Nat /\ a \in Nat
  OBVIOUS
<1>3. PICK p \in Nat, s \in 0 .. M - 1 : r + b = p * M + s /\ (r + b) % M = s
  BY <1>2, Remainder
<1>4. q \in Int /\ p \in Int /\ M \in Int /\ r \in Int /\ s \in Int
  OBVIOUS
<1>5. q * M + p * M = (q + p) * M
  BY <1>4
<1>6. a + b = (q + p) * M + s /\ q + p \in Nat
  <2>1. q * M \in Int /\ p * M \in Int
    BY <1>4
  <2>2. a + b = q * M + (p * M + s)
    BY <1>1, <1>3, <1>4, <2>1
  <2> QED
    BY <1>4, <1>5, <2>1, <2>2
<1>7. ((q + p) * M + s) % M = s
  <2>1. q + p \in Int /\ s \in 0 .. M - 1
    OBVIOUS
  <2> QED
    BY <2>1, RemainderIs, Zenon
<1>8. (a + b) % M = s
  BY <1>6, <1>7, Zenon
<1>9. ((a % M) + b) % M = s
  BY <1>1, <1>3, Zenon
<1>10. a % M \in 0 .. M - 1
  BY <1>1, Zenon
<1> QED
  BY <1>8, <1>9, <1>10, Zenon
=============================================================================
