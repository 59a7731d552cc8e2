------------------------- MODULE BarrierRoundsProofs -------------------------
(***************************************************************************)
(* The rounds of the barrier stay apart, for any number of threads and of  *)
(* rounds.                                                                 *)
(***************************************************************************)
EXTENDS BarrierRounds, FiniteSets, FiniteSetTheorems, TLAPS

(***************************************************************************)
(* In round g a thread has either arrived, and waits, or not, and then it  *)
(* may still have to return from the round before.                         *)
(***************************************************************************)
InRound(g) ==
    \A t \in Threads :
        IF t \in waiting
          THEN calls[t] = g + 1 /\ returns[t] = g
          ELSE calls[t] = g /\ returns[t] \in {g - 1, g}

\* The inductive invariant: the count is the number of threads that wait, and
\* all threads are in one round.
RoundInv ==
    /\ calls \in [Threads -> Nat]
    /\ returns \in [Threads -> Nat]
    /\ waiting \subseteq Threads
    /\ count = Cardinality(waiting)
    /\ count < NumThreads
    /\ \E g \in Nat : InRound(g)

\* There are finitely many threads, and a proper subset of them is smaller.
LEMMA ThreadsFinite ==
    /\ IsFiniteSet(Threads)
    /\ Cardinality(Threads) = NumThreads
    /\ \A S \in SUBSET Threads : IsFiniteSet(S) /\ Cardinality(S) \in Nat
    /\ \A S \in SUBSET Threads : \A t \in Threads \ S :
          Cardinality(S \union {t}) = Cardinality(S) + 1
    /\ \A S \in SUBSET Threads : Cardinality(S) >= NumThreads => S = Threads
<1>1. IsFiniteSet(Threads) /\ Cardinality(Threads) = NumThreads
  BY FS_Interval, NumThreadsAssumption DEF Threads
<1>2. \A S \in SUBSET Threads : IsFiniteSet(S) /\ Cardinality(S) \in Nat
  BY <1>1, FS_Subset, FS_CardinalityType
<1>3. ASSUME NEW S \in SUBSET Threads, NEW t \in Threads \ S
      PROVE  Cardinality(S \union {t}) = Cardinality(S) + 1
  BY <1>2, FS_AddElement
<1>4. ASSUME NEW S \in SUBSET Threads, Cardinality(S) >= NumThreads
      PROVE  S = Threads
  <2>1. Cardinality(S) <= NumThreads
    BY <1>1, FS_Subset
  <2> QED
    BY <1>1, <1>2, <1>4, <2>1, FS_Subset, NumThreadsAssumption
<1> QED
  BY <1>1, <1>2, <1>3, <1>4

\* Before the first call every thread is in round 0.
LEMMA RoundInit == Init => RoundInv
<1> SUFFICES ASSUME Init PROVE RoundInv
  OBVIOUS
<1>1. InRound(0)
  BY DEF Init, BarrierInit, InRound
<1> QED
  BY <1>1, FS_EmptySet, NumThreadsAssumption DEF Init, BarrierInit, RoundInv

\* A thread that arrives joins those that wait, or is the last of its round
\* and begins the next one.
LEMMA CallPreserves ==
    ASSUME RoundInv, NEW t \in Threads, Call(t)
    PROVE  RoundInv'
<1>1. PICK g \in Nat : InRound(g)
  BY DEF RoundInv
<1>2. t \notin waiting /\ calls[t] = g /\ returns[t] = g
  BY <1>1 DEF Call, InRound
<1>3. calls' \in [Threads -> Nat] /\ returns' \in [Threads -> Nat]
  BY DEF RoundInv, Call
<1>4. Cardinality(waiting \union {t}) = count + 1
  BY <1>2, ThreadsFinite DEF RoundInv
<1>5. CASE count + 1 < NumThreads
  <2>1. count' = count + 1 /\ waiting' = waiting \union {t}
    BY <1>5 DEF Call, Arrive
  <2>2. InRound(g)'
    BY <1>1, <1>2, <2>1 DEF InRound, Call, RoundInv
  <2> QED
    BY <1>3, <1>4, <1>5, <2>1, <2>2 DEF RoundInv
<1>6. CASE ~(count + 1 < NumThreads)
  <2>1. count' = 0 /\ waiting' = {}
    BY <1>6 DEF Call, Arrive
  <2>2. waiting \union {t} = Threads
    <3>1. Cardinality(waiting \union {t}) >= NumThreads
      BY <1>4, <1>6, ThreadsFinite, NumThreadsAssumption DEF RoundInv
    <3> QED
      BY <3>1, ThreadsFinite DEF RoundInv
  <2>3. \A u \in Threads : calls'[u] = g + 1 /\ returns'[u] = g
    BY <1>1, <1>2, <2>2 DEF InRound, Call, RoundInv
  <2>4. InRound(g + 1)'
    BY <2>1, <2>3 DEF InRound
  <2> QED
    BY <1>3, <2>1, <2>4, FS_EmptySet, NumThreadsAssumption DEF RoundInv
<1> QED
  BY <1>5, <1>6

\* Returning from barrier() changes neither the round nor who waits.
LEMMA ReturnPreserves ==
    ASSUME RoundInv, NEW t \in Threads, Return(t)
    PROVE  RoundInv'
<1>1. PICK g \in Nat : InRound(g)
  BY DEF RoundInv
<1>2. t \notin waiting /\ returns[t] = g - 1
  BY <1>1 DEF Return, Released, InRound
<1>3. InRound(g)'
  BY <1>1, <1>2 DEF InRound, Return, RoundInv
<1> QED
  BY <1>3 DEF RoundInv, Return

\* RoundInv is inductive.
THEOREM RoundsKeptApart == Spec => []RoundInv
<1>1. RoundInv /\ [Next]_vars => RoundInv'
  <2> SUFFICES ASSUME RoundInv, [Next]_vars PROVE RoundInv'
    OBVIOUS
  <2>1. CASE Next
    BY <2>1, CallPreserves, ReturnPreserves DEF Next
  <2>2. CASE UNCHANGED vars
    BY <2>2 DEF vars, RoundInv, InRound
  <2> QED
    BY <2>1, <2>2
<1> QED
  BY <1>1, RoundInit, PTL DEF Spec

(***************************************************************************)
(* Nobody returns from its n-th call of barrier() before every thread has  *)
(* made its n-th call.                                                     *)
(***************************************************************************)
THEOREM NobodyLeavesEarlyHolds == Spec => []NobodyLeavesEarly
<1>1. RoundInv => NobodyLeavesEarly
  <2> SUFFICES ASSUME RoundInv, NEW t \in Threads, NEW u \in Threads
               PROVE  returns[t] <= calls[u]
    BY DEF NobodyLeavesEarly
  <2>1. PICK g \in Nat : InRound(g)
    BY DEF RoundInv
  <2>2. returns[t] <= g
    BY <2>1 DEF InRound
  <2>3. calls[u] >= g
    BY <2>1 DEF InRound
  <2> QED
    BY <2>1, <2>2, <2>3 DEF RoundInv
<1> QED
  BY <1>1, RoundsKeptApart, PTL
=============================================================================
