--------------------------- MODULE MapReduceProofs ---------------------------
(***************************************************************************)
(* Proofs about a MapReduce job, for any number of threads, inputs and     *)
(* keys.                                                                   *)
(*                                                                         *)
(* The first part is about its control: the barriers, the mutexes, the     *)
(* phases and the atomic counter.  The second part is about its data:      *)
(* where the pairs are, what getJobState reports, and what the client has  *)
(* when waitForJob returns.  A bag is looked at one pair at a time         *)
(* (Copies), so that the conservation of the pairs is arithmetic on the    *)
(* copies of one pair.                                                     *)
(***************************************************************************)
EXTENDS MapReduce, DataLemmas, FiniteSetTheorems, SequenceTheorems, TLAPS

-----------------------------------------------------------------------------
(* The inductive invariant.                                                *)

\* Where a thread is before it has arrived at the first and at the second
\* barrier.
Before1 == MapPcs \union {"new", "barrier"}
Before2 == Before1 \union {"barrier_wait", "shuffle", "shuffle_top", "shuffle_loop",
                              "barrier_reduce"}

\* The threads that have not yet arrived at a barrier, and those that are in it.
Mapping == {t \in Threads : pc[t] \in Before1}
Waiting1 == {t \in Threads : pc[t] = "barrier_wait"}
Shuffling == {t \in Threads : pc[t] \in Before2}
Waiting2 == {t \in Threads : pc[t] = "barrier_reduce_wait"}

\* As long as a thread is missing, all who have arrived at a barrier wait.
Barrier1Inv ==
    \/ /\ Mapping # {}
       /\ Mapping \union Waiting1 = Threads
       /\ b1_waiting = Waiting1
       /\ b1_count = Cardinality(Waiting1)
    \/ Mapping = {} /\ b1_waiting = {}
Barrier2Inv ==
    \/ /\ Shuffling # {}
       /\ Shuffling \union Waiting2 = Threads
       /\ b2_waiting = Waiting2
       /\ b2_count = Cardinality(Waiting2)
    \/ Shuffling = {} /\ b2_waiting = {}

\* The stages, the flags and finished_shuffle_stage follow the threads.
StageInv ==
    /\ pc \in [Threads -> Pcs]
    /\ set_flags \subseteq {MAP_STAGE, SHUFFLE_STAGE, REDUCE_STAGE}
    /\ progress = [stage |-> progress.stage, todo |-> progress.todo, done |-> progress.done]
    /\ progress.stage = IF REDUCE_STAGE \in set_flags THEN REDUCE_STAGE
                        ELSE IF SHUFFLE_STAGE \in set_flags THEN SHUFFLE_STAGE
                        ELSE IF MAP_STAGE \in set_flags THEN MAP_STAGE
                        ELSE UNDEFINED_STAGE
    /\ \A t \in Threads :
          /\ pc[t] \in {"shuffle", "shuffle_top", "shuffle_loop"} => t = MainTId
          /\ pc[t] \notin {"new", "set_map"} => MAP_STAGE \in set_flags
          /\ pc[t] \in ReducePcs \ {"reduce"} => REDUCE_STAGE \in set_flags
          /\ t = MainTId =>
                /\ SHUFFLE_STAGE \in set_flags
                     <=> pc[t] \notin Before1 \union {"barrier_wait", "shuffle"}
                /\ finished_shuffle
                     <=> pc[t] \notin Before1 \union {"barrier_wait", "shuffle", "shuffle_top",
                                                   "shuffle_loop"}
    /\ REDUCE_STAGE \in set_flags => Shuffling = {}
    /\ Threads = {} => set_flags = {}
    /\ client = "start" =>
          /\ turn \in Nat
          /\ \A t \in Threads : t >= turn => pc[t] = "new"

\* The claims of the map phase.
ClaimInv ==
    /\ index \in [Threads -> Int]
    /\ \A t \in Threads : pc[t] \in {"map_check", "map_claim"} => mutex_map = t
    /\ progress.stage = UNDEFINED_STAGE \/ progress.stage = MAP_STAGE =>
          progress.done \in 0 .. NumInputs
    /\ \A t \in Threads : pc[t] = "map_claim" => progress.done < NumInputs
    /\ \A t \in Threads : pc[t] = "map_call" =>
          /\ index[t] \in 0 .. progress.done - 1
          /\ \A u \in Threads : pc[u] = "map_call" /\ index[u] = index[t] => u = t

\* s is a sequence (of whatever its elements are).
IsVector(s) == s \in Seq(Range(s))

\* The tokens of the reduce phase.
TokenInv ==
    /\ sem \in Nat
    /\ IsVector(vector_of_vectors)
    /\ SHUFFLE_STAGE \notin set_flags => sem = 0
    /\ \A t \in Threads :
          /\ pc[t] \in {"shuffle_top", "shuffle_loop"} => sem = Len(vector_of_vectors)
          /\ pc[t] \in {"reduce_lock", "reduce_take"} => vector_of_vectors # <<>>
          /\ pc[t] \in {"reduce_exit", "done"} => vector_of_vectors = <<>>
    /\ SHUFFLE_STAGE \in set_flags /\ vector_of_vectors # <<>> =>
          sem + Cardinality(TokenHolders) = Len(vector_of_vectors)
    /\ NoStuckReducer

\* The invariant of the control: every conjunct, with the others, is
\* inductive.
JobInv == StageInv /\ Barrier1Inv /\ Barrier2Inv /\ ClaimInv /\ TokenInv

-----------------------------------------------------------------------------
(* Facts about the threads.                                                *)

\* Threads are numbered from 0, and if there is one there is thread 0.
LEMMA ThreadNumbers ==
    /\ NumOfThreads \in Nat
    /\ Threads \subseteq Nat
    /\ Free \notin Threads
    /\ \A t \in Threads : MainTId \in Threads
BY MultiThreadLevelAssumption, NumInputsAssumption
   DEF NumOfThreads, Threads, Free, MainTId

\* There are finitely many of them.
LEMMA ThreadSets ==
    /\ Cardinality(Threads) = NumOfThreads
    /\ \A S \in SUBSET Threads : IsFiniteSet(S) /\ Cardinality(S) \in Nat
    /\ \A S \in SUBSET Threads : \A t \in Threads \ S :
          Cardinality(S \union {t}) = Cardinality(S) + 1
    /\ \A S \in SUBSET Threads : \A t \in S :
          Cardinality(S \ {t}) = Cardinality(S) - 1
    /\ \A S \in SUBSET Threads : S = {} <=> Cardinality(S) = 0
    /\ \A S \in SUBSET Threads : Cardinality(S) >= NumOfThreads => S = Threads
<1>1. IsFiniteSet(Threads) /\ Cardinality(Threads) = NumOfThreads
  BY FS_Interval, ThreadNumbers DEF Threads
<1>2. \A S \in SUBSET Threads : IsFiniteSet(S) /\ Cardinality(S) \in Nat
  BY <1>1, FS_Subset, FS_CardinalityType
<1>3. ASSUME NEW S \in SUBSET Threads, NEW t \in Threads \ S
      PROVE  Cardinality(S \union {t}) = Cardinality(S) + 1
  BY <1>2, FS_AddElement
<1>4. ASSUME NEW S \in SUBSET Threads, NEW t \in S
      PROVE  Cardinality(S \ {t}) = Cardinality(S) - 1
  BY <1>2, FS_RemoveElement
<1>5. ASSUME NEW S \in SUBSET Threads
      PROVE  S = {} <=> Cardinality(S) = 0
  BY <1>2, FS_EmptySet
<1>6. ASSUME NEW S \in SUBSET Threads, Cardinality(S) >= NumOfThreads
      PROVE  S = Threads
  <2>1. Cardinality(S) <= NumOfThreads
    BY <1>1, FS_Subset
  <2>2. Cardinality(S) = NumOfThreads
    BY <1>2, <1>6, <2>1, ThreadNumbers
  <2> QED
    BY <1>1, <2>2, FS_Subset
<1> QED
  BY <1>1, <1>2, <1>3, <1>4, <1>5, <1>6

\* The invariant holds before the client starts the job.
LEMMA JobInit == Init => JobInv
<1> SUFFICES ASSUME Init PROVE JobInv
  OBVIOUS
<1>1. StageInv
  BY ThreadNumbers DEF Init, StageInv, Pcs, Before1, Before2, MapPcs, ReducePcs,
     UNDEFINED_STAGE, MAP_STAGE, SHUFFLE_STAGE, REDUCE_STAGE, Shuffling
<1>2. Waiting1 = {} /\ Waiting2 = {} /\ Mapping = Threads /\ Shuffling = Threads
  BY DEF Init, Waiting1, Waiting2, Mapping, Shuffling, Before1, Before2
<1>3. Barrier1Inv /\ Barrier2Inv
  BY <1>2, ThreadSets DEF Init, B1!BarrierInit, B2!BarrierInit, Barrier1Inv, Barrier2Inv
<1>4. ClaimInv
  BY NumInputsAssumption DEF Init, ClaimInv
<1>5. TokenInv
  <2>1. IsVector(<<>>)
    BY DEF IsVector, Range
  <2>2. vector_of_vectors = <<>> /\ sem = 0 /\ set_flags = {} /\ \A t \in Threads : pc[t] = "new"
    BY DEF Init
  <2> QED
    BY <2>1, <2>2 DEF TokenInv, NoStuckReducer
<1> QED
  BY <1>1, <1>3, <1>4, <1>5 DEF JobInv

-----------------------------------------------------------------------------
(* The stages.                                                             *)

\* A step of a thread preserves StageInv.
LEMMA StageThread ==
    ASSUME JobInv, NEW t \in Threads, ThreadStep(t)
    PROVE  StageInv'
<1> USE DEF At, Goto, StageInv, JobInv, SetAtomic, counter_vars
<1> USE DEF UNDEFINED_STAGE, MAP_STAGE, SHUFFLE_STAGE, REDUCE_STAGE, MainTId
<1> USE DEF Pcs, Before1, Before2, MapPcs, ReducePcs, Shuffling, Mapping, Waiting1, Waiting2
<1> USE DEF Barrier1Inv, Barrier2Inv, client_vars, shuffle_vars, map_vars
<1>1. CASE SetMap(t)
  BY <1>1, ThreadNumbers DEF SetMap, later_vars
<1>2. CASE MapTest(t)
  BY <1>2, ThreadNumbers DEF MapTest, data_vars, later_vars
<1>3. CASE MapLock(t)
  BY <1>3, ThreadNumbers DEF MapLock, Lock, later_vars
<1>4. CASE MapCheck(t)
  BY <1>4, ThreadNumbers DEF MapCheck, NothingLeft, later_vars
<1>5. CASE MapClaim(t)
  BY <1>5, ThreadNumbers DEF MapClaim, later_vars
<1>6. CASE MapCall(t)
  BY <1>6, ThreadNumbers DEF MapCall, later_vars
<1>7. CASE Sort(t)
  BY <1>7, ThreadNumbers DEF Sort
<1>8. CASE ArriveMapped(t)
  BY <1>8, ThreadNumbers DEF ArriveMapped
<1>9. CASE LeaveMapped(t)
  BY <1>9, ThreadNumbers DEF LeaveMapped, data_vars, later_vars
<1>10. CASE ShuffleStart(t)
  BY <1>10, ThreadNumbers DEF ShuffleStart
<1>11. CASE ShufflePop(t)
  BY <1>11, ThreadNumbers DEF ShufflePop
<1>12. CASE ShuffleNextKey(t)
  BY <1>12, ThreadNumbers DEF ShuffleNextKey
<1>13. CASE ShuffleEnd(t)
  BY <1>13, ThreadNumbers DEF ShuffleEnd
<1>14. CASE ArriveShuffled(t)
  BY <1>14, ThreadNumbers DEF ArriveShuffled
<1>15. CASE LeaveShuffled(t)
  BY <1>15, ThreadNumbers DEF LeaveShuffled, data_vars, later_vars
<1>16. CASE ReduceEnter(t)
  BY <1>16, ThreadNumbers DEF ReduceEnter, later_vars
<1>17. CASE ReduceTest(t)
  BY <1>17, ThreadNumbers DEF ReduceTest, data_vars, later_vars
<1>18. CASE ReduceWait(t)
  BY <1>18, ThreadNumbers DEF ReduceWait, Decrease, earlier_vars
<1>19. CASE ReduceCheck(t)
  BY <1>19, ThreadNumbers DEF ReduceCheck, data_vars, later_vars
<1>20. CASE ReduceLock(t)
  BY <1>20, ThreadNumbers DEF ReduceLock, Lock, earlier_vars
<1>21. CASE ReduceTake(t)
  BY <1>21, ThreadNumbers DEF ReduceTake, earlier_vars
<1>22. CASE ReduceCall(t)
  BY <1>22, ThreadNumbers DEF ReduceCall, earlier_vars
<1>23. CASE ReduceCount(t)
  BY <1>23, ThreadNumbers DEF ReduceCount, earlier_vars
<1>24. CASE ReduceExit(t)
  BY <1>24, ThreadNumbers DEF ReduceExit, Increase, earlier_vars
<1>25. CASE ShuffleTop(t)
  BY <1>25, ThreadNumbers DEF ShuffleTop
<1> QED
  BY <1>1, <1>2, <1>3, <1>4, <1>5, <1>6, <1>7, <1>8, <1>9, <1>10, <1>11, <1>12, <1>13,
     <1>14, <1>15, <1>16, <1>17, <1>18, <1>19, <1>20, <1>21, <1>22, <1>23,
     <1>24, <1>25 DEF ThreadStep

-----------------------------------------------------------------------------
(* The barriers.                                                           *)

\* A step that keeps a thread on its side of both barriers.
LEMMA SameSide ==
    ASSUME JobInv, NEW t \in Threads, NEW there,
           pc' = [pc EXCEPT ![t] = there],
           pc[t] \in Before1 <=> there \in Before1,
           pc[t] \in Before2 <=> there \in Before2,
           {pc[t], there} \cap {"barrier_wait", "barrier_reduce_wait"} = {},
           UNCHANGED <<b1_count, b1_waiting, b2_count, b2_waiting>>
    PROVE  Barrier1Inv' /\ Barrier2Inv'
<1>1. Mapping' = Mapping /\ Waiting1' = Waiting1
  BY DEF JobInv, StageInv, Mapping, Waiting1
<1>2. Shuffling' = Shuffling /\ Waiting2' = Waiting2
  BY DEF JobInv, StageInv, Shuffling, Waiting2
<1> QED
  BY <1>1, <1>2 DEF JobInv, Barrier1Inv, Barrier2Inv

\* The last thread to arrive opens the first barrier.
LEMMA ArriveMappedBarriers ==
    ASSUME JobInv, NEW t \in Threads, ArriveMapped(t)
    PROVE  Barrier1Inv' /\ Barrier2Inv'
<1> USE DEF JobInv, StageInv
<1>1. /\ pc[t] = "barrier" /\ pc' = [pc EXCEPT ![t] = "barrier_wait"]
      /\ UNCHANGED <<b2_count, b2_waiting>>
  BY DEF ArriveMapped, At, Goto
<1>2. /\ Mapping' = Mapping \ {t} /\ Waiting1' = Waiting1 \union {t}
      /\ Shuffling' = Shuffling /\ Waiting2' = Waiting2
      /\ t \in Mapping /\ t \notin Waiting1
  BY <1>1 DEF Mapping, Waiting1, Shuffling, Waiting2, Before1, Before2, MapPcs
<1>3. /\ Mapping \union Waiting1 = Threads /\ b1_waiting = Waiting1
      /\ b1_count = Cardinality(Waiting1)
  BY <1>2 DEF Barrier1Inv
<1>4. Waiting1 \union {t} \subseteq Threads /\ Cardinality(Waiting1 \union {t}) = b1_count + 1
  BY <1>2, <1>3, ThreadSets DEF Waiting1
<1>5. CASE b1_count + 1 < NumOfThreads
  <2>1. b1_count' = b1_count + 1 /\ b1_waiting' = b1_waiting \union {t}
    BY <1>5 DEF ArriveMapped, B1!Arrive
  <2>2. Waiting1 \union {t} # Threads
    <3>1. b1_count + 1 # NumOfThreads
      BY <1>5, ThreadNumbers
    <3> QED
      BY <3>1, <1>4, ThreadSets
  <2>3. Barrier1Inv'
    BY <1>2, <1>3, <1>4, <2>1, <2>2 DEF Barrier1Inv
  <2> QED
    BY <1>1, <1>2, <2>3 DEF Barrier2Inv
<1>6. CASE ~(b1_count + 1 < NumOfThreads)
  <2>1. b1_waiting' = {}
    BY <1>6 DEF ArriveMapped, B1!Arrive
  <2>2. Waiting1 \union {t} = Threads
    BY <1>3, <1>4, <1>6, ThreadNumbers, ThreadSets DEF Waiting1
  <2>3. Mapping' = {}
    BY <1>2, <2>2, <1>1 DEF Mapping, Waiting1, Before1, MapPcs
  <2>4. Barrier1Inv'
    BY <2>1, <2>3 DEF Barrier1Inv
  <2> QED
    BY <1>1, <1>2, <2>4 DEF Barrier2Inv
<1> QED
  BY <1>5, <1>6

\* A thread that leaves the first barrier finds it open.
LEMMA LeaveMappedBarriers ==
    ASSUME JobInv, NEW t \in Threads, LeaveMapped(t)
    PROVE  Barrier1Inv' /\ Barrier2Inv'
<1> USE DEF JobInv, StageInv
<1>1. /\ pc[t] = "barrier_wait" /\ t \notin b1_waiting
      /\ \E there \in {"shuffle", "barrier_reduce"} : pc' = [pc EXCEPT ![t] = there]
      /\ UNCHANGED <<b1_count, b1_waiting, b2_count, b2_waiting>>
  BY DEF LeaveMapped, At, Goto, B1!Released, barrier_vars, data_vars, later_vars
<1>2. Mapping' = Mapping /\ Shuffling' = Shuffling /\ Waiting2' = Waiting2
  BY <1>1 DEF Mapping, Shuffling, Waiting2, Before1, Before2, MapPcs
<1>3. Mapping = {} /\ b1_waiting = {}
  BY <1>1 DEF Barrier1Inv, Waiting1
<1> QED
  BY <1>1, <1>2, <1>3 DEF Barrier1Inv, Barrier2Inv

\* The last thread to arrive opens the second barrier.
LEMMA ArriveShuffledBarriers ==
    ASSUME JobInv, NEW t \in Threads, ArriveShuffled(t)
    PROVE  Barrier1Inv' /\ Barrier2Inv'
<1> USE DEF JobInv, StageInv
<1>1. /\ pc[t] = "barrier_reduce" /\ pc' = [pc EXCEPT ![t] = "barrier_reduce_wait"]
      /\ UNCHANGED <<b1_count, b1_waiting>>
  BY DEF ArriveShuffled, At, Goto
<1>2. /\ Shuffling' = Shuffling \ {t} /\ Waiting2' = Waiting2 \union {t}
      /\ Mapping' = Mapping /\ Waiting1' = Waiting1
      /\ t \in Shuffling /\ t \notin Waiting2
  BY <1>1 DEF Mapping, Waiting1, Shuffling, Waiting2, Before1, Before2, MapPcs
<1>3. /\ Shuffling \union Waiting2 = Threads /\ b2_waiting = Waiting2
      /\ b2_count = Cardinality(Waiting2)
  BY <1>2 DEF Barrier2Inv
<1>4. Waiting2 \union {t} \subseteq Threads /\ Cardinality(Waiting2 \union {t}) = b2_count + 1
  BY <1>2, <1>3, ThreadSets DEF Waiting2
<1>5. CASE b2_count + 1 < NumOfThreads
  <2>1. b2_count' = b2_count + 1 /\ b2_waiting' = b2_waiting \union {t}
    BY <1>5 DEF ArriveShuffled, B2!Arrive
  <2>2. Waiting2 \union {t} # Threads
    <3>1. b2_count + 1 # NumOfThreads
      BY <1>5, ThreadNumbers
    <3> QED
      BY <3>1, <1>4, ThreadSets
  <2>3. Barrier2Inv'
    BY <1>2, <1>3, <1>4, <2>1, <2>2 DEF Barrier2Inv
  <2> QED
    BY <1>1, <1>2, <2>3 DEF Barrier1Inv
<1>6. CASE ~(b2_count + 1 < NumOfThreads)
  <2>1. b2_waiting' = {}
    BY <1>6 DEF ArriveShuffled, B2!Arrive
  <2>2. Waiting2 \union {t} = Threads
    BY <1>3, <1>4, <1>6, ThreadNumbers, ThreadSets DEF Waiting2
  <2>3. Shuffling' = {}
    BY <1>2, <2>2, <1>1 DEF Shuffling, Waiting2, Before1, Before2, MapPcs
  <2>4. Barrier2Inv'
    BY <2>1, <2>3 DEF Barrier2Inv
  <2> QED
    BY <1>1, <1>2, <2>4 DEF Barrier1Inv
<1> QED
  BY <1>5, <1>6

\* A thread that leaves the second barrier finds it open.
LEMMA LeaveShuffledBarriers ==
    ASSUME JobInv, NEW t \in Threads, LeaveShuffled(t)
    PROVE  Barrier1Inv' /\ Barrier2Inv'
<1> USE DEF JobInv, StageInv
<1>1. /\ pc[t] = "barrier_reduce_wait" /\ t \notin b2_waiting
      /\ pc' = [pc EXCEPT ![t] = "reduce"]
      /\ UNCHANGED <<b1_count, b1_waiting, b2_count, b2_waiting>>
  BY DEF LeaveShuffled, At, Goto, B2!Released, barrier_vars, data_vars, later_vars
<1>2. Mapping' = Mapping /\ Shuffling' = Shuffling /\ Waiting1' = Waiting1
  BY <1>1 DEF Mapping, Shuffling, Waiting1, Before1, Before2, MapPcs
<1>3. Shuffling = {} /\ b2_waiting = {}
  BY <1>1 DEF Barrier2Inv, Waiting2
<1> QED
  BY <1>1, <1>2, <1>3 DEF Barrier1Inv, Barrier2Inv

\* A step of a thread preserves the invariants of both barriers.
LEMMA BarriersThread ==
    ASSUME JobInv, NEW t \in Threads, ThreadStep(t)
    PROVE  Barrier1Inv' /\ Barrier2Inv'
<1> USE DEF At, Goto, Before1, Before2, MapPcs, barrier_vars
<1>1. CASE SetMap(t)
  BY <1>1, SameSide DEF SetMap, later_vars
<1>2. CASE MapTest(t)
  BY <1>2, SameSide DEF MapTest, data_vars, later_vars
<1>3. CASE MapLock(t)
  BY <1>3, SameSide DEF MapLock, Lock, later_vars
<1>4. CASE MapCheck(t)
  BY <1>4, SameSide DEF MapCheck, NothingLeft, later_vars
<1>5. CASE MapClaim(t)
  BY <1>5, SameSide DEF MapClaim, later_vars
<1>6. CASE MapCall(t)
  BY <1>6, SameSide DEF MapCall, later_vars
<1>7. CASE Sort(t)
  BY <1>7, SameSide DEF Sort, JobInv, StageInv
<1>8. CASE ArriveMapped(t)
  BY <1>8, ArriveMappedBarriers
<1>9. CASE LeaveMapped(t)
  BY <1>9, LeaveMappedBarriers
<1>10. CASE ShuffleStart(t)
  BY <1>10, SameSide DEF ShuffleStart
<1>11. CASE ShufflePop(t)
  BY <1>11, SameSide DEF ShufflePop, JobInv, StageInv
<1>12. CASE ShuffleNextKey(t)
  BY <1>12, SameSide DEF ShuffleNextKey, JobInv, StageInv
<1>13. CASE ShuffleEnd(t)
  BY <1>13, SameSide DEF ShuffleEnd
<1>14. CASE ArriveShuffled(t)
  BY <1>14, ArriveShuffledBarriers
<1>15. CASE LeaveShuffled(t)
  BY <1>15, LeaveShuffledBarriers
<1>16. CASE ReduceEnter(t)
  BY <1>16, SameSide DEF ReduceEnter, later_vars
<1>17. CASE ReduceTest(t)
  BY <1>17, SameSide DEF ReduceTest, data_vars, later_vars
<1>18. CASE ReduceWait(t)
  BY <1>18, SameSide DEF ReduceWait, Decrease, earlier_vars
<1>19. CASE ReduceCheck(t)
  BY <1>19, SameSide DEF ReduceCheck, data_vars, later_vars
<1>20. CASE ReduceLock(t)
  BY <1>20, SameSide DEF ReduceLock, Lock, earlier_vars
<1>21. CASE ReduceTake(t)
  BY <1>21, SameSide DEF ReduceTake, earlier_vars
<1>22. CASE ReduceCall(t)
  BY <1>22, SameSide DEF ReduceCall, earlier_vars
<1>23. CASE ReduceCount(t)
  BY <1>23, SameSide DEF ReduceCount, earlier_vars
<1>24. CASE ReduceExit(t)
  BY <1>24, SameSide DEF ReduceExit, Increase, earlier_vars
<1>25. CASE ShuffleTop(t)
  BY <1>25, SameSide DEF ShuffleTop
<1> QED
  BY <1>1, <1>2, <1>3, <1>4, <1>5, <1>6, <1>7, <1>8, <1>9, <1>10, <1>11, <1>12, <1>13,
     <1>14, <1>15, <1>16, <1>17, <1>18, <1>19, <1>20, <1>21, <1>22, <1>23,
     <1>24, <1>25 DEF ThreadStep

-----------------------------------------------------------------------------
(* The claims.                                                             *)

\* While a thread maps, nobody has started the shuffle or the reduce stage.
LEMMA WhileMapping ==
    ASSUME JobInv, NEW t \in Threads, pc[t] \in Before1
    PROVE  /\ SHUFFLE_STAGE \notin set_flags
           /\ REDUCE_STAGE \notin set_flags
           /\ progress.stage \in {UNDEFINED_STAGE, MAP_STAGE}
           /\ \A u \in Threads : pc[u] \in Before1 \union {"barrier_wait"}
<1>1. t \in Mapping /\ t \in Shuffling
  BY DEF Mapping, Shuffling, Before2
<1>2. \A u \in Threads : pc[u] \in Before1 \union {"barrier_wait"}
  BY <1>1 DEF JobInv, Barrier1Inv, Mapping, Waiting1
<1>3. SHUFFLE_STAGE \notin set_flags
  BY <1>2, ThreadNumbers DEF JobInv, StageInv
<1>4. REDUCE_STAGE \notin set_flags
  BY <1>1 DEF JobInv, StageInv
<1> QED
  BY <1>2, <1>3, <1>4 DEF JobInv, StageInv

\* A step that touches neither the claims nor the counter.
LEMMA ClaimKept ==
    ASSUME JobInv, NEW t \in Threads, NEW there,
           pc' = [pc EXCEPT ![t] = there],
           there \notin {"map_check", "map_claim", "map_call"},
           UNCHANGED <<index, mutex_map, progress>>
    PROVE  ClaimInv'
BY DEF JobInv, StageInv, ClaimInv

\* A step after the map phase.
LEMMA ClaimsOver ==
    ASSUME JobInv, NEW t \in Threads, NEW there,
           pc[t] \notin Before1 \union {"barrier_wait"},
           pc' = [pc EXCEPT ![t] = there],
           there \notin {"map_check", "map_claim", "map_call"},
           progress'.stage \in {SHUFFLE_STAGE, REDUCE_STAGE},
           UNCHANGED <<index, mutex_map>>
    PROVE  ClaimInv'
<1>1. \A u \in Threads : pc'[u] \notin {"map_check", "map_claim", "map_call"}
  BY WhileMapping DEF JobInv, StageInv, Before1, MapPcs
<1> QED
  BY <1>1 DEF JobInv, ClaimInv, UNDEFINED_STAGE, MAP_STAGE, SHUFFLE_STAGE, REDUCE_STAGE

\* A step of a thread preserves ClaimInv.
LEMMA ClaimThread ==
    ASSUME JobInv, NEW t \in Threads, ThreadStep(t)
    PROVE  ClaimInv'
<1> USE DEF At, Goto, map_vars, counter_vars, SetAtomic
<1> USE DEF UNDEFINED_STAGE, MAP_STAGE, SHUFFLE_STAGE, REDUCE_STAGE
<1>1. CASE SetMap(t)
  <2>1. /\ pc[t] = "set_map" /\ pc' = [pc EXCEPT ![t] = "map_test"]
        /\ UNCHANGED <<index, mutex_map>>
    BY <1>1 DEF SetMap, later_vars
  <2>2. CASE MAP_STAGE \in set_flags
    <3>1. UNCHANGED progress
      BY <1>1, <2>2 DEF SetMap, later_vars
    <3> QED
      BY <2>1, <3>1, ClaimKept
  <2>3. CASE MAP_STAGE \notin set_flags
    <3>1. progress' = [stage |-> MAP_STAGE, todo |-> NumInputs, done |-> 0]
      BY <1>1, <2>3 DEF SetMap, later_vars
    <3>2. \A u \in Threads : pc'[u] \notin {"map_check", "map_claim", "map_call"}
      BY <2>1, <2>3 DEF JobInv, StageInv
    <3> QED
      BY <2>1, <3>1, <3>2, NumInputsAssumption DEF JobInv, ClaimInv
  <2> QED
    BY <2>2, <2>3
<1>2. CASE MapTest(t)
  BY <1>2, ClaimKept DEF MapTest, JobInv, StageInv, data_vars, later_vars
<1>3. CASE MapLock(t)
  BY <1>3, WhileMapping, ThreadNumbers, NumInputsAssumption DEF MapLock, JobInv,
     StageInv, ClaimInv, Before1, MapPcs, Inputs, Lock, later_vars
<1>4. CASE MapCheck(t)
  BY <1>4, WhileMapping, ThreadNumbers, NumInputsAssumption DEF MapCheck, JobInv,
     StageInv, ClaimInv, Before1, MapPcs, Inputs, NothingLeft, later_vars
<1>5. CASE MapClaim(t)
  BY <1>5, WhileMapping, ThreadNumbers, NumInputsAssumption DEF MapClaim, JobInv,
     StageInv, ClaimInv, Before1, MapPcs, Inputs, later_vars
<1>6. CASE MapCall(t)
  BY <1>6, WhileMapping, ThreadNumbers, NumInputsAssumption DEF MapCall, JobInv,
     StageInv, ClaimInv, Before1, MapPcs, Inputs, later_vars
<1>7. CASE Sort(t)
  BY <1>7, ClaimKept DEF Sort, JobInv, StageInv
<1>8. CASE ArriveMapped(t)
  BY <1>8, ClaimKept DEF ArriveMapped, JobInv, StageInv
<1>9. CASE LeaveMapped(t)
  BY <1>9, ClaimKept DEF LeaveMapped, JobInv, StageInv, data_vars, later_vars
<1>10. CASE ShuffleStart(t)
  <2>1. SHUFFLE_STAGE \notin set_flags
    BY <1>10 DEF ShuffleStart, JobInv, StageInv
  <2>2. progress'.stage = SHUFFLE_STAGE
    BY <1>10, <2>1 DEF ShuffleStart
  <2>3. /\ pc[t] = "shuffle" /\ pc' = [pc EXCEPT ![t] = "shuffle_top"]
        /\ UNCHANGED <<index, mutex_map>>
    BY <1>10 DEF ShuffleStart
  <2> QED
    BY <2>2, <2>3, ClaimsOver DEF Before1, MapPcs
<1>11. CASE ShufflePop(t)
  BY <1>11, ClaimsOver DEF ShufflePop, JobInv, StageInv, Before1, MapPcs, ReducePcs
<1>12. CASE ShuffleNextKey(t)
  BY <1>12, ClaimKept DEF ShuffleNextKey, JobInv, StageInv
<1>13. CASE ShuffleEnd(t)
  BY <1>13, ClaimKept DEF ShuffleEnd, JobInv, StageInv
<1>14. CASE ArriveShuffled(t)
  BY <1>14, ClaimKept DEF ArriveShuffled, JobInv, StageInv
<1>15. CASE LeaveShuffled(t)
  BY <1>15, ClaimKept DEF LeaveShuffled, JobInv, StageInv, data_vars, later_vars
<1>16. CASE ReduceEnter(t)
  BY <1>16, ClaimKept, ClaimsOver DEF ReduceEnter, JobInv, StageInv, Before1, MapPcs,
     ReducePcs, later_vars
<1>17. CASE ReduceTest(t)
  BY <1>17, ClaimKept DEF ReduceTest, JobInv, StageInv, data_vars, later_vars
<1>18. CASE ReduceWait(t)
  BY <1>18, ClaimKept DEF ReduceWait, JobInv, StageInv, Decrease, earlier_vars
<1>19. CASE ReduceCheck(t)
  BY <1>19, ClaimKept DEF ReduceCheck, JobInv, StageInv, data_vars, later_vars
<1>20. CASE ReduceLock(t)
  BY <1>20, ClaimKept DEF ReduceLock, JobInv, StageInv, Lock, earlier_vars
<1>21. CASE ReduceTake(t)
  BY <1>21, ClaimKept DEF ReduceTake, JobInv, StageInv, earlier_vars
<1>22. CASE ReduceCall(t)
  BY <1>22, ClaimKept DEF ReduceCall, JobInv, StageInv, earlier_vars
<1>23. CASE ReduceCount(t)
  BY <1>23, ClaimsOver DEF ReduceCount, JobInv, StageInv, Before1, MapPcs, ReducePcs,
     earlier_vars
<1>24. CASE ReduceExit(t)
  BY <1>24, ClaimKept DEF ReduceExit, JobInv, StageInv, Increase, earlier_vars
<1>25. CASE ShuffleTop(t)
  BY <1>25, ClaimKept DEF ShuffleTop, JobInv, StageInv
<1> QED
  BY <1>1, <1>2, <1>3, <1>4, <1>5, <1>6, <1>7, <1>8, <1>9, <1>10, <1>11, <1>12, <1>13,
     <1>14, <1>15, <1>16, <1>17, <1>18, <1>19, <1>20, <1>21, <1>22, <1>23,
     <1>24, <1>25 DEF ThreadStep

-----------------------------------------------------------------------------
(* The tokens.                                                             *)

\* Before the reduce stage nobody holds a token, waits for one, or is done.
LEMMA WhileShuffling ==
    ASSUME JobInv, NEW t \in Threads, pc[t] \in Before2
    PROVE  /\ \A u \in Threads : pc[u] \in Before2 \union {"barrier_reduce_wait"}
           /\ TokenHolders = {}
<1>1. \A u \in Threads : pc[u] \in Before2 \union {"barrier_reduce_wait"}
  BY DEF JobInv, Barrier2Inv, Shuffling, Waiting2
<1> QED
  BY <1>1 DEF TokenHolders, Before2, Before1, MapPcs

\* r is s with an element appended, or with its first element removed.
Grown(s, r) == \E e : r = Append(s, e)
Shrunk(s, r) == s # <<>> /\ r = Tail(s)

\* What Append and Tail do to vector_of_vectors.
LEMMA VectorGrown ==
    ASSUME NEW s, NEW r, IsVector(s), Grown(s, r)
    PROVE  IsVector(r) /\ r # <<>> /\ Len(r) = Len(s) + 1
<1>1. PICK e : r = Append(s, e)
  BY DEF Grown
<1>2. s \in Seq(Range(s) \union {e})
  BY SeqMonotonic DEF IsVector
<1>3. r \in Seq(Range(s) \union {e}) /\ Len(r) = Len(s) + 1 /\ r # <<>>
  BY <1>1, <1>2, AppendProperties
<1> QED
  BY <1>3, SeqOfRange DEF IsVector

\* pop from vector_of_vectors: one element less.
LEMMA VectorShrunk ==
    ASSUME NEW s, NEW r, IsVector(s), Shrunk(s, r)
    PROVE  IsVector(r) /\ Len(r) = Len(s) - 1
<1>1. s \in Seq(Range(s)) /\ s # <<>> /\ r = Tail(s)
  BY DEF IsVector, Shrunk
<1>2. r \in Seq(Range(s)) /\ Len(r) = Len(s) - 1
  BY <1>1, HeadTailProperties
<1> QED
  BY <1>2, SeqOfRange DEF IsVector

\* A vector is empty just if its length is 0.
LEMMA VectorLength ==
    ASSUME NEW s, IsVector(s)
    PROVE  Len(s) \in Nat /\ (s = <<>> <=> Len(s) = 0)
BY EmptySeq, LenProperties DEF IsVector

\* A step before the reduce phase that leaves the semaphore alone.
LEMMA TokensBefore ==
    ASSUME JobInv, NEW t \in Threads, NEW there \in Before2 \union {"barrier_reduce_wait"},
           pc[t] \in Before2,
           pc' = [pc EXCEPT ![t] = there],
           there \in {"shuffle_top", "shuffle_loop"} => pc[t] = "shuffle_top",
           UNCHANGED sem,
           \/ UNCHANGED vector_of_vectors
           \/ /\ SHUFFLE_STAGE \notin set_flags'
              /\ Grown(vector_of_vectors, vector_of_vectors'),
           SHUFFLE_STAGE \in set_flags' <=> SHUFFLE_STAGE \in set_flags
    PROVE  TokenInv'
<1>1. /\ \A u \in Threads : pc'[u] \in Before2 \union {"barrier_reduce_wait"}
      /\ TokenHolders' = {} /\ TokenHolders = {}
  BY WhileShuffling DEF JobInv, StageInv, TokenHolders, Before2, Before1, MapPcs
<1>2. IsVector(vector_of_vectors')
  BY VectorGrown DEF JobInv, TokenInv
<1>3. \A u \in Threads : pc'[u] \notin {"reduce_lock", "reduce_take", "reduce_exit", "done", "reduce_wait"}
  BY <1>1 DEF Before2, Before1, MapPcs
<1>4. \A u \in Threads : pc'[u] \in {"shuffle_top", "shuffle_loop"} => sem' = Len(vector_of_vectors')
  BY DEF JobInv, StageInv, TokenInv, Before1, MapPcs
<1>5. SHUFFLE_STAGE \in set_flags' => UNCHANGED vector_of_vectors
  BY DEF JobInv, TokenInv
<1> QED
  BY <1>1, <1>2, <1>3, <1>4, <1>5 DEF JobInv, StageInv, TokenInv, NoStuckReducer

\* A step of thread 0 in its shuffle loop hands a group to the reducers, or not.
LEMMA TokensShuffle ==
    ASSUME JobInv, NEW t \in Threads, pc[t] = "shuffle_loop",
           UNCHANGED <<pc, set_flags>>,
           \/ UNCHANGED <<sem, vector_of_vectors>>
           \/ sem' = sem + 1 /\ Grown(vector_of_vectors, vector_of_vectors')
    PROVE  TokenInv'
<1>1. /\ \A u \in Threads : pc'[u] \in Before2 \union {"barrier_reduce_wait"}
      /\ TokenHolders' = {}
  BY WhileShuffling DEF JobInv, StageInv, TokenHolders, Before2, Before1, MapPcs
<1>2. sem = Len(vector_of_vectors) /\ sem \in Nat /\ SHUFFLE_STAGE \in set_flags
  BY DEF JobInv, StageInv, TokenInv, Before1, MapPcs
<1>3. IsVector(vector_of_vectors') /\ sem' \in Nat /\ sem' = Len(vector_of_vectors')
  BY <1>2, VectorGrown DEF JobInv, TokenInv
<1>4. \A u \in Threads : pc'[u] \notin {"reduce_lock", "reduce_take", "reduce_exit", "done", "reduce_wait"}
  BY <1>1 DEF Before2, Before1, MapPcs
<1>5. Cardinality(TokenHolders') = 0
  BY <1>1, ThreadSets
<1> QED
  BY <1>1, <1>2, <1>3, <1>4, <1>5 DEF TokenInv, NoStuckReducer

\* t is past the second barrier, or may leave it.
Reducing(t) ==
    \/ pc[t] \in ReducePcs
    \/ pc[t] = "barrier_reduce_wait" /\ t \notin b2_waiting

\* When a thread reduces, all of them are past the shuffle.
LEMMA WhileReducing ==
    ASSUME JobInv, NEW t \in Threads, Reducing(t)
    PROVE  /\ \A u \in Threads : pc[u] \in ReducePcs \union {"barrier_reduce_wait", "done"}
           /\ SHUFFLE_STAGE \in set_flags /\ finished_shuffle
<1>1. t \notin Shuffling
  BY DEF Reducing, Shuffling, Before2, Before1, MapPcs, ReducePcs
<1>2. Shuffling = {}
  BY <1>1 DEF Reducing, JobInv, Barrier2Inv, Waiting2, ReducePcs
<1>3. \A u \in Threads : pc[u] \in ReducePcs \union {"barrier_reduce_wait", "done"}
  BY <1>2 DEF JobInv, StageInv, Shuffling, Pcs, Before2, Before1, MapPcs
<1>4. MainTId \in Threads /\ pc[MainTId] \notin Before2
  BY <1>2, ThreadNumbers DEF Shuffling
<1> QED
  BY <1>3, <1>4 DEF JobInv, StageInv, Before2

\* What a step of the reduce phase has to respect.
ReduceStep(t, there) ==
    /\ pc' = [pc EXCEPT ![t] = there]
    /\ there \in ReducePcs \union {"done"}
    /\ there \in {"reduce_exit", "done"} => vector_of_vectors' = <<>>
    /\ there \in {"reduce_lock", "reduce_take"} => vector_of_vectors' # <<>>
    /\ there = "reduce_wait" => UNCHANGED vector_of_vectors /\ vector_of_vectors # <<>>
    /\ there = "done" => sem' > 0
    /\ SHUFFLE_STAGE \in set_flags'

\* A step of the reduce phase that changes neither tokens nor groups.
LEMMA TokensQuiet ==
    ASSUME JobInv, NEW t \in Threads, NEW there,
           Reducing(t),
           ReduceStep(t, there),
           TokenHolders' = TokenHolders,
           UNCHANGED <<sem, vector_of_vectors, status>>
    PROVE  TokenInv'
<1>1. /\ \A u \in Threads : pc[u] \in ReducePcs \union {"barrier_reduce_wait", "done"}
      /\ SHUFFLE_STAGE \in set_flags
  BY WhileReducing
<1>2. \A u \in Threads : pc'[u] \notin {"shuffle_top", "shuffle_loop"}
  BY <1>1 DEF JobInv, StageInv, ReduceStep, ReducePcs
<1>3. \A u \in Threads :
          /\ pc'[u] \in {"reduce_lock", "reduce_take"} => vector_of_vectors # <<>>
          /\ pc'[u] \in {"reduce_exit", "done"} => vector_of_vectors = <<>>
  BY DEF JobInv, StageInv, TokenInv, ReduceStep
<1>4. NoStuckReducer'
  BY DEF JobInv, StageInv, TokenInv, ReduceStep, NoStuckReducer, ReducePcs
<1> QED
  BY <1>1, <1>2, <1>3, <1>4 DEF JobInv, TokenInv, ReduceStep

\* sem_wait moves a token from the semaphore to the thread.
LEMMA TokensWait ==
    ASSUME JobInv, NEW t \in Threads, ReduceWait(t)
    PROVE  TokenInv'
<1>1. /\ pc[t] = "reduce_wait" /\ pc' = [pc EXCEPT ![t] = "reduce_check"]
      /\ sem > 0 /\ sem' = sem - 1
      /\ UNCHANGED <<vector_of_vectors, status, set_flags>>
  BY DEF ReduceWait, At, Goto, counter_vars, Decrease, earlier_vars
<1>a. Reducing(t)
  BY <1>1 DEF Reducing, ReducePcs
<1>2. /\ \A u \in Threads : pc[u] \in ReducePcs \union {"barrier_reduce_wait", "done"}
      /\ SHUFFLE_STAGE \in set_flags
  BY <1>a, WhileReducing
<1>3. TokenHolders' = TokenHolders \union {t} /\ t \notin TokenHolders
  BY <1>1 DEF JobInv, StageInv, TokenHolders
<1>4. Cardinality(TokenHolders') = Cardinality(TokenHolders) + 1 /\ Cardinality(TokenHolders) \in Nat
  BY <1>3, ThreadSets DEF TokenHolders
<1>5. sem' \in Nat /\ sem' + Cardinality(TokenHolders') = sem + Cardinality(TokenHolders)
  BY <1>1, <1>4 DEF JobInv, TokenInv
<1>6. \A u \in Threads :
          /\ pc'[u] \notin {"shuffle_top", "shuffle_loop"}
          /\ pc'[u] \in {"reduce_lock", "reduce_take"} => vector_of_vectors # <<>>
          /\ pc'[u] \in {"reduce_exit", "done"} => vector_of_vectors = <<>>
  BY <1>1, <1>2 DEF JobInv, StageInv, TokenInv, ReducePcs
<1>7. NoStuckReducer'
  BY <1>1 DEF JobInv, StageInv, NoStuckReducer, ReducePcs
<1> QED
  BY <1>1, <1>2, <1>5, <1>6, <1>7 DEF JobInv, TokenInv

\* Taking a group uses up the token of the thread, and leaves a group for
\* every other thread that holds a token and has seen one.
LEMMA TokensTake ==
    ASSUME JobInv, NEW t \in Threads, ReduceTake(t)
    PROVE  TokenInv'
<1>1. /\ pc[t] = "reduce_take" /\ pc' = [pc EXCEPT ![t] = "reduce_call"]
      /\ vector_of_vectors # <<>>
      /\ Shrunk(vector_of_vectors, vector_of_vectors')
      /\ UNCHANGED <<sem, status, set_flags>>
  BY DEF ReduceTake, At, Goto, counter_vars, JobInv, TokenInv, Shrunk, earlier_vars
<1>a. Reducing(t)
  BY <1>1 DEF Reducing, ReducePcs
<1>2. /\ \A u \in Threads : pc[u] \in ReducePcs \union {"barrier_reduce_wait", "done"}
      /\ SHUFFLE_STAGE \in set_flags
  BY <1>a, WhileReducing
<1>3. TokenHolders' = TokenHolders \ {t} /\ t \in TokenHolders
  BY <1>1 DEF JobInv, StageInv, TokenHolders
<1>4. /\ Cardinality(TokenHolders') = Cardinality(TokenHolders) - 1
      /\ Cardinality(TokenHolders) \in Nat /\ Cardinality(TokenHolders') \in Nat
      /\ TokenHolders' # {} => Cardinality(TokenHolders') # 0
  BY <1>3, ThreadSets DEF TokenHolders
<1>5. IsVector(vector_of_vectors') /\ Len(vector_of_vectors') = Len(vector_of_vectors) - 1
  BY <1>1, VectorShrunk DEF JobInv, TokenInv
<1>6. sem \in Nat /\ sem + Cardinality(TokenHolders') = Len(vector_of_vectors')
  BY <1>1, <1>2, <1>4, <1>5, VectorLength DEF JobInv, TokenInv
<1>7. TokenHolders' # {} => vector_of_vectors' # <<>>
  BY <1>4, <1>5, <1>6, VectorLength
<1>8. \A u \in Threads :
          /\ pc'[u] \notin {"shuffle_top", "shuffle_loop"}
          /\ pc'[u] \in {"reduce_lock", "reduce_take"} => vector_of_vectors' # <<>>
          /\ pc'[u] \notin {"reduce_exit", "done"}
  BY <1>1, <1>2, <1>7 DEF JobInv, StageInv, TokenInv, ReducePcs, TokenHolders
<1>9. NoStuckReducer'
  BY <1>1 DEF JobInv, StageInv, NoStuckReducer, ReducePcs
<1> QED
  BY <1>1, <1>2, <1>5, <1>6, <1>8, <1>9 DEF TokenInv

\* A thread that leaves hands a token on.
LEMMA TokensExit ==
    ASSUME JobInv, NEW t \in Threads, ReduceExit(t)
    PROVE  TokenInv'
<1>1. /\ pc[t] = "reduce_exit" /\ pc' = [pc EXCEPT ![t] = "done"]
      /\ vector_of_vectors = <<>> /\ sem' = sem + 1
      /\ UNCHANGED <<vector_of_vectors, set_flags>>
  BY DEF ReduceExit, At, Goto, counter_vars, JobInv, TokenInv, Increase, earlier_vars
<1>a. Reducing(t)
  BY <1>1 DEF Reducing, ReducePcs
<1>2. /\ \A u \in Threads : pc[u] \in ReducePcs \union {"barrier_reduce_wait", "done"}
      /\ SHUFFLE_STAGE \in set_flags
  BY <1>a, WhileReducing
<1>3. \A u \in Threads : pc'[u] \notin {"shuffle_top", "shuffle_loop", "reduce_lock", "reduce_take"}
  BY <1>1, <1>2 DEF JobInv, StageInv, TokenInv, ReducePcs
<1>4. sem' \in Nat /\ sem' > 0
  BY <1>1 DEF JobInv, TokenInv
<1> QED
  BY <1>1, <1>2, <1>3, <1>4 DEF JobInv, TokenInv, NoStuckReducer

\* The second test of vector_of_vectors keeps the token, or finds no group.
LEMMA TokensCheck ==
    ASSUME JobInv, NEW t \in Threads, ReduceCheck(t)
    PROVE  TokenInv'
<1>1. /\ pc[t] = "reduce_check"
      /\ pc' = [pc EXCEPT ![t] = IF vector_of_vectors = <<>> THEN "reduce_exit"
                                                              ELSE "reduce_lock"]
      /\ UNCHANGED <<vector_of_vectors, sem, status, set_flags>>
  BY DEF ReduceCheck, At, Goto, counter_vars, data_vars, later_vars
<1>a. Reducing(t)
  BY <1>1 DEF Reducing, ReducePcs
<1>2. /\ \A u \in Threads : pc[u] \in ReducePcs \union {"barrier_reduce_wait", "done"}
      /\ SHUFFLE_STAGE \in set_flags
  BY <1>a, WhileReducing
<1>3. vector_of_vectors # <<>> => TokenHolders' = TokenHolders
  BY <1>1 DEF JobInv, StageInv, TokenHolders
<1>4. \A u \in Threads :
          /\ pc'[u] \notin {"shuffle_top", "shuffle_loop"}
          /\ pc'[u] \in {"reduce_lock", "reduce_take"} => vector_of_vectors # <<>>
          /\ pc'[u] \in {"reduce_exit", "done"} => vector_of_vectors = <<>>
  BY <1>1, <1>2 DEF JobInv, StageInv, TokenInv, ReducePcs
<1>5. NoStuckReducer'
  BY <1>1 DEF JobInv, StageInv, TokenInv, NoStuckReducer, ReducePcs
<1> QED
  BY <1>1, <1>2, <1>3, <1>4, <1>5 DEF JobInv, TokenInv

\* Thread 0 turns the vectors of the map phase into pairs.
LEMMA TokensStart ==
    ASSUME JobInv, NEW t \in Threads, ShuffleStart(t)
    PROVE  TokenInv'
<1>1. /\ pc[t] = "shuffle" /\ pc' = [pc EXCEPT ![t] = "shuffle_top"]
      /\ vector_of_vectors' = <<>> /\ UNCHANGED sem
  BY DEF ShuffleStart, At, Goto
<1>2. SHUFFLE_STAGE \notin set_flags /\ SHUFFLE_STAGE \in set_flags'
  BY <1>1 DEF ShuffleStart, SetAtomic, counter_vars, JobInv, StageInv
<1>3. sem' = 0
  BY <1>1, <1>2 DEF JobInv, TokenInv
<1>4. \A u \in Threads : pc'[u] \in Before2 \union {"barrier_reduce_wait"}
  BY <1>1, WhileShuffling DEF JobInv, StageInv, Before2
<1>5. \A u \in Threads : pc'[u] \notin {"reduce_lock", "reduce_take", "reduce_exit", "done", "reduce_wait"}
  BY <1>4 DEF Before2, Before1, MapPcs
<1> QED
  BY <1>1, <1>2, <1>3, <1>5 DEF TokenInv, IsVector, Range, NoStuckReducer

\* A step of a thread preserves TokenInv.
LEMMA TokenThread ==
    ASSUME JobInv, NEW t \in Threads, ThreadStep(t)
    PROVE  TokenInv'
<1> USE DEF At, Goto, counter_vars, SetAtomic
<1> USE DEF UNDEFINED_STAGE, MAP_STAGE, SHUFFLE_STAGE, REDUCE_STAGE
<1>1. CASE SetMap(t)
  <2>1. /\ pc[t] = "set_map" /\ pc' = [pc EXCEPT ![t] = "map_test"]
        /\ UNCHANGED <<sem, vector_of_vectors>>
    BY <1>1 DEF SetMap, later_vars
  <2>2. SHUFFLE_STAGE \in set_flags' <=> SHUFFLE_STAGE \in set_flags
    BY <1>1 DEF SetMap, later_vars
  <2>3. pc[t] \in Before2 /\ "map_test" \in Before2
    BY <2>1 DEF Before2, Before1, MapPcs
  <2> QED
    BY <2>1, <2>2, <2>3, TokensBefore
<1>2. CASE MapTest(t)
  BY <1>2, TokensBefore DEF MapTest, Before1, Before2, MapPcs, data_vars, later_vars
<1>3. CASE MapLock(t)
  BY <1>3, TokensBefore DEF MapLock, Before1, Before2, MapPcs, Lock, later_vars
<1>4. CASE MapCheck(t)
  BY <1>4, TokensBefore DEF MapCheck, Before1, Before2, MapPcs, NothingLeft, later_vars
<1>5. CASE MapClaim(t)
  BY <1>5, TokensBefore DEF MapClaim, Before1, Before2, MapPcs, later_vars
<1>6. CASE MapCall(t)
  BY <1>6, TokensBefore DEF MapCall, Before1, Before2, MapPcs, later_vars
<1>7. CASE Sort(t)
  BY <1>7, TokensBefore, WhileMapping DEF Sort, Grown, Before1, Before2, MapPcs, JobInv,
     StageInv
<1>8. CASE ArriveMapped(t)
  BY <1>8, TokensBefore DEF ArriveMapped, Before1, Before2, MapPcs
<1>9. CASE LeaveMapped(t)
  BY <1>9, TokensBefore DEF LeaveMapped, Before1, Before2, MapPcs, data_vars, later_vars
<1>10. CASE ShuffleStart(t)
  BY <1>10, TokensStart
<1>11. CASE ShufflePop(t)
  BY <1>11, TokensShuffle DEF ShufflePop, Flush, Grown, Increase
<1>12. CASE ShuffleNextKey(t)
  BY <1>12, TokensShuffle DEF ShuffleNextKey, Flush, Grown, Increase
<1>13. CASE ShuffleEnd(t)
  BY <1>13, TokensBefore DEF ShuffleEnd, Before1, Before2, MapPcs
<1>14. CASE ArriveShuffled(t)
  BY <1>14, TokensBefore DEF ArriveShuffled, Before1, Before2, MapPcs
<1>15. CASE LeaveShuffled(t)
  <2>1. Reducing(t)
    BY <1>15 DEF LeaveShuffled, Reducing, ReducePcs, B2!Released, data_vars, later_vars
  <2>2. SHUFFLE_STAGE \in set_flags /\ finished_shuffle
    BY <2>1, WhileReducing
  <2>3. PICK there : ReduceStep(t, there)
    BY <1>15, <2>2 DEF LeaveShuffled, ReduceStep, ReducePcs, JobInv, TokenInv, data_vars,
       later_vars
  <2>4. TokenHolders' = TokenHolders /\ UNCHANGED <<sem, vector_of_vectors, status>>
    BY <1>15, <2>2 DEF LeaveShuffled, TokenHolders, JobInv, StageInv, data_vars,
       later_vars
  <2> QED
    BY <2>1, <2>3, <2>4, TokensQuiet
<1>16. CASE ReduceEnter(t)
  <2>1. Reducing(t)
    BY <1>16 DEF ReduceEnter, Reducing, ReducePcs, B2!Released, later_vars
  <2>2. SHUFFLE_STAGE \in set_flags /\ finished_shuffle
    BY <2>1, WhileReducing
  <2>3. PICK there : ReduceStep(t, there)
    BY <1>16, <2>2 DEF ReduceEnter, ReduceStep, ReducePcs, JobInv, TokenInv, later_vars
  <2>4. TokenHolders' = TokenHolders /\ UNCHANGED <<sem, vector_of_vectors, status>>
    BY <1>16, <2>2 DEF ReduceEnter, TokenHolders, JobInv, StageInv, later_vars
  <2> QED
    BY <2>1, <2>3, <2>4, TokensQuiet
<1>17. CASE ReduceTest(t)
  <2>1. Reducing(t)
    BY <1>17 DEF ReduceTest, Reducing, ReducePcs, B2!Released, data_vars, later_vars
  <2>2. SHUFFLE_STAGE \in set_flags /\ finished_shuffle
    BY <2>1, WhileReducing
  <2>3. PICK there : ReduceStep(t, there)
    BY <1>17, <2>2 DEF ReduceTest, ReduceStep, ReducePcs, JobInv, TokenInv, data_vars,
       later_vars
  <2>4. TokenHolders' = TokenHolders /\ UNCHANGED <<sem, vector_of_vectors, status>>
    BY <1>17, <2>2 DEF ReduceTest, TokenHolders, JobInv, StageInv, data_vars, later_vars
  <2> QED
    BY <2>1, <2>3, <2>4, TokensQuiet
<1>18. CASE ReduceWait(t)
  BY <1>18, TokensWait
<1>19. CASE ReduceCheck(t)
  BY <1>19, TokensCheck
<1>20. CASE ReduceLock(t)
  <2>1. Reducing(t)
    BY <1>20 DEF ReduceLock, Reducing, ReducePcs, B2!Released, Lock, earlier_vars
  <2>2. SHUFFLE_STAGE \in set_flags /\ finished_shuffle
    BY <2>1, WhileReducing
  <2>3. PICK there : ReduceStep(t, there)
    BY <1>20, <2>2 DEF ReduceLock, ReduceStep, ReducePcs, JobInv, TokenInv, Lock,
       earlier_vars
  <2>4. TokenHolders' = TokenHolders /\ UNCHANGED <<sem, vector_of_vectors, status>>
    BY <1>20, <2>2 DEF ReduceLock, TokenHolders, JobInv, StageInv, Lock, earlier_vars
  <2> QED
    BY <2>1, <2>3, <2>4, TokensQuiet
<1>21. CASE ReduceTake(t)
  BY <1>21, TokensTake
<1>22. CASE ReduceCall(t)
  <2>1. Reducing(t)
    BY <1>22 DEF ReduceCall, Reducing, ReducePcs, B2!Released, earlier_vars
  <2>2. SHUFFLE_STAGE \in set_flags /\ finished_shuffle
    BY <2>1, WhileReducing
  <2>3. PICK there : ReduceStep(t, there)
    BY <1>22, <2>2 DEF ReduceCall, ReduceStep, ReducePcs, JobInv, TokenInv, earlier_vars
  <2>4. TokenHolders' = TokenHolders /\ UNCHANGED <<sem, vector_of_vectors, status>>
    BY <1>22, <2>2 DEF ReduceCall, TokenHolders, JobInv, StageInv, earlier_vars
  <2> QED
    BY <2>1, <2>3, <2>4, TokensQuiet
<1>23. CASE ReduceCount(t)
  <2>1. Reducing(t)
    BY <1>23 DEF ReduceCount, Reducing, ReducePcs, B2!Released, earlier_vars
  <2>2. SHUFFLE_STAGE \in set_flags /\ finished_shuffle
    BY <2>1, WhileReducing
  <2>3. PICK there : ReduceStep(t, there)
    BY <1>23, <2>2 DEF ReduceCount, ReduceStep, ReducePcs, JobInv, TokenInv, earlier_vars
  <2>4. TokenHolders' = TokenHolders /\ UNCHANGED <<sem, vector_of_vectors, status>>
    BY <1>23, <2>2 DEF ReduceCount, TokenHolders, JobInv, StageInv, earlier_vars
  <2> QED
    BY <2>1, <2>3, <2>4, TokensQuiet
<1>24. CASE ReduceExit(t)
  BY <1>24, TokensExit
<1>25. CASE ShuffleTop(t)
  BY <1>25, TokensBefore DEF ShuffleTop, Before1, Before2, MapPcs
<1> QED
  BY <1>1, <1>2, <1>3, <1>4, <1>5, <1>6, <1>7, <1>8, <1>9, <1>10, <1>11, <1>12, <1>13,
     <1>14, <1>15, <1>16, <1>17, <1>18, <1>19, <1>20, <1>21, <1>22, <1>23,
     <1>24, <1>25 DEF ThreadStep

-----------------------------------------------------------------------------
(* The client, and the theorems.                                           *)

\* Steps of the client, and the end of the process, touch nothing else.
LEMMA JobInvFrame ==
    ASSUME JobInv,
           UNCHANGED <<pc, set_flags, progress, finished_shuffle, index, mutex_map, sem,
                       vector_of_vectors, b1_count, b1_waiting, b2_count, b2_waiting>>,
           client' # "start" \/ UNCHANGED <<client, turn>>,
           status' = status \/ status' = "failed"
    PROVE  JobInv'
<1>1. /\ Mapping' = Mapping /\ Waiting1' = Waiting1
      /\ Shuffling' = Shuffling /\ Waiting2' = Waiting2 /\ TokenHolders' = TokenHolders
  BY DEF Mapping, Waiting1, Shuffling, Waiting2, TokenHolders
<1>2. Barrier1Inv' /\ Barrier2Inv'
  BY <1>1 DEF JobInv, Barrier1Inv, Barrier2Inv
<1>3. StageInv'
  BY <1>1 DEF JobInv, StageInv
<1>4. ClaimInv'
  BY DEF JobInv, ClaimInv
<1>5. NoStuckReducer'
  BY DEF JobInv, TokenInv, NoStuckReducer
<1>6. TokenInv'
  BY <1>1, <1>5 DEF JobInv, TokenInv
<1> QED
  BY <1>2, <1>3, <1>4, <1>6 DEF JobInv

\* A new thread is at the start of the map phase.
LEMMA CreatePreserves ==
    ASSUME JobInv, Create
    PROVE  JobInv'
<1> USE DEF ClientAt, Goto
<1> USE DEF counter_vars, map_vars, shuffle_vars, reduce_vars, barrier_vars
<1>1. CASE turn < NumOfThreads
  <2>1. turn \in Nat /\ turn \in Threads
    BY <1>1, ThreadNumbers DEF Create, JobInv, StageInv, Threads, data_vars, later_vars
  <2>2. /\ pc[turn] = "new" /\ pc' = [pc EXCEPT ![turn] = "set_map"]
        /\ turn' = turn + 1 /\ client = "start"
        /\ UNCHANGED <<set_flags, progress, finished_shuffle, index, mutex_map, sem,
                       vector_of_vectors, status, b1_count, b1_waiting, b2_count,
                       b2_waiting, client>>
    BY <1>1, <2>1 DEF Create, JobInv, StageInv, data_vars, later_vars
  <2>3. {"new", "set_map"} \subseteq Before1 /\ Before1 \subseteq Before2
    BY DEF Before1, Before2, MapPcs
  <2>4. Barrier1Inv' /\ Barrier2Inv'
    BY <2>1, <2>2, <2>3, SameSide DEF JobInv, StageInv
  <2>5. ClaimInv'
    BY <2>1, <2>2, ClaimKept
  <2>6. TokenInv'
    BY <2>1, <2>2, <2>3, TokensBefore
  <2>7. Shuffling' = Shuffling
    BY <2>1, <2>2, <2>3 DEF Shuffling, JobInv, StageInv
  <2>8. pc' \in [Threads -> Pcs]
    BY <2>1, <2>2 DEF JobInv, StageInv, Pcs, MapPcs
  <2>9. \A t \in Threads : t >= turn' => pc'[t] = "new"
    BY <2>1, <2>2, ThreadNumbers DEF JobInv, StageInv
  <2>10. StageInv'
    BY <2>1, <2>2, <2>3, <2>7, <2>8, <2>9 DEF JobInv, StageInv, MainTId, ReducePcs
  <2> QED
    BY <2>4, <2>5, <2>6, <2>10 DEF JobInv
<1>2. CASE ~(turn < NumOfThreads)
  <2>1. /\ client' = "join"
        /\ UNCHANGED <<pc, set_flags, progress, finished_shuffle, index, mutex_map, sem,
                       vector_of_vectors, status, b1_count, b1_waiting, b2_count,
                       b2_waiting>>
    BY <1>2 DEF Create, data_vars, later_vars
  <2> QED
    BY <2>1, JobInvFrame
<1> QED
  BY <1>1, <1>2

\* Joining and closing change nothing that the invariant is about.
LEMMA ClientPreserves ==
    ASSUME JobInv, Join \/ Close \/ CreateFails \/ UNCHANGED vars
    PROVE  JobInv'
<1> USE DEF counter_vars, map_vars, shuffle_vars, reduce_vars, barrier_vars, client_vars
<1>1. UNCHANGED <<pc, set_flags, progress, finished_shuffle, index, mutex_map, sem,
                  vector_of_vectors, b1_count, b1_waiting, b2_count, b2_waiting>>
  BY DEF Join, Close, CreateFails, vars, data_vars, later_vars
<1>2. client' # "start" \/ UNCHANGED <<client, turn>>
  BY DEF Join, Close, CreateFails, ClientAt, vars, data_vars, later_vars
<1>3. status' = status \/ status' = "failed"
  BY DEF Join, Close, CreateFails, ClientAt, vars, data_vars, later_vars
<1> QED
  BY <1>1, <1>2, <1>3, JobInvFrame

\* JobInv is inductive.
THEOREM JobInvHolds == Spec => []JobInv
<1>1. JobInv /\ [Next]_vars => JobInv'
  <2> SUFFICES ASSUME JobInv, [Next]_vars PROVE JobInv'
    OBVIOUS
  <2>1. ASSUME NEW t \in Threads, ThreadStep(t) PROVE JobInv'
    BY <2>1, StageThread, BarriersThread, ClaimThread, TokenThread DEF JobInv
  <2>2. CASE ClientStep \/ CreateFails \/ Stutter \/ UNCHANGED vars
    BY <2>2, CreatePreserves, ClientPreserves DEF ClientStep, Stutter
  <2> QED
    BY <2>1, <2>2 DEF Next
<1> QED
  BY <1>1, JobInit, PTL DEF Spec

(***************************************************************************)
(* No thread shuffles while another one maps or sorts, and none reduces    *)
(* before thread 0 has finished the shuffle (187, 188).                    *)
(***************************************************************************)
THEOREM PhasesSeparatedHolds == Spec => []PhasesSeparated
<1>1. JobInv => PhasesSeparated
  <2> SUFFICES ASSUME JobInv, NEW t \in Threads, NEW u \in Threads
               PROVE  /\ pc[t] \in {"shuffle", "shuffle_top", "shuffle_loop", "barrier_reduce"} =>
                            pc[u] \in Pcs \ (MapPcs \union {"new", "barrier"})
                      /\ pc[t] \in ReducePcs =>
                            /\ finished_shuffle
                            /\ pc[u] \in ReducePcs \union {"barrier_reduce_wait", "done"}
    BY DEF PhasesSeparated
  <2>1. ASSUME pc[t] \in {"shuffle", "shuffle_top", "shuffle_loop", "barrier_reduce"}
        PROVE  pc[u] \in Pcs \ (MapPcs \union {"new", "barrier"})
    BY <2>1, WhileMapping DEF JobInv, StageInv, Before1, MapPcs
  <2>2. ASSUME pc[t] \in ReducePcs
        PROVE  finished_shuffle /\ pc[u] \in ReducePcs \union {"barrier_reduce_wait", "done"}
    BY <2>2, WhileReducing DEF Reducing
  <2> QED
    BY <2>1, <2>2
<1> QED
  BY <1>1, JobInvHolds, PTL

(***************************************************************************)
(* Every input is claimed once (309, 314).                                 *)
(***************************************************************************)
THEOREM ClaimsDistinctHolds == Spec => []ClaimsDistinct
<1>1. JobInv => ClaimsDistinct
  <2> SUFFICES ASSUME JobInv, NEW t \in Threads, pc[t] = "map_call"
               PROVE  /\ progress.stage = MAP_STAGE
                      /\ index[t] \in Inputs /\ index[t] < progress.done
                      /\ \A u \in Threads : pc[u] = "map_call" /\ index[u] = index[t] => u = t
    BY DEF ClaimsDistinct
  <2>1. progress.stage = MAP_STAGE
    BY WhileMapping DEF JobInv, StageInv, Before1, MapPcs
  <2>2. progress.done \in 0 .. NumInputs
    BY <2>1 DEF JobInv, ClaimInv
  <2> QED
    BY <2>1, <2>2, NumInputsAssumption DEF JobInv, ClaimInv, Inputs
<1> QED
  BY <1>1, JobInvHolds, PTL

(***************************************************************************)
(* Every group has its token, and nobody erases from an empty vector       *)
(* (402, 408).                                                             *)
(***************************************************************************)
THEOREM TokensMatchHolds == Spec => []TokensMatch
<1>1. JobInv => TokensMatch
  <2> SUFFICES ASSUME JobInv PROVE TokensMatch
    OBVIOUS
  <2>1. progress.stage >= SHUFFLE_STAGE => SHUFFLE_STAGE \in set_flags \/ REDUCE_STAGE \in set_flags
    BY DEF JobInv, StageInv, UNDEFINED_STAGE, MAP_STAGE, SHUFFLE_STAGE, REDUCE_STAGE
  <2>2. REDUCE_STAGE \in set_flags => SHUFFLE_STAGE \in set_flags
    <3> SUFFICES ASSUME REDUCE_STAGE \in set_flags
                 PROVE  SHUFFLE_STAGE \in set_flags
      OBVIOUS
    <3>1. MainTId \in Threads
      BY ThreadNumbers DEF JobInv, StageInv
    <3>2. pc[MainTId] \notin Before2
      BY <3>1 DEF JobInv, StageInv, Shuffling
    <3> QED
      BY <3>1, <3>2 DEF JobInv, StageInv, Before2
  <2>3. vector_of_vectors # <<>> /\ progress.stage >= SHUFFLE_STAGE =>
            sem + Cardinality(TokenHolders) = Len(vector_of_vectors)
    BY <2>1, <2>2 DEF JobInv, TokenInv
  <2> QED
    BY <2>3 DEF JobInv, TokenInv, TokensMatch
<1> QED
  BY <1>1, JobInvHolds, PTL

(***************************************************************************)
(* A thread that waits for a token when no group is left is woken (413).   *)
(***************************************************************************)
THEOREM NoStuckReducerHolds == Spec => []NoStuckReducer
<1>1. JobInv => NoStuckReducer
  BY DEF JobInv, TokenInv
<1> QED
  BY <1>1, JobInvHolds, PTL

-----------------------------------------------------------------------------
(* The data: its invariants.                                               *)

\* The bags of pairs.
Bag == BagsOver(Pairs)

\* The threads that may hold vectors of pairs: those in the map loop and in sort_phase.
LoopPcs == MapPcs \ {"set_map"}

\* The types of the variables that hold pairs.
DataType ==
    /\ emits \in [Inputs -> SUBSET Keys]
    /\ intermediate \in [Threads -> Seq(Bag)]
    /\ vector_of_vectors \in Seq(Bag)
    /\ all_pairs \in Bag
    /\ saving \in Bag
    /\ element \in [Threads -> Bag]
    /\ output \in Seq(Bag)
    /\ index \in [Threads -> Inputs]
    /\ num_of_pairs \in Nat

\* What is empty, and since or until when.
FlowInv ==
    /\ \A t \in Threads :
          /\ pc[t] \notin LoopPcs => intermediate[t] = <<>>
          /\ pc[t] \notin (LoopPcs \ {"sort"}) \union {"new", "set_map"} => done_map
          /\ pc[t] \notin {"reduce_call", "reduce_count"} => element[t] = EmptyBag
    /\ done_map => MAP_STAGE \in set_flags
    /\ done_map /\ progress.stage = MAP_STAGE => progress.done = NumInputs
    /\ all_pairs = EmptyBag => saving = EmptyBag
    /\ finished_shuffle => all_pairs = EmptyBag
    /\ SHUFFLE_STAGE \notin set_flags => all_pairs = EmptyBag /\ num_of_pairs = 0
    /\ REDUCE_STAGE \notin set_flags => output = <<>>

\* What the threads at one place of the code hold, a bag for each thread.
Hands(pcs, held, here) ==
    [n \in 1 .. NumOfThreads |-> IF pcs[n - 1] = here THEN held[n - 1] ELSE EmptyBag]

\* All the pairs in the threads' intermediate vectors.
HeldBy(f) == FoldFunction(LAMBDA vectors, bag : Collected(vectors) (+) bag, EmptyBag, f)

\* The copies of p in all the places a pair can be.
Place(p) ==
    Copies(p, HeldBy(intermediate)) + Copies(p, Collected(vector_of_vectors))
      + Copies(p, all_pairs) + Copies(p, saving)
      + Copies(p, Collected(Hands(pc, element, "reduce_call"))) + Copies(p, Collected(output))

\* Thread 0 has filled the heap and is about to look at its top.
TopPending == \E t \in Threads : pc[t] = "shuffle_top"

\* A pair that an already mapped input emitted is in one place, once; no other
\* pair is anywhere.
Conserved == \A p \in Pairs : Place(p) = IF p \in AllPairs /\ p[1] \in Mapped THEN 1 ELSE 0

\* What the atomic counter says of the stage is what the bags hold.
CountInv ==
    /\ progress.done \in Nat
    /\ progress.stage = UNDEFINED_STAGE => progress.todo = 0 /\ progress.done = 0
    /\ progress.stage = MAP_STAGE => progress.todo = NumInputs
    /\ SHUFFLE_STAGE \in set_flags =>
          /\ num_of_pairs = Cardinality(AllPairs)
          /\ progress.todo = num_of_pairs
          /\ status = "up" /\ ~TopPending => num_of_pairs > 0
    /\ progress.stage = SHUFFLE_STAGE => progress.done + BagCardinality(all_pairs) = num_of_pairs
    /\ progress.stage = REDUCE_STAGE =>
          progress.done + BagCardinality(Collected(Hands(pc, element, "reduce_count")))
            = BagCardinality(Collected(output))

\* The client joins the threads in order, and closes when all of them are
\* done.
ClientInv ==
    /\ client \in {"start", "join", "close", "closed"}
    /\ turn \in 0 .. NumOfThreads
    /\ client = "join" => \A t \in Threads : t < turn => pc[t] = "done"
    /\ client \in {"close", "closed"} => \A t \in Threads : pc[t] = "done"

\* The groups of the keys that map emits, all the pairs of one key each.
GroupOf(e, k) == SetToBag({<<i, k>> : i \in {i \in Inputs : k \in e[i]}})
Groups(e) == {GroupOf(e, k) : k \in UNION {e[i] : i \in Inputs}}

\* What thread 0 knows of the pairs while it builds a group: key is last_key.
Building(key, heap, group) ==
    /\ key \in Job!EmittedKeys
    /\ \A p \in Pairs :
          /\ Copies(p, group) > 0 => p[2] = key
          /\ Copies(p, heap) > 0 => p[2] >= key
          /\ p[2] = key /\ p \in AllPairs => Copies(p, group) + Copies(p, heap) = 1
          /\ p[2] > key /\ p \in AllPairs => Copies(p, heap) = 1

\* A finished vector is all the pairs of one key, and the unfinished one will
\* be.
GroupInv ==
    /\ SHUFFLE_STAGE \in set_flags => \A n \in DOMAIN vector_of_vectors : vector_of_vectors[n] \in Groups(emits)
    /\ \A t \in Threads : pc[t] \in {"reduce_call", "reduce_count"} => element[t] \in Groups(emits)
    /\ TopPending => all_pairs = SetToBag(AllPairs)
    /\ SHUFFLE_STAGE \in set_flags /\ all_pairs # EmptyBag /\ ~TopPending =>
          Building(last_key, all_pairs, saving)

-----------------------------------------------------------------------------
(* Bags of pairs, sequences of them, and what the threads hold.            *)

\* There are finitely many inputs and pairs.
LEMMA PairsFinite == IsFiniteSet(Inputs) /\ IsFiniteSet(Pairs)
<1>1. IsFiniteSet(Inputs)
  BY FS_Interval, NumInputsAssumption DEF Inputs
<1> QED
  BY <1>1, FS_Product, KeysAssumption DEF Pairs

\* The largest number of a set, in whose order the library folds a sequence.
LEMMA LargestIndex ==
    ASSUME NEW n \in Nat, NEW s \in SUBSET (1 .. n), s # {}
    PROVE  Max(s) \in s
<1> DEFINE B == {m \in Nat : \A x \in s : x <= m}
<1>1. n \in B
  OBVIOUS
<1>2. PICK m \in B : \A k \in B : m <= k
  <2> HIDE DEF B
  <2>1. B \in SUBSET Nat /\ B # {}
    BY <1>1 DEF B
  <2> QED
    BY <2>1, LeastNumber
<1>3. m \in Nat /\ \A x \in s : x <= m
  OBVIOUS
<1>4. m \in s
  <2> SUFFICES ASSUME m \notin s PROVE FALSE
    OBVIOUS
  <2>1. PICK x \in s : TRUE
    OBVIOUS
  <2>2. m - 1 \in Nat /\ \A y \in s : y <= m - 1
    BY <1>3, <2>1
  <2>3. m - 1 \in B
    BY <2>2
  <2> QED
    BY <1>2, <1>3, <2>3
<1>5. \E x \in s : \A y \in s : x >= y
  BY <1>3, <1>4
<1> QED
  BY <1>5 DEF Max

\* Collected is the sum of the bags of a sequence.
LEMMA CollectedIs ==
    ASSUME NEW v \in Seq(Bag)
    PROVE  /\ Collected(v) = Total(v, Bag, EmptyBag, BagPlus(Pairs))
           /\ Collected(v) \in Bag
<1> DEFINE D == DOMAIN v
           F(k) == [s \in SUBSET D |->
                       IF s = {} THEN EmptyBag ELSE k[s \ {Max(s)}] (+) v[Max(s)]]
           plus == BagPlus(Pairs)
<1>1. /\ v \in [D -> Bag] /\ D = 1 .. Len(v) /\ Len(v) \in Nat /\ IsFiniteSet(D)
  <2>1. v \in [D -> Bag] /\ D = 1 .. Len(v) /\ Len(v) \in Nat
    OBVIOUS
  <2> HIDE DEF D
  <2> QED
    BY <2>1, FS_Interval
<1>2. IsPlus(Bag, EmptyBag, plus) /\ \A a, b \in Bag : plus[<<a, b>>] = a (+) b
  BY BagPlusIs DEF Bag
<1>3. \A s \in SUBSET D : s # {} => Max(s) \in s
  BY <1>1, LargestIndex
<1> HIDE DEF D, plus
<1>4. PICK g : IsSum(g, D, v, Bag, EmptyBag, plus)
  BY <1>1, <1>2, SumExists
<1>5. g = F(g)
  <2>1. g \in [SUBSET D -> Bag] /\ g[{}] = EmptyBag
    BY <1>4 DEF IsSum
  <2>2. ASSUME NEW s \in SUBSET D, NEW x \in s
        PROVE  g[s] = g[s \ {x}] (+) v[x]
    <3>1. g[s] = plus[<<v[x], g[s \ {x}]>>] /\ g[s \ {x}] \in Bag /\ v[x] \in Bag
      BY <1>1, <1>4, <2>1 DEF IsSum
    <3>2. plus[<<v[x], g[s \ {x}]>>] = plus[<<g[s \ {x}], v[x]>>]
      BY <1>2, <3>1 DEF IsPlus
    <3> QED
      BY <1>2, <3>1, <3>2
  <2>3. \A s \in SUBSET D : g[s] = F(g)[s]
    BY <1>3, <2>1, <2>2
  <2> QED
    BY <2>1, <2>3
<1> DEFINE c == CHOOSE k : k = F(k)
<1>6. c = F(c)
  <2> HIDE DEF F
  <2> QED
    BY <1>5
<1> HIDE DEF c
<1>7. c[{}] = EmptyBag
  BY <1>6
<1>8. ASSUME NEW s \in SUBSET D, s # {}
      PROVE  \E x \in s : c[s \ {x}] \in Bag => c[s] = plus[<<v[x], c[s \ {x}]>>]
  <2> DEFINE x == Max(s)
  <2>1. x \in s /\ c[s] = c[s \ {x}] (+) v[x]
    BY <1>3, <1>6, <1>8
  <2> HIDE DEF x
  <2>2. v[x] \in Bag
    BY <1>1, <2>1
  <2>3. ASSUME c[s \ {x}] \in Bag PROVE c[s] = plus[<<v[x], c[s \ {x}]>>]
    <3>1. c[s] = plus[<<c[s \ {x}], v[x]>>]
      BY <1>2, <2>1, <2>2, <2>3
    <3> QED
      BY <1>2, <2>2, <2>3, <3>1 DEF IsPlus
  <2> QED
    BY <2>1, <2>3
<1>9. IsRecursion(c, D, v, Bag, EmptyBag, plus)
  BY <1>7, <1>8, Zenon DEF IsRecursion
<1>10. Collected(v) = c[D]
  BY DEF Collected, FoldLeft, MapThenFoldSet, c, D
<1> HIDE DEF F
<1>11. c[D] = Total(v, Bag, EmptyBag, plus)
  BY <1>1, <1>2, <1>9, RecursionIsTotal
<1>12. Total(v, Bag, EmptyBag, plus) \in Bag
  BY <1>1, <1>2, <1>4, TotalIs
<1> QED
  BY <1>10, <1>11, <1>12 DEF plus

\* A bag more, a bag less, no bag at all.
LEMMA CollectedSteps ==
    ASSUME NEW v \in Seq(Bag)
    PROVE  /\ Collected(v) \in Bag
           /\ \A e \in Bag : \A p : Copies(p, Collected(Append(v, e)))
                                      = Copies(p, Collected(v)) + Copies(p, e)
           /\ v # <<>> =>
                 /\ Head(v) \in Bag /\ Tail(v) \in Seq(Bag)
                 /\ \A p : Copies(p, Collected(v))
                             = Copies(p, Head(v)) + Copies(p, Collected(Tail(v)))
<1> DEFINE plus == BagPlus(Pairs)
<1>1. IsPlus(Bag, EmptyBag, plus) /\ \A a, b \in Bag : plus[<<a, b>>] = a (+) b
  BY BagPlusIs DEF Bag
<1>2. \A a, b \in Bag : \A p : Copies(p, a (+) b) = Copies(p, a) + Copies(p, b)
  BY BagSum DEF Bag
<1>3. \A a \in Bag : \A p : Copies(p, a) \in Nat
  BY BagFacts DEF Bag
<1> HIDE DEF plus
<1>4. Collected(v) \in Bag
  BY CollectedIs
<1>5. ASSUME NEW e \in Bag, NEW p
      PROVE  Copies(p, Collected(Append(v, e))) = Copies(p, Collected(v)) + Copies(p, e)
  <2>1. Total(Append(v, e), Bag, EmptyBag, plus) = plus[<<e, Total(v, Bag, EmptyBag, plus)>>]
    BY <1>1, TotalAppend
  <2>2. Append(v, e) \in Seq(Bag)
    OBVIOUS
  <2>3. Collected(Append(v, e)) = plus[<<e, Collected(v)>>]
    BY <2>1, <2>2, CollectedIs DEF plus
  <2>4. Collected(Append(v, e)) = e (+) Collected(v)
    BY <1>1, <1>4, <2>3
  <2> QED
    BY <1>2, <1>3, <1>4, <2>4
<1>6. ASSUME v # <<>>
      PROVE  /\ Head(v) \in Bag /\ Tail(v) \in Seq(Bag)
             /\ \A p : Copies(p, Collected(v)) = Copies(p, Head(v)) + Copies(p, Collected(Tail(v)))
  <2>1. Head(v) \in Bag /\ Tail(v) \in Seq(Bag)
    BY <1>6
  <2>2. Total(v, Bag, EmptyBag, plus) = plus[<<Head(v), Total(Tail(v), Bag, EmptyBag, plus)>>]
    BY <1>1, <1>6, TotalTail
  <2>3. Collected(v) = plus[<<Head(v), Collected(Tail(v))>>] /\ Collected(Tail(v)) \in Bag
    BY <2>1, <2>2, CollectedIs DEF plus
  <2>4. Collected(v) = Head(v) (+) Collected(Tail(v))
    BY <1>1, <2>1, <2>3
  <2> QED
    BY <1>2, <2>1, <2>3, <2>4
<1> QED
  BY <1>4, <1>5, <1>6

\* No vectors hold no pair.
LEMMA CollectedNothing ==
    /\ <<>> \in Seq(Bag)
    /\ Collected(<<>>) = EmptyBag
    /\ \A p : Copies(p, Collected(<<>>)) = 0
<1>1. <<>> \in Seq(Bag) /\ <<>> \in [DOMAIN <<>> -> Bag] /\ \A x : x \notin DOMAIN <<>>
  OBVIOUS
<1>2. IsPlus(Bag, EmptyBag, BagPlus(Pairs))
  BY BagPlusIs DEF Bag
<1>3. Total(<<>>, Bag, EmptyBag, BagPlus(Pairs)) = EmptyBag
  BY <1>1, <1>2, TotalEmpty
<1> QED
  BY <1>1, <1>3, CollectedIs, BagOfNothing

\* Sequences that differ in one place.
LEMMA CollectedUpdate ==
    ASSUME NEW v \in Seq(Bag), NEW w \in Seq(Bag), DOMAIN v = DOMAIN w, NEW n \in DOMAIN v,
           \A m \in DOMAIN v \ {n} : w[m] = v[m]
    PROVE  \A p : Copies(p, Collected(w)) + Copies(p, v[n])
                    = Copies(p, Collected(v)) + Copies(p, w[n])
<1> DEFINE plus == BagPlus(Pairs)
           D == DOMAIN v
<1>1. IsPlus(Bag, EmptyBag, plus) /\ \A a, b \in Bag : plus[<<a, b>>] = a (+) b
  BY BagPlusIs DEF Bag
<1>2. \A a, b \in Bag : \A p : Copies(p, a (+) b) = Copies(p, a) + Copies(p, b)
  BY BagSum DEF Bag
<1>3. \A a \in Bag : \A p : Copies(p, a) \in Nat
  BY BagFacts DEF Bag
<1>4. D = 1 .. Len(v) /\ Len(v) \in Nat /\ v \in [D -> Bag] /\ w \in [D -> Bag]
  OBVIOUS
<1>5. n \in D /\ \A m \in D \ {n} : w[m] = v[m]
  OBVIOUS
<1> HIDE DEF plus, D
<1>6. IsFiniteSet(D)
  BY <1>4, FS_Interval
<1>7. OneDiffers(Total(v, Bag, EmptyBag, plus), v[n], Total(w, Bag, EmptyBag, plus), w[n],
                 Bag, plus)
  BY <1>1, <1>4, <1>5, <1>6, TotalUpdate
<1>8. v[n] \in Bag /\ w[n] \in Bag
  BY <1>4, <1>5
<1>9. PICK others \in Bag :
         Collected(v) = plus[<<v[n], others>>] /\ Collected(w) = plus[<<w[n], others>>]
  BY <1>7, CollectedIs DEF plus, OneDiffers
<1>10. Collected(v) = v[n] (+) others /\ Collected(w) = w[n] (+) others
  BY <1>1, <1>8, <1>9
<1> QED
  BY <1>2, <1>3, <1>8, <1>10

\* Bags of the same number of pairs.
LEMMA SameCardinality ==
    ASSUME NEW a \in Bag, NEW b \in Bag, NEW c \in Bag, NEW d \in Bag,
           \A p : Copies(p, a) + Copies(p, b) = Copies(p, c) + Copies(p, d)
    PROVE  /\ BagCardinality(a) + BagCardinality(b) = BagCardinality(c) + BagCardinality(d)
           /\ {BagCardinality(a), BagCardinality(b), BagCardinality(c), BagCardinality(d)}
                 \subseteq Nat
<1>1. /\ a (+) b \in Bag /\ c (+) d \in Bag
      /\ \A p : Copies(p, a (+) b) = Copies(p, a) + Copies(p, b)
      /\ \A p : Copies(p, c (+) d) = Copies(p, c) + Copies(p, d)
  BY BagSum DEF Bag
<1>2. a (+) b = c (+) d
  BY <1>1, BagsEqual DEF Bag
<1>3. /\ BagCardinality(a (+) b) = BagCardinality(a) + BagCardinality(b)
      /\ BagCardinality(c (+) d) = BagCardinality(c) + BagCardinality(d)
      /\ {BagCardinality(a), BagCardinality(b), BagCardinality(c), BagCardinality(d)}
            \subseteq Nat
  BY BagCardinalities, PairsFinite DEF Bag
<1> QED
  BY <1>2, <1>3

\* The vectors of the threads.
LEMMA HeldIs ==
    ASSUME NEW f \in [Threads -> Seq(Bag)]
    PROVE  /\ HeldBy(f) = Total([t \in Threads |-> Collected(f[t])], Bag, EmptyBag, BagPlus(Pairs))
           /\ HeldBy(f) \in Bag
<1> DEFINE D == Threads
           h == [t \in Threads |-> Collected(f[t])]
           F(k) == [s \in SUBSET D |->
                       IF s = {} THEN EmptyBag
                       ELSE Collected(f[CHOOSE x \in s : TRUE]) (+) k[s \ {CHOOSE x \in s : TRUE}]]
           plus == BagPlus(Pairs)
<1>1. h \in [D -> Bag] /\ DOMAIN f = D /\ \A t \in D : h[t] = Collected(f[t])
  BY CollectedIs
<1>2. IsPlus(Bag, EmptyBag, plus) /\ \A a, b \in Bag : plus[<<a, b>>] = a (+) b
  BY BagPlusIs DEF Bag
<1>3. IsFiniteSet(D)
  BY ThreadSets
<1> HIDE DEF D, plus, h
<1>4. PICK g : IsSum(g, D, h, Bag, EmptyBag, plus)
  BY <1>1, <1>2, <1>3, SumExists
<1>5. g = F(g)
  <2>1. g \in [SUBSET D -> Bag] /\ g[{}] = EmptyBag
    BY <1>4 DEF IsSum
  <2>2. ASSUME NEW s \in SUBSET D, NEW x \in s
        PROVE  g[s] = Collected(f[x]) (+) g[s \ {x}]
    <3>1. g[s] = plus[<<h[x], g[s \ {x}]>>] /\ g[s \ {x}] \in Bag /\ h[x] \in Bag
      BY <1>1, <1>4, <2>1 DEF IsSum
    <3>2. h[x] = Collected(f[x])
      BY <1>1
    <3> QED
      BY <1>2, <3>1, <3>2
  <2>3. \A s \in SUBSET D : s # {} =>
           g[s] = Collected(f[CHOOSE x \in s : TRUE]) (+) g[s \ {CHOOSE x \in s : TRUE}]
    BY <2>2
  <2>4. \A s \in SUBSET D : g[s] = F(g)[s]
    BY <2>1, <2>3
  <2> QED
    BY <2>1, <2>4
<1> DEFINE c == CHOOSE k : k = F(k)
<1>6. c = F(c)
  <2> HIDE DEF F
  <2> QED
    BY <1>5
<1> HIDE DEF c
<1>7. c[{}] = EmptyBag
  BY <1>6
<1>8. ASSUME NEW s \in SUBSET D, s # {}
      PROVE  \E x \in s : c[s \ {x}] \in Bag => c[s] = plus[<<h[x], c[s \ {x}]>>]
  <2> DEFINE x == CHOOSE x \in s : TRUE
  <2>1. x \in s /\ c[s] = Collected(f[x]) (+) c[s \ {x}]
    BY <1>6, <1>8
  <2> HIDE DEF x
  <2>2. h[x] \in Bag /\ h[x] = Collected(f[x])
    BY <1>1, <2>1
  <2>3. ASSUME c[s \ {x}] \in Bag PROVE c[s] = plus[<<h[x], c[s \ {x}]>>]
    BY <1>2, <2>1, <2>2, <2>3
  <2> QED
    BY <2>1, <2>3
<1>9. IsRecursion(c, D, h, Bag, EmptyBag, plus)
  BY <1>7, <1>8, Zenon DEF IsRecursion
<1>10. HeldBy(f) = c[D]
  BY <1>1 DEF HeldBy, FoldFunction, FoldFunctionOnSet, MapThenFoldSet, c
<1> HIDE DEF F
<1>11. c[D] = Total(h, Bag, EmptyBag, plus)
  BY <1>1, <1>2, <1>3, <1>9, RecursionIsTotal
<1>12. Total(h, Bag, EmptyBag, plus) \in Bag
  BY <1>1, <1>2, <1>3, <1>4, TotalIs
<1> QED
  BY <1>10, <1>11, <1>12 DEF plus, h

\* One thread's vectors change.
LEMMA HeldUpdate ==
    ASSUME NEW f \in [Threads -> Seq(Bag)], NEW h \in [Threads -> Seq(Bag)], NEW t \in Threads,
           \A u \in Threads \ {t} : h[u] = f[u]
    PROVE  /\ HeldBy(f) \in Bag /\ HeldBy(h) \in Bag
           /\ \A p : Copies(p, HeldBy(h)) + Copies(p, Collected(f[t]))
                       = Copies(p, HeldBy(f)) + Copies(p, Collected(h[t]))
<1> DEFINE plus == BagPlus(Pairs)
           a == [u \in Threads |-> Collected(f[u])]
           b == [u \in Threads |-> Collected(h[u])]
<1>1. IsPlus(Bag, EmptyBag, plus) /\ \A x, y \in Bag : plus[<<x, y>>] = x (+) y
  BY BagPlusIs DEF Bag
<1>2. \A x, y \in Bag : \A p : Copies(p, x (+) y) = Copies(p, x) + Copies(p, y)
  BY BagSum DEF Bag
<1>3. \A x \in Bag : \A p : Copies(p, x) \in Nat
  BY BagFacts DEF Bag
<1>4. /\ a \in [Threads -> Bag] /\ b \in [Threads -> Bag] /\ \A u \in Threads \ {t} : b[u] = a[u]
      /\ a[t] = Collected(f[t]) /\ b[t] = Collected(h[t])
  BY CollectedIs
<1>5. HeldBy(f) = Total(a, Bag, EmptyBag, plus) /\ HeldBy(h) = Total(b, Bag, EmptyBag, plus)
      /\ HeldBy(f) \in Bag /\ HeldBy(h) \in Bag
  BY HeldIs
<1>6. IsFiniteSet(Threads)
  BY ThreadSets
<1> HIDE DEF plus, a, b
<1>7. OneDiffers(Total(a, Bag, EmptyBag, plus), a[t], Total(b, Bag, EmptyBag, plus), b[t],
                 Bag, plus)
  BY <1>1, <1>4, <1>6, TotalUpdate
<1>8. a[t] \in Bag /\ b[t] \in Bag
  BY <1>4
<1>9. PICK others \in Bag : HeldBy(f) = plus[<<a[t], others>>] /\ HeldBy(h) = plus[<<b[t], others>>]
  BY <1>5, <1>7 DEF OneDiffers
<1>10. HeldBy(f) = a[t] (+) others /\ HeldBy(h) = b[t] (+) others
  BY <1>1, <1>8, <1>9
<1> QED
  BY <1>2, <1>3, <1>4, <1>5, <1>8, <1>10

\* Threads without vectors hold no pair.
LEMMA HeldNothing ==
    ASSUME NEW f \in [Threads -> Seq(Bag)], \A t \in Threads : f[t] = <<>>
    PROVE  HeldBy(f) = EmptyBag
<1> DEFINE a == [u \in Threads |-> Collected(f[u])]
<1>1. a \in [Threads -> Bag] /\ \A u \in Threads : a[u] = EmptyBag
  BY CollectedIs, CollectedNothing
<1>2. IsPlus(Bag, EmptyBag, BagPlus(Pairs)) /\ IsFiniteSet(Threads)
  BY BagPlusIs, ThreadSets DEF Bag
<1>3. HeldBy(f) = Total(a, Bag, EmptyBag, BagPlus(Pairs))
  BY HeldIs
<1> HIDE DEF a
<1> QED
  BY <1>1, <1>2, <1>3, TotalZeros

\* The group in the hands of each thread that is at a given place.
InHand(pcs, held, here, t) == IF pcs[t] = here THEN held[t] ELSE EmptyBag

\* Hands is a sequence with the bag of thread n - 1 at n.
LEMMA HandsIs ==
    ASSUME NEW pcs \in [Threads -> Pcs], NEW held \in [Threads -> Bag], NEW here
    PROVE  /\ Hands(pcs, held, here) \in Seq(Bag)
           /\ DOMAIN Hands(pcs, held, here) = 1 .. NumOfThreads
           /\ \A n \in 1 .. NumOfThreads : Hands(pcs, held, here)[n] = InHand(pcs, held, here, n - 1)
           /\ \A t \in Threads : InHand(pcs, held, here, t) \in Bag
<1>1. \A n \in 1 .. NumOfThreads : n - 1 \in Threads
  BY ThreadNumbers DEF Threads
<1>2. \A t \in Threads : InHand(pcs, held, here, t) \in Bag
  BY BagOfNothing DEF InHand, Bag
<1>3. Hands(pcs, held, here) \in [1 .. NumOfThreads -> Bag]
  BY <1>1, <1>2 DEF Hands, InHand
<1>4. Hands(pcs, held, here) \in Seq(Bag)
  BY <1>3, ThreadNumbers
<1> QED
  BY <1>2, <1>3, <1>4 DEF Hands, InHand

\* One thread moves.
LEMMA HandsUpdate ==
    ASSUME NEW pcs \in [Threads -> Pcs], NEW held \in [Threads -> Bag], NEW here,
           NEW pcs2 \in [Threads -> Pcs], NEW held2 \in [Threads -> Bag], NEW t \in Threads,
           \A u \in Threads \ {t} : pcs2[u] = pcs[u] /\ held2[u] = held[u]
    PROVE  /\ Collected(Hands(pcs, held, here)) \in Bag
           /\ Collected(Hands(pcs2, held2, here)) \in Bag
           /\ \A p : Copies(p, Collected(Hands(pcs2, held2, here)))
                        + Copies(p, InHand(pcs, held, here, t))
                       = Copies(p, Collected(Hands(pcs, held, here)))
                        + Copies(p, InHand(pcs2, held2, here, t))
<1> DEFINE v == Hands(pcs, held, here)
           w == Hands(pcs2, held2, here)
<1>1. v \in Seq(Bag) /\ w \in Seq(Bag) /\ DOMAIN v = 1 .. NumOfThreads /\ DOMAIN w = 1 .. NumOfThreads
  BY HandsIs
<1>2. \A n \in 1 .. NumOfThreads : /\ v[n] = InHand(pcs, held, here, n - 1)
                                   /\ w[n] = InHand(pcs2, held2, here, n - 1)
  BY HandsIs
<1> HIDE DEF v, w
<1>3. /\ t + 1 \in 1 .. NumOfThreads /\ (t + 1) - 1 = t
      /\ \A n \in 1 .. NumOfThreads \ {t + 1} : n - 1 \in Threads \ {t}
  BY ThreadNumbers DEF Threads
<1>4. \A n \in DOMAIN v \ {t + 1} : w[n] = v[n]
  BY <1>1, <1>2, <1>3 DEF InHand
<1>5. \A p : Copies(p, Collected(w)) + Copies(p, v[t + 1])
               = Copies(p, Collected(v)) + Copies(p, w[t + 1])
  <2> DEFINE n == t + 1
  <2>1. n \in DOMAIN v
    BY <1>1, <1>3
  <2> HIDE DEF n
  <2>2. \A m \in DOMAIN v \ {n} : w[m] = v[m]
    BY <1>4 DEF n
  <2>3. DOMAIN v = DOMAIN w
    BY <1>1
  <2>4. \A p : Copies(p, Collected(w)) + Copies(p, v[n]) = Copies(p, Collected(v)) + Copies(p, w[n])
    BY <1>1, <2>1, <2>2, <2>3, CollectedUpdate
  <2> QED
    BY <2>4 DEF n
<1>6. Collected(v) \in Bag /\ Collected(w) \in Bag
  BY <1>1, CollectedIs
<1>7. v[t + 1] = InHand(pcs, held, here, t) /\ w[t + 1] = InHand(pcs2, held2, here, t)
  BY <1>2, <1>3
<1> QED
  BY <1>5, <1>6, <1>7 DEF v, w

\* If no thread is at that place, nothing is held there.
LEMMA HandsEmpty ==
    ASSUME NEW pcs \in [Threads -> Pcs], NEW held \in [Threads -> Bag], NEW here,
           \A t \in Threads : pcs[t] # here
    PROVE  Collected(Hands(pcs, held, here)) = EmptyBag
<1> DEFINE v == Hands(pcs, held, here)
<1>1. v \in Seq(Bag) /\ DOMAIN v = 1 .. NumOfThreads
      /\ \A n \in 1 .. NumOfThreads : v[n] = InHand(pcs, held, here, n - 1)
  BY HandsIs
<1> HIDE DEF v
<1>2. \A n \in 1 .. NumOfThreads : n - 1 \in Threads
  BY ThreadNumbers DEF Threads
<1>3. \A n \in DOMAIN v : v[n] = EmptyBag
  BY <1>1, <1>2 DEF InHand
<1>4. IsPlus(Bag, EmptyBag, BagPlus(Pairs))
  BY BagPlusIs DEF Bag
<1>5. IsFiniteSet(DOMAIN v)
  <2>1. IsFiniteSet(1 .. NumOfThreads)
    BY FS_Interval, ThreadNumbers
  <2>2. DOMAIN v = 1 .. NumOfThreads
    BY <1>1
  <2> QED
    BY <2>1, <2>2, Zenon
<1>6. v \in [DOMAIN v -> Bag]
  <2>1. v \in Seq(Bag)
    BY <1>1
  <2> QED
    BY <2>1
<1>7. Total(v, Bag, EmptyBag, BagPlus(Pairs)) = EmptyBag
  BY <1>3, <1>4, <1>5, <1>6, TotalZeros
<1> QED
  BY <1>1, <1>7, CollectedIs DEF v

\* What map emits is a bag of pairs.
LEMMA EmittedIs ==
    ASSUME NEW i \in Inputs, emits \in [Inputs -> SUBSET Keys]
    PROVE  /\ Emitted(i) \in Bag
           /\ \A p \in Pairs : Copies(p, Emitted(i)) = IF p \in AllPairs /\ p[1] = i THEN 1 ELSE 0
<1> DEFINE S == {<<i, k>> : k \in emits[i]}
<1>1. S \in SUBSET Pairs
  BY DEF Pairs
<1>2. \A p \in Pairs : p \in S <=> p \in AllPairs /\ p[1] = i
  BY DEF Pairs, AllPairs
<1> HIDE DEF S
<1> QED
  BY <1>1, <1>2, BagOfSet DEF Emitted, S, Bag

\* A finite set of numbers that is not empty has a smallest one.
LEMMA SmallestKey ==
    ASSUME NEW K \in SUBSET Int, IsFiniteSet(K), K # {}
    PROVE  \E k \in K : \A j \in K : k <= j
<1> DEFINE Good(s) == \E k \in s : \A j \in s : k <= j
           T == {s \in SUBSET K : s # {} /\ ~Good(s)}
<1>1. T \in SUBSET FiniteSubsetsOf(K)
  BY FS_Subset DEF FiniteSubsetsOf
<1>2. SUFFICES ASSUME K \in T PROVE FALSE
  OBVIOUS
<1>3. PICK s \in T : \A u \in T : u \subseteq s => u = s
  <2> HIDE DEF T
  <2> QED
    BY <1>1, <1>2, SmallestSet
<1>4. PICK x \in s : TRUE
  OBVIOUS
<1>5. s \ {x} \notin T
  BY <1>3, <1>4
<1>6. CASE s \ {x} = {}
  BY <1>4, <1>6
<1>7. CASE s \ {x} # {}
  <2>1. PICK k \in s \ {x} : \A j \in s \ {x} : k <= j
    BY <1>5, <1>7
  <2>2. s \subseteq Int
    OBVIOUS
  <2>3. Good(s)
    BY <1>4, <2>1, <2>2
  <2> QED
    BY <2>3
<1> QED
  BY <1>6, <1>7

\* The key of the pair on top of the heap.
LEMMA MinKeyIs ==
    ASSUME NEW bag \in Bag, BagToSet(bag) # {}
    PROVE  /\ MinKey(bag) \in Keys
           /\ \E p \in BagToSet(bag) : p \in Pairs /\ p[2] = MinKey(bag)
           /\ \A p \in BagToSet(bag) : MinKey(bag) <= p[2]
<1> DEFINE S == BagToSet(bag)
           K == {p[2] : p \in S}
<1>1. S \in SUBSET Pairs /\ S # {}
  BY BagFacts DEF Bag
<1>2. K \in SUBSET Int /\ K # {} /\ K \subseteq Keys
  BY <1>1, KeysAssumption DEF Pairs
<1>3. IsFiniteSet(K)
  BY <1>2, KeysAssumption, FS_Subset
<1>4. \E k \in K : \A j \in K : k <= j
  <2> HIDE DEF K
  <2> QED
    BY <1>2, <1>3, SmallestKey
<1>5. \E k \in Keys : (\E p \in S : p[2] = k) /\ (\A p \in S : k <= p[2])
  BY <1>2, <1>4
<1> QED
  BY <1>1, <1>5 DEF MinKey

-----------------------------------------------------------------------------
(* The types of the data, and what is empty.                               *)

\* A step of a thread moves no other thread, and no thread that is done.
LEMMA StepFrame ==
    ASSUME JobInv, NEW t \in Threads, ThreadStep(t)
    PROVE  /\ status = "up" /\ pc[t] \notin {"new", "done"}
           /\ \A u \in Threads \ {t} : pc'[u] = pc[u]
           /\ UNCHANGED client_vars
<1> USE DEF At, Goto, JobInv, StageInv, client_vars
<1>1. \A u \in Threads \ {t} : pc'[u] = pc[u]
  BY DEF ThreadStep, SetMap, MapTest, MapLock, MapCheck, MapClaim, MapCall, Sort, ArriveMapped,
     LeaveMapped, ShuffleStart, ShuffleTop, ShufflePop, ShuffleNextKey, ShuffleEnd, ArriveShuffled,
     LeaveShuffled, ReduceEnter, ReduceTest, ReduceWait, ReduceCheck, ReduceLock, ReduceTake,
     ReduceCall, ReduceCount, ReduceExit
<1>2. status = "up" /\ pc[t] \notin {"new", "done"}
  BY DEF ThreadStep, SetMap, MapTest, MapLock, MapCheck, MapClaim, MapCall, Sort, ArriveMapped,
     LeaveMapped, ShuffleStart, ShuffleTop, ShufflePop, ShuffleNextKey, ShuffleEnd, ArriveShuffled,
     LeaveShuffled, ReduceEnter, ReduceTest, ReduceWait, ReduceCheck, ReduceLock, ReduceTake,
     ReduceCall, ReduceCount, ReduceExit
<1>3. UNCHANGED client_vars
  BY DEF ThreadStep, SetMap, MapTest, MapLock, MapCheck, MapClaim, MapCall, Sort, ArriveMapped,
     LeaveMapped, ShuffleStart, ShuffleTop, ShufflePop, ShuffleNextKey, ShuffleEnd, ArriveShuffled,
     LeaveShuffled, ReduceEnter, ReduceTest, ReduceWait, ReduceCheck, ReduceLock, ReduceTake,
     ReduceCall, ReduceCount, ReduceExit, earlier_vars
<1> QED
  BY <1>1, <1>2, <1>3

\* The data that the steps of the map loop leave alone.
pair_vars == <<intermediate, vector_of_vectors, all_pairs, saving, element, output>>

\* Steps that touch no pair.
QuietStep(t) ==
    \/ MapTest(t) \/ MapLock(t) \/ MapCheck(t) \/ MapClaim(t)
    \/ ArriveMapped(t) \/ LeaveMapped(t) \/ ArriveShuffled(t) \/ LeaveShuffled(t)
    \/ ShuffleEnd(t) \/ ReduceEnter(t) \/ ReduceTest(t) \/ ReduceWait(t) \/ ReduceCheck(t)
    \/ ReduceLock(t) \/ ReduceExit(t)

\* Steps that touch no pair leave every place as it is.
LEMMA QuietFrame ==
    ASSUME NEW t \in Threads, QuietStep(t)
    PROVE  UNCHANGED <<pair_vars, num_of_pairs, last_key>>
<1> USE DEF QuietStep, pair_vars, map_vars, shuffle_vars, reduce_vars, later_vars, earlier_vars,
            data_vars
<1> QED
  BY DEF MapTest, MapLock, MapCheck, MapClaim, ArriveMapped, LeaveMapped, ArriveShuffled,
     LeaveShuffled, ShuffleEnd, ReduceEnter, ReduceTest, ReduceWait, ReduceCheck, ReduceLock,
     ReduceExit

\* A quiet step is not at a place where a thread has a vector or a group to move.
LEMMA QuietPlaces ==
    ASSUME JobInv, NEW t \in Threads, QuietStep(t)
    PROVE  /\ pc'[t] \notin {"new", "set_map", "reduce_call", "reduce_count"}
           /\ pc[t] \notin {"new", "set_map", "sort", "reduce_call", "reduce_count"}
           /\ pc[t] \notin LoopPcs <=> pc'[t] \notin LoopPcs
<1> USE DEF At, Goto, JobInv, StageInv, MapPcs, LoopPcs
<1> QED
  BY DEF QuietStep, MapTest, MapLock, MapCheck, MapClaim, ArriveMapped, LeaveMapped, ArriveShuffled,
     LeaveShuffled, ShuffleEnd, ReduceEnter, ReduceTest, ReduceWait, ReduceCheck, ReduceLock,
     ReduceExit

\* A step of a thread preserves DataType.
LEMMA DataTypeThread ==
    ASSUME JobInv, DataType, NEW t \in Threads, ThreadStep(t)
    PROVE  DataType'
<1> USE DEF At, Goto, DataType
<1>1. emits' \in [Inputs -> SUBSET Keys]
  BY StepFrame DEF client_vars
<1>2. CASE QuietStep(t)
  <2>1. UNCHANGED <<pair_vars, num_of_pairs>>
    BY <1>2, QuietFrame
  <2>2. index' \in [Threads -> Inputs]
    <3>1. CASE MapClaim(t)
      <4>1. pc[t] = "map_claim" /\ index' = [index EXCEPT ![t] = progress.done]
        BY <3>1 DEF MapClaim
      <4>2. progress.done \in 0 .. NumInputs /\ progress.done < NumInputs
        BY <4>1, WhileMapping DEF JobInv, ClaimInv, Before1, MapPcs
      <4>3. progress.done \in Inputs
        BY <4>2, NumInputsAssumption DEF Inputs
      <4> QED
        BY <4>1, <4>3
    <3>2. CASE ~MapClaim(t)
      <4>1. UNCHANGED index
        BY <1>2, <3>2 DEF QuietStep, MapTest, MapLock, MapCheck, ArriveMapped, LeaveMapped,
           ArriveShuffled, LeaveShuffled, ShuffleEnd, ReduceEnter, ReduceTest, ReduceWait,
           ReduceCheck, ReduceLock, ReduceExit, map_vars, earlier_vars, data_vars
      <4> QED
        BY <4>1
    <3> QED
      BY <3>1, <3>2
  <2> QED
    BY <1>1, <2>1, <2>2 DEF pair_vars
<1>3. CASE SetMap(t)
  <2>1. /\ intermediate' = [intermediate EXCEPT ![t] = <<>>]
        /\ UNCHANGED <<vector_of_vectors, all_pairs, saving, element, output, index, num_of_pairs>>
    BY <1>3 DEF SetMap, later_vars, shuffle_vars, reduce_vars
  <2>2. intermediate' \in [Threads -> Seq(Bag)]
    BY <2>1, CollectedNothing
  <2> QED
    BY <1>1, <2>1, <2>2
<1>4. CASE MapCall(t)
  <2>1. UNCHANGED <<vector_of_vectors, all_pairs, saving, element, output, index, num_of_pairs>>
    BY <1>4 DEF MapCall, later_vars, shuffle_vars, reduce_vars
  <2>2. Emitted(index[t]) \in Bag
    BY EmittedIs
  <2>3. intermediate' = [intermediate EXCEPT ![t] = Append(@, Emitted(index[t]))]
    BY <1>4 DEF MapCall
  <2>4. Append(intermediate[t], Emitted(index[t])) \in Seq(Bag)
    BY <2>2
  <2>5. intermediate' \in [Threads -> Seq(Bag)]
    BY <2>3, <2>4
  <2> QED
    BY <1>1, <2>1, <2>5
<1>5. CASE Sort(t)
  <2>1. UNCHANGED <<all_pairs, saving, element, output, index, num_of_pairs>>
    BY <1>5 DEF Sort, shuffle_vars, reduce_vars
  <2>2. CASE intermediate[t] = <<>>
    BY <1>1, <1>5, <2>1, <2>2 DEF Sort
  <2>3. CASE intermediate[t] # <<>>
    <3>1. /\ vector_of_vectors' = Append(vector_of_vectors, Head(intermediate[t]))
          /\ intermediate' = [intermediate EXCEPT ![t] = Tail(@)]
      BY <1>5, <2>3 DEF Sort
    <3>2. Head(intermediate[t]) \in Bag /\ Tail(intermediate[t]) \in Seq(Bag)
      BY <2>3
    <3>3. vector_of_vectors' \in Seq(Bag) /\ intermediate' \in [Threads -> Seq(Bag)]
      BY <3>1, <3>2
    <3> QED
      BY <1>1, <2>1, <3>3
  <2> QED
    BY <2>2, <2>3
<1>6. CASE ShuffleStart(t)
  <2>1. /\ all_pairs' = Collected(vector_of_vectors) /\ vector_of_vectors' = <<>>
        /\ UNCHANGED saving
        /\ num_of_pairs' = num_of_pairs + BagCardinality(Collected(vector_of_vectors))
        /\ UNCHANGED <<intermediate, element, output, index>>
    BY <1>6 DEF ShuffleStart, map_vars, reduce_vars
  <2>2. all_pairs' \in Bag /\ saving' \in Bag /\ vector_of_vectors' \in Seq(Bag)
    BY <2>1, CollectedIs, CollectedNothing, BagOfNothing DEF Bag
  <2>3. BagCardinality(Collected(vector_of_vectors)) \in Nat
    BY <2>1, <2>2, BagCardinalities, PairsFinite DEF Bag
  <2> QED
    BY <1>1, <2>1, <2>2, <2>3
<1>7. CASE ShufflePop(t)
  <2>1. PICK p \in BagToSet(all_pairs) :
          /\ all_pairs' = all_pairs (-) SetToBag({p})
          /\ IF BagToSet(all_pairs') = {}
               THEN Flush(saving (+) SetToBag({p}))
               ELSE saving' = saving (+) SetToBag({p}) /\ UNCHANGED vector_of_vectors
    BY <1>7 DEF ShufflePop
  <2>2. p \in DOMAIN all_pairs /\ {p} \in SUBSET Pairs
    BY BagFacts DEF Bag
  <2>3. all_pairs' \in Bag /\ saving (+) SetToBag({p}) \in Bag
    <3>1. SetToBag({p}) \in Bag
      BY <2>2, BagOfSet DEF Bag
    <3>2. saving (+) SetToBag({p}) \in Bag
      BY <3>1, BagSum DEF Bag
    <3>3. all_pairs (-) SetToBag({p}) \in Bag
      BY <2>2, BagLess DEF Bag
    <3> QED
      BY <2>1, <3>2, <3>3
  <2>4. saving' \in Bag /\ vector_of_vectors' \in Seq(Bag)
    <3>1. EmptyBag \in Bag
      BY BagOfNothing DEF Bag
    <3>2. CASE BagToSet(all_pairs') = {}
      <4>1. saving' = EmptyBag /\ vector_of_vectors' = Append(vector_of_vectors, saving (+) SetToBag({p}))
        BY <2>1, <3>2 DEF Flush
      <4> QED
        BY <2>3, <3>1, <4>1
    <3>3. CASE BagToSet(all_pairs') # {}
      BY <2>1, <2>3, <3>3
    <3> QED
      BY <3>2, <3>3
  <2>5. UNCHANGED <<intermediate, element, output, index, num_of_pairs>>
    BY <1>7 DEF ShufflePop, map_vars, reduce_vars
  <2> QED
    BY <1>1, <2>3, <2>4, <2>5
<1>8. CASE ShuffleNextKey(t)
  <2>1. /\ vector_of_vectors' = Append(vector_of_vectors, saving) /\ saving' = EmptyBag
        /\ UNCHANGED <<intermediate, element, output, index, num_of_pairs, all_pairs>>
    BY <1>8 DEF ShuffleNextKey, Flush, map_vars, reduce_vars
  <2> QED
    BY <1>1, <2>1, BagOfNothing DEF Bag
<1>9. CASE ReduceTake(t)
  <2>1. /\ vector_of_vectors # <<>>
        /\ element' = [element EXCEPT ![t] = Head(vector_of_vectors)]
        /\ vector_of_vectors' = Tail(vector_of_vectors)
        /\ UNCHANGED <<intermediate, all_pairs, saving, output, index, num_of_pairs>>
    BY <1>9 DEF ReduceTake, earlier_vars, map_vars, shuffle_vars, JobInv, TokenInv
  <2> QED
    BY <1>1, <2>1
<1>10. CASE ReduceCall(t)
  <2>1. /\ output' = Append(output, element[t])
        /\ UNCHANGED <<intermediate, all_pairs, saving, element, vector_of_vectors, index,
                       num_of_pairs>>
    BY <1>10 DEF ReduceCall, earlier_vars, map_vars, shuffle_vars
  <2> QED
    BY <1>1, <2>1
<1>11. CASE ReduceCount(t)
  <2>1. /\ element' = [element EXCEPT ![t] = EmptyBag]
        /\ UNCHANGED <<intermediate, all_pairs, saving, output, vector_of_vectors, index,
                       num_of_pairs>>
    BY <1>11 DEF ReduceCount, earlier_vars, map_vars, shuffle_vars
  <2> QED
    BY <1>1, <2>1, BagOfNothing DEF Bag
<1>12. CASE ShuffleTop(t)
  BY <1>1, <1>12, BagOfNothing DEF ShuffleTop, map_vars, reduce_vars, Bag
<1> QED
  BY <1>2, <1>3, <1>4, <1>5, <1>6, <1>7, <1>8, <1>9, <1>10, <1>11, <1>12 DEF ThreadStep, QuietStep

\* While thread 0 reads the top of the heap and empties it.
LEMMA InShuffleStage ==
    ASSUME JobInv, NEW t \in Threads, pc[t] \in {"shuffle_top", "shuffle_loop"}
    PROVE  /\ t = MainTId /\ progress.stage = SHUFFLE_STAGE
           /\ SHUFFLE_STAGE \in set_flags /\ REDUCE_STAGE \notin set_flags
           /\ ~finished_shuffle
           /\ TopPending <=> pc[t] = "shuffle_top"
<1>1. t \in Shuffling
  BY DEF Shuffling, Before2
<1>2. t = MainTId /\ REDUCE_STAGE \notin set_flags
  BY <1>1 DEF JobInv, StageInv
<1>3. SHUFFLE_STAGE \in set_flags
  BY <1>2 DEF JobInv, StageInv, Before1, MapPcs
<1>4. ~finished_shuffle
  BY <1>2 DEF JobInv, StageInv
<1>5. TopPending <=> pc[t] = "shuffle_top"
  BY DEF TopPending, JobInv, StageInv
<1> QED
  BY <1>2, <1>3, <1>4, <1>5 DEF JobInv, StageInv

\* The heap is filled by ShuffleStart, and its top is read by ShuffleTop.
LEMMA TopKept ==
    ASSUME JobInv, NEW t \in Threads, ThreadStep(t), ~ShuffleStart(t), ~ShuffleTop(t)
    PROVE  TopPending' <=> TopPending
<1> USE DEF At, Goto, JobInv, StageInv
<1>1. pc[t] # "shuffle_top" /\ pc'[t] # "shuffle_top"
  <2>1. CASE QuietStep(t)
    BY <2>1 DEF QuietStep, MapTest, MapLock, MapCheck, MapClaim, ArriveMapped, LeaveMapped,
       ArriveShuffled, LeaveShuffled, ShuffleEnd, ReduceEnter, ReduceTest, ReduceWait, ReduceCheck,
       ReduceLock, ReduceExit
  <2>2. CASE ~QuietStep(t)
    BY <2>2 DEF ThreadStep, QuietStep, SetMap, MapCall, Sort, ShufflePop, ShuffleNextKey,
       ReduceTake, ReduceCall, ReduceCount
  <2> QED
    BY <2>1, <2>2
<1>2. \A u \in Threads \ {t} : pc'[u] = pc[u]
  BY StepFrame
<1> QED
  BY <1>1, <1>2 DEF TopPending

\* A step of a thread preserves FlowInv.
LEMMA FlowThread ==
    ASSUME JobInv, DataType, FlowInv, NEW t \in Threads, ThreadStep(t)
    PROVE  FlowInv'
<1> USE DEF At, Goto, FlowInv, counter_vars, SetAtomic, StageInv
<1> USE DEF UNDEFINED_STAGE, MAP_STAGE, SHUFFLE_STAGE, REDUCE_STAGE
<1> USE DEF MapPcs, LoopPcs
<1>0. StageInv /\ TokenInv /\ ClaimInv
  BY DEF JobInv
<1>1. CASE SetMap(t)
  BY <1>0, <1>1 DEF SetMap, later_vars, shuffle_vars, reduce_vars, DataType
<1>2. CASE MapTest(t)
  BY <1>0, <1>2 DEF MapTest, data_vars, later_vars, map_vars, shuffle_vars, reduce_vars, DataType
<1>3. CASE MapLock(t)
  BY <1>0, <1>3 DEF MapLock, Lock, later_vars, shuffle_vars, reduce_vars, DataType
<1>4. CASE MapCheck(t)
  <2>1. progress.done \in 0 .. NumInputs
    BY <1>4, WhileMapping DEF MapCheck, JobInv, ClaimInv, Before1
  <2>2. NothingLeft => progress.done = NumInputs
    BY <2>1, NumInputsAssumption DEF NothingLeft
  <2>3. /\ pc[t] = "map_check" /\ pc'[t] \in {"sort", "map_claim"}
        /\ pc'[t] = "sort" => NothingLeft /\ done_map'
        /\ done_map => done_map'
        /\ done_map' => done_map \/ NothingLeft
        /\ UNCHANGED <<pair_vars, counter_vars, num_of_pairs, finished_shuffle>>
    <3>1. UNCHANGED <<pair_vars, counter_vars, num_of_pairs, finished_shuffle>>
      BY <1>4 DEF MapCheck, later_vars, shuffle_vars, reduce_vars, pair_vars
    <3>2. CASE NothingLeft
      BY <1>0, <1>4, <3>1, <3>2 DEF MapCheck
    <3>3. CASE ~NothingLeft
      <4>1. pc[t] = "map_check" /\ pc' = [pc EXCEPT ![t] = "map_claim"] /\ done_map' = done_map
        BY <1>4, <3>3 DEF MapCheck
      <4> QED
        BY <1>0, <3>1, <4>1
    <3> QED
      BY <3>2, <3>3
  <2> QED
    BY <1>0, <2>2, <2>3, StepFrame DEF pair_vars, DataType
<1>5. CASE MapClaim(t)
  <2>1. progress.done < NumInputs /\ progress.stage = MAP_STAGE
    BY <1>5, WhileMapping DEF MapClaim, JobInv, ClaimInv, Before1
  <2>2. ~done_map
    BY <2>1, NumInputsAssumption
  <2> QED
    BY <1>0, <1>5, <2>2 DEF MapClaim, later_vars, shuffle_vars, reduce_vars, DataType
<1>6. CASE MapCall(t)
  BY <1>0, <1>6 DEF MapCall, later_vars, shuffle_vars, reduce_vars, DataType
<1>7. CASE Sort(t)
  BY <1>0, <1>7 DEF Sort, shuffle_vars, reduce_vars, DataType
<1>8. CASE ArriveMapped(t)
  BY <1>0, <1>8 DEF ArriveMapped, map_vars, shuffle_vars, reduce_vars, DataType
<1>9. CASE LeaveMapped(t)
  <2>1. /\ pc[t] = "barrier_wait" /\ pc'[t] \in {"shuffle", "barrier_reduce"}
        /\ pc' = [pc EXCEPT ![t] = pc'[t]]
        /\ UNCHANGED <<pair_vars, counter_vars, num_of_pairs, finished_shuffle, done_map>>
    BY <1>0, <1>9 DEF LeaveMapped, data_vars, later_vars, map_vars, shuffle_vars, reduce_vars,
       pair_vars
  <2> QED
    BY <1>0, <2>1 DEF pair_vars, DataType
<1>10. CASE ShuffleStart(t)
  <2>1. /\ pc[t] = "shuffle" /\ pc' = [pc EXCEPT ![t] = "shuffle_top"] /\ saving' = EmptyBag
        /\ SHUFFLE_STAGE \in set_flags'
        /\ set_flags' = set_flags \union {SHUFFLE_STAGE} /\ progress'.stage = SHUFFLE_STAGE
        /\ UNCHANGED <<intermediate, element, output, done_map, finished_shuffle>>
    <3>1. SHUFFLE_STAGE \notin set_flags
      BY <1>0, <1>10 DEF ShuffleStart, Before1
    <3>2. saving = EmptyBag
      BY <3>1
    <3> QED
      BY <1>0, <1>10, <3>1, <3>2 DEF ShuffleStart, map_vars, reduce_vars
  <2>2. ~finished_shuffle
    BY <1>0, <2>1, ThreadNumbers
  <2>4. \A u \in Threads :
          /\ pc'[u] \notin LoopPcs => intermediate[u] = <<>>
          /\ pc'[u] \notin (LoopPcs \ {"sort"}) \union {"new", "set_map"} => done_map
          /\ pc'[u] \notin {"reduce_call", "reduce_count"} => element[u] = EmptyBag
    BY <1>0, <2>1
  <2>5. /\ done_map => MAP_STAGE \in set_flags'
        /\ done_map /\ progress'.stage = MAP_STAGE => progress'.done = NumInputs
    BY <2>1
  <2>6. REDUCE_STAGE \notin set_flags' => output = <<>>
    BY <2>1
  <2> QED
    BY <2>1, <2>2, <2>4, <2>5, <2>6
<1>11. CASE ShufflePop(t)
  <2>1. /\ pc[t] = "shuffle_loop" /\ progress'.stage = progress.stage
        /\ UNCHANGED <<pc, set_flags, intermediate, element, output, num_of_pairs, finished_shuffle,
                       done_map>>
    BY <1>0, <1>11 DEF ShufflePop, map_vars, reduce_vars
  <2>2. BagToSet(all_pairs') = {} => saving' = EmptyBag
    BY <1>11 DEF ShufflePop, Flush
  <2>3. BagToSet(EmptyBag) = {}
    BY DEF BagToSet, EmptyBag, SetToBag
  <2>4. progress.stage = SHUFFLE_STAGE /\ SHUFFLE_STAGE \in set_flags /\ ~finished_shuffle
    BY <2>1, InShuffleStage
  <2> QED
    BY <2>1, <2>2, <2>3, <2>4
<1>12. CASE ShuffleNextKey(t)
  BY <1>0, <1>12 DEF ShuffleNextKey, map_vars, reduce_vars, DataType, Flush
<1>13. CASE ShuffleEnd(t)
  BY <1>0, <1>13, BagOfNothing DEF ShuffleEnd, map_vars, reduce_vars, DataType, Bag
<1>14. CASE ArriveShuffled(t)
  BY <1>0, <1>14 DEF ArriveShuffled, map_vars, shuffle_vars, reduce_vars, DataType
<1>15. CASE LeaveShuffled(t)
  <2>1. /\ pc[t] = "barrier_reduce_wait" /\ pc' = [pc EXCEPT ![t] = "reduce"]
        /\ UNCHANGED <<pair_vars, counter_vars, num_of_pairs, finished_shuffle, done_map>>
    BY <1>0, <1>15 DEF LeaveShuffled, data_vars, later_vars, map_vars, shuffle_vars, reduce_vars,
       pair_vars
  <2> QED
    BY <1>0, <2>1 DEF pair_vars, DataType
<1>16. CASE ReduceEnter(t)
  <2>1. /\ pc[t] = "reduce" /\ pc'[t] \in {"reduce_test", "done"}
        /\ progress' = progress \/ progress'.stage = REDUCE_STAGE
        /\ set_flags \subseteq set_flags' /\ set_flags' \subseteq set_flags \union {REDUCE_STAGE}
        /\ UNCHANGED <<pair_vars, num_of_pairs, finished_shuffle, done_map>>
    BY <1>0, <1>16 DEF ReduceEnter, later_vars, map_vars, shuffle_vars, reduce_vars, pair_vars
  <2>2. UNCHANGED <<intermediate, element, all_pairs, saving, output>>
    BY <2>1 DEF pair_vars
  <2>3. \A u \in Threads \ {t} : pc'[u] = pc[u]
    BY StepFrame
  <2>4. \A u \in Threads :
          /\ pc'[u] \notin LoopPcs => intermediate[u] = <<>>
          /\ pc'[u] \notin (LoopPcs \ {"sort"}) \union {"new", "set_map"} => done_map
          /\ pc'[u] \notin {"reduce_call", "reduce_count"} => element[u] = EmptyBag
    BY <2>1, <2>3
  <2>5. /\ done_map => MAP_STAGE \in set_flags'
        /\ done_map /\ progress'.stage = MAP_STAGE => progress'.done = NumInputs
    BY <2>1
  <2> QED
    BY <2>1, <2>2, <2>4, <2>5
<1>17. CASE ReduceTest(t)
  BY <1>0, <1>17 DEF ReduceTest, data_vars, later_vars, map_vars, shuffle_vars, reduce_vars, DataType
<1>18. CASE ReduceWait(t)
  BY <1>0, <1>18 DEF ReduceWait, earlier_vars, map_vars, shuffle_vars, reduce_vars, DataType
<1>19. CASE ReduceCheck(t)
  BY <1>0, <1>19 DEF ReduceCheck, data_vars, later_vars, map_vars, shuffle_vars, reduce_vars, DataType
<1>20. CASE ReduceLock(t)
  BY <1>0, <1>20 DEF ReduceLock, Lock, earlier_vars, map_vars, shuffle_vars, DataType
<1>21. CASE ReduceTake(t)
  BY <1>0, <1>21 DEF ReduceTake, earlier_vars, map_vars, shuffle_vars, DataType, TokenInv
<1>22. CASE ReduceCall(t)
  <2>1. /\ pc[t] = "reduce_call" /\ pc' = [pc EXCEPT ![t] = "reduce_count"]
        /\ UNCHANGED <<intermediate, all_pairs, saving, element, num_of_pairs, counter_vars,
                       finished_shuffle, done_map>>
    BY <1>22 DEF ReduceCall, earlier_vars, map_vars, shuffle_vars
  <2>2. REDUCE_STAGE \in set_flags
    BY <1>0, <2>1 DEF ReducePcs
  <2> QED
    BY <1>0, <2>1, <2>2 DEF DataType
<1>23. CASE ReduceCount(t)
  <2>1. /\ pc[t] = "reduce_count" /\ pc' = [pc EXCEPT ![t] = "reduce_test"]
        /\ element' = [element EXCEPT ![t] = EmptyBag] /\ progress'.stage = progress.stage
        /\ UNCHANGED <<intermediate, all_pairs, saving, output, num_of_pairs, set_flags,
                       finished_shuffle, done_map>>
    BY <1>0, <1>23 DEF ReduceCount, earlier_vars, map_vars, shuffle_vars
  <2>2. progress.stage = REDUCE_STAGE
    BY <1>0, <2>1 DEF ReducePcs
  <2> QED
    BY <1>0, <2>1, <2>2 DEF DataType
<1>24. CASE ReduceExit(t)
  BY <1>0, <1>24 DEF ReduceExit, Increase, earlier_vars, map_vars, shuffle_vars, reduce_vars, DataType
<1>25. CASE ShuffleTop(t)
  <2>1. /\ pc[t] = "shuffle_top" /\ pc' = [pc EXCEPT ![t] = "shuffle_loop"] /\ saving' = EmptyBag
        /\ UNCHANGED <<intermediate, element, output, all_pairs, num_of_pairs, counter_vars, done_map,
                       finished_shuffle>>
    BY <1>25 DEF ShuffleTop, map_vars, reduce_vars
  <2> QED
    BY <1>0, <2>1 DEF DataType
<1> QED
  BY <1>1, <1>2, <1>3, <1>4, <1>5, <1>6, <1>7, <1>8, <1>9, <1>10, <1>11, <1>12, <1>13,
     <1>14, <1>15, <1>16, <1>17, <1>18, <1>19, <1>20, <1>21, <1>22, <1>23,
     <1>24, <1>25 DEF ThreadStep

-----------------------------------------------------------------------------
(* The inputs that have been mapped.                                       *)

\* The inputs that have been claimed, and those in the hands of a thread.
Claimed ==
    CASE progress.stage = UNDEFINED_STAGE -> {}
      [] progress.stage = MAP_STAGE -> 0 .. progress.done - 1
      [] OTHER -> Inputs
InMap == {index[t] : t \in {u \in Threads : pc[u] = "map_call"}}

\* What has been mapped has been claimed and is in no thread's hands.
LEMMA MappedIs == Mapped = Claimed \ InMap
BY DEF Mapped, Claimed, InMap

\* A step of a thread that is not in map leaves the inputs in map as they are.
LEMMA InMapKept ==
    ASSUME NEW t \in Threads, pc[t] # "map_call", pc'[t] # "map_call",
           \A u \in Threads \ {t} : pc'[u] = pc[u] /\ index'[u] = index[u]
    PROVE  InMap' = InMap
BY DEF InMap

\* Only the return of a call of map makes an input mapped.
LEMMA MappedKept ==
    ASSUME JobInv, DataType, FlowInv, NEW t \in Threads, ThreadStep(t), ~MapCall(t)
    PROVE  Mapped' = Mapped
<1> USE DEF At, Goto, counter_vars, SetAtomic
<1> USE DEF UNDEFINED_STAGE, MAP_STAGE, SHUFFLE_STAGE, REDUCE_STAGE
<1>0. StageInv /\ StageInv' /\ \A u \in Threads \ {t} : pc'[u] = pc[u]
  BY StageThread, StepFrame DEF JobInv
<1>1. CASE MapClaim(t)
  <2>1. /\ pc[t] = "map_claim" /\ pc' = [pc EXCEPT ![t] = "map_call"]
        /\ index' = [index EXCEPT ![t] = progress.done]
        /\ progress' = [progress EXCEPT !.done = @ + 1]
    BY <1>1 DEF MapClaim
  <2>2. /\ progress.done \in 0 .. NumInputs /\ progress.stage = MAP_STAGE
        /\ progress = [stage |-> progress.stage, todo |-> progress.todo, done |-> progress.done]
    BY <1>0, <2>1, WhileMapping DEF JobInv, ClaimInv, StageInv, Before1, MapPcs
  <2>3. pc' [t] = "map_call" /\ index'[t] = progress.done
    BY <1>0, <2>1 DEF DataType, StageInv
  <2>4. InMap' = InMap \union {progress.done}
    BY <1>0, <2>1, <2>3 DEF InMap, DataType
  <2>5. progress'.stage = MAP_STAGE /\ progress'.done = progress.done + 1
    BY <2>1, <2>2
  <2>6. Claimed = 0 .. progress.done - 1
    BY <2>2 DEF Claimed
  <2>7. Claimed' = 0 .. progress.done
    BY <2>2, <2>5 DEF Claimed
  <2>8. 0 .. progress.done = (0 .. progress.done - 1) \union {progress.done}
        /\ progress.done \notin 0 .. progress.done - 1
    BY <2>2, NumInputsAssumption
  <2>9. (Claimed \ InMap)' = Claimed \ InMap
    BY <2>4, <2>6, <2>7, <2>8
  <2> QED
    BY <2>9, MappedIs DEF Mapped, Claimed, InMap
<1>2. CASE ~MapClaim(t)
  <2>1. pc[t] # "map_call" /\ pc'[t] # "map_call" /\ UNCHANGED index
    <3>1. CASE QuietStep(t)
      <4>1. pc[t] # "map_call" /\ pc'[t] # "map_call"
        BY <1>0, <1>2, <3>1 DEF QuietStep, MapTest, MapLock, MapCheck, ArriveMapped, LeaveMapped,
           ArriveShuffled, LeaveShuffled, ShuffleEnd, ReduceEnter, ReduceTest, ReduceWait,
           ReduceCheck, ReduceLock, ReduceExit, StageInv
      <4>2. UNCHANGED index
        BY <1>2, <3>1 DEF QuietStep, MapTest, MapLock, MapCheck, ArriveMapped, LeaveMapped,
           ArriveShuffled, LeaveShuffled, ShuffleEnd, ReduceEnter, ReduceTest, ReduceWait,
           ReduceCheck, ReduceLock, ReduceExit, map_vars, earlier_vars, data_vars
      <4> QED
        BY <4>1, <4>2
    <3>2. CASE ~QuietStep(t)
      <4>1. \/ SetMap(t) \/ Sort(t) \/ ShuffleStart(t) \/ ShuffleTop(t) \/ ShufflePop(t)
            \/ ShuffleNextKey(t) \/ ReduceTake(t) \/ ReduceCall(t) \/ ReduceCount(t)
        BY <3>2 DEF ThreadStep, QuietStep
      <4>2. pc[t] # "map_call" /\ pc'[t] # "map_call"
        BY <1>0, <4>1 DEF SetMap, Sort, ShuffleStart, ShuffleTop, ShufflePop, ShuffleNextKey, ReduceTake,
           ReduceCall, ReduceCount, StageInv
      <4>3. UNCHANGED index
        BY <4>1 DEF SetMap, Sort, ShuffleStart, ShuffleTop, ShufflePop, ShuffleNextKey, ReduceTake,
           ReduceCall, ReduceCount, map_vars, earlier_vars
      <4> QED
        BY <4>2, <4>3
    <3> QED
      BY <3>1, <3>2
  <2>2. InMap' = InMap
    BY <1>0, <2>1, InMapKept
  <2>3. Claimed' = Claimed
    <3>1. CASE SetMap(t)
      <4>1. CASE MAP_STAGE \in set_flags
        BY <3>1, <4>1 DEF SetMap, later_vars, Claimed
      <4>2. CASE MAP_STAGE \notin set_flags
        <5>1. progress' = [stage |-> MAP_STAGE, todo |-> NumInputs, done |-> 0]
          BY <3>1, <4>2 DEF SetMap
        <5>2. progress.stage = UNDEFINED_STAGE
          BY <1>0, <3>1, <4>2, WhileMapping DEF SetMap, StageInv, Before1, MapPcs
        <5>3. Claimed = {} /\ Claimed' = 0 .. 0 - 1
          BY <5>1, <5>2 DEF Claimed
        <5> QED
          BY <5>3
      <4> QED
        BY <4>1, <4>2
    <3>2. CASE ShuffleStart(t)
      <4>1. pc[t] = "shuffle" /\ pc[t] \notin Before1 \union {"barrier_wait"}
        BY <3>2 DEF ShuffleStart, Before1, MapPcs
      <4>2. SHUFFLE_STAGE \notin set_flags /\ REDUCE_STAGE \notin set_flags /\ MAP_STAGE \in set_flags
        BY <1>0, <4>1 DEF StageInv, Shuffling, Before2, Before1
      <4>3. progress'.stage = SHUFFLE_STAGE /\ progress.stage = MAP_STAGE
        BY <1>0, <3>2, <4>2 DEF ShuffleStart, StageInv
      <4>4. progress.done = NumInputs
        BY <4>1, <4>3 DEF FlowInv, LoopPcs, MapPcs
      <4>5. Claimed = 0 .. NumInputs - 1 /\ Claimed' = Inputs
        BY <4>3, <4>4 DEF Claimed
      <4> QED
        BY <4>5 DEF Inputs
    <3>3. CASE ShufflePop(t) \/ ReduceCount(t)
      <4>1. progress'.stage = progress.stage
        BY <1>0, <3>3 DEF ShufflePop, ReduceCount, StageInv
      <4>2. progress.stage \in {SHUFFLE_STAGE, REDUCE_STAGE}
        <5>1. CASE ShufflePop(t)
          BY <5>1, InShuffleStage DEF ShufflePop
        <5>2. CASE ReduceCount(t)
          BY <1>0, <5>2 DEF ReduceCount, StageInv, ReducePcs
        <5> QED
          BY <3>3, <5>1, <5>2
      <4> QED
        BY <4>1, <4>2 DEF Claimed
    <3>4. CASE ReduceEnter(t)
      <4>1. SHUFFLE_STAGE \in set_flags
        BY <3>4, WhileReducing DEF ReduceEnter, Reducing, ReducePcs
      <4>2. progress.stage \in {SHUFFLE_STAGE, REDUCE_STAGE}
        BY <1>0, <4>1 DEF StageInv
      <4>3. progress' = progress \/ progress'.stage = REDUCE_STAGE
        BY <3>4 DEF ReduceEnter
      <4> QED
        BY <4>2, <4>3 DEF Claimed
    <3>5. CASE ~(SetMap(t) \/ ShuffleStart(t) \/ ShufflePop(t) \/ ReduceCount(t) \/ ReduceEnter(t))
      <4>1. UNCHANGED progress
        BY <1>2, <3>5 DEF ThreadStep, ShuffleTop, MapTest, MapLock, MapCheck, Sort, ArriveMapped, LeaveMapped,
           ArriveShuffled, LeaveShuffled, ShuffleNextKey, ShuffleEnd, ReduceTest, ReduceWait,
           ReduceCheck, ReduceLock, ReduceTake, ReduceCall, ReduceExit, data_vars
      <4> QED
        BY <4>1 DEF Claimed
    <3> QED
      BY <3>1, <3>2, <3>3, <3>4, <3>5
  <2> QED
    BY <2>2, <2>3 DEF Mapped, Claimed, InMap
<1> QED
  BY <1>1, <1>2

\* The return of a call of map.
LEMMA MappedGrows ==
    ASSUME JobInv, DataType, NEW t \in Threads, MapCall(t)
    PROVE  index[t] \in Inputs /\ index[t] \notin Mapped /\ Mapped' = Mapped \union {index[t]}
<1>1. /\ pc[t] = "map_call" /\ pc' = [pc EXCEPT ![t] = "map_test"] /\ UNCHANGED <<index, progress>>
  BY DEF MapCall, At, Goto, counter_vars
<1>2. /\ index[t] \in Inputs /\ index[t] \in 0 .. progress.done - 1 /\ progress.stage = MAP_STAGE
      /\ \A u \in Threads : pc[u] = "map_call" /\ index[u] = index[t] => u = t
  <2>1. /\ index[t] \in 0 .. progress.done - 1
        /\ \A u \in Threads : pc[u] = "map_call" /\ index[u] = index[t] => u = t
    BY <1>1 DEF JobInv, ClaimInv
  <2>2. progress.stage = MAP_STAGE
    BY <1>1, WhileMapping DEF JobInv, StageInv, Before1, MapPcs
  <2> QED
    BY <2>1, <2>2 DEF DataType
<1>3. pc'[t] = "map_test" /\ \A u \in Threads \ {t} : pc'[u] = pc[u]
  BY <1>1 DEF JobInv, StageInv
<1>4. index[t] \in InMap /\ InMap' = InMap \ {index[t]}
  BY <1>1, <1>2, <1>3 DEF InMap
<1>5. Claimed' = Claimed /\ index[t] \in Claimed
  BY <1>1, <1>2 DEF Claimed, MAP_STAGE, UNDEFINED_STAGE
<1>6. Mapped = Claimed \ InMap /\ Mapped' = Claimed' \ InMap'
  BY DEF Mapped, Claimed, InMap
<1> QED
  BY <1>2, <1>4, <1>5, <1>6


-----------------------------------------------------------------------------
(* The pairs: each step of a thread moves some from one place to another.  *)

\* What is in the hands of the threads changes by what the thread gets and puts down.
LEMMA HandsStep ==
    ASSUME JobInv, DataType, NEW t \in Threads, ThreadStep(t), NEW here
    PROVE  /\ Collected(Hands(pc, element, here)) \in Bag
           /\ Collected(Hands(pc', element', here)) \in Bag
           /\ \A p : Copies(p, Collected(Hands(pc', element', here)))
                        + Copies(p, InHand(pc, element, here, t))
                       = Copies(p, Collected(Hands(pc, element, here)))
                        + Copies(p, InHand(pc', element', here, t))
<1>1. /\ pc \in [Threads -> Pcs] /\ pc' \in [Threads -> Pcs]
      /\ element \in [Threads -> Bag] /\ element' \in [Threads -> Bag]
  BY StageThread, DataTypeThread DEF JobInv, StageInv, DataType
<1>2. \A u \in Threads \ {t} : pc'[u] = pc[u]
  BY StepFrame
<1>3. \A u \in Threads \ {t} : element'[u] = element[u]
  <2>1. CASE ReduceTake(t) \/ ReduceCount(t)
    BY <2>1, <1>1 DEF ReduceTake, ReduceCount
  <2>2. CASE ~(ReduceTake(t) \/ ReduceCount(t))
    <3>1. CASE QuietStep(t)
      BY <3>1, QuietFrame DEF pair_vars
    <3>2. CASE ~QuietStep(t)
      <4>1. UNCHANGED element
        BY <2>2, <3>2 DEF ThreadStep, QuietStep, SetMap, MapCall, Sort, ShuffleStart, ShuffleTop, ShufflePop,
           ShuffleNextKey, ReduceCall, later_vars, reduce_vars
      <4> QED
        BY <4>1
    <3> QED
      BY <3>1, <3>2
  <2> QED
    BY <2>1, <2>2
<1> QED
  BY <1>1, <1>2, <1>3, HandsUpdate

\* The copies of a pair are natural numbers.
LEMMA CopiesNat ==
    ASSUME NEW b \in Bag, NEW p
    PROVE  Copies(p, b) \in Nat
BY BagFacts DEF Bag

\* The bags between which the pairs move.
LEMMA PlaceBags ==
    ASSUME DataType, pc \in [Threads -> Pcs]
    PROVE  /\ HeldBy(intermediate) \in Bag /\ Collected(vector_of_vectors) \in Bag
           /\ all_pairs \in Bag /\ saving \in Bag
           /\ Collected(Hands(pc, element, "reduce_call")) \in Bag
           /\ Collected(Hands(pc, element, "reduce_count")) \in Bag
           /\ Collected(output) \in Bag
<1>1. HeldBy(intermediate) \in Bag
  BY HeldIs DEF DataType
<1>2. Collected(vector_of_vectors) \in Bag /\ Collected(output) \in Bag
  BY CollectedIs DEF DataType
<1>3. /\ Hands(pc, element, "reduce_call") \in Seq(Bag)
      /\ Hands(pc, element, "reduce_count") \in Seq(Bag)
  BY HandsIs DEF DataType
<1>4. /\ Collected(Hands(pc, element, "reduce_call")) \in Bag
      /\ Collected(Hands(pc, element, "reduce_count")) \in Bag
  BY <1>3, CollectedIs
<1> QED
  BY <1>1, <1>2, <1>4 DEF DataType

\* A step that touches no pair.
LEMMA PlaceKept ==
    ASSUME JobInv, DataType, NEW t \in Threads, ThreadStep(t), UNCHANGED pair_vars,
           pc[t] # "reduce_call", pc'[t] # "reduce_call", NEW p \in Pairs
    PROVE  Place(p)' = Place(p)
<1> DEFINE a == Collected(Hands(pc, element, "reduce_call"))
           b == Collected(Hands(pc', element', "reduce_call"))
<1>1. a \in Bag /\ b \in Bag
      /\ Copies(p, b) + Copies(p, InHand(pc, element, "reduce_call", t))
           = Copies(p, a) + Copies(p, InHand(pc', element', "reduce_call", t))
  BY HandsStep
<1>2. /\ InHand(pc, element, "reduce_call", t) = EmptyBag
      /\ InHand(pc', element', "reduce_call", t) = EmptyBag
  BY DEF InHand
<1>3. Copies(p, a) \in Nat /\ Copies(p, b) \in Nat /\ Copies(p, EmptyBag) = 0
  BY <1>1, CopiesNat, BagOfNothing
<1>4. Copies(p, b) = Copies(p, a)
  <2> HIDE DEF a, b
  <2> QED
    BY <1>1, <1>2, <1>3
<1> QED
  BY <1>4 DEF Place, pair_vars

\* The return of map adds the pairs of the input.
LEMMA PlaceMapCall ==
    ASSUME JobInv, DataType, NEW t \in Threads, MapCall(t), NEW p \in Pairs
    PROVE  Place(p)' = Place(p) + Copies(p, Emitted(index[t]))
<1>1. /\ index[t] \in Inputs /\ pc[t] = "map_call" /\ pc'[t] = "map_test"
      /\ intermediate' = [intermediate EXCEPT ![t] = Append(@, Emitted(index[t]))]
      /\ UNCHANGED <<vector_of_vectors, all_pairs, saving, element, output>>
  BY DEF MapCall, At, Goto, DataType, JobInv, StageInv, later_vars, shuffle_vars, reduce_vars
<1>a. ThreadStep(t)
  BY DEF ThreadStep
<1> DEFINE a == Collected(Hands(pc, element, "reduce_call"))
           b == Collected(Hands(pc', element', "reduce_call"))
           e == Emitted(index[t])
<1>2. a \in Bag /\ b \in Bag
      /\ Copies(p, b) + Copies(p, InHand(pc, element, "reduce_call", t))
           = Copies(p, a) + Copies(p, InHand(pc', element', "reduce_call", t))
  BY <1>a, HandsStep
<1>3. /\ InHand(pc, element, "reduce_call", t) = EmptyBag
      /\ InHand(pc', element', "reduce_call", t) = EmptyBag
  BY <1>1 DEF InHand
<1>4. Copies(p, a) \in Nat /\ Copies(p, b) \in Nat /\ Copies(p, EmptyBag) = 0
  BY <1>2, CopiesNat, BagOfNothing
<1>5. /\ intermediate \in [Threads -> Seq(Bag)] /\ intermediate' \in [Threads -> Seq(Bag)]
      /\ \A u \in Threads \ {t} : intermediate'[u] = intermediate[u]
      /\ intermediate'[t] = Append(intermediate[t], e)
      /\ e \in Bag
  BY <1>1, <1>a, DataTypeThread, EmittedIs DEF DataType
<1>6. /\ HeldBy(intermediate) \in Bag /\ HeldBy(intermediate') \in Bag
      /\ Copies(p, HeldBy(intermediate')) + Copies(p, Collected(intermediate[t]))
           = Copies(p, HeldBy(intermediate)) + Copies(p, Collected(intermediate'[t]))
  BY <1>5, HeldUpdate
<1>7. intermediate[t] \in Seq(Bag)
  BY <1>5
<1> HIDE DEF a, b, e
<1>8. /\ Collected(intermediate[t]) \in Bag
      /\ Copies(p, Collected(Append(intermediate[t], e)))
           = Copies(p, Collected(intermediate[t])) + Copies(p, e)
  BY <1>5, <1>7, CollectedSteps
<1>9. /\ Copies(p, Collected(intermediate[t])) \in Nat /\ Copies(p, e) \in Nat
      /\ Copies(p, HeldBy(intermediate)) \in Nat /\ Copies(p, HeldBy(intermediate')) \in Nat
  BY <1>5, <1>6, <1>8, CopiesNat
<1>10. Copies(p, HeldBy(intermediate')) = Copies(p, HeldBy(intermediate)) + Copies(p, e)
  <2>1. intermediate'[t] = Append(intermediate[t], e)
    BY <1>5
  <2>2. Copies(p, Collected(intermediate'[t])) = Copies(p, Collected(intermediate[t])) + Copies(p, e)
    BY <1>8, <2>1, Zenon
  <2> QED
    BY <1>6, <1>9, <2>2
<1>11. Copies(p, b) = Copies(p, a)
  BY <1>2, <1>3, <1>4
<1>12. /\ Copies(p, Collected(vector_of_vectors)) \in Nat /\ Copies(p, all_pairs) \in Nat
       /\ Copies(p, saving) \in Nat /\ Copies(p, Collected(output)) \in Nat
  BY CopiesNat, PlaceBags DEF DataType, JobInv, StageInv
<1>13. /\ Place(p) = Copies(p, HeldBy(intermediate)) + Copies(p, Collected(vector_of_vectors))
            + Copies(p, all_pairs) + Copies(p, saving) + Copies(p, a) + Copies(p, Collected(output))
       /\ Place(p)' = Copies(p, HeldBy(intermediate')) + Copies(p, Collected(vector_of_vectors))
            + Copies(p, all_pairs) + Copies(p, saving) + Copies(p, b) + Copies(p, Collected(output))
  BY <1>1 DEF Place, a, b
<1>14. Place(p)' = Place(p) + Copies(p, e)
  BY <1>4, <1>9, <1>10, <1>11, <1>12, <1>13
<1> QED
  BY <1>14 DEF e

\* A vector moves from a thread to vector_of_vectors.
LEMMA PlaceSort ==
    ASSUME JobInv, DataType, NEW t \in Threads, Sort(t), NEW p \in Pairs
    PROVE  Place(p)' = Place(p)
<1>a. ThreadStep(t)
  BY DEF ThreadStep
<1>b. pc[t] = "sort" /\ pc'[t] \in {"sort", "barrier"}
      /\ UNCHANGED <<all_pairs, saving, element, output>>
  BY DEF Sort, At, Goto, JobInv, StageInv, shuffle_vars, reduce_vars
<1>1. CASE intermediate[t] = <<>>
  <2>1. UNCHANGED pair_vars
    BY <1>1, <1>b DEF Sort, pair_vars
  <2> QED
    BY <1>a, <1>b, <2>1, PlaceKept
<1>2. CASE intermediate[t] # <<>>
  <2> DEFINE a == Collected(Hands(pc, element, "reduce_call"))
             b == Collected(Hands(pc', element', "reduce_call"))
             e == Head(intermediate[t])
             rest == Tail(intermediate[t])
  <2>1. a \in Bag /\ b \in Bag
        /\ Copies(p, b) + Copies(p, InHand(pc, element, "reduce_call", t))
             = Copies(p, a) + Copies(p, InHand(pc', element', "reduce_call", t))
    BY <1>a, HandsStep
  <2>2. /\ InHand(pc, element, "reduce_call", t) = EmptyBag
        /\ InHand(pc', element', "reduce_call", t) = EmptyBag
    BY <1>b DEF InHand
  <2>3. Copies(p, a) \in Nat /\ Copies(p, b) \in Nat /\ Copies(p, EmptyBag) = 0
    BY <2>1, CopiesNat, BagOfNothing
  <2>4. intermediate \in [Threads -> Seq(Bag)] /\ intermediate' \in [Threads -> Seq(Bag)]
    BY <1>a, DataTypeThread DEF DataType
  <2>5. /\ \A u \in Threads \ {t} : intermediate'[u] = intermediate[u]
        /\ intermediate'[t] = rest /\ vector_of_vectors' = Append(vector_of_vectors, e)
    BY <1>2, <2>4 DEF Sort
  <2>6. /\ HeldBy(intermediate) \in Bag /\ HeldBy(intermediate') \in Bag
        /\ Copies(p, HeldBy(intermediate')) + Copies(p, Collected(intermediate[t]))
             = Copies(p, HeldBy(intermediate)) + Copies(p, Collected(intermediate'[t]))
    BY <2>4, <2>5, HeldUpdate
  <2>7. intermediate[t] \in Seq(Bag)
    BY <2>4
  <2>8. /\ e \in Bag /\ rest \in Seq(Bag)
        /\ Copies(p, Collected(intermediate[t])) = Copies(p, e) + Copies(p, Collected(rest))
    BY <1>2, <2>7, CollectedSteps
  <2> HIDE DEF a, b, e, rest
  <2>9. Collected(rest) \in Bag
    BY <2>8, CollectedSteps
  <2>10. vector_of_vectors \in Seq(Bag)
    BY DEF DataType
  <2>11. /\ Collected(vector_of_vectors) \in Bag
         /\ Copies(p, Collected(Append(vector_of_vectors, e)))
              = Copies(p, Collected(vector_of_vectors)) + Copies(p, e)
    BY <2>8, <2>10, CollectedSteps
  <2>12. /\ Copies(p, Collected(rest)) \in Nat /\ Copies(p, e) \in Nat
         /\ Copies(p, HeldBy(intermediate)) \in Nat /\ Copies(p, HeldBy(intermediate')) \in Nat
         /\ Copies(p, Collected(vector_of_vectors)) \in Nat
    BY <2>6, <2>8, <2>9, <2>11, CopiesNat
  <2>13. Copies(p, HeldBy(intermediate')) + Copies(p, e) = Copies(p, HeldBy(intermediate))
    <3>1. Copies(p, Collected(intermediate'[t])) = Copies(p, Collected(rest))
      BY <2>5
    <3> QED
      BY <2>6, <2>8, <2>12, <3>1
  <2>14. Copies(p, b) = Copies(p, a)
    BY <2>1, <2>2, <2>3
  <2>15. Copies(p, Collected(vector_of_vectors')) = Copies(p, Collected(vector_of_vectors)) + Copies(p, e)
    BY <2>5, <2>11
  <2>16. /\ Copies(p, all_pairs) \in Nat /\ Copies(p, saving) \in Nat
         /\ Copies(p, Collected(output)) \in Nat
    BY CopiesNat, PlaceBags DEF DataType, JobInv, StageInv
  <2> QED
    BY <1>b, <2>3, <2>12, <2>13, <2>14, <2>15, <2>16 DEF Place, a, b
<1> QED
  BY <1>1, <1>2

\* The hands of the threads in a step of thread 0 that shuffles.
LEMMA ShuffleHands ==
    ASSUME JobInv, DataType, NEW t \in Threads,
           ShuffleStart(t) \/ ShufflePop(t) \/ ShuffleNextKey(t), NEW p \in Pairs
    PROVE  /\ Copies(p, Collected(Hands(pc', element', "reduce_call")))
                = Copies(p, Collected(Hands(pc, element, "reduce_call")))
           /\ UNCHANGED <<intermediate, output>>
<1>1. ThreadStep(t)
  BY DEF ThreadStep
<1>2. pc[t] # "reduce_call" /\ pc'[t] # "reduce_call" /\ UNCHANGED <<intermediate, output>>
  BY DEF ShuffleStart, ShufflePop, ShuffleNextKey, At, Goto, JobInv, StageInv, map_vars, reduce_vars
<1> DEFINE a == Collected(Hands(pc, element, "reduce_call"))
           b == Collected(Hands(pc', element', "reduce_call"))
<1>3. a \in Bag /\ b \in Bag
      /\ Copies(p, b) + Copies(p, InHand(pc, element, "reduce_call", t))
           = Copies(p, a) + Copies(p, InHand(pc', element', "reduce_call", t))
  BY <1>1, HandsStep
<1>4. /\ InHand(pc, element, "reduce_call", t) = EmptyBag
      /\ InHand(pc', element', "reduce_call", t) = EmptyBag
  BY <1>2 DEF InHand
<1>5. Copies(p, a) \in Nat /\ Copies(p, b) \in Nat /\ Copies(p, EmptyBag) = 0
  BY <1>3, CopiesNat, BagOfNothing
<1> HIDE DEF a, b
<1>6. Copies(p, b) = Copies(p, a)
  BY <1>3, <1>4, <1>5
<1> QED
  BY <1>2, <1>6 DEF a, b


\* No pair comes from nowhere.
LEMMA PlaceOfPair ==
    ASSUME JobInv, DataType, Conserved, NEW p \in Pairs
    PROVE  /\ Copies(p, all_pairs) \in Nat /\ Copies(p, saving) \in Nat
           /\ Copies(p, Collected(output)) \in Nat
           /\ Copies(p, Collected(Hands(pc, element, "reduce_call"))) \in Nat
           /\ Copies(p, all_pairs) + Copies(p, saving)
                + Copies(p, Collected(Hands(pc, element, "reduce_call")))
                + Copies(p, Collected(output)) <= 1
           /\ Copies(p, all_pairs) > 0 \/ Copies(p, saving) > 0
                \/ Copies(p, Collected(output)) > 0 => p \in AllPairs
<1>1. Place(p) = IF p \in AllPairs /\ p[1] \in Mapped THEN 1 ELSE 0
  BY DEF Conserved
<1> DEFINE a == Copies(p, HeldBy(intermediate))
           b == Copies(p, Collected(vector_of_vectors))
           c == Copies(p, all_pairs)
           d == Copies(p, saving)
           e == Copies(p, Collected(Hands(pc, element, "reduce_call")))
           f == Copies(p, Collected(output))
<1>2. a \in Nat /\ b \in Nat /\ c \in Nat /\ d \in Nat /\ e \in Nat /\ f \in Nat
  BY CopiesNat, PlaceBags DEF JobInv, StageInv
<1>3. Place(p) = a + b + c + d + e + f
  BY DEF Place
<1> HIDE DEF a, b, c, d, e, f
<1>4. c + d + e + f <= 1 /\ (c > 0 \/ d > 0 \/ f > 0 => p \in AllPairs)
  BY <1>1, <1>2, <1>3
<1> QED
  BY <1>2, <1>4 DEF c, d, e, f

\* Before the shuffle stage and before the reduce stage.
LEMMA AtShuffleStart ==
    ASSUME JobInv, FlowInv, NEW t \in Threads, pc[t] = "shuffle"
    PROVE  /\ all_pairs = EmptyBag /\ saving = EmptyBag /\ output = <<>> /\ num_of_pairs = 0
           /\ SHUFFLE_STAGE \notin set_flags /\ REDUCE_STAGE \notin set_flags
           /\ progress.stage = MAP_STAGE /\ progress.done = NumInputs
           /\ \A u \in Threads : /\ intermediate[u] = <<>>
                                 /\ pc[u] \notin MapPcs \union {"reduce_call", "reduce_count"}
<1>1. /\ t = MainTId /\ t \in Shuffling /\ pc[t] \notin Before1 \union {"barrier_wait"}
      /\ pc[t] \in Before2
  BY DEF JobInv, StageInv, Shuffling, Before2, Before1, MapPcs
<1>2. /\ SHUFFLE_STAGE \notin set_flags /\ REDUCE_STAGE \notin set_flags /\ MAP_STAGE \in set_flags
      /\ progress.stage = MAP_STAGE
  BY <1>1 DEF JobInv, StageInv
<1>3. all_pairs = EmptyBag /\ saving = EmptyBag /\ output = <<>> /\ num_of_pairs = 0
  BY <1>2 DEF FlowInv
<1>4. \A u \in Threads : pc[u] \in Before2 \union {"barrier_reduce_wait"} /\ pc[u] \notin Before1
  BY <1>1, WhileShuffling, WhileMapping
<1>5. done_map
  BY <1>1 DEF FlowInv, LoopPcs, MapPcs
<1>6. progress.done = NumInputs
  BY <1>2, <1>5 DEF FlowInv
<1>7. \A u \in Threads : pc[u] \notin MapPcs \union {"reduce_call", "reduce_count"}
  BY <1>4 DEF Before2, Before1, MapPcs
<1>8. \A u \in Threads : intermediate[u] = <<>>
  BY <1>7 DEF FlowInv, LoopPcs
<1> QED
  BY <1>2, <1>3, <1>6, <1>7, <1>8

\* All the vectors become one heap.
LEMMA PlaceShuffleStart ==
    ASSUME JobInv, DataType, FlowInv, NEW t \in Threads, ShuffleStart(t), NEW p \in Pairs
    PROVE  Place(p)' = Place(p)
<1>1. /\ pc[t] = "shuffle" /\ all_pairs' = Collected(vector_of_vectors)
      /\ vector_of_vectors' = <<>> /\ saving' = saving
  BY DEF ShuffleStart, At
<1>2. all_pairs = EmptyBag /\ saving = EmptyBag
  BY <1>1, AtShuffleStart
<1> DEFINE a == Copies(p, Collected(Hands(pc, element, "reduce_call")))
           b == Copies(p, Collected(Hands(pc', element', "reduce_call")))
<1>3. b = a /\ UNCHANGED <<intermediate, output>>
  BY ShuffleHands
<1>4. Copies(p, EmptyBag) = 0 /\ Copies(p, Collected(<<>>)) = 0
  BY BagOfNothing, CollectedNothing
<1>5. /\ Copies(p, Collected(vector_of_vectors)) \in Nat /\ Copies(p, HeldBy(intermediate)) \in Nat
      /\ Copies(p, Collected(output)) \in Nat /\ a \in Nat
  BY CopiesNat, PlaceBags DEF JobInv, StageInv
<1>6. Place(p) = Copies(p, HeldBy(intermediate)) + Copies(p, Collected(vector_of_vectors))
                   + 0 + 0 + a + Copies(p, Collected(output))
  BY <1>2, <1>4 DEF Place
<1>7. Place(p)' = Copies(p, HeldBy(intermediate)) + 0 + Copies(p, Collected(vector_of_vectors))
                   + 0 + b + Copies(p, Collected(output))
  BY <1>1, <1>2, <1>3, <1>4 DEF Place
<1> HIDE DEF a, b
<1> QED
  BY <1>3, <1>5, <1>6, <1>7

\* The top of the heap is read; no group is being built yet.
LEMMA PlaceShuffleTop ==
    ASSUME JobInv, DataType, Conserved, GroupInv, NEW t \in Threads, ShuffleTop(t),
           NEW p \in Pairs
    PROVE  Place(p)' = Place(p)
<1>1. /\ pc[t] = "shuffle_top" /\ pc'[t] = "shuffle_loop" /\ saving' = EmptyBag
      /\ UNCHANGED <<intermediate, vector_of_vectors, all_pairs, element, output>>
  BY DEF ShuffleTop, At, Goto, JobInv, StageInv, map_vars, reduce_vars
<1>2. all_pairs = SetToBag(AllPairs)
  BY <1>1 DEF GroupInv, TopPending
<1>3. ASSUME NEW q \in Pairs PROVE Copies(q, saving) = Copies(q, EmptyBag)
  <2>1. Copies(q, all_pairs) = IF q \in AllPairs THEN 1 ELSE 0
    BY <1>2, BagOfSet DEF AllPairs
  <2>2. /\ Copies(q, all_pairs) \in Nat /\ Copies(q, saving) \in Nat
        /\ Copies(q, all_pairs) + Copies(q, saving) <= 1
        /\ Copies(q, saving) > 0 => q \in AllPairs
    <3>1. ASSUME NEW a \in Nat, NEW b \in Nat, NEW c \in Nat, NEW d \in Nat, a + b + c + d <= 1
          PROVE  a + b <= 1
      BY <3>1
    <3> QED
      BY <3>1, PlaceOfPair
  <2>3. Copies(q, EmptyBag) = 0
    BY BagOfNothing
  <2> QED
    BY <2>1, <2>2, <2>3
<1>4. saving = EmptyBag
  BY <1>3, BagOfNothing, BagsEqual DEF DataType, Bag
<1>5. UNCHANGED pair_vars
  BY <1>1, <1>4 DEF pair_vars
<1> QED
  BY <1>1, <1>5, PlaceKept DEF ThreadStep

\* A pair moves from the heap to the group that is being built, or to a finished group.
LEMMA PlaceShufflePop ==
    ASSUME JobInv, DataType, NEW t \in Threads, ShufflePop(t), NEW p \in Pairs
    PROVE  Place(p)' = Place(p)
<1> DEFINE a == Copies(p, Collected(Hands(pc, element, "reduce_call")))
           b == Copies(p, Collected(Hands(pc', element', "reduce_call")))
           vov == Copies(p, Collected(vector_of_vectors))
           vov2 == Copies(p, Collected(vector_of_vectors'))
<1>1. PICK x \in BagToSet(all_pairs) :
          /\ all_pairs' = all_pairs (-) SetToBag({x})
          /\ IF BagToSet(all_pairs') = {}
               THEN Flush(saving (+) SetToBag({x}))
               ELSE saving' = saving (+) SetToBag({x}) /\ UNCHANGED vector_of_vectors
  BY DEF ShufflePop
<1>2. x \in DOMAIN all_pairs /\ {x} \in SUBSET Pairs /\ all_pairs \in Bag /\ saving \in Bag
      /\ vector_of_vectors \in Seq(Bag)
  BY BagFacts DEF Bag, DataType
<1> DEFINE one == SetToBag({x})
           group == saving (+) one
<1>3. one \in Bag /\ Copies(p, one) = IF p = x THEN 1 ELSE 0
  BY <1>2, BagOfSet DEF Bag
<1>4. group \in Bag /\ Copies(p, group) = Copies(p, saving) + Copies(p, one)
  <2> HIDE DEF one
  <2> QED
    BY <1>2, <1>3, BagSum DEF Bag
<1>5. Copies(p, all_pairs') = IF p = x THEN Copies(p, all_pairs) - 1 ELSE Copies(p, all_pairs)
  BY <1>1, <1>2, BagLess DEF Bag
<1>6. b = a /\ UNCHANGED <<intermediate, output>>
  BY ShuffleHands
<1> HIDE DEF one, group
<1>7. Copies(p, saving') + vov2 = Copies(p, group) + vov
  <2>1. vov \in Nat /\ Copies(p, group) \in Nat
    BY <1>2, <1>4, CopiesNat, CollectedIs
  <2>2. CASE BagToSet(all_pairs') = {}
    <3>1. saving' = EmptyBag /\ vector_of_vectors' = Append(vector_of_vectors, group)
      BY <1>1, <2>2 DEF Flush, one, group
    <3>2. Copies(p, saving') = 0
      BY <3>1, BagOfNothing
    <3>3. vov2 = vov + Copies(p, group)
      BY <1>2, <1>4, <3>1, CollectedSteps
    <3> HIDE DEF vov, vov2
    <3> QED
      BY <2>1, <3>2, <3>3
  <2>3. CASE BagToSet(all_pairs') # {}
    <3>1. saving' = group /\ vector_of_vectors' = vector_of_vectors
      BY <1>1, <2>3 DEF one, group
    <3> QED
      BY <3>1
  <2> QED
    BY <2>2, <2>3
<1>8. /\ vov \in Nat /\ a \in Nat /\ Copies(p, HeldBy(intermediate)) \in Nat
      /\ Copies(p, Collected(output)) \in Nat /\ Copies(p, all_pairs) \in Nat /\ Copies(p, saving) \in Nat
  BY CopiesNat, PlaceBags DEF JobInv, StageInv
<1>9. /\ vov2 \in Nat /\ Copies(p, saving') \in Nat
  <2>1. vector_of_vectors' \in Seq(Bag) /\ saving' \in Bag
    BY DataTypeThread DEF DataType, ThreadStep
  <2> QED
    BY <2>1, CopiesNat, CollectedIs
<1>10. Place(p) = Copies(p, HeldBy(intermediate)) + vov + Copies(p, all_pairs) + Copies(p, saving)
                    + a + Copies(p, Collected(output))
  BY DEF Place
<1>11. Place(p)' = Copies(p, HeldBy(intermediate)) + vov2 + Copies(p, all_pairs') + Copies(p, saving')
                    + b + Copies(p, Collected(output))
  BY <1>6 DEF Place
<1> HIDE DEF a, b, vov, vov2
<1>12. CASE p = x
  BY <1>3, <1>4, <1>5, <1>6, <1>7, <1>8, <1>9, <1>10, <1>11, <1>12
<1>13. CASE p # x
  BY <1>3, <1>4, <1>5, <1>6, <1>7, <1>8, <1>9, <1>10, <1>11, <1>13
<1> QED
  BY <1>12, <1>13

\* A finished group moves to vector_of_vectors.
LEMMA PlaceShuffleNextKey ==
    ASSUME JobInv, DataType, NEW t \in Threads, ShuffleNextKey(t), NEW p \in Pairs
    PROVE  Place(p)' = Place(p)
<1> DEFINE a == Copies(p, Collected(Hands(pc, element, "reduce_call")))
           b == Copies(p, Collected(Hands(pc', element', "reduce_call")))
           vov == Copies(p, Collected(vector_of_vectors))
           vov2 == Copies(p, Collected(vector_of_vectors'))
<1>1. /\ saving' = EmptyBag /\ vector_of_vectors' = Append(vector_of_vectors, saving)
      /\ UNCHANGED all_pairs
  BY DEF ShuffleNextKey, Flush
<1>2. saving \in Bag /\ vector_of_vectors \in Seq(Bag)
  BY DEF DataType
<1>3. vov2 = vov + Copies(p, saving)
  BY <1>1, <1>2, CollectedSteps
<1>4. Copies(p, saving') = 0
  BY <1>1, BagOfNothing
<1>5. b = a /\ UNCHANGED <<intermediate, output>>
  BY ShuffleHands
<1>6. /\ vov \in Nat /\ a \in Nat /\ Copies(p, HeldBy(intermediate)) \in Nat
      /\ Copies(p, Collected(output)) \in Nat /\ Copies(p, all_pairs) \in Nat /\ Copies(p, saving) \in Nat
  BY CopiesNat, PlaceBags DEF JobInv, StageInv
<1>7. Place(p) = Copies(p, HeldBy(intermediate)) + vov + Copies(p, all_pairs) + Copies(p, saving)
                   + a + Copies(p, Collected(output))
  BY DEF Place
<1>8. Place(p)' = Copies(p, HeldBy(intermediate)) + vov2 + Copies(p, all_pairs) + Copies(p, saving')
                   + b + Copies(p, Collected(output))
  BY <1>1, <1>5 DEF Place
<1> HIDE DEF a, b, vov, vov2
<1> QED
  BY <1>3, <1>4, <1>5, <1>6, <1>7, <1>8

\* A group moves from vector_of_vectors to the hands of a thread.
LEMMA PlaceReduceTake ==
    ASSUME JobInv, DataType, NEW t \in Threads, ReduceTake(t), NEW p \in Pairs
    PROVE  Place(p)' = Place(p)
<1>a. ThreadStep(t)
  BY DEF ThreadStep
<1> DEFINE a == Collected(Hands(pc, element, "reduce_call"))
           b == Collected(Hands(pc', element', "reduce_call"))
           group == Head(vector_of_vectors)
<1>1. pc[t] = "reduce_take" /\ pc'[t] = "reduce_call"
  BY DEF ReduceTake, At, Goto, JobInv, StageInv
<1>2. /\ vector_of_vectors # <<>> /\ element'[t] = group
      /\ vector_of_vectors' = Tail(vector_of_vectors)
      /\ UNCHANGED <<intermediate, all_pairs, saving, output>>
  BY <1>1 DEF ReduceTake, earlier_vars, map_vars, shuffle_vars, JobInv, TokenInv, DataType
<1>3. a \in Bag /\ b \in Bag
      /\ Copies(p, b) + Copies(p, InHand(pc, element, "reduce_call", t))
           = Copies(p, a) + Copies(p, InHand(pc', element', "reduce_call", t))
  BY <1>a, HandsStep
<1>4. /\ InHand(pc, element, "reduce_call", t) = EmptyBag
      /\ InHand(pc', element', "reduce_call", t) = group
  BY <1>1, <1>2 DEF InHand
<1>5. vector_of_vectors \in Seq(Bag)
  BY DEF DataType
<1>6. /\ group \in Bag
      /\ Copies(p, Collected(vector_of_vectors)) = Copies(p, group) + Copies(p, Collected(Tail(vector_of_vectors)))
      /\ Collected(Tail(vector_of_vectors)) \in Bag
  BY <1>2, <1>5, CollectedSteps
<1> HIDE DEF a, b, group
<1>7. /\ Copies(p, a) \in Nat /\ Copies(p, b) \in Nat /\ Copies(p, EmptyBag) = 0
      /\ Copies(p, group) \in Nat /\ Copies(p, Collected(Tail(vector_of_vectors))) \in Nat
  BY <1>3, <1>6, CopiesNat, BagOfNothing
<1>8. Copies(p, b) = Copies(p, a) + Copies(p, group)
  BY <1>3, <1>4, <1>7
<1>9. /\ Copies(p, HeldBy(intermediate)) \in Nat
      /\ Copies(p, Collected(output)) \in Nat /\ Copies(p, all_pairs) \in Nat /\ Copies(p, saving) \in Nat
  BY CopiesNat, PlaceBags DEF JobInv, StageInv
<1>10. Place(p) = Copies(p, HeldBy(intermediate)) + Copies(p, Collected(vector_of_vectors))
            + Copies(p, all_pairs) + Copies(p, saving) + Copies(p, a) + Copies(p, Collected(output))
  BY DEF Place, a
<1>11. Place(p)' = Copies(p, HeldBy(intermediate)) + Copies(p, Collected(Tail(vector_of_vectors)))
            + Copies(p, all_pairs) + Copies(p, saving) + Copies(p, b) + Copies(p, Collected(output))
  BY <1>2 DEF Place, b
<1> QED
  BY <1>6, <1>7, <1>8, <1>9, <1>10, <1>11

\* A group moves from the hands of a thread to the output.
LEMMA PlaceReduceCall ==
    ASSUME JobInv, DataType, NEW t \in Threads, ReduceCall(t), NEW p \in Pairs
    PROVE  /\ Place(p)' = Place(p)
           /\ Copies(p, Collected(output')) = Copies(p, Collected(output)) + Copies(p, element[t])
           /\ Copies(p, Collected(Hands(pc, element, "reduce_call"))) >= Copies(p, element[t])
<1>a. ThreadStep(t)
  BY DEF ThreadStep
<1> DEFINE a == Collected(Hands(pc, element, "reduce_call"))
           b == Collected(Hands(pc', element', "reduce_call"))
           group == element[t]
<1>1. pc[t] = "reduce_call" /\ pc'[t] = "reduce_count"
  BY DEF ReduceCall, At, Goto, JobInv, StageInv
<1>2. /\ output' = Append(output, group)
      /\ UNCHANGED <<intermediate, vector_of_vectors, all_pairs, saving, element>>
  BY <1>1 DEF ReduceCall, earlier_vars, map_vars, shuffle_vars
<1>3. a \in Bag /\ b \in Bag
      /\ Copies(p, b) + Copies(p, InHand(pc, element, "reduce_call", t))
           = Copies(p, a) + Copies(p, InHand(pc', element', "reduce_call", t))
  BY <1>a, HandsStep
<1>4. /\ InHand(pc, element, "reduce_call", t) = group
      /\ InHand(pc', element', "reduce_call", t) = EmptyBag
  BY <1>1 DEF InHand
<1>5. output \in Seq(Bag) /\ group \in Bag
  BY DEF DataType
<1> HIDE DEF a, b, group
<1>6. /\ Collected(output) \in Bag
      /\ Copies(p, Collected(Append(output, group))) = Copies(p, Collected(output)) + Copies(p, group)
  BY <1>5, CollectedSteps
<1>7. /\ Copies(p, a) \in Nat /\ Copies(p, b) \in Nat /\ Copies(p, EmptyBag) = 0
      /\ Copies(p, group) \in Nat
  BY <1>3, <1>5, CopiesNat, BagOfNothing
<1>8. Copies(p, a) = Copies(p, b) + Copies(p, group)
  BY <1>3, <1>4, <1>7
<1>9. /\ Copies(p, HeldBy(intermediate)) \in Nat /\ Copies(p, Collected(vector_of_vectors)) \in Nat
      /\ Copies(p, Collected(output)) \in Nat /\ Copies(p, all_pairs) \in Nat /\ Copies(p, saving) \in Nat
  BY CopiesNat, PlaceBags DEF JobInv, StageInv
<1>10. Place(p) = Copies(p, HeldBy(intermediate)) + Copies(p, Collected(vector_of_vectors))
            + Copies(p, all_pairs) + Copies(p, saving) + Copies(p, a) + Copies(p, Collected(output))
  BY DEF Place, a
<1>11. Place(p)' = Copies(p, HeldBy(intermediate)) + Copies(p, Collected(vector_of_vectors))
            + Copies(p, all_pairs) + Copies(p, saving) + Copies(p, b)
            + Copies(p, Collected(Append(output, group)))
  BY <1>2 DEF Place, b
<1>12. Place(p)' = Place(p)
  BY <1>6, <1>7, <1>8, <1>9, <1>10, <1>11
<1>13. Copies(p, Collected(output')) = Copies(p, Collected(output)) + Copies(p, group)
  BY <1>2, <1>6
<1>14. Copies(p, a) >= Copies(p, group)
  BY <1>7, <1>8
<1> QED
  BY <1>12, <1>13, <1>14 DEF a, group

\* The group that has been reduced and counted is dropped.
LEMMA PlaceReduceCount ==
    ASSUME JobInv, DataType, NEW t \in Threads, ReduceCount(t), NEW p \in Pairs
    PROVE  Place(p)' = Place(p)
<1>a. ThreadStep(t)
  BY DEF ThreadStep
<1> DEFINE a == Collected(Hands(pc, element, "reduce_call"))
           b == Collected(Hands(pc', element', "reduce_call"))
<1>1. pc[t] = "reduce_count" /\ pc'[t] = "reduce_test"
  BY DEF ReduceCount, At, Goto, JobInv, StageInv
<1>2. UNCHANGED <<intermediate, vector_of_vectors, all_pairs, saving, output>>
  BY <1>1 DEF ReduceCount, earlier_vars, map_vars, shuffle_vars
<1>3. a \in Bag /\ b \in Bag
      /\ Copies(p, b) + Copies(p, InHand(pc, element, "reduce_call", t))
           = Copies(p, a) + Copies(p, InHand(pc', element', "reduce_call", t))
  BY <1>a, HandsStep
<1>4. /\ InHand(pc, element, "reduce_call", t) = EmptyBag
      /\ InHand(pc', element', "reduce_call", t) = EmptyBag
  BY <1>1 DEF InHand
<1> HIDE DEF a, b
<1>5. /\ Copies(p, a) \in Nat /\ Copies(p, b) \in Nat /\ Copies(p, EmptyBag) = 0
  BY <1>3, CopiesNat, BagOfNothing
<1>6. Copies(p, a) = Copies(p, b)
  BY <1>3, <1>4, <1>5
<1> QED
  BY <1>2, <1>6 DEF Place, a, b


\* A step of a thread preserves Conserved.
LEMMA ConservedThread ==
    ASSUME JobInv, DataType, FlowInv, Conserved, GroupInv, NEW t \in Threads, ThreadStep(t)
    PROVE  Conserved'
<1>1. AllPairs' = AllPairs
  BY StepFrame DEF AllPairs, client_vars
<1>2. CASE MapCall(t)
  <2> SUFFICES ASSUME NEW p \in Pairs
               PROVE  Place(p)' = IF p \in AllPairs /\ p[1] \in Mapped' THEN 1 ELSE 0
    BY <1>1 DEF Conserved
  <2>1. Place(p)' = Place(p) + Copies(p, Emitted(index[t]))
    BY <1>2, PlaceMapCall
  <2>2. index[t] \in Inputs /\ index[t] \notin Mapped /\ Mapped' = Mapped \union {index[t]}
    BY <1>2, MappedGrows
  <2>3. Copies(p, Emitted(index[t])) = IF p \in AllPairs /\ p[1] = index[t] THEN 1 ELSE 0
    BY <2>2, EmittedIs DEF DataType
  <2>4. Place(p) = IF p \in AllPairs /\ p[1] \in Mapped THEN 1 ELSE 0
    BY DEF Conserved
  <2>5. CASE p \in AllPairs /\ p[1] = index[t]
    BY <2>1, <2>2, <2>3, <2>4, <2>5
  <2>6. CASE ~(p \in AllPairs /\ p[1] = index[t])
    <3>1. Place(p)' = Place(p) + 0
      BY <2>1, <2>3, <2>6
    <3>2. p \in AllPairs => (p[1] \in Mapped' <=> p[1] \in Mapped)
      BY <2>2, <2>6
    <3> QED
      BY <2>4, <3>1, <3>2
  <2> QED
    BY <2>5, <2>6
<1>3. CASE ~MapCall(t)
  <2>1. Mapped' = Mapped
    BY <1>3, MappedKept
  <2> SUFFICES ASSUME NEW p \in Pairs
               PROVE  Place(p)' = Place(p)
    BY <1>1, <2>1 DEF Conserved
  <2>2. CASE QuietStep(t)
    BY <2>2, QuietFrame, QuietPlaces, PlaceKept
  <2>3. CASE SetMap(t)
    <3>1. pc[t] = "set_map" /\ pc'[t] = "map_test" /\ intermediate' = [intermediate EXCEPT ![t] = <<>>]
      BY <2>3 DEF SetMap, At, Goto, JobInv, StageInv
    <3>2. intermediate[t] = <<>>
      BY <3>1 DEF FlowInv, LoopPcs
    <3>3. intermediate' = intermediate
      BY <3>1, <3>2 DEF DataType
    <3>4. UNCHANGED pair_vars
      BY <2>3, <3>3 DEF SetMap, pair_vars, later_vars, shuffle_vars, reduce_vars
    <3> QED
      BY <3>1, <3>4, PlaceKept
  <2> QED
    BY <1>3, <2>2, <2>3, PlaceSort, PlaceShuffleStart, PlaceShuffleTop, PlaceShufflePop, PlaceShuffleNextKey,
       PlaceReduceTake, PlaceReduceCall, PlaceReduceCount DEF ThreadStep, QuietStep
<1> QED
  BY <1>2, <1>3

-----------------------------------------------------------------------------
(* The counts.                                                             *)

\* When all inputs are mapped and nothing is elsewhere, all pairs are in vector_of_vectors.
LEMMA AllCollected ==
    ASSUME JobInv, DataType, FlowInv, Conserved, NEW t \in Threads, pc[t] = "shuffle"
    PROVE  Collected(vector_of_vectors) = SetToBag(AllPairs)
<1>1. /\ all_pairs = EmptyBag /\ saving = EmptyBag /\ output = <<>>
      /\ progress.stage = MAP_STAGE /\ progress.done = NumInputs
      /\ \A u \in Threads : /\ intermediate[u] = <<>>
                            /\ pc[u] \notin MapPcs \union {"reduce_call", "reduce_count"}
  BY AtShuffleStart
<1>2. Mapped = Inputs
  <2>1. Claimed = Inputs
    BY <1>1 DEF Claimed, Inputs, MAP_STAGE, UNDEFINED_STAGE
  <2>2. InMap = {}
    BY <1>1 DEF InMap, MapPcs
  <2> QED
    BY <2>1, <2>2, MappedIs
<1>3. HeldBy(intermediate) = EmptyBag
  BY <1>1, HeldNothing DEF DataType
<1>4. Collected(Hands(pc, element, "reduce_call")) = EmptyBag
  BY <1>1, HandsEmpty DEF DataType, JobInv, StageInv
<1>5. Collected(vector_of_vectors) \in Bag
  BY CollectedIs DEF DataType
<1>6. AllPairs \in SUBSET Pairs
  BY DEF AllPairs
<1>7. SetToBag(AllPairs) \in Bag
  BY <1>6, BagOfSet DEF Bag
<1>8. ASSUME NEW p \in Pairs
      PROVE  Copies(p, Collected(vector_of_vectors)) = Copies(p, SetToBag(AllPairs))
  <2>1. Copies(p, EmptyBag) = 0 /\ Copies(p, Collected(<<>>)) = 0
    BY BagOfNothing, CollectedNothing
  <2>2. Copies(p, Collected(vector_of_vectors)) \in Nat
    BY <1>5, CopiesNat
  <2>3. Place(p) = 0 + Copies(p, Collected(vector_of_vectors)) + 0 + 0 + 0 + 0
    BY <1>1, <1>3, <1>4, <2>1 DEF Place
  <2>4. p[1] \in Mapped
    BY <1>2 DEF Pairs
  <2>5. Place(p) = IF p \in AllPairs THEN 1 ELSE 0
    BY <2>4 DEF Conserved
  <2>6. Copies(p, SetToBag(AllPairs)) = IF p \in AllPairs THEN 1 ELSE 0
    BY <1>6, BagOfSet
  <2> QED
    BY <2>2, <2>3, <2>5, <2>6
<1> QED
  BY <1>5, <1>7, <1>8, BagsEqual DEF Bag

\* The counts of the shuffle stage when it begins.
LEMMA CountShuffleStart ==
    ASSUME JobInv, DataType, FlowInv, Conserved, NEW t \in Threads, ShuffleStart(t)
    PROVE  /\ progress' = [stage |-> SHUFFLE_STAGE, todo |-> num_of_pairs', done |-> 0]
           /\ set_flags' = set_flags \union {SHUFFLE_STAGE}
           /\ num_of_pairs' = Cardinality(AllPairs)
           /\ num_of_pairs' = BagCardinality(all_pairs')
           /\ num_of_pairs' \in Nat
           /\ all_pairs' = SetToBag(AllPairs)
<1>1. pc[t] = "shuffle" /\ all_pairs' = Collected(vector_of_vectors)
      /\ num_of_pairs' = num_of_pairs + BagCardinality(Collected(vector_of_vectors))
      /\ SetAtomic(SHUFFLE_STAGE, num_of_pairs')
  BY DEF ShuffleStart, At
<1>2. num_of_pairs = 0 /\ SHUFFLE_STAGE \notin set_flags
  BY <1>1, AtShuffleStart
<1>3. all_pairs' = SetToBag(AllPairs)
  BY <1>1, AllCollected
<1>4. AllPairs \in SUBSET Pairs
  BY DEF AllPairs
<1>5. all_pairs' \in Bag
  BY <1>3, <1>4, BagOfSet DEF Bag
<1>6. BagCardinality(all_pairs') = Cardinality(AllPairs) /\ BagCardinality(all_pairs') \in Nat
  BY <1>3, <1>4, <1>5, PairsFinite, BagCardinalityOfSet, BagCardinalities DEF Bag
<1>7. num_of_pairs' = BagCardinality(all_pairs')
  BY <1>1, <1>2, <1>6
<1> QED
  BY <1>1, <1>2, <1>3, <1>6, <1>7 DEF SetAtomic

\* A pair leaves the heap.
LEMMA CountShufflePop ==
    ASSUME JobInv, DataType, NEW t \in Threads, ShufflePop(t)
    PROVE  /\ BagCardinality(all_pairs) = BagCardinality(all_pairs') + 1
           /\ BagCardinality(all_pairs') \in Nat
<1>1. PICK x \in BagToSet(all_pairs) : all_pairs' = all_pairs (-) SetToBag({x})
  BY DEF ShufflePop
<1>2. x \in DOMAIN all_pairs /\ x \in Pairs /\ all_pairs \in Bag
  BY BagFacts DEF Bag, DataType
<1> DEFINE one == SetToBag({x})
<1>3. all_pairs' \in Bag /\ all_pairs = all_pairs' (+) one
  BY <1>1, <1>2, BagLess DEF Bag
<1>4. {x} \in SUBSET Pairs
  BY <1>2
<1>5. one \in Bag
  BY <1>4, BagOfSet DEF Bag
<1>6. BagCardinality(one) = 1
  BY <1>2, <1>3, PairsFinite, BagCardinalities DEF Bag
<1> HIDE DEF one
<1>7. /\ BagCardinality(all_pairs' (+) one) = BagCardinality(all_pairs') + BagCardinality(one)
      /\ BagCardinality(all_pairs') \in Nat
  BY <1>3, <1>5, PairsFinite, BagCardinalities DEF Bag
<1> QED
  BY <1>3, <1>6, <1>7

\* A group is put in the output, and will be counted.
LEMMA CountReduceCall ==
    ASSUME JobInv, DataType, NEW t \in Threads, ReduceCall(t)
    PROVE  LET before == BagCardinality(Collected(Hands(pc, element, "reduce_count")))
               after == BagCardinality(Collected(Hands(pc', element', "reduce_count")))
               old == BagCardinality(Collected(output))
               new == BagCardinality(Collected(output'))
           IN  {before, after, old, new} \subseteq Nat /\ after + old = before + new
<1>a. ThreadStep(t)
  BY DEF ThreadStep
<1> DEFINE a == Collected(Hands(pc, element, "reduce_count"))
           b == Collected(Hands(pc', element', "reduce_count"))
           c == Collected(output)
           d == Collected(output')
           group == element[t]
<1>1. pc[t] = "reduce_call" /\ pc'[t] = "reduce_count" /\ element' = element
      /\ output' = Append(output, group)
  BY DEF ReduceCall, At, Goto, JobInv, StageInv
<1>2. a \in Bag /\ b \in Bag
      /\ \A p : Copies(p, b) + Copies(p, InHand(pc, element, "reduce_count", t))
                  = Copies(p, a) + Copies(p, InHand(pc', element', "reduce_count", t))
  BY <1>a, HandsStep
<1>3. /\ InHand(pc, element, "reduce_count", t) = EmptyBag
      /\ InHand(pc', element', "reduce_count", t) = group
  BY <1>1 DEF InHand
<1>4. output \in Seq(Bag) /\ output' \in Seq(Bag) /\ group \in Bag
  BY <1>a, DataTypeThread DEF DataType
<1>5. c \in Bag /\ d \in Bag /\ \A p : Copies(p, d) = Copies(p, c) + Copies(p, group)
  <2>1. c \in Bag /\ d \in Bag
    BY <1>4, CollectedIs
  <2> HIDE DEF group
  <2>2. \A p : Copies(p, Collected(Append(output, group))) = Copies(p, c) + Copies(p, group)
    BY <1>4, CollectedSteps
  <2> QED
    BY <1>1, <2>1, <2>2
<1> HIDE DEF a, b, c, d, group
<1>6. ASSUME NEW p PROVE Copies(p, b) + Copies(p, c) = Copies(p, a) + Copies(p, d)
  <2>1. /\ Copies(p, a) \in Nat /\ Copies(p, b) \in Nat /\ Copies(p, c) \in Nat
        /\ Copies(p, d) \in Nat /\ Copies(p, group) \in Nat /\ Copies(p, EmptyBag) = 0
    BY <1>2, <1>4, <1>5, CopiesNat, BagOfNothing
  <2>2. Copies(p, b) + Copies(p, EmptyBag) = Copies(p, a) + Copies(p, group)
    BY <1>2, <1>3
  <2>3. Copies(p, d) = Copies(p, c) + Copies(p, group)
    BY <1>5
  <2> QED
    BY <2>1, <2>2, <2>3
<1>7. /\ BagCardinality(b) + BagCardinality(c) = BagCardinality(a) + BagCardinality(d)
      /\ {BagCardinality(b), BagCardinality(c), BagCardinality(a), BagCardinality(d)} \subseteq Nat
  BY <1>2, <1>5, <1>6, SameCardinality
<1> QED
  BY <1>7 DEF a, b, c, d

\* The pairs of a group are counted.
LEMMA CountReduceCount ==
    ASSUME JobInv, DataType, NEW t \in Threads, ReduceCount(t)
    PROVE  LET before == BagCardinality(Collected(Hands(pc, element, "reduce_count")))
               after == BagCardinality(Collected(Hands(pc', element', "reduce_count")))
           IN  /\ {before, after, BagCardinality(element[t])} \subseteq Nat
               /\ before = after + BagCardinality(element[t])
<1>a. ThreadStep(t)
  BY DEF ThreadStep
<1> DEFINE a == Collected(Hands(pc, element, "reduce_count"))
           b == Collected(Hands(pc', element', "reduce_count"))
           group == element[t]
<1>1. pc[t] = "reduce_count" /\ pc'[t] = "reduce_test"
  BY DEF ReduceCount, At, Goto, JobInv, StageInv
<1>2. a \in Bag /\ b \in Bag
      /\ \A p : Copies(p, b) + Copies(p, InHand(pc, element, "reduce_count", t))
                  = Copies(p, a) + Copies(p, InHand(pc', element', "reduce_count", t))
  BY <1>a, HandsStep
<1>3. /\ InHand(pc, element, "reduce_count", t) = group
      /\ InHand(pc', element', "reduce_count", t) = EmptyBag
  BY <1>1 DEF InHand
<1>4. group \in Bag /\ EmptyBag \in Bag
  BY BagOfNothing DEF DataType, Bag
<1> HIDE DEF a, b, group
<1>5. \A p : Copies(p, b) + Copies(p, group) = Copies(p, a) + Copies(p, EmptyBag)
  BY <1>2, <1>3
<1>6. /\ BagCardinality(b) + BagCardinality(group) = BagCardinality(a) + BagCardinality(EmptyBag)
      /\ {BagCardinality(b), BagCardinality(group), BagCardinality(a), BagCardinality(EmptyBag)}
            \subseteq Nat
  BY <1>2, <1>4, <1>5, SameCardinality
<1>7. BagCardinality(EmptyBag) = 0
  BY <1>4, PairsFinite, BagCardinalities DEF Bag
<1>8. BagCardinality(a) = BagCardinality(b) + BagCardinality(group)
  BY <1>6, <1>7
<1> QED
  BY <1>6, <1>8 DEF a, b, group


\* A step that neither counts nor touches what is counted.
LEMMA CountKept ==
    ASSUME JobInv, DataType, CountInv, NEW t \in Threads, ThreadStep(t),
           UNCHANGED <<progress, set_flags, num_of_pairs, all_pairs, output>>,
           TopPending' <=> TopPending,
           pc[t] # "reduce_count", pc'[t] # "reduce_count"
    PROVE  CountInv'
<1>1. AllPairs' = AllPairs /\ status = "up"
  BY StepFrame DEF AllPairs, client_vars
<1> DEFINE a == Collected(Hands(pc, element, "reduce_count"))
           b == Collected(Hands(pc', element', "reduce_count"))
<1>2. a \in Bag /\ b \in Bag
      /\ \A p : Copies(p, b) + Copies(p, InHand(pc, element, "reduce_count", t))
                  = Copies(p, a) + Copies(p, InHand(pc', element', "reduce_count", t))
  BY HandsStep
<1>3. /\ InHand(pc, element, "reduce_count", t) = EmptyBag
      /\ InHand(pc', element', "reduce_count", t) = EmptyBag
  BY DEF InHand
<1>4. b = a
  <2> HIDE DEF a, b
  <2>1. ASSUME NEW p \in Pairs PROVE Copies(p, b) = Copies(p, a)
    <3>1. Copies(p, a) \in Nat /\ Copies(p, b) \in Nat /\ Copies(p, EmptyBag) = 0
      BY <1>2, CopiesNat, BagOfNothing
    <3>2. Copies(p, b) + Copies(p, EmptyBag) = Copies(p, a) + Copies(p, EmptyBag)
      BY <1>2, <1>3
    <3> QED
      BY <3>1, <3>2
  <2> QED
    BY <1>2, <2>1, BagsEqual DEF Bag
<1>5. \/ progress.stage # REDUCE_STAGE
      \/ progress.done + BagCardinality(b) = BagCardinality(Collected(output))
  BY <1>4 DEF CountInv
<1> HIDE DEF a
<1> QED
  BY <1>1, <1>5 DEF CountInv

\* A step of a thread preserves CountInv.
LEMMA CountThread ==
    ASSUME JobInv, DataType, FlowInv, Conserved, CountInv, NEW t \in Threads, ThreadStep(t)
    PROVE  CountInv'
<1> USE DEF At, Goto
<1> USE DEF UNDEFINED_STAGE, MAP_STAGE, SHUFFLE_STAGE, REDUCE_STAGE
<1>0. /\ StageInv /\ StageInv' /\ AllPairs' = AllPairs /\ status = "up"
      /\ \A u \in Threads \ {t} : pc'[u] = pc[u]
      /\ ~ShuffleStart(t) /\ ~ShuffleTop(t) => (TopPending' <=> TopPending)
  BY StageThread, StepFrame, TopKept DEF JobInv, AllPairs, client_vars
<1>1. CASE SetMap(t)
  <2>1. /\ pc[t] = "set_map" /\ pc'[t] = "map_test"
        /\ UNCHANGED <<num_of_pairs, all_pairs, output, status>> /\ (TopPending' <=> TopPending)
    BY <1>0, <1>1 DEF SetMap, ShuffleStart, ShuffleTop, later_vars, shuffle_vars, reduce_vars, StageInv
  <2>2. CASE MAP_STAGE \in set_flags
    <3>1. UNCHANGED <<progress, set_flags>>
      BY <1>1, <2>2 DEF SetMap, SetAtomic, counter_vars
    <3> QED
      BY <2>1, <3>1, CountKept
  <2>3. CASE MAP_STAGE \notin set_flags
    <3>1. /\ progress' = [stage |-> MAP_STAGE, todo |-> NumInputs, done |-> 0]
          /\ set_flags' = set_flags \union {MAP_STAGE}
      BY <1>1, <2>3 DEF SetMap, SetAtomic
    <3>2. SHUFFLE_STAGE \notin set_flags'
      BY <2>1, <3>1, WhileMapping DEF Before1, MapPcs
    <3>3. progress'.stage = MAP_STAGE /\ progress'.todo = NumInputs /\ progress'.done = 0
      BY <3>1
    <3> QED
      BY <3>2, <3>3 DEF CountInv
  <2> QED
    BY <2>2, <2>3
<1>2. CASE MapClaim(t)
  <2>1. /\ pc[t] = "map_claim" /\ progress' = [progress EXCEPT !.done = @ + 1]
        /\ UNCHANGED set_flags
    BY <1>2 DEF MapClaim
  <2>2. progress.stage = MAP_STAGE /\ SHUFFLE_STAGE \notin set_flags
    BY <1>0, <2>1, WhileMapping DEF StageInv, Before1, MapPcs
  <2>3. /\ progress'.stage = MAP_STAGE /\ progress'.todo = progress.todo
        /\ progress'.done = progress.done + 1
    BY <1>0, <2>1, <2>2 DEF StageInv
  <2> QED
    BY <2>1, <2>2, <2>3 DEF CountInv
<1>3. CASE ShuffleStart(t)
  <2>1. /\ progress' = [stage |-> SHUFFLE_STAGE, todo |-> num_of_pairs', done |-> 0]
        /\ num_of_pairs' = Cardinality(AllPairs)
        /\ num_of_pairs' = BagCardinality(all_pairs')
        /\ num_of_pairs' \in Nat
        /\ TopPending'
    <3>1. pc'[t] = "shuffle_top"
      BY <1>0, <1>3 DEF ShuffleStart, StageInv
    <3> QED
      BY <1>3, <3>1, CountShuffleStart DEF TopPending
  <2>2. /\ progress'.stage = SHUFFLE_STAGE /\ progress'.todo = num_of_pairs' /\ progress'.done = 0
    BY <2>1
  <2>3. 0 + BagCardinality(all_pairs') = num_of_pairs'
    BY <2>1
  <2> QED
    BY <1>0, <2>1, <2>2, <2>3 DEF CountInv
<1>4. CASE ShufflePop(t)
  <2>1. /\ pc[t] = "shuffle_loop" /\ progress' = [progress EXCEPT !.done = @ + 1]
        /\ UNCHANGED <<set_flags, num_of_pairs, status>> /\ (TopPending' <=> TopPending)
    BY <1>0, <1>4 DEF ShufflePop, ShuffleStart, ShuffleTop
  <2>2. progress.stage = SHUFFLE_STAGE /\ SHUFFLE_STAGE \in set_flags
    BY <2>1, InShuffleStage
  <2>3. /\ progress'.stage = SHUFFLE_STAGE /\ progress'.todo = progress.todo
        /\ progress'.done = progress.done + 1
    BY <1>0, <2>1, <2>2 DEF StageInv
  <2>4. BagCardinality(all_pairs) = BagCardinality(all_pairs') + 1
        /\ BagCardinality(all_pairs') \in Nat
    BY <1>4, CountShufflePop
  <2>5. /\ progress.done \in Nat /\ num_of_pairs = Cardinality(AllPairs) /\ progress.todo = num_of_pairs
        /\ status = "up" /\ ~TopPending => num_of_pairs > 0
        /\ progress.done + BagCardinality(all_pairs) = num_of_pairs
    BY <2>2 DEF CountInv
  <2>6. progress'.done + BagCardinality(all_pairs') = num_of_pairs'
    BY <2>1, <2>3, <2>4, <2>5
  <2> QED
    BY <1>0, <2>1, <2>3, <2>5, <2>6 DEF CountInv
<1>5. CASE ReduceEnter(t)
  <2>1. /\ pc[t] = "reduce" /\ pc'[t] \in {"reduce_test", "done"}
        /\ UNCHANGED <<num_of_pairs, all_pairs, output, status>> /\ (TopPending' <=> TopPending)
    BY <1>0, <1>5 DEF ReduceEnter, ShuffleStart, ShuffleTop, later_vars, shuffle_vars, reduce_vars, StageInv
  <2>2. SHUFFLE_STAGE \in set_flags /\ finished_shuffle
    BY <2>1, WhileReducing DEF Reducing, ReducePcs
  <2>3. CASE REDUCE_STAGE \in set_flags
    <3>1. UNCHANGED <<progress, set_flags>>
      BY <1>5, <2>3 DEF ReduceEnter, SetAtomic, counter_vars
    <3> QED
      BY <2>1, <3>1, CountKept
  <2>4. CASE REDUCE_STAGE \notin set_flags
    <3>1. /\ progress' = [stage |-> REDUCE_STAGE, todo |-> num_of_pairs, done |-> 0]
          /\ set_flags' = set_flags \union {REDUCE_STAGE}
      BY <1>5, <2>2, <2>4 DEF ReduceEnter, SetAtomic
    <3>2. \A u \in Threads : pc'[u] # "reduce_count"
      BY <1>0, <2>1, <2>4 DEF StageInv, ReducePcs
    <3>3. output = <<>>
      BY <2>4 DEF FlowInv
    <3>4. pc' \in [Threads -> Pcs] /\ element' \in [Threads -> Bag]
      BY <1>0, DataTypeThread DEF StageInv, DataType
    <3>5. Collected(Hands(pc', element', "reduce_count")) = EmptyBag
      BY <3>2, <3>4, HandsEmpty
    <3>6. Collected(output) = EmptyBag
      BY <3>3, CollectedNothing
    <3>7. BagCardinality(EmptyBag) = 0
      BY PairsFinite, BagCardinalities, BagOfNothing DEF Bag
    <3>8. progress'.stage = REDUCE_STAGE /\ progress'.todo = num_of_pairs /\ progress'.done = 0
      BY <3>1
    <3>9. /\ num_of_pairs = Cardinality(AllPairs)
          /\ status = "up" /\ ~TopPending => num_of_pairs > 0
      BY <2>2 DEF CountInv
    <3>10. progress'.done + BagCardinality(Collected(Hands(pc', element', "reduce_count")))
             = BagCardinality(Collected(output'))
      BY <2>1, <3>5, <3>6, <3>7, <3>8
    <3> QED
      BY <1>0, <2>1, <3>8, <3>9, <3>10 DEF CountInv
  <2> QED
    BY <2>3, <2>4
<1>6. CASE ReduceCall(t)
  <2>1. /\ pc[t] = "reduce_call"
        /\ UNCHANGED <<progress, set_flags, num_of_pairs, all_pairs, status>> /\ (TopPending' <=> TopPending)
    BY <1>0, <1>6 DEF ReduceCall, ShuffleStart, ShuffleTop, earlier_vars, counter_vars, shuffle_vars
  <2> DEFINE before == BagCardinality(Collected(Hands(pc, element, "reduce_count")))
             after == BagCardinality(Collected(Hands(pc', element', "reduce_count")))
             old == BagCardinality(Collected(output))
             new == BagCardinality(Collected(output'))
  <2>2. {before, after, old, new} \subseteq Nat /\ after + old = before + new
    BY <1>6, CountReduceCall
  <2>3. progress.stage = REDUCE_STAGE => progress.done + before = old
    BY DEF CountInv
  <2>4. progress.done \in Nat
    BY DEF CountInv
  <2>5. progress'.stage = REDUCE_STAGE => progress'.done + after = new
    <3> HIDE DEF before, after, old, new
    <3> QED
      BY <2>1, <2>2, <2>3, <2>4
  <2> HIDE DEF before, old
  <2> QED
    BY <1>0, <2>1, <2>5 DEF CountInv
<1>7. CASE ReduceCount(t)
  <2>1. /\ pc[t] = "reduce_count"
        /\ progress' = [progress EXCEPT !.done = @ + BagCardinality(element[t])]
        /\ UNCHANGED <<set_flags, num_of_pairs, all_pairs, output, status>> /\ (TopPending' <=> TopPending)
    BY <1>0, <1>7 DEF ReduceCount, ShuffleStart, ShuffleTop, earlier_vars, shuffle_vars
  <2>2. progress.stage = REDUCE_STAGE /\ SHUFFLE_STAGE \in set_flags
    BY <1>0, <2>1, WhileReducing DEF StageInv, Reducing, ReducePcs
  <2> DEFINE before == BagCardinality(Collected(Hands(pc, element, "reduce_count")))
             after == BagCardinality(Collected(Hands(pc', element', "reduce_count")))
             size == BagCardinality(element[t])
  <2>3. {before, after, size} \subseteq Nat /\ before = after + size
    BY <1>7, CountReduceCount
  <2>4. /\ progress'.stage = REDUCE_STAGE /\ progress'.todo = progress.todo
        /\ progress'.done = progress.done + size
    BY <1>0, <2>1, <2>2 DEF StageInv
  <2>5. progress.done + before = BagCardinality(Collected(output)) /\ progress.done \in Nat
    BY <2>2 DEF CountInv
  <2>6. progress'.done + after = BagCardinality(Collected(output)) /\ progress'.done \in Nat
    <3> HIDE DEF before, after, size
    <3> QED
      BY <2>3, <2>4, <2>5
  <2>7. /\ num_of_pairs = Cardinality(AllPairs) /\ progress.todo = num_of_pairs
        /\ status = "up" /\ ~TopPending => num_of_pairs > 0
    BY <2>2 DEF CountInv
  <2> HIDE DEF before, size
  <2> QED
    BY <1>0, <2>1, <2>4, <2>6, <2>7 DEF CountInv
<1>8. CASE ~(SetMap(t) \/ MapClaim(t) \/ ShuffleStart(t) \/ ShuffleTop(t) \/ ShufflePop(t)
             \/ ReduceEnter(t) \/ ReduceCall(t) \/ ReduceCount(t))
  <2>1. /\ UNCHANGED <<progress, set_flags, num_of_pairs, all_pairs, output>>
        /\ pc[t] # "reduce_count" /\ pc'[t] # "reduce_count"
    <3>1. CASE QuietStep(t)
      <4>1. UNCHANGED <<progress, set_flags>>
        BY <1>8, <3>1 DEF QuietStep, MapTest, MapLock, MapCheck, ArriveMapped, LeaveMapped,
           ArriveShuffled, LeaveShuffled, ShuffleEnd, ReduceTest, ReduceWait,
           ReduceCheck, ReduceLock, ReduceExit, counter_vars, data_vars
      <4> QED
        BY <3>1, <4>1, QuietFrame, QuietPlaces DEF pair_vars
    <3>2. CASE ~QuietStep(t)
      <4>1. MapCall(t) \/ Sort(t) \/ ShuffleNextKey(t) \/ ReduceTake(t)
        BY <1>8, <3>2 DEF ThreadStep, QuietStep
      <4> QED
        BY <1>0, <4>1 DEF MapCall, Sort, ShuffleNextKey, ReduceTake, StageInv, counter_vars,
           later_vars, earlier_vars, shuffle_vars, reduce_vars
    <3> QED
      BY <3>1, <3>2
  <2> QED
    BY <1>0, <1>8, <2>1, CountKept
<1>9. CASE ShuffleTop(t)
  <2>1. /\ pc[t] = "shuffle_top" /\ pc'[t] = "shuffle_loop"
        /\ BagToSet(all_pairs) = {} => status' # "up"
        /\ UNCHANGED <<progress, set_flags, num_of_pairs, all_pairs, element, output>>
    BY <1>0, <1>9 DEF ShuffleTop, counter_vars, reduce_vars, StageInv
  <2>2. progress.stage = SHUFFLE_STAGE /\ SHUFFLE_STAGE \in set_flags
    BY <2>1, InShuffleStage
  <2>3. /\ progress.done \in Nat /\ num_of_pairs = Cardinality(AllPairs) /\ progress.todo = num_of_pairs
        /\ progress.done + BagCardinality(all_pairs) = num_of_pairs
    BY <2>2 DEF CountInv
  <2>4. status' = "up" => BagCardinality(all_pairs) \in Nat /\ BagCardinality(all_pairs) > 0
    <3>1. BagCardinality(all_pairs) \in Nat /\ (BagCardinality(all_pairs) = 0 => all_pairs = EmptyBag)
      BY PairsFinite, BagCardinalities DEF DataType, Bag
    <3>2. BagToSet(EmptyBag) = {}
      BY DEF BagToSet, EmptyBag, SetToBag
    <3> QED
      BY <2>1, <3>1, <3>2
  <2>5. status' = "up" => num_of_pairs > 0
    BY <2>3, <2>4
  <2> QED
    BY <1>0, <2>1, <2>2, <2>3, <2>5 DEF CountInv
<1> QED
  BY <1>1, <1>2, <1>3, <1>4, <1>5, <1>6, <1>7, <1>8, <1>9


-----------------------------------------------------------------------------
(* The groups: all the pairs of one key.                                   *)

\* The group of a key, in the job's words and in GroupOf's: each pair of the
\* key once.
LEMMA GroupIs ==
    ASSUME NEW k, emits \in [Inputs -> SUBSET Keys]
    PROVE  /\ k \in Job!EmittedKeys => Job!Group(k) \in Bag /\ \E p \in AllPairs : p[2] = k
           /\ k \in Job!EmittedKeys =>
                 \A p \in Pairs : Copies(p, Job!Group(k)) = IF p \in AllPairs /\ p[2] = k THEN 1 ELSE 0
           /\ \A p \in AllPairs : p[2] \in Job!EmittedKeys
           /\ Job!Group(k) = GroupOf(emits, k)
           /\ k \in Job!EmittedKeys => Job!Group(k) \in Groups(emits)
<1> DEFINE S == {<<i, k>> : i \in {i \in Inputs : k \in emits[i]}}
<1>1. \A p \in AllPairs : p[2] \in Job!EmittedKeys
  BY DEF AllPairs, Pairs, Job!EmittedKeys
<1>2. ASSUME k \in Job!EmittedKeys
      PROVE  S \in SUBSET Pairs /\ \E p \in AllPairs : p[2] = k
  <2>1. PICK i \in Inputs : k \in emits[i]
    BY <1>2 DEF Job!EmittedKeys
  <2>2. k \in Keys
    BY <2>1
  <2>3. <<i, k>> \in AllPairs
    BY <2>1, <2>2 DEF AllPairs, Pairs
  <2> QED
    BY <2>2, <2>3 DEF Pairs
<1>3. \A p \in Pairs : p \in S <=> p \in AllPairs /\ p[2] = k
  BY DEF Pairs, AllPairs
<1>4. Job!Group(k) = SetToBag(S) /\ GroupOf(emits, k) = SetToBag(S)
  BY DEF Job!Group, Job!SetToBag, SetToBag, GroupOf
<1> HIDE DEF S
<1>5. ASSUME k \in Job!EmittedKeys
      PROVE  /\ Job!Group(k) \in Bag
             /\ \A p \in Pairs : Copies(p, Job!Group(k)) = IF p \in AllPairs /\ p[2] = k THEN 1 ELSE 0
  BY <1>2, <1>3, <1>4, <1>5, BagOfSet DEF Bag
<1>6. k \in Job!EmittedKeys => GroupOf(emits, k) \in Groups(emits)
  BY DEF Groups, Job!EmittedKeys
<1> QED
  BY <1>1, <1>2, <1>4, <1>5, <1>6

\* The heap is full, and its top is the first key.
LEMMA BuildingStarts ==
    ASSUME JobInv, DataType, GroupInv, NEW t \in Threads, ShuffleTop(t), BagToSet(all_pairs) # {}
    PROVE  Building(last_key', all_pairs', saving')
<1>1. all_pairs' = SetToBag(AllPairs) /\ last_key' = MinKey(all_pairs') /\ saving' = EmptyBag
      /\ BagToSet(all_pairs') # {}
  BY DEF ShuffleTop, At, GroupInv, TopPending
<1>2. AllPairs \in SUBSET Pairs
  BY DEF AllPairs
<1>3. /\ all_pairs' \in Bag
      /\ \A p : Copies(p, all_pairs') = IF p \in AllPairs THEN 1 ELSE 0
  BY <1>1, <1>2, BagOfSet DEF Bag
<1>4. BagToSet(all_pairs') = DOMAIN all_pairs' /\ \A p : Copies(p, all_pairs') # 0 <=> p \in DOMAIN all_pairs'
  BY <1>3, BagFacts DEF Bag
<1> DEFINE heap == all_pairs'
           key == last_key'
<1>5. /\ \E p \in BagToSet(heap) : p \in Pairs /\ p[2] = key
      /\ \A p \in BagToSet(heap) : key <= p[2]
  BY <1>1, <1>3, MinKeyIs
<1>6. BagToSet(heap) = AllPairs
  BY <1>3, <1>4
<1>7. key \in Job!EmittedKeys
  <2>1. PICK p \in AllPairs : p[2] = key
    BY <1>5, <1>6
  <2>2. \A q \in AllPairs : q[2] \in Job!EmittedKeys
    BY GroupIs DEF DataType
  <2> QED
    BY <2>1, <2>2
<1>8. key \in Int /\ \A p \in Pairs : p[2] \in Int
  BY <1>5, KeysAssumption DEF Pairs
<1>9. \A p : Copies(p, saving') = 0
  BY <1>1, BagOfNothing
<1> HIDE DEF heap, key
<1>10. \A p : Copies(p, heap) = IF p \in AllPairs THEN 1 ELSE 0
  BY <1>3 DEF heap
<1>11. Building(key, heap, saving')
  BY <1>5, <1>6, <1>7, <1>8, <1>9, <1>10 DEF Building
<1> QED
  BY <1>11 DEF heap, key

\* A pair moves from the heap to the group.
LEMMA BuildingPops ==
    ASSUME JobInv, DataType, Conserved, Building(last_key, all_pairs, saving),
           NEW x \in BagToSet(all_pairs), x[2] = last_key
    PROVE  LET heap == all_pairs (-) SetToBag({x})
               group == saving (+) SetToBag({x})
           IN  /\ Building(last_key, heap, group)
               /\ BagToSet(heap) = {} => group = Job!Group(last_key)
<1>1. x \in DOMAIN all_pairs /\ x \in Pairs /\ all_pairs \in Bag /\ saving \in Bag
  BY BagFacts DEF Bag, DataType
<1> DEFINE one == SetToBag({x})
           heap == all_pairs (-) one
           group == saving (+) one
<1>2. one \in Bag /\ \A p : Copies(p, one) = IF p = x THEN 1 ELSE 0
  <2>1. {x} \in SUBSET Pairs
    BY <1>1
  <2> QED
    BY <2>1, BagOfSet DEF Bag
<1>3. heap \in Bag /\ \A p : Copies(p, heap) = IF p = x THEN Copies(p, all_pairs) - 1 ELSE Copies(p, all_pairs)
  BY <1>1, BagLess DEF Bag
<1> HIDE DEF one
<1>4. group \in Bag /\ \A p : Copies(p, group) = Copies(p, saving) + Copies(p, one)
  BY <1>1, <1>2, BagSum DEF Bag
<1> HIDE DEF heap, group
<1>5. Copies(x, all_pairs) # 0 /\ Copies(x, all_pairs) \in Nat
  BY <1>1, BagFacts DEF Bag
<1>6. x \in AllPairs
  BY <1>1, <1>5, PlaceOfPair
<1>7. \A p \in Pairs : /\ Copies(p, all_pairs) \in Nat /\ Copies(p, saving) \in Nat
                       /\ (Copies(p, saving) > 0 => p \in AllPairs)
  BY PlaceOfPair
<1>8. \A p \in Pairs : p[2] \in Int
  BY KeysAssumption DEF Pairs
<1>9. Building(last_key, heap, group)
  <2> SUFFICES ASSUME NEW p \in Pairs
               PROVE  /\ Copies(p, group) > 0 => p[2] = last_key
                      /\ Copies(p, heap) > 0 => p[2] >= last_key
                      /\ p[2] = last_key /\ p \in AllPairs => Copies(p, group) + Copies(p, heap) = 1
                      /\ p[2] > last_key /\ p \in AllPairs => Copies(p, heap) = 1
    BY DEF Building
  <2>1. /\ Copies(p, saving) > 0 => p[2] = last_key
        /\ Copies(p, all_pairs) > 0 => p[2] >= last_key
        /\ p[2] = last_key /\ p \in AllPairs => Copies(p, saving) + Copies(p, all_pairs) = 1
        /\ p[2] > last_key /\ p \in AllPairs => Copies(p, all_pairs) = 1
    BY DEF Building
  <2>2. CASE p = x
    <3>1. Copies(p, group) = Copies(p, saving) + 1 /\ Copies(p, heap) = Copies(p, all_pairs) - 1
      BY <1>2, <1>3, <1>4, <2>2
    <3>2. p[2] = last_key /\ p[2] \in Int /\ p \in AllPairs
      BY <1>6, <1>8, <2>2
    <3>3. Copies(p, saving) + Copies(p, all_pairs) = 1
      BY <2>1, <3>2
    <3>4. Copies(p, all_pairs) \in Nat /\ Copies(p, saving) \in Nat
      BY <1>7
    <3>5. Copies(p, group) + Copies(p, heap) = 1
      BY <3>1, <3>3, <3>4
    <3>6. p[2] >= last_key /\ ~(p[2] > last_key)
      BY <3>2
    <3> QED
      BY <3>2, <3>5, <3>6
  <2>3. CASE p # x
    <3>1. Copies(p, group) = Copies(p, saving) + 0 /\ Copies(p, heap) = Copies(p, all_pairs)
      BY <1>2, <1>3, <1>4, <2>3
    <3> QED
      BY <1>7, <2>1, <3>1
  <2> QED
    BY <2>2, <2>3
<1>10. ASSUME BagToSet(heap) = {}
       PROVE  group = Job!Group(last_key)
  <2>1. last_key \in Job!EmittedKeys
    BY DEF Building
  <2>2. /\ Job!Group(last_key) \in Bag
        /\ \A p \in Pairs : Copies(p, Job!Group(last_key)) = IF p \in AllPairs /\ p[2] = last_key THEN 1 ELSE 0
    BY <2>1, GroupIs DEF DataType
  <2>3. \A p : Copies(p, heap) = 0
    BY <1>3, <1>10, BagOfNothing DEF Bag
  <2>4. ASSUME NEW p \in Pairs PROVE Copies(p, group) = Copies(p, Job!Group(last_key))
    <3>1. /\ Copies(p, group) > 0 => p[2] = last_key
          /\ p[2] = last_key /\ p \in AllPairs => Copies(p, group) + Copies(p, heap) = 1
      BY <1>9 DEF Building
    <3>2. Copies(p, group) \in Nat
      BY <1>4, CopiesNat
    <3>3. Copies(p, group) > 0 => p \in AllPairs
      BY <1>2, <1>4, <1>6, <1>7
    <3> QED
      BY <2>2, <2>3, <3>1, <3>2, <3>3
  <2> QED
    BY <1>4, <2>2, <2>4, BagsEqual DEF Bag
<1> QED
  BY <1>9, <1>10 DEF heap, group, one

\* The heap has no more pair of the group: it is finished, and another one begins.
LEMMA BuildingNext ==
    ASSUME JobInv, DataType, Conserved, Building(last_key, all_pairs, saving),
           BagToSet(all_pairs) # {}, MinKey(all_pairs) # last_key
    PROVE  /\ saving = Job!Group(last_key)
           /\ Building(MinKey(all_pairs), all_pairs, EmptyBag)
<1> DEFINE key == MinKey(all_pairs)
<1>1. all_pairs \in Bag /\ saving \in Bag
  BY DEF DataType
<1>2. BagToSet(all_pairs) = DOMAIN all_pairs /\ DOMAIN all_pairs \subseteq Pairs
      /\ \A p : Copies(p, all_pairs) \in Nat /\ (Copies(p, all_pairs) # 0 <=> p \in DOMAIN all_pairs)
  BY <1>1, BagFacts DEF Bag
<1>3. /\ key \in Keys
      /\ \E p \in BagToSet(all_pairs) : p \in Pairs /\ p[2] = key
      /\ \A p \in BagToSet(all_pairs) : key <= p[2]
  BY <1>1, MinKeyIs
<1> HIDE DEF key
<1>4. PICK x \in Pairs : x[2] = key /\ Copies(x, all_pairs) > 0
  BY <1>2, <1>3
<1>5. x \in AllPairs
  BY <1>4, PlaceOfPair
<1>6. key \in Job!EmittedKeys
  BY <1>4, <1>5, GroupIs DEF DataType
<1>7. last_key \in Job!EmittedKeys
  BY DEF Building
<1>8. /\ Job!Group(last_key) \in Bag
      /\ \A p \in Pairs : Copies(p, Job!Group(last_key)) = IF p \in AllPairs /\ p[2] = last_key THEN 1 ELSE 0
      /\ \E p \in AllPairs : p[2] = last_key
  BY <1>7, GroupIs DEF DataType
<1>9. key \in Int /\ last_key \in Int /\ \A p \in Pairs : p[2] \in Int
  BY <1>3, <1>8, KeysAssumption DEF Pairs, AllPairs
<1>10. key > last_key
  <2>1. key >= last_key
    BY <1>4 DEF Building
  <2>2. key # last_key
    BY DEF key
  <2> QED
    BY <1>9, <2>1, <2>2
<1>11. \A p \in Pairs : Copies(p, all_pairs) > 0 => p[2] >= key
  BY <1>2, <1>3, <1>9
<1>12. ASSUME NEW p \in Pairs PROVE Copies(p, saving) = Copies(p, Job!Group(last_key))
  <2>1. /\ Copies(p, saving) > 0 => p[2] = last_key
        /\ p[2] = last_key /\ p \in AllPairs => Copies(p, saving) + Copies(p, all_pairs) = 1
    BY DEF Building
  <2>2. p[2] = last_key => Copies(p, all_pairs) = 0
    BY <1>2, <1>9, <1>10, <1>11
  <2>3. Copies(p, saving) \in Nat /\ (Copies(p, saving) > 0 => p \in AllPairs)
    BY PlaceOfPair
  <2> QED
    BY <1>8, <2>1, <2>2, <2>3
<1>13. saving = Job!Group(last_key)
  BY <1>1, <1>8, <1>12, BagsEqual DEF Bag
<1>14. Building(key, all_pairs, EmptyBag)
  <2> SUFFICES ASSUME NEW p \in Pairs
               PROVE  /\ Copies(p, EmptyBag) > 0 => p[2] = key
                      /\ Copies(p, all_pairs) > 0 => p[2] >= key
                      /\ p[2] = key /\ p \in AllPairs => Copies(p, EmptyBag) + Copies(p, all_pairs) = 1
                      /\ p[2] > key /\ p \in AllPairs => Copies(p, all_pairs) = 1
    BY <1>6 DEF Building
  <2>1. Copies(p, EmptyBag) = 0
    BY BagOfNothing
  <2>2. p[2] > last_key /\ p \in AllPairs => Copies(p, all_pairs) = 1
    BY DEF Building
  <2> QED
    BY <1>2, <1>9, <1>10, <1>11, <2>1, <2>2
<1> QED
  BY <1>13, <1>14 DEF key


\* A step that touches no group, or moves one that is in a thread's hands.
LEMMA GroupKept ==
    ASSUME JobInv, DataType, GroupInv, NEW t \in Threads, ThreadStep(t),
           UNCHANGED <<vector_of_vectors, all_pairs, saving, last_key>>,
           SHUFFLE_STAGE \in set_flags' => SHUFFLE_STAGE \in set_flags,
           ~ShuffleStart(t), ~ShuffleTop(t),
           pc'[t] \in {"reduce_call", "reduce_count"} =>
              pc[t] = "reduce_call" /\ element'[t] = element[t],
           \A u \in Threads \ {t} : element'[u] = element[u]
    PROVE  GroupInv'
<1>1. /\ emits' = emits /\ \A u \in Threads \ {t} : pc'[u] = pc[u]
  BY StepFrame DEF client_vars
<1>2. AllPairs' = AllPairs /\ Job!EmittedKeys' = Job!EmittedKeys
  BY <1>1 DEF AllPairs, Job!EmittedKeys
<1>3. \A u \in Threads : pc'[u] \in {"reduce_call", "reduce_count"} => element'[u] \in Groups(emits)
  BY <1>1 DEF GroupInv
<1>4. TopPending' <=> TopPending
  BY TopKept
<1> QED
  BY <1>1, <1>2, <1>3, <1>4 DEF GroupInv, Building

\* A step of a thread preserves GroupInv.
LEMMA GroupThread ==
    ASSUME JobInv, DataType, FlowInv, Conserved, GroupInv, NEW t \in Threads, ThreadStep(t)
    PROVE  GroupInv'
<1> USE DEF At, Goto
<1> USE DEF UNDEFINED_STAGE, MAP_STAGE, SHUFFLE_STAGE, REDUCE_STAGE
<1>0. /\ StageInv /\ StageInv' /\ AllPairs' = AllPairs /\ emits' = emits
      /\ Job!EmittedKeys' = Job!EmittedKeys
      /\ \A u \in Threads \ {t} : pc'[u] = pc[u]
      /\ ~ShuffleStart(t) /\ ~ShuffleTop(t) => (TopPending' <=> TopPending)
  BY StageThread, StepFrame, TopKept DEF JobInv, AllPairs, Job!EmittedKeys, client_vars
<1>1. CASE SetMap(t) \/ MapCall(t) \/ ReduceEnter(t)
  <2>1. /\ UNCHANGED <<vector_of_vectors, all_pairs, saving, last_key, element>>
        /\ SHUFFLE_STAGE \in set_flags' => SHUFFLE_STAGE \in set_flags
        /\ pc'[t] \notin {"reduce_call", "reduce_count"}
        /\ ~ShuffleStart(t) /\ ~ShuffleTop(t)
    BY <1>0, <1>1 DEF SetMap, MapCall, ReduceEnter, ShuffleStart, ShuffleTop, SetAtomic,
       counter_vars, later_vars, shuffle_vars, reduce_vars, StageInv
  <2> QED
    BY <2>1, GroupKept
<1>2. CASE QuietStep(t) /\ ~ReduceEnter(t)
  <2>1. UNCHANGED set_flags
    BY <1>2 DEF QuietStep, MapTest, MapLock, MapCheck, MapClaim, ArriveMapped, LeaveMapped,
       ArriveShuffled, LeaveShuffled, ShuffleEnd, ReduceTest, ReduceWait,
       ReduceCheck, ReduceLock, ReduceExit, counter_vars, data_vars
  <2>2. UNCHANGED <<vector_of_vectors, all_pairs, saving, last_key, element>>
    BY <1>2, QuietFrame DEF pair_vars
  <2>3. ~ShuffleStart(t) /\ ~ShuffleTop(t)
    BY <1>2 DEF QuietStep, MapTest, MapLock, MapCheck, MapClaim, ArriveMapped, LeaveMapped,
       ArriveShuffled, LeaveShuffled, ShuffleEnd, ReduceTest, ReduceWait, ReduceCheck, ReduceLock,
       ReduceExit, ShuffleStart, ShuffleTop
  <2> QED
    BY <1>2, <2>1, <2>2, <2>3, QuietPlaces, GroupKept
<1>3. CASE Sort(t)
  <2>1. /\ pc[t] = "sort" /\ pc'[t] \in {"sort", "barrier"}
        /\ UNCHANGED <<all_pairs, saving, last_key, element, set_flags>>
        /\ (TopPending' <=> TopPending)
    BY <1>0, <1>3 DEF Sort, ShuffleStart, ShuffleTop, counter_vars, shuffle_vars, reduce_vars, StageInv
  <2>2. SHUFFLE_STAGE \notin set_flags
    BY <2>1, WhileMapping DEF Before1, MapPcs
  <2> QED
    BY <1>0, <2>1, <2>2 DEF GroupInv
<1>4. CASE ShuffleStart(t)
  <2>1. /\ pc[t] = "shuffle" /\ pc'[t] = "shuffle_top" /\ vector_of_vectors' = <<>>
        /\ UNCHANGED element
    BY <1>0, <1>4 DEF ShuffleStart, reduce_vars, StageInv
  <2>2. \A u \in Threads : pc'[u] \notin {"reduce_call", "reduce_count"}
    BY <1>0, <2>1, AtShuffleStart
  <2>3. TopPending' /\ all_pairs' = SetToBag(AllPairs)
    BY <1>4, <2>1, CountShuffleStart DEF TopPending
  <2>4. \A n : n \notin DOMAIN vector_of_vectors'
    BY <2>1
  <2> QED
    BY <1>0, <2>2, <2>3, <2>4 DEF GroupInv
<1>5. CASE ShufflePop(t)
  <2>1. PICK x \in BagToSet(all_pairs) :
          /\ x[2] = last_key
          /\ all_pairs' = all_pairs (-) SetToBag({x})
          /\ IF BagToSet(all_pairs') = {}
               THEN Flush(saving (+) SetToBag({x}))
               ELSE saving' = saving (+) SetToBag({x}) /\ UNCHANGED vector_of_vectors
    BY <1>5 DEF ShufflePop
  <2>2. /\ pc[t] = "shuffle_loop" /\ UNCHANGED <<pc, last_key, element, set_flags>>
    BY <1>5 DEF ShufflePop, reduce_vars
  <2>3. SHUFFLE_STAGE \in set_flags /\ ~TopPending /\ ~TopPending'
    BY <2>2, InShuffleStage DEF TopPending
  <2>4. BagToSet(EmptyBag) = {}
    BY DEF BagToSet, EmptyBag, SetToBag
  <2>5. Building(last_key, all_pairs, saving)
    BY <2>1, <2>3, <2>4 DEF GroupInv
  <2> DEFINE group == saving (+) SetToBag({x})
  <2>6. /\ Building(last_key, all_pairs', group)
        /\ BagToSet(all_pairs') = {} => group = Job!Group(last_key)
    BY <2>1, <2>5, BuildingPops
  <2> HIDE DEF group
  <2>7. \A n \in DOMAIN vector_of_vectors : vector_of_vectors[n] \in Groups(emits)
    BY <2>3 DEF GroupInv
  <2>8. \A u \in Threads : pc'[u] \in {"reduce_call", "reduce_count"} => element'[u] \in Groups(emits)
    BY <2>2 DEF GroupInv
  <2>9. CASE BagToSet(all_pairs') = {}
    <3>1. vector_of_vectors' = Append(vector_of_vectors, group)
      BY <2>1, <2>9 DEF Flush, group
    <3>2. group \in Groups(emits)
      BY <2>6, <2>9, GroupIs DEF DataType, Building
    <3>3. \A n \in DOMAIN vector_of_vectors' : vector_of_vectors'[n] \in Groups(emits)
      BY <2>7, <3>1, <3>2 DEF DataType
    <3>4. all_pairs' = EmptyBag
      <4>1. all_pairs' \in Bag
        BY DataTypeThread DEF DataType
      <4> QED
        BY <2>9, <4>1, BagOfNothing DEF Bag
    <3> QED
      BY <1>0, <2>3, <2>8, <3>3, <3>4 DEF GroupInv
  <2>10. CASE BagToSet(all_pairs') # {}
    <3>1. UNCHANGED vector_of_vectors /\ saving' = group
      BY <2>1, <2>10 DEF group
    <3>2. Building(last_key, all_pairs, saving)'
      BY <1>0, <2>2, <2>6, <3>1 DEF Building
    <3> QED
      BY <1>0, <2>3, <2>7, <2>8, <3>1, <3>2 DEF GroupInv
  <2> QED
    BY <2>9, <2>10
<1>6. CASE ShuffleNextKey(t)
  <2>1. /\ pc[t] = "shuffle_loop" /\ BagToSet(all_pairs) # {} /\ MinKey(all_pairs) # last_key
        /\ vector_of_vectors' = Append(vector_of_vectors, saving)
        /\ saving' = EmptyBag /\ last_key' = MinKey(all_pairs)
        /\ UNCHANGED <<pc, all_pairs, element, set_flags>>
    BY <1>6 DEF ShuffleNextKey, Flush, reduce_vars, counter_vars
  <2>2. SHUFFLE_STAGE \in set_flags /\ ~TopPending /\ ~TopPending'
    BY <2>1, InShuffleStage DEF TopPending
  <2>3. BagToSet(EmptyBag) = {}
    BY DEF BagToSet, EmptyBag, SetToBag
  <2>4. Building(last_key, all_pairs, saving)
    BY <2>1, <2>2, <2>3 DEF GroupInv
  <2>5. saving = Job!Group(last_key) /\ Building(MinKey(all_pairs), all_pairs, EmptyBag)
    BY <2>1, <2>4, BuildingNext
  <2>6. saving \in Groups(emits)
    BY <2>4, <2>5, GroupIs DEF DataType, Building
  <2>7. Building(last_key, all_pairs, saving)'
    BY <1>0, <2>1, <2>5 DEF Building
  <2>8. \A n \in DOMAIN vector_of_vectors : vector_of_vectors[n] \in Groups(emits)
    BY <2>2 DEF GroupInv
  <2>9. \A n \in DOMAIN vector_of_vectors' : vector_of_vectors'[n] \in Groups(emits)
    BY <2>1, <2>6, <2>8 DEF DataType
  <2>10. \A u \in Threads : pc'[u] \in {"reduce_call", "reduce_count"} => element'[u] \in Groups(emits)
    BY <2>1 DEF GroupInv
  <2> QED
    BY <1>0, <2>2, <2>7, <2>9, <2>10 DEF GroupInv
<1>7. CASE ReduceTake(t)
  <2>1. /\ pc[t] = "reduce_take" /\ vector_of_vectors # <<>>
        /\ element' = [element EXCEPT ![t] = Head(vector_of_vectors)]
        /\ vector_of_vectors' = Tail(vector_of_vectors)
        /\ UNCHANGED <<all_pairs, saving, last_key, set_flags>>
        /\ (TopPending' <=> TopPending)
    BY <1>0, <1>7 DEF ReduceTake, ShuffleStart, ShuffleTop, earlier_vars, shuffle_vars, counter_vars, JobInv, TokenInv
  <2>2. SHUFFLE_STAGE \in set_flags
    BY <2>1, WhileReducing DEF Reducing, ReducePcs
  <2>3. vector_of_vectors \in Seq(Bag) /\ element \in [Threads -> Bag]
    BY DEF DataType
  <2>4. \A n \in DOMAIN vector_of_vectors : vector_of_vectors[n] \in Groups(emits)
    BY <2>2 DEF GroupInv
  <2>5. \A n \in DOMAIN vector_of_vectors' : vector_of_vectors'[n] \in Groups(emits)
    BY <2>1, <2>3, <2>4
  <2>6. Head(vector_of_vectors) \in Groups(emits)
    BY <2>1, <2>3, <2>4
  <2>7. \A u \in Threads : pc'[u] \in {"reduce_call", "reduce_count"} => element'[u] \in Groups(emits)
    BY <1>0, <2>1, <2>3, <2>6 DEF GroupInv
  <2> QED
    BY <1>0, <2>1, <2>5, <2>7 DEF GroupInv, Building
<1>8. CASE ReduceCall(t)
  <2>1. /\ pc[t] = "reduce_call"
        /\ UNCHANGED <<vector_of_vectors, all_pairs, saving, last_key, element, set_flags>>
        /\ ~ShuffleStart(t) /\ ~ShuffleTop(t)
    BY <1>8 DEF ReduceCall, ShuffleStart, ShuffleTop, earlier_vars, counter_vars, shuffle_vars
  <2> QED
    BY <2>1, GroupKept
<1>9. CASE ReduceCount(t)
  <2>1. /\ pc'[t] = "reduce_test" /\ element' = [element EXCEPT ![t] = EmptyBag]
        /\ UNCHANGED <<vector_of_vectors, all_pairs, saving, last_key, set_flags>>
        /\ ~ShuffleStart(t) /\ ~ShuffleTop(t)
    BY <1>0, <1>9 DEF ReduceCount, ShuffleStart, ShuffleTop, earlier_vars, shuffle_vars, StageInv
  <2> QED
    BY <2>1, GroupKept DEF DataType
<1>10. CASE ShuffleTop(t)
  <2>1. /\ pc[t] = "shuffle_top" /\ pc'[t] = "shuffle_loop"
        /\ UNCHANGED <<vector_of_vectors, all_pairs, element, set_flags>>
    BY <1>0, <1>10 DEF ShuffleTop, counter_vars, reduce_vars, StageInv
  <2>2. SHUFFLE_STAGE \in set_flags /\ ~TopPending'
    <3>1. \A u \in Threads : pc[u] = "shuffle_top" => u = t
      BY <1>0, <2>1 DEF StageInv
    <3> QED
      BY <1>0, <2>1, <3>1, InShuffleStage DEF TopPending
  <2>3. all_pairs # EmptyBag => Building(last_key', all_pairs', saving')
    <3>1. all_pairs # EmptyBag => BagToSet(all_pairs) # {}
      BY BagOfNothing DEF DataType, Bag
    <3> QED
      BY <1>10, <3>1, BuildingStarts
  <2>4. all_pairs' # EmptyBag => Building(last_key, all_pairs, saving)'
    BY <1>0, <2>1, <2>3 DEF Building
  <2> QED
    BY <1>0, <2>1, <2>2, <2>4 DEF GroupInv
<1> QED
  BY <1>1, <1>2, <1>3, <1>4, <1>5, <1>6, <1>7, <1>8, <1>9, <1>10 DEF ThreadStep, QuietStep

-----------------------------------------------------------------------------
(* The client, and the invariants together.                                *)

\* The invariant of the data, inductive together with JobInv.
DataInv == DataType /\ FlowInv /\ Conserved /\ CountInv /\ ClientInv /\ GroupInv

\* Before the job starts every place is empty.
LEMMA DataInit == Init => DataInv
<1> SUFFICES ASSUME Init PROVE DataInv
  OBVIOUS
<1> USE DEF UNDEFINED_STAGE, MAP_STAGE, SHUFFLE_STAGE, REDUCE_STAGE
<1>1. /\ \A t \in Threads : /\ pc[t] = "new" /\ index[t] = 0
                            /\ intermediate[t] = <<>> /\ element[t] = EmptyBag
      /\ vector_of_vectors = <<>> /\ all_pairs = EmptyBag /\ saving = EmptyBag /\ output = <<>>
      /\ set_flags = {} /\ done_map = FALSE /\ finished_shuffle = FALSE /\ num_of_pairs = 0
      /\ progress.stage = UNDEFINED_STAGE /\ progress.todo = 0 /\ progress.done = 0
      /\ client = "start" /\ turn = 0
  BY DEF Init
<1>2. <<>> \in Seq(Bag) /\ EmptyBag \in Bag /\ Collected(<<>>) = EmptyBag
  BY CollectedNothing, BagOfNothing DEF Bag
<1>3. DataType
  <2>1. index \in [Threads -> Inputs]
    <3>1. \A t \in Threads : 0 \in Inputs
      BY NumInputsAssumption, MultiThreadLevelAssumption DEF Inputs, Threads, NumOfThreads
    <3> QED
      BY <3>1 DEF Init
  <2> QED
    BY <1>1, <1>2, <2>1 DEF Init, DataType
<1>4. FlowInv
  BY <1>1 DEF FlowInv, LoopPcs, MapPcs
<1>5. Mapped = {}
  BY <1>1 DEF Mapped
<1>6. Conserved
  <2>1. HeldBy(intermediate) = EmptyBag
    BY <1>1, <1>3, HeldNothing DEF DataType
  <2>2. pc \in [Threads -> Pcs]
    BY DEF Init, Pcs
  <2>3. Collected(Hands(pc, element, "reduce_call")) = EmptyBag
    BY <1>1, <1>3, <2>2, HandsEmpty DEF DataType
  <2>4. \A p : Copies(p, EmptyBag) = 0
    BY BagOfNothing
  <2>5. \A p : Place(p) = 0
    BY <1>1, <1>2, <2>1, <2>3, <2>4 DEF Place
  <2> QED
    BY <1>5, <2>5 DEF Conserved
<1>7. CountInv
  BY <1>1 DEF CountInv
<1>8. ClientInv
  BY <1>1, ThreadNumbers DEF ClientInv
<1>9. GroupInv
  BY <1>1 DEF GroupInv, TopPending
<1> QED
  BY <1>3, <1>4, <1>6, <1>7, <1>8, <1>9 DEF DataInv

\* A step of a thread preserves DataInv.
LEMMA DataThread ==
    ASSUME JobInv, DataInv, NEW t \in Threads, ThreadStep(t)
    PROVE  DataInv'
<1> USE DEF DataInv
<1>1. ClientInv'
  <2>1. /\ pc[t] # "done" /\ client' = client /\ turn' = turn
        /\ \A u \in Threads \ {t} : pc'[u] = pc[u]
    BY StepFrame DEF client_vars
  <2> QED
    BY <2>1 DEF ClientInv
<1> QED
  BY <1>1, DataTypeThread, FlowThread, ConservedThread, CountThread, GroupThread

\* The data that the client's calls leave alone.
LEMMA DataFrame ==
    ASSUME DataInv, UNCHANGED <<emits, data_vars>>,
           status' = status \/ status' = "failed",
           Collected(Hands(pc', element, "reduce_call")) = Collected(Hands(pc, element, "reduce_call")),
           Collected(Hands(pc', element, "reduce_count")) = Collected(Hands(pc, element, "reduce_count")),
           InMap' = InMap,
           \A t \in Threads : \/ pc'[t] = pc[t]
                              \/ pc[t] = "new" /\ pc'[t] = "set_map"
    PROVE  DataType' /\ FlowInv' /\ Conserved' /\ CountInv' /\ GroupInv'
<1> USE DEF data_vars, later_vars, counter_vars, map_vars, shuffle_vars, reduce_vars, DataInv
<1>1. AllPairs' = AllPairs /\ Job!EmittedKeys' = Job!EmittedKeys
  BY DEF AllPairs, Job!EmittedKeys
<1>2. Mapped' = Mapped
  BY DEF Mapped, InMap
<1>3. DataType'
  BY DEF DataType
<1>4. FlowInv'
  BY DEF FlowInv, LoopPcs, MapPcs
<1>5. ASSUME NEW p \in Pairs PROVE Place(p)' = Place(p)
  BY DEF Place
<1>6. Conserved'
  BY <1>1, <1>2, <1>5 DEF Conserved
<1>7. TopPending' <=> TopPending
  BY DEF TopPending
<1>8. CountInv'
  BY <1>1, <1>7 DEF CountInv
<1>9. GroupInv'
  BY <1>1, <1>7 DEF GroupInv, Building
<1> QED
  BY <1>3, <1>4, <1>6, <1>8, <1>9

\* A step of the client, or a failing pthread_create, touches no pair.
LEMMA DataClient ==
    ASSUME JobInv, DataInv, ClientStep \/ CreateFails \/ UNCHANGED vars
    PROVE  DataInv'
<1>1. CASE Create /\ turn < NumOfThreads
  <2>1. /\ client = "start" /\ turn' = turn + 1 /\ UNCHANGED client
        /\ pc' = [pc EXCEPT ![turn] = "set_map"] /\ UNCHANGED <<emits, data_vars, status>>
    BY <1>1 DEF Create, ClientAt, Goto
  <2>2. turn \in Threads /\ turn' \in 0 .. NumOfThreads
    BY <1>1, <2>1, ThreadNumbers DEF DataInv, ClientInv, Threads
  <2>3. pc \in [Threads -> Pcs] /\ pc[turn] = "new" /\ pc'[turn] = "set_map"
        /\ \A u \in Threads \ {turn} : pc'[u] = pc[u]
    BY <2>1, <2>2 DEF JobInv, StageInv
  <2>4. InMap' = InMap
    BY <2>1, <2>3 DEF InMap, data_vars, map_vars
  <2>5. ASSUME NEW here \in {"reduce_call", "reduce_count"}
        PROVE  Hands(pc', element, here) = Hands(pc, element, here)
    <3>1. \A n \in 1 .. NumOfThreads : n - 1 \in Threads
      BY ThreadNumbers DEF Threads
    <3>2. \A u \in Threads : pc'[u] = here <=> pc[u] = here
      BY <2>3
    <3> QED
      BY <3>1, <3>2 DEF Hands
  <2>6. DataType' /\ FlowInv' /\ Conserved' /\ CountInv' /\ GroupInv'
    BY <2>1, <2>3, <2>4, <2>5, DataFrame
  <2>7. ClientInv'
    BY <2>1, <2>2 DEF ClientInv, DataInv
  <2> QED
    BY <2>6, <2>7 DEF DataInv
<1>2. CASE (Create /\ ~(turn < NumOfThreads)) \/ Join \/ Close \/ CreateFails \/ UNCHANGED vars
  <2>1. /\ UNCHANGED <<emits, data_vars, pc>> /\ (status' = status \/ status' = "failed")
    BY <1>2 DEF Create, Join, Close, CreateFails, vars, client_vars, data_vars, later_vars,
       counter_vars, map_vars, shuffle_vars, reduce_vars, barrier_vars
  <2>2. InMap' = InMap
    BY <2>1 DEF InMap, data_vars, map_vars
  <2>3. DataType' /\ FlowInv' /\ Conserved' /\ CountInv' /\ GroupInv'
    BY <2>1, <2>2, DataFrame
  <2>4. ClientInv'
    <3> USE DEF DataInv, ClientInv, ClientAt
    <3>1. CASE Create /\ ~(turn < NumOfThreads)
      BY <2>1, <3>1, ThreadNumbers DEF Create, Threads
    <3>2. CASE Join
      <4>1. CASE turn < NumOfThreads
        BY <2>1, <3>2, <4>1, ThreadNumbers DEF Join, Threads
      <4>2. CASE ~(turn < NumOfThreads)
        <5>1. \A t \in Threads : t < turn
          BY <4>2, ThreadNumbers DEF Threads
        <5> QED
          BY <2>1, <3>2, <4>2, <5>1 DEF Join
      <4> QED
        BY <4>1, <4>2
    <3>3. CASE Close
      BY <2>1, <3>3 DEF Close
    <3>4. CASE CreateFails \/ UNCHANGED vars
      BY <2>1, <3>4 DEF CreateFails, vars, client_vars
    <3> QED
      BY <1>2, <3>1, <3>2, <3>3, <3>4
  <2> QED
    BY <2>3, <2>4 DEF DataInv
<1> QED
  BY <1>1, <1>2 DEF ClientStep

\* DataInv is an invariant, by induction along the control that JobInv describes.
THEOREM DataInvHolds == Spec => [](JobInv /\ DataInv)
<1>1. JobInv /\ DataInv /\ [Next]_vars => DataInv'
  <2> SUFFICES ASSUME JobInv, DataInv, [Next]_vars PROVE DataInv'
    OBVIOUS
  <2>1. ASSUME NEW t \in Threads, ThreadStep(t) PROVE DataInv'
    BY <2>1, DataThread
  <2>2. CASE ClientStep \/ CreateFails \/ Stutter \/ UNCHANGED vars
    BY <2>2, DataClient DEF Stutter
  <2> QED
    BY <2>1, <2>2 DEF Next
<1> QED
  BY <1>1, DataInit, JobInvHolds, PTL DEF Spec


-----------------------------------------------------------------------------
(* What follows for the properties of the runs.                            *)

\* From the shuffle stage on, its flag is set; in every stage but the first there are threads.
LEMMA StageFlags ==
    ASSUME StageInv
    PROVE  /\ progress.stage \in {UNDEFINED_STAGE, MAP_STAGE, SHUFFLE_STAGE, REDUCE_STAGE}
           /\ progress.stage \in {SHUFFLE_STAGE, REDUCE_STAGE} <=> SHUFFLE_STAGE \in set_flags
           /\ progress.stage # UNDEFINED_STAGE => MainTId \in Threads /\ NumInputs > 0
<1> USE DEF UNDEFINED_STAGE, MAP_STAGE, SHUFFLE_STAGE, REDUCE_STAGE
<1>1. progress.stage # UNDEFINED_STAGE => set_flags # {}
  BY DEF StageInv
<1>2. set_flags # {} => MainTId \in Threads
  BY ThreadNumbers DEF StageInv
<1>3. MainTId \in Threads => NumInputs > 0
  BY NumInputsAssumption, MultiThreadLevelAssumption DEF Threads, NumOfThreads, MainTId
<1>4. REDUCE_STAGE \in set_flags => SHUFFLE_STAGE \in set_flags
  <2> SUFFICES ASSUME REDUCE_STAGE \in set_flags PROVE SHUFFLE_STAGE \in set_flags
    OBVIOUS
  <2>1. MainTId \in Threads /\ Shuffling = {}
    BY <1>2 DEF StageInv
  <2>2. pc[MainTId] \notin Before2
    BY <2>1 DEF Shuffling
  <2> QED
    BY <2>1, <2>2 DEF StageInv, Before2
<1>5. SHUFFLE_STAGE \in set_flags <=> progress.stage \in {SHUFFLE_STAGE, REDUCE_STAGE}
  BY <1>4 DEF StageInv
<1> QED
  BY <1>1, <1>2, <1>3, <1>5 DEF StageInv

\* The types that neither JobInv nor DataInv needs.
RestType ==
    /\ done_map \in BOOLEAN
    /\ mutex_map \in Threads \union {Free}
    /\ last_key \in Keys \union {0}
    /\ finished_shuffle \in BOOLEAN
    /\ mutex_reduce \in Threads \union {Free}
    /\ b1_count \in Nat
    /\ b2_count \in Nat
    /\ spurious \in 0 .. MaxSpurious
    /\ status \in {"up", "failed", "killed"}

\* The remaining variables keep their types in a step of a thread.
LEMMA RestTypeThread ==
    ASSUME JobInv, DataType, RestType, NEW t \in Threads, ThreadStep(t)
    PROVE  RestType'
<1> USE DEF RestType, map_vars, shuffle_vars, reduce_vars, barrier_vars, later_vars, earlier_vars,
            data_vars, shuffle_vars
<1>1. CASE QuietStep(t)
  <2>1. CASE MapTest(t) \/ MapLock(t) \/ MapCheck(t) \/ MapClaim(t)
    BY <2>1 DEF MapTest, MapLock, MapCheck, MapClaim, Lock
  <2>2. CASE ArriveMapped(t)
    BY <2>2 DEF ArriveMapped, B1!Arrive
  <2>3. CASE ArriveShuffled(t)
    BY <2>3 DEF ArriveShuffled, B2!Arrive
  <2>4. CASE LeaveMapped(t) \/ LeaveShuffled(t) \/ ShuffleEnd(t)
    BY <2>4 DEF LeaveMapped, LeaveShuffled, ShuffleEnd
  <2>5. CASE ReduceEnter(t) \/ ReduceTest(t) \/ ReduceWait(t) \/ ReduceCheck(t) \/ ReduceLock(t)
             \/ ReduceExit(t)
    BY <2>5 DEF ReduceEnter, ReduceTest, ReduceWait, ReduceCheck, ReduceLock, ReduceExit, Lock
  <2> QED
    BY <1>1, <2>1, <2>2, <2>3, <2>4, <2>5 DEF QuietStep
<1>2. CASE ShuffleTop(t)
  <2>1. BagToSet(all_pairs) # {} => last_key' \in Keys
    BY <1>2, MinKeyIs DEF ShuffleTop, DataType
  <2> QED
    BY <1>2, <2>1 DEF ShuffleTop
<1>3. CASE ShuffleNextKey(t)
  <2>1. last_key' \in Keys
    BY <1>3, MinKeyIs DEF ShuffleNextKey, DataType
  <2> QED
    BY <1>3, <2>1 DEF ShuffleNextKey
<1>4. CASE SetMap(t) \/ MapCall(t) \/ Sort(t) \/ ShuffleStart(t) \/ ShufflePop(t)
  BY <1>4 DEF SetMap, MapCall, Sort, ShuffleStart, ShufflePop
<1>5. CASE ReduceTake(t) \/ ReduceCall(t) \/ ReduceCount(t)
  BY <1>5 DEF ReduceTake, ReduceCall, ReduceCount
<1> QED
  BY <1>1, <1>2, <1>3, <1>4, <1>5 DEF ThreadStep, QuietStep

(***************************************************************************)
(* The variables have their types; above all index is an input whenever    *)
(* map is called, so that inputVec.at(index) never throws (316).           *)
(***************************************************************************)
THEOREM TypeOKHolds == Spec => []TypeOK
<1>1. Init => RestType
  <2> SUFFICES ASSUME Init PROVE RestType
    OBVIOUS
  <2>1. /\ done_map = FALSE /\ mutex_map = Free /\ last_key = 0 /\ finished_shuffle = FALSE
        /\ mutex_reduce = Free /\ spurious = 0 /\ status = "up"
    BY DEF Init
  <2>2. b1_count = 0 /\ b2_count = 0
    BY DEF Init, B1!BarrierInit, B2!BarrierInit
  <2>3. 0 \in Nat /\ 0 \in 0 .. MaxSpurious
    BY MaxSpuriousAssumption
  <2> QED
    BY <2>1, <2>2, <2>3 DEF RestType
<1>2. JobInv /\ DataInv /\ RestType /\ [Next]_vars => RestType'
  <2> SUFFICES ASSUME JobInv, DataInv, RestType, [Next]_vars PROVE RestType'
    OBVIOUS
  <2>1. ASSUME NEW t \in Threads, ThreadStep(t) PROVE RestType'
    BY <2>1, RestTypeThread DEF DataInv
  <2>2. CASE ClientStep \/ CreateFails \/ Stutter \/ UNCHANGED vars
    BY <2>2 DEF ClientStep, Create, Join, Close, CreateFails, Stutter, vars, data_vars, later_vars,
       map_vars, shuffle_vars, reduce_vars, barrier_vars, RestType
  <2> QED
    BY <2>1, <2>2 DEF Next
<1>3. JobInv /\ DataInv /\ RestType => TypeOK
  <2> SUFFICES ASSUME JobInv, DataInv, RestType PROVE TypeOK
    OBVIOUS
  <2> USE DEF UNDEFINED_STAGE, MAP_STAGE, SHUFFLE_STAGE, REDUCE_STAGE
  <2>1. progress \in [stage : 0 .. 3, todo : Nat, done : Nat]
    <3>1. progress.stage \in {0, 1, 2, 3}
      BY DEF JobInv, StageInv
    <3>2. progress.todo \in Nat /\ progress.done \in Nat
      BY <3>1, NumInputsAssumption, StageFlags DEF JobInv, DataInv, CountInv, DataType
    <3>3. progress = [stage |-> progress.stage, todo |-> progress.todo, done |-> progress.done]
      BY DEF JobInv, StageInv
    <3> QED
      BY <3>1, <3>2, <3>3
  <2>2. b1_waiting \subseteq Threads /\ b2_waiting \subseteq Threads
    BY DEF JobInv, Barrier1Inv, Barrier2Inv, Waiting1, Waiting2
  <2>3. client \in {"start", "join", "close", "closed"} /\ turn \in 0 .. NumOfThreads
    BY DEF DataInv, ClientInv
  <2>4. pc \in [Threads -> Pcs] /\ set_flags \subseteq {MAP_STAGE, SHUFFLE_STAGE, REDUCE_STAGE}
        /\ sem \in Nat
    BY DEF JobInv, StageInv, TokenInv
  <2> QED
    BY <2>1, <2>2, <2>3, <2>4 DEF TypeOK, RestType, DataInv, DataType
<1> QED
  BY <1>1, <1>2, <1>3, DataInvHolds, PTL DEF Spec

\* The six places together, and all of them but the output.
LEMMA SumOfPlaces ==
    ASSUME JobInv, DataInv
    PROVE  LET elsewhere == HeldByThreads (+) Collected(vector_of_vectors) (+) all_pairs
                               (+) saving (+) BeingReduced
           IN  /\ elsewhere \in Bag /\ Collected(output) \in Bag
               /\ elsewhere (+) Collected(output) = SetToBag({p \in AllPairs : p[1] \in Mapped})
<1> DEFINE a == HeldByThreads
           b == Collected(vector_of_vectors)
           c == all_pairs
           d == saving
           e == BeingReduced
           f == Collected(output)
           S == {p \in AllPairs : p[1] \in Mapped}
<1>1. a = HeldBy(intermediate) /\ e = Collected(Hands(pc, element, "reduce_call"))
  BY DEF HeldByThreads, HeldBy, BeingReduced, Hands
<1>2. a \in Bag /\ b \in Bag /\ c \in Bag /\ d \in Bag /\ e \in Bag /\ f \in Bag
  BY <1>1, PlaceBags DEF JobInv, StageInv, DataInv
<1>3. S \in SUBSET Pairs
  BY DEF AllPairs
<1>4. \A p \in Pairs : Copies(p, a) + Copies(p, b) + Copies(p, c) + Copies(p, d) + Copies(p, e)
                         + Copies(p, f) = IF p \in S THEN 1 ELSE 0
  BY <1>1 DEF DataInv, Conserved, Place
<1> HIDE DEF a, b, c, d, e, f, S
<1>5. a (+) b \in Bag /\ \A p : Copies(p, a (+) b) = Copies(p, a) + Copies(p, b)
  BY <1>2, BagSum DEF Bag
<1> DEFINE ab == a (+) b
<1> HIDE DEF ab
<1>6. ab (+) c \in Bag /\ \A p : Copies(p, ab (+) c) = Copies(p, ab) + Copies(p, c)
  BY <1>2, <1>5, BagSum DEF Bag, ab
<1> DEFINE abc == ab (+) c
<1> HIDE DEF abc
<1>7. abc (+) d \in Bag /\ \A p : Copies(p, abc (+) d) = Copies(p, abc) + Copies(p, d)
  BY <1>2, <1>6, BagSum DEF Bag, abc
<1> DEFINE abcd == abc (+) d
<1> HIDE DEF abcd
<1>8. abcd (+) e \in Bag /\ \A p : Copies(p, abcd (+) e) = Copies(p, abcd) + Copies(p, e)
  BY <1>2, <1>7, BagSum DEF Bag, abcd
<1> DEFINE abcde == abcd (+) e
<1> HIDE DEF abcde
<1>9. abcde (+) f \in Bag /\ \A p : Copies(p, abcde (+) f) = Copies(p, abcde) + Copies(p, f)
  BY <1>2, <1>8, BagSum DEF Bag, abcde
<1>10. SetToBag(S) \in Bag /\ \A p : Copies(p, SetToBag(S)) = IF p \in S THEN 1 ELSE 0
  BY <1>3, BagOfSet DEF Bag
<1>11. ASSUME NEW p \in Pairs PROVE Copies(p, abcde (+) f) = Copies(p, SetToBag(S))
  BY <1>4, <1>5, <1>6, <1>7, <1>8, <1>9, <1>10 DEF ab, abc, abcd, abcde
<1>12. abcde (+) f = SetToBag(S)
  BY <1>9, <1>10, <1>11, BagsEqual DEF Bag
<1>13. abcde \in Bag
  BY <1>8 DEF abcde
<1> QED
  BY <1>2, <1>12, <1>13 DEF a, b, c, d, e, f, S, ab, abc, abcd, abcde

(***************************************************************************)
(* Every pair that map has emitted is in exactly one place, whatever the   *)
(* interleaving of sort_phase, shuffle_phase and reduce_phase (325-422):   *)
(* none is lost, none is handled twice.                                    *)
(***************************************************************************)
THEOREM PairsConservedHolds == Spec => []PairsConserved
<1>1. JobInv /\ DataInv => PairsConserved
  BY SumOfPlaces DEF PairsConserved
<1> QED
  BY <1>1, DataInvHolds, PTL

(***************************************************************************)
(* What getJobState reports (511) is a stage and a percentage of it, the   *)
(* share of the work of that stage that is behind the threads.  It divides *)
(* by zero before the first stage, and when map has emitted nothing also   *)
(* between the start of the shuffle stage (371) and the crash that ends    *)
(* such a job (374), and at no other moment.                               *)
(***************************************************************************)
THEOREM ReportedProgressHolds == Spec => []ReportedProgress
<1>1. JobInv /\ DataInv => ReportedProgress
  <2> SUFFICES ASSUME JobInv, DataInv, status = "up"
               PROVE  /\ progress.todo = 0 <=>
                            progress.stage = UNDEFINED_STAGE \/ (AllPairs = {} /\ TopPending)
                      /\ progress.done <= progress.todo
                      /\ progress.stage = SHUFFLE_STAGE =>
                            /\ progress.todo = Cardinality(AllPairs)
                            /\ progress.done + BagCardinality(all_pairs) = progress.todo
                      /\ progress.stage = REDUCE_STAGE =>
                            /\ progress.todo = Cardinality(AllPairs)
                            /\ progress.done + BagCardinality(Collected(Hands(pc, element, "reduce_count")))
                                 = BagCardinality(Collected(output))
    BY DEF ReportedProgress, JobState, Hands, TopPending
  <2>1. /\ progress.stage \in {UNDEFINED_STAGE, MAP_STAGE, SHUFFLE_STAGE, REDUCE_STAGE}
        /\ progress.stage \in {SHUFFLE_STAGE, REDUCE_STAGE} => SHUFFLE_STAGE \in set_flags
        /\ progress.stage # UNDEFINED_STAGE => NumInputs > 0
        /\ TopPending => progress.stage = SHUFFLE_STAGE
    <3>1. TopPending => progress.stage = SHUFFLE_STAGE
      BY InShuffleStage DEF TopPending
    <3> QED
      BY <3>1, StageFlags DEF JobInv
  <2>2. CountInv /\ progress.done \in Nat
    BY DEF DataInv, CountInv
  <2>3. CASE progress.stage = UNDEFINED_STAGE
    BY <2>2, <2>3 DEF CountInv, UNDEFINED_STAGE, SHUFFLE_STAGE, REDUCE_STAGE
  <2>4. CASE progress.stage = MAP_STAGE
    BY <2>1, <2>2, <2>4, NumInputsAssumption
       DEF CountInv, UNDEFINED_STAGE, MAP_STAGE, SHUFFLE_STAGE, REDUCE_STAGE, JobInv, ClaimInv
  <2>5. CASE progress.stage = SHUFFLE_STAGE
    <3>1. BagCardinality(all_pairs) \in Nat
      BY PairsFinite, BagCardinalities DEF DataInv, DataType, Bag
    <3>2. /\ progress.todo = Cardinality(AllPairs) /\ progress.todo \in Nat
          /\ ~TopPending => progress.todo > 0
          /\ progress.done + BagCardinality(all_pairs) = progress.todo
      BY <2>1, <2>2, <2>5 DEF CountInv, DataInv, DataType
    <3>3. progress.todo = 0 <=> AllPairs = {} /\ TopPending
      <4>1. IsFiniteSet(AllPairs)
        BY PairsFinite, FS_Subset DEF AllPairs
      <4>2. progress.todo = 0 <=> AllPairs = {}
        BY <3>2, <4>1, FS_EmptySet
      <4> QED
        BY <3>2, <4>2
    <3> QED
      BY <2>1, <2>2, <2>5, <3>1, <3>2, <3>3
         DEF UNDEFINED_STAGE, SHUFFLE_STAGE, REDUCE_STAGE
  <2>6. CASE progress.stage = REDUCE_STAGE
    <3> DEFINE counted == Collected(Hands(pc, element, "reduce_count"))
               S == {p \in AllPairs : p[1] \in Mapped}
    <3>1. PICK elsewhere \in Bag :
             Collected(output) \in Bag /\ elsewhere (+) Collected(output) = SetToBag(S)
      BY SumOfPlaces
    <3>2. /\ BagCardinality(SetToBag(S))
               = BagCardinality(elsewhere) + BagCardinality(Collected(output))
          /\ BagCardinality(elsewhere) \in Nat /\ BagCardinality(Collected(output)) \in Nat
      BY <3>1, PairsFinite, BagCardinalities DEF Bag
    <3>3. BagCardinality(SetToBag(S)) = Cardinality(S)
      <4>1. S \in SUBSET Pairs
        BY DEF AllPairs
      <4> QED
        BY <4>1, PairsFinite, BagCardinalityOfSet
    <3>4. Cardinality(S) <= Cardinality(AllPairs)
      <4>1. IsFiniteSet(AllPairs) /\ S \in SUBSET AllPairs
        BY PairsFinite, FS_Subset DEF AllPairs
      <4> QED
        BY <4>1, FS_Subset
    <3>5. Cardinality(AllPairs) \in Nat /\ Cardinality(S) \in Nat
      <4>1. IsFiniteSet(AllPairs) /\ IsFiniteSet(S)
        BY PairsFinite, FS_Subset DEF AllPairs
      <4> QED
        BY <4>1, FS_CardinalityType
    <3>6. BagCardinality(counted) \in Nat
      <4>1. counted \in Bag
        BY PlaceBags DEF JobInv, StageInv, DataInv
      <4> QED
        BY <4>1, PairsFinite, BagCardinalities DEF Bag
    <3> HIDE DEF S, counted
    <3>7. progress.done + BagCardinality(counted) = BagCardinality(Collected(output))
      BY <2>2, <2>6 DEF CountInv, counted
    <3>8. progress.todo = Cardinality(AllPairs) /\ progress.todo > 0
      BY <2>1, <2>2, <2>6 DEF CountInv, SHUFFLE_STAGE, REDUCE_STAGE
    <3>9. progress.done <= progress.todo
      BY <2>2, <3>2, <3>3, <3>4, <3>5, <3>6, <3>7, <3>8
    <3> QED
      BY <2>1, <2>6, <3>7, <3>8, <3>9 DEF counted, UNDEFINED_STAGE, SHUFFLE_STAGE, REDUCE_STAGE
  <2> QED
    BY <2>1, <2>3, <2>4, <2>5, <2>6
<1> QED
  BY <1>1, DataInvHolds, PTL

\* The counter of a stage grows.
LEMMA CounterGrows ==
    ASSUME progress.done \in Nat, progress.todo \in Nat,
           \/ progress' = progress
           \/ progress'.stage \in Nat /\ progress'.stage > progress.stage
           \/ /\ progress'.stage = progress.stage /\ progress'.todo = progress.todo
              /\ \E n \in Nat : progress'.done = progress.done + n,
           progress.stage \in Nat
    PROVE  NeverBack
<1> DEFINE a == progress.done
           b == progress'.done
           c == progress.todo
<1>1. CASE progress'.stage \in Nat /\ progress'.stage > progress.stage
  BY <1>1 DEF NeverBack, JobState
<1>2. CASE /\ progress'.stage = progress.stage /\ progress'.todo = progress.todo
           /\ \E n \in Nat : progress'.done = progress.done + n
  <2>1. PICK n \in Nat : b = a + n
    BY <1>2
  <2>2. b * c >= a * c
    <3>1. a \in Nat /\ c \in Nat
      OBVIOUS
    <3> HIDE DEF a, b, c
    <3>2. n * c \in Nat /\ a * c \in Nat
      BY <3>1
    <3>3. b * c = a * c + n * c
      BY <2>1, <3>1
    <3> QED
      BY <3>2, <3>3
  <2> QED
    BY <1>2, <2>2 DEF NeverBack, JobState
<1>3. CASE progress' = progress
  <2>1. a * c \in Nat
    OBVIOUS
  <2> QED
    BY <1>3, <2>1 DEF NeverBack, JobState
<1> QED
  BY <1>1, <1>2, <1>3

(***************************************************************************)
(* What a client that polls getJobState (505-515) sees never goes back,    *)
(* although every thread starts the map and the reduce stage anew (302,    *)
(* 400): set_atomic starts a stage once, no stage is started after a later *)
(* one, and within a stage the counter only grows.                         *)
(***************************************************************************)
THEOREM ProgressMonotoneHolds == Spec => ProgressMonotone
<1>1. JobInv /\ DataInv /\ [Next]_vars => [NeverBack]_vars
  <2> SUFFICES ASSUME JobInv, DataInv, [Next]_vars PROVE NeverBack
    OBVIOUS
  <2> USE DEF UNDEFINED_STAGE, MAP_STAGE, SHUFFLE_STAGE, REDUCE_STAGE
  <2>1. /\ progress.stage \in {0, 1, 2, 3} /\ progress.done \in Nat /\ progress.todo \in Nat
        /\ progress = [stage |-> progress.stage, todo |-> progress.todo, done |-> progress.done]
    BY StageFlags, NumInputsAssumption DEF JobInv, StageInv, DataInv, CountInv, DataType
  <2>2. CASE ClientStep \/ CreateFails \/ Stutter \/ UNCHANGED vars
    <3>1. progress' = progress
      BY <2>2 DEF ClientStep, Create, Join, Close, CreateFails, Stutter, vars, data_vars, counter_vars
    <3> QED
      BY <2>1, <3>1, CounterGrows
  <2>3. ASSUME NEW t \in Threads, ThreadStep(t) PROVE NeverBack
    <3> USE DEF SetAtomic, counter_vars
    <3>1. CASE SetMap(t)
      <4>1. MAP_STAGE \notin set_flags => progress.stage = 0
        <5>1. SHUFFLE_STAGE \notin set_flags /\ REDUCE_STAGE \notin set_flags
          BY <3>1, WhileMapping DEF SetMap, At, Before1, MapPcs
        <5> QED
          BY <5>1 DEF JobInv, StageInv
      <4>2. progress' = progress \/ (progress'.stage \in Nat /\ progress'.stage > progress.stage)
        BY <3>1, <4>1 DEF SetMap
      <4> QED
        BY <2>1, <4>2, CounterGrows
    <3>2. CASE ShuffleStart(t)
      <4>1. progress.stage = 1
        BY <3>2, AtShuffleStart DEF ShuffleStart, At, DataInv
      <4>2. progress'.stage = 2
        BY <3>2, CountShuffleStart DEF DataInv
      <4> QED
        BY <2>1, <4>1, <4>2, CounterGrows
    <3>3. CASE ReduceEnter(t)
      <4>1. progress' = progress \/ (progress'.stage \in Nat /\ progress'.stage > progress.stage)
        BY <2>1, <3>3 DEF ReduceEnter, JobInv, StageInv
      <4> QED
        BY <2>1, <4>1, CounterGrows
    <3>4. CASE MapClaim(t) \/ ShufflePop(t)
      <4>1. progress' = [progress EXCEPT !.done = @ + 1]
        BY <3>4 DEF MapClaim, ShufflePop
      <4>2. /\ progress'.stage = progress.stage /\ progress'.todo = progress.todo
            /\ progress'.done = progress.done + 1
        BY <2>1, <4>1
      <4> QED
        BY <2>1, <4>2, CounterGrows
    <3>5. CASE ReduceCount(t)
      <4>1. progress' = [progress EXCEPT !.done = @ + BagCardinality(element[t])]
        BY <3>5 DEF ReduceCount
      <4>2. BagCardinality(element[t]) \in Nat
        BY PairsFinite, BagCardinalities DEF DataInv, DataType, Bag
      <4>3. /\ progress'.stage = progress.stage /\ progress'.todo = progress.todo
            /\ progress'.done = progress.done + BagCardinality(element[t])
        BY <2>1, <4>1
      <4> QED
        BY <2>1, <4>2, <4>3, CounterGrows
    <3>6. CASE ~(SetMap(t) \/ ShuffleStart(t) \/ ShufflePop(t) \/ ReduceCount(t) \/ ReduceEnter(t)
                   \/ MapClaim(t))
      <4>1. progress' = progress
        BY <2>3, <3>6 DEF ThreadStep, ShuffleTop, MapTest, MapLock, MapCheck, MapCall, Sort, ArriveMapped,
           LeaveMapped, ArriveShuffled, LeaveShuffled, ShuffleNextKey, ShuffleEnd, ReduceTest,
           ReduceWait, ReduceCheck, ReduceLock, ReduceTake, ReduceCall, ReduceExit, data_vars
      <4> QED
        BY <2>1, <4>1, CounterGrows
    <3> QED
      BY <3>1, <3>2, <3>3, <3>4, <3>5, <3>6
  <2> QED
    BY <2>2, <2>3 DEF Next
<1> QED
  BY <1>1, DataInvHolds, PTL DEF ProgressMonotone, Spec

\* All threads have left reduce_phase.
AllDone == \A t \in Threads : pc[t] = "done"

\* Then everything has been mapped, and every pair is in the output.
LEMMA OutputComplete ==
    ASSUME JobInv, DataInv, AllDone, MultiThreadLevel > 0 \/ NumInputs = 0
    PROVE  Collected(output) = SetToBag(AllPairs)
<1> USE DEF AllDone, UNDEFINED_STAGE, MAP_STAGE, SHUFFLE_STAGE, REDUCE_STAGE
<1>0. AllPairs \in SUBSET Pairs /\ Collected(output) \in Bag
  BY SumOfPlaces DEF AllPairs
<1>1. CASE Threads = {}
  <2>1. NumInputs = 0
    <3>1. MultiThreadLevel > 0 /\ NumInputs > 0 => 0 \in Threads
      BY NumInputsAssumption, MultiThreadLevelAssumption DEF Threads, NumOfThreads
    <3> QED
      BY <1>1, <3>1, NumInputsAssumption
  <2>2. Pairs = {}
    <3>1. Inputs = {}
      BY <2>1 DEF Inputs
    <3> QED
      BY <3>1 DEF Pairs
  <2>3. SetToBag(AllPairs) \in Bag
    BY <1>0, BagOfSet DEF Bag
  <2>4. \A p \in Pairs : Copies(p, Collected(output)) = Copies(p, SetToBag(AllPairs))
    BY <2>2
  <2> QED
    BY <1>0, <2>3, <2>4, BagsEqual DEF Bag
<1>2. CASE Threads # {}
  <2>1. MainTId \in Threads
    BY <1>2, ThreadNumbers
  <2>2. vector_of_vectors = <<>>
    BY <2>1 DEF JobInv, TokenInv
  <2>3. finished_shuffle /\ SHUFFLE_STAGE \in set_flags
    BY <2>1 DEF JobInv, StageInv, Before1, MapPcs
  <2>4. all_pairs = EmptyBag /\ saving = EmptyBag
    BY <2>3 DEF DataInv, FlowInv
  <2>5. \A t \in Threads : intermediate[t] = <<>> /\ pc[t] # "reduce_call"
    BY DEF DataInv, FlowInv, LoopPcs, MapPcs
  <2>6. HeldBy(intermediate) = EmptyBag
    BY <2>5, HeldNothing DEF DataInv, DataType
  <2>7. Collected(Hands(pc, element, "reduce_call")) = EmptyBag
    BY <2>5, HandsEmpty DEF DataInv, DataType, JobInv, StageInv
  <2>8. Mapped = Inputs
    <3>1. progress.stage \in {SHUFFLE_STAGE, REDUCE_STAGE}
      BY <2>3, StageFlags DEF JobInv
    <3>2. Claimed = Inputs /\ InMap = {}
      BY <3>1 DEF Claimed, InMap
    <3> QED
      BY <3>2, MappedIs
  <2>9. ASSUME NEW p \in Pairs
        PROVE  Copies(p, Collected(output)) = Copies(p, SetToBag(AllPairs))
    <3>1. Copies(p, EmptyBag) = 0 /\ Copies(p, Collected(<<>>)) = 0
      BY BagOfNothing, CollectedNothing
    <3>2. Copies(p, Collected(output)) \in Nat
      BY <1>0, CopiesNat
    <3>3. Place(p) = 0 + 0 + 0 + 0 + 0 + Copies(p, Collected(output))
      BY <2>2, <2>4, <2>6, <2>7, <3>1 DEF Place
    <3>4. Place(p) = IF p \in AllPairs THEN 1 ELSE 0
      BY <2>8 DEF DataInv, Conserved, Pairs
    <3>5. Copies(p, SetToBag(AllPairs)) = IF p \in AllPairs THEN 1 ELSE 0
      BY <1>0, BagOfSet
    <3> QED
      BY <3>2, <3>3, <3>4, <3>5
  <2>10. SetToBag(AllPairs) \in Bag
    BY <1>0, BagOfSet DEF Bag
  <2> QED
    BY <1>0, <2>9, <2>10, BagsEqual DEF Bag
<1> QED
  BY <1>1, <1>2

(***************************************************************************)
(* When waitForJob returns (487-497), every pair has gone through reduce   *)
(* and no thread will touch the job that closeJobHandle frees.  A client   *)
(* that asks for no thread although it has inputs gets none of its work    *)
(* done: the theorem is about jobs that have a thread or no input.         *)
(***************************************************************************)
THEOREM WaitMeansDoneHolds ==
    ASSUME MultiThreadLevel > 0 \/ NumInputs = 0
    PROVE  Spec => []WaitMeansDone
<1>1. JobInv /\ DataInv => WaitMeansDone
  <2> SUFFICES ASSUME JobInv, DataInv, client \in {"close", "closed"}
               PROVE  Collected(output) = SetToBag(AllPairs) /\ AllDone
    BY DEF WaitMeansDone, AllDone
  <2>1. AllDone
    BY DEF DataInv, ClientInv, AllDone
  <2> QED
    BY <2>1, OutputComplete
<1> QED
  BY <1>1, DataInvHolds, PTL

-----------------------------------------------------------------------------
(* The job implements MapReduceJob.                                        *)

\* Nothing is mapped before the job starts.
LEMMA JobSpecInit == Init => Job!Init
<1> SUFFICES ASSUME Init PROVE Job!Init
  OBVIOUS
<1>1. Mapped = {}
  BY DEF Init, Mapped
<1> QED
  BY <1>1 DEF Init, Job!Init

\* The return of a call of map is a step Map.
LEMMA JobSpecMap ==
    ASSUME JobInv, DataInv, NEW t \in Threads, MapCall(t)
    PROVE  \E i \in Inputs : Job!Map(i)
<1>1. index[t] \in Inputs /\ index[t] \notin Mapped /\ Mapped' = Mapped \union {index[t]}
  BY MappedGrows DEF DataInv
<1>2. UNCHANGED <<emits, output>>
  BY DEF MapCall, client_vars, later_vars, reduce_vars
<1>3. Job!Map(index[t])
  BY <1>1, <1>2 DEF Job!Map
<1> QED
  BY <1>1, <1>3

\* When a thread reduces, everything has been mapped.
LEMMA AllMapped ==
    ASSUME JobInv, DataInv, NEW t \in Threads, pc[t] = "reduce_call"
    PROVE  Mapped = Inputs
<1>1. SHUFFLE_STAGE \in set_flags
  BY WhileReducing DEF Reducing, ReducePcs
<1>2. progress.stage \in {SHUFFLE_STAGE, REDUCE_STAGE}
  BY <1>1, StageFlags DEF JobInv
<1>3. Claimed = Inputs
  BY <1>2 DEF Claimed, UNDEFINED_STAGE, MAP_STAGE, SHUFFLE_STAGE, REDUCE_STAGE
<1>4. InMap = {}
  <2>1. \A u \in Threads : pc[u] # "map_call"
    BY WhileReducing DEF Reducing, ReducePcs, Before2, Before1, MapPcs
  <2> QED
    BY <2>1 DEF InMap
<1> QED
  BY <1>3, <1>4, MappedIs

\* A bag of a sequence is part of what the sequence collects.
LEMMA CollectedHas ==
    ASSUME NEW v \in Seq(Bag), NEW n \in DOMAIN v, NEW p
    PROVE  Copies(p, Collected(v)) >= Copies(p, v[n])
<1> DEFINE w == [v EXCEPT ![n] = EmptyBag]
<1>1. EmptyBag \in Bag /\ Copies(p, EmptyBag) = 0
  BY BagOfNothing DEF Bag
<1>2. w \in Seq(Bag) /\ DOMAIN v = DOMAIN w /\ w[n] = EmptyBag /\ \A m \in DOMAIN v \ {n} : w[m] = v[m]
  BY <1>1
<1> HIDE DEF w
<1>3. Copies(p, Collected(w)) + Copies(p, v[n]) = Copies(p, Collected(v)) + Copies(p, w[n])
  BY <1>2, CollectedUpdate
<1>4. Copies(p, Collected(w)) \in Nat /\ Copies(p, Collected(v)) \in Nat /\ Copies(p, v[n]) \in Nat
  <2>1. v[n] \in Bag /\ Collected(w) \in Bag /\ Collected(v) \in Bag
    BY <1>2, CollectedIs
  <2> QED
    BY <2>1, CopiesNat
<1> QED
  BY <1>1, <1>2, <1>3, <1>4

\* The return of a call of reduce is a step Reduce.
LEMMA JobSpecReduce ==
    ASSUME JobInv, DataInv, NEW t \in Threads, ReduceCall(t)
    PROVE  \E k \in Job!EmittedKeys : Job!Reduce(k)
<1>1. /\ pc[t] = "reduce_call" /\ output' = Append(output, element[t])
      /\ UNCHANGED emits
  BY DEF ReduceCall, At, earlier_vars, client_vars
<1>2. Mapped = Inputs
  BY <1>1, AllMapped
<1>3. Mapped' = Mapped
  <2>1. ThreadStep(t) /\ ~MapCall(t)
    BY <1>1 DEF ThreadStep, MapCall, At
  <2> QED
    BY <2>1, MappedKept DEF DataInv
<1>4. element[t] \in Groups(emits)
  BY <1>1 DEF DataInv, GroupInv
<1>5. PICK k \in Job!EmittedKeys : element[t] = Job!Group(k)
  <2>1. emits \in [Inputs -> SUBSET Keys]
    BY DEF DataInv, DataType
  <2>2. PICK k \in UNION {emits[i] : i \in Inputs} : element[t] = GroupOf(emits, k)
    BY <1>4 DEF Groups
  <2>3. Job!Group(k) = GroupOf(emits, k)
    BY <2>1, GroupIs
  <2> QED
    BY <2>2, <2>3 DEF Job!EmittedKeys
<1>6. PICK p \in AllPairs : p[2] = k /\ p \in Pairs /\ Copies(p, Job!Group(k)) = 1
  <2>1. emits \in [Inputs -> SUBSET Keys] /\ AllPairs \in SUBSET Pairs
    BY DEF DataInv, DataType, AllPairs
  <2> QED
    BY <2>1, GroupIs
<1>7. ASSUME NEW n \in DOMAIN output, output[n] = Job!Group(k) PROVE FALSE
  <2>1. output \in Seq(Bag) /\ element[t] \in Bag
    BY DEF DataInv, DataType
  <2>2. Copies(p, Collected(output)) >= 1
    <3>1. Copies(p, Collected(output)) >= Copies(p, output[n])
      BY <2>1, CollectedHas
    <3> QED
      BY <1>6, <1>7, <3>1
  <2>3. Copies(p, Collected(Hands(pc, element, "reduce_call"))) >= 1
    <3>1. Copies(p, Collected(Hands(pc, element, "reduce_call"))) >= Copies(p, element[t])
      BY <1>6, PlaceReduceCall DEF DataInv
    <3> QED
      BY <1>5, <1>6, <3>1
  <2>4. /\ Copies(p, all_pairs) \in Nat /\ Copies(p, saving) \in Nat
        /\ Copies(p, Collected(output)) \in Nat
        /\ Copies(p, Collected(Hands(pc, element, "reduce_call"))) \in Nat
        /\ Copies(p, all_pairs) + Copies(p, saving)
             + Copies(p, Collected(Hands(pc, element, "reduce_call")))
             + Copies(p, Collected(output)) <= 1
    BY <1>6, PlaceOfPair DEF DataInv
  <2> QED
    BY <2>2, <2>3, <2>4
<1>8. Job!Reduce(k)
  BY <1>1, <1>2, <1>3, <1>5, <1>7 DEF Job!Reduce
<1> QED
  BY <1>8

\* All other steps are invisible.
LEMMA JobSpecStutters ==
    ASSUME JobInv, DataInv, NEW t \in Threads, ThreadStep(t), ~MapCall(t), ~ReduceCall(t)
    PROVE  UNCHANGED <<emits, Mapped, output>>
<1>1. Mapped' = Mapped
  BY MappedKept DEF DataInv
<1>2. emits' = emits
  BY StepFrame DEF client_vars
<1>3. output' = output
  <2>1. CASE QuietStep(t)
    BY <2>1, QuietFrame DEF pair_vars
  <2>2. CASE ~QuietStep(t)
    BY <2>2 DEF ThreadStep, QuietStep, SetMap, Sort, ShuffleStart, ShuffleTop, ShufflePop, ShuffleNextKey,
       ReduceTake, ReduceCount, later_vars, reduce_vars
  <2> QED
    BY <2>1, <2>2
<1> QED
  BY <1>1, <1>2, <1>3

(***************************************************************************)
(* The framework implements what it promises its client: map is called     *)
(* once on every input; when all these calls have returned, and not        *)
(* before, reduce is called once for every key that was emitted, with all  *)
(* the pairs of that key.  Every step of a thread maps to one of these     *)
(* calls or changes nothing the client sees.                               *)
(***************************************************************************)
THEOREM JobSpecHolds == Spec => JobSpec
<1>1. JobInv /\ DataInv /\ [Next]_vars => [Job!Next]_(Job!vars)
  <2> SUFFICES ASSUME JobInv, DataInv, [Next]_vars
               PROVE  Job!Next \/ UNCHANGED <<emits, Mapped, output>>
    BY DEF Job!vars
  <2>1. ASSUME NEW t \in Threads, ThreadStep(t)
        PROVE  Job!Next \/ UNCHANGED <<emits, Mapped, output>>
    BY <2>1, JobSpecMap, JobSpecReduce, JobSpecStutters DEF Job!Next
  <2>2. CASE ClientStep \/ CreateFails \/ Stutter \/ UNCHANGED vars
    <3>1. UNCHANGED <<emits, output, progress, index>>
      BY <2>2 DEF ClientStep, Create, Join, Close, CreateFails, Stutter, vars, data_vars,
         counter_vars, client_vars, map_vars, later_vars, reduce_vars
    <3>2. InMap' = InMap
      <4>1. CASE Create /\ turn < NumOfThreads
        <5>1. turn \in Threads /\ pc \in [Threads -> Pcs] /\ pc[turn] = "new"
          BY <4>1, ThreadNumbers DEF Create, ClientAt, JobInv, StageInv, DataInv, ClientInv, Threads
        <5>2. pc'[turn] = "set_map" /\ \A u \in Threads \ {turn} : pc'[u] = pc[u]
          BY <4>1, <5>1 DEF Create, Goto
        <5>3. \A u \in Threads : pc'[u] = "map_call" <=> pc[u] = "map_call"
          BY <5>1, <5>2
        <5> QED
          BY <3>1, <5>3 DEF InMap
      <4>2. CASE ~(Create /\ turn < NumOfThreads)
        <5>1. UNCHANGED pc
          BY <2>2, <4>2 DEF ClientStep, Create, Join, Close, CreateFails, Stutter, vars
        <5> QED
          BY <3>1, <5>1 DEF InMap
      <4> QED
        BY <4>1, <4>2
    <3>3. Claimed' = Claimed
      BY <3>1 DEF Claimed
    <3>4. Mapped' = Mapped
      BY <3>2, <3>3 DEF Mapped, Claimed, InMap
    <3> QED
      BY <3>1, <3>4
  <2> QED
    BY <2>1, <2>2 DEF Next
<1> QED
  BY <1>1, JobSpecInit, DataInvHolds, PTL DEF Spec, JobSpec, Job!Spec

=============================================================================
