------------------------------ MODULE MapReduce ------------------------------
(***************************************************************************)
(* The MapReduce framework of ex3/MapReduceFramework.cpp: one job, from    *)
(* startMapReduceJob to closeJobHandle.                                    *)
(*                                                                         *)
(* Every thread has a program counter, and a step goes from one access to  *)
(* shared memory to the next.  A section whose shared data is only used    *)
(* under its mutex is one step (set_atomic, Mutex_sort, the barriers); the *)
(* mutexes of the map and the reduce phase are variables, because what     *)
(* they guard is also read without them.  done_map, finished_shuffle_stage *)
(* and vector_of_vectors.empty() are read without synchronisation, as in   *)
(* the code, at any moment between two steps of the others.                *)
(*                                                                         *)
(* A pair is <<input, key>>: the key K2 that map emits for that input.  An *)
(* IntermediateVec is the bag of its pairs.                                *)
(***************************************************************************)
EXTENDS Integers, Sequences, FiniteSets, Bags, SequencesExt

CONSTANTS
    MultiThreadLevel,  \* the argument multiThreadLevel
    NumInputs,         \* inputVec.size()
    Keys,              \* the keys map may emit, a finite set of integers
    MaxSpurious        \* bound: spurious wakeups of condition variables

ASSUME MultiThreadLevelAssumption == MultiThreadLevel \in Nat
ASSUME NumInputsAssumption == NumInputs \in Nat
ASSUME KeysAssumption == Keys \subseteq Int /\ IsFiniteSet(Keys)
ASSUME MaxSpuriousAssumption == MaxSpurious \in Nat

Inputs == 0 .. NumInputs - 1

\* JobContext::num_of_threads.
NumOfThreads == IF MultiThreadLevel < NumInputs THEN MultiThreadLevel ELSE NumInputs
Threads == 0 .. NumOfThreads - 1
MainTId == 0

\* A mutex that nobody holds.
Free == -1

\* stage_t.
UNDEFINED_STAGE == 0
MAP_STAGE == 1
SHUFFLE_STAGE == 2
REDUCE_STAGE == 3

VARIABLES
    emits,          \* what the client's map emits for each input
    pc,             \* where each thread is
    client,         \* where the client is: "start", "join", "close", "closed"
    turn,           \* the client's loop variable: threads created, or joined
    progress,       \* *progress, the three bit fields of the counter
    set_flags,      \* the stages whose stage_job_to_do_set_... is true
    done_map,       \* done_map
    mutex_map,      \* the holder of Mutex_map
    index,          \* the input each thread has claimed
    intermediate,   \* ThreadContext::intermediate_pair_vec
    vector_of_vectors, \* vector_of_vectors
    num_of_pairs,   \* num_of_pairs
    all_pairs,      \* the heap of shuffle_phase
    last_key,       \* the key of last_pair in shuffle_phase
    saving,         \* saving_all_pairs in shuffle_phase
    finished_shuffle, \* finished_shuffle_stage
    sem,            \* the value of sem
    mutex_reduce,   \* the holder of Mutex_reduce
    element,        \* element_reduce of each thread
    output,         \* the groups reduce was called with, in outputVec
    b1_count, b1_waiting, \* barrier
    b2_count, b2_waiting, \* barrier_reduce
    spurious,       \* spurious wakeups so far
    status          \* the process: "up", "failed" or "killed"

map_vars == <<done_map, mutex_map, index, intermediate>>
shuffle_vars == <<num_of_pairs, all_pairs, last_key, saving, finished_shuffle>>
reduce_vars == <<mutex_reduce, element, output>>
counter_vars == <<progress, set_flags>>
barrier_vars == <<b1_count, b1_waiting, b2_count, b2_waiting, spurious>>
client_vars == <<client, turn, emits>>
later_vars == <<vector_of_vectors, shuffle_vars, sem, reduce_vars, barrier_vars>>
earlier_vars == <<client_vars, map_vars, shuffle_vars, barrier_vars>>
data_vars == <<counter_vars, map_vars, later_vars>>
vars == <<emits, pc, client, turn, progress, set_flags, done_map, mutex_map,
          index, intermediate, vector_of_vectors, num_of_pairs, all_pairs,
          last_key, saving, finished_shuffle, sem, mutex_reduce, element,
          output, b1_count, b1_waiting, b2_count, b2_waiting, spurious, status>>

B1 == INSTANCE Barrier WITH NumThreads <- NumOfThreads,
                            count <- b1_count, waiting <- b1_waiting
B2 == INSTANCE Barrier WITH NumThreads <- NumOfThreads,
                            count <- b2_count, waiting <- b2_waiting

Pairs == Inputs \X Keys

\* What map emits for input i, as an IntermediateVec.
Emitted(i) == SetToBag({<<i, k>> : k \in emits[i]})

Init ==
    /\ emits \in [Inputs -> SUBSET Keys]
    /\ pc = [t \in Threads |-> "new"]
    /\ client = "start"
    /\ turn = 0
    /\ progress = [stage |-> UNDEFINED_STAGE, todo |-> 0, done |-> 0]
    /\ set_flags = {}
    /\ done_map = FALSE
    /\ mutex_map = Free
    /\ index = [t \in Threads |-> 0]
    /\ intermediate = [t \in Threads |-> <<>>]
    /\ vector_of_vectors = <<>>
    /\ num_of_pairs = 0
    /\ all_pairs = EmptyBag
    /\ last_key = 0
    /\ saving = EmptyBag
    /\ finished_shuffle = FALSE
    /\ sem = 0
    /\ mutex_reduce = Free
    /\ element = [t \in Threads |-> EmptyBag]
    /\ output = <<>>
    /\ B1!BarrierInit
    /\ B2!BarrierInit
    /\ spurious = 0
    /\ status = "up"

At(t, here) == status = "up" /\ pc[t] = here
Goto(t, there) == pc' = [pc EXCEPT ![t] = there]

\* Seeded faults: the mutex is taken from its holder; no token is waited for.
LockTaken(mutex, t) == mutex' = t
DecreaseMissing == UNCHANGED sem

\* handling_mutex with LOCK.
Lock(mutex, t) == mutex = Free /\ mutex' = t

\* handling_semaphore with INCREASE and with DECREASE.
Increase == sem' = sem + 1
Decrease == sem > 0 /\ sem' = sem - 1

\* Seeded fault: every thread starts the stage again.
SetAtomicAlways(stage, value) ==
    /\ progress' = [stage |-> stage, todo |-> value, done |-> 0]
    /\ set_flags' = set_flags \union {stage}

\* Seeded fault: the count of the last stage stays.
SetAtomicNoReset(stage, value) ==
    IF stage \in set_flags
      THEN UNCHANGED counter_vars
      ELSE /\ progress' = [progress EXCEPT !.stage = stage, !.todo = value]
           /\ set_flags' = set_flags \union {stage}

\* set_atomic: the first thread that calls it for a stage starts the stage.
SetAtomic(stage, value) ==
    IF stage \in set_flags
      THEN UNCHANGED counter_vars
      ELSE /\ progress' = [stage |-> stage, todo |-> value, done |-> 0]
           /\ set_flags' = set_flags \union {stage}

-----------------------------------------------------------------------------
(* running_map_phase and sort_phase.                                       *)

SetMap(t) ==
    /\ At(t, "set_map")
    /\ SetAtomic(MAP_STAGE, NumInputs)
    /\ intermediate' = [intermediate EXCEPT ![t] = <<>>]
    /\ Goto(t, "map_test")
    /\ UNCHANGED <<client_vars, done_map, mutex_map, index, later_vars,
                   status>>

\* The loop condition, read without the mutex.
MapTest(t) ==
    /\ At(t, "map_test")
    /\ Goto(t, IF done_map THEN "sort" ELSE "map_lock")
    /\ UNCHANGED <<client_vars, data_vars, status>>

MapLock(t) ==
    /\ At(t, "map_lock")
    /\ Lock(mutex_map, t)
    /\ Goto(t, "map_check")
    /\ UNCHANGED <<client_vars, counter_vars, done_map, index, intermediate,
                   later_vars, status>>

\* Seeded fault: one claim too many.
NothingLeftOffByOne == progress.done > NumInputs

\* The test of the counter, which other stages use for their pairs.
NothingLeft == progress.done + 1 > NumInputs

\* Is there an input left?  If not, the map phase is over for every thread.
MapCheck(t) ==
    /\ At(t, "map_check")
    /\ IF NothingLeft
         THEN done_map' = TRUE /\ mutex_map' = Free /\ Goto(t, "sort")
         ELSE Goto(t, "map_claim") /\ UNCHANGED <<done_map, mutex_map>>
    /\ UNCHANGED <<client_vars, counter_vars, index, intermediate, later_vars,
                   status>>

MapClaim(t) ==
    /\ At(t, "map_claim")
    /\ index' = [index EXCEPT ![t] = progress.done]
    /\ progress' = [progress EXCEPT !.done = @ + 1]
    /\ mutex_map' = Free
    /\ Goto(t, "map_call")
    /\ UNCHANGED <<client_vars, set_flags, done_map, intermediate, later_vars,
                   status>>

\* The client's map runs on the claimed input; an index out of range makes
\* at() throw, which ends the process.
MapCall(t) ==
    /\ At(t, "map_call")
    /\ IF index[t] \in Inputs
         THEN /\ intermediate' = [intermediate EXCEPT
                                    ![t] = Append(@, Emitted(index[t]))]
              /\ UNCHANGED status
         ELSE status' = "killed" /\ UNCHANGED intermediate
    /\ Goto(t, "map_test")
    /\ UNCHANGED <<client_vars, counter_vars, done_map, mutex_map, index,
                   later_vars>>

\* One vector of the thread joins vector_of_vectors, under Mutex_sort.
Sort(t) ==
    /\ At(t, "sort")
    /\ IF intermediate[t] = <<>>
         THEN /\ Goto(t, "barrier")
              /\ UNCHANGED <<intermediate, vector_of_vectors>>
         ELSE /\ vector_of_vectors' = Append(vector_of_vectors, Head(intermediate[t]))
              /\ intermediate' = [intermediate EXCEPT ![t] = Tail(@)]
              /\ UNCHANGED pc
    /\ UNCHANGED <<client_vars, counter_vars, done_map, mutex_map, index,
                   shuffle_vars, sem, reduce_vars, barrier_vars, status>>

-----------------------------------------------------------------------------
(* The two barriers.                                                       *)

ArriveMapped(t) ==
    /\ At(t, "barrier")
    /\ B1!Arrive(t)
    /\ Goto(t, "barrier_wait")
    /\ UNCHANGED <<client_vars, counter_vars, map_vars, vector_of_vectors,
                   shuffle_vars, sem, reduce_vars, b2_count, b2_waiting,
                   spurious, status>>

\* After the first barrier, thread 0 shuffles.
LeaveMapped(t) ==
    /\ At(t, "barrier_wait")
    /\ B1!Released(t)
    /\ Goto(t, IF t = MainTId THEN "shuffle" ELSE "barrier_reduce")
    /\ UNCHANGED <<client_vars, data_vars, status>>

ArriveShuffled(t) ==
    /\ At(t, "barrier_reduce")
    /\ B2!Arrive(t)
    /\ Goto(t, "barrier_reduce_wait")
    /\ UNCHANGED <<client_vars, counter_vars, map_vars, vector_of_vectors,
                   shuffle_vars, sem, reduce_vars, b1_count, b1_waiting,
                   spurious, status>>

LeaveShuffled(t) ==
    /\ At(t, "barrier_reduce_wait")
    /\ B2!Released(t)
    /\ Goto(t, "reduce")
    /\ UNCHANGED <<client_vars, data_vars, status>>

Spurious(t) ==
    /\ status = "up"
    /\ spurious < MaxSpurious
    /\ spurious' = spurious + 1
    /\ \/ B1!SpuriousWakeup(t) /\ UNCHANGED <<b2_count, b2_waiting>>
       \/ B2!SpuriousWakeup(t) /\ UNCHANGED <<b1_count, b1_waiting>>
    /\ UNCHANGED <<client_vars, pc, counter_vars, map_vars, vector_of_vectors,
                   shuffle_vars, sem, reduce_vars, status>>

-----------------------------------------------------------------------------
(* shuffle_phase, by thread 0.                                             *)

\* The smallest key of a bag of pairs.
MinKey(bag) ==
    CHOOSE k \in Keys :
        /\ \E p \in BagToSet(bag) : p[2] = k
        /\ \A p \in BagToSet(bag) : k <= p[2]

\* The pairs of all the vectors of a sequence.
Collected(vectors) == FoldLeft(LAMBDA bag, v : bag (+) v, EmptyBag, vectors)

(***************************************************************************)
(* Lines 360-373: the heap is filled, the stage is started and the vectors *)
(* are cleared, which nobody else looks at here.  From now on getJobState  *)
(* reports the shuffle stage.                                              *)
(***************************************************************************)
ShuffleStart(t) ==
    /\ At(t, "shuffle")
    /\ all_pairs' = Collected(vector_of_vectors)
    /\ num_of_pairs' = num_of_pairs + BagCardinality(Collected(vector_of_vectors))
    /\ SetAtomic(SHUFFLE_STAGE, num_of_pairs')
    /\ vector_of_vectors' = <<>>
    /\ Goto(t, "shuffle_top")
    /\ UNCHANGED <<client_vars, map_vars, last_key, saving, finished_shuffle,
                   sem, reduce_vars, barrier_vars, status>>

\* The first key is read from the top of the heap; with no pair at all top()
\* reads through a null pointer.
ShuffleTop(t) ==
    /\ At(t, "shuffle_top")
    /\ IF BagToSet(all_pairs) = {}
         THEN status' = "killed" /\ UNCHANGED last_key
         ELSE last_key' = MinKey(all_pairs) /\ UNCHANGED status
    /\ saving' = EmptyBag
    /\ Goto(t, "shuffle_loop")
    /\ UNCHANGED <<client_vars, counter_vars, map_vars, vector_of_vectors,
                   num_of_pairs, all_pairs, finished_shuffle, sem,
                   reduce_vars, barrier_vars>>

\* Seeded fault: the pairs of a finished group stay for the next one.
FlushUncleared(group) ==
    /\ vector_of_vectors' = Append(vector_of_vectors, group)
    /\ saving' = group
    /\ Increase

\* update_saving_all_pairs: a finished group is handed to the reducers.
Flush(group) ==
    /\ vector_of_vectors' = Append(vector_of_vectors, group)
    /\ saving' = EmptyBag
    /\ Increase

\* The pair on top of the heap belongs to the current group.
ShufflePop(t) ==
    /\ At(t, "shuffle_loop")
    /\ BagToSet(all_pairs) # {}
    /\ MinKey(all_pairs) = last_key
    /\ \E p \in BagToSet(all_pairs) :
          /\ p[2] = last_key
          /\ all_pairs' = all_pairs (-) SetToBag({p})
          /\ IF BagToSet(all_pairs') = {}
               THEN Flush(saving (+) SetToBag({p}))
               ELSE /\ saving' = saving (+) SetToBag({p})
                    /\ UNCHANGED <<vector_of_vectors, sem>>
    /\ progress' = [progress EXCEPT !.done = @ + 1]
    /\ UNCHANGED <<pc, client_vars, set_flags, map_vars, num_of_pairs,
                   last_key, finished_shuffle, reduce_vars, barrier_vars,
                   status>>

\* The pair on top of the heap begins a new group.
ShuffleNextKey(t) ==
    /\ At(t, "shuffle_loop")
    /\ BagToSet(all_pairs) # {}
    /\ MinKey(all_pairs) # last_key
    /\ Flush(saving)
    /\ last_key' = MinKey(all_pairs)
    /\ UNCHANGED <<pc, client_vars, counter_vars, map_vars, num_of_pairs,
                   all_pairs, finished_shuffle, reduce_vars, barrier_vars,
                   status>>

ShuffleEnd(t) ==
    /\ At(t, "shuffle_loop")
    /\ BagToSet(all_pairs) = {}
    /\ finished_shuffle' = TRUE
    /\ Goto(t, "barrier_reduce")
    /\ UNCHANGED <<client_vars, counter_vars, map_vars, vector_of_vectors,
                   num_of_pairs, all_pairs, last_key, saving, sem,
                   reduce_vars, barrier_vars, status>>

-----------------------------------------------------------------------------
(* reduce_phase.                                                           *)

ReduceEnter(t) ==
    /\ At(t, "reduce")
    /\ IF finished_shuffle
         THEN SetAtomic(REDUCE_STAGE, num_of_pairs) /\ Goto(t, "reduce_test")
         ELSE Goto(t, "done") /\ UNCHANGED counter_vars
    /\ UNCHANGED <<client_vars, map_vars, later_vars, status>>

\* The loop condition, read without the mutex.
ReduceTest(t) ==
    /\ At(t, "reduce_test")
    /\ Goto(t, IF vector_of_vectors = <<>> THEN "reduce_exit" ELSE "reduce_wait")
    /\ UNCHANGED <<client_vars, data_vars, status>>

\* sem_wait: one token for each group of pairs.
ReduceWait(t) ==
    /\ At(t, "reduce_wait")
    /\ Decrease
    /\ Goto(t, "reduce_check")
    /\ UNCHANGED <<earlier_vars, counter_vars, vector_of_vectors, reduce_vars,
                   status>>

\* The second test, still without the mutex.
ReduceCheck(t) ==
    /\ At(t, "reduce_check")
    /\ Goto(t, IF vector_of_vectors = <<>> THEN "reduce_exit" ELSE "reduce_lock")
    /\ UNCHANGED <<client_vars, data_vars, status>>

ReduceLock(t) ==
    /\ At(t, "reduce_lock")
    /\ Lock(mutex_reduce, t)
    /\ Goto(t, "reduce_take")
    /\ UNCHANGED <<earlier_vars, counter_vars, vector_of_vectors, sem, element,
                   output, status>>

\* front() and erase(begin()): undefined, and fatal, on an empty vector.
ReduceTake(t) ==
    /\ At(t, "reduce_take")
    /\ IF vector_of_vectors = <<>>
         THEN status' = "killed" /\ UNCHANGED <<vector_of_vectors, element>>
         ELSE /\ element' = [element EXCEPT ![t] = Head(vector_of_vectors)]
              /\ vector_of_vectors' = Tail(vector_of_vectors)
              /\ UNCHANGED status
    /\ Goto(t, "reduce_call")
    /\ UNCHANGED <<earlier_vars, counter_vars, sem, mutex_reduce, output>>

\* The client's reduce runs on the group and emits through emit3.
ReduceCall(t) ==
    /\ At(t, "reduce_call")
    /\ output' = Append(output, element[t])
    /\ Goto(t, "reduce_count")
    /\ UNCHANGED <<earlier_vars, counter_vars, vector_of_vectors, sem,
                   mutex_reduce, element, status>>

\* The group's pairs are counted and its vector goes out of scope.
ReduceCount(t) ==
    /\ At(t, "reduce_count")
    /\ progress' = [progress EXCEPT !.done = @ + BagCardinality(element[t])]
    /\ element' = [element EXCEPT ![t] = EmptyBag]
    /\ mutex_reduce' = Free
    /\ Goto(t, "reduce_test")
    /\ UNCHANGED <<earlier_vars, set_flags, vector_of_vectors, sem, output,
                   status>>

\* Seeded fault: the thread that leaves wakes nobody.
ReduceExitSilent(t) ==
    /\ At(t, "reduce_exit")
    /\ Goto(t, "done")
    /\ UNCHANGED <<client_vars, data_vars, status>>

\* A thread that leaves hands its token on, to wake a thread that waits.
ReduceExit(t) ==
    /\ At(t, "reduce_exit")
    /\ Increase
    /\ Goto(t, "done")
    /\ UNCHANGED <<earlier_vars, counter_vars, vector_of_vectors, reduce_vars,
                   status>>

-----------------------------------------------------------------------------
(* The client's calls.                                                     *)

ClientAt(here) == status = "up" /\ client = here

\* startMapReduceJob creates the threads one after the other.
Create ==
    /\ ClientAt("start")
    /\ IF turn < NumOfThreads
         THEN Goto(turn, "set_map") /\ turn' = turn + 1 /\ UNCHANGED client
         ELSE client' = "join" /\ turn' = 0 /\ UNCHANGED pc
    /\ UNCHANGED <<emits, data_vars, status>>

\* pthread_create fails: error_handler ends the process.
CreateFails ==
    /\ ClientAt("start")
    /\ turn < NumOfThreads
    /\ status' = "failed"
    /\ UNCHANGED <<client_vars, pc, data_vars>>

\* Seeded fault: the last thread is not joined.
JoinOneShort ==
    /\ ClientAt("join")
    /\ IF turn < NumOfThreads - 1
         THEN pc[turn] = "done" /\ turn' = turn + 1 /\ UNCHANGED client
         ELSE client' = "close" /\ UNCHANGED turn
    /\ UNCHANGED <<emits, pc, data_vars, status>>

\* waitForJob joins the threads in the order of their ids; called again, by
\* the client or by closeJobHandle, it returns at once.
Join ==
    /\ ClientAt("join")
    /\ IF turn < NumOfThreads
         THEN pc[turn] = "done" /\ turn' = turn + 1 /\ UNCHANGED client
         ELSE client' = "close" /\ UNCHANGED turn
    /\ UNCHANGED <<emits, pc, data_vars, status>>

\* closeJobHandle destroys the mutexes, the barriers and the job.
Close ==
    /\ ClientAt("close")
    /\ client' = "closed"
    /\ UNCHANGED <<emits, turn, pc, data_vars, status>>

-----------------------------------------------------------------------------
ThreadStep(t) ==
    \/ SetMap(t)
    \/ MapTest(t)
    \/ MapLock(t)
    \/ MapCheck(t)
    \/ MapClaim(t)
    \/ MapCall(t)
    \/ Sort(t)
    \/ ArriveMapped(t)
    \/ LeaveMapped(t)
    \/ ShuffleStart(t)
    \/ ShuffleTop(t)
    \/ ShufflePop(t)
    \/ ShuffleNextKey(t)
    \/ ShuffleEnd(t)
    \/ ArriveShuffled(t)
    \/ LeaveShuffled(t)
    \/ ReduceEnter(t)
    \/ ReduceTest(t)
    \/ ReduceWait(t)
    \/ ReduceCheck(t)
    \/ ReduceLock(t)
    \/ ReduceTake(t)
    \/ ReduceCall(t)
    \/ ReduceCount(t)
    \/ ReduceExit(t)

ClientStep == Create \/ Join \/ Close

\* The job is closed, or the process has ended: nothing more happens.
Stopped == client = "closed" \/ status # "up"
Stutter == Stopped /\ UNCHANGED vars

Next ==
    \/ \E t \in Threads : ThreadStep(t)
    \/ ClientStep
    \/ CreateFails
    \/ Stutter

Spec == Init /\ [][Next]_vars

(***************************************************************************)
(* The same with spurious wakeups.  From the first of them on a thread may *)
(* shuffle while another one still writes vector_of_vectors: that race is  *)
(* not modelled, and this specification shows no more than how it arises.  *)
(***************************************************************************)
SpuriousNext == Next \/ (\E t \in Threads : Spurious(t))
SpuriousSpec == Init /\ [][SpuriousNext]_vars

(***************************************************************************)
(* Fairness: the operating system runs every thread, so that a thread that *)
(* can go on does.  A mutex or a semaphore need not be fair: a thread that *)
(* another one overtakes again and again is let in when the work is gone.  *)
(***************************************************************************)
FairSpec ==
    /\ Spec
    /\ \A t \in Threads : WF_vars(ThreadStep(t))
    /\ WF_vars(ClientStep)

-----------------------------------------------------------------------------
(* Properties.                                                             *)

MapPcs == {"set_map", "map_test", "map_lock", "map_check", "map_claim",
           "map_call", "sort"}
ReducePcs == {"reduce", "reduce_test", "reduce_wait", "reduce_check",
              "reduce_lock", "reduce_take", "reduce_call", "reduce_count",
              "reduce_exit"}
Pcs == {"new", "barrier", "barrier_wait", "shuffle", "shuffle_top",
        "shuffle_loop", "barrier_reduce", "barrier_reduce_wait", "done"}
       \union MapPcs \union ReducePcs

AllPairs == {p \in Pairs : p[2] \in emits[p[1]]}

(***************************************************************************)
(* The variables have their types, and index is an input: at(index) never  *)
(* throws (316).                                                           *)
(***************************************************************************)
TypeOK ==
    /\ emits \in [Inputs -> SUBSET Keys]
    /\ pc \in [Threads -> Pcs]
    /\ client \in {"start", "join", "close", "closed"}
    /\ turn \in 0 .. NumOfThreads
    /\ progress \in [stage : UNDEFINED_STAGE .. REDUCE_STAGE, todo : Nat, done : Nat]
    /\ set_flags \subseteq {MAP_STAGE, SHUFFLE_STAGE, REDUCE_STAGE}
    /\ done_map \in BOOLEAN
    /\ mutex_map \in Threads \union {Free}
    /\ index \in [Threads -> Inputs]
    /\ num_of_pairs \in Nat
    /\ last_key \in Keys \union {0}
    /\ finished_shuffle \in BOOLEAN
    /\ sem \in Nat
    /\ mutex_reduce \in Threads \union {Free}
    /\ {b1_count, b2_count} \subseteq Nat
    /\ b1_waiting \subseteq Threads
    /\ b2_waiting \subseteq Threads
    /\ spurious \in 0 .. MaxSpurious
    /\ status \in {"up", "failed", "killed"}

(***************************************************************************)
(* Every input is claimed once: the threads that call map hold different   *)
(* inputs, all of them behind the counter, which only moves on under       *)
(* Mutex_map although other stages share it (309, 314).                    *)
(***************************************************************************)
ClaimsDistinct ==
    \A t \in Threads : status = "up" /\ pc[t] = "map_call" =>
        /\ progress.stage = MAP_STAGE
        /\ index[t] \in Inputs /\ index[t] < progress.done
        /\ \A u \in Threads : pc[u] = "map_call" /\ index[u] = index[t] => u = t

\* The inputs whose map has returned: those claimed, less those in the hands
\* of a thread.
Mapped ==
    (CASE progress.stage = UNDEFINED_STAGE -> {}
       [] progress.stage = MAP_STAGE -> 0 .. progress.done - 1
       [] OTHER -> Inputs)
      \ {index[t] : t \in {u \in Threads : pc[u] = "map_call"}}

(***************************************************************************)
(* Every pair that map has emitted is in exactly one place, through the    *)
(* vectors of the threads, vector_of_vectors, the heap, the group being    *)
(* built, the group in a reducer's hands and the output: no interleaving   *)
(* loses a pair or handles one twice.                                      *)
(***************************************************************************)
HeldByThreads ==
    FoldFunction(LAMBDA vectors, bag : Collected(vectors) (+) bag, EmptyBag, intermediate)
BeingReduced ==
    Collected([n \in 1 .. NumOfThreads |->
                 IF pc[n - 1] = "reduce_call" THEN element[n - 1] ELSE EmptyBag])
PairsConserved ==
    status = "up" =>
        HeldByThreads (+) Collected(vector_of_vectors) (+) all_pairs (+) saving
            (+) BeingReduced (+) Collected(output)
          = SetToBag({p \in AllPairs : p[1] \in Mapped})

(***************************************************************************)
(* "The barrier used to ensure all threads had finished the mapping and    *)
(* sort stage." (187): while thread 0 shuffles, every thread is at or past *)
(* the barrier.  "... ensure the main thread had finished the shuffle      *)
(* stage" (188): nobody reduces before that.                               *)
(***************************************************************************)
PhasesSeparated ==
    \A t, u \in Threads :
        /\ pc[t] \in {"shuffle", "shuffle_top", "shuffle_loop", "barrier_reduce"} =>
               pc[u] \in Pcs \ (MapPcs \union {"new", "barrier"})
        /\ pc[t] \in ReducePcs =>
               finished_shuffle /\ pc[u] \in ReducePcs \union {"barrier_reduce_wait", "done"}

(***************************************************************************)
(* While there are groups, each of them has a token, in sem or in the      *)
(* hands of a thread that is past sem_wait; with no group left, no thread  *)
(* is about to take one.  So the unsynchronised tests of                   *)
(* vector_of_vectors (401, 403) never let a thread erase from an empty     *)
(* vector (408).                                                           *)
(***************************************************************************)
TokenHolders == {t \in Threads : pc[t] \in {"reduce_check", "reduce_lock", "reduce_take"}}
TokensMatch ==
    /\ vector_of_vectors # <<>> /\ progress.stage >= SHUFFLE_STAGE =>
           sem + Cardinality(TokenHolders) = Len(vector_of_vectors)
    /\ \A t \in Threads : pc[t] \in {"reduce_lock", "reduce_take"} => vector_of_vectors # <<>>

(***************************************************************************)
(* A thread that waits for a token when the last group is gone is woken    *)
(* (413): a token is there, or another thread is still on its way to       *)
(* handing one on.                                                         *)
(***************************************************************************)
NoStuckReducer ==
    status = "up" /\ vector_of_vectors = <<>> =>
        \A t \in Threads : pc[t] = "reduce_wait" =>
            \/ sem > 0
            \/ \E u \in Threads : pc[u] \in (ReducePcs \ {"reduce_wait"})
                                               \union {"barrier_reduce_wait"}

(***************************************************************************)
(* What getJobState reports: the stage, and the quotient of the two counts *)
(* as the percentage (511).  It is at most 100%, and a number except at    *)
(* two moments, where it is 0/0: before the map stage has begun, and, in a *)
(* job whose map has emitted nothing, after the shuffle stage has begun    *)
(* (371) until top() ends the process (374).  In the shuffle stage it is   *)
(* the share of the pairs that have left the heap, in the reduce stage of  *)
(* those reduced, so that 100% of the reduce stage means that the output   *)
(* is complete.                                                            *)
(***************************************************************************)
JobState == [stage |-> progress.stage, done |-> progress.done, to_do |-> progress.todo]
ReportedProgress ==
    status = "up" =>
        /\ JobState.to_do = 0 <=>
               \/ JobState.stage = UNDEFINED_STAGE
               \/ AllPairs = {} /\ \E t \in Threads : pc[t] = "shuffle_top"
        /\ JobState.done <= JobState.to_do
        /\ JobState.stage = SHUFFLE_STAGE =>
               /\ JobState.to_do = Cardinality(AllPairs)
               /\ JobState.done + BagCardinality(all_pairs) = JobState.to_do
        /\ JobState.stage = REDUCE_STAGE =>
               /\ JobState.to_do = Cardinality(AllPairs)
               /\ JobState.done + BagCardinality(Collected(
                      [n \in 1 .. NumOfThreads |->
                          IF pc[n - 1] = "reduce_count" THEN element[n - 1] ELSE EmptyBag]))
                    = BagCardinality(Collected(output))

(***************************************************************************)
(* What a client that polls getJobState sees never goes back: the stage    *)
(* never, the percentage not within a stage, although every thread starts  *)
(* the map and the reduce stage anew (302, 400).                           *)
(***************************************************************************)
NeverBack ==
    /\ JobState'.stage >= JobState.stage
    /\ JobState'.stage = JobState.stage =>
           JobState'.done * JobState.to_do >= JobState.done * JobState'.to_do
           /\ JobState'.to_do = JobState.to_do
ProgressMonotone == [][NeverBack]_vars

(***************************************************************************)
(* When waitForJob returns, every pair has gone through reduce, and no     *)
(* thread will touch the job that closeJobHandle frees.                    *)
(***************************************************************************)
WaitMeansDone ==
    client \in {"close", "closed"} /\ status = "up" =>
        /\ Collected(output) = SetToBag(AllPairs)
        /\ \A t \in Threads : pc[t] = "done"

(***************************************************************************)
(* The job implements MapReduceJob.                                        *)
(***************************************************************************)
Job == INSTANCE MapReduceJob WITH mapped <- Mapped
JobSpec == Job!Spec

(***************************************************************************)
(* The job ends and is closed, unless a thread cannot be created, or map   *)
(* emitted nothing at all and shuffle_phase reads the top of an empty heap *)
(* (374).                                                                  *)
(***************************************************************************)
Termination ==
    <>(client = "closed" \/ status = "failed" \/ (status = "killed" /\ AllPairs = {} /\ Inputs # {}))
=============================================================================
