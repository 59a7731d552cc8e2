--------------------------- MODULE UThreadsProofs ---------------------------
(***************************************************************************)
(* Proofs about UThreads, for every number of threads and every set of     *)
(* sleeping times.                                                         *)
(***************************************************************************)
EXTENDS UThreads, DataLemmas

-----------------------------------------------------------------------------
(* Facts about the operators of UThreads.                                  *)

\* Thread ids are numbers, the main thread's among them.
LEMMA IdsType == Ids \subseteq Nat /\ MainThreadId \in Ids
BY MaxThreadNumAssumption DEF Ids, MainThreadId

\* The woken sleepers, listed in ascending order, are listed once each.
LEMMA AscendingSeqsType ==
    ASSUME NEW S \in SUBSET Ids, NEW w \in AscendingSeqs(S)
    PROVE  w \in Seq(Ids) /\ ToSet(w) = S /\ NoDuplicates(w)
<1>1. PICK n \in 0 .. MaxThreadNum : w \in [1 .. n -> S]
  BY DEF AscendingSeqs
<1>2. n \in Nat
  BY MaxThreadNumAssumption
<1>3. w \in Seq(S)
  BY <1>1, <1>2, SeqDef
<1>4. w \in Seq(Ids)
  BY <1>3, SeqMonotonic
<1>5. ToSet(w) = S /\ \A i, j \in DOMAIN w : i < j => w[i] < w[j]
  BY DEF AscendingSeqs
<1>6. NoDuplicates(w)
  <2> SUFFICES ASSUME NEW i \in DOMAIN w, NEW j \in DOMAIN w, w[i] = w[j]
               PROVE  i = j
    BY DEF NoDuplicates
  <2>1. w[i] \in Int /\ i \in Int /\ j \in Int
    <3>1. DOMAIN w = 1 .. n
      BY <1>1
    <3>2. i \in Int /\ j \in Int
      BY <3>1, <1>2
    <3>3. w[i] \in S
      BY <1>1, <3>1
    <3>4. S \subseteq Int
      BY IdsType
    <3> QED
      BY <3>2, <3>3, <3>4
  <2>2. ~(i < j) /\ ~(j < i)
    BY <1>5, <2>1
  <2> QED
    BY <2>1, <2>2
<1> QED
  BY <1>4, <1>5, <1>6

\* A sleeper's count stays a number when a quantum passes.
LEMMA ReducedType == \A n \in Int : Reduced(n) \in Nat
BY DEF Reduced

\* A counter stays within its width.
LEMMA CounterType == \A n \in Int : n % CounterMod \in 0 .. CounterMod - 1
BY CounterModAssumption

\* A scheduling decision keeps the types, from whatever the caller hands it.
LEMMA DecisionType ==
    ASSUME TypeOK,
           NEW q \in Seq(Ids), NEW st \in [Ids -> {"READY", "RUNNING", "BLOCKED"}],
           NEW left \in [Ids -> Int], NEW asleep \in SUBSET Ids,
           \A t \in Ids \ asleep : left[t] \in Nat,
           NEW used \in [Ids -> 0 .. CounterMod - 1],
           NEW tm \in {"quantum", "cancelled"}, NEW flag \in BOOLEAN,
           MakeSchedulingDecision(q, st, left, asleep, used, tm, flag)
    PROVE  /\ running_thread' \in Ids
           /\ state' \in [Ids -> {"READY", "RUNNING", "BLOCKED"}]
           /\ sleep' \in [Ids -> Nat]
           /\ quantums' \in [Ids -> 0 .. CounterMod - 1]
           /\ ready_queue' \in Seq(Ids)
           /\ sleeping' \subseteq Ids
           /\ total' \in 0 .. CounterMod - 1
           /\ set_timer' \in BOOLEAN
           /\ timer' \in {"quantum", "cancelled"}
           /\ status' \in {"up", "exited", "failed", "killed"}
           /\ ub' \in BOOLEAN
<1> DEFINE woken == {t \in asleep : Reduced(left[t]) = 0}
           joining == {t \in woken : st[t] # "BLOCKED"}
<1>1. total' \in 0 .. CounterMod - 1
  <2>1. total + 1 \in Int
    BY CounterModAssumption DEF TypeOK
  <2> QED
    BY <2>1, CounterType DEF MakeSchedulingDecision
<1>2. sleep' \in [Ids -> Nat]
  BY ReducedType DEF MakeSchedulingDecision
<1>3. sleeping' \subseteq Ids
  BY DEF MakeSchedulingDecision
<1>4. PICK w \in AscendingSeqs(joining) :
          \/ /\ q \o w # <<>>
             /\ ready_queue' = Tail(q \o w)
             /\ quantums' = QuantumsUse(used, Head(q \o w))
             /\ RunThread(Head(q \o w), st, tm, flag)
             /\ UNCHANGED process_vars
          \/ /\ q \o w = <<>>
             /\ status' = "killed"
             /\ ub' = TRUE
             /\ state' = st
             /\ quantums' = used
             /\ UNCHANGED <<running_thread, ready_queue, timer, set_timer>>
  BY DEF MakeSchedulingDecision
<1>5. q \o w \in Seq(Ids)
  <2>1. joining \in SUBSET Ids
    OBVIOUS
  <2> HIDE DEF joining
  <2>2. w \in Seq(Ids)
    BY <2>1, AscendingSeqsType
  <2> QED
    BY <2>2
<1>6. CASE q \o w # <<>>
  <2> DEFINE r == q \o w
  <2>1. Head(r) \in Ids /\ Tail(r) \in Seq(Ids)
    BY <1>5, <1>6
  <2>2. /\ ready_queue' = Tail(r)
        /\ quantums' = QuantumsUse(used, Head(r))
        /\ RunThread(Head(r), st, tm, flag)
        /\ UNCHANGED process_vars
    BY <1>4, <1>6
  <2> HIDE DEF r
  <2>3. quantums' \in [Ids -> 0 .. CounterMod - 1]
    <3>1. used[Head(r)] + 1 \in Int
      BY <2>1
    <3>2. (used[Head(r)] + 1) % CounterMod \in 0 .. CounterMod - 1
      BY <3>1, CounterType
    <3> QED
      BY <3>2, <2>1, <2>2 DEF QuantumsUse
  <2> QED
    BY <1>1, <1>2, <1>3, <2>1, <2>2, <2>3 DEF RunThread, TypeOK, process_vars
<1>7. CASE q \o w = <<>>
  BY <1>1, <1>2, <1>3, <1>4, <1>7 DEF TypeOK
<1> QED
  BY <1>6, <1>7

\* erase(find(..)) on the ready queue, found or not, keeps the types.
LEMMA EraseReadyType ==
    ASSUME TypeOK, NEW tid \in Ids, EraseReady(tid)
    PROVE  /\ ready_queue' \in Seq(Ids)
           /\ status' \in {"up", "exited", "failed", "killed"}
           /\ ub' \in BOOLEAN
<1>1. ASSUME NEW i \in DOMAIN ready_queue, ready_queue' = RemoveAt(ready_queue, i)
      PROVE  ready_queue' \in Seq(Ids)
  <2> DEFINE a == SubSeq(ready_queue, 1, i - 1)
             b == SubSeq(ready_queue, i + 1, Len(ready_queue))
  <2>1. /\ ready_queue \in Seq(Ids)
        /\ i \in 1 .. Len(ready_queue)
        /\ Len(ready_queue) \in Nat
    BY DEF TypeOK
  <2>2. a \in Seq(Ids) /\ b \in Seq(Ids)
    BY <2>1, SubSeqProperties
  <2> QED
    BY <1>1, <2>2 DEF RemoveAt
<1>2. ASSUME ready_queue # <<>>, ready_queue' = Front(ready_queue)
      PROVE  ready_queue' \in Seq(Ids)
  <2>1. /\ ready_queue \in Seq(Ids)
        /\ Len(ready_queue) \in Nat
    BY DEF TypeOK
  <2>2. SubSeq(ready_queue, 1, Len(ready_queue) - 1) \in Seq(Ids)
    BY <2>1, SubSeqProperties
  <2> QED
    BY <1>2, <2>2 DEF Front
<1>3. ready_queue' \in Seq(Ids)
  BY <1>1, <1>2 DEF EraseReady, TypeOK
<1> QED
  BY <1>3 DEF EraseReady, TypeOK, process_vars

-----------------------------------------------------------------------------
(***************************************************************************)
(* What a caller hands to a scheduling decision: live are the threads that *)
(* exist, none of them RUNNING any more, the queue q and the map asleep    *)
(* agree with them, and the main thread is in the queue.                   *)
(***************************************************************************)
Prepared(live, q, st, left, asleep, tm, flag) ==
    /\ live \subseteq Ids /\ MainThreadId \in live
    /\ q \in Seq(Ids) /\ NoDuplicates(q)
    /\ st \in [Ids -> {"READY", "RUNNING", "BLOCKED"}]
    /\ left \in [Ids -> Int]
    /\ asleep \subseteq live
    /\ st[MainThreadId] = "READY" /\ MainThreadId \notin asleep
    /\ \A t \in live : st[t] # "RUNNING"
    /\ ToSet(q) = {t \in live : st[t] = "READY" /\ t \notin asleep}
    /\ \A t \in live \ asleep : left[t] = 0
    /\ flag = TRUE \/ tm = "quantum"

\* What the decision leaves, where st are the states it was given.
Decided(live, st) ==
    /\ running_thread' \in live
    /\ \A t \in live : state'[t] = "RUNNING" <=> t = running_thread'
    /\ state'[MainThreadId] # "BLOCKED"
    /\ MainThreadId \notin sleeping'
    /\ ToSet(ready_queue') =
          {t \in live : state'[t] = "READY" /\ t \notin sleeping'}
    /\ NoDuplicates(ready_queue')
    /\ \A t \in live : state'[t] = "BLOCKED" <=> st[t] = "BLOCKED"
    /\ sleeping' = {t \in live : sleep'[t] # 0}
    /\ running_thread' \notin sleeping'
    /\ timer' = "quantum" /\ set_timer' = FALSE
    /\ UNCHANGED process_vars

\* A scheduling decision restores the bookkeeping.
LEMMA DecisionBookkeeping ==
    ASSUME NEW live, NEW q, NEW st, NEW left, NEW asleep, NEW used, NEW tm, NEW flag,
           Prepared(live, q, st, left, asleep, tm, flag),
           MakeSchedulingDecision(q, st, left, asleep, used, tm, flag)
    PROVE  Decided(live, st)
<1> USE DEF Prepared
<1> DEFINE woken == {t \in asleep : Reduced(left[t]) = 0}
           joining == {t \in woken : st[t] # "BLOCKED"}
<1>1. PICK w \in AscendingSeqs(joining) :
          \/ /\ q \o w # <<>>
             /\ ready_queue' = Tail(q \o w)
             /\ quantums' = QuantumsUse(used, Head(q \o w))
             /\ RunThread(Head(q \o w), st, tm, flag)
             /\ UNCHANGED process_vars
          \/ /\ q \o w = <<>>
             /\ status' = "killed"
             /\ ub' = TRUE
             /\ state' = st
             /\ quantums' = used
             /\ UNCHANGED <<running_thread, ready_queue, timer, set_timer>>
  BY DEF MakeSchedulingDecision
<1>2. w \in Seq(Ids) /\ ToSet(w) = joining /\ NoDuplicates(w)
  <2>1. joining \in SUBSET Ids
    OBVIOUS
  <2> HIDE DEF joining
  <2> QED
    BY <2>1, AscendingSeqsType
<1> DEFINE r == q \o w
<1>3. r \in Seq(Ids) /\ NoDuplicates(r) /\ ToSet(r) = ToSet(q) \union joining
  <2>1. ToSet(q) \cap ToSet(w) = {}
    BY <1>2
  <2> HIDE DEF joining
  <2> QED
    BY <1>2, <2>1, ConcatNoDuplicates
<1>4. MainThreadId \in ToSet(r)
  BY <1>3
<1>5. r # <<>>
  BY <1>4 DEF ToSet
<1>6. /\ ready_queue' = Tail(r)
      /\ RunThread(Head(r), st, tm, flag)
      /\ UNCHANGED process_vars
  BY <1>1, <1>5
<1> HIDE DEF r
<1>7. /\ Head(r) \in ToSet(r)
      /\ NoDuplicates(Tail(r))
      /\ ToSet(Tail(r)) = ToSet(r) \ {Head(r)}
  BY <1>3, <1>5, TailNoDuplicates
<1>8. sleeping' = asleep \ woken
  BY DEF MakeSchedulingDecision
<1>9. ToSet(r) = {t \in live : st[t] = "READY" /\ t \notin sleeping'}
  BY <1>3, <1>8
<1>10. /\ running_thread' = Head(r)
       /\ state' = [st EXCEPT ![Head(r)] = "RUNNING"]
       /\ timer' = "quantum" /\ set_timer' = FALSE
  BY <1>6 DEF RunThread
<1>11. Head(r) \in live /\ st[Head(r)] = "READY" /\ Head(r) \notin sleeping'
  BY <1>7, <1>9
<1>12. \A t \in live : /\ t = Head(r) => state'[t] = "RUNNING"
                       /\ t # Head(r) => state'[t] = st[t]
  BY <1>10
<1>13. ToSet(ready_queue') = {t \in live : state'[t] = "READY" /\ t \notin sleeping'}
  BY <1>6, <1>7, <1>9, <1>12
<1>14. sleeping' = {t \in live : sleep'[t] # 0}
  <2>1. \A t \in Ids : sleep'[t] = IF t \in asleep THEN Reduced(left[t]) ELSE left[t]
    BY DEF MakeSchedulingDecision
  <2> QED
    BY <1>8, <2>1
<1>15. state'[MainThreadId] # "BLOCKED" /\ MainThreadId \notin sleeping'
  BY <1>8, <1>12
<1> QED
  BY <1>6, <1>7, <1>10, <1>11, <1>12, <1>13, <1>14, <1>15 DEF Decided

-----------------------------------------------------------------------------
(* Type correctness.                                                       *)

\* The library's own variables fit the parameters of a scheduling decision.
LEMMA SleepType ==
    ASSUME TypeOK
    PROVE  sleep \in [Ids -> Int] /\ \A t \in Ids \ sleeping : sleep[t] \in Nat
<1>1. \A t \in Ids : sleep[t] \in Nat /\ sleep[t] \in Int
  BY DEF TypeOK
<1>2. sleep = [t \in Ids |-> sleep[t]]
  BY DEF TypeOK
<1> QED
  BY <1>1, <1>2

\* uthread_init establishes the types.
LEMMA InitType == Init => TypeOK
<1> SUFFICES ASSUME Init PROVE TypeOK
  OBVIOUS
<1>1. 0 \in 0 .. CounterMod - 1 /\ 1 % CounterMod \in 0 .. CounterMod - 1
  BY CounterModAssumption, CounterType
<1>2. <<>> \in Seq(Ids)
  OBVIOUS
<1> QED
  BY <1>1, <1>2, IdsType DEF Init, TypeOK

\* Every action of the library keeps the types.
LEMMA NextType == TypeOK /\ [Next]_vars => TypeOK'
<1> SUFFICES ASSUME TypeOK, [Next]_vars PROVE TypeOK'
  OBVIOUS
<1> USE IdsType
<1>1. CASE Tick
  <2> DEFINE q == Append(ready_queue, running_thread)
             st == [state EXCEPT ![running_thread] = "READY"]
  <2>1. q \in Seq(Ids)
    BY DEF TypeOK
  <2>2. st \in [Ids -> {"READY", "RUNNING", "BLOCKED"}]
    BY DEF TypeOK
  <2>3. /\ MakeSchedulingDecision(q, st, sleep, sleeping, quantums, timer, set_timer)
        /\ UNCHANGED <<threads, blocked, ids, masked, retired>>
    BY <1>1 DEF Tick
  <2>4. /\ sleeping \in SUBSET Ids /\ quantums \in [Ids -> 0 .. CounterMod - 1]
        /\ timer \in {"quantum", "cancelled"} /\ set_timer \in BOOLEAN
    BY DEF TypeOK
  <2> HIDE DEF q, st
  <2>5. /\ running_thread' \in Ids
        /\ state' \in [Ids -> {"READY", "RUNNING", "BLOCKED"}]
        /\ sleep' \in [Ids -> Nat]
        /\ quantums' \in [Ids -> 0 .. CounterMod - 1]
        /\ ready_queue' \in Seq(Ids)
        /\ sleeping' \subseteq Ids
        /\ total' \in 0 .. CounterMod - 1
        /\ set_timer' \in BOOLEAN
        /\ timer' \in {"quantum", "cancelled"}
        /\ status' \in {"up", "exited", "failed", "killed"}
        /\ ub' \in BOOLEAN
    BY <2>1, <2>2, <2>3, <2>4, SleepType, DecisionType
  <2> QED
    BY <2>3, <2>5 DEF TypeOK
<1>2. CASE Spawn
  <2>1. PICK id \in ids :
            /\ ids' = ids \ {id}
            /\ threads' = threads \union {id}
            /\ state' = [state EXCEPT ![id] = "READY"]
            /\ sleep' = [sleep EXCEPT ![id] = 0]
            /\ quantums' = [quantums EXCEPT ![id] = 0]
            /\ ready_queue' = Append(ready_queue, id)
            /\ masked' = masked \ {running_thread, id}
    BY <1>2 DEF Spawn
  <2>2. UNCHANGED <<running_thread, blocked, sleeping, total, set_timer, timer,
                    retired, status, ub>>
    BY <1>2 DEF Spawn, process_vars
  <2>3. id \in Ids /\ 0 \in 0 .. CounterMod - 1
    BY CounterModAssumption DEF TypeOK
  <2>4. ready_queue' \in Seq(Ids)
    BY <2>1, <2>3 DEF TypeOK
  <2> QED
    BY <2>1, <2>2, <2>3, <2>4 DEF TypeOK
<1>3. CASE SpawnFails \/ SleepRefused \/ GetQuantums
  BY <1>3 DEF SpawnFails, SleepRefused, GetQuantums, BlockSignals, UnblockSignals,
              thread_vars, clock_vars, sleep_vars, process_vars, TypeOK
<1>4. CASE TerminateMain \/ SystemError
  BY <1>4 DEF TerminateMain, SystemError, thread_vars, clock_vars, sleep_vars, TypeOK
<1>5. ASSUME NEW tid \in TidArgs, Terminate(tid) PROVE TypeOK'
  <2>1. CASE TerminateMissing(tid)
    BY <2>1 DEF TerminateMissing, BlockSignals, thread_vars, clock_vars,
                sleep_vars, process_vars, TypeOK
  <2>2. ASSUME tid \in Ids, Forget(tid)
        PROVE  threads' \subseteq Ids /\ ids' \subseteq Ids
               /\ retired' \in 0 .. CounterMod - 1
    <3>1. retired + quantums[tid] \in Int
      BY <2>2, CounterModAssumption DEF TypeOK
    <3> QED
      BY <2>2, <3>1, CounterType DEF Forget, TypeOK
  <2>3. 0 \in 0 .. CounterMod - 1
    BY CounterModAssumption
  <2>4. CASE TerminateReady(tid)
    <3>1. tid \in Ids /\ EraseReady(tid) /\ Forget(tid)
      BY <2>4 DEF TerminateReady, TypeOK
    <3> QED
      BY <2>2, <2>3, <2>4, <3>1, EraseReadyType DEF TerminateReady, Freed, TypeOK
  <2>5. CASE TerminateBlocked(tid)
    <3>1. tid \in Ids /\ Forget(tid)
      BY <2>5 DEF TerminateBlocked, TypeOK
    <3> QED
      BY <2>2, <2>3, <2>5, <3>1 DEF TerminateBlocked, Freed, process_vars, TypeOK
  <2>6. CASE TerminateRunning(tid)
    <3>1. tid \in Ids /\ Forget(tid)
      BY <2>6 DEF TerminateRunning, TypeOK
    <3>2. /\ Freed(state, tid, "READY") \in [Ids -> {"READY", "RUNNING", "BLOCKED"}]
          /\ Freed(quantums, tid, 0) \in [Ids -> 0 .. CounterMod - 1]
      BY <2>3 DEF Freed, TypeOK
    <3>3. MakeSchedulingDecision(ready_queue, Freed(state, tid, "READY"), sleep,
              sleeping, Freed(quantums, tid, 0), "cancelled", TRUE)
      BY <2>6 DEF TerminateRunning
    <3>4. masked' \subseteq Ids /\ UNCHANGED blocked
      BY <2>6 DEF TerminateRunning, TypeOK
    <3>5. ready_queue \in Seq(Ids) /\ sleeping \in SUBSET Ids
      BY DEF TypeOK
    <3> QED
      BY <2>2, <3>1, <3>2, <3>3, <3>4, <3>5, SleepType, DecisionType DEF TypeOK
  <2> QED
    BY <1>5, <2>1, <2>4, <2>5, <2>6 DEF Terminate
<1>6. ASSUME NEW tid \in TidArgs, Block(tid) PROVE TypeOK'
  <2>1. CASE BlockRefused(tid)
    BY <2>1 DEF BlockRefused, BlockSignals, thread_vars, clock_vars,
                sleep_vars, process_vars, TypeOK, Blockable
  <2>2. CASE BlockReady(tid)
    <3>1. tid \in Ids
      BY <2>2 DEF BlockReady, TypeOK, Blockable
    <3>2. /\ ready_queue' \in Seq(Ids)
          /\ status' \in {"up", "exited", "failed", "killed"}
          /\ ub' \in BOOLEAN
      BY <2>2, <3>1, EraseReadyType DEF BlockReady, process_vars, TypeOK, Blockable
    <3>3. UNCHANGED <<threads, ids, running_thread, quantums, total, set_timer,
                      timer, sleep, sleeping, retired>>
      BY <2>2 DEF BlockReady, clock_vars, sleep_vars, Blockable
    <3>4. state' \in [Ids -> {"READY", "RUNNING", "BLOCKED"}]
          /\ blocked' \subseteq Ids /\ masked' \subseteq Ids
      BY <2>2, <3>1 DEF BlockReady, UnblockSignals, TypeOK, Blockable
    <3> QED
      BY <3>2, <3>3, <3>4 DEF TypeOK
  <2>3. CASE BlockRunning(tid)
    <3>1. tid \in Ids
      BY <2>3 DEF BlockRunning, TypeOK, Blockable
    <3>2. /\ [state EXCEPT ![tid] = "BLOCKED"]
                \in [Ids -> {"READY", "RUNNING", "BLOCKED"}]
          /\ ready_queue \in Seq(Ids) /\ sleeping \in SUBSET Ids
          /\ quantums \in [Ids -> 0 .. CounterMod - 1]
      BY DEF TypeOK
    <3>3. MakeSchedulingDecision(ready_queue, [state EXCEPT ![tid] = "BLOCKED"],
              sleep, sleeping, quantums, "cancelled", TRUE)
      BY <2>3 DEF BlockRunning, Blockable
    <3>4. blocked' \subseteq Ids /\ UNCHANGED <<threads, ids, masked, retired>>
      BY <2>3, <3>1 DEF BlockRunning, TypeOK, Blockable
    <3> QED
      BY <3>2, <3>3, <3>4, SleepType, DecisionType DEF TypeOK
  <2> QED
    BY <1>6, <2>1, <2>2, <2>3 DEF Block
<1>7. ASSUME NEW tid \in TidArgs, Resume(tid) PROVE TypeOK'
  <2>1. CASE ResumeRefused(tid)
    BY <2>1 DEF ResumeRefused, UnblockSignals, thread_vars, clock_vars,
                sleep_vars, process_vars, TypeOK
  <2>2. CASE ResumeBlocked(tid)
    <3>1. tid \in Ids
      BY <2>2 DEF ResumeBlocked, TypeOK, Rejoined
    <3>2. ready_queue' \in Seq(Ids)
      BY <2>2, <3>1 DEF ResumeBlocked, TypeOK, Rejoined
    <3> QED
      BY <2>2, <3>1, <3>2 DEF ResumeBlocked, UnblockSignals, clock_vars,
                              sleep_vars, process_vars, TypeOK, Rejoined
  <2> QED
    BY <1>7, <2>1, <2>2 DEF Resume
<1>8. ASSUME NEW n \in SleepArgs, Sleep(n) PROVE TypeOK'
  <2> DEFINE c == running_thread
  <2>1. n \in Int /\ c \in Ids
    BY SleepArgsAssumption DEF TypeOK
  <2>2. /\ [state EXCEPT ![c] = "READY"] \in [Ids -> {"READY", "RUNNING", "BLOCKED"}]
        /\ [sleep EXCEPT ![c] = n] \in [Ids -> Int]
        /\ sleeping \union {c} \in SUBSET Ids
        /\ \A t \in Ids \ (sleeping \union {c}) : [sleep EXCEPT ![c] = n][t] \in Nat
        /\ ready_queue \in Seq(Ids)
        /\ quantums \in [Ids -> 0 .. CounterMod - 1]
    BY <2>1 DEF TypeOK
  <2>3. MakeSchedulingDecision(ready_queue, [state EXCEPT ![c] = "READY"],
            [sleep EXCEPT ![c] = n], sleeping \union {c}, quantums, "cancelled", TRUE)
    BY <1>8 DEF Sleep
  <2>4. masked' \subseteq Ids /\ UNCHANGED <<threads, blocked, ids, retired>>
    BY <1>8, <2>1 DEF Sleep, BlockSignals, TypeOK
  <2> HIDE DEF c
  <2> QED
    BY <2>2, <2>3, <2>4, DecisionType DEF TypeOK
<1>9. CASE UNCHANGED vars
  BY <1>9 DEF vars, TypeOK
<1> QED
  BY <1>1, <1>2, <1>3, <1>4, <1>5, <1>6, <1>7, <1>8, <1>9 DEF Next

(***************************************************************************)
(* The library's variables keep their types in every run, the runs that go *)
(* through undefined behaviour included.                                   *)
(***************************************************************************)
THEOREM TypeCorrect == Spec => []TypeOK
BY InitType, NextType, PTL DEF Spec

-----------------------------------------------------------------------------
(* The bookkeeping.  The conjuncts of Bookkeeping, taken together, are     *)
(* inductive: a call finds its thread in the queue because the queue holds *)
(* exactly the READY threads that are awake, and a scheduling decision     *)
(* finds the main thread there because it can be neither blocked, put to   *)
(* sleep nor terminated.                                                   *)

\* The conjuncts of Bookkeeping, for the proofs of the steps.
Sound ==
    /\ OneRunning
    /\ MainAwake
    /\ QueueExact
    /\ MapsAgree
    /\ IdsPartition
    /\ TimerArmed

\* With nobody blocked, asleep or queued the structures agree.
LEMMA InitBookkeeping == Init => Bookkeeping
<1> SUFFICES ASSUME Init PROVE Sound
  BY DEF Sound, Bookkeeping
<1>1. DOMAIN ready_queue = {}
  BY DEF Init
<1>2. QueueExact
  BY <1>1, IdsType DEF Init, QueueExact, ToSet
<1> QED
  BY <1>2, IdsType DEF Init, Sound, OneRunning, MainAwake, MapsAgree,
                       IdsPartition, TimerArmed

\* A call that changes no structure keeps them in agreement.
LEMMA QuietBookkeeping ==
    ASSUME Sound, UNCHANGED <<thread_vars, clock_vars, sleep_vars, ready_queue>>
    PROVE  Sound'
BY DEF Sound, OneRunning, MainAwake, QueueExact, MapsAgree, IdsPartition,
       TimerArmed, thread_vars, clock_vars, sleep_vars

\* The structures agree after the decision if threads, blocked and ids do.
LEMMA DecidedSound ==
    ASSUME NEW live, NEW st,
           Decided(live, st),
           threads' = live,
           ids' = Ids \ live,
           blocked' = {t \in live : st[t] = "BLOCKED"},
           MainThreadId \in live
    PROVE  Sound'
<1>1. OneRunning' /\ MainAwake'
  BY DEF Decided, OneRunning, MainAwake
<1>2. QueueExact'
  BY DEF Decided, QueueExact, NoDuplicates
<1>3. MapsAgree'
  BY DEF Decided, MapsAgree
<1>4. IdsPartition' /\ TimerArmed'
  BY DEF Decided, IdsPartition, TimerArmed
<1> QED
  BY <1>1, <1>2, <1>3, <1>4 DEF Sound

\* A tick of the timer puts the running thread at the end of the queue.
LEMMA TickPrepared ==
    ASSUME TypeOK, Sound
    PROVE  Prepared(threads, Append(ready_queue, running_thread),
                    [state EXCEPT ![running_thread] = "READY"],
                    sleep, sleeping, timer, set_timer)
<1> DEFINE q == Append(ready_queue, running_thread)
           st == [state EXCEPT ![running_thread] = "READY"]
<1> USE IdsType
<1>1. threads \in SUBSET Ids /\ MainThreadId \in threads
      /\ sleeping \in SUBSET threads /\ running_thread \in threads
  BY DEF TypeOK, Sound, OneRunning, MainAwake, MapsAgree
<1>2. st \in [Ids -> {"READY", "RUNNING", "BLOCKED"}]
      /\ \A t \in threads : st[t] = IF t = running_thread THEN "READY" ELSE state[t]
  BY <1>1 DEF TypeOK
<1>3. st[MainThreadId] = "READY" /\ MainThreadId \notin sleeping
      /\ \A t \in threads : st[t] # "RUNNING"
  BY <1>1, <1>2 DEF TypeOK, Sound, OneRunning, MainAwake
<1>4. running_thread \notin ToSet(ready_queue)
  BY DEF Sound, OneRunning, QueueExact
<1>5. q \in Seq(Ids) /\ NoDuplicates(q)
      /\ ToSet(q) = ToSet(ready_queue) \union {running_thread}
  <2>1. ready_queue \in Seq(Ids) /\ running_thread \in Ids /\ NoDuplicates(ready_queue)
    BY DEF TypeOK, Sound, QueueExact, NoDuplicates
  <2> QED
    BY <1>4, <2>1, AppendNoDuplicates
<1>6. ToSet(q) = {t \in threads : st[t] = "READY" /\ t \notin sleeping}
  BY <1>1, <1>2, <1>5 DEF Sound, QueueExact, OneRunning, MapsAgree
<1>7. \A t \in threads \ sleeping : sleep[t] = 0
  BY DEF Sound, MapsAgree
<1>8. timer = "quantum" /\ set_timer \in BOOLEAN
  BY DEF Sound, TimerArmed, TypeOK
<1>9. sleep \in [Ids -> Int]
  BY SleepType
<1> HIDE DEF q, st
<1>10. Prepared(threads, q, st, sleep, sleeping, timer, set_timer)
  BY <1>1, <1>2, <1>3, <1>5, <1>6, <1>7, <1>8, <1>9 DEF Prepared
<1> QED
  BY <1>10 DEF q, st

\* Preemption keeps the structures in agreement.
LEMMA TickBookkeeping ==
    ASSUME TypeOK, Sound, Tick
    PROVE  Sound'
<1> DEFINE q == Append(ready_queue, running_thread)
           st == [state EXCEPT ![running_thread] = "READY"]
<1>1. MakeSchedulingDecision(q, st, sleep, sleeping, quantums, timer, set_timer)
      /\ UNCHANGED <<threads, blocked, ids>>
  BY DEF Tick
<1>2. Decided(threads, st)
  <2>1. Prepared(threads, q, st, sleep, sleeping, timer, set_timer)
    BY TickPrepared
  <2> HIDE DEF q, st
  <2> QED
    BY <1>1, <2>1, DecisionBookkeeping
<1>3. blocked' = {t \in threads : st[t] = "BLOCKED"}
  <2>1. running_thread \in threads /\ state[running_thread] = "RUNNING"
        /\ blocked = {t \in threads : state[t] = "BLOCKED"}
    BY DEF Sound, OneRunning, MapsAgree
  <2>2. \A t \in threads : st[t] = IF t = running_thread THEN "READY" ELSE state[t]
    BY DEF TypeOK
  <2> HIDE DEF st
  <2> QED
    BY <1>1, <2>1, <2>2
<1>4. threads' = threads /\ ids' = Ids \ threads /\ MainThreadId \in threads
  BY <1>1 DEF Sound, IdsPartition, MainAwake
<1> HIDE DEF q, st
<1> QED
  BY <1>2, <1>3, <1>4, DecidedSound

(***************************************************************************)
(* How the running thread, not the main one, gives the processor up: it is *)
(* no longer among the live threads, or stays as a BLOCKED or a sleeping   *)
(* one; nothing else changes.                                              *)
(***************************************************************************)
Yields(live, st, left, asleep) ==
    LET c == running_thread
    IN  /\ c # MainThreadId
        /\ live \in {threads, threads \ {c}}
        /\ st \in [Ids -> {"READY", "RUNNING", "BLOCKED"}]
        /\ \A t \in live : IF t = c THEN st[t] \in {"READY", "BLOCKED"}
                                      ELSE st[t] = state[t]
        /\ left \in [Ids -> Int]
        /\ \A t \in live : t # c => left[t] = sleep[t]
        /\ asleep \subseteq live
        /\ asleep \ {c} = sleeping
        /\ \/ c \notin live
           \/ st[c] = "BLOCKED" /\ left[c] = 0 /\ c \notin asleep
           \/ c \in asleep

\* A thread that gives up the processor leaves the queue as it was.
LEMMA YieldPrepared ==
    ASSUME TypeOK, Sound, NEW live, NEW st, NEW left, NEW asleep,
           Yields(live, st, left, asleep)
    PROVE  Prepared(live, ready_queue, st, left, asleep, "cancelled", TRUE)
<1> USE IdsType
<1>1. live \subseteq Ids /\ MainThreadId \in live
  BY DEF Yields, TypeOK, Sound, MainAwake
<1>2. st[MainThreadId] = "READY" /\ MainThreadId \notin asleep
  <2>1. state[MainThreadId] = "READY"
    BY DEF Yields, TypeOK, Sound, OneRunning, MainAwake
  <2> QED
    BY <1>1, <2>1 DEF Yields, Sound, MainAwake
<1>3. \A t \in live : st[t] # "RUNNING"
  BY DEF Yields, Sound, OneRunning
<1>4. ready_queue \in Seq(Ids) /\ NoDuplicates(ready_queue)
  BY DEF TypeOK, Sound, QueueExact, NoDuplicates
<1>5. ToSet(ready_queue) = {t \in live : st[t] = "READY" /\ t \notin asleep}
  <2>1. ToSet(ready_queue) = {t \in threads : state[t] = "READY" /\ t \notin sleeping}
    BY DEF Sound, QueueExact
  <2>2. state[running_thread] = "RUNNING"
    BY DEF Sound, OneRunning
  <2> QED
    BY <2>1, <2>2 DEF Yields
<1>6. \A t \in live \ asleep : left[t] = 0
  BY DEF Yields, Sound, MapsAgree
<1>7. Prepared(live, ready_queue, st, left, asleep, "cancelled", TRUE)
  <2>1. /\ st \in [Ids -> {"READY", "RUNNING", "BLOCKED"}]
        /\ left \in [Ids -> Int]
        /\ asleep \subseteq live
    BY DEF Yields
  <2> QED
    BY <1>1, <1>2, <1>3, <1>4, <1>5, <1>6, <2>1 DEF Prepared
<1> QED
  BY <1>7

\* A call that ends in a scheduling decision keeps the structures in
\* agreement.
LEMMA YieldBookkeeping ==
    ASSUME TypeOK, Sound, NEW live, NEW st, NEW left, NEW asleep, NEW used,
           Yields(live, st, left, asleep),
           MakeSchedulingDecision(ready_queue, st, left, asleep, used, "cancelled", TRUE),
           threads' = live,
           blocked' = {t \in live : st[t] = "BLOCKED"},
           ids' = Ids \ live
    PROVE  Sound'
<1>1. Prepared(live, ready_queue, st, left, asleep, "cancelled", TRUE)
  BY YieldPrepared
<1>2. Decided(live, st)
  BY <1>1, DecisionBookkeeping
<1> QED
  BY <1>1, <1>2, DecidedSound DEF Prepared

\* The three calls by which a thread gives the processor up.
LEMMA TerminateYields ==
    ASSUME TypeOK, Sound, NEW tid \in TidArgs, TerminateRunning(tid)
    PROVE  Yields(threads \ {tid}, Freed(state, tid, "READY"), sleep, sleeping)
<1> DEFINE live == threads \ {tid}
           st == Freed(state, tid, "READY")
<1>1. tid = running_thread /\ tid # MainThreadId
  BY DEF TerminateRunning, Sound, OneRunning
<1>2. sleep \in [Ids -> Int]
  BY SleepType
<1>3. st \in [Ids -> {"READY", "RUNNING", "BLOCKED"}]
      /\ \A t \in live : st[t] = state[t]
  BY DEF Freed, TypeOK
<1>4. sleeping \subseteq live
  BY <1>1 DEF Sound, MapsAgree
<1> QED
  BY <1>1, <1>2, <1>3, <1>4 DEF Yields

\* A thread that blocks itself gives up the processor, blocked.
LEMMA BlockYields ==
    ASSUME TypeOK, Sound, NEW tid \in TidArgs, BlockRunning(tid)
    PROVE  Yields(threads, [state EXCEPT ![tid] = "BLOCKED"], sleep, sleeping)
<1> DEFINE st == [state EXCEPT ![tid] = "BLOCKED"]
<1>1. tid = running_thread /\ tid # MainThreadId /\ tid \in Ids
  BY DEF BlockRunning, Sound, OneRunning, TypeOK, Blockable
<1>2. st \in [Ids -> {"READY", "RUNNING", "BLOCKED"}] /\ st[tid] = "BLOCKED"
      /\ \A t \in threads : t # tid => st[t] = state[t]
  BY <1>1 DEF TypeOK
<1>3. sleep \in [Ids -> Int]
  BY SleepType
<1>4. tid \notin sleeping /\ sleep[tid] = 0 /\ sleeping \subseteq threads
  BY <1>1 DEF Sound, MapsAgree, OneRunning
<1> HIDE DEF st
<1>5. Yields(threads, st, sleep, sleeping)
  BY <1>1, <1>2, <1>3, <1>4 DEF Yields
<1> QED
  BY <1>5 DEF st

\* A thread that goes to sleep gives up the processor, asleep.
LEMMA SleepYields ==
    ASSUME TypeOK, Sound, NEW n \in SleepArgs, Sleep(n)
    PROVE  Yields(threads, [state EXCEPT ![running_thread] = "READY"],
                  [sleep EXCEPT ![running_thread] = n],
                  sleeping \union {running_thread})
<1> DEFINE c == running_thread
           st == [state EXCEPT ![c] = "READY"]
           left == [sleep EXCEPT ![c] = n]
           asleep == sleeping \union {c}
<1>1. c # MainThreadId /\ c \in threads /\ c \in Ids /\ n \in Int
  BY SleepArgsAssumption DEF Sleep, Sound, OneRunning, TypeOK
<1>2. st \in [Ids -> {"READY", "RUNNING", "BLOCKED"}] /\ st[c] = "READY"
      /\ \A t \in threads : t # c => st[t] = state[t]
  BY <1>1 DEF TypeOK
<1>3. left \in [Ids -> Int] /\ \A t \in threads : t # c => left[t] = sleep[t]
  <2>1. sleep \in [Ids -> Int] /\ threads \subseteq Ids
    BY SleepType DEF TypeOK
  <2> QED
    BY <1>1, <2>1
<1>4. asleep \subseteq threads /\ asleep \ {c} = sleeping /\ c \in asleep
  BY <1>1 DEF Sound, MapsAgree
<1> HIDE DEF st, left, asleep
<1>5. Yields(threads, st, left, asleep)
  BY <1>1, <1>2, <1>3, <1>4 DEF Yields
<1> QED
  BY <1>5 DEF st, left, asleep

\* uthread_spawn puts the new thread in the map and the queue, and takes its
\* id.
LEMMA SpawnBookkeeping ==
    ASSUME TypeOK, Sound, Spawn
    PROVE  Sound'
<1>1. PICK id \in ids :
          /\ ids' = ids \ {id}
          /\ threads' = threads \union {id}
          /\ state' = [state EXCEPT ![id] = "READY"]
          /\ sleep' = [sleep EXCEPT ![id] = 0]
          /\ ready_queue' = Append(ready_queue, id)
  BY DEF Spawn
<1>2. UNCHANGED <<running_thread, blocked, sleeping, set_timer, timer>>
  BY DEF Spawn
<1>3. id \in Ids /\ id \notin threads /\ threads \subseteq Ids
      /\ MainThreadId \in threads /\ running_thread \in threads
  BY DEF TypeOK, Sound, IdsPartition, MainAwake, OneRunning
<1>4. \A t \in threads : state'[t] = state[t] /\ sleep'[t] = sleep[t]
  BY <1>1, <1>3 DEF TypeOK
<1>5. state'[id] = "READY" /\ sleep'[id] = 0
  BY <1>1, <1>3 DEF TypeOK
<1>6. id \notin sleeping /\ id \notin blocked /\ id \notin ToSet(ready_queue)
  BY <1>3 DEF Sound, MapsAgree, QueueExact
<1>7. NoDuplicates(ready_queue') /\ ToSet(ready_queue') = ToSet(ready_queue) \union {id}
  <2>1. ready_queue \in Seq(Ids) /\ NoDuplicates(ready_queue)
    BY DEF TypeOK, Sound, QueueExact, NoDuplicates
  <2> QED
    BY <1>1, <1>3, <1>6, <2>1, AppendNoDuplicates
<1>8. OneRunning' /\ MainAwake'
  BY <1>1, <1>2, <1>3, <1>4, <1>5 DEF Sound, OneRunning, MainAwake
<1>9. QueueExact'
  BY <1>1, <1>2, <1>4, <1>5, <1>6, <1>7 DEF Sound, QueueExact, NoDuplicates
<1>10. MapsAgree'
  BY <1>1, <1>2, <1>4, <1>5, <1>6 DEF Sound, MapsAgree
<1>11. IdsPartition' /\ TimerArmed'
  BY <1>1, <1>2, <1>3 DEF Sound, IdsPartition, TimerArmed
<1> QED
  BY <1>8, <1>9, <1>10, <1>11 DEF Sound

(***************************************************************************)
(* std::find finds every READY thread that is awake, and only those.       *)
(***************************************************************************)
LEMMA EraseReadyFinds ==
    ASSUME TypeOK, Sound, NEW tid \in threads, state[tid] = "READY",
           EraseReady(tid), ~ub'
    PROVE  /\ tid \notin sleeping
           /\ ToSet(ready_queue') = ToSet(ready_queue) \ {tid}
           /\ NoDuplicates(ready_queue')
<1>1. PICK i \in DOMAIN ready_queue :
          ready_queue[i] = tid /\ ready_queue' = RemoveAt(ready_queue, i)
  BY DEF EraseReady
<1>2. tid \in ToSet(ready_queue)
  BY <1>1 DEF ToSet
<1>3. ready_queue \in Seq(Ids) /\ NoDuplicates(ready_queue)
  BY DEF TypeOK, Sound, QueueExact, NoDuplicates
<1>4. tid \notin sleeping
  BY <1>2 DEF Sound, QueueExact
<1> QED
  BY <1>1, <1>3, <1>4, RemoveAtNoDuplicates

\* uthread_terminate removes the thread from every structure and frees its id.
LEMMA TerminateBookkeeping ==
    ASSUME TypeOK, Sound, NEW tid \in TidArgs, Terminate(tid), ~ub'
    PROVE  Sound'
<1>1. CASE TerminateMissing(tid)
  BY <1>1, QuietBookkeeping DEF TerminateMissing
<1>2. CASE TerminateReady(tid)
  <2>1. tid \in threads /\ tid \in Ids /\ tid # MainThreadId /\ state[tid] = "READY"
        /\ tid # running_thread
    BY <1>2 DEF TerminateReady, TypeOK, Sound, OneRunning
  <2>2. tid \notin sleeping /\ NoDuplicates(ready_queue')
        /\ ToSet(ready_queue') = ToSet(ready_queue) \ {tid}
    BY <1>2, <2>1, EraseReadyFinds DEF TerminateReady
  <2>3. threads' = threads \ {tid} /\ ids' = ids \union {tid}
        /\ UNCHANGED <<running_thread, state, blocked, set_timer, timer>>
    BY <1>2 DEF TerminateReady, Forget
  <2>4. sleeping' = sleeping /\ \A t \in threads' : sleep'[t] = sleep[t]
    BY <1>2, <2>2, <2>3 DEF TerminateReady, Freed, TypeOK
  <2>5. OneRunning' /\ MainAwake'
    BY <2>1, <2>3, <2>4 DEF Sound, OneRunning, MainAwake
  <2>6. QueueExact'
    BY <2>2, <2>3, <2>4 DEF Sound, QueueExact, NoDuplicates
  <2>7. MapsAgree'
    BY <2>1, <2>2, <2>3, <2>4 DEF Sound, MapsAgree
  <2>8. IdsPartition' /\ TimerArmed'
    BY <2>1, <2>3 DEF Sound, IdsPartition, TimerArmed
  <2> QED
    BY <2>5, <2>6, <2>7, <2>8 DEF Sound
<1>3. CASE TerminateBlocked(tid)
  <2>1. tid \in threads /\ tid \in Ids /\ tid # MainThreadId /\ state[tid] = "BLOCKED"
        /\ tid # running_thread
    BY <1>3 DEF TerminateBlocked, TypeOK, Sound, OneRunning
  <2>2. threads' = threads \ {tid} /\ ids' = ids \union {tid}
        /\ blocked' = blocked \ {tid}
        /\ UNCHANGED <<running_thread, ready_queue, set_timer, timer>>
    BY <1>3 DEF TerminateBlocked, Forget
  <2>3. \A t \in threads' : state'[t] = state[t] /\ sleep'[t] = sleep[t]
    BY <1>3, <2>2 DEF TerminateBlocked, Freed, TypeOK
  <2>4. sleeping' = sleeping \ {tid}
    BY <1>3, <2>1 DEF TerminateBlocked, Sound, MapsAgree
  <2>5. OneRunning' /\ MainAwake'
    BY <2>1, <2>2, <2>3, <2>4 DEF Sound, OneRunning, MainAwake
  <2>6. QueueExact'
    BY <2>1, <2>2, <2>3, <2>4 DEF Sound, QueueExact
  <2>7. MapsAgree'
    BY <2>1, <2>2, <2>3, <2>4 DEF Sound, MapsAgree
  <2>8. IdsPartition' /\ TimerArmed'
    BY <2>1, <2>2 DEF Sound, IdsPartition, TimerArmed
  <2> QED
    BY <2>5, <2>6, <2>7, <2>8 DEF Sound
<1>4. CASE TerminateRunning(tid)
  <2> DEFINE live == threads \ {tid}
             st == Freed(state, tid, "READY")
  <2>1. tid = running_thread /\ tid # MainThreadId
    BY <1>4 DEF TerminateRunning, Sound, OneRunning
  <2>2. Yields(live, st, sleep, sleeping)
    BY <1>4, TerminateYields
  <2>3. MakeSchedulingDecision(ready_queue, st, sleep, sleeping,
            Freed(quantums, tid, 0), "cancelled", TRUE)
    BY <1>4 DEF TerminateRunning
  <2>4. threads' = live /\ ids' = Ids \ live
    BY <1>4, <2>1 DEF TerminateRunning, Forget, Sound, IdsPartition, TypeOK
  <2>5. blocked' = {t \in live : st[t] = "BLOCKED"}
    BY <1>4, <2>1 DEF TerminateRunning, Freed, Sound, MapsAgree, OneRunning, TypeOK
  <2> HIDE DEF live, st
  <2> QED
    BY <2>2, <2>3, <2>4, <2>5, YieldBookkeeping
<1> QED
  BY <1>1, <1>2, <1>3, <1>4 DEF Terminate

\* uthread_block moves the thread from the queue to the blocked map.
LEMMA BlockBookkeeping ==
    ASSUME TypeOK, Sound, NEW tid \in TidArgs, Block(tid), ~ub'
    PROVE  Sound'
<1>1. CASE BlockRefused(tid)
  BY <1>1, QuietBookkeeping DEF BlockRefused, Blockable
<1>2. CASE BlockReady(tid)
  <2>1. tid \in threads /\ tid \in Ids /\ tid # MainThreadId /\ state[tid] = "READY"
        /\ tid # running_thread
    BY <1>2 DEF BlockReady, TypeOK, Sound, OneRunning, Blockable
  <2>2. NoDuplicates(ready_queue') /\ ToSet(ready_queue') = ToSet(ready_queue) \ {tid}
    <3>1. CASE sleep[tid] = 0
      BY <1>2, <2>1, <3>1, EraseReadyFinds DEF BlockReady, Blockable
    <3>2. CASE sleep[tid] # 0
      BY <1>2, <2>1, <3>2 DEF BlockReady, Sound, QueueExact, MapsAgree, NoDuplicates,
         Blockable
    <3> QED
      BY <3>1, <3>2
  <2>3. UNCHANGED <<threads, ids, running_thread, set_timer, timer, sleep, sleeping>>
        /\ blocked' = blocked \union {tid}
    BY <1>2 DEF BlockReady, clock_vars, sleep_vars, Blockable
  <2>4. state'[tid] = "BLOCKED" /\ \A t \in threads : t # tid => state'[t] = state[t]
    BY <1>2, <2>1 DEF BlockReady, TypeOK, Blockable
  <2>5. OneRunning' /\ MainAwake'
    BY <2>1, <2>3, <2>4 DEF Sound, OneRunning, MainAwake
  <2>6. QueueExact'
    BY <2>2, <2>3, <2>4 DEF Sound, QueueExact, NoDuplicates
  <2>7. MapsAgree'
    BY <2>1, <2>3, <2>4 DEF Sound, MapsAgree
  <2>8. IdsPartition' /\ TimerArmed'
    BY <2>3 DEF Sound, IdsPartition, TimerArmed
  <2> QED
    BY <2>5, <2>6, <2>7, <2>8 DEF Sound
<1>3. CASE BlockRunning(tid)
  <2> DEFINE st == [state EXCEPT ![tid] = "BLOCKED"]
  <2>1. tid = running_thread /\ tid # MainThreadId /\ tid \in Ids
    BY <1>3 DEF BlockRunning, Sound, OneRunning, TypeOK, Blockable
  <2>2. st \in [Ids -> {"READY", "RUNNING", "BLOCKED"}] /\ st[tid] = "BLOCKED"
        /\ \A t \in threads : t # tid => st[t] = state[t]
    BY <2>1 DEF TypeOK
  <2>3. Yields(threads, st, sleep, sleeping)
    BY <1>3, BlockYields
  <2>4. MakeSchedulingDecision(ready_queue, st, sleep, sleeping, quantums,
            "cancelled", TRUE)
    BY <1>3 DEF BlockRunning, Blockable
  <2>5. threads' = threads /\ ids' = Ids \ threads
    BY <1>3 DEF BlockRunning, Sound, IdsPartition, Blockable
  <2>6. blocked' = {t \in threads : st[t] = "BLOCKED"}
    <3>1. blocked' = blocked \union {tid} /\ tid \in threads
      BY <1>3 DEF BlockRunning, Blockable
    <3> HIDE DEF st
    <3> QED
      BY <2>2, <3>1 DEF Sound, MapsAgree
  <2> HIDE DEF st
  <2> QED
    BY <2>3, <2>4, <2>5, <2>6, YieldBookkeeping
<1> QED
  BY <1>1, <1>2, <1>3 DEF Block

\* uthread_resume moves the thread back, to the queue unless it sleeps.
LEMMA ResumeBookkeeping ==
    ASSUME TypeOK, Sound, NEW tid \in TidArgs, Resume(tid)
    PROVE  Sound'
<1>1. CASE ResumeRefused(tid)
  BY <1>1, QuietBookkeeping DEF ResumeRefused
<1>2. CASE ResumeBlocked(tid)
  <2>1. tid \in threads /\ tid \in Ids /\ state[tid] = "BLOCKED"
        /\ tid # running_thread /\ tid # MainThreadId
    BY <1>2 DEF ResumeBlocked, TypeOK, Sound, OneRunning, MainAwake, Rejoined
  <2>2. UNCHANGED <<threads, ids, running_thread, set_timer, timer, sleep, sleeping>>
        /\ blocked' = blocked \ {tid}
        /\ ready_queue' = IF sleep[tid] = 0 THEN Append(ready_queue, tid)
                                            ELSE ready_queue
    BY <1>2 DEF ResumeBlocked, clock_vars, sleep_vars, Rejoined
  <2>3. state'[tid] = "READY" /\ \A t \in threads : t # tid => state'[t] = state[t]
    BY <1>2, <2>1 DEF ResumeBlocked, TypeOK, Rejoined
  <2>4. ready_queue \in Seq(Ids) /\ NoDuplicates(ready_queue)
    BY DEF TypeOK, Sound, QueueExact, NoDuplicates
  <2>5. tid \notin ToSet(ready_queue)
    BY <2>1 DEF Sound, QueueExact
  <2>6. QueueExact'
    <3>1. CASE sleep[tid] = 0
      <4>1. NoDuplicates(ready_queue')
            /\ ToSet(ready_queue') = ToSet(ready_queue) \union {tid}
        BY <2>1, <2>2, <2>4, <2>5, <3>1, AppendNoDuplicates
      <4>2. tid \notin sleeping
        BY <3>1 DEF Sound, MapsAgree
      <4> QED
        BY <2>1, <2>2, <2>3, <4>1, <4>2 DEF Sound, QueueExact, NoDuplicates
    <3>2. CASE sleep[tid] # 0
      <4>1. tid \in sleeping /\ ready_queue' = ready_queue
        BY <2>1, <2>2, <3>2 DEF Sound, MapsAgree
      <4> QED
        BY <2>1, <2>2, <2>3, <4>1 DEF Sound, QueueExact
    <3> QED
      BY <3>1, <3>2
  <2>7. OneRunning' /\ MainAwake'
    BY <2>1, <2>2, <2>3 DEF Sound, OneRunning, MainAwake
  <2>8. MapsAgree'
    BY <2>1, <2>2, <2>3 DEF Sound, MapsAgree
  <2>9. IdsPartition' /\ TimerArmed'
    BY <2>2 DEF Sound, IdsPartition, TimerArmed
  <2> QED
    BY <2>6, <2>7, <2>8, <2>9 DEF Sound
<1> QED
  BY <1>1, <1>2 DEF Resume

\* uthread_sleep puts the running thread in the sleeping map, and in no queue.
LEMMA SleepBookkeeping ==
    ASSUME TypeOK, Sound, NEW n \in SleepArgs, Sleep(n)
    PROVE  Sound'
<1> DEFINE c == running_thread
           st == [state EXCEPT ![c] = "READY"]
           left == [sleep EXCEPT ![c] = n]
           asleep == sleeping \union {c}
<1>1. c \in threads /\ c \in Ids
  BY DEF Sound, OneRunning, TypeOK
<1>2. st[c] = "READY" /\ \A t \in threads : t # c => st[t] = state[t]
  BY <1>1 DEF TypeOK
<1>3. Yields(threads, st, left, asleep)
  BY SleepYields
<1>4. MakeSchedulingDecision(ready_queue, st, left, asleep, quantums, "cancelled", TRUE)
  BY DEF Sleep
<1>5. threads' = threads /\ ids' = Ids \ threads
  BY DEF Sleep, Sound, IdsPartition
<1>6. blocked' = {t \in threads : st[t] = "BLOCKED"}
  <2>1. blocked' = blocked /\ state[c] = "RUNNING"
    BY DEF Sleep, Sound, OneRunning
  <2> HIDE DEF st
  <2> QED
    BY <1>2, <2>1 DEF Sound, MapsAgree
<1> HIDE DEF c, st, left, asleep
<1> QED
  BY <1>3, <1>4, <1>5, <1>6, YieldBookkeeping

\* Nothing repairs undefined behaviour.
LEMMA UndefinedForever == [Next]_vars /\ ub => ub'
<1> SUFFICES ASSUME [Next]_vars, ub PROVE ub'
  OBVIOUS
<1> USE DEF process_vars
<1>1. ASSUME NEW q, NEW st, NEW left, NEW asleep, NEW used, NEW tm, NEW flag,
             MakeSchedulingDecision(q, st, left, asleep, used, tm, flag)
      PROVE  ub'
  BY <1>1 DEF MakeSchedulingDecision
<1>2. CASE Tick
  BY <1>1, <1>2 DEF Tick
<1>3. CASE Spawn \/ SpawnFails \/ TerminateMain \/ SystemError \/ SleepRefused \/ GetQuantums
  BY <1>3 DEF Spawn, SpawnFails, TerminateMain, SystemError, SleepRefused, GetQuantums
<1>4. ASSUME NEW tid \in TidArgs, EraseReady(tid) PROVE ub'
  BY <1>4 DEF EraseReady
<1>5. ASSUME NEW tid \in TidArgs, Terminate(tid) PROVE ub'
  BY <1>1, <1>4, <1>5 DEF Terminate, TerminateMissing, TerminateReady,
                          TerminateBlocked, TerminateRunning
<1>6. ASSUME NEW tid \in TidArgs, Block(tid) PROVE ub'
  BY <1>1, <1>4, <1>6 DEF Block, BlockRefused, BlockReady, BlockRunning, Blockable
<1>7. ASSUME NEW tid \in TidArgs, Resume(tid) PROVE ub'
  BY <1>7 DEF Resume, ResumeRefused, ResumeBlocked, Rejoined
<1>8. ASSUME NEW n \in SleepArgs, Sleep(n) PROVE ub'
  BY <1>1, <1>8 DEF Sleep
<1>9. CASE UNCHANGED vars
  BY <1>9 DEF vars
<1> QED
  BY <1>2, <1>3, <1>5, <1>6, <1>7, <1>8, <1>9 DEF Next

\* Every action of the library keeps the structures in agreement.
LEMMA NextBookkeeping == TypeOK /\ Bookkeeping /\ [Next]_vars => Bookkeeping'
<1> SUFFICES ASSUME TypeOK, Bookkeeping, [Next]_vars, ~ub' PROVE Sound'
  BY DEF Bookkeeping, Sound
<1>1. Sound
  BY UndefinedForever DEF Bookkeeping, Sound
<1>2. CASE Tick
  BY <1>1, <1>2, TickBookkeeping
<1>3. CASE Spawn
  BY <1>1, <1>3, SpawnBookkeeping
<1>4. CASE SpawnFails \/ TerminateMain \/ SystemError \/ SleepRefused \/ GetQuantums
  BY <1>1, <1>4, QuietBookkeeping
     DEF SpawnFails, TerminateMain, SystemError, SleepRefused, GetQuantums
<1>5. ASSUME NEW tid \in TidArgs, Terminate(tid) \/ Block(tid) \/ Resume(tid)
      PROVE  Sound'
  BY <1>1, <1>5, TerminateBookkeeping, BlockBookkeeping, ResumeBookkeeping
<1>6. ASSUME NEW n \in SleepArgs, Sleep(n) PROVE Sound'
  BY <1>1, <1>6, SleepBookkeeping
<1>7. CASE UNCHANGED vars
  BY <1>1, <1>7, QuietBookkeeping DEF vars, thread_vars, clock_vars, sleep_vars
<1> QED
  BY <1>2, <1>3, <1>4, <1>5, <1>6, <1>7 DEF Next

(***************************************************************************)
(* As long as nothing undefined has happened, threads, ready_queue,        *)
(* blocked, sleeping, ids, the Thread objects and the timer agree: see     *)
(* Bookkeeping.                                                            *)
(***************************************************************************)
THEOREM BookkeepingHolds == Spec => []Bookkeeping
<1>1. Init => Bookkeeping
  BY InitBookkeeping
<1>2. TypeOK /\ Bookkeeping /\ [Next]_vars => Bookkeeping'
  BY NextBookkeeping
<1> QED
  BY <1>1, <1>2, TypeCorrect, PTL DEF Spec

(***************************************************************************)
(* A thread is always there to be run: the main thread runs or is queued,  *)
(* so that make_scheduling_decision never erases from an empty queue.      *)
(***************************************************************************)
THEOREM MainAlwaysSchedulable == Spec => []MainSchedulable
<1>1. TypeOK /\ Bookkeeping => MainSchedulable
  <2> SUFFICES ASSUME TypeOK, Sound, running_thread # MainThreadId
               PROVE  \E i \in DOMAIN ready_queue : ready_queue[i] = MainThreadId
    BY DEF Bookkeeping, Sound, MainSchedulable
  <2>1. MainThreadId \in ToSet(ready_queue)
    BY IdsType DEF TypeOK, Sound, OneRunning, MainAwake, QueueExact
  <2> QED
    BY <2>1 DEF ToSet
<1> QED
  BY <1>1, TypeCorrect, BookkeepingHolds, PTL

-----------------------------------------------------------------------------
(* The quantum counters.  The sum over the threads is split into the       *)
(* thread that a call charges or frees and the others, which keep theirs.  *)

\* The quantums of the threads in S; and the counters of the code's width.
Used(used, S) == NatTotal([t \in S |-> used[t]])
Counters == [Ids -> 0 .. CounterMod - 1]

\* The quantums of one thread and those of the others.
LEMMA UsedSplit ==
    ASSUME NEW S \in SUBSET Ids, NEW used \in [Ids -> Nat]
    PROVE  /\ Used(used, S) \in Nat
           /\ \A t \in S : Used(used, S) = used[t] + Used(used, S \ {t})
<1>1. IsFiniteSet(Ids)
  BY FS_Interval, MaxThreadNumAssumption DEF Ids
<1>2. IsFiniteSet(S)
  BY <1>1, FS_Subset
<1> DEFINE f == [t \in S |-> used[t]]
<1>3. f \in [S -> Nat]
  OBVIOUS
<1>4. NatTotal(f) \in Nat
  <2> HIDE DEF f
  <2> QED
    BY <1>2, <1>3, TotalIsSum, TotalIs, NatPlusIs DEF NatTotal
<1>5. ASSUME NEW t \in S PROVE NatTotal(f) = used[t] + Used(used, S \ {t})
  <2> DEFINE h == [x \in S \ {t} |-> used[x]]
  <2>1. h \in [S \ {t} -> Nat] /\ (\A x \in S \ {t} : h[x] = f[x]) /\ f[t] = used[t]
    OBVIOUS
  <2> HIDE DEF f, h
  <2>2. NatTotal(f) = NatPlus[<<f[t], NatTotal(h)>>] /\ NatTotal(h) \in Nat
    <3>1. IsPlus(Nat, 0, NatPlus)
      BY NatPlusIs
    <3>2. \A x \in S \ {t} : h[x] = f[x]
      BY <2>1
    <3>3. h \in [S \ {t} -> Nat]
      BY <2>1
    <3> QED
      BY <1>2, <1>3, <3>1, <3>2, <3>3, TotalSplit DEF NatTotal
  <2>3. f[t] \in Nat
    BY <1>3
  <2>4. NatTotal(f) = f[t] + NatTotal(h)
    BY <2>2, <2>3, NatPlusIs
  <2> QED
    BY <2>1, <2>4 DEF h, Used
<1> QED
  BY <1>4, <1>5 DEF Used

\* Only the counters of the threads in S count.
LEMMA UsedSame ==
    ASSUME NEW S, NEW a, NEW b, \A t \in S : a[t] = b[t]
    PROVE  Used(a, S) = Used(b, S)
<1>1. [t \in S |-> a[t]] = [t \in S |-> b[t]]
  OBVIOUS
<1> QED
  BY <1>1 DEF Used

\* The total is the sum of the threads' quantums and of those of the
\* terminated ones.
Accounted(used, S, gone, count) == count = (Used(used, S) + gone) % CounterMod

\* One quantum is counted and charged to one thread.
LEMMA OneCharged ==
    ASSUME NEW S \in SUBSET Ids, NEW used \in Counters, NEW gone \in Nat, NEW count,
           Accounted(used, S, gone, count), NEW t \in S
    PROVE  Accounted(QuantumsUse(used, t), S, gone, (count + 1) % CounterMod)
<1> DEFINE after == QuantumsUse(used, t)
           others == Used(used, S \ {t})
           M == CounterMod
<1>1. after \in Counters /\ after[t] = (used[t] + 1) % M /\ \A x \in S \ {t} : after[x] = used[x]
  BY CounterType DEF QuantumsUse, Counters
<1>2. used \in [Ids -> Nat] /\ after \in [Ids -> Nat]
  BY <1>1, CounterModAssumption DEF Counters
<1> HIDE DEF after
<1>3. Used(after, S \ {t}) = others
  BY <1>1, UsedSame
<1>4. others \in Nat /\ used[t] \in Nat /\ after[t] \in Nat
  BY <1>2, UsedSplit
<1>5. Used(used, S) = used[t] + others /\ Used(after, S) = after[t] + others
  BY <1>2, <1>3, UsedSplit
<1> HIDE DEF others
<1> DEFINE u == used[t]
           rest == others + gone
<1>6. u \in Nat /\ rest \in Nat /\ u + 1 \in Nat /\ M \in Nat \ {0} /\ u + rest \in Nat
  BY <1>4, CounterModAssumption
<1>7. (((u + 1) % M) + rest) % M = ((u + 1) + rest) % M
  BY <1>6, ModuloSum
<1>8. (((u + rest) % M) + 1) % M = ((u + rest) + 1) % M
  BY <1>6, ModuloSum
<1>9. (u + 1) + rest = (u + rest) + 1
  BY <1>6
<1>10. (Used(used, S) + gone) = u + rest /\ Used(after, S) + gone = ((u + 1) % M) + rest
  BY <1>1, <1>4, <1>5
<1> HIDE DEF M, u, rest
<1>11. (((u + rest) % M) + 1) % M = (((u + 1) % M) + rest) % M
  BY <1>7, <1>8, <1>9
<1> QED
  BY <1>10, <1>11 DEF Accounted, M, after

\* The quantums of a thread that terminates are kept in retired.
LEMMA OneRetired ==
    ASSUME NEW S \in SUBSET Ids, NEW used \in Counters, NEW gone \in Nat, NEW count,
           Accounted(used, S, gone, count), NEW t \in S
    PROVE  Accounted(Freed(used, t, 0), S \ {t}, (gone + used[t]) % CounterMod, count)
<1> DEFINE after == Freed(used, t, 0)
           others == Used(used, S \ {t})
           M == CounterMod
           u == used[t]
<1>1. \A x \in S \ {t} : after[x] = used[x]
  BY DEF Freed, Counters
<1>2. Used(after, S \ {t}) = others
  BY <1>1, UsedSame
<1>3. used \in [Ids -> Nat] /\ M \in Nat \ {0}
  BY CounterModAssumption DEF Counters
<1>4. others \in Nat /\ u \in Nat /\ Used(used, S) = u + others
  BY <1>3, UsedSplit
<1> HIDE DEF after, others, u, M
<1> DEFINE both == gone + u
           kept == both % M
<1>5. both \in Nat
  BY <1>4
<1> HIDE DEF both
<1>6. (kept + others) % M = (both + others) % M /\ kept \in 0 .. M - 1
  BY <1>3, <1>4, <1>5, ModuloSum
<1> HIDE DEF kept
<1>7. both + others = Used(used, S) + gone
  BY <1>4 DEF both
<1>8. kept + others = others + kept
  BY <1>3, <1>4, <1>6
<1>9. count = (others + kept) % M
  BY <1>6, <1>7, <1>8 DEF Accounted, M
<1> QED
  BY <1>2, <1>9 DEF Accounted, M, after, u, both, kept

\* A scheduling decision counts one quantum, and charges it to the thread it runs.
LEMMA DecisionCharges ==
    ASSUME NEW q, NEW st, NEW left, NEW asleep, NEW used, NEW tm, NEW flag,
           MakeSchedulingDecision(q, st, left, asleep, used, tm, flag), ~ub'
    PROVE  total' = (total + 1) % CounterMod /\ quantums' = QuantumsUse(used, running_thread')
BY DEF MakeSchedulingDecision, RunThread

\* Every call keeps the accounts.
LEMMA NextAccounted ==
    ASSUME TypeOK, Sound, Sound', TypeOK', [Next]_vars, ~ub',
           Accounted(quantums, threads, retired, total)
    PROVE  Accounted(quantums, threads, retired, total)'
<1>0. /\ threads \in SUBSET Ids /\ quantums \in Counters /\ retired \in Nat
      /\ threads' \in SUBSET Ids /\ running_thread' \in threads' /\ retired' \in Nat
  BY CounterModAssumption DEF TypeOK, Counters, Sound, OneRunning
<1>1. ASSUME total' = (total + 1) % CounterMod, quantums' = QuantumsUse(quantums, running_thread'),
             UNCHANGED <<threads, retired>>
      PROVE  Accounted(quantums, threads, retired, total)'
  BY <1>0, <1>1, OneCharged DEF Accounted
<1>2. ASSUME UNCHANGED <<threads, retired, total, quantums>>
      PROVE  Accounted(quantums, threads, retired, total)'
  BY <1>2 DEF Accounted
<1>3. ASSUME NEW tid \in threads, Forget(tid), quantums' = Freed(quantums, tid, 0), total' = total
      PROVE  Accounted(quantums, threads, retired, total)'
  <2>1. Accounted(Freed(quantums, tid, 0), threads \ {tid},
                  (retired + quantums[tid]) % CounterMod, total)
    BY <1>0, OneRetired
  <2> QED
    BY <1>3, <2>1 DEF Forget, Accounted
<1>4. CASE Tick
  BY <1>1, <1>4, DecisionCharges DEF Tick
<1>5. CASE Spawn
  <2>1. PICK id \in ids : /\ threads' = threads \union {id}
                          /\ quantums' = [quantums EXCEPT ![id] = 0]
    BY <1>5 DEF Spawn
  <2>2. UNCHANGED <<retired, total>>
    BY <1>5 DEF Spawn
  <2>3. id \notin threads /\ id \in Ids
    BY DEF Sound, IdsPartition
  <2>4. quantums' \in Counters /\ quantums'[id] = 0 /\ \A t \in threads : quantums'[t] = quantums[t]
    BY <1>0, <2>1, <2>3, CounterModAssumption DEF Counters
  <2>5. quantums' \in [Ids -> Nat] /\ quantums \in [Ids -> Nat]
    BY <1>0, <2>4, CounterModAssumption DEF Counters
  <2>6. threads' \ {id} = threads
    BY <2>1, <2>3
  <2>7. Used(quantums', threads) = Used(quantums, threads)
    BY <2>4, UsedSame
  <2>8. Used(quantums', threads') = 0 + Used(quantums', threads)
    <3>1. id \in threads'
      BY <2>1
    <3>2. Used(quantums', threads') = quantums'[id] + Used(quantums', threads' \ {id})
      BY <1>0, <2>5, <3>1, UsedSplit
    <3> QED
      BY <2>4, <2>6, <3>2
  <2>9. Used(quantums, threads) \in Nat
    BY <1>0, <2>5, UsedSplit
  <2>10. Used(quantums', threads') = Used(quantums, threads)
    BY <2>7, <2>8, <2>9
  <2> QED
    BY <2>2, <2>10 DEF Accounted
<1>6. CASE SpawnFails \/ TerminateMain \/ SystemError \/ SleepRefused \/ GetQuantums
  BY <1>2, <1>6 DEF SpawnFails, TerminateMain, SystemError, SleepRefused, GetQuantums,
                    thread_vars, clock_vars
<1>7. ASSUME NEW tid \in TidArgs, TerminateRunning(tid)
      PROVE  Accounted(quantums, threads, retired, total)'
  <2> DEFINE freed == Freed(quantums, tid, 0)
  <2>1. /\ tid \in threads
        /\ Forget(tid)
        /\ MakeSchedulingDecision(ready_queue, Freed(state, tid, "READY"), sleep, sleeping,
                                  freed, "cancelled", TRUE)
    BY <1>7 DEF TerminateRunning
  <2>2. Accounted(freed, threads \ {tid}, (retired + quantums[tid]) % CounterMod, total)
    BY <1>0, <2>1, OneRetired
  <2>3. freed \in Counters
    <3>1. 0 \in 0 .. CounterMod - 1
      BY CounterModAssumption
    <3> QED
      BY <1>0, <3>1 DEF Counters, Freed
  <2>4. /\ threads' = threads \ {tid}
        /\ retired' = (retired + quantums[tid]) % CounterMod
    BY <2>1 DEF Forget
  <2> HIDE DEF freed
  <2>5. total' = (total + 1) % CounterMod /\ quantums' = QuantumsUse(freed, running_thread')
    BY <2>1, DecisionCharges
  <2>6. Accounted(freed, threads', retired', total)
    BY <2>2, <2>4
  <2>7. Accounted(QuantumsUse(freed, running_thread'), threads', retired', (total + 1) % CounterMod)
    BY <1>0, <2>3, <2>6, OneCharged
  <2> QED
    BY <2>5, <2>7 DEF Accounted
<1>8. ASSUME NEW tid \in TidArgs, Terminate(tid)
      PROVE  Accounted(quantums, threads, retired, total)'
  <2>1. CASE TerminateMissing(tid)
    BY <1>2, <2>1 DEF TerminateMissing, thread_vars, clock_vars
  <2>2. CASE TerminateReady(tid)
    BY <1>3, <2>2 DEF TerminateReady
  <2>3. CASE TerminateBlocked(tid)
    BY <1>3, <2>3 DEF TerminateBlocked
  <2> QED
    BY <1>7, <1>8, <2>1, <2>2, <2>3 DEF Terminate
<1>9. ASSUME NEW tid \in TidArgs, Block(tid)
      PROVE  Accounted(quantums, threads, retired, total)'
  <2>1. CASE BlockRefused(tid) \/ BlockReady(tid)
    BY <1>2, <2>1 DEF BlockRefused, BlockReady, thread_vars, clock_vars
  <2>2. CASE BlockRunning(tid)
    BY <1>1, <2>2, DecisionCharges DEF BlockRunning
  <2> QED
    BY <1>9, <2>1, <2>2 DEF Block
<1>10. ASSUME NEW tid \in TidArgs, Resume(tid)
       PROVE  Accounted(quantums, threads, retired, total)'
  BY <1>2, <1>10 DEF Resume, ResumeRefused, ResumeBlocked, thread_vars, clock_vars
<1>11. ASSUME NEW n \in SleepArgs, Sleep(n)
       PROVE  Accounted(quantums, threads, retired, total)'
  BY <1>1, <1>11, DecisionCharges DEF Sleep
<1>12. CASE UNCHANGED vars
  BY <1>2, <1>12 DEF vars
<1> QED
  BY <1>4, <1>5, <1>6, <1>8, <1>9, <1>10, <1>11, <1>12 DEF Next

\* The first quantum is the main thread's.
LEMMA InitAccounted == Init => Accounted(quantums, threads, retired, total)
<1> SUFFICES ASSUME Init PROVE Accounted(quantums, threads, retired, total)
  OBVIOUS
<1> DEFINE main == 1 % CounterMod
<1>1. /\ threads = {MainThreadId} /\ quantums[MainThreadId] = main /\ retired = 0
      /\ total = main /\ main \in 0 .. CounterMod - 1
  BY IdsType, CounterType DEF Init
<1>2. quantums \in [Ids -> Nat] /\ threads \in SUBSET Ids
  BY <1>1, IdsType, CounterModAssumption DEF Init
<1>3. Used(quantums, {}) = 0
  <2>1. \A x : x \notin {}
    OBVIOUS
  <2>2. [t \in {} |-> quantums[t]] \in [{} -> Nat]
    OBVIOUS
  <2> QED
    BY <2>1, <2>2, TotalEmpty, NatPlusIs DEF Used, NatTotal
<1>4. Used(quantums, threads) = quantums[MainThreadId] + Used(quantums, threads \ {MainThreadId})
  BY <1>1, <1>2, UsedSplit
<1>5. threads \ {MainThreadId} = {}
  BY <1>1
<1>6. Used(quantums, threads) = main /\ main \in Nat
  <2> HIDE DEF main
  <2>1. main \in Nat
    BY <1>1, CounterModAssumption
  <2>2. Used(quantums, threads) = main + 0
    BY <1>1, <1>3, <1>4, <1>5, Zenon
  <2> QED
    BY <2>1, <2>2
<1>7. (main + 0) % CounterMod = main
  <2> HIDE DEF main
  <2>1. 0 * CounterMod + main = main + 0
    BY <1>6, CounterModAssumption
  <2> QED
    BY <1>1, <2>1, RemainderIs, CounterModAssumption
<1> QED
  BY <1>1, <1>6, <1>7 DEF Accounted

(***************************************************************************)
(* Every quantum that make_scheduling_decision counts is charged to one    *)
(* thread, and none is lost or charged twice when a thread is freed.       *)
(***************************************************************************)
THEOREM QuantumAccountingHolds == Spec => []QuantumAccounting
<1> DEFINE Inv == ~ub => Accounted(quantums, threads, retired, total)
<1>1. Init => Inv
  BY InitAccounted
<1>2. TypeOK /\ TypeOK' /\ Bookkeeping /\ Bookkeeping' /\ Inv /\ [Next]_vars => Inv'
  BY NextAccounted, UndefinedForever DEF Bookkeeping, Sound
<1>3. TypeOK /\ Inv => QuantumAccounting
  <2> SUFFICES ASSUME TypeOK, Accounted(quantums, threads, retired, total)
               PROVE  total = (SumFunctionOnSet(quantums, threads) + retired) % CounterMod
    BY DEF QuantumAccounting
  <2>1. IsFiniteSet(threads) /\ threads \subseteq Ids /\ quantums \in [Ids -> Nat]
    <3>1. IsFiniteSet(Ids)
      BY FS_Interval, MaxThreadNumAssumption DEF Ids
    <3>2. threads \in SUBSET Ids /\ quantums \in [Ids -> Nat]
      BY CounterModAssumption DEF TypeOK
    <3> QED
      BY <3>1, <3>2, FS_Subset
  <2>2. SumFunctionOnSet(quantums, threads) = Used(quantums, threads)
    BY <2>1, SumFunctionIs DEF Used
  <2> QED
    BY <2>2 DEF Accounted
<1> HIDE DEF Inv
<1>4. Spec => []Inv
  BY <1>1, <1>2, TypeCorrect, BookkeepingHolds, PTL DEF Spec
<1> QED
  BY <1>3, <1>4, TypeCorrect, PTL

-----------------------------------------------------------------------------
(* Bounded waiting.                                                        *)

\* The queue after a decision: what it was given and the woken sleepers,
\* without the thread at its head.
LEMMA DecisionQueue ==
    ASSUME NEW live, NEW q, NEW st, NEW left, NEW asleep, NEW used, NEW tm, NEW flag,
           Prepared(live, q, st, left, asleep, tm, flag),
           MakeSchedulingDecision(q, st, left, asleep, used, tm, flag),
           NEW i \in DOMAIN q, NEW j \in DOMAIN ready_queue', ready_queue'[j] = q[i]
    PROVE  j < i
<1> DEFINE joining == {t \in {u \in asleep : Reduced(left[u]) = 0} : st[t] # "BLOCKED"}
<1> USE DEF Prepared
<1>1. q # <<>>
  BY DEF ToSet
<1>2. \A w \in AscendingSeqs(joining) : w \in Seq(Ids) /\ ToSet(w) = joining /\ NoDuplicates(w)
  <2>1. joining \in SUBSET Ids
    OBVIOUS
  <2> HIDE DEF joining
  <2> QED
    BY <2>1, AscendingSeqsType
<1>3. \A w \in AscendingSeqs(joining) : q \o w # <<>>
  BY <1>1, <1>2
<1>4. PICK w \in AscendingSeqs(joining) : ready_queue' = Tail(q \o w)
  BY <1>3 DEF MakeSchedulingDecision
<1> DEFINE r == q \o w
<1>5. r \in Seq(Ids) /\ NoDuplicates(r) /\ r # <<>>
  <2>1. w \in Seq(Ids) /\ NoDuplicates(w) /\ ToSet(q) \cap ToSet(w) = {}
    BY <1>2
  <2>2. r # <<>>
    BY <1>3
  <2> HIDE DEF joining
  <2> QED
    BY <2>1, <2>2, ConcatNoDuplicates
<1>6. i \in DOMAIN r /\ r[i] = q[i]
  <2>1. w \in Seq(Ids)
    BY <1>2
  <2> QED
    BY <2>1
<1> HIDE DEF r
<1>7. j + 1 \in DOMAIN r /\ Tail(r)[j] = r[j + 1] /\ j \in Int
  BY <1>4, <1>5 DEF r
<1>8. j + 1 = i
  BY <1>4, <1>5, <1>6, <1>7 DEF NoDuplicates, r
<1> QED
  BY <1>7, <1>8

\* Queued threads move nearer to the front at every decision.
LEMMA DecisionAdvances ==
    ASSUME TypeOK, Sound, Decision,
           NEW i \in DOMAIN ready_queue, NEW j \in DOMAIN ready_queue',
           ready_queue'[j] = ready_queue[i]
    PROVE  j < i
<1>1. ASSUME NEW live, NEW st, NEW left, NEW asleep, NEW used,
             Yields(live, st, left, asleep),
             MakeSchedulingDecision(ready_queue, st, left, asleep, used, "cancelled", TRUE)
      PROVE  j < i
  <2>1. Prepared(live, ready_queue, st, left, asleep, "cancelled", TRUE)
    BY <1>1, YieldPrepared
  <2> QED
    BY <1>1, <2>1, DecisionQueue
<1>2. CASE Tick
  <2> DEFINE q == Append(ready_queue, running_thread)
             st == [state EXCEPT ![running_thread] = "READY"]
  <2>1. MakeSchedulingDecision(q, st, sleep, sleeping, quantums, timer, set_timer)
    BY <1>2 DEF Tick
  <2>2. Prepared(threads, q, st, sleep, sleeping, timer, set_timer)
    BY TickPrepared
  <2>3. i \in DOMAIN q /\ q[i] = ready_queue[i]
    <3>1. ready_queue \in Seq(Ids) /\ running_thread \in Ids
      BY DEF TypeOK
    <3> QED
      BY <3>1
  <2> HIDE DEF q, st
  <2> QED
    BY <2>1, <2>2, <2>3, DecisionQueue
<1>3. ASSUME NEW tid \in TidArgs, TerminateRunning(tid) PROVE j < i
  <2>1. MakeSchedulingDecision(ready_queue, Freed(state, tid, "READY"), sleep,
            sleeping, Freed(quantums, tid, 0), "cancelled", TRUE)
    BY <1>3 DEF TerminateRunning
  <2> QED
    BY <1>1, <1>3, <2>1, TerminateYields
<1>4. ASSUME NEW tid \in TidArgs, BlockRunning(tid) PROVE j < i
  <2>1. MakeSchedulingDecision(ready_queue, [state EXCEPT ![tid] = "BLOCKED"],
            sleep, sleeping, quantums, "cancelled", TRUE)
    BY <1>4 DEF BlockRunning, Blockable
  <2> QED
    BY <1>1, <1>4, <2>1, BlockYields
<1>5. ASSUME NEW n \in SleepArgs, Sleep(n) PROVE j < i
  <2>1. MakeSchedulingDecision(ready_queue,
            [state EXCEPT ![running_thread] = "READY"],
            [sleep EXCEPT ![running_thread] = n],
            sleeping \union {running_thread}, quantums, "cancelled", TRUE)
    BY <1>5 DEF Sleep
  <2> QED
    BY <1>1, <1>5, <2>1, SleepYields
<1> QED
  BY <1>2, <1>3, <1>4, <1>5 DEF Decision

\* Any other call leaves every queued thread where it is, or nearer.
LEMMA CallKeepsOrder ==
    ASSUME TypeOK, Sound, Next, ~Decision, ~ub',
           NEW i \in DOMAIN ready_queue, NEW j \in DOMAIN ready_queue',
           ready_queue'[j] = ready_queue[i]
    PROVE  j <= i
<1>1. ready_queue \in Seq(Ids) /\ NoDuplicates(ready_queue)
      /\ i \in 1 .. Len(ready_queue) /\ Len(ready_queue) \in Nat
  BY DEF TypeOK, Sound, QueueExact, NoDuplicates
<1>2. CASE UNCHANGED ready_queue
  BY <1>1, <1>2 DEF NoDuplicates
<1>3. ASSUME NEW e \in Ids, ready_queue' = Append(ready_queue, e),
             e \notin ToSet(ready_queue)
      PROVE  j <= i
  <2>1. j \in 1 .. Len(ready_queue) + 1
        /\ ready_queue'[j] = IF j <= Len(ready_queue) THEN ready_queue[j] ELSE e
    BY <1>1, <1>3
  <2>2. j <= Len(ready_queue)
    BY <1>1, <1>3, <2>1 DEF ToSet
  <2>3. j \in DOMAIN ready_queue /\ ready_queue[j] = ready_queue[i]
    BY <1>1, <2>1, <2>2
  <2>4. j = i
    BY <1>1, <2>3 DEF NoDuplicates
  <2> QED
    BY <1>1, <2>4
<1>4. ASSUME NEW tid \in Ids, EraseReady(tid) PROVE j <= i
  <2>1. PICK k \in DOMAIN ready_queue : ready_queue' = RemoveAt(ready_queue, k)
    BY <1>4 DEF EraseReady
  <2> DEFINE a == SubSeq(ready_queue, 1, k - 1)
             b == SubSeq(ready_queue, k + 1, Len(ready_queue))
  <2>2. k \in 1 .. Len(ready_queue)
    BY <1>1, <2>1
  <2>3. a \in Seq(Ids) /\ Len(a) = k - 1 /\ \A m \in 1 .. k - 1 : a[m] = ready_queue[m]
    BY <1>1, <2>2, SubSeqProperties
  <2>4. b \in Seq(Ids) /\ Len(b) = Len(ready_queue) - k
        /\ \A m \in 1 .. Len(ready_queue) - k : b[m] = ready_queue[m + k]
    BY <1>1, <2>2, SubSeqProperties
  <2>5. ready_queue' = a \o b
    BY <2>1 DEF RemoveAt
  <2> HIDE DEF a, b
  <2>6. j \in 1 .. Len(a) + Len(b)
        /\ ready_queue'[j] = IF j <= Len(a) THEN a[j] ELSE b[j - Len(a)]
    <3>1. /\ a \o b \in Seq(Ids)
          /\ Len(a \o b) = Len(a) + Len(b)
          /\ \A m \in 1 .. Len(a) + Len(b) :
                (a \o b)[m] = IF m <= Len(a) THEN a[m] ELSE b[m - Len(a)]
      BY <2>3, <2>4, ConcatProperties, Zenon
    <3>2. j \in 1 .. Len(a \o b)
      BY <2>5, <3>1
    <3> QED
      BY <2>5, <3>1, <3>2
  <2>7. CASE j <= k - 1
    <3>1. ready_queue'[j] = ready_queue[j] /\ j \in DOMAIN ready_queue
      BY <1>1, <2>2, <2>3, <2>6, <2>7
    <3>2. j = i
      BY <3>1 , <1>1 DEF NoDuplicates
    <3> QED
      BY <1>1, <3>2
  <2>8. CASE ~(j <= k - 1)
    <3> DEFINE n == Len(ready_queue)
               m == j - (k - 1)
    <3>0. n \in Nat /\ k \in 1 .. n /\ j \in 1 .. (k - 1) + (n - k)
      BY <1>1, <2>2, <2>3, <2>4, <2>6
    <3> HIDE DEF n
    <3>1. m \in 1 .. n - k
      BY <2>8, <3>0
    <3>2. ready_queue'[j] = ready_queue[m + k]
      <4>1. ready_queue'[j] = b[m]
        BY <2>3, <2>6, <2>8
      <4> HIDE DEF m
      <4> QED
        BY <2>4, <3>1, <4>1 DEF n
    <3>3. m + k = j + 1 /\ j + 1 \in 1 .. n
      BY <3>0, <3>1
    <3> HIDE DEF m
    <3>4. j + 1 = i
      <4>1. ready_queue[j + 1] = ready_queue[i]
        BY <3>2, <3>3
      <4>2. j + 1 \in DOMAIN ready_queue
        BY <1>1, <3>3 DEF n
      <4> QED
        BY <1>1, <4>1, <4>2 DEF NoDuplicates
    <3> QED
      BY <3>0, <3>4
  <2> QED
    BY <2>7, <2>8
<1>5. CASE Spawn
  <2>1. PICK e \in ids : ready_queue' = Append(ready_queue, e)
    BY <1>5 DEF Spawn
  <2>2. e \in Ids /\ e \notin ToSet(ready_queue)
    BY DEF TypeOK, Sound, IdsPartition, QueueExact
  <2> QED
    BY <1>3, <2>1, <2>2
<1>6. CASE SpawnFails \/ TerminateMain \/ SystemError \/ SleepRefused \/ GetQuantums
  BY <1>2, <1>6 DEF SpawnFails, TerminateMain, SystemError, SleepRefused, GetQuantums
<1>7. ASSUME NEW tid \in TidArgs, Terminate(tid) PROVE j <= i
  <2>1. TerminateMissing(tid) \/ TerminateReady(tid) \/ TerminateBlocked(tid)
    BY <1>7 DEF Terminate, Decision
  <2>2. TerminateReady(tid) => tid \in Ids /\ EraseReady(tid)
    BY DEF TerminateReady, TypeOK
  <2> QED
    BY <1>2, <1>4, <2>1, <2>2 DEF TerminateMissing, TerminateBlocked
<1>8. ASSUME NEW tid \in TidArgs, Block(tid) PROVE j <= i
  <2>1. BlockRefused(tid) \/ BlockReady(tid)
    BY <1>8 DEF Block, Decision
  <2>2. BlockReady(tid) => tid \in Ids /\ (EraseReady(tid) \/ UNCHANGED ready_queue)
    BY DEF BlockReady, TypeOK, Blockable
  <2> QED
    BY <1>2, <1>4, <2>1, <2>2 DEF BlockRefused, Blockable
<1>9. ASSUME NEW tid \in TidArgs, Resume(tid) PROVE j <= i
  <2>1. CASE ResumeRefused(tid)
    BY <1>2, <2>1 DEF ResumeRefused
  <2>2. CASE ResumeBlocked(tid)
    <3>1. tid \in Ids /\ tid \notin ToSet(ready_queue)
      BY <2>2 DEF ResumeBlocked, TypeOK, Sound, QueueExact, Rejoined
    <3>2. UNCHANGED ready_queue \/ ready_queue' = Append(ready_queue, tid)
      BY <2>2 DEF ResumeBlocked, Rejoined
    <3> QED
      BY <1>2, <1>3, <3>1, <3>2
  <2> QED
    BY <1>9, <2>1, <2>2 DEF Resume
<1> QED
  BY <1>5, <1>6, <1>7, <1>8, <1>9 DEF Next, Decision

(***************************************************************************)
(* Bounded waiting: a thread in the ready queue is never overtaken, and    *)
(* comes nearer to running with every scheduling decision.                 *)
(***************************************************************************)
THEOREM NobodyOvertakes == Spec => NoOvertaking
<1> DEFINE A == ~ub' => \A i \in DOMAIN ready_queue, j \in DOMAIN ready_queue' :
                           ready_queue'[j] = ready_queue[i] =>
                              IF Decision THEN j < i ELSE j <= i
<1>1. TypeOK /\ Bookkeeping /\ [Next]_vars => [A]_vars
  <2> SUFFICES ASSUME TypeOK, Bookkeeping, Next, ~ub',
                      NEW i \in DOMAIN ready_queue, NEW j \in DOMAIN ready_queue',
                      ready_queue'[j] = ready_queue[i]
               PROVE  IF Decision THEN j < i ELSE j <= i
    OBVIOUS
  <2>1. Sound
    BY UndefinedForever DEF Bookkeeping, Sound
  <2> QED
    BY <2>1, DecisionAdvances, CallKeepsOrder
<1> QED
  BY <1>1, TypeCorrect, BookkeepingHolds, PTL DEF Spec, NoOvertaking

-----------------------------------------------------------------------------
(* The library implements ThreadLifecycle.                                 *)

\* A scheduling decision is a Switch.
LEMMA DecisionSwitches ==
    ASSUME TypeOK, Sound, Sound', Decision, ~ub'
    PROVE  Lifecycle!Switch
<1> DEFINE leaving == {running_thread} \ {MainThreadId}
<1>1. running_thread' \in threads' \ (blocked' \union sleeping')
  BY DEF Sound, OneRunning, MapsAgree
<1>2. ASSUME NEW q, NEW st, NEW left, NEW asleep, NEW used, NEW tm, NEW flag,
             MakeSchedulingDecision(q, st, left, asleep, used, tm, flag)
      PROVE  sleeping' \subseteq asleep /\ UNCHANGED status
  BY <1>2 DEF MakeSchedulingDecision, process_vars
<1> DEFINE Leaves ==
               /\ threads' \in {threads, threads \ leaving}
               /\ blocked' \in {blocked, blocked \union leaving}
               /\ sleeping' \subseteq sleeping \union leaving
               /\ UNCHANGED status
<1>3. Leaves
  <2>1. CASE Tick
    BY <1>2, <2>1 DEF Tick
  <2>2. ASSUME NEW tid \in TidArgs, TerminateRunning(tid) \/ BlockRunning(tid)
        PROVE  Leaves
    <3>1. leaving = {tid}
      BY <2>2 DEF TerminateRunning, BlockRunning, Sound, OneRunning, Blockable
    <3> QED
      BY <1>2, <2>2, <3>1 DEF TerminateRunning, BlockRunning, Forget, Blockable
  <2>3. ASSUME NEW n \in SleepArgs, Sleep(n) PROVE Leaves
    <3>1. leaving = {running_thread}
      BY <2>3 DEF Sleep
    <3>2. sleeping' \subseteq sleeping \union {running_thread} /\ UNCHANGED status
      <4>1. MakeSchedulingDecision(ready_queue,
                [state EXCEPT ![running_thread] = "READY"],
                [sleep EXCEPT ![running_thread] = n],
                sleeping \union {running_thread}, quantums, "cancelled", TRUE)
        BY <2>3 DEF Sleep
      <4> QED
        BY <1>2, <4>1
    <3> QED
      BY <2>3, <3>1, <3>2 DEF Sleep
  <2> QED
    BY <2>1, <2>2, <2>3 DEF Decision
<1> QED
  BY <1>1, <1>3 DEF Lifecycle!Switch

\* A step of the library is a step of ThreadLifecycle, or changes nothing of it.
LEMMA StepRefines ==
    ASSUME TypeOK, Bookkeeping, Bookkeeping', [Next]_vars
    PROVE  [Lifecycle!Next]_(Lifecycle!vars)
<1> USE DEF Lifecycle!Next, Lifecycle!vars
<1>1. CASE ub'
  BY <1>1
<1>2. CASE UNCHANGED vars
  BY <1>2 DEF vars
<1>3. ASSUME ~ub', Next PROVE [Lifecycle!Next]_(Lifecycle!vars)
  <2>1. Sound /\ Sound' /\ ~ub
    BY <1>3, UndefinedForever DEF Bookkeeping, Sound
  <2>2. ub \in BOOLEAN /\ ub' \in BOOLEAN
    BY NextType DEF TypeOK
  <2>3. Sound /\ Sound' /\ ub = FALSE /\ ub' = FALSE
    BY <1>3, <2>1, <2>2
  <2>4. status = "up"
    BY <1>3 DEF Next, Tick, Spawn, SpawnFails, TerminateMain, SystemError, Terminate,
         TerminateMissing, TerminateReady, TerminateBlocked, TerminateRunning, Block,
         BlockRefused, BlockReady, BlockRunning, Resume, ResumeRefused, ResumeBlocked,
         SleepRefused, Sleep, GetQuantums, Up, Blockable, Rejoined
  <2>5. CASE Decision
    BY <1>3, <2>3, <2>4, <2>5, DecisionSwitches
  <2>6. CASE SpawnFails \/ SleepRefused \/ GetQuantums
    BY <2>6 DEF SpawnFails, SleepRefused, GetQuantums, thread_vars, clock_vars,
                sleep_vars, process_vars
  <2>7. CASE TerminateMain \/ SystemError
    <3>1. Lifecycle!Exit
      BY <2>7 DEF TerminateMain, SystemError, thread_vars, clock_vars, sleep_vars,
                  Lifecycle!Exit
    <3> QED
      BY <2>3, <2>4, <3>1
  <2>8. CASE Spawn
    <3>1. PICK id \in ids : threads' = threads \union {id}
      BY <2>8 DEF Spawn
    <3>2. id \in Ids /\ id \notin threads
      BY <2>3 DEF Sound, IdsPartition
    <3>3. UNCHANGED <<running_thread, blocked, sleeping, status>>
      BY <2>8 DEF Spawn, process_vars
    <3>4. Lifecycle!Create(id)
      BY <3>1, <3>2, <3>3 DEF Lifecycle!Create
    <3> QED
      BY <2>3, <2>4, <3>2, <3>4
  <2>9. ASSUME NEW tid \in TidArgs, TerminateReady(tid) PROVE Lifecycle!Next
    <3>1. tid \in threads \ {MainThreadId, running_thread} /\ tid \in Ids
          /\ state[tid] = "READY" /\ EraseReady(tid)
      BY <2>3, <2>9 DEF TerminateReady, Sound, OneRunning, TypeOK
    <3>2. tid \notin sleeping /\ tid \notin blocked
      BY <1>3, <2>3, <3>1, EraseReadyFinds DEF Sound, MapsAgree
    <3>3. UNCHANGED status
      BY <1>3, <2>9 DEF TerminateReady, EraseReady, process_vars
    <3>4. Lifecycle!Destroy(tid)
      BY <2>9, <3>1, <3>2, <3>3 DEF TerminateReady, Forget, Lifecycle!Destroy
    <3> QED
      BY <2>3, <2>4, <3>1, <3>4
  <2>10. ASSUME NEW tid \in TidArgs, TerminateBlocked(tid) PROVE Lifecycle!Next
    <3>1. tid \in threads \ {MainThreadId, running_thread} /\ tid \in Ids
      BY <2>3, <2>10 DEF TerminateBlocked, Sound, OneRunning, TypeOK
    <3>2. sleeping' = sleeping \ {tid}
      BY <2>3, <2>10 DEF TerminateBlocked, Sound, MapsAgree
    <3>3. Lifecycle!Destroy(tid)
      BY <2>10, <3>1, <3>2 DEF TerminateBlocked, Forget, process_vars, Lifecycle!Destroy
    <3> QED
      BY <2>3, <2>4, <3>1, <3>3
  <2>11. ASSUME NEW tid \in TidArgs, BlockReady(tid) PROVE Lifecycle!Next
    <3>1. tid \in threads \ {MainThreadId, running_thread} /\ tid \in Ids
          /\ tid \notin blocked
      BY <2>3, <2>11 DEF BlockReady, Sound, OneRunning, MapsAgree, TypeOK, Blockable
    <3>2. UNCHANGED status
      BY <1>3, <2>11 DEF BlockReady, EraseReady, process_vars, Blockable
    <3>3. Lifecycle!Suspend(tid)
      BY <2>11, <3>1, <3>2 DEF BlockReady, clock_vars, sleep_vars, Lifecycle!Suspend,
         Blockable
    <3> QED
      BY <2>3, <2>4, <3>1, <3>3
  <2>12. ASSUME NEW tid \in TidArgs, ResumeBlocked(tid) PROVE Lifecycle!Next
    <3>1. tid \in blocked /\ tid \in Ids
      BY <2>3, <2>12 DEF ResumeBlocked, Sound, MapsAgree, TypeOK, Rejoined
    <3>2. Lifecycle!Resume(tid)
      BY <2>12, <3>1 DEF ResumeBlocked, clock_vars, sleep_vars, process_vars,
         Lifecycle!Resume, Rejoined
    <3> QED
      BY <2>3, <2>4, <3>1, <3>2
  <2>13. ASSUME NEW tid \in TidArgs,
                TerminateMissing(tid) \/ BlockRefused(tid) \/ ResumeRefused(tid)
         PROVE  UNCHANGED Lifecycle!vars
    BY <2>13 DEF TerminateMissing, BlockRefused, ResumeRefused, thread_vars, clock_vars,
                 sleep_vars, process_vars, Blockable
  <2> QED
    BY <1>3, <2>5, <2>6, <2>7, <2>8, <2>9, <2>10, <2>11, <2>12, <2>13
       DEF Next, Decision, Terminate, Block, Resume
<1> QED
  BY <1>1, <1>2, <1>3

(***************************************************************************)
(* Every run of the library, seen through running_thread, threads, blocked *)
(* and sleeping, is a run of ThreadLifecycle: one thread has the           *)
(* processor, the scheduler only ever picks a thread that exists and is    *)
(* neither blocked nor asleep, and no call has an effect it does not name. *)
(***************************************************************************)
THEOREM ImplementsLifecycle == Spec => LifecycleSpec
<1>1. Init => Lifecycle!Init
  BY DEF Init, Lifecycle!Init
<1>2. TypeOK /\ Bookkeeping /\ Bookkeeping' /\ [Next]_vars
          => [Lifecycle!Next]_(Lifecycle!vars)
  BY StepRefines
<1> QED
  BY <1>1, <1>2, TypeCorrect, BookkeepingHolds, PTL DEF Spec, LifecycleSpec,
     Lifecycle!Spec
=============================================================================
