------------------------------ MODULE UThreads ------------------------------
(***************************************************************************)
(* The user-level thread library of ex2/uthreads.cpp: a round-robin        *)
(* scheduler over one process, driven by a virtual-time interval timer.    *)
(*                                                                         *)
(* The state is the library's global state between two library calls; one  *)
(* action is one call made by the running thread, or one expiry of the     *)
(* timer (Tick, the SIGVTALRM handler).  ASSUMPTION: the timer expires     *)
(* while thread code runs and never inside a call.  The code intends that  *)
(* (the comment at 261-265) but does not enforce it: what happens when the *)
(* timer expires inside a call is the subject of UThreadsSteps, which also *)
(* shows that a call is one step here as long as it does not.              *)
(*                                                                         *)
(* Times are counted in quantums: Thread::sleep is kept by the code as a   *)
(* timeval that is always a multiple of the quantum.                       *)
(***************************************************************************)
EXTENDS Integers, Sequences, SequencesExt, Functions

CONSTANTS
    MaxThreadNum,   \* MAX_THREAD_NUM
    SleepArgs,      \* the arguments threads pass to uthread_sleep
    CounterMod      \* bound: quantum counters are kept modulo this number

ASSUME MaxThreadNumAssumption == MaxThreadNum \in Nat \ {0}
ASSUME SleepArgsAssumption == SleepArgs \subseteq Int
ASSUME CounterModAssumption == CounterMod \in Nat \ {0}

MainThreadId == 0
NoThread == -1
Ids == 0 .. MaxThreadNum - 1

\* Every value a caller may pass as a tid: the slots, and one beyond them.
TidArgs == 0 .. MaxThreadNum

VARIABLES
    running_thread, \* running_thread
    threads,        \* keys of the map threads
    state,          \* Thread::state_
    sleep,          \* Thread::sleep, in quantums; 0 when not asleep
    quantums,       \* Thread::times_used_in_quantums
    ready_queue,    \* ready_queue
    blocked,        \* keys of the map blocked
    sleeping,       \* keys of the map sleeping
    ids,            \* the heap of free ids
    total,          \* count_total_quantums
    set_timer,      \* set_timer
    timer,          \* the interval timer: "quantum" or "cancelled"
    masked,         \* threads that run with the signal group blocked
    status,         \* the process: "up", "exited", "failed" or "killed"
    ub,             \* history: undefined behaviour has happened
    retired         \* history: quantums used by threads that have terminated

thread_vars == <<threads, state, blocked, ids>>
clock_vars == <<running_thread, quantums, total, set_timer, timer>>
sleep_vars == <<sleep, sleeping>>
process_vars == <<status, ub>>
vars == <<running_thread, threads, state, sleep, quantums, ready_queue,
          blocked, sleeping, ids, total, set_timer, timer, masked, status,
          ub, retired>>

TypeOK ==
    /\ running_thread \in Ids
    /\ threads \subseteq Ids
    /\ state \in [Ids -> {"READY", "RUNNING", "BLOCKED"}]
    /\ sleep \in [Ids -> Nat]
    /\ quantums \in [Ids -> 0 .. CounterMod - 1]
    /\ ready_queue \in Seq(Ids)
    /\ blocked \subseteq Ids
    /\ sleeping \subseteq Ids
    /\ ids \subseteq Ids
    /\ total \in 0 .. CounterMod - 1
    /\ set_timer \in BOOLEAN
    /\ timer \in {"quantum", "cancelled"}
    /\ masked \subseteq Ids
    /\ status \in {"up", "exited", "failed", "killed"}
    /\ ub \in BOOLEAN
    /\ retired \in 0 .. CounterMod - 1

(***************************************************************************)
(* The state uthread_init leaves.  A slot with no thread holds the values  *)
(* a new Thread object starts with.                                        *)
(***************************************************************************)
Init ==
    /\ running_thread = MainThreadId
    /\ threads = {MainThreadId}
    /\ state = [t \in Ids |-> IF t = MainThreadId THEN "RUNNING" ELSE "READY"]
    /\ sleep = [t \in Ids |-> 0]
    /\ quantums = [t \in Ids |-> IF t = MainThreadId THEN 1 % CounterMod ELSE 0]
    /\ ready_queue = <<>>
    /\ blocked = {}
    /\ sleeping = {}
    /\ ids = Ids \ {MainThreadId}
    /\ total = 1 % CounterMod
    /\ set_timer = FALSE
    /\ timer = "quantum"
    /\ masked = {}
    /\ status = "up"
    /\ ub = FALSE
    /\ retired = 0

Up == status = "up"

\* The callers' signal masks after block_signals and after unblock_signals.
BlockSignals == masked' = masked \union {running_thread}
UnblockSignals == masked' = masked \ {running_thread}

-----------------------------------------------------------------------------
(* The scheduling decision.                                                *)

\* Seeded faults: no clamp at zero; a clamp one too high.
ReducedBelowZero(n) == n - 1
ReducedToOne(n) == IF n > 1 THEN n - 1 ELSE 1

\* Thread::reduce_sleeping: one quantum less, never below zero.
Reduced(n) == IF n > 1 THEN n - 1 ELSE 0

\* S as a sequence in increasing order, the order std::map iterates in.
AscendingSeqs(S) ==
    {w \in UNION {[1 .. n -> S] : n \in 0 .. MaxThreadNum} :
        /\ ToSet(w) = S
        /\ \A i, j \in DOMAIN w : i < j => w[i] < w[j]}

\* Seeded fault: the thread that runs is not charged for it.
QuantumsUseForgotten(used, t) == used

\* Thread::quantums_use.
QuantumsUse(used, t) == [used EXCEPT ![t] = (@ + 1) % CounterMod]

\* Seeded fault: a timer cancelled by the last call is not armed again.
RunThreadNoTimer(next, st, tm, flag) ==
    /\ running_thread' = next
    /\ state' = [st EXCEPT ![next] = "RUNNING"]
    /\ timer' = tm
    /\ set_timer' = FALSE

(***************************************************************************)
(* run_thread: next becomes the running thread and is charged a quantum;   *)
(* the timer is armed again if it had been cancelled (flag is set_timer,   *)
(* tm the timer, st the threads' states at the call).                      *)
(***************************************************************************)
RunThread(next, st, tm, flag) ==
    /\ running_thread' = next
    /\ state' = [st EXCEPT ![next] = "RUNNING"]
    /\ timer' = IF flag THEN "quantum" ELSE tm
    /\ set_timer' = FALSE

(***************************************************************************)
(* make_scheduling_decision, from the ready queue q, the states st, the    *)
(* remaining sleeping times left, the map asleep, the quantum counters     *)
(* used, and the timer and its flag as the caller left them.  Sleepers     *)
(* whose time is over leave the map and, unless BLOCKED, join the queue;   *)
(* the first thread of the queue runs.  On an empty queue the code erases  *)
(* begin() of an empty vector (380), which kills the process.              *)
(***************************************************************************)
MakeSchedulingDecision(q, st, left, asleep, used, tm, flag) ==
    LET woken == {t \in asleep : Reduced(left[t]) = 0}
    IN  /\ total' = (total + 1) % CounterMod
        /\ sleep' = [t \in Ids |-> IF t \in asleep THEN Reduced(left[t])
                                                   ELSE left[t]]
        /\ sleeping' = asleep \ woken
        /\ \E w \in AscendingSeqs({t \in woken : st[t] # "BLOCKED"}) :
              \/ /\ q \o w # <<>>
                 /\ ready_queue' = Tail(q \o w)
                 /\ quantums' = QuantumsUse(used, Head(q \o w))
                 /\ RunThread(Head(q \o w), st, tm, flag)
                 /\ UNCHANGED process_vars
              \/ /\ q \o w = <<>>
                 /\ status' = "killed"
                 /\ ub' = TRUE
                 /\ state' = st
                 /\ quantums' = used
                 /\ UNCHANGED <<running_thread, ready_queue, timer, set_timer>>

(***************************************************************************)
(* scheduler, the handler of SIGVTALRM: the running thread goes to the end *)
(* of the ready queue.  The kernel restores its mask when it runs again.   *)
(***************************************************************************)
Tick ==
    /\ Up
    /\ timer = "quantum"
    /\ MakeSchedulingDecision(
            Append(ready_queue, running_thread),
            [state EXCEPT ![running_thread] = "READY"],
            sleep, sleeping, quantums, timer, set_timer)
    /\ UNCHANGED <<threads, blocked, ids, masked, retired>>

-----------------------------------------------------------------------------
(* Creating and terminating threads.                                       *)

\* uthread_spawn: the new thread gets the smallest free id, an empty signal
\* mask, and joins the end of the ready queue.
Spawn ==
    /\ Up
    /\ \E id \in ids :
          /\ \A other \in ids : id <= other
          /\ ids' = ids \ {id}
          /\ threads' = threads \union {id}
          /\ state' = [state EXCEPT ![id] = "READY"]
          /\ sleep' = [sleep EXCEPT ![id] = 0]
          /\ quantums' = [quantums EXCEPT ![id] = 0]
          /\ ready_queue' = Append(ready_queue, id)
          /\ masked' = masked \ {running_thread, id}
    /\ UNCHANGED <<running_thread, blocked, sleeping, total, set_timer, timer,
                   retired, process_vars>>

\* uthread_spawn with no id left, or with a null entry point.
SpawnFails ==
    /\ Up
    /\ BlockSignals
    /\ UNCHANGED <<thread_vars, clock_vars, sleep_vars, ready_queue, retired,
                   process_vars>>

(***************************************************************************)
(* ready_queue.erase(find(ready_queue, tid)): the first occurrence of tid  *)
(* leaves the queue.  With no occurrence find returns end() and erasing it *)
(* is undefined: depending on the library, the process is killed by the    *)
(* memory it corrupts, or the last entry of the queue is dropped.          *)
(***************************************************************************)
EraseReady(tid) ==
    \/ \E i \in DOMAIN ready_queue :
          /\ ready_queue[i] = tid
          /\ \A j \in 1 .. i - 1 : ready_queue[j] # tid
          /\ ready_queue' = RemoveAt(ready_queue, i)
          /\ UNCHANGED process_vars
    \/ /\ \A i \in DOMAIN ready_queue : ready_queue[i] # tid
       /\ ub' = TRUE
       /\ status' = "killed"
       /\ UNCHANGED ready_queue
    \/ /\ \A i \in DOMAIN ready_queue : ready_queue[i] # tid
       /\ ub' = TRUE
       /\ ready_queue # <<>>
       /\ ready_queue' = Front(ready_queue)
       /\ UNCHANGED status

\* Thread tid leaves threads, its id returns to the heap, its object is freed.
Forget(tid) ==
    /\ threads' = threads \ {tid}
    /\ ids' = ids \union {tid}
    /\ retired' = (retired + quantums[tid]) % CounterMod

\* The slot of a freed thread in one of the per-thread functions.
Freed(f, tid, value) == [f EXCEPT ![tid] = value]

\* uthread_terminate(0): the process exits with status 0.
TerminateMain ==
    /\ Up
    /\ status' = "exited"
    /\ UNCHANGED <<thread_vars, clock_vars, sleep_vars, ready_queue, masked,
                   ub, retired>>

\* error_handler(.., true): a failing system call or allocation, which any
\* call of the library may meet, ends the process with status 1.
SystemError ==
    /\ Up
    /\ status' = "failed"
    /\ UNCHANGED <<thread_vars, clock_vars, sleep_vars, ready_queue, masked,
                   ub, retired>>

\* uthread_terminate of a tid that does not exist.
TerminateMissing(tid) ==
    /\ Up
    /\ tid # MainThreadId
    /\ tid \notin threads
    /\ BlockSignals
    /\ UNCHANGED <<thread_vars, clock_vars, sleep_vars, ready_queue, retired,
                   process_vars>>

\* uthread_terminate of a READY thread; the code looks for it in the ready
\* queue whether or not it is asleep (509).
TerminateReady(tid) ==
    /\ Up
    /\ tid # MainThreadId
    /\ tid \in threads
    /\ state[tid] = "READY"
    /\ EraseReady(tid)
    /\ sleeping' = IF sleep[tid] # 0 THEN sleeping \ {tid} ELSE sleeping
    /\ Forget(tid)
    /\ sleep' = Freed(sleep, tid, 0)
    /\ quantums' = Freed(quantums, tid, 0)
    /\ masked' = masked \ {running_thread, tid}
    /\ UNCHANGED <<running_thread, state, blocked, total, set_timer, timer>>

\* uthread_terminate of a BLOCKED thread.
TerminateBlocked(tid) ==
    /\ Up
    /\ tid # MainThreadId
    /\ tid \in threads
    /\ state[tid] = "BLOCKED"
    /\ blocked' = blocked \ {tid}
    /\ sleeping' = IF sleep[tid] # 0 THEN sleeping \ {tid} ELSE sleeping
    /\ Forget(tid)
    /\ state' = Freed(state, tid, "READY")
    /\ sleep' = Freed(sleep, tid, 0)
    /\ quantums' = Freed(quantums, tid, 0)
    /\ masked' = masked \ {running_thread, tid}
    /\ UNCHANGED <<running_thread, ready_queue, total, set_timer, timer,
                   process_vars>>

\* uthread_terminate of the RUNNING thread: it is freed and another runs.
TerminateRunning(tid) ==
    /\ Up
    /\ tid # MainThreadId
    /\ tid \in threads
    /\ state[tid] = "RUNNING"
    /\ Forget(tid)
    /\ MakeSchedulingDecision(
            ready_queue,
            Freed(state, tid, "READY"),
            sleep, sleeping,
            Freed(quantums, tid, 0),
            "cancelled", TRUE)
    /\ masked' = masked \ {tid}
    /\ UNCHANGED blocked

Terminate(tid) ==
    \/ TerminateMissing(tid)
    \/ TerminateReady(tid)
    \/ TerminateBlocked(tid)
    \/ TerminateRunning(tid)

-----------------------------------------------------------------------------
(* Blocking, resuming and sleeping.                                        *)

\* Seeded fault: the main thread may block itself.
BlockableAny(tid) == tid \in threads

\* The tids that uthread_block accepts.
Blockable(tid) == tid # MainThreadId /\ tid \in threads

\* uthread_block with nothing to do: the main thread, a tid that does not
\* exist, or a thread that is BLOCKED already.  None of these paths unblocks.
BlockRefused(tid) ==
    /\ Up
    /\ Blockable(tid) => state[tid] = "BLOCKED"
    /\ BlockSignals
    /\ UNCHANGED <<thread_vars, clock_vars, sleep_vars, ready_queue, retired,
                   process_vars>>

\* uthread_block of a READY thread, which is in the queue unless asleep.
BlockReady(tid) ==
    /\ Up
    /\ Blockable(tid)
    /\ state[tid] = "READY"
    /\ state' = [state EXCEPT ![tid] = "BLOCKED"]
    /\ blocked' = blocked \union {tid}
    /\ IF sleep[tid] = 0
         THEN EraseReady(tid)
         ELSE UNCHANGED <<ready_queue, process_vars>>
    /\ UnblockSignals
    /\ UNCHANGED <<threads, ids, clock_vars, sleep_vars, retired>>

\* uthread_block of the RUNNING thread by itself.  Its environment, with its
\* signal mask, was saved before the signals were blocked (547).
BlockRunning(tid) ==
    /\ Up
    /\ Blockable(tid)
    /\ state[tid] = "RUNNING"
    /\ blocked' = blocked \union {tid}
    /\ MakeSchedulingDecision(
            ready_queue,
            [state EXCEPT ![tid] = "BLOCKED"],
            sleep, sleeping, quantums, "cancelled", TRUE)
    /\ UNCHANGED <<threads, ids, masked, retired>>

Block(tid) ==
    \/ BlockRefused(tid)
    \/ BlockReady(tid)
    \/ BlockRunning(tid)

\* uthread_resume of a thread that does not exist, or that is not BLOCKED.
ResumeRefused(tid) ==
    /\ Up
    /\ \/ tid \notin threads
       \/ tid \in threads /\ state[tid] # "BLOCKED"
    /\ UnblockSignals
    /\ UNCHANGED <<thread_vars, clock_vars, sleep_vars, ready_queue, retired,
                   process_vars>>

\* Seeded faults: a resumed thread is queued even if asleep, or at the front.
RejoinedAsleep(tid) == Append(ready_queue, tid)
RejoinedAtFront(tid) == IF sleep[tid] = 0 THEN <<tid>> \o ready_queue ELSE ready_queue

\* The queue with a resumed thread, which joins it unless asleep.
Rejoined(tid) == IF sleep[tid] = 0 THEN Append(ready_queue, tid) ELSE ready_queue

\* uthread_resume of a BLOCKED thread.
ResumeBlocked(tid) ==
    /\ Up
    /\ tid \in threads
    /\ state[tid] = "BLOCKED"
    /\ blocked' = blocked \ {tid}
    /\ state' = [state EXCEPT ![tid] = "READY"]
    /\ ready_queue' = Rejoined(tid)
    /\ UnblockSignals
    /\ UNCHANGED <<threads, ids, clock_vars, sleep_vars, retired,
                   process_vars>>

Resume(tid) ==
    \/ ResumeRefused(tid)
    \/ ResumeBlocked(tid)

\* uthread_sleep by the main thread.
SleepRefused ==
    /\ Up
    /\ running_thread = MainThreadId
    /\ UnblockSignals
    /\ UNCHANGED <<thread_vars, clock_vars, sleep_vars, ready_queue, retired,
                   process_vars>>

\* uthread_sleep(n), for any n, negative ones included.  The call returns
\* through line 627, which blocks the signals, and 631, which does not unblock.
Sleep(n) ==
    /\ Up
    /\ running_thread # MainThreadId
    /\ BlockSignals
    /\ MakeSchedulingDecision(
            ready_queue,
            [state EXCEPT ![running_thread] = "READY"],
            [sleep EXCEPT ![running_thread] = n],
            sleeping \union {running_thread},
            quantums, "cancelled", TRUE)
    /\ UNCHANGED <<threads, blocked, ids, retired>>

\* uthread_get_quantums, whatever the tid.
GetQuantums ==
    /\ Up
    /\ UnblockSignals
    /\ UNCHANGED <<thread_vars, clock_vars, sleep_vars, ready_queue, retired,
                   process_vars>>

-----------------------------------------------------------------------------
Next ==
    \/ Tick
    \/ Spawn
    \/ SpawnFails
    \/ TerminateMain
    \/ SystemError
    \/ \E tid \in TidArgs : Terminate(tid) \/ Block(tid) \/ Resume(tid)
    \/ SleepRefused
    \/ \E n \in SleepArgs : Sleep(n)
    \/ GetQuantums

\* The steps that take the processor from the running thread.
Decision ==
    \/ Tick
    \/ \E tid \in TidArgs : TerminateRunning(tid) \/ BlockRunning(tid)
    \/ \E n \in SleepArgs : Sleep(n)

Spec == Init /\ [][Next]_vars

(***************************************************************************)
(* Fairness: the running thread gives the processor up, or uses it until   *)
(* the virtual timer, which counts the time it runs, expires.  Nothing is  *)
(* assumed of any other call.                                              *)
(***************************************************************************)
FairSpec == Spec /\ WF_vars(Decision)

-----------------------------------------------------------------------------
(* Properties.  Undefined behaviour (ub) makes all of them void, except    *)
(* NoUndefinedBehaviour, which says that it never happens.                 *)

\* One thread is RUNNING, the one running_thread names.
OneRunning ==
    /\ running_thread \in threads
    /\ \A t \in threads : state[t] = "RUNNING" <=> t = running_thread

\* The main thread is never blocked nor asleep.
MainAwake ==
    /\ MainThreadId \in threads
    /\ state[MainThreadId] # "BLOCKED"
    /\ MainThreadId \notin sleeping

\* The queue holds the READY threads that are not asleep, each of them once.
QueueExact ==
    /\ ToSet(ready_queue) = {t \in threads : state[t] = "READY" /\ t \notin sleeping}
    /\ \A i, j \in DOMAIN ready_queue : ready_queue[i] = ready_queue[j] => i = j

\* The maps blocked and sleeping say what the Thread objects say.
MapsAgree ==
    /\ blocked = {t \in threads : state[t] = "BLOCKED"}
    /\ sleeping = {t \in threads : sleep[t] # 0}
    /\ running_thread \notin sleeping

\* Every id is either free or the id of one thread.
IdsPartition == ids = Ids \ threads

\* No scheduling decision leaves the timer cancelled.
TimerArmed == timer = "quantum" /\ ~set_timer

(***************************************************************************)
(* The library's structures agree with each other whatever sequence of     *)
(* calls and expiries led here: each thread is in exactly the containers   *)
(* its state calls for.  (threads, ready_queue, blocked, sleeping, ids and *)
(* the Thread objects are updated separately by every call of              *)
(* uthreads.cpp.)                                                          *)
(***************************************************************************)
Bookkeeping ==
    ~ub => /\ OneRunning
           /\ MainAwake
           /\ QueueExact
           /\ MapsAgree
           /\ IdsPartition
           /\ TimerArmed

(***************************************************************************)
(* make_scheduling_decision never finds the ready queue empty, where line  *)
(* 380 would erase from an empty vector: the main thread runs or is in the *)
(* queue.                                                                  *)
(***************************************************************************)
MainSchedulable ==
    ~ub => \/ running_thread = MainThreadId
           \/ \E i \in DOMAIN ready_queue : ready_queue[i] = MainThreadId

(***************************************************************************)
(* uthread_get_total_quantums and uthread_get_quantums tell one story:     *)
(* every quantum counted since uthread_init was charged to one thread,     *)
(* alive or terminated.                                                    *)
(***************************************************************************)
QuantumAccounting ==
    ~ub => total = (SumFunctionOnSet(quantums, threads) + retired) % CounterMod

(***************************************************************************)
(* Bounded waiting: no call lets a thread overtake another in the ready    *)
(* queue.  A queued thread never moves away from the front, and moves      *)
(* nearer to it at every scheduling decision.                              *)
(***************************************************************************)
NoOvertaking ==
    [][~ub' => \A i \in DOMAIN ready_queue, j \in DOMAIN ready_queue' :
                  ready_queue'[j] = ready_queue[i] =>
                     IF Decision THEN j < i ELSE j <= i]_vars

(***************************************************************************)
(* A READY thread, asleep or not, runs eventually, unless another thread   *)
(* blocks or terminates it, or the process ends.                           *)
(***************************************************************************)
ReadyThreadsRun ==
    \A t \in Ids :
        (t \in threads /\ state[t] = "READY")
            ~> (\/ running_thread = t
                \/ t \notin threads
                \/ state[t] = "BLOCKED"
                \/ ~Up
                \/ ub)

(***************************************************************************)
(* A sleeping thread wakes up, also when it was blocked in its sleep.      *)
(***************************************************************************)
SleepersWake ==
    \A t \in Ids : (t \in sleeping) ~> (t \notin sleeping \/ ~Up \/ ub)

(***************************************************************************)
(* Terminating a thread deletes it "from all relevant control structures"  *)
(* (489), with no undefined behaviour on the way.                          *)
(***************************************************************************)
NoUndefinedBehaviour == ~ub

(***************************************************************************)
(* "The same group will be used to unblock the signals after we are done"  *)
(* (263): between two calls, no thread has the group blocked.              *)
(***************************************************************************)
SignalsUnblocked == masked = {}

\* What the library promises, without its data structures.
Lifecycle == INSTANCE ThreadLifecycle WITH
    Threads <- Ids,
    Main <- MainThreadId,
    current <- running_thread,
    alive <- threads,
    suspended <- blocked,
    dormant <- sleeping,
    process <- status,
    undefined <- ub
LifecycleSpec == Lifecycle!Spec
=============================================================================
