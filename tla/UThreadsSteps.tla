---------------------------- MODULE UThreadsSteps ----------------------------
(***************************************************************************)
(* The thread library of ex2/uthreads.cpp at the grain of its updates: a   *)
(* step updates one container or one field, after the tests that lead to   *)
(* it, and the timer may expire between two steps.  The signal group holds *)
(* SIGALRM alone (271), so that block_signals does not keep the handler of *)
(* SIGVTALRM out of a call.                                                *)
(*                                                                         *)
(* lib is the library's global state; its fields have the names and the    *)
(* meaning of the variables of UThreads.  cpu is the code that runs: on    *)
(* whose stack, what it does next, and the tid, or the number of quantums, *)
(* that it works on.  env is what sigsetjmp has saved for each thread.     *)
(*                                                                         *)
(* What follows undefined behaviour is left out: it ends the run.          *)
(***************************************************************************)
EXTENDS Integers, Sequences, SequencesExt

CONSTANTS
    MaxThreadNum,   \* MAX_THREAD_NUM
    SleepArgs,      \* the arguments threads pass to uthread_sleep
    CounterMod,     \* bound: quantum counters are kept modulo this number
    MaxPreemptions  \* bound: expiries of the timer inside a call

ASSUME MaxThreadNumAssumption == MaxThreadNum \in Nat \ {0}
ASSUME PreemptionsAssumption == MaxPreemptions \in Nat

VARIABLES
    lib,        \* the library's globals and Thread objects
    cpu,        \* what runs
    env,        \* env, the saved contexts
    rest,       \* history: lib when thread code ran last
    preempted   \* history: how often the timer has expired inside a call

vars == <<lib, cpu, env, rest, preempted>>

\* The library as UThreads sees it, each call being one step.
Calls == INSTANCE UThreads WITH
    running_thread <- rest.running_thread, threads <- rest.threads,
    state <- rest.state, sleep <- rest.sleep, quantums <- rest.quantums,
    ready_queue <- rest.ready_queue, blocked <- rest.blocked,
    sleeping <- rest.sleeping, ids <- rest.ids, total <- rest.total,
    set_timer <- rest.set_timer, timer <- rest.timer, masked <- rest.masked,
    status <- rest.status, ub <- rest.ub, retired <- rest.retired

Ids == Calls!Ids
Main == Calls!MainThreadId
NoThread == Calls!NoThread

\* Thread code on thread t's own stack.
User(t) == [stack |-> t, pc |-> "user", arg |-> 0]

\* A context that has been returned to: the frame that saved it has returned,
\* and it cannot be used again.
Stale == [stack |-> NoThread, pc |-> "stale", arg |-> 0]

Init ==
    /\ lib = [running_thread |-> Main, threads |-> {Main},
              state |-> [t \in Ids |-> IF t = Main THEN "RUNNING" ELSE "READY"],
              sleep |-> [t \in Ids |-> 0],
              quantums |-> [t \in Ids |-> IF t = Main THEN 1 % CounterMod ELSE 0],
              ready_queue |-> <<>>, blocked |-> {}, sleeping |-> {},
              ids |-> Ids \ {Main}, total |-> 1 % CounterMod, set_timer |-> FALSE,
              timer |-> "quantum", masked |-> {}, status |-> "up", ub |-> FALSE,
              retired |-> 0]
    /\ cpu = User(Main)
    /\ env = [t \in Ids |-> Stale]
    /\ rest = lib
    /\ preempted = 0

Least(S) == CHOOSE x \in S : \A y \in S : x <= y

Undefined(l) == [l EXCEPT !.ub = TRUE, !.status = "killed"]

At(pc) == lib.status = "up" /\ cpu.pc = pc
Goto(pc) == cpu' = [cpu EXCEPT !.pc = pc]
Call(pc, arg) == cpu' = [cpu EXCEPT !.pc = pc, !.arg = arg]
Return == cpu' = User(cpu.stack)

\* One update inside a call, with the place of the next.
Update(here, l, there) == At(here) /\ lib' = l /\ Goto(there)

\* The library after block_signals and after unblock_signals.
Blocking(l) == [l EXCEPT !.masked = @ \union {cpu.stack}]
Unblocking(l) == [l EXCEPT !.masked = @ \ {cpu.stack}]

\* The last update of a call.
LastUpdate(here, l) == At(here) /\ lib' = Unblocking(l) /\ Return

\* m.erase(m.find(..)) for a map m of the library, and erase(find(..)) for
\* ready_queue: with nothing found they erase end().
ErasedFromMap(m) ==
    IF cpu.arg \in lib[m] THEN [lib EXCEPT ![m] = @ \ {cpu.arg}] ELSE Undefined(lib)
ErasedFromQueue ==
    IF \E i \in DOMAIN lib.ready_queue : lib.ready_queue[i] = cpu.arg
      THEN [lib EXCEPT !.ready_queue = RemoveFirst(@, cpu.arg)]
      ELSE Undefined(lib)

-----------------------------------------------------------------------------
(* The scheduler.                                                          *)

(***************************************************************************)
(* make_scheduling_decision and run_thread, up to siglongjmp.  They are    *)
(* reached with the timer cancelled, or in the handler, so that the timer  *)
(* does not expire before run_thread arms it again.  at() throws if the    *)
(* front of the queue is no thread.                                        *)
(***************************************************************************)
Decided(l) ==
    LET left == [t \in Ids |-> IF t \in l.sleeping THEN Calls!Reduced(l.sleep[t])
                                                   ELSE l.sleep[t]]
        woken == {t \in l.sleeping : left[t] = 0}
        queue == l.ready_queue
                   \o SetToSortSeq({t \in woken : l.state[t] # "BLOCKED"}, <)
    IN  IF queue = <<>> \/ Head(queue) \notin l.threads THEN Undefined(l)
        ELSE [l EXCEPT !.total = (@ + 1) % CounterMod,
                       !.sleep = left,
                       !.sleeping = @ \ woken,
                       !.ready_queue = Tail(queue),
                       !.quantums = Calls!QuantumsUse(@, Head(queue)),
                       !.running_thread = Head(queue),
                       !.state[Head(queue)] = "RUNNING",
                       !.timer = IF l.set_timer THEN "quantum" ELSE @,
                       !.set_timer = FALSE]

\* Seeded fault: run_thread is not told to arm the timer again.
GiveUpUntimed(l) ==
    /\ lib' = Decided([l EXCEPT !.timer = "cancelled"])
    /\ Call("jump", lib'.running_thread)

\* A call gives the processor up, in a library state that it has prepared:
\* the timer is cancelled, and the decision is made.
GiveUp(l) ==
    /\ lib' = Decided([l EXCEPT !.timer = "cancelled", !.set_timer = TRUE])
    /\ Call("jump", lib'.running_thread)

\* siglongjmp(env[tid]), in the library state l with the contexts saved.
Switch(l, saved, tid) ==
    /\ lib' = IF saved[tid] = Stale THEN Undefined(l) ELSE l
    /\ cpu' = saved[tid]
    /\ env' = [saved EXCEPT ![tid] = Stale]

Jump == At("jump") /\ Switch(lib, env, cpu.arg)

\* scheduler, the handler of SIGVTALRM, which saves the context it has
\* interrupted, wherever that is.  With no running thread it does so in
\* env[-1], and looks for a thread that is not in the map.
Tick ==
    /\ lib.status = "up"
    /\ lib.timer = "quantum"
    /\ cpu.pc # "user" => preempted < MaxPreemptions
    /\ IF lib.running_thread \notin lib.threads
         THEN lib' = Undefined(lib) /\ UNCHANGED <<cpu, env>>
         ELSE LET l == Decided([lib EXCEPT
                            !.ready_queue = Append(@, lib.running_thread),
                            !.state[lib.running_thread] = "READY"])
              IN  Switch(l, [env EXCEPT ![lib.running_thread] = cpu], l.running_thread)

-----------------------------------------------------------------------------
(* uthread_spawn.                                                          *)

\* No id is left, or the entry point is null.
SpawnFails == At("user") /\ lib' = Blocking(lib) /\ UNCHANGED cpu

SpawnTop ==
    /\ At("user")
    /\ lib.ids # {}
    /\ lib' = Blocking(lib)
    /\ Call("spawn_pop", Least(lib.ids))

\* What is popped is on top of the heap now.
SpawnPop ==
    Update("spawn_pop",
           IF lib.ids = {} THEN Undefined(lib) ELSE [lib EXCEPT !.ids = @ \ {Least(@)}],
           "spawn_insert")

\* The constructor sets the context up, whether or not insert then finds the
\* id in the map.
SpawnInsert ==
    /\ Update("spawn_insert",
              IF cpu.arg \in lib.threads THEN lib
              ELSE [lib EXCEPT !.threads = @ \union {cpu.arg},
                               !.state[cpu.arg] = "READY",
                               !.sleep[cpu.arg] = 0,
                               !.quantums[cpu.arg] = 0,
                               !.masked = @ \ {cpu.arg}],
              "spawn_push")
    /\ env' = [env EXCEPT ![cpu.arg] = User(cpu.arg)]

SpawnPush == LastUpdate("spawn_push", [lib EXCEPT !.ready_queue = Append(@, cpu.arg)])

-----------------------------------------------------------------------------
(* uthread_terminate.                                                      *)

TerminateMain == At("user") /\ lib' = [lib EXCEPT !.status = "exited"] /\ UNCHANGED cpu

\* The thread is looked for, and the branch is chosen by its state.
TerminateFind(tid) ==
    /\ At("user")
    /\ tid # Main
    /\ lib' = Blocking(lib)
    /\ IF tid \notin lib.threads THEN UNCHANGED cpu
       ELSE Call(CASE lib.state[tid] = "READY"   -> "terminate_ready"
                   [] lib.state[tid] = "RUNNING" -> "terminate_running"
                   [] lib.state[tid] = "BLOCKED" -> "terminate_blocked", tid)

\* Seeded fault: a thread that sleeps is not taken out of sleeping.
AfterPlaceAwake == "terminate_erase"

\* check_sleeping decides whether the map sleeping is looked into.
AfterPlace == IF lib.sleep[cpu.arg] # 0 THEN "terminate_sleeping" ELSE "terminate_erase"

TerminateReady == Update("terminate_ready", ErasedFromQueue, AfterPlace)
TerminateBlocked == Update("terminate_blocked", ErasedFromMap("blocked"), AfterPlace)
TerminateSleeping == Update("terminate_sleeping", ErasedFromMap("sleeping"), "terminate_erase")

\* Calls that others have left half done, and that hold an iterator to tid,
\* or its Thread, are left with a dangling one.
Holding == {"terminate_ready", "terminate_running", "terminate_blocked", "terminate_sleeping",
            "terminate_erase", "block_mark", "block_erase", "block_insert", "block_self",
            "block_self_insert", "resume_erase", "resume_ready", "resume_push"}
Invalidate(tid) ==
    env' = [t \in Ids |-> IF env[t].arg = tid /\ env[t].pc \in Holding
                          THEN [env[t] EXCEPT !.pc = "dangling"] ELSE env[t]]

Dangling == Update("dangling", Undefined(lib), "dangling")

TerminateErase ==
    /\ Update("terminate_erase", [lib EXCEPT !.threads = @ \ {cpu.arg}], "terminate_push")
    /\ Invalidate(cpu.arg)

\* The thread's Thread is deleted and its id free; its slot is as good as new.
Freed(l, tid) ==
    [l EXCEPT !.ids = @ \union {tid},
              !.retired = (@ + l.quantums[tid]) % CounterMod,
              !.state[tid] = "READY", !.sleep[tid] = 0, !.quantums[tid] = 0,
              !.masked = @ \ {tid}]

TerminatePush == LastUpdate("terminate_push", Freed(lib, cpu.arg))

TerminateRunning ==
    /\ At("terminate_running")
    /\ GiveUp([Freed(lib, cpu.arg) EXCEPT !.threads = @ \ {cpu.arg},
                                          !.running_thread = NoThread])
    /\ Invalidate(cpu.arg)

-----------------------------------------------------------------------------
(* uthread_block.                                                          *)

\* Seeded fault: every call saves its context in the same place.
SaveContextOfMain == env' = [env EXCEPT ![Main] = User(cpu.stack)]

\* sigsetjmp, at the beginning of a call: from here the thread will return
\* to its caller.
SaveContext == env' = [env EXCEPT ![lib.running_thread] = User(cpu.stack)]

BlockFind(tid) ==
    /\ At("user")
    /\ SaveContext
    /\ IF tid = Main \/ tid \notin lib.threads \/ lib.state[tid] = "BLOCKED"
         THEN lib' = Blocking(lib) /\ UNCHANGED cpu
         ELSE UNCHANGED lib /\ Call(IF lib.state[tid] = "READY" THEN "block_mark"
                                                                ELSE "block_self", tid)

Marked == [lib EXCEPT !.state[cpu.arg] = "BLOCKED"]
BlockMark ==
    Update("block_mark", Marked, IF lib.sleep[cpu.arg] = 0 THEN "block_erase" ELSE "block_insert")
BlockErase == Update("block_erase", ErasedFromQueue, "block_insert")
BlockInsert == LastUpdate("block_insert", [Marked EXCEPT !.blocked = @ \union {cpu.arg}])

BlockSelf == Update("block_self", Marked, "block_self_insert")
BlockSelfInsert ==
    Update("block_self_insert", [lib EXCEPT !.blocked = @ \union {cpu.arg}], "give_up")

\* The end of uthread_block and of uthread_sleep.
GiveUpProcessor == At("give_up") /\ GiveUp([lib EXCEPT !.running_thread = NoThread])

-----------------------------------------------------------------------------
(* uthread_resume.                                                         *)

ResumeFind(tid) ==
    /\ At("user")
    /\ IF tid \in lib.threads /\ lib.state[tid] = "BLOCKED"
         THEN UNCHANGED lib /\ Call("resume_erase", tid)
         ELSE lib' = Unblocking(lib) /\ UNCHANGED cpu

ResumeErase == Update("resume_erase", ErasedFromMap("blocked"), "resume_ready")

ResumeReady ==
    /\ At("resume_ready")
    /\ LET ready == [lib EXCEPT !.state[cpu.arg] = "READY"]
       IN  IF lib.sleep[cpu.arg] = 0 THEN lib' = ready /\ Goto("resume_push")
                                     ELSE lib' = Unblocking(ready) /\ Return

ResumePush == LastUpdate("resume_push", [lib EXCEPT !.ready_queue = Append(@, cpu.arg)])

-----------------------------------------------------------------------------
(* uthread_sleep, which calls the running thread by running_thread, and    *)
(* uthread_get_quantums.                                                   *)

SleepBegin(n) ==
    /\ At("user")
    /\ SaveContext
    /\ IF lib.running_thread = Main THEN lib' = Unblocking(lib) /\ UNCHANGED cpu
                                    ELSE lib' = Blocking(lib) /\ Call("sleep_set", n)

SleepSet ==
    Update("sleep_set", [lib EXCEPT !.sleep[lib.running_thread] = cpu.arg], "sleep_insert")
SleepInsert ==
    Update("sleep_insert", [lib EXCEPT !.sleeping = @ \union {lib.running_thread}], "sleep_ready")
SleepReady ==
    Update("sleep_ready", [lib EXCEPT !.state[lib.running_thread] = "READY"], "sleep_leave")

\* running_thread is given up before the timer is cancelled (640, 641).
SleepLeave == Update("sleep_leave", [lib EXCEPT !.running_thread = NoThread], "give_up")

GetQuantums == At("user") /\ lib' = Unblocking(lib) /\ UNCHANGED cpu

\* error_handler(.., true), from any failing system call or allocation.
SystemError ==
    lib.status = "up" /\ lib' = [lib EXCEPT !.status = "failed"] /\ UNCHANGED cpu

-----------------------------------------------------------------------------
\* The steps that change a saved context, and those that do not.
ContextStep ==
    \/ SpawnInsert \/ TerminateErase \/ TerminateRunning \/ Jump
    \/ \E tid \in Calls!TidArgs : BlockFind(tid)
    \/ \E n \in SleepArgs : SleepBegin(n)

PlainStep ==
    \/ SpawnFails \/ SpawnTop \/ SpawnPop \/ SpawnPush
    \/ TerminateMain \/ TerminateReady \/ TerminateBlocked \/ TerminateSleeping \/ TerminatePush
    \/ BlockMark \/ BlockErase \/ BlockInsert
    \/ BlockSelf \/ BlockSelfInsert \/ GiveUpProcessor
    \/ ResumeErase \/ ResumeReady \/ ResumePush
    \/ SleepSet \/ SleepInsert \/ SleepReady \/ SleepLeave
    \/ GetQuantums \/ SystemError \/ Dangling
    \/ \E tid \in Calls!TidArgs : TerminateFind(tid) \/ ResumeFind(tid)

Inside(context) == context.pc # "user"

Next ==
    /\ \/ ContextStep /\ UNCHANGED preempted
       \/ PlainStep /\ UNCHANGED <<env, preempted>>
       \/ Tick /\ preempted' = IF Inside(cpu) THEN preempted + 1 ELSE preempted
    /\ rest' = IF Inside(cpu') THEN [rest EXCEPT !.status = lib'.status] ELSE lib'

Spec == Init /\ [][Next]_vars

-----------------------------------------------------------------------------
(* Properties.  As in UThreads, undefined behaviour makes them void.       *)

(***************************************************************************)
(* UThreads takes every call as one step.  That is what the library does   *)
(* as long as the timer expires in thread code only: seen when thread code *)
(* runs, the updates of a call are one step of UThreads, or none.          *)
(***************************************************************************)
CallsAreAtomic ==
    [][preempted' = 0 /\ ~lib'.ub => Calls!Next \/ UNCHANGED Calls!vars]_vars

(***************************************************************************)
(* Every way out of a call that cancels the timer (516, 576, 641) arms it  *)
(* again before thread code runs (347): whoever gets the processor can be  *)
(* made to give it up.  Nothing can come between the two.                  *)
(***************************************************************************)
TimerArmedForThreads ==
    ~lib.ub /\ cpu.pc = "user" => lib.timer = "quantum" /\ ~lib.set_timer

(***************************************************************************)
(* Even then the thread code that runs is that of the thread which         *)
(* running_thread names, and uthread_get_tid returns.                      *)
(***************************************************************************)
RunsItself == ~lib.ub /\ cpu.pc = "user" => cpu.stack = lib.running_thread

(***************************************************************************)
(* "signals which we will block while preforming important tasks" (262):   *)
(* an expiry of the timer leaves no trace in the library's structures.     *)
(* When no thread is inside a call, they agree with each other.            *)
(***************************************************************************)
AllAtRest ==
    /\ ~Inside(cpu)
    /\ \A t \in lib.threads \ {lib.running_thread} : ~Inside(env[t])
ConsistentAtRest == AllAtRest => Calls!Bookkeeping
=============================================================================
