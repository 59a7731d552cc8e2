# Verification of Core_OS_Project

TLA+ models of the programs in `src/operating system`, the TLC configurations that check them, and
proofs of their most important invariants. Line numbers refer to the source file that the section names.

## 1. The system

The repository holds five independent programs; they share no state and call nothing of each other.

| part | source | state | operations | what is hard |
|---|---|---|---|---|
| thread library | `ex2/uthreads.cpp` | `threads`, `ready_queue`, `blocked`, `sleeping`, `ids`, each `Thread` object's `state_`, `sleep`, quantums; the virtual timer; the signal mask | spawn, terminate, block, resume, sleep, the SIGVTALRM handler, getters | five containers kept in step by hand under any sequence of calls; round-robin order; sleep counted down at scheduling decisions; error returns that skip clean-up; a timer handler that can interrupt a call |
| MapReduce framework | `ex3/MapReduceFramework.cpp` | `progress` (stage, to do, done), five mutexes, a semaphore, per-thread vectors, the heap of pairs | startMapReduceJob, waitForJob, getJobState, closeJobHandle, emit2, emit3; the phases map, sort, shuffle, reduce | threads that claim work with a test outside of the lock; phases separated only by barriers; a vector that changes its meaning between phases; threads that wait for a token another one takes |
| barrier | `ex3/Barrier.cpp` | `count`, mutex, condition variable | `barrier()` | reuse while threads are still leaving; wakeups that nobody has sent |
| virtual memory | `ex4/VirtualMemory.cpp` | page tables and pages in physical frames; the swap file | VMinitialize, VMread, VMwrite | tables and pages compete for frames in the middle of a walk; long sequences of faults that lose or share a frame |
| command server | `ex5/sockets.cpp` | listening socket, `connected`, `clients`, one buffer | server loop; client | commands that arrive in pieces; clients that end early; ways out on error |
| container | `ex5/container.cpp` | directories, files and a mount below the container's root, which outlive the process | the launcher (`main`), the child (`create_container`), the clean-up | partial failure at any call; leftovers that the next run meets |
| timing | `ex1/osm.cpp` | none | three measurements | nothing concurrent; what it returns is a time |

Interactions inside the parts: the thread library's calls and its timer handler share all of its
globals; the MapReduce threads share the job context and two barriers, and the client thread shares
the atomic counter with them; the container's launcher and child share the file system; the
server and its clients share sockets.

What makes each part correct:

* thread library: every thread is in exactly the containers its state calls for; the ready queue is
  never empty at a decision; nobody is overtaken; a ready thread runs; a sleeper wakes; quantums add up.
* MapReduce: no input is mapped twice; every emitted pair is reduced once, in the group of its key;
  nobody shuffles while another maps; nobody reduces before the shuffle is over; the reported
  progress never goes back; the job ends.
* barrier: nobody leaves a round before all have entered it, and everybody leaves it.
* virtual memory: a read returns what was written last, whatever was evicted in between.
* server: commands that leave room in the buffer are executed whole; every connection is served; no descriptor is lost.
* container: a program that runs is contained; success leaves nothing behind.

`PROJECT.json` lists the hazards at their lines, each with the properties that would catch it.

## 2. Modules

| module | role |
|---|---|
| `UThreads` | the thread library, one action per call outcome |
| `UThreadsSteps`, `MCUThreadsSteps` | the same library with one action per update, and the timer between any two of them; values for TLC |
| `ThreadLifecycle` | what the library promises: threads and their states, without queues, maps and timers |
| `MCUThreads` | values for TLC |
| `UThreadsProofs`, `UThreadsStepsProofs` | the proofs about the library, call by call and update by update |
| `DataLemmas` | lemmas about queues, least elements, folds, bags and remainders, cited by the other proofs |
| `Barrier` | one `pthread` barrier as three operators on its state, instantiated by its users |
| `BarrierRounds`, `BarrierRoundsProofs` | threads that use one barrier round after round; the proof |
| `MapReduce` | the framework; instantiates `Barrier` twice |
| `MapReduceJob` | the abstract job: stages, and an output that holds each key once with all of its values |
| `MCMapReduce`, `MapReduceProofs` | values for TLC; the proofs, of the control and of the data |
| `VirtualMemory`, `MCVirtualMemory` | the page tree, its faults and evictions; values for TLC |
| `VirtualMemoryProofs` | the proofs |
| `FlatMemory` | what virtual memory promises: an array of words |
| `Sockets`, `MCSockets`, `SocketsProofs` | the server and its clients; values for TLC; the proofs |
| `CommandServer` | what the server promises: one command for each client, in the order of connection, and not before the client has sent all that it will send; that the command is whole is `CommandsWhole` |
| `Container`, `MCContainer`, `ContainerProofs` | the launcher, its child and what they leave behind; values for TLC; the proofs |

Definitions whose comment begins with "Seeded fault" are wrong on purpose: each is a plausible bug
of the operator that follows it, is used by no specification, and is there to show that the
properties notice it (`mutants` in `PROJECT.json`).

### UThreads

State: `running_thread`, `threads`, `ready_queue`, `blocked`, `sleeping`, `ids` and `set_timer` have the names of
the globals; `state`, `sleep` and `quantums` are fields of the Thread objects, by thread id; `timer` says
whether the virtual timer is armed, `masked` which threads run with the signal group blocked, `ub`
whether undefined behaviour has happened. An action is one call with one outcome: `Tick` is the
handler `scheduler`; `Spawn`/`SpawnFails`, `TerminateRefused`/`TerminateMain`/`TerminateReady`/..., `BlockRefused`/
`BlockRunning`/..., `ResumeRefused`/`ResumeBlocked`, `Sleep`/`SleepRefused`, `GetQuantums` are the calls.
`MakeSchedulingDecision` is shared by the five ways to it, as in the code. `SystemError` ends the process at
any point where a system call can fail.

One step is one call: the model assumes that the timer expires while thread code runs. The code
intends that (the comment at 261-265) but blocks SIGALRM alone (271). `UThreadsSteps` is the model
without this assumption, and shows that with it one step per call is right (`CallsAreAtomic`).

### UThreadsSteps

`lib` is a record of what are the variables of `UThreads`; `cpu` says on whose stack the processor is, what it
does next and for which thread; `env` holds the context that `sigsetjmp` has saved for each thread, which is
a place in thread code, or a place inside a call if the handler has interrupted one. An action is one
update of a container or of a field, with the tests that lead to it: `SpawnTop` (476) reads the least free
id, `SpawnPop`, `SpawnInsert`, `SpawnPush` use it, and so on for each call. `Tick` may run between any two of
them. From the place where the timer is cancelled (516, 576, 641) to the place where it is armed again
(347) no expiry is possible, so that the decision is one step (`GiveUp`), followed by `siglongjmp` (`Jump`). `TimerArmedForThreads` therefore
says no more than that each such place is followed by the other; the interruptions, which `ConsistentAtRest` and `RunsItself` are
about, do not touch the timer.
A call that was interrupted while it held an iterator into `threads`, and whose thread another one
terminates, continues at `dangling`. `rest` is the library as thread code has seen it last: `Calls`
instantiates `UThreads` with its fields, so that `CallsAreAtomic` says that a call without an interruption
is one step of `UThreads`; of a call with one it says nothing. `preempted` counts the interruptions.

### Barrier, BarrierRounds

`Arrive` is a call of `barrier()` up to its wait or its broadcast, `Released` the condition for a waiting
thread to leave, `SpuriousWakeup` a return from `pthread_cond_wait` that nobody caused. `BarrierRounds` lets each thread call
it `MaxRounds` times.

### MapReduce

One step is one access to shared state between two synchronisation calls: `MapTest` (305), `MapLock`
(306), `MapCheck` (309-313), `MapClaim` (314), `MapCall` (316), `Sort`, arriving at and leaving each barrier,
`ShuffleStart` (360-373), `ShuffleTop` (374-375), `ShufflePop`, `ShuffleNextKey`, `ShuffleEnd` in thread 0, `ReduceTest` (401), `ReduceWait` (402), `ReduceCheck`
(403), `ReduceLock`, `ReduceTake`, `ReduceCall`, `ReduceCount`, `ReduceExit` (413); `Create`, `CreateFails`, `Join` and
`Close` are the client's. The flags that make each stage start once are `set_flags`.
The start of the shuffle stage (371), which a polling `getJobState` sees, and `top()` (374), which ends the process if map has
emitted nothing, are two steps: between them such a job reports 0/0 of the shuffle stage. `ReportedProgress` names this
window, besides the time before the map stage, as the only one in which the percentage is not a number. The user's
map function is the choice of `emits`, made once: for each input the set of keys it emits. An
intermediate pair is the pair of its input and its key. `Spec` has no spurious wakeups; `SpuriousSpec` adds
them and serves only the run that shows where they lead: from then on threads race on
`vector_of_vectors` in ways the model does not describe.

### VirtualMemory

`ram` holds the frames' words, tables and pages alike, `swap` the pages evicted. `Prefix` and `Row` are the part of a page
number that has led to a level and the digit that leads on from it. A call (`Begin`) walks down
one level per step: `Follow` if the table has a child; otherwise `get_frame` has three outcomes, the
actions `ReuseTable`, `TakeFresh` and `Evict`, each of which also links the frame (308) and clears it if it is
a table (306). `Finish` restores the page and accesses the word. The depth-first walks
`find_free_frame` and `dfs_max_frame` are given by what they find, which needs three facts read off the
code: the walk visits pages in the order of their numbers; a table without children is a leaf
of the walk, so that the first empty table is the one with the least page number below it; and a candidate
replaces an earlier one only if it is strictly farther (168). `PhysicalMemory.h` and `MemoryConstants.h` are not
in the repository; `PMevict` adds a page with its words to the swap file, `PMrestore` is taken to leave a frame as it is if the page was never evicted, and to
remove the page from the swap file otherwise. Frames other than the root start with an arbitrary word.

### Sockets

A command is the number of its bytes. One that fills the buffer leaves no room for the zero that ends it (212): `Execute` then runs
it with any number of bytes, up to `MaxBehind`, that happen to follow the buffer. `Read` takes any part of what has arrived; `ReadEnds` is the end of
the stream or a full buffer; `Execute` is `system`; `ServerFails` is each failing call with `close_files`. A client may
end before its write. The descriptors `open`, `connected` and `watched` are the kernel's table, the server's vector
and the set given to `select`. `Accept` is guarded by `Listener <= MAX_CLIENTS`, as `select` looks at descriptors up to that one
only (248). `CommandServer` knows neither sockets nor descriptors: `Connect` is the completion of `connect`,
`Serve` is the end of a client's turn, and the clients that have connected wait in one queue, wherever in kernel or
server they are.

### Container

`entries` is what exists below the root's `sys`, `mounts` what is mounted on its `proc`; both outlive the processes. The
launcher waits as long as the child lives, so that both share a program counter. `ChildFails` and `LauncherFails` end a
process at any of its calls; the files of the limit may be lost unnoticed (139-154; `ProgramContained` is about the mount
and the directories and does not ask for them), and `clone` may fail unnoticed (249).
The host's mounts are taken to be shared, as otherwise the launcher cannot see the child's mount and every
run fails at 215. A generation number (`made`) tells a directory from a later one of the same name, as a
process stays in the directory it has changed into.

## 3. What is checked

| run | instance | what it shows |
|---|---|---|
| `uthreads` | 3 slots, sleeps -1, 0 and 2, counters modulo 3 | `Bookkeeping`, `MainSchedulable`, `QuantumAccounting`, `NoOvertaking`; the library implements `ThreadLifecycle`; `ReadyThreadsRun` and `SleepersWake` under fairness |
| `uthreads_steps` | 3 slots, sleeps 0 and 2, one expiry of the timer inside a call | `CallsAreAtomic`: calls that are not interrupted are steps of `UThreads`; `RunsItself` holds even when one is; `TimerArmedForThreads`: a cancelled timer is armed again before thread code runs |
| `uthreads_preempted` | the same | violation: a spawn is interrupted between reading the least id (476) and removing it (477) while another thread terminates and returns a smaller one; the id of the new thread stays free |
| `uthreads_undefined` | 3 slots | violation: terminating a sleeping thread erases `end()` of the ready queue (509) |
| `uthreads_mask` | 2 slots | violation: error returns leave the signals blocked (471) |
| `mapreduce` | 3 threads, 3 inputs, 2 keys, four maps | `ClaimsDistinct`, `PairsConserved`, `PhasesSeparated`, `ReportedProgress`, `ProgressMonotone`, `WaitMeansDone`, `TokensMatch`, `NoStuckReducer`; the framework implements `MapReduceJob`; no deadlock, and `Termination` under fairness |
| `mapreduce_spurious` | 2 threads, 1 spurious wakeup | violation: the barrier's `if` (32) lets thread 0 shuffle while another maps |
| `barrier_rounds` | 4 threads, 4 rounds | `NobodyLeavesEarly`; `EverybodyPasses` under fairness |
| `vm_paging` | 5 frames, 8 pages in 3 levels, 3 of them used | `EachFrameOnce`, `OnePlace`, `PathIntact`, `NoFrameLost`, `CandidateExists`; paging implements `FlatMemory` |
| `container_alone` | 5 runs with one root | `ProgramContained`, `MountedOnceAndWhole`, `CleanAfterSuccess` |
| `container_success` | 1 run | violation: success is reported although the program was never started (251) |
| `sockets_server` | 3 clients, buffer of 2 | `CommandsWhole`, `NoDescriptorLost`; the server implements `CommandServer`; `EveryClientServed` under fairness |

### The bounds, and why they are enough

* `MaxThreadNum` 3 gives two threads besides the main one: one can run, and two others sleep, wait, hold each other up or
  have their ids reused. The safety invariants are proved for every number, so that the bound limits only what is not
  proved. `SleepArgs` holds a negative number, zero and a sleep of several decisions, for
  `reduce_sleeping`'s clamp and for sleepers that wake together or apart. `CounterMod` bounds the counters;
  modulo 3 a missed or doubled increment shows.
* `MaxPreemptions` 1: one interruption is enough for two calls to overlap, as the interrupted thread stays inside its call while the others
  make as many calls as they like. The quantum counters are left out there (`CounterMod` 1).
* MapReduce has three threads, for two of them to compete for the last token while the third is elsewhere, and a `multiThreadLevel`
  larger than the number of inputs. The maps are unequal groups, one group, an
  input that emits nothing, and no pairs at all. `MaxSpurious` bounds the wakeups.
* `MaxRounds` 4 lets threads that are still leaving one round meet those that enter the next, several times over; the proof
  has no bound.
* Virtual memory has pages of two words and a tree of three levels, the least in which a table can be taken
  from under another table. Of the pages in use two share a table, so that an eviction has
  a choice, and one shares nothing. Five frames hold one path and two pages, so that the third
  page needs tables that only evictions can free, and emptied tables are reused. The values are 0, which looks like a missing child,
  and 1, which looks like a child.
* `MaxRuns` 5 lets a run fail, the next two meet and change what it left, and two more start from there.
* Three clients with a queue of one for `listen`, and commands shorter than the buffer, as long, and longer. `MaxBehind` 1: one byte more than the
  command shows.

### Fairness

* `UThreads`: weak fairness of `Decision`. A running thread either gives the processor up or uses it, and then
  the virtual timer, which counts the time it uses, expires. No call is assumed to be made.
* `MapReduce`: weak fairness of each thread and of the client: the operating system schedules every thread. Locks and
  the semaphore need not be fair; a thread that is passed over is let in when the work is gone.
* `BarrierRounds`: weak fairness of each thread that can go on.
* `Sockets`: weak fairness of the server and of each client's next step. That a client ends is an assumption about the
  clients: nothing in the server bounds its wait for one. The server's failure is never forced.
  A command that `system` runs is taken to end, as the server waits for it.
* `UThreadsSteps` states no fairness; it is checked for safety alone.

Deadlock is checked except where the system may stop: threads of the library after the process has ended, the barrier's threads after their
last round, clients that have all been served, launchers that were started as often as the bound allows.

## 4. What is proved

With TLAPS, for all values of the constants that the named assumptions of the modules allow: every property of every
passing run that a state or a step can violate, except `CallsAreAtomic`. The theorems are listed in `PROJECT.json`.

### The assumptions

| module | assumed |
|---|---|
| `UThreads`, `UThreadsSteps` | `MaxThreadNum` positive, `SleepArgs` any integers, `CounterMod` positive, any number of interruptions |
| `MapReduce` | `MultiThreadLevel`, `NumInputs` and `MaxSpurious` any natural numbers, none included; `Keys` finite, of integers (the code compares them with `<` only) |
| `BarrierRounds` | `NumThreads` positive, any number of rounds |
| `VirtualMemory` | `WidthAssumption`: addresses are wider than offsets; `FramesAssumption`: more frames than levels, without which the code has no frame for the last table of a path; `ProgramAssumption`: addresses and values are numbers |
| `Sockets` | at least one client, positive lengths and sizes |
| `Container` | any number of launchers for `TypeOK`; one launcher for the other three theorems, which a second one with the same root would refute |

Two theorems say less than "always". The theorems on `UThreads` and `UThreadsSteps` are conditional on `~ub`: after undefined
behaviour nothing can be said, and `UndefinedForever` shows that `ub` is never taken back. `WaitMeansDoneHolds` assumes
`MultiThreadLevel > 0 \/ NumInputs = 0`, as with no thread waitForJob returns at once and nothing is mapped.

### The arguments

* `UThreadsProofs`. `Bookkeeping` is itself inductive with `TypeOK`: the containers agree before a call, so that the branch
  a call takes by `state_` finds the thread in the containers it erases it from. `DecisionBookkeeping` proves the
  scheduling decision once, for a queue and sleep times that a caller has prepared; the lemmas per call show that each
  prepares them. `NobodyOvertakes` and `ImplementsLifecycle` are step properties that follow from it. `QuantumAccountingHolds`
  needs `Bookkeeping` too, as a decision charges a quantum only to a thread that lives: the sum is split into the thread that a
  call charges or frees and the others (`UsedSplit`), and taken modulo `CounterMod` at any time (`ModuloSum`).
* `UThreadsStepsProofs`: `TimerArmedForThreadsHolds` and `RunsItselfHolds`, from `StepsInv`. Neither is inductive: an
  interrupted call is resumed from a saved context, so the invariant says of every saved context that it is its thread's own
  or used up (`SavedInv`), and of every place inside a call whether the thread it names is one (`ContextOK`). Most steps
  assign to fields of which nothing is said (`Kept`), and are done by two lemmas, `UpdateStep` and `LastUpdateStep`.
* `BarrierRoundsProofs`: `NobodyLeavesEarlyHolds`, from `RoundInv`: all threads are in one round `g`. A thread that waits
  has made `g + 1` calls and returned from `g`; one that does not has made `g` calls and may still have to return from the last;
  `count` is the number of those that wait, and less than `NumThreads`.
* `MapReduceProofs`, control: `JobInvHolds`, and from it `PhasesSeparatedHolds`, `ClaimsDistinctHolds`, `TokensMatchHolds`, `NoStuckReducerHolds`. None of the
  four is inductive. `JobInv` adds to them how each barrier's count and waiting set follow from the
  threads' positions (`Barrier1Inv`, `Barrier2Inv`), who holds the map mutex and which claims are out
  (`ClaimInv`), how groups, tokens and threads that hold a token add up in each phase (`TokenInv`), and which positions go with which
  stage (`StageInv`). The step lemmas show that a thread that is on one side of a barrier preserves the parts
  that belong to the other.
* `MapReduceProofs`, data: `TypeOKHolds`, `PairsConservedHolds`, `ReportedProgressHolds`, `ProgressMonotoneHolds`,
  `WaitMeansDoneHolds`, `JobSpecHolds`, from `DataInv`, which is inductive only with `JobInv`: that thread 0 shuffles alone, for
  example, is what keeps a pair from being moved twice. A bag of pairs is a fold over sequences of bags over threads;
  `Conserved` looks at the copies of one pair in each of the six places, so that every step moves a number from one summand
  to another. `CountInv` ties the atomic counter to the number of pairs in the places, `FlowInv` says which places are
  empty in which phase, `GroupInv` that a vector, finished or still being built, is all the pairs of one key, and
  `ClientInv` how far the client has joined. `TopPending` marks the state between lines 371 and 374, where the heap is full and no
key has been read; what `CountInv` and `GroupInv` say of the shuffle stage begins or changes there.
* `VirtualMemoryProofs`: all seven properties of `vm_paging`, from `MemoryInv`. It adds to `TypeOK`, `PathIntact`, `NoFrameLost` and
  `OnePlace` that the rows of tables name frames (`TablesPoint`), that a frame is on the ways to two pages only where these
  ways coincide (`TreeInv`, the part without which evicting one page could take another one along), that a call
  under way has legal arguments (`CallInv`), and that a written word is in memory or in the swap file (`WrittenSomewhere`). A fault's
  three outcomes all hang a frame that no way passes any more into the tree; `PlacedMoves` computes, level by level, how that changes the way to every
  page, and everything else is read off it: the tree stays a tree (`PlacedKeepsTree`), and each page stays,
  is evicted with its words, or was away (`PlacedKeepsPages`). `CandidateExistsHolds` is about the deepest table: if every
  frame is used, none is empty and there are more frames than the walk's own, then the deepest frame beside
  the walk is a page, as a table there would have to have a child. `FlatSpecHolds` needs that only `Finish` changes
  the content of an address. A page number is its digits on the way from the root (`Prefix`, `Row`); the powers of two that this takes are
  numbers of subsets, so that no recursion has to be proved about.
* `SocketsProofs`: `TypesCorrect`, `NoDescriptorLostHolds`, `CommandsWholeHolds`, `ImplementsCommandServer`, from `ServerInv`: which descriptors
  are open follows from the server's place (`DescriptorInv`), each client waits once, is then handled and then has been executed
  (`PlaceInv`), what is received has been sent (`BytesInv`), and what has been executed was sent (`CommandInv`).
* `ContainerProofs`: `TypesCorrect` for any launchers; for one launcher `ProgramContainedHolds`, `MountedOnceAndWholeHolds`,
  `CleanAfterSuccessHolds`, from `ContainerInv`: a directory is there with those above it (`TreeInv`), what is mounted while
  nothing runs belongs to a complete container (`MountInv`), and what each place of launcher and child has already made or
  removed (`PlaceInv`). The leftovers of a failed run are what makes the properties alone not inductive.
* `DataLemmas` holds what several of these cite: queues without duplicates; `SmallestSet` and `LeastNumber`, from which the
  proofs make their inductions, by taking a smallest counterexample; that folds over finite sets and sequences are sums whatever the order
  (`Total`, `TotalSplit`, `TotalUpdate`), of numbers and of bags; remainders.

### Only model-checked

* Liveness, which the prover does not reach: `ReadyThreadsRun`, `SleepersWake`, `Termination`, `EverybodyPasses`, `EveryClientServed`.
* `CallsAreAtomic`. It relates a whole call to one step of `UThreads` and needs an invariant that says, for every place
  inside a call, how far `lib` is ahead of `rest`; that one is not written yet.

## 5. What was found

The five violation runs are listed as findings in `PROJECT.json` with the comments they contradict:
the timer interrupts calls that the signal mask should protect, and leaves the containers in disagreement (uthreads 271);
terminating a sleeping thread is undefined behaviour (uthreads 509); error returns leave signals blocked
(uthreads 471, 506, 555, 631); the barrier does not guard against spurious wakeups (Barrier 32); the container's
launcher reports success whatever became of its child (container 251).

## 6. What is not modelled

* `ex1/osm.cpp`: loops whose result is a time.
* Memory: allocation failures end the process; use after free, leaks and uninitialised values are not represented, except where a
  property says that the code never comes to them (`CandidateExists`, `TokensMatch`).
* The getters `uthread_get_tid` and `uthread_get_total_quantums`, which read one variable; contexts and stacks.
* Integer widths: the 31-bit counts of the atomic counter, and the percentages of getJobState as floating point numbers; a
  percentage is the pair of its counts.
* Several client threads of one job, and several launchers with one root: the sources do not say whether they are allowed.
* Failures of mutex, semaphore and condition variable calls, which only misuse could cause.
* What programs in the container do, and namespaces other than the mounts'.

## 7. Plan

The model covers the components that hold state, and its safety properties are proved but for one.

1. `CallsAreAtomic`: an invariant of `UThreadsSteps` for the calls that were not interrupted, with `Bookkeeping` of `rest` and,
   at each place, `lib` given by the updates that the call has made to `rest`. `UndefinedForever` and the step lemmas of
   `UThreadsProofs` can then be cited for `rest`.
2. Inductive halves of the liveness properties: which step is enabled as long as the goal is not reached, and which rank it
   takes down, as step properties (`NoOvertaking` is such a rank for `ReadyThreadsRun`).
