-------------------------- MODULE UThreadsStepsProofs --------------------------
(***************************************************************************)
(* Proofs about the thread library at the grain of its updates, for any    *)
(* number of threads and with the timer expiring inside calls any number   *)
(* of times.                                                               *)
(***************************************************************************)
EXTENDS UThreadsSteps, DataLemmas

-----------------------------------------------------------------------------
(* The inductive invariant.                                                *)

\* The states of a thread.
States == {"READY", "RUNNING", "BLOCKED"}

\* The places in which a call works on a thread that it must name rightly.
Naming == Holding \union
          {"spawn_pop", "spawn_insert", "spawn_push", "terminate_push", "jump"}

\* The library has all its fields, and its threads and free ids are ids.
LibFields == {"running_thread", "threads", "state", "sleep", "quantums", "ready_queue",
              "blocked", "sleeping", "ids", "total", "set_timer", "timer", "masked",
              "status", "ub", "retired"}
LibShape(l) == DOMAIN l = LibFields
LibOK(l) ==
    /\ LibShape(l)
    /\ l.threads \in SUBSET Ids
    /\ l.ids \in SUBSET Ids
    /\ l.state \in [Ids -> States]

\* Between two decisions the timer runs.
Ticking(l) == l.timer = "quantum" /\ l.set_timer = FALSE

\* A context has the fields of one, and where its place names a thread, it
\* names one.
ContextOK(context) ==
    /\ context = [stack |-> context.stack, pc |-> context.pc, arg |-> context.arg]
    /\ context.pc \in Naming => context.arg \in Ids

\* A context is thread t's own.  Between the decision and siglongjmp the old
\* thread's stack is still in use, but what follows is the jump to the new one.
Own(context, t) ==
    IF context.pc = "jump" THEN context.arg = t ELSE context.stack = t

\* What runs is the running thread's.  A thread that gives the processor up
\* has no number for a while, in which an expiry finds no thread to interrupt.
Runs(context, t) ==
    Own(context, t) \/ (context.pc = "give_up" /\ t = NoThread)

\* What is saved for a thread is its own, or was used already.
SavedInv(saved) ==
    /\ saved = [t \in Ids |-> saved[t]]
    /\ \A t \in Ids : ContextOK(saved[t]) /\ (saved[t] = Stale \/ Own(saved[t], t))

\* Undefined behaviour ends the run.
LibInv(l) ==
    IF l.ub THEN l.status # "up" ELSE LibOK(l) /\ Ticking(l)
StepsInv ==
    /\ LibInv(lib)
    /\ ~lib.ub => /\ ContextOK(cpu)
                  /\ Runs(cpu, lib.running_thread)
                  /\ SavedInv(env)

-----------------------------------------------------------------------------
(* Facts about the helpers.                                                *)

\* The numbers of threads.
LEMMA IdFacts ==
    Ids \in SUBSET Nat /\ Main \in Ids /\ NoThread \notin Ids
BY MaxThreadNumAssumption
   DEF Ids, Main, NoThread, Calls!Ids, Calls!MainThreadId, Calls!NoThread

\* There is a least free id, and it is free.
LEMMA LeastOf ==
    ASSUME NEW S \in SUBSET Ids, S # {}
    PROVE  Least(S) \in S
<1>1. S \in SUBSET Nat
  BY IdFacts
<1>2. \E x \in S : \A y \in S : x <= y
  BY <1>1, LeastNumber
<1> QED
  BY <1>2 DEF Least

\* Undefined behaviour ends the model: nothing more is claimed of the library.
LEMMA UndefinedInv ==
    ASSUME NEW l, LibShape(l)
    PROVE  LibInv(Undefined(l)) /\ Undefined(l).ub
BY DEF LibShape, LibFields, Undefined, LibInv

\* A decision, made while the timer runs or on the way to arming it, leaves
\* the timer running and has chosen a thread.
LEMMA DecidedInv ==
    ASSUME NEW l, LibOK(l), ~l.ub, Ticking(l) \/ l.set_timer = TRUE
    PROVE  /\ LibInv(Decided(l))
           /\ ~Decided(l).ub => Decided(l).running_thread \in Ids
<1> DEFINE left == [t \in Ids |-> IF t \in l.sleeping THEN Calls!Reduced(l.sleep[t])
                                                       ELSE l.sleep[t]]
           woken == {t \in l.sleeping : left[t] = 0}
           queue == l.ready_queue
                       \o SetToSortSeq({t \in woken : l.state[t] # "BLOCKED"}, <)
           states == [l.state EXCEPT ![Head(queue)] = "RUNNING"]
           timer == IF l.set_timer THEN "quantum" ELSE l.timer
           total == (l.total + 1) % CounterMod
           asleep == l.sleeping \ woken
           used == Calls!QuantumsUse(l.quantums, Head(queue))
           t == Head(queue)
           others == Tail(queue)
           d == [l EXCEPT !.total = total, !.sleep = left, !.sleeping = asleep,
                          !.ready_queue = others, !.quantums = used,
                          !.running_thread = t, !.state = states,
                          !.timer = timer, !.set_timer = FALSE]
<1>1. Decided(l) = IF queue = <<>> \/ Head(queue) \notin l.threads THEN Undefined(l) ELSE d
  BY DEF Decided
<1>2. /\ LibShape(d)
      /\ d.threads = l.threads /\ d.ids = l.ids /\ d.ub = l.ub
      /\ d.running_thread = t /\ d.set_timer = FALSE /\ d.timer = timer
      /\ d.state = states
  <2> HIDE DEF left, woken, queue, asleep, used, t, others, states, timer, total
  <2>1. LibShape(d)
    BY Zenon DEF LibOK, LibShape
  <2>2. /\ d.threads = l.threads /\ d.ids = l.ids /\ d.ub = l.ub
        /\ d.running_thread = t /\ d.set_timer = FALSE /\ d.timer = timer
        /\ d.state = states
    BY SMT DEF LibOK, LibShape, LibFields
  <2> QED
    BY <2>1, <2>2
<1> HIDE DEF d, left, woken, queue
<1> DEFINE throws == queue = <<>> \/ Head(queue) \notin l.threads
           good == LibInv(Decided(l)) /\ (~Decided(l).ub => Decided(l).running_thread \in Ids)
<1>3. ASSUME throws PROVE good
  BY <1>1, <1>3, UndefinedInv DEF LibOK
<1>4. ASSUME ~throws PROVE good
  <2>1. Head(queue) \in Ids
    BY <1>4 DEF LibOK
  <2>2. d.state \in [Ids -> States]
    BY <1>2, <2>1 DEF LibOK, States
  <2>3. d.timer = "quantum"
    BY <1>2 DEF Ticking
  <2> QED
    BY <1>1, <1>4, <1>2, <2>1, <2>2, <2>3 DEF LibOK, LibInv, Ticking
<1> HIDE DEF throws, good
<1>5. good
  BY ONLY <1>3, <1>4
<1> QED
  BY ONLY <1>5 DEF good

\* What the invariant says of the library, with the same thread running.
Kept(k, l) ==
    LibOK(k) /\ Ticking(k) /\ ~k.ub /\ k.status = l.status /\ k.running_thread = l.running_thread

\* The fields that the invariant says nothing of.
FreeFields == {"masked", "ready_queue", "blocked", "sleeping", "sleep", "quantums",
               "total", "retired"}

\* An assignment to a field that the invariant says nothing of.
LEMMA FreeUpdate ==
    ASSUME NEW l, LibOK(l), Ticking(l), ~l.ub, NEW f \in FreeFields, NEW v
    PROVE  Kept([l EXCEPT ![f] = v], l)
<1> DEFINE k == [l EXCEPT ![f] = v]
<1>1. LibShape(k)
  BY Zenon DEF LibOK, LibShape
<1>2. /\ k.threads = l.threads /\ k.ids = l.ids /\ k.ub = l.ub /\ k.state = l.state
      /\ k.running_thread = l.running_thread /\ k.set_timer = l.set_timer
      /\ k.timer = l.timer /\ k.status = l.status
  BY SMT DEF LibOK, LibShape, LibFields, FreeFields
<1> QED
  BY <1>1, <1>2 DEF LibOK, Ticking, Kept

\* Updates of the fields that it does speak of.
LEMMA StateUpdate ==
    ASSUME NEW l, LibOK(l), Ticking(l), ~l.ub, NEW t, NEW x \in States
    PROVE  Kept([l EXCEPT !.state[t] = x], l)
BY DEF Kept, LibOK, LibShape, LibFields, Ticking, States

\* An insertion into the map of threads, or an erasure.
LEMMA ThreadsUpdate ==
    ASSUME NEW l, LibOK(l), Ticking(l), ~l.ub, NEW S \in SUBSET Ids
    PROVE  Kept([l EXCEPT !.threads = S], l)
BY DEF Kept, LibOK, LibShape, LibFields, Ticking

\* An insertion into the set of free ids, or a removal.
LEMMA IdsUpdate ==
    ASSUME NEW l, LibOK(l), Ticking(l), ~l.ub, NEW S \in SUBSET Ids
    PROVE  Kept([l EXCEPT !.ids = S], l)
BY DEF Kept, LibOK, LibShape, LibFields, Ticking

\* block_signals and unblock_signals.
LEMMA MaskUpdate ==
    ASSUME NEW l, NEW k, Kept(k, l)
    PROVE  Kept(Blocking(k), l) /\ Kept(Unblocking(k), l)
BY FreeUpdate DEF FreeFields, Blocking, Unblocking, Kept

\* Two assignments in one step.
LEMMA KeptTransitive ==
    ASSUME NEW l, NEW k, NEW m, Kept(k, l), Kept(m, k)
    PROVE  Kept(m, l)
BY DEF Kept

\* The library ends in undefined behaviour, or keeps its running thread.
Proceeds(l) == Kept(l, lib) \/ (LibInv(l) /\ l.ub)

\* erase(find(..)).
LEMMA ErasedProceeds ==
    ASSUME LibOK(lib), Ticking(lib), ~lib.ub
    PROVE  /\ Proceeds(ErasedFromQueue)
           /\ Proceeds(ErasedFromMap("blocked"))
           /\ Proceeds(ErasedFromMap("sleeping"))
<1>1. Proceeds(Undefined(lib))
  BY UndefinedInv DEF Proceeds, LibOK
<1>2. Kept([lib EXCEPT !.ready_queue = RemoveFirst(@, cpu.arg)], lib)
  BY FreeUpdate DEF FreeFields
<1>3. ASSUME NEW m \in {"blocked", "sleeping"}
      PROVE  Kept([lib EXCEPT ![m] = @ \ {cpu.arg}], lib)
  BY FreeUpdate DEF FreeFields
<1> QED
  BY <1>1, <1>2, <1>3 DEF ErasedFromQueue, ErasedFromMap, Proceeds

-----------------------------------------------------------------------------
(* The steps.                                                              *)

\* What is known in a state from which there are steps.
LEMMA Running ==
    ASSUME StepsInv, lib.status = "up"
    PROVE  /\ ~lib.ub /\ LibOK(lib) /\ Ticking(lib) /\ Kept(lib, lib)
           /\ ContextOK(cpu) /\ Runs(cpu, lib.running_thread) /\ SavedInv(env)
BY DEF StepsInv, LibInv, Kept

\* A step inside a call, or into one, or back, by the thread that runs.
LEMMA ProceedsStep ==
    ASSUME StepsInv, lib.status = "up", cpu.pc \notin {"jump", "give_up"},
           Proceeds(lib'), ContextOK(cpu'), cpu'.stack = cpu.stack, cpu'.pc # "jump",
           SavedInv(env')
    PROVE  StepsInv'
<1>1. LibInv(lib)'
  BY DEF Proceeds, Kept, LibInv
<1>2. ASSUME ~lib'.ub
      PROVE  Runs(cpu', lib'.running_thread)
  BY <1>2, Running DEF Proceeds, Kept, Runs, Own
<1> QED
  BY <1>1, <1>2 DEF StepsInv

\* The running thread goes on within a call.
LEMMA GotoContext ==
    ASSUME ContextOK(cpu), NEW pc, Goto(pc), pc \in Naming => cpu.arg \in Ids
    PROVE  ContextOK(cpu') /\ cpu'.stack = cpu.stack /\ cpu'.pc = pc
BY DEF ContextOK, Goto

\* The running thread enters a call, with its argument.
LEMMA CallContext ==
    ASSUME ContextOK(cpu), NEW pc, NEW arg, Call(pc, arg), pc \in Naming => arg \in Ids
    PROVE  ContextOK(cpu') /\ cpu'.stack = cpu.stack /\ cpu'.pc = pc /\ cpu'.arg = arg
BY DEF ContextOK, Call

\* The running thread returns to its own code.
LEMMA UserContext ==
    ASSUME NEW t
    PROVE  ContextOK(User(t)) /\ User(t).stack = t /\ User(t).pc = "user"
BY DEF ContextOK, User, Naming, Holding

\* A step within a call that assigns to the library's state.
LEMMA UpdateStep ==
    ASSUME StepsInv, NEW here, NEW l, NEW there, Update(here, l, there),
           here \notin {"jump", "give_up"}, there # "jump",
           there \in Naming => here \in Naming,
           Proceeds(l), SavedInv(env')
    PROVE  StepsInv'
<1>1. lib.status = "up" /\ cpu.pc = here /\ lib' = l /\ Goto(there)
  BY DEF Update, At
<1>2. ContextOK(cpu') /\ cpu'.stack = cpu.stack /\ cpu'.pc = there
  BY <1>1, Running, GotoContext DEF ContextOK
<1> QED
  BY <1>1, <1>2, ProceedsStep

\* The last assignment of a call: the signal is unblocked and the call
\* returns.
LEMMA LastUpdateStep ==
    ASSUME StepsInv, NEW here, NEW l, LastUpdate(here, l),
           here \notin {"jump", "give_up"}, Kept(l, lib), SavedInv(env')
    PROVE  StepsInv'
<1>1. lib.status = "up" /\ cpu.pc = here /\ lib' = Unblocking(l) /\ cpu' = User(cpu.stack)
  BY DEF LastUpdate, At, Return
<1>2. Proceeds(lib')
  BY <1>1, MaskUpdate DEF Proceeds
<1> QED
  BY <1>1, <1>2, UserContext, ProceedsStep

\* A step of thread code that leaves it in thread code.
LEMMA UserStep ==
    ASSUME StepsInv, At("user"), cpu' = cpu, Kept(lib', lib), SavedInv(env')
    PROVE  StepsInv'
BY ProceedsStep, Running DEF At, Proceeds

\* A step of thread code into a call.
LEMMA CallStep ==
    ASSUME StepsInv, At("user"), NEW pc, NEW arg, Call(pc, arg),
           pc # "jump", pc \in Naming => arg \in Ids,
           Kept(lib', lib), SavedInv(env')
    PROVE  StepsInv'
<1>1. lib.status = "up" /\ cpu.pc = "user"
  BY DEF At
<1>2. ContextOK(cpu') /\ cpu'.stack = cpu.stack /\ cpu'.pc = pc
  BY <1>1, Running, CallContext
<1> QED
  BY <1>1, <1>2, ProceedsStep DEF Proceeds

\* Saving a context, or using it up.
LEMMA SavedUpdate ==
    ASSUME NEW saved, SavedInv(saved), NEW t, NEW context, ContextOK(context),
           context = Stale \/ Own(context, t)
    PROVE  SavedInv([saved EXCEPT ![t] = context])
<1> DEFINE after == [saved EXCEPT ![t] = context]
<1>1. after = [u \in Ids |-> after[u]]
  BY DEF SavedInv
<1>2. \A u \in Ids : after[u] = IF u = t THEN context ELSE saved[u]
  BY DEF SavedInv
<1> HIDE DEF after
<1> QED
  BY <1>1, <1>2 DEF SavedInv

\* The context that a jump leaves behind.
LEMMA StaleContext == ContextOK(Stale)
BY DEF ContextOK, Stale, Naming, Holding

\* A thread saves its context at the beginning of a call.
LEMMA SaveContextSaves ==
    ASSUME StepsInv, At("user"), SaveContext
    PROVE  SavedInv(env')
<1>1. lib.status = "up" /\ cpu.pc = "user" /\ env' = [env EXCEPT ![lib.running_thread] = User(cpu.stack)]
  BY DEF At, SaveContext
<1>2. SavedInv(env) /\ cpu.stack = lib.running_thread
  BY <1>1, Running DEF Runs, Own
<1>3. Own(User(cpu.stack), lib.running_thread)
  BY <1>2, UserContext DEF Own
<1> QED
  BY <1>1, <1>2, <1>3, UserContext, SavedUpdate

\* Contexts whose thread is deleted change their place only.
LEMMA InvalidateSaves ==
    ASSUME SavedInv(env), NEW t, Invalidate(t)
    PROVE  SavedInv(env')
<1>1. ASSUME NEW u \in Ids
      PROVE  ContextOK(env'[u]) /\ (env'[u] = Stale \/ Own(env'[u], u))
  <2>1. ContextOK(env[u]) /\ (env[u] = Stale \/ Own(env[u], u))
    BY DEF SavedInv
  <2>2. CASE env[u].arg = t /\ env[u].pc \in Holding
    <3>1. env'[u] = [env[u] EXCEPT !.pc = "dangling"]
      BY <2>2 DEF Invalidate
    <3>2. /\ env'[u] = [stack |-> env[u].stack, pc |-> "dangling", arg |-> env[u].arg]
          /\ env[u] # Stale /\ env[u].pc # "jump"
      BY <2>1, <2>2, <3>1 DEF ContextOK, Holding, Stale
    <3> QED
      BY <2>1, <3>2 DEF ContextOK, Own, Naming, Holding
  <2>3. CASE ~(env[u].arg = t /\ env[u].pc \in Holding)
    BY <2>1, <2>3 DEF Invalidate
  <2> QED
    BY <2>2, <2>3
<1>2. env' = [u \in Ids |-> env'[u]]
  BY DEF Invalidate
<1> QED
  BY <1>1, <1>2 DEF SavedInv

\* A call gives the processor up.
LEMMA GiveUpStep ==
    ASSUME StepsInv, lib.status = "up", NEW l, LibOK(l), ~l.ub, GiveUp(l), SavedInv(env')
    PROVE  StepsInv'
<1> DEFINE k == [l EXCEPT !.timer = "cancelled", !.set_timer = TRUE]
<1>1. lib' = Decided(k) /\ Call("jump", lib'.running_thread)
  BY DEF GiveUp
<1>2. LibOK(k) /\ ~k.ub /\ k.set_timer = TRUE
  <2>1. LibShape(k)
    BY Zenon DEF LibOK, LibShape
  <2>2. /\ k.threads = l.threads /\ k.ids = l.ids /\ k.ub = l.ub /\ k.state = l.state
        /\ k.set_timer = TRUE
    BY SMT DEF LibOK, LibShape, LibFields
  <2> QED
    BY <2>1, <2>2 DEF LibOK
<1> HIDE DEF k
<1>3. LibInv(lib') /\ (~lib'.ub => lib'.running_thread \in Ids)
  BY <1>1, <1>2, DecidedInv
<1>4. cpu' = [cpu EXCEPT !.pc = "jump", !.arg = lib'.running_thread] /\ ContextOK(cpu)
  BY <1>1, Running DEF Call
<1>5. ASSUME ~lib'.ub
      PROVE  ContextOK(cpu') /\ Runs(cpu', lib'.running_thread)
  BY <1>3, <1>4, <1>5 DEF ContextOK, Runs, Own
<1> QED
  BY <1>3, <1>5 DEF StepsInv

\* siglongjmp to the thread that has been chosen.
LEMMA SwitchStep ==
    ASSUME NEW l, LibInv(l), NEW saved, SavedInv(saved), NEW t,
           ~l.ub => LibShape(l) /\ t = l.running_thread /\ t \in Ids, Switch(l, saved, t)
    PROVE  StepsInv'
<1>1. lib' = (IF saved[t] = Stale THEN Undefined(l) ELSE l) /\ cpu' = saved[t]
      /\ env' = [saved EXCEPT ![t] = Stale]
  BY DEF Switch
<1>2. SavedInv(env')
  BY <1>1, StaleContext, SavedUpdate
<1>3. CASE ~l.ub
  <2>1. CASE saved[t] = Stale
    BY <1>1, <1>3, <2>1, UndefinedInv DEF StepsInv
  <2>2. CASE saved[t] # Stale
    <3>1. ContextOK(cpu') /\ Own(cpu', lib'.running_thread) /\ lib' = l
      BY <1>1, <1>3, <2>2 DEF SavedInv
    <3> QED
      BY <1>2, <3>1 DEF StepsInv, Runs
  <2> QED
    BY <2>1, <2>2
<1>4. CASE l.ub
  BY <1>1, <1>4 DEF StepsInv, LibInv, Undefined
<1> QED
  BY <1>3, <1>4

-----------------------------------------------------------------------------
(* The invariant is established and kept.                                  *)

\* After uthread_init the main thread runs with the timer armed.
LEMMA StepsInit == Init => StepsInv
<1> SUFFICES ASSUME Init
             PROVE  StepsInv
  OBVIOUS
<1>1. LibOK(lib) /\ Ticking(lib) /\ ~lib.ub /\ lib.running_thread = Main
  BY IdFacts DEF Init, LibOK, LibShape, LibFields, Ticking, States
<1>2. ContextOK(cpu) /\ Own(cpu, Main)
  BY UserContext DEF Init, Own
<1>3. SavedInv(env)
  BY StaleContext DEF Init, SavedInv
<1> QED
  BY <1>1, <1>2, <1>3 DEF StepsInv, LibInv, Runs

\* The steps of uthread_spawn.
LEMMA SpawnPreserves ==
    ASSUME StepsInv,
           \/ (SpawnFails \/ SpawnTop \/ SpawnPop \/ SpawnPush) /\ UNCHANGED env
           \/ SpawnInsert
    PROVE  StepsInv'
<1>0. lib.status = "up"
  BY DEF SpawnFails, SpawnTop, SpawnPop, SpawnPush, SpawnInsert, Update, LastUpdate, At
<1>1. ~lib.ub /\ LibOK(lib) /\ Ticking(lib) /\ Kept(lib, lib) /\ ContextOK(cpu) /\ SavedInv(env)
  BY <1>0, Running
<1>2. CASE SpawnFails /\ UNCHANGED env
  BY <1>1, <1>2, MaskUpdate, UserStep DEF SpawnFails
<1>3. CASE SpawnTop /\ UNCHANGED env
  <2>1. Least(lib.ids) \in Ids
    BY <1>1, <1>3, LeastOf DEF SpawnTop, LibOK
  <2>2. Kept(lib', lib) /\ Call("spawn_pop", Least(lib.ids)) /\ At("user")
    BY <1>1, <1>3, MaskUpdate DEF SpawnTop
  <2> QED
    BY <1>1, <1>3, <2>1, <2>2, CallStep
<1>4. CASE SpawnPop /\ UNCHANGED env
  <2> DEFINE l == IF lib.ids = {} THEN Undefined(lib) ELSE [lib EXCEPT !.ids = @ \ {Least(@)}]
  <2>1. Proceeds(l)
    <3>1. Kept([lib EXCEPT !.ids = @ \ {Least(@)}], lib)
      BY <1>1, IdsUpdate DEF LibOK
    <3> QED
      BY <1>1, <3>1, UndefinedInv DEF Proceeds, LibOK
  <2>2. Update("spawn_pop", l, "spawn_insert")
    BY <1>4 DEF SpawnPop
  <2> HIDE DEF l
  <2> QED
    BY <1>1, <1>4, <2>1, <2>2, UpdateStep DEF Naming
<1>5. CASE SpawnPush /\ UNCHANGED env
  <2>1. Kept([lib EXCEPT !.ready_queue = Append(@, cpu.arg)], lib)
    BY <1>1, FreeUpdate DEF FreeFields
  <2> QED
    BY <1>1, <1>5, <2>1, LastUpdateStep DEF SpawnPush
<1>6. CASE SpawnInsert
  <2> DEFINE k == [lib EXCEPT !.threads = @ \union {cpu.arg},
                              !.state[cpu.arg] = "READY",
                              !.sleep[cpu.arg] = 0,
                              !.quantums[cpu.arg] = 0,
                              !.masked = @ \ {cpu.arg}]
             l == IF cpu.arg \in lib.threads THEN lib ELSE k
  <2>1. cpu.arg \in Ids
    BY <1>1, <1>6 DEF SpawnInsert, Update, At, ContextOK, Naming
  <2>2. Kept(k, lib)
    <3>1. LibShape(k)
      BY <1>1, Zenon DEF LibOK, LibShape
    <3>2. /\ k.threads = lib.threads \union {cpu.arg} /\ k.ids = lib.ids /\ k.ub = lib.ub
          /\ k.state = [lib.state EXCEPT ![cpu.arg] = "READY"]
          /\ k.running_thread = lib.running_thread /\ k.set_timer = lib.set_timer
          /\ k.timer = lib.timer /\ k.status = lib.status
      BY <1>1, SMT DEF LibOK, LibShape, LibFields
    <3> HIDE DEF k
    <3> QED
      BY <1>1, <2>1, <3>1, <3>2 DEF Kept, LibOK, Ticking, States
  <2>3. Update("spawn_insert", l, "spawn_push")
    BY <1>6 DEF SpawnInsert
  <2>4. env' = [env EXCEPT ![cpu.arg] = User(cpu.arg)]
    BY <1>6 DEF SpawnInsert
  <2>5. Proceeds(l)
    BY <1>1, <2>2 DEF Proceeds
  <2>6. SavedInv(env')
    BY <1>1, <2>1, <2>4, UserContext, SavedUpdate DEF Own
  <2> HIDE DEF l
  <2> QED
    BY <2>3, <2>5, <2>6, UpdateStep DEF Naming
<1> QED
  BY <1>2, <1>3, <1>4, <1>5, <1>6

\* The library with a thread's Thread deleted.
LEMMA FreedKept ==
    ASSUME NEW l, LibOK(l), Ticking(l), ~l.ub, NEW t \in Ids
    PROVE  Kept(Freed(l, t), l)
<1> DEFINE k == Freed(l, t)
<1>1. LibShape(k)
  BY Zenon DEF LibOK, LibShape, Freed
<1>2. /\ k.threads = l.threads /\ k.ids = l.ids \union {t} /\ k.ub = l.ub
      /\ k.state = [l.state EXCEPT ![t] = "READY"]
      /\ k.running_thread = l.running_thread /\ k.set_timer = l.set_timer
      /\ k.timer = l.timer /\ k.status = l.status
  BY SMT DEF LibOK, LibShape, LibFields, Freed
<1> HIDE DEF k
<1>3. Kept(k, l)
  BY <1>1, <1>2 DEF Kept, LibOK, Ticking, States
<1> QED
  BY <1>3 DEF k

\* The steps of uthread_terminate.
LEMMA TerminatePreserves ==
    ASSUME StepsInv,
           \/ /\ \/ TerminateMain \/ TerminateReady \/ TerminateBlocked \/ TerminateSleeping
                 \/ TerminatePush \/ \E tid \in Calls!TidArgs : TerminateFind(tid)
              /\ UNCHANGED env
           \/ TerminateErase \/ TerminateRunning
    PROVE  StepsInv'
<1>0. lib.status = "up"
  BY DEF TerminateMain, TerminateReady, TerminateBlocked, TerminateSleeping, TerminatePush,
         TerminateFind, TerminateErase, TerminateRunning, Update, LastUpdate, At
<1>1. ~lib.ub /\ LibOK(lib) /\ Ticking(lib) /\ Kept(lib, lib) /\ ContextOK(cpu) /\ SavedInv(env)
  BY <1>0, Running
<1>2. CASE TerminateMain /\ UNCHANGED env
  <2>1. lib' = [lib EXCEPT !.status = "exited"] /\ cpu' = cpu /\ env' = env
    BY <1>2 DEF TerminateMain
  <2>2. LibInv(lib') /\ ~lib'.ub /\ lib'.running_thread = lib.running_thread
    BY <1>1, <2>1 DEF LibInv, LibOK, LibShape, LibFields, Ticking
  <2> QED
    BY <1>0, <1>1, <2>1, <2>2, Running DEF StepsInv
<1>3. CASE /\ TerminateReady \/ TerminateBlocked \/ TerminateSleeping
           /\ UNCHANGED env
  <2>1. AfterPlace \in {"terminate_sleeping", "terminate_erase"}
    BY DEF AfterPlace
  <2>2. /\ Proceeds(ErasedFromQueue)
        /\ Proceeds(ErasedFromMap("blocked"))
        /\ Proceeds(ErasedFromMap("sleeping"))
    BY <1>1, ErasedProceeds
  <2>3. PICK here \in {"terminate_ready", "terminate_blocked", "terminate_sleeping"},
             there \in {"terminate_sleeping", "terminate_erase"} :
             \E l \in {ErasedFromQueue, ErasedFromMap("blocked"), ErasedFromMap("sleeping")} :
                Update(here, l, there)
    BY <1>3, <2>1 DEF TerminateReady, TerminateBlocked, TerminateSleeping
  <2>4. here \in Naming /\ here \notin {"jump", "give_up"} /\ there # "jump"
    BY DEF Naming, Holding
  <2> QED
    BY <1>1, <1>3, <2>2, <2>3, <2>4, UpdateStep
<1>4. CASE TerminatePush /\ UNCHANGED env
  <2>1. cpu.arg \in Ids
    BY <1>1, <1>4 DEF TerminatePush, LastUpdate, At, ContextOK, Naming
  <2> QED
    BY <1>1, <1>4, <2>1, FreedKept, LastUpdateStep DEF TerminatePush
<1>5. ASSUME NEW tid \in Calls!TidArgs, TerminateFind(tid), UNCHANGED env
      PROVE  StepsInv'
  <2>1. Kept(lib', lib) /\ At("user")
    BY <1>1, <1>5, MaskUpdate DEF TerminateFind
  <2>2. CASE tid \notin lib.threads
    BY <1>1, <1>5, <2>1, <2>2, UserStep DEF TerminateFind
  <2>3. CASE tid \in lib.threads
    <3>1. tid \in Ids /\ lib.state[tid] \in States
      BY <1>1, <2>3 DEF LibOK
    <3>2. PICK pc \in {"terminate_ready", "terminate_running", "terminate_blocked"} : Call(pc, tid)
      BY <1>5, <2>3, <3>1 DEF TerminateFind, States
    <3> QED
      BY <1>1, <1>5, <2>1, <3>1, <3>2, CallStep
  <2> QED
    BY <2>2, <2>3
<1>6. CASE TerminateErase
  <2>1. Kept([lib EXCEPT !.threads = @ \ {cpu.arg}], lib)
    BY <1>1, ThreadsUpdate DEF LibOK
  <2>2. SavedInv(env')
    BY <1>1, <1>6, InvalidateSaves DEF TerminateErase
  <2> QED
    BY <1>6, <2>1, <2>2, UpdateStep DEF TerminateErase, Proceeds, Naming, Holding
<1>7. CASE TerminateRunning
  <2> DEFINE f == Freed(lib, cpu.arg)
             l == [f EXCEPT !.threads = @ \ {cpu.arg}, !.running_thread = NoThread]
  <2>1. cpu.arg \in Ids
    BY <1>1, <1>7 DEF TerminateRunning, At, ContextOK, Naming, Holding
  <2>2. Kept(f, lib)
    BY <1>1, <2>1, FreedKept
  <2>3. GiveUp(l) /\ SavedInv(env')
    BY <1>1, <1>7, InvalidateSaves DEF TerminateRunning
  <2> HIDE DEF f
  <2>4. LibOK(l) /\ ~l.ub
    BY <2>2 DEF Kept, LibOK, LibShape, LibFields
  <2> HIDE DEF l
  <2> QED
    BY <1>0, <2>3, <2>4, GiveUpStep
<1> QED
  BY <1>2, <1>3, <1>4, <1>5, <1>6, <1>7

\* The steps of uthread_block, and of giving up the processor.
LEMMA BlockPreserves ==
    ASSUME StepsInv,
           \/ (BlockMark \/ BlockErase \/ BlockInsert \/ BlockSelf \/ BlockSelfInsert
                  \/ GiveUpProcessor) /\ UNCHANGED env
           \/ \E tid \in Calls!TidArgs : BlockFind(tid)
    PROVE  StepsInv'
<1>0. lib.status = "up"
  BY DEF BlockMark, BlockErase, BlockInsert, BlockSelf, BlockSelfInsert, GiveUpProcessor,
         BlockFind, Update, LastUpdate, At
<1>1. ~lib.ub /\ LibOK(lib) /\ Ticking(lib) /\ Kept(lib, lib) /\ ContextOK(cpu) /\ SavedInv(env)
  BY <1>0, Running
<1>2. Kept(Marked, lib)
  BY <1>1, StateUpdate DEF Marked, States
<1>3. ASSUME NEW tid \in Calls!TidArgs, BlockFind(tid)
      PROVE  StepsInv'
  <2>1. SavedInv(env') /\ At("user")
    BY <1>3, SaveContextSaves DEF BlockFind
  <2>2. CASE tid = Main \/ tid \notin lib.threads \/ lib.state[tid] = "BLOCKED"
    BY <1>1, <1>3, <2>1, <2>2, MaskUpdate, UserStep DEF BlockFind
  <2>3. CASE ~(tid = Main \/ tid \notin lib.threads \/ lib.state[tid] = "BLOCKED")
    <3>1. tid \in Ids
      BY <1>1, <2>3 DEF LibOK
    <3>2. PICK pc \in {"block_mark", "block_self"} : Call(pc, tid) /\ lib' = lib
      BY <1>3, <2>3 DEF BlockFind
    <3> QED
      BY <1>1, <2>1, <3>1, <3>2, CallStep
  <2> QED
    BY <2>2, <2>3
<1>4. CASE BlockMark /\ UNCHANGED env
  <2>1. PICK there \in {"block_erase", "block_insert"} : Update("block_mark", Marked, there)
    BY <1>4 DEF BlockMark
  <2> QED
    BY <1>1, <1>2, <1>4, <2>1, UpdateStep DEF Proceeds, Naming, Holding
<1>5. CASE BlockErase /\ UNCHANGED env
  BY <1>1, <1>5, ErasedProceeds, UpdateStep DEF BlockErase, Naming, Holding
<1>6. CASE BlockInsert /\ UNCHANGED env
  <2> DEFINE l == [Marked EXCEPT !.blocked = @ \union {cpu.arg}]
  <2>1. Kept(l, Marked)
    BY <1>1, <1>2, FreeUpdate DEF FreeFields, Kept
  <2>2. Kept(l, lib)
    BY <1>2, <2>1, KeptTransitive
  <2>3. LastUpdate("block_insert", l)
    BY <1>6 DEF BlockInsert
  <2> HIDE DEF l
  <2> QED
    BY <1>1, <1>6, <2>2, <2>3, LastUpdateStep
<1>7. CASE BlockSelf /\ UNCHANGED env
  BY <1>1, <1>2, <1>7, UpdateStep DEF BlockSelf, Proceeds, Naming, Holding
<1>8. CASE BlockSelfInsert /\ UNCHANGED env
  <2> DEFINE l == [lib EXCEPT !.blocked = @ \union {cpu.arg}]
  <2>1. Proceeds(l)
    BY <1>1, FreeUpdate DEF FreeFields, Proceeds
  <2>2. Update("block_self_insert", l, "give_up")
    BY <1>8 DEF BlockSelfInsert
  <2> HIDE DEF l
  <2> QED
    BY <1>1, <1>8, <2>1, <2>2, UpdateStep DEF Naming, Holding
<1>9. CASE GiveUpProcessor /\ UNCHANGED env
  <2> DEFINE l == [lib EXCEPT !.running_thread = NoThread]
  <2>1. LibOK(l) /\ ~l.ub
    BY <1>1 DEF LibOK, LibShape, LibFields
  <2>2. GiveUp(l)
    BY <1>9 DEF GiveUpProcessor
  <2> HIDE DEF l
  <2> QED
    BY <1>0, <1>1, <1>9, <2>1, <2>2, GiveUpStep
<1> QED
  BY <1>3, <1>4, <1>5, <1>6, <1>7, <1>8, <1>9

\* The steps of uthread_resume.
LEMMA ResumePreserves ==
    ASSUME StepsInv, UNCHANGED env,
           \/ ResumeErase \/ ResumeReady \/ ResumePush
           \/ \E tid \in Calls!TidArgs : ResumeFind(tid)
    PROVE  StepsInv'
<1>0. lib.status = "up"
  BY DEF ResumeErase, ResumeReady, ResumePush, ResumeFind, Update, LastUpdate, At
<1>1. ~lib.ub /\ LibOK(lib) /\ Ticking(lib) /\ Kept(lib, lib) /\ ContextOK(cpu) /\ SavedInv(env)
  BY <1>0, Running
<1>2. ASSUME NEW tid \in Calls!TidArgs, ResumeFind(tid)
      PROVE  StepsInv'
  <2>1. CASE tid \in lib.threads /\ lib.state[tid] = "BLOCKED"
    <3>1. tid \in Ids /\ Call("resume_erase", tid) /\ lib' = lib /\ At("user")
      BY <1>1, <1>2, <2>1 DEF LibOK, ResumeFind
    <3> QED
      BY <1>1, <3>1, CallStep
  <2>2. CASE ~(tid \in lib.threads /\ lib.state[tid] = "BLOCKED")
    BY <1>1, <1>2, <2>2, MaskUpdate, UserStep DEF ResumeFind
  <2> QED
    BY <2>1, <2>2
<1>3. CASE ResumeErase
  BY <1>1, <1>3, ErasedProceeds, UpdateStep DEF ResumeErase, Naming, Holding
<1>4. CASE ResumeReady
  <2> DEFINE ready == [lib EXCEPT !.state[cpu.arg] = "READY"]
  <2>1. Kept(ready, lib)
    BY <1>1, StateUpdate DEF States
  <2>2. /\ At("resume_ready")
        /\ IF lib.sleep[cpu.arg] = 0 THEN lib' = ready /\ Goto("resume_push")
                                     ELSE lib' = Unblocking(ready) /\ Return
    BY <1>4 DEF ResumeReady
  <2> HIDE DEF ready
  <2>3. CASE lib.sleep[cpu.arg] = 0
    BY <1>1, <2>1, <2>2, <2>3, UpdateStep DEF Update, Proceeds, Naming, Holding
  <2>4. CASE lib.sleep[cpu.arg] # 0
    BY <1>1, <2>1, <2>2, <2>4, LastUpdateStep DEF LastUpdate
  <2> QED
    BY <2>3, <2>4
<1>5. CASE ResumePush
  <2> DEFINE l == [lib EXCEPT !.ready_queue = Append(@, cpu.arg)]
  <2>1. Kept(l, lib)
    BY <1>1, FreeUpdate DEF FreeFields
  <2>2. LastUpdate("resume_push", l)
    BY <1>5 DEF ResumePush
  <2> HIDE DEF l
  <2> QED
    BY <1>1, <2>1, <2>2, LastUpdateStep
<1> QED
  BY <1>2, <1>3, <1>4, <1>5

\* The steps of uthread_sleep.
LEMMA SleepPreserves ==
    ASSUME StepsInv,
           \/ (SleepSet \/ SleepInsert \/ SleepReady \/ SleepLeave) /\ UNCHANGED env
           \/ \E n \in SleepArgs : SleepBegin(n)
    PROVE  StepsInv'
<1>0. lib.status = "up"
  BY DEF SleepSet, SleepInsert, SleepReady, SleepLeave, SleepBegin, Update, At
<1>1. ~lib.ub /\ LibOK(lib) /\ Ticking(lib) /\ Kept(lib, lib) /\ ContextOK(cpu) /\ SavedInv(env)
      /\ Runs(cpu, lib.running_thread)
  BY <1>0, Running
<1>2. ASSUME NEW n \in SleepArgs, SleepBegin(n)
      PROVE  StepsInv'
  <2>1. SavedInv(env') /\ At("user") /\ Kept(lib', lib)
    BY <1>1, <1>2, SaveContextSaves, MaskUpdate DEF SleepBegin
  <2>2. CASE lib.running_thread = Main
    BY <1>2, <2>1, <2>2, UserStep DEF SleepBegin
  <2>3. CASE lib.running_thread # Main
    BY <1>2, <2>1, <2>3, CallStep DEF SleepBegin, Naming, Holding
  <2> QED
    BY <2>2, <2>3
<1>3. CASE SleepSet /\ UNCHANGED env
  <2> DEFINE l == [lib EXCEPT !.sleep[lib.running_thread] = cpu.arg]
  <2>1. Proceeds(l)
    BY <1>1, FreeUpdate DEF FreeFields, Proceeds
  <2>2. Update("sleep_set", l, "sleep_insert")
    BY <1>3 DEF SleepSet
  <2> HIDE DEF l
  <2> QED
    BY <1>1, <1>3, <2>1, <2>2, UpdateStep DEF Naming, Holding
<1>4. CASE SleepInsert /\ UNCHANGED env
  <2> DEFINE l == [lib EXCEPT !.sleeping = @ \union {lib.running_thread}]
  <2>1. Proceeds(l)
    BY <1>1, FreeUpdate DEF FreeFields, Proceeds
  <2>2. Update("sleep_insert", l, "sleep_ready")
    BY <1>4 DEF SleepInsert
  <2> HIDE DEF l
  <2> QED
    BY <1>1, <1>4, <2>1, <2>2, UpdateStep DEF Naming, Holding
<1>5. CASE SleepReady /\ UNCHANGED env
  <2> DEFINE l == [lib EXCEPT !.state[lib.running_thread] = "READY"]
  <2>1. Proceeds(l)
    BY <1>1, StateUpdate DEF States, Proceeds
  <2>2. Update("sleep_ready", l, "sleep_leave")
    BY <1>5 DEF SleepReady
  <2> HIDE DEF l
  <2> QED
    BY <1>1, <1>5, <2>1, <2>2, UpdateStep DEF Naming, Holding
<1>6. CASE SleepLeave /\ UNCHANGED env
  <2>1. lib' = [lib EXCEPT !.running_thread = NoThread] /\ Goto("give_up") /\ env' = env
    BY <1>6 DEF SleepLeave, Update
  <2>2. LibInv(lib') /\ ~lib'.ub /\ lib'.running_thread = NoThread
    BY <1>1, <2>1 DEF LibInv, LibOK, LibShape, LibFields, Ticking
  <2>3. ContextOK(cpu') /\ cpu'.pc = "give_up"
    BY <1>1, <2>1, GotoContext DEF Naming, Holding
  <2> QED
    BY <1>1, <2>1, <2>2, <2>3 DEF StepsInv, Runs
<1> QED
  BY <1>2, <1>3, <1>4, <1>5, <1>6

\* uthread_get_quantums, error_handler, and what follows a dangling iterator.
LEMMA OthersPreserve ==
    ASSUME StepsInv, UNCHANGED env, GetQuantums \/ SystemError \/ Dangling
    PROVE  StepsInv'
<1>0. lib.status = "up"
  BY DEF GetQuantums, SystemError, Dangling, Update, At
<1>1. ~lib.ub /\ LibOK(lib) /\ Ticking(lib) /\ Kept(lib, lib) /\ ContextOK(cpu) /\ SavedInv(env)
      /\ Runs(cpu, lib.running_thread)
  BY <1>0, Running
<1>2. CASE GetQuantums
  BY <1>1, <1>2, MaskUpdate, UserStep DEF GetQuantums
<1>3. CASE SystemError
  <2>1. lib' = [lib EXCEPT !.status = "failed"] /\ cpu' = cpu /\ env' = env
    BY <1>3 DEF SystemError
  <2>2. LibInv(lib') /\ ~lib'.ub /\ lib'.running_thread = lib.running_thread
    BY <1>1, <2>1 DEF LibInv, LibOK, LibShape, LibFields, Ticking
  <2> QED
    BY <1>1, <2>1, <2>2 DEF StepsInv
<1>4. CASE Dangling
  <2>1. LibInv(lib') /\ lib'.ub
    BY <1>1, <1>4, UndefinedInv DEF Dangling, Update, LibOK
  <2> QED
    BY <2>1 DEF StepsInv
<1> QED
  BY <1>2, <1>3, <1>4

\* siglongjmp into the chosen thread runs that thread, from where it stopped.
LEMMA JumpPreserves == StepsInv /\ Jump => StepsInv'
<1> SUFFICES ASSUME StepsInv, Jump
             PROVE  StepsInv'
  OBVIOUS
<1>1. lib.status = "up" /\ cpu.pc = "jump" /\ Switch(lib, env, cpu.arg)
  BY DEF Jump, At
<1>2. /\ ~lib.ub /\ LibInv(lib) /\ SavedInv(env) /\ LibShape(lib)
      /\ cpu.arg = lib.running_thread /\ cpu.arg \in Ids
  BY <1>1, Running DEF StepsInv, LibOK, ContextOK, Runs, Own, Naming
<1> QED
  BY <1>1, <1>2, SwitchStep

\* An expiry that finds no running thread is undefined behaviour; any other
\* saves the running thread's own context.
LEMMA TickPreserves == StepsInv /\ Tick => StepsInv'
<1> SUFFICES ASSUME StepsInv, Tick
             PROVE  StepsInv'
  OBVIOUS
<1>0. lib.status = "up"
  BY DEF Tick
<1>1. ~lib.ub /\ LibOK(lib) /\ Ticking(lib) /\ ContextOK(cpu) /\ SavedInv(env)
      /\ Runs(cpu, lib.running_thread)
  BY <1>0, Running
<1>2. CASE lib.running_thread \notin lib.threads
  <2>1. lib' = Undefined(lib)
    BY <1>2 DEF Tick
  <2> QED
    BY <1>1, <2>1, UndefinedInv DEF StepsInv, LibOK
<1>3. CASE lib.running_thread \in lib.threads
  <2> DEFINE p == [lib EXCEPT !.ready_queue = Append(@, lib.running_thread),
                              !.state[lib.running_thread] = "READY"]
             l == Decided(p)
             saved == [env EXCEPT ![lib.running_thread] = cpu]
  <2>1. Switch(l, saved, l.running_thread)
    BY <1>3 DEF Tick
  <2>2. SavedInv(saved)
    <3>1. Own(cpu, lib.running_thread)
      BY <1>1, <1>3, IdFacts DEF Runs, LibOK
    <3> QED
      BY <1>1, <3>1, SavedUpdate
  <2>3. LibOK(p) /\ Ticking(p) /\ ~p.ub
    <3>1. LibShape(p)
      BY <1>1, Zenon DEF LibOK, LibShape
    <3>2. /\ p.threads = lib.threads /\ p.ids = lib.ids /\ p.ub = lib.ub
          /\ p.state = [lib.state EXCEPT ![lib.running_thread] = "READY"]
          /\ p.set_timer = lib.set_timer /\ p.timer = lib.timer
      BY <1>1, SMT DEF LibOK, LibShape, LibFields
    <3> HIDE DEF p
    <3> QED
      BY <1>1, <3>1, <3>2 DEF LibOK, Ticking, States
  <2> HIDE DEF p, saved
  <2>4. LibInv(l) /\ (~l.ub => l.running_thread \in Ids /\ LibShape(l))
    BY <2>3, DecidedInv DEF LibInv, LibOK
  <2> HIDE DEF l
  <2> QED
    BY <2>1, <2>2, <2>4, SwitchStep
<1> QED
  BY <1>2, <1>3

\* Every step preserves the invariant.
LEMMA StepsNext == StepsInv /\ [Next]_vars => StepsInv'
<1>1. StepsInv /\ UNCHANGED vars => StepsInv'
  BY DEF vars, StepsInv, SavedInv
<1>2. StepsInv /\ Next => StepsInv'
  BY SpawnPreserves, TerminatePreserves, BlockPreserves, ResumePreserves, SleepPreserves,
     OthersPreserve, JumpPreserves, TickPreserves
     DEF Next, ContextStep, PlainStep
<1> QED
  BY <1>1, <1>2

\* The invariant holds throughout.
LEMMA StepsInvHolds == Spec => []StepsInv
<1> QED
  BY StepsInit, StepsNext, PTL DEF Spec

-----------------------------------------------------------------------------
(* The theorems.                                                           *)

(***************************************************************************)
(* Wherever the timer has expired, and however often, thread code runs     *)
(* with the timer armed: whoever gets the processor can be made to give it *)
(* up.                                                                     *)
(***************************************************************************)
THEOREM TimerArmedForThreadsHolds == Spec => []TimerArmedForThreads
<1>1. StepsInv => TimerArmedForThreads
  BY DEF StepsInv, LibInv, Ticking, TimerArmedForThreads
<1> QED
  BY <1>1, StepsInvHolds, PTL

(***************************************************************************)
(* The thread code that runs is that of the thread which running_thread    *)
(* names: no context is ever saved, or jumped to, under another's number.  *)
(***************************************************************************)
THEOREM RunsItselfHolds == Spec => []RunsItself
<1>1. StepsInv => RunsItself
  BY DEF StepsInv, Runs, Own, RunsItself
<1> QED
  BY <1>1, StepsInvHolds, PTL
=============================================================================
