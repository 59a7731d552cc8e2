------------------------------- MODULE Barrier -------------------------------
(***************************************************************************)
(* The barrier of ex3/Barrier.cpp: a counter and a condition variable,     *)
(* both used under the barrier's mutex only, so that what a thread does    *)
(* between acquiring and releasing the mutex is one step.                  *)
(*                                                                         *)
(* A thread calls barrier() with the step Arrive, and returns from it, in  *)
(* a later step, when Released holds.  Line 32 waits on the condition      *)
(* variable with an `if`, not a loop, so that a spurious wakeup, which     *)
(* POSIX allows, releases a thread that nobody has signalled.              *)
(***************************************************************************)
EXTENDS Integers

CONSTANT NumThreads \* numThreads

VARIABLES
    count,   \* count: arrivals since the last broadcast
    waiting  \* the threads waiting on the condition variable

BarrierInit == count = 0 /\ waiting = {}

\* Seeded fault: the counter is not reset for the next use.
ArriveNoReset(t) ==
    IF count + 1 < NumThreads
      THEN count' = count + 1 /\ waiting' = waiting \union {t}
      ELSE count' = count + 1 /\ waiting' = {}

\* Seeded fault: the last thread to arrive waits like the others.
ArriveAllWait(t) ==
    IF count < NumThreads
      THEN count' = count + 1 /\ waiting' = waiting \union {t}
      ELSE count' = 0 /\ waiting' = {}

\* Seeded fault: one arrival too few opens the barrier.
ArriveOneShort(t) ==
    IF count + 2 < NumThreads
      THEN count' = count + 1 /\ waiting' = waiting \union {t}
      ELSE count' = 0 /\ waiting' = {}

\* The last thread to arrive resets the counter and wakes all the others.
Arrive(t) ==
    IF count + 1 < NumThreads
      THEN count' = count + 1 /\ waiting' = waiting \union {t}
      ELSE count' = 0 /\ waiting' = {}

\* t may return from barrier(): it does not wait, or no longer.
Released(t) == t \notin waiting

\* pthread_cond_wait returns to t although nobody has signalled.
SpuriousWakeup(t) ==
    /\ t \in waiting
    /\ waiting' = waiting \ {t}
    /\ UNCHANGED count
=============================================================================
