---------------------------- MODULE BarrierRounds ----------------------------
(***************************************************************************)
(* Threads that use one barrier over and over ("a multiple use barrier",   *)
(* ex3/Barrier.h:5): every thread calls barrier() MaxRounds times, at      *)
(* moments of its own.  A thread that was signalled may be slow to return, *)
(* while others already arrive for the next round.                         *)
(***************************************************************************)
EXTENDS Barrier

CONSTANT MaxRounds \* bound: calls of barrier() by each thread

ASSUME NumThreadsAssumption == NumThreads \in Nat \ {0}
ASSUME MaxRoundsAssumption == MaxRounds \in Nat

VARIABLES
    calls,   \* how often each thread has called barrier()
    returns  \* how often it has returned

vars == <<count, waiting, calls, returns>>

Threads == 1 .. NumThreads

Init ==
    /\ BarrierInit
    /\ calls = [t \in Threads |-> 0]
    /\ returns = [t \in Threads |-> 0]

Call(t) ==
    /\ returns[t] = calls[t]
    /\ calls[t] < MaxRounds
    /\ calls' = [calls EXCEPT ![t] = @ + 1]
    /\ Arrive(t)
    /\ UNCHANGED returns

Return(t) ==
    /\ returns[t] < calls[t]
    /\ Released(t)
    /\ returns' = [returns EXCEPT ![t] = @ + 1]
    /\ UNCHANGED <<count, waiting, calls>>

Next == \E t \in Threads : Call(t) \/ Return(t)

Spec == Init /\ [][Next]_vars

\* Every thread keeps calling, and a released thread gets to run.
FairSpec ==
    /\ Spec
    /\ \A t \in Threads : WF_vars(Call(t)) /\ WF_vars(Return(t))

(***************************************************************************)
(* Nobody returns from its n-th call before everybody has made theirs, for *)
(* every n: the reset of the counter (38) keeps the rounds apart.          *)
(***************************************************************************)
NobodyLeavesEarly == \A t, u \in Threads : returns[t] <= calls[u]

(***************************************************************************)
(* Nobody is left behind: the last thread to arrive wakes all the others   *)
(* (39), and does not wait itself, so that every thread gets through all   *)
(* its rounds.                                                             *)
(***************************************************************************)
EverybodyPasses == <>(\A t \in Threads : returns[t] = MaxRounds)
=============================================================================
