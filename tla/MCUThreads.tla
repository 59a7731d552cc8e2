----------------------------- MODULE MCUThreads -----------------------------
(* UThreads on small instances. *)
EXTENDS UThreads

\* Arguments of uthread_sleep: negative, zero, and longer than a quantum.
MCSleepArgs == {-1, 0, 2}
MCShortSleeps == {0, 2}
=============================================================================
