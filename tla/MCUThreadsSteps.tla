--------------------------- MODULE MCUThreadsSteps ---------------------------
(* UThreadsSteps on small instances. *)
EXTENDS UThreadsSteps

\* Arguments of uthread_sleep.
MCSleepArgs == {0, 2}
=============================================================================
