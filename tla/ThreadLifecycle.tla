--------------------------- MODULE ThreadLifecycle ---------------------------
(***************************************************************************)
(* What the thread library promises to its callers: which thread has the   *)
(* processor, which threads exist, and which of them are suspended or      *)
(* dormant.  How the next thread is chosen and how long a sleep lasts are  *)
(* left open.  Once something undefined has happened nothing is promised.  *)
(***************************************************************************)
CONSTANTS Threads, Main

VARIABLES current, alive, suspended, dormant, process, undefined

vars == <<current, alive, suspended, dormant, process, undefined>>

Init ==
    /\ current = Main
    /\ alive = {Main}
    /\ suspended = {}
    /\ dormant = {}
    /\ process = "up"
    /\ undefined = FALSE

\* A new thread may run at once.
Create(t) ==
    /\ t \notin alive
    /\ alive' = alive \union {t}
    /\ UNCHANGED <<current, suspended, dormant, process>>

\* A thread other than the current one ceases to exist, whatever it was doing.
Destroy(t) ==
    /\ t \in alive \ {Main, current}
    /\ alive' = alive \ {t}
    /\ suspended' = suspended \ {t}
    /\ dormant' = dormant \ {t}
    /\ UNCHANGED <<current, process>>

Suspend(t) ==
    /\ t \in alive \ ({Main, current} \union suspended)
    /\ suspended' = suspended \union {t}
    /\ UNCHANGED <<current, alive, dormant, process>>

Resume(t) ==
    /\ t \in suspended
    /\ suspended' = suspended \ {t}
    /\ UNCHANGED <<current, alive, dormant, process>>

(***************************************************************************)
(* The processor changes hands.  The current thread stays runnable, or     *)
(* leaves by its own will: it ends, suspends itself or goes dormant, which *)
(* the main thread may not do.  Some dormant threads, the one that leaves  *)
(* perhaps among them, are woken; a runnable thread gets the processor.    *)
(***************************************************************************)
Switch ==
    LET leaving == {current} \ {Main}
    IN  /\ alive' \in {alive, alive \ leaving}
        /\ suspended' \in {suspended, suspended \union leaving}
        /\ dormant' \subseteq dormant \union leaving
        /\ current' \in alive' \ (suspended' \union dormant')
        /\ UNCHANGED process

Exit ==
    /\ process' \in {"exited", "failed"}
    /\ UNCHANGED <<current, alive, suspended, dormant>>

Next ==
    \/ /\ process = "up"
       /\ undefined' = undefined
       /\ \/ \E t \in Threads : Create(t) \/ Destroy(t) \/ Suspend(t) \/ Resume(t)
          \/ Switch
          \/ Exit
    \/ undefined'

Spec == Init /\ [][Next]_vars
=============================================================================
