----------------------------- MODULE CommandServer -----------------------------
(***************************************************************************)
(* What the command server promises to its clients, without sockets and    *)
(* descriptors: it runs one command for every client that has connected,   *)
(* in the order in which they have, and only when the client has said all  *)
(* that it will say.  When the server stops, those who wait are not served. *)
(***************************************************************************)
EXTENDS Naturals, Sequences, SequencesExt

CONSTANTS Clients, Lengths

VARIABLES
    sent,      \* what each client has sent, 0 before and if it sends nothing
    connected, \* the clients that have connected and have not been served
    served,    \* the clients that have been served, in this order
    running    \* FALSE when the server has stopped

vars == <<sent, connected, served, running>>

Init ==
    /\ sent = [c \in Clients |-> 0]
    /\ connected = <<>>
    /\ served = <<>>
    /\ running = TRUE

Connect(c) ==
    /\ running
    /\ c \notin ToSet(connected) \union ToSet(served)
    /\ connected' = Append(connected, c)
    /\ UNCHANGED <<sent, served, running>>

Send(c) ==
    /\ running => c \in ToSet(connected)
    /\ c \notin ToSet(served)
    /\ sent[c] = 0
    /\ \E length \in Lengths : sent' = [sent EXCEPT ![c] = length]
    /\ UNCHANGED <<connected, served, running>>

Serve ==
    /\ connected # <<>>
    /\ served' = Append(served, Head(connected))
    /\ connected' = Tail(connected)
    /\ UNCHANGED <<sent, running>>

Stop ==
    /\ running
    /\ running' = FALSE
    /\ connected' = <<>>
    /\ UNCHANGED <<sent, served>>

Next == (\E c \in Clients : Connect(c) \/ Send(c)) \/ Serve \/ Stop

Spec == Init /\ [][Next]_vars
=============================================================================
