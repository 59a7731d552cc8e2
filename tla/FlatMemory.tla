------------------------------ MODULE FlatMemory ------------------------------
(***************************************************************************)
(* What virtual memory promises to a program: a word that was written is   *)
(* read back unchanged until it is written again; an address beyond the    *)
(* end is refused.  A word that was never written may read as anything.    *)
(***************************************************************************)
EXTENDS Integers

CONSTANTS
    Addresses, \* the addresses that the program uses
    Size,      \* the size of the virtual memory
    Values,    \* the values that the program writes
    Words      \* the values of a word

VARIABLES
    memory, \* what was written last to each address, or Unwritten
    answer  \* the last call, and what it returned

vars == <<memory, answer>>

Unwritten == -1
NoAnswer == [op |-> "none", address |-> 0, ok |-> FALSE, word |-> 0]
Failure(op, a) == [op |-> op, address |-> a, ok |-> FALSE, word |-> 0]
Success(op, a, word) == [op |-> op, address |-> a, ok |-> TRUE, word |-> word]

Init ==
    /\ memory = [a \in Addresses |-> Unwritten]
    /\ answer = NoAnswer

Write(a, value) ==
    /\ a < Size
    /\ memory' = [memory EXCEPT ![a] = value]
    /\ answer' = Success("write", a, value)

Read(a) ==
    /\ a < Size
    /\ answer' \in {Success("read", a, word) : word \in Words}
    /\ memory[a] # Unwritten => answer'.word = memory[a]
    /\ UNCHANGED memory

Refuse(op, a) ==
    /\ a >= Size
    /\ answer' = Failure(op, a)
    /\ UNCHANGED memory

Next ==
    \E a \in Addresses :
        \/ \E value \in Values : Write(a, value)
        \/ Read(a)
        \/ \E op \in {"read", "write"} : Refuse(op, a)

Spec == Init /\ [][Next]_vars
=============================================================================
