----------------------------- MODULE MapReduceJob -----------------------------
(***************************************************************************)
(* What a MapReduce job promises to its client: map is called on every     *)
(* input; when the last of these calls has returned, reduce is called once *)
(* for every key that was emitted, with all the pairs that have this key.  *)
(***************************************************************************)
EXTENDS Bags, Sequences

CONSTANTS Inputs, Keys

VARIABLES
    emits,   \* the keys that map emits for each input
    mapped,  \* the inputs whose map has returned
    output   \* the groups reduce was called with, bags of pairs

vars == <<emits, mapped, output>>

\* All the pairs with key k.
Group(k) == SetToBag({<<i, k>> : i \in {i \in Inputs : k \in emits[i]}})

EmittedKeys == UNION {emits[i] : i \in Inputs}

Init ==
    /\ emits \in [Inputs -> SUBSET Keys]
    /\ mapped = {}
    /\ output = <<>>

Map(i) ==
    /\ i \notin mapped
    /\ mapped' = mapped \union {i}
    /\ UNCHANGED <<emits, output>>

Reduce(k) ==
    /\ mapped = Inputs
    /\ \A n \in DOMAIN output : output[n] # Group(k)
    /\ output' = Append(output, Group(k))
    /\ UNCHANGED <<emits, mapped>>

Next == (\E i \in Inputs : Map(i)) \/ (\E k \in EmittedKeys : Reduce(k))

Spec == Init /\ [][Next]_vars
=============================================================================
