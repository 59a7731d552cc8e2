---------------------------- MODULE MCMapReduce ----------------------------
(* MapReduce on small instances. *)
EXTENDS MapReduce

MCTwoKeys == {1, 2}

(***************************************************************************)
(* With three threads, four choices of what map emits: two groups of three *)
(* and of two pairs; three pairs of one key; an input that emits nothing;  *)
(* no pair at all.                                                         *)
(***************************************************************************)
MCEmits ==
    {(0 :> {1, 2} @@ 1 :> {1} @@ 2 :> {1, 2}),
     (0 :> {1} @@ 1 :> {1} @@ 2 :> {1}),
     (0 :> {2} @@ 1 :> {} @@ 2 :> {1}),
     (0 :> {} @@ 1 :> {} @@ 2 :> {})}

MCInit == emits \in MCEmits /\ Init
MCSpec == MCInit /\ [][Next]_vars

MCFairSpec ==
    /\ MCSpec
    /\ \A t \in Threads : WF_vars(ThreadStep(t))
    /\ WF_vars(ClientStep)
=============================================================================
