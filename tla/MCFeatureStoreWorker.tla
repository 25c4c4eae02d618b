------------------------ MODULE MCFeatureStoreWorker ------------------------
(***************************************************************************)
(* Instances of FeatureStoreWorker for TLC.                                *)
(***************************************************************************)
EXTENDS FeatureStoreWorker, TLC

CONSTANTS like, view, junk, save, alice, gone, p1, p2, w1, w2

\* alice likes and saves posts of two partitions and views one of the second;
\* junk is an event of a user who deleted the account.
MCUserOf ==
    LET of == (like :> alice) @@ (save :> alice) @@ (view :> alice) @@ (junk :> gone)
    IN [e \in Events |-> of[e]]

MCPartitionOf ==
    LET of == (like :> p1) @@ (save :> p2) @@ (view :> p2) @@ (junk :> p1)
    IN [e \in Events |-> of[e]]

MCOnePartition == [e \in Events |-> p1]

WorkerSymmetry == Permutations({w1, w2})
=============================================================================
