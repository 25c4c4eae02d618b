------------------------------ MODULE MCOutbox ------------------------------
(***************************************************************************)
(* Instances of Outbox for TLC.                                            *)
(***************************************************************************)
EXTENDS Outbox

CONSTANTS e1, e2, e3, d1, d2, p1, p2

\* e1 and e3 have the same key, e2 another one.
MCPartitionOf == [e \in Events |-> IF e = e2 THEN p2 ELSE p1]
=============================================================================
