-------------------------- MODULE MCEventPipeline ---------------------------
(***************************************************************************)
(* Instances of EventPipeline for TLC.                                     *)
(***************************************************************************)
EXTENDS EventPipeline, TLC

CONSTANTS like, save, alice, p1

MCUserOf == [e \in Events |-> alice]
MCPartitionOf == [e \in Events |-> p1]
=============================================================================
