---------------------------- MODULE MCAlgorithms ----------------------------
(***************************************************************************)
(* The history of events and the dataset to split have nothing in common:  *)
(* an instance grows the one or the other.                                 *)
(***************************************************************************)
EXTENDS BehaviorReplay, DatasetSplit

CONSTANTS i1, s1, v1

Act(type) == [type |-> type, post |-> 1, dwell |-> -1, impression |-> None,
              visit |-> None, session |-> None, destroy |-> FALSE,
              topics |-> {0}]
Read(type, post, dwell, topics) ==
    [type |-> type, post |-> post, dwell |-> dwell, impression |-> None,
     visit |-> None, session |-> s1, destroy |-> FALSE, topics |-> topics]

MCTemplates ==
    {Act(type) : type \in {"like", "unlike", "hide", "unhide", "save", "click",
                              "comment", "visible", "report"}}
    \cup {Read("view", 1, -1, {1}), Read("dwell", 1, 1, {1}),
          Read("dwell", 1, 2, {1, 2}), Read("dwell", 2, 2, {2, 3}),
          [Read("dwell", 1, 2, {1}) EXCEPT !.destroy = TRUE],
          [Read("dwell", 1, 2, {1}) EXCEPT !.visit = v1],
          [Read("view", 1, 2, {1}) EXCEPT !.impression = i1]}

AlgorithmsInit == ReplayInit /\ SplitInit
AlgorithmsNext ==
    \/ SplitInit /\ StoreEvent /\ UNCHANGED splitVars
    \/ ReplayInit /\ ServeRequest /\ UNCHANGED replayVars
AlgorithmsSpec == AlgorithmsInit /\ [][AlgorithmsNext]_<<replayVars, splitVars>>
=============================================================================
