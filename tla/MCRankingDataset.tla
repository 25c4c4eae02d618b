-------------------------- MODULE MCRankingDataset --------------------------
(***************************************************************************)
(* Instances of RankingDataset for TLC.                                    *)
(***************************************************************************)
EXTENDS RankingDataset, TLC

CONSTANTS p1, p2, t1, t2, r1, r2

DatasetSymmetry == Permutations({t1, t2}) \cup Permutations({r1, r2})
=============================================================================
