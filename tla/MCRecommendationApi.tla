------------------------ MODULE MCRecommendationApi ------------------------
(***************************************************************************)
(* Instances of RecommendationApi for TLC.                                 *)
(***************************************************************************)
EXTENDS RecommendationApi, TLC

CONSTANTS r1, r2

\* Post 2 and post 3 are of one author, 1 and 2 on one topic; the heuristic and
\* the model disagree on all of them.
MCSimilarity == <<4, 3, 2, 1>>
MCExcluded == r1 :> {} @@ r2 :> {4}
MCHeuristic == <<40, 50, 45, 42>>
MCModel == <<50, 40, 41, 49>>
MCAuthor == <<"a", "b", "b", "c">>
MCTopic == <<"x", "x", "y", "z">>
=============================================================================
