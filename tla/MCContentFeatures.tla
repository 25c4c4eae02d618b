------------------------- MODULE MCContentFeatures -------------------------
(***************************************************************************)
(* Instances of ContentFeatures for TLC.                                   *)
(***************************************************************************)
EXTENDS ContentFeatures

CONSTANTS t1, t2

\* A post begins with the first text and perhaps labels that are refused;
\* its edit brings the second text, which also repairs the labels.
MCCreates == {<<t1, "none">>, <<t1, "bad">>}
MCUpdates == {<<t2, "none">>}
=============================================================================
