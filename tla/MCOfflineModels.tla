-------------------------- MODULE MCOfflineModels --------------------------
(***************************************************************************)
(* The search and the release share no file, so that an instance runs one  *)
(* or the other: each may move while the other has not begun.              *)
(***************************************************************************)
EXTENDS ModelSearch, ModelRelease, TLC

CONSTANTS p1, p2, c1, c2, m1, m2

Registered == <<c1, c2>>

OfflineInit == Init /\ ReleaseInit
OfflineNext ==
    \/ ReleaseInit /\ Next /\ UNCHANGED releaseVars
    \/ Init /\ ReleaseNext /\ UNCHANGED vars
OfflineSpec == OfflineInit /\ [][OfflineNext]_<<vars, releaseVars>>

OfflineSymmetry == Permutations({p1, p2}) \cup Permutations({m1, m2})
=============================================================================
