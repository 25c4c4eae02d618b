--------------------------- MODULE MCInteractions ---------------------------
(***************************************************************************)
(* What users do, and what is stored about the preferences of one of them. *)
(* Preferences has the behaviour it needs in its own variables, so that an *)
(* instance runs the one module or the other.                              *)
(***************************************************************************)
EXTENDS Interactions, Preferences, TLC

CONSTANTS alice, bob, c1, c2, r1, r2, t1, t2

UserInit == Init /\ PrefInit
UserNext ==
    \/ PrefInit /\ Next /\ UNCHANGED prefVars
    \/ Init /\ PrefNext /\ UNCHANGED vars
UserSpec == UserInit /\ [][UserNext]_<<vars, prefVars>>

\* Requests are interchangeable, the ids of new comments, and the tasks.
UserSymmetry ==
    Permutations({r1, r2}) \cup Permutations({c1, c2}) \cup Permutations({t1, t2})
=============================================================================
