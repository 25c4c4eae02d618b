--------------------------- MODULE FeatureLedger ----------------------------
(***************************************************************************)
(* What the event pipeline promises, without its machinery: an interaction *)
(* that was accepted is added to its user's preference vector exactly      *)
(* once.  Neither the outbox, nor Kafka, nor receipts, nor retries appear. *)
(***************************************************************************)
EXTENDS Naturals

CONSTANTS Events, Users, UserOf

VARIABLES
    accepted,  \* interactions whose request transaction has committed
    vector     \* per user, how often each event was added

vars == <<accepted, vector>>

TypeOK ==
    /\ accepted \subseteq Events
    /\ vector \in [Users -> [Events -> Nat]]

Init ==
    /\ accepted = {}
    /\ vector = [u \in Users |-> [e \in Events |-> 0]]

Accept(e) ==
    /\ e \notin accepted
    /\ accepted' = accepted \cup {e}
    /\ UNCHANGED vector

\* The accepted events of a user that the vector does not hold yet.
Outstanding(u) == {e \in accepted : UserOf[e] = u /\ vector[u][e] = 0}

\* Some outstanding events of a user are added, each once.
ApplyBatch(u, S) ==
    /\ S # {}
    /\ S \subseteq Outstanding(u)
    /\ vector' = [vector EXCEPT ![u] =
                     [e \in Events |-> @[e] + (IF e \in S THEN 1 ELSE 0)]]
    /\ UNCHANGED accepted

ApplyEvent(e) ==
    \E S \in SUBSET Events : e \in S /\ ApplyBatch(UserOf[e], S)

Next ==
    \/ \E e \in Events : Accept(e)
    \/ \E u \in Users, S \in SUBSET Events : ApplyBatch(u, S)

\* An accepted event is applied at some time.
Spec == Init /\ [][Next]_vars /\ \A e \in Events : WF_vars(ApplyEvent(e))
=============================================================================
