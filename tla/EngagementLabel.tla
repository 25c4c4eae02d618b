-------------------------- MODULE EngagementLabel --------------------------
(***************************************************************************)
(* derive_label of recommendation_label/__init__.py: the label of an       *)
(* impression from the behaviour events that belong to it.                 *)
(*                                                                         *)
(* An event is a record with id, type, occurred, ingested and long (it     *)
(* carries a duration of at least qualified_read_ms).  Ids are unique: the *)
(* callers have removed duplicates and refused conflicting ones.           *)
(***************************************************************************)
EXTENDS Integers, Sequences, SequencesExt

\* REVERSALS
Reverses == [unlike |-> "like", unsave |-> "save", unshare |-> "share",
             unhide |-> "hide"]

\* PRECEDENCE
Precedence == <<"strong_negative", "strong_positive", "positive",
                "qualified_read", "click", "negative", "exposure">>

\* The order of processing: occurred_at, ingested_at, event id.
Earlier(e, f) ==
    \/ e.occurred < f.occurred
    \/ e.occurred = f.occurred /\ e.ingested < f.ingested
    \/ e.occurred = f.occurred /\ e.ingested = f.ingested /\ e.id < f.id

\* A like stays although it was taken back.
MUT_Active(events, kind) == \E e \in events : e.type = kind

\* The flag of a reversible action after the last event: set, and not taken
\* back since.
Active(events, kind) ==
    \E e \in events :
       /\ e.type = kind
       /\ \A f \in events :
            f.type \in DOMAIN Reverses /\ Reverses[f.type] = kind
              => Earlier(f, e)

\* label_version: "v1_views" is "v1" with v1_any_view_positive, as the evaluation
\* of recommendation_api labels old events.
LabelVersions == {"v1", "v1_views", "v2"}

Irreversible(events, version) ==
    {"click" : e \in {f \in events : f.type = "click"}}
    \cup {"positive" : e \in {f \in events : f.type = "comment"}}
    \cup {"strong_negative" : e \in {f \in events : f.type = "report"}}
    \cup {IF version = "v2" THEN "qualified_read" ELSE "positive" :
            e \in {f \in events : f.type \in {"view", "dwell"} /\ f.long}}
    \cup {"positive" : e \in {f \in events : f.type = "view" /\ version = "v1_views"}}

\* The semantics an impression qualifies for; v1 counts a click as positive.
Qualifies(events, version, closed) ==
    LET kept == Irreversible(events, version)
        active == (IF Active(events, "hide") THEN {"strong_negative"} ELSE {})
                  \cup (IF Active(events, "save") \/ Active(events, "share")
                        THEN {"strong_positive"} ELSE {})
                  \cup (IF Active(events, "like") THEN {"positive"} ELSE {})
        all == kept \cup active
        named == IF version # "v2" /\ "click" \in all
                 THEN (all \ {"click"}) \cup {"positive"} ELSE all
    IN IF named = {} \/ \E e \in events : e.type = "visible"
       THEN named \cup {IF closed THEN "negative" ELSE "exposure"}
       ELSE named

\* The first of some semantics, by precedence.
Foremost(semantics) ==
    Precedence[CHOOSE i \in DOMAIN Precedence :
                 /\ Precedence[i] \in semantics
                 /\ \A j \in 1..i-1 : Precedence[j] \notin semantics]

\* semantic of the LabelResult, and those whose training_target is 1.
Semantic(events, version, closed) == Foremost(Qualifies(events, version, closed))

PositiveSemantics == {"click", "qualified_read", "positive", "strong_positive"}
=============================================================================
