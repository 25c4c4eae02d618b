--------------------------- MODULE BehaviorReplay ---------------------------
(***************************************************************************)
(* Three readers of one history of behaviour events that must agree on     *)
(* what it says: derive_label of recommendation_label (module              *)
(* EngagementLabel defines its result, DeriveLabel is its loop),           *)
(* build_preference_vector_v2 and ranked_view_topics of the feature-store  *)
(* worker.  The history of one user grows by one event at a time, in any   *)
(* order of the times at which they occurred.                              *)
(***************************************************************************)
EXTENDS EngagementLabel, FiniteSets

CONSTANTS
    Templates,  \* what an event may be: type, post, dwell, impression, visit,
                \* session, destroy (trigger = "destroy"), topics
    MaxEvents,  \* bound on the history
    MaxTime,    \* events occur at 0..MaxTime
    LongRead,   \* qualified_read_ms
    VisitGap,   \* DIRECT_READ_VISIT_GAP
    Window,     \* WINDOW_DAYS
    MaxTopics,  \* MAX_TOPICS
    General,    \* the topic "general"
    None

ASSUME ReplayAssumption ==
    /\ {MaxEvents, MaxTime, LongRead, VisitGap, Window, MaxTopics} \subseteq Nat
    /\ LongRead > 0
    /\ \A t \in Templates : t.dwell \in Int /\ t.destroy \in BOOLEAN

VARIABLE log    \* behavior_events of the user
replayVars == <<log>>

ReplayInit == log = {}

\* An event is stored.  Its id is a UUID: any order among ids.
StoreEvent ==
    /\ Cardinality(log) < MaxEvents
    /\ \E t \in Templates, at \in 0..MaxTime,
          id \in (1..MaxEvents) \ {e.id : e \in log} :
         log' = log \cup
           {[id |-> id, type |-> t.type, post |-> t.post, dwell |-> t.dwell,
             impression |-> t.impression, visit |-> t.visit,
             session |-> t.session, destroy |-> t.destroy, topics |-> t.topics,
             occurred |-> at, ingested |-> Cardinality(log),
             long |-> t.dwell >= LongRead]}

ReplaySpec == ReplayInit /\ [][StoreEvent]_replayVars

(***************************************************************************)
(* The loop of derive_label                                                *)
(***************************************************************************)

Reversible == {"like", "save", "share", "hide"}

\* The events in the order a key gives them.
InOrder(events, before(_, _)) ==
    [i \in 1..Cardinality(events) |->
       CHOOSE e \in events : Cardinality({f \in events : before(f, e)}) = i - 1]

LabelStep(s, e, version) ==
    LET type == e.type
        mark == CASE type = "click" -> {"click"}
                  [] type = "comment" -> {"positive"}
                  [] type = "report" -> {"strong_negative"}
                  [] type \in {"view", "dwell"} /\ e.long ->
                       {IF version = "v2" THEN "qualified_read" ELSE "positive"}
                  [] OTHER -> {}
        viewed == IF type = "view" /\ version = "v1_views" THEN {"positive"} ELSE {}
    IN [active |-> IF type \in Reversible THEN s.active \cup {type}
                   ELSE IF type \in DOMAIN Reverses
                   THEN s.active \ {Reverses[type]} ELSE s.active,
        irreversible |-> s.irreversible \cup mark \cup viewed,
        visible |-> s.visible \/ type = "visible"]

DeriveLabel(events, version, closed) ==
    LET sorted == InOrder(events, Earlier)
        after[n \in 0..Cardinality(events)] ==
            IF n = 0 THEN [active |-> {}, irreversible |-> {}, visible |-> FALSE]
            ELSE LabelStep(after[n - 1], sorted[n], version)
        s == after[Cardinality(events)]
        found == s.irreversible
          \cup (IF "hide" \in s.active THEN {"strong_negative"} ELSE {})
          \cup (IF {"save", "share"} \cap s.active # {}
                THEN {"strong_positive"} ELSE {})
          \cup (IF "like" \in s.active THEN {"positive"} ELSE {})
        renamed == IF version # "v2" /\ "click" \in found
                   THEN (found \ {"click"}) \cup {"positive"} ELSE found
        candidates == IF s.visible \/ renamed = {}
                      THEN renamed \cup {IF closed THEN "negative" ELSE "exposure"}
                      ELSE renamed
    IN Foremost(candidates)

(***************************************************************************)
(* build_preference_vector_v2                                              *)
(***************************************************************************)

ReplayedBefore(e, f) ==
    e.occurred < f.occurred \/ (e.occurred = f.occurred /\ e.id < f.id)

\* A read that nothing identifies but its session and post joins the visit
\* under way or begins a new one.
SameVisit(v, e) ==
    /\ e.occurred - v.last <= VisitGap
    /\ ~ (e.type = "view" /\ v.viewed)
    /\ ~ (e.type = "dwell" /\ e.dwell >= 0 /\ e.dwell < v.longest)

\* Every qualified read of a visit is counted.
MUT_DirectRead(s, e) ==
    IF e.long THEN [s EXCEPT !.reads = @ \cup {e}] ELSE s

DirectRead(s, e) ==
    LET own == {v \in s.direct : v.session = e.session /\ v.post = e.post}
        fresh == [session |-> e.session, post |-> e.post, last |-> e.occurred,
                  counted |-> FALSE, viewed |-> FALSE, longest |-> 0]
        visit == IF \E v \in own : SameVisit(v, e)
                 THEN CHOOSE v \in own : SameVisit(v, e) ELSE fresh
        after == [visit EXCEPT !.last = e.occurred,
                    !.viewed = @ \/ e.type = "view",
                    !.longest = IF e.dwell > @ THEN e.dwell ELSE @,
                    !.counted = @ \/ e.long]
    IN [s EXCEPT !.reads = IF e.long /\ ~visit.counted THEN @ \cup {e} ELSE @,
                 !.direct = (@ \ own) \cup (IF e.destroy THEN {} ELSE {after})]

\* A view or dwell event: once per impression, once per visit if the client
\* names it, else by DirectRead; without even a session on its own.
ReadStep(s, e) ==
    LET same(f) == IF e.impression # None THEN f.impression = e.impression
                   ELSE /\ f.impression = None /\ f.visit = e.visit
                        /\ f.session = e.session /\ f.post = e.post
    IN IF e.impression # None \/ e.visit # None
       THEN IF e.long /\ ~ \E f \in s.reads : same(f)
            THEN [s EXCEPT !.reads = @ \cup {e}] ELSE s
       ELSE IF e.session = None
       THEN IF e.long THEN [s EXCEPT !.reads = @ \cup {e}] ELSE s
       ELSE DirectRead(s, e)

ReplayStep(s, e) ==
    CASE e.type \in {"view", "dwell"} -> ReadStep(s, e)
      [] e.type \in Reversible ->
           [s EXCEPT !.active = {f \in @ : f.post # e.post \/ f.type # e.type}
                                 \cup {e}]
      [] e.type \in DOMAIN Reverses ->
           [s EXCEPT !.active = {f \in @ : f.post # e.post
                                           \/ f.type # Reverses[e.type]}]
      [] e.type \in {"click", "report", "comment"} ->
           [s EXCEPT !.other = @ \cup {e}]
      [] OTHER -> s

\* The contributions of a history, before they are weighted.
Contributions(events) ==
    LET sorted == InOrder(events, ReplayedBefore)
        after[n \in 0..Cardinality(events)] ==
            IF n = 0 THEN [active |-> {}, reads |-> {}, other |-> {}, direct |-> {}]
            ELSE ReplayStep(after[n - 1], sorted[n])
    IN after[Cardinality(events)]

(***************************************************************************)
(* ranked_view_topics                                                      *)
(***************************************************************************)

\* Every view counts.
MUT_LatestViews(views) == views

\* latest_by_post: of two at one time the first in order of replay.
LatestViews(views) ==
    {e \in views : \A f \in views : f.post = e.post =>
        f.occurred < e.occurred \/ (f.occurred = e.occurred /\ e.id <= f.id)}

\* Half of a view's weight goes per unit of time; topics share it.  (Weights
\* are whole numbers: a view has 12 * 2 ^ MaxTime when it happens.)
TopicScore(latest, topic) ==
    LET weight(e) == (12 * 2 ^ e.occurred) \div Cardinality(e.topics \ {General})
        relevant == {e \in latest : topic \in e.topics}
    IN FoldFunction(+, 0, [e \in relevant |-> weight(e)])

\* ranked_topics[:MAX_TOPICS], of the views that count.
TopTopics(latest) ==
    LET topics == (UNION {e.topics : e \in latest}) \ {General}
        before(t, u) == \/ TopicScore(latest, t) > TopicScore(latest, u)
                        \/ /\ TopicScore(latest, t) = TopicScore(latest, u)
                           /\ t < u
        all == InOrder(topics, before)
    IN SubSeq(all, 1, IF Len(all) < MaxTopics THEN Len(all) ELSE MaxTopics)

RankedViewTopics(events) ==
    TopTopics(LatestViews({e \in events : /\ e.type \in {"view", "dwell"}
                                          /\ e.occurred >= MaxTime - Window}))

(***************************************************************************)
(* Properties                                                              *)
(***************************************************************************)

\* The loop of derive_label computes the label that EngagementLabel defines,
\* in every version and with the window open or closed.
LoopComputesLabel ==
    \A version \in LabelVersions, closed \in BOOLEAN :
       DeriveLabel(log, version, closed) = Semantic(log, version, closed)

\* No reversible action and its reversal on one post at the same time: for
\* these the label looks at ingested_at, the vector at the event id.
NoTies ==
    \A e, f \in log :
       /\ f.type \in DOMAIN Reverses /\ Reverses[f.type] = e.type
       /\ e.post = f.post
       => e.occurred # f.occurred

\* The preference vector holds an action on a post exactly if the label calls
\* it active, and a qualified read of an impression exactly once if the label
\* of that impression qualifies as read.
VectorAgreesWithLabel ==
    LET found == Contributions(log)
        of(p) == {e \in log : e.post = p}
        shown(i) == {e \in log : e.impression = i}
    IN /\ NoTies => \A p \in {e.post : e \in log}, kind \in Reversible :
            (\E e \in found.active : e.post = p /\ e.type = kind)
              <=> Active(of(p), kind)
       /\ \A i \in {e.impression : e \in log} \ {None} :
            Cardinality({e \in found.reads : e.impression = i}) =
              IF "qualified_read" \in Qualifies(shown(i), "v2", TRUE)
              THEN 1 ELSE 0

\* The events of a session on a post from e to f that name no visit.
Between(e, f) ==
    {g \in log : /\ g.type \in {"view", "dwell"}
                 /\ g.session = e.session /\ g.post = e.post
                 /\ g.impression = None /\ g.visit = None
                 /\ (g = e \/ ReplayedBefore(e, g))
                 /\ (g = f \/ ReplayedBefore(g, f))}

\* Something in between says that the reader left: a pause, the page destroyed,
\* another view, or a dwell time that started again.
Left(e, f) ==
    LET path == Between(e, f)
        next(g, h) == /\ ReplayedBefore(g, h)
                      /\ ~ \E k \in path : ReplayedBefore(g, k) /\ ReplayedBefore(k, h)
    IN \E g, h \in path : /\ next(g, h)
                          /\ \/ h.occurred - g.occurred > VisitGap
                             \/ g.destroy \/ h.type = "view"
                             \/ \E k \in path : /\ h.dwell >= 0 /\ h.dwell < k.dwell
                                                /\ ReplayedBefore(k, h)

\* A visit counts as one read.  If the client names it that is the name; if only
\* a session identifies it, two reads of a post are counted only if the reader
\* left in between, and a qualified read is left out only if one was counted and
\* the reader stayed.
VisitsCountedOnce ==
    LET reads == Contributions(log).reads
        direct == {e \in log : /\ e.type \in {"view", "dwell"} /\ e.long
                               /\ e.impression = None /\ e.visit = None
                               /\ e.session # None}
        pairs == {p \in direct \X direct :
                    /\ p[1].session = p[2].session /\ p[1].post = p[2].post
                    /\ ReplayedBefore(p[1], p[2])}
        paused(e, f) == \E g \in Between(e, f) \ {f} :
                          \/ g.destroy
                          \/ \A h \in Between(e, f) : ReplayedBefore(g, h) =>
                               h.occurred - g.occurred > VisitGap
    IN /\ \A e, f \in reads :
            /\ e.impression = None /\ f.impression = None
            /\ e.visit # None /\ e.visit = f.visit
            /\ e.session = f.session /\ e.post = f.post
            => e = f
       /\ \A p \in pairs : p[1] \in reads /\ p[2] \in reads => Left(p[1], p[2])
       /\ \A f \in direct \ reads :
            \E p \in pairs : /\ p[2] = f /\ p[1] \in reads
                             /\ ~ paused(p[1], f)

\* A late record of a view changes no inferred topic when a newer view of the
\* same post is known already.
OldViewsChangeNothing ==
    [][\A e \in log' \ log :
         (\E f \in log : /\ f.type \in {"view", "dwell"} /\ f.post = e.post
                         /\ f.occurred > e.occurred)
         => RankedViewTopics(log') = RankedViewTopics(log)]_replayVars
=============================================================================
